---------------------------- MODULE Replication ----------------------------
(* Replication between servers (replication.c): replication ids and offsets,  *)
(* the backlog, partial and full resynchronization, promotion and demotion,   *)
(* chained replicas, the FAILOVER command, and restarts from an RDB file.     *)
(*                                                                            *)
(* One record server[n] stands for the struct `server` of a process; the      *)
(* functions of the source are operators from one such record to the next, and *)
(* an action installs the result.  A dataset is the sequence of the writes    *)
(* that produced it; a unit of the replication stream is one write, and fills *)
(* one block of the replication buffer.  The connection a replica opens to    *)
(* its primary is net[n]: it delivers in order and loses its tail when it     *)
(* breaks, which the two ends notice at different times.                      *)
EXTENDS Integers, Sequences, FiniteSets

CONSTANTS
    Nodes,         \* the processes
    None,          \* NULL
    BacklogSize,   \* repl-backlog-size, in writes
    RdbTargets,    \* where a BGSAVE for replication may go: "disk", "socket"
    MaxWrites,     \* bound on the writes of clients
    MaxIds,        \* bound on the replication ids generated
    MaxCommands,   \* bound on REPLICAOF, FAILOVER and BGSAVE commands
    MaxFaults      \* bound on restarts, broken links and failed transfers

ASSUME ConstantsAssumption ==
    /\ IsFiniteSet(Nodes) /\ None \notin Nodes
    /\ RdbTargets \subseteq {"disk", "socket"}
    /\ BacklogSize \in Nat /\ MaxWrites \in Nat /\ MaxIds \in Nat
    /\ MaxCommands \in Nat /\ MaxFaults \in Nat

VARIABLES
    server,    \* per node the volatile state of the process
    disk,      \* per node the RDB file: the dataset and the replication info
    net,       \* per node the connection it has opened to its primary
    written,   \* number of writes made by clients so far
    ids,       \* number of replication ids generated so far
    commands,  \* number of operator commands so far
    faults,    \* number of faults so far
    made       \* history: the datasets the clients' writes have made

vars == <<server, disk, net, written, ids, commands, faults, made>>

\* The first id of a node is the node itself, later ones are numbers: a random
\* id of 160 bits is taken to be new.
Ids == Nodes \cup 1..MaxIds
Datasets == Seq(1..MaxWrites)

\* REPL_STATE_*; "connect" stands for the states from CONNECT to SEND_PSYNC.
ReplStates == {"none", "connect", "receive_psync_reply", "transfer", "connected"}
\* REPLICA_STATE_*; SEND_BULK is part of "wait_bgsave_end".
ReplicaStates == {"wait_bgsave_start", "wait_bgsave_end", "online"}

---------------------------------------------------------------------------
(* The functions of the source, on the state of one server. *)

NoReplicas == [r \in Nodes |-> None]
Replicas(s) == {r \in Nodes : s.replicas[r] # None}
Waiting(s, state) == {r \in Replicas(s) : s.replicas[r].repl_state = state}

\* repl_backlog->histlen
Histlen(b) == Len(b.buf)

MinOf(S) == CHOOSE x \in S : \A y \in S : x <= y

\* incrementalTrimReplicationBacklog: blocks leave at the head while what stays
\* exceeds the configured size and no replica still has to be sent them.
Trim(s) ==
    IF s.repl_backlog = None THEN s ELSE
    LET b == s.repl_backlog
        unpinned == MinOf({Histlen(b)} \cup {s.replicas[r].psync_initial_offset + 1 - b.offset :
                                             r \in Waiting(s, "wait_bgsave_end")})
        cut == MinOf({unpinned} \cup {Histlen(b) - (BacklogSize + 1)})
    IN IF cut <= 0 THEN s
       ELSE [s EXCEPT !.repl_backlog = [offset |-> b.offset + cut,
                                        buf |-> SubSeq(b.buf, cut + 1, Len(b.buf))]]

\* feedReplicationBuffer: nothing happens, and the offset stays, without a backlog.
Feed(s, w) ==
    IF s.repl_backlog = None THEN s
    ELSE Trim([s EXCEPT !.repl_backlog.buf = Append(@, w), !.primary_repl_offset = @ + 1])

\* The part of the stream after an offset, as a replica is sent it.
Unsent(s, offset) ==
    LET b == s.repl_backlog IN
    [i \in 1..(s.primary_repl_offset - offset) |->
        [type |-> "write", write |-> b.buf[offset + 1 - b.offset + i]]]

CreateReplicationBacklog(s) ==
    [s EXCEPT !.repl_backlog = [offset |-> s.primary_repl_offset + 1, buf |-> <<>>]]

FreeReplicationBacklog(s) == [s EXCEPT !.repl_backlog = None]

DisconnectReplicas(s) == Trim([s EXCEPT !.replicas = NoReplicas])

ClearReplicationId2(s) == [s EXCEPT !.replid2 = None, !.second_replid_offset = -1]

ChangeReplicationId(s, id) == [s EXCEPT !.replid = id]

\* The old id stays good for the byte after the last one received.
ShiftReplicationId(s, id) ==
    ChangeReplicationId([s EXCEPT !.replid2 = s.replid,
                                  !.second_replid_offset = s.primary_repl_offset + 1], id)

\* freeClient(server.primary) and replicationCachePrimary.
CachePrimary(s) ==
    IF s.primary = None THEN s
    ELSE [s EXCEPT !.cached_primary = s.primary, !.primary = None, !.repl_state = "connect"]

DiscardCachedPrimary(s) == [s EXCEPT !.cached_primary = None]

CachePrimaryUsingMyself(s) ==
    [s EXCEPT !.cached_primary = [replid |-> s.replid, reploff |-> s.primary_repl_offset]]

CancelReplicationHandshake(s) ==
    IF s.repl_state \in {"receive_psync_reply", "transfer"} THEN [s EXCEPT !.repl_state = "connect"] ELSE s

ReplicationSetPrimary(s, p) ==
    LET t == CancelReplicationHandshake([CachePrimary(s) EXCEPT !.primary_host = p])
        u == IF s.primary_host = None THEN CachePrimaryUsingMyself(DiscardCachedPrimary(t)) ELSE t
    IN [u EXCEPT !.repl_state = "connect"]

ReplicationUnsetPrimary(s, id) ==
    LET t == DiscardCachedPrimary(CachePrimary([s EXCEPT !.primary_host = None]))
    IN [DisconnectReplicas(ShiftReplicationId(t, id)) EXCEPT !.repl_state = "none"]

\* Mutant: the replicas stay while the backlog goes.
AttachKeepingReplicas(s) == FreeReplicationBacklog(DiscardCachedPrimary(s))

\* replicationAttachToNewPrimary
AttachToNewPrimary(s) == FreeReplicationBacklog(DisconnectReplicas(DiscardCachedPrimary(s)))

ClearFailoverState(s) ==
    [s EXCEPT !.failover_state = "no_failover", !.target = None, !.force = FALSE]

\* abortFailover: a primary that has already turned into a replica turns back.
AbortFailover(s, id) ==
    ClearFailoverState(IF s.failover_state = "in_progress" THEN ReplicationUnsetPrimary(s, id) ELSE s)

\* rdbPopulateSaveInfo: what the RDB file says about replication.
RdbSaveInfo(s) ==
    IF \/ s.primary_host = None /\ s.repl_backlog # None
       \/ s.primary # None
       \/ s.cached_primary # None
    THEN [replid |-> s.replid, reploff |-> s.primary_repl_offset] ELSE None

\* A process that has just been started, before it loads its RDB file.
Started(h, id) ==
    [primary_host |-> h, repl_state |-> IF h = None THEN "none" ELSE "connect", db |-> <<>>,
     replid |-> id, replid2 |-> None, second_replid_offset |-> -1, primary_repl_offset |-> 0,
     repl_backlog |-> None, primary |-> None, cached_primary |-> None, initial |-> None,
     replicas |-> NoReplicas, rdb_child |-> None,
     failover_state |-> "no_failover", target |-> None, force |-> FALSE]

\* loadDataFromDisk, with the append-only file switched off: a replica resumes
\* under the saved id, a primary under a new one with the saved id as its second.
LoadDataFromDisk(s, file) ==
    IF file = None THEN s
    ELSE IF file.info = None THEN [s EXCEPT !.db = file.db]
    ELSE LET t == [s EXCEPT !.db = file.db, !.primary_repl_offset = file.info.reploff]
         IN IF s.primary_host = None
            THEN CreateReplicationBacklog([t EXCEPT !.replid2 = file.info.replid,
                                                    !.second_replid_offset = file.info.reploff + 1])
            ELSE CachePrimaryUsingMyself([t EXCEPT !.replid = file.info.replid])

---------------------------------------------------------------------------
(* Actions.  Every handler runs in one process; what it sends goes to net.    *)

NoConnection == [peer |-> None, open |-> FALSE, req |-> None, wire |-> <<>>]

Become(n, s) == server' = [server EXCEPT ![n] = s]

\* A request is answered; the answer is lost on a connection closed meanwhile.
Answer(c, msgs) == IF c.open THEN [c EXCEPT !.req = None, !.wire = @ \o msgs] ELSE NoConnection
\* A closed connection delivers nothing more to the replica.  The request may
\* already have reached the other end; that matters when it asks for a failover.
Closed(c) ==
    IF c.req # None /\ c.req.failover THEN [c EXCEPT !.open = FALSE, !.wire = <<>>] ELSE NoConnection
Closes(r) == net' = [net EXCEPT ![r] = Closed(@)]

\* p answers the request of r; promoted by it, p has left its own primary.
Replies(p, r, msgs) ==
    net' = [net EXCEPT ![r] = Answer(@, msgs), ![p] = IF net[r].req.failover THEN Closed(@) ELSE @]

\* writeToReplica, before the event loop sleeps: the online replicas are sent what
\* has been added to the replication buffer.
Relays(p, w, conns) ==
    net' = [r \in Nodes |->
              IF r \in Waiting(server[p], "online") /\ conns[r].peer = p /\ server[p].repl_backlog # None
              THEN [conns[r] EXCEPT !.wire = Append(@, [type |-> "write", write |-> w])] ELSE conns[r]]
Consumed(r) == [net EXCEPT ![r].wire = Tail(@)]

Command == commands < MaxCommands /\ commands' = commands + 1
Fault == faults < MaxFaults /\ faults' = faults + 1
NewIds(k) == ids + k <= MaxIds /\ ids' = ids + k

Init ==
    /\ \E p \in Nodes : server = [n \in Nodes |-> Started(IF n = p THEN None ELSE p, n)]
    /\ disk = [n \in Nodes |-> None]
    /\ net = [n \in Nodes |-> NoConnection]
    /\ written = 0 /\ ids = 0 /\ commands = 0 /\ faults = 0
    /\ made = {<<>>}

\* A client's write command at a primary that is not pausing writes.
ClientWrite(n) ==
    LET s == server[n] IN
    /\ s.primary_host = None /\ s.failover_state = "no_failover" /\ written < MaxWrites
    /\ written' = written + 1
    /\ Become(n, Feed([s EXCEPT !.db = Append(@, written + 1)], written + 1))
    /\ made' = made \cup {Append(s.db, written + 1)}
    /\ Relays(n, written + 1, net)
    /\ UNCHANGED <<disk, ids, commands, faults>>

ReplicaOf(n, p) ==
    LET s == server[n] IN
    /\ p # n /\ s.failover_state = "no_failover" /\ s.primary_host # p
    /\ Command
    /\ Become(n, ReplicationSetPrimary(s, p))
    /\ Closes(n)
    /\ UNCHANGED <<disk, written, ids, faults, made>>

ReplicaOfNoOne(n) ==
    LET s == server[n] IN
    /\ s.failover_state = "no_failover" /\ s.primary_host # None
    /\ Command /\ NewIds(1)
    /\ Become(n, ReplicationUnsetPrimary(s, ids + 1))
    /\ Closes(n)
    /\ UNCHANGED <<disk, written, faults, made>>

\* connectWithPrimary, syncWithPrimary and the writing half of
\* replicaTryPartialResynchronization.  The primary has noticed by then that the
\* replica's previous connection is gone.
SendPsync(r) ==
    LET s == server[r]
        c == s.cached_primary
        failing == s.failover_state = "in_progress"
    IN
    /\ s.repl_state = "connect" /\ server[s.primary_host].replicas[r] = None
    /\ Become(r, [s EXCEPT !.repl_state = "receive_psync_reply", !.initial = None])
    /\ net' = [net EXCEPT ![r] =
         [peer |-> s.primary_host, open |-> TRUE, wire |-> <<>>,
          req |-> IF c = None THEN [replid |-> None, offset |-> -1, failover |-> failing, force |-> s.force]
                  ELSE [replid |-> c.replid, offset |-> c.reploff + 1, failover |-> failing, force |-> s.force]]]
    /\ UNCHANGED <<disk, written, ids, commands, faults, made>>

\* Mutant: the second id is good for any offset.
PsyncAcceptedForAnyOffset(s, req) ==
    /\ req.replid # None /\ req.replid \in {s.replid, s.replid2}
    /\ s.repl_backlog # None
    /\ req.offset \in s.repl_backlog.offset..(s.repl_backlog.offset + Histlen(s.repl_backlog))

\* primaryTryPartialResynchronization: the id has to be ours, or our previous one
\* up to the point where we left it, and the backlog must hold what is missing.
PsyncAccepted(s, req) ==
    /\ req.replid # None
    /\ \/ req.replid = s.replid
       \/ req.replid = s.replid2 /\ req.offset <= s.second_replid_offset
    /\ s.repl_backlog # None
    /\ req.offset >= s.repl_backlog.offset
    /\ req.offset <= s.repl_backlog.offset + Histlen(s.repl_backlog)

Request(p, r) == net[r].peer = p /\ net[r].req # None

\* PSYNC ... FAILOVER is refused unless it names the history we replicate.
FailoverRefused(s, req) == req.failover /\ (s.primary_host = None \/ req.replid # s.replid)

\* syncCommand promotes this server first when the request asks for it.
Promoted(s, req) == IF req.failover THEN ReplicationUnsetPrimary(s, ids + 1) ELSE s

SyncRefused(p, r) ==
    LET s == server[p]
        t == Promoted(s, net[r].req)
    IN
    /\ Request(p, r)
    /\ \/ /\ FailoverRefused(s, net[r].req)
          /\ UNCHANGED <<server, ids>>
          /\ net' = [net EXCEPT ![r] = Answer(@, <<[type |-> "error"]>>)]
       \/ /\ ~FailoverRefused(s, net[r].req)
          /\ t.failover_state # "no_failover" \/ (t.primary_host # None /\ t.repl_state # "connected")
          /\ NewIds(IF net[r].req.failover THEN 1 ELSE 0)
          /\ Become(p, t)
          /\ Replies(p, r, <<[type |-> "error"]>>)
    /\ UNCHANGED <<disk, written, commands, faults, made>>

Serving(p, r) ==
    LET t == Promoted(server[p], net[r].req) IN
    /\ Request(p, r) /\ ~FailoverRefused(server[p], net[r].req)
    /\ t.failover_state = "no_failover" /\ (t.primary_host = None \/ t.repl_state = "connected")

SyncPartial(p, r) ==
    LET t == Promoted(server[p], net[r].req) IN
    /\ Serving(p, r) /\ PsyncAccepted(t, net[r].req)
    /\ NewIds(IF net[r].req.failover THEN 1 ELSE 0)
    /\ Become(p, [t EXCEPT !.replicas[r] =
            [repl_state |-> "online", psync_initial_offset |-> 0, repl_ack_off |-> 0]])
    /\ Replies(p, r, <<[type |-> "continue", replid |-> t.replid]>> \o Unsent(t, net[r].req.offset - 1))
    /\ UNCHANGED <<disk, written, commands, faults, made>>

\* replicationSetupReplicaForFullResync sends this reply.
Fullresync(s, offset) == [type |-> "fullresync", replid |-> s.replid, reploff |-> offset]

\* A full resynchronization waits for the next BGSAVE, or joins the one that
\* another replica already waits for, with that replica's output buffer.
SyncFull(p, r) ==
    LET t == Promoted(server[p], net[r].req)
        k == IF net[r].req.failover THEN 1 ELSE 0
        u == [t EXCEPT !.replicas[r] =
                [repl_state |-> "wait_bgsave_start", psync_initial_offset |-> 0, repl_ack_off |-> 0]]
        first == Replicas(u) = {r} /\ u.repl_backlog = None
        v == IF first THEN CreateReplicationBacklog(ClearReplicationId2(ChangeReplicationId(u, ids + k + 1)))
             ELSE u
        joined == Waiting(v, "wait_bgsave_end")
    IN
    /\ Serving(p, r) /\ ~PsyncAccepted(t, net[r].req)
    /\ NewIds(IF first THEN k + 1 ELSE k)
    /\ IF v.rdb_child # None /\ v.rdb_child.type = "disk" /\ joined # {}
       THEN \E q \in joined :
              /\ Become(p, [v EXCEPT !.replicas[r] = [v.replicas[q] EXCEPT !.repl_ack_off = 0]])
              /\ Replies(p, r, <<Fullresync(v, v.replicas[q].psync_initial_offset)>>)
       ELSE /\ Become(p, v)
            /\ Replies(p, r, <<>>)
    /\ UNCHANGED <<disk, written, commands, faults, made>>

\* startBgsaveForReplication, from syncCommand or from the cron; the target
\* follows repl-diskless-sync, which may be changed at any time.
StartBgsaveForReplication(p, type) ==
    LET s == server[p]
        W == Waiting(s, "wait_bgsave_start")
        offset == s.primary_repl_offset
    IN
    /\ s.rdb_child = None /\ W # {} /\ RdbSaveInfo(s) # None
    /\ Become(p, [s EXCEPT
            !.rdb_child = [type |-> type, db |-> s.db, info |-> RdbSaveInfo(s)],
            !.replicas = [r \in Nodes |->
                IF r \in W THEN [@[r] EXCEPT !.repl_state = "wait_bgsave_end", !.psync_initial_offset = offset] ELSE @[r]]])
    /\ net' = [r \in Nodes |->
                 IF r \in W /\ net[r].peer = p
                 THEN [net[r] EXCEPT !.wire = Append(@, Fullresync(s, offset))] ELSE net[r]]
    /\ UNCHANGED <<disk, written, ids, commands, faults, made>>

\* A BGSAVE of the operator's.
Bgsave(n) ==
    LET s == server[n] IN
    /\ s.rdb_child = None /\ Command
    /\ Become(n, [s EXCEPT !.rdb_child = [type |-> "disk", db |-> s.db, info |-> RdbSaveInfo(s)]])
    /\ UNCHANGED <<disk, net, written, ids, faults, made>>

\* backgroundSaveDoneHandler and updateReplicasWaitingBgsave, with the sending of
\* the file: the replicas that waited for it are online.
BgsaveDone(p) ==
    LET s == server[p]
        W == Waiting(s, "wait_bgsave_end")
        rdb == [type |-> "rdb", db |-> s.rdb_child.db, info |-> s.rdb_child.info]
    IN
    /\ s.rdb_child # None
    /\ Become(p, Trim([s EXCEPT !.rdb_child = None,
            !.replicas = [r \in Nodes |-> IF r \in W THEN [@[r] EXCEPT !.repl_state = "online", !.psync_initial_offset = 0] ELSE @[r]]]))
    /\ net' = [r \in Nodes |->
                 IF r \in W /\ net[r].peer = p
                 THEN [net[r] EXCEPT !.wire = @ \o <<rdb>> \o Unsent(s, s.replicas[r].psync_initial_offset)] ELSE net[r]]
    /\ disk' = IF s.rdb_child.type = "disk"
               THEN [disk EXCEPT ![p] = [db |-> s.rdb_child.db, info |-> s.rdb_child.info]] ELSE disk
    /\ UNCHANGED <<written, ids, commands, faults, made>>

BgsaveFailed(p) ==
    LET s == server[p] IN
    /\ s.rdb_child # None /\ Fault
    /\ Become(p, Trim([s EXCEPT !.rdb_child = None,
            !.replicas = [r \in Nodes |-> IF r \in Waiting(s, "wait_bgsave_end") THEN None ELSE @[r]]]))
    /\ UNCHANGED <<disk, net, written, ids, commands, made>>

Message(r, type) == net[r].wire # <<>> /\ Head(net[r].wire).type = type

\* Mutant: a new id is adopted without telling our own replicas.
ReceiveContinueQuietly(r) ==
    LET s == server[r]
        id == Head(net[r].wire).replid
        t == [s EXCEPT !.replid = id, !.primary = [s.cached_primary EXCEPT !.replid = id],
                       !.cached_primary = None, !.repl_state = "connected"]
    IN
    /\ s.repl_state = "receive_psync_reply" /\ Message(r, "continue")
    /\ Become(r, ClearFailoverState(IF t.repl_backlog = None THEN CreateReplicationBacklog(t) ELSE t))
    /\ net' = Consumed(r)
    /\ UNCHANGED <<disk, written, ids, commands, faults, made>>

\* +CONTINUE: the cached primary is resurrected.  If the primary goes by another
\* id now, the old one becomes our second id and our own replicas have to be told.
ReceiveContinue(r) ==
    LET s == server[r]
        id == Head(net[r].wire).replid
        c == s.cached_primary
        t == IF id = c.replid THEN s
             ELSE DisconnectReplicas([s EXCEPT !.replid2 = c.replid, !.replid = id,
                       !.second_replid_offset = s.primary_repl_offset + 1, !.cached_primary.replid = id])
        u == [t EXCEPT !.primary = t.cached_primary, !.cached_primary = None, !.repl_state = "connected"]
        v == IF u.repl_backlog = None THEN CreateReplicationBacklog(u) ELSE u
    IN
    /\ s.repl_state = "receive_psync_reply" /\ Message(r, "continue")
    /\ Become(r, ClearFailoverState(v))
    /\ net' = Consumed(r)
    /\ UNCHANGED <<disk, written, ids, commands, faults, made>>

\* +FULLRESYNC: the transfer starts, to end under the primary's id and offset.
ReceiveFullresync(r) ==
    LET s == server[r]
        m == Head(net[r].wire)
    IN
    /\ s.repl_state = "receive_psync_reply" /\ Message(r, "fullresync")
    /\ Become(r, ClearFailoverState([s EXCEPT !.repl_state = "transfer",
                     !.initial = [replid |-> m.replid, reploff |-> m.reploff]]))
    /\ net' = Consumed(r)
    /\ UNCHANGED <<disk, written, ids, commands, faults, made>>

\* An error, or no answer: a failover in progress is aborted, any other replica
\* tries again.
PsyncFailed(r) ==
    LET s == server[r] IN
    \/ /\ s.failover_state = "in_progress" /\ NewIds(1)
       /\ Become(r, AbortFailover(s, ids + 1))
    \/ /\ s.failover_state # "in_progress" /\ UNCHANGED ids
       /\ Become(r, CancelReplicationHandshake(s))

ReceiveError(r) ==
    /\ Message(r, "error") /\ PsyncFailed(r) /\ Closes(r)
    /\ UNCHANGED <<disk, written, commands, faults, made>>

\* readSyncBulkPayload once the file is complete: it replaces our own RDB file, and
\* our data and our replicas are given up before it is loaded.
Loading(s) == [AttachToNewPrimary([s EXCEPT !.rdb_child = None]) EXCEPT !.db = <<>>]

ReceiveRdb(r) ==
    LET m == Head(net[r].wire)
        s == server[r]
        t == [Loading(s) EXCEPT !.db = m.db, !.primary = s.initial, !.repl_state = "connected",
                 !.initial = None,
                 !.replid = s.initial.replid, !.primary_repl_offset = s.initial.reploff]
    IN
    /\ s.repl_state = "transfer" /\ Message(r, "rdb")
    /\ disk' = [disk EXCEPT ![r] = [db |-> m.db, info |-> m.info]]
    /\ Become(r, CreateReplicationBacklog(ClearReplicationId2(t)))
    /\ net' = Consumed(r)
    /\ UNCHANGED <<written, ids, commands, faults, made>>

RdbLoadFailed(r) ==
    LET m == Head(net[r].wire) IN
    /\ server[r].repl_state = "transfer" /\ Message(r, "rdb") /\ Fault
    /\ disk' = [disk EXCEPT ![r] = [db |-> m.db, info |-> m.info]]
    /\ Become(r, [Loading(server[r]) EXCEPT !.repl_state = "connect"])
    /\ Closes(r)
    /\ UNCHANGED <<written, ids, commands, made>>

\* A command of the stream: applied, counted, and passed on unchanged to the
\* replicas of this replica (commandProcessed).
ReceiveWrite(r) ==
    LET s == server[r]
        w == Head(net[r].wire).write
    IN
    /\ s.repl_state = "connected" /\ Message(r, "write")
    /\ Become(r, Feed([s EXCEPT !.db = Append(@, w), !.primary.reploff = @ + 1], w))
    /\ Relays(r, w, Consumed(r))
    /\ UNCHANGED <<disk, written, ids, commands, faults, made>>

\* The other end has closed the connection, or never saw the request.
ClosedByPeer(r) ==
    /\ net[r].open /\ net[r].req = None
    /\ server[net[r].peer].replicas[r] = None

\* The replica loses its primary: the connection is closed or times out.  A failover
\* in progress survives the timeout of its request and ends with a closed connection.
LinkDown(r) ==
    LET s == server[r] IN
    /\ net[r].open
    /\ IF ClosedByPeer(r) THEN UNCHANGED faults ELSE Fault
    /\ \/ /\ s.repl_state = "connected" /\ UNCHANGED ids
          /\ Become(r, CachePrimary(s))
       \/ /\ s.repl_state # "connected" /\ PsyncFailed(r)
       \/ /\ s.failover_state = "in_progress" /\ UNCHANGED ids
          /\ Become(r, CancelReplicationHandshake(s))
    /\ Closes(r)
    /\ UNCHANGED <<disk, written, commands, made>>

\* The primary notices that a replica has gone, or times it out.
ReplicaGone(p, r) ==
    LET s == server[p] IN
    /\ s.replicas[r] # None
    /\ IF net[r].peer # p THEN UNCHANGED faults ELSE Fault
    /\ Become(p, Trim([s EXCEPT !.replicas[r] = None]))
    /\ UNCHANGED <<disk, net, written, ids, commands, made>>

\* replicationSendAck and REPLCONF ACK.
Ack(r) ==
    LET s == server[r]
        p == s.primary_host
    IN
    /\ s.repl_state = "connected" /\ net[r].peer = p /\ server[p].replicas[r] # None
    /\ s.primary.reploff > server[p].replicas[r].repl_ack_off
    /\ Become(p, [server[p] EXCEPT !.replicas[r].repl_ack_off = s.primary.reploff])
    /\ UNCHANGED <<disk, net, written, ids, commands, faults, made>>

\* replicationCron: a primary long without replicas frees its backlog, and takes
\* a new id because its offset no longer counts its writes.
FreeIdleBacklog(p) ==
    LET s == server[p] IN
    /\ s.primary_host = None /\ Replicas(s) = {} /\ s.repl_backlog # None
    /\ NewIds(1)
    /\ Become(p, FreeReplicationBacklog(ClearReplicationId2(ChangeReplicationId(s, ids + 1))))
    /\ UNCHANGED <<disk, net, written, commands, faults, made>>

\* FAILOVER [TO target [FORCE]] [TIMEOUT t]; without a timeout, one that never comes.
Failover(p, target, force) ==
    LET s == server[p] IN
    /\ s.failover_state = "no_failover" /\ s.primary_host = None /\ Replicas(s) # {}
    /\ target # None => target \in Waiting(s, "online")
    /\ force => target # None
    /\ Command
    /\ Become(p, [s EXCEPT !.failover_state = "wait_for_sync", !.target = target, !.force = force])
    /\ UNCHANGED <<disk, net, written, ids, faults, made>>

FailoverAbort(p) ==
    LET s == server[p] IN
    /\ s.failover_state # "no_failover" /\ Command
    /\ IF s.failover_state = "in_progress" THEN NewIds(1) /\ Closes(p) ELSE UNCHANGED <<ids, net>>
    /\ Become(p, AbortFailover(s, ids + 1))
    /\ UNCHANGED <<disk, written, faults, made>>

FailOverTo(s, r) == ReplicationSetPrimary([s EXCEPT !.failover_state = "in_progress", !.target = r], r)

\* updateFailoverStatus once the timeout has passed.
FailoverTimeout(p) ==
    LET s == server[p] IN
    /\ s.failover_state = "wait_for_sync"
    /\ Become(p, IF s.force THEN FailOverTo(s, s.target) ELSE AbortFailover(s, None))
    /\ UNCHANGED <<disk, net, written, ids, commands, faults, made>>

\* Mutant: the replica found is not asked how far it is.
FailoverToAny(p, r) ==
    LET s == server[p] IN
    /\ s.failover_state = "wait_for_sync" /\ s.target \in {None, r} /\ s.replicas[r] # None
    /\ Become(p, FailOverTo(s, r))
    /\ UNCHANGED <<disk, net, written, ids, commands, faults, made>>

\* updateFailoverStatus before that: the target, or any replica, has caught up.
FailoverSynced(p, r) ==
    LET s == server[p] IN
    /\ s.failover_state = "wait_for_sync" /\ s.target \in {None, r}
    /\ s.replicas[r] # None /\ s.replicas[r].repl_ack_off = s.primary_repl_offset
    /\ Become(p, FailOverTo(s, r))
    /\ UNCHANGED <<disk, net, written, ids, commands, faults, made>>

\* The process dies and is started again, as a primary or as a replica of the
\* primary it had; its peers find their connections closed.
Restart(n, h) ==
    /\ h \in {None, server[n].primary_host} /\ Fault /\ NewIds(1)
    /\ Become(n, LoadDataFromDisk(Started(h, ids + 1), disk[n]))
    /\ net' = [r \in Nodes |-> IF r = n THEN Closed(net[r])
                               ELSE IF net[r].peer = n THEN Answer(net[r], <<>>) ELSE net[r]]
    /\ UNCHANGED <<disk, written, commands, made>>

Next ==
    \E n \in Nodes :
        \/ ClientWrite(n) \/ ReplicaOfNoOne(n) \/ Bgsave(n)
        \/ \E p \in Nodes : ReplicaOf(n, p) \/ ReplicaGone(n, p)
        \/ \E h \in Nodes \cup {None} : Restart(n, h)
        \/ SendPsync(n)
        \/ \E r \in Nodes : SyncRefused(n, r) \/ SyncPartial(n, r) \/ SyncFull(n, r)
        \/ \E type \in RdbTargets : StartBgsaveForReplication(n, type)
        \/ BgsaveDone(n) \/ BgsaveFailed(n)
        \/ ReceiveContinue(n) \/ ReceiveFullresync(n) \/ ReceiveError(n)
        \/ ReceiveRdb(n) \/ RdbLoadFailed(n) \/ ReceiveWrite(n)
        \/ LinkDown(n) \/ Ack(n) \/ FreeIdleBacklog(n)
        \/ \E r \in Nodes \cup {None}, force \in BOOLEAN : Failover(n, r, force)
        \/ FailoverAbort(n) \/ FailoverTimeout(n)
        \/ \E r \in Nodes : FailoverSynced(n, r)

Spec == Init /\ [][Next]_vars

---------------------------------------------------------------------------
ReplicaRecords ==
    [repl_state : ReplicaStates, psync_initial_offset : Nat, repl_ack_off : Nat]

\* The shape of the state: replies and requests belong to handshakes, a primary
\* has no primary link and nothing cached, and a backlog ends at the offset.
TypeOK ==
    /\ written \in 0..MaxWrites /\ ids \in 0..MaxIds
    /\ commands \in 0..MaxCommands /\ faults \in 0..MaxFaults
    /\ \A n \in Nodes :
        LET s == server[n] IN
        /\ s.primary_host \in (Nodes \ {n}) \cup {None}
        /\ s.repl_state \in ReplStates
        /\ (s.repl_state = "none") = (s.primary_host = None)
        /\ (s.repl_state = "connected") = (s.primary # None)
        /\ s.primary_host = None => s.cached_primary = None
        /\ s.replid \in Ids /\ s.replid2 \in Ids \cup {None}
        /\ s.replicas \in [Nodes -> ReplicaRecords \cup {None}]
        /\ Replicas(s) # {} => s.repl_backlog # None
        /\ s.repl_backlog # None =>
              s.repl_backlog.offset + Len(s.repl_backlog.buf) = s.primary_repl_offset + 1
        /\ s.failover_state = "wait_for_sync" => s.primary_host = None
        /\ s.failover_state = "in_progress" => s.primary_host = s.target /\ s.repl_state # "transfer"
        /\ net[n].open => net[n].peer = s.primary_host
        /\ net[n].req # None => net[n].wire = <<>>

\* Replication implements WriteHistory: every step of every server is a client's
\* write on that server's own data, or takes the server to a dataset that some
\* server had.  A partial resynchronization accepted by
\* primaryTryPartialResynchronization never joins two histories.
History == INSTANCE WriteHistory
              WITH Writes <- 1..MaxWrites, db <- [n \in Nodes |-> server[n].db]
ImplementsHistory == History!Spec

\* The connection of replica r is up on both sides.
Linked(r, p) == net[r].open /\ net[r].peer = p /\ server[p].replicas[r] # None

\* The writes on their way to a replica.
InFlight(r) == [i \in DOMAIN net[r].wire |-> net[r].wire[i].write]

\* A replica whose link is up follows the history of its primary under the same
\* id, and holds exactly the primary's data but for the writes on their way:
\* the stream neither skips nor repeats a write, after a full or a partial
\* resynchronization, from the backlog or from the output buffer of a BGSAVE.
InStep ==
    \A r, p \in Nodes :
        Linked(r, p) /\ server[r].repl_state = "connected" =>
            /\ server[r].replid = server[p].replid
            /\ server[p].db = server[r].db \o InFlight(r)
            /\ server[p].primary_repl_offset = server[r].primary_repl_offset + Len(net[r].wire)

\* The request of r makes p a primary.
Promotes(p, r) ==
    /\ Request(p, r) /\ net[r].req.failover
    /\ server[p].primary_host # None /\ server'[p].primary_host = None
    /\ SyncRefused(p, r) \/ SyncPartial(p, r) \/ SyncFull(p, r)

\* As long as no server fails, a FAILOVER without FORCE loses nothing: the replica
\* that takes over has all the data of the primary that steps down, which
\* was paused since the command.
FailoverKeepsWrites ==
    [][\A p, r \in Nodes :
          Promotes(p, r) /\ net[r].open /\ ~net[r].req.force /\ faults = 0
          => server[p].db = server[r].db]_vars
=============================================================================
