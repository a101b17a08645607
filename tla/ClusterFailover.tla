-------------------------- MODULE ClusterFailover --------------------------
(***************************************************************************)
(* The cluster bus as far as it decides who serves a slot                  *)
(* (cluster_legacy.c): epochs, the election of a replica, the votes of the *)
(* primaries, CLUSTER FAILOVER FORCE and TAKEOVER, the configuration that  *)
(* travels in the header of every packet, UPDATE packets, collisions of    *)
(* configuration epochs, failure flags and a restart.                      *)
(*                                                                         *)
(* node[i] is what node i holds in memory about itself and all others.     *)
(* Whatever a handler changes, except for currentEpoch, it flags for       *)
(* saving, and clusterBeforeSleep saves at the end of the same turn of the *)
(* event loop, before the write handler a packet of this handler installs  *)
(* can fire: the handler and the saving are one step.  (A link that was    *)
(* waiting to be written already may fire earlier in the turn; a crash     *)
(* between that write and the saving is left out.)  saved[i] is the line   *)
(* `vars` of nodes.conf, which alone can lag behind.                       *)
(*                                                                         *)
(* Nodes keep their shard: slot and replica migration are left out, and    *)
(* with them owner_not_claiming_slot, which is never set without.  So are  *)
(* the delays (rank, age of the data, one vote per primary within two      *)
(* timeouts): time may pass between any two steps, and a vote refused for  *)
(* them is a vote request that got lost.  Failure reports are left out: a  *)
(* node is flagged FAIL by all at once.                                    *)
(***************************************************************************)
EXTENDS Naturals, FiniteSets, FiniteSetsExt

CONSTANTS
    Nodes,          \* node ids: positive numbers, compared as memcmp does
    Slots,
    Primary,        \* the primary of each node, at first (None: a primary)
    Owner,          \* the node that serves each slot, at first
    Operations,     \* of "force", "takeover"
    Unreachable,    \* the nodes that others may take for failed
    Scenarios       \* which nodes are cut off from the rest for good, and the bounds:
                    \* elections, CLUSTER FAILOVER commands, restarts, packets held up

None == 0

ASSUME ConstantsAssumption ==
    /\ Nodes \subseteq Nat \ {None} /\ IsFiniteSet(Nodes)
    /\ Primary \in [Nodes -> Nodes \cup {None}]
    /\ Owner \in [Slots -> Nodes]
    /\ \A i \in Nodes : Primary[i] # None => Primary[Primary[i]] = None
    /\ \A s \in Slots : Primary[Owner[s]] = None
    /\ \A x \in Scenarios :
          x.cut \subseteq Nodes /\ {x.elections, x.commands, x.restarts, x.delays} \subseteq Nat

VARIABLES
    up,       \* the nodes that are not cut off
    node,     \* what each node knows
    failed,   \* the nodes flagged FAIL
    saved,    \* per node: currentEpoch and lastVoteEpoch in nodes.conf
    asked,    \* the vote requests broadcast
    net,      \* packets on their way: votes, UPDATEs and delayed pings
    won,      \* history: the elections won, as node and epoch
    left      \* what remains of the bounds

vars == <<up, node, failed, saved, asked, net, won, left>>

-----------------------------------------------------------------------------
(* What a node c knows *)

SameShard(m, n) ==
    LET Shard(x) == IF Primary[x] = None THEN x ELSE Primary[x] IN Shard(m) = Shard(n)

IsReplica(c, n) == c.replicaof[n] # None

SlotsOf(c, n) == {s \in Slots : c.slots[s] = n}

ClusterNodeIsVotingPrimary(c, n) == ~IsReplica(c, n) /\ SlotsOf(c, n) # {}

\* The primary whose slots and epoch node i announces: its own or itself.
PrimaryOf(c, i) == IF IsReplica(c, i) THEN c.replicaof[i] ELSE i

NodeEpoch(c, n) == c.configEpoch[PrimaryOf(c, n)]

ClusterGetMaxEpoch(c) == Max({c.configEpoch[n] : n \in Nodes} \cup {c.currentEpoch})

NeededQuorum(c) == Cardinality({n \in Nodes : ClusterNodeIsVotingPrimary(c, n)}) \div 2 + 1

ManualFailover(c) == c.mf_can_start

ClusterBuildMessageHdr(c, i) ==
    [from |-> i,
     currentEpoch |-> c.currentEpoch,
     configEpoch |-> c.configEpoch[PrimaryOf(c, i)],
     replicaof |-> c.replicaof[i],
     myslots |-> SlotsOf(c, PrimaryOf(c, i))]

-----------------------------------------------------------------------------
(* Changes to what node i knows *)

NoElection == [on |-> FALSE, sent |-> FALSE, epoch |-> 0, count |-> 0]

ClusterSetPrimary(c, i, n) ==
    [c EXCEPT !.replicaof[i] = n, !.mf_can_start = FALSE, !.auth.on = FALSE]

ClusterBumpConfigEpochWithoutConsensus(c, i) ==
    IF c.configEpoch[i] = 0 \/ c.configEpoch[i] # ClusterGetMaxEpoch(c)
    THEN [c EXCEPT !.currentEpoch = @ + 1, !.configEpoch[i] = c.currentEpoch + 1]
    ELSE c

ClusterFailoverReplaceYourPrimary(c, i) ==
    LET old == c.replicaof[i]
    IN  [c EXCEPT !.replicaof[i] = None,
                  !.slots = [s \in Slots |-> IF @[s] = old THEN i ELSE @[s]],
                  !.mf_can_start = FALSE]

\* Mutant: a slot goes to whoever claims it last.
RebindsWhateverTheEpoch(c, sender, epoch, s) == c.slots[s] # sender

Rebinds(c, sender, epoch, s) ==
    /\ c.slots[s] # sender
    /\ c.slots[s] = None \/ c.configEpoch[c.slots[s]] < epoch

\* Node i learns that `sender` claims `claimed` with `epoch`: the slots whose
\* owner has a smaller epoch move, and if they were all that i's primary (or i
\* itself) had, i becomes a replica of the sender.
ClusterUpdateSlotsConfigWith(c, i, sender, epoch, claimed) ==
    LET cur == PrimaryOf(c, i)
        moved == {s \in claimed : Rebinds(c, sender, epoch, s)}
        d == [c EXCEPT !.slots = [s \in Slots |-> IF s \in moved THEN sender ELSE @[s]]]
        taken == \E s \in moved : c.slots[s] = cur
        bothEmpty == /\ c.replicaof[i] # sender
                     /\ claimed = {} /\ SlotsOf(d, i) = {}
                     /\ NodeEpoch(d, i) < epoch
                     /\ SameShard(sender, i)
    IN  IF sender = i
        THEN c
        ELSE IF (taken \/ bothEmpty) /\ SlotsOf(d, cur) = {} /\ SameShard(sender, i)
        THEN ClusterSetPrimary(d, i, sender)
        ELSE d

\* Mutant: the collision is left to the nodes of the same role to sort out.
CollisionLeftAlone(c, i, sender) == c

ClusterHandleConfigEpochCollision(c, i, sender) ==
    IF /\ ~IsReplica(c, i) /\ ~IsReplica(c, sender)
       /\ c.configEpoch[sender] = c.configEpoch[i]
       /\ sender > i
    THEN [c EXCEPT !.currentEpoch = @ + 1, !.configEpoch[i] = c.currentEpoch + 1]
    ELSE c

\* The part of clusterProcessPacket that every packet goes through.
ProcessHeader(c, m) ==
    LET newer == m.replicaof = None /\ m.configEpoch > c.configEpoch[m.from]
        lost == newer /\ c.auth.sent /\ m.configEpoch >= c.auth.epoch
    IN  [c EXCEPT !.currentEpoch = Max({@, m.currentEpoch}),
                  !.configEpoch[m.from] = IF newer THEN m.configEpoch ELSE @,
                  !.auth.on = @ /\ ~lost]

\* The sender of a ping says that it is a replica of p.
SenderIsReplica(c, i, m) ==
    LET p == m.replicaof
        turned == ~IsReplica(c, m.from)
        d == IF turned /\ IsReplica(c, p)
             THEN [c EXCEPT !.replicaof[p] = None, !.configEpoch[p] = m.configEpoch]
             ELSE c
        e == [d EXCEPT !.replicaof[m.from] = p]
        above == e.replicaof[PrimaryOf(e, i)]
    IN  IF c.replicaof[m.from] = p
        THEN c
        ELSE IF above \notin {None, i}
        THEN ClusterSetPrimary(e, i, above)   \* I'm a sub-replica
        ELSE e

\* A primary that turned into a replica says so under an epoch older than the
\* one known of its new primary: the rest of the packet is not looked at.
Stale(c, m) ==
    /\ m.replicaof # None
    /\ ~IsReplica(c, m.from)
    /\ NodeEpoch(c, m.replicaof) > m.configEpoch

\* The owners with a greater epoch of slots the sender of m claims.
Newer(c, m) ==
    {c.slots[s] : s \in {t \in m.myslots :
        c.slots[t] # None /\ c.configEpoch[c.slots[t]] > m.configEpoch}}

ClusterSendUpdate(c, i, to, n) ==
    [type |-> "update", to |-> to, about |-> n, epoch |-> c.configEpoch[n],
     slots |-> SlotsOf(c, n), hdr |-> ClusterBuildMessageHdr(c, i)]

SlotsChanged(c, m) ==
    m.replicaof = None /\ (IsReplica(c, m.from) \/ SlotsOf(c, m.from) # m.myslots)

\* A ping or pong m at node i, up to the slots.
ProcessConfiguration(c, i, m) ==
    LET d == ProcessHeader(c, m)
        e == IF m.replicaof = None
             THEN [d EXCEPT !.replicaof[m.from] = None]
             ELSE SenderIsReplica(d, i, m)
    IN  IF Stale(d, m)
        THEN d
        ELSE IF SlotsChanged(c, m)
        THEN ClusterUpdateSlotsConfigWith(e, i, m.from, m.configEpoch, m.myslots)
        ELSE e

ProcessPing(c, i, m) ==
    LET d == ProcessConfiguration(c, i, m)
    IN  IF m.configEpoch = d.configEpoch[i] /\ ~Stale(c, m)
        THEN ClusterHandleConfigEpochCollision(d, i, m.from)
        ELSE d

\* The UPDATE packet that answers a ping, sent before the collision is handled.
PingAnswer(c, i, m) ==
    LET d == ProcessConfiguration(c, i, m)
    IN  IF SlotsChanged(c, m)
        THEN {ClusterSendUpdate(d, i, m.from, n) : n \in Newer(d, m) \ {m.from}}
        ELSE {}

-----------------------------------------------------------------------------
(* Saving *)

\* What clusterDoBeforeSleep(CLUSTER_TODO_SAVE_CONFIG) goes with.
Configuration(c) == <<c.configEpoch, c.replicaof, c.slots, c.lastVoteEpoch>>

\* Mutant: currentEpoch is not part of what is saved.
SaveForgetsCurrentEpoch(i, c) ==
    [saved EXCEPT ![i].lastVoteEpoch = c.lastVoteEpoch]

\* Mutant: the vote is not part of what is saved.
SaveForgetsVote(i, c) ==
    [saved EXCEPT ![i] = [currentEpoch |-> c.currentEpoch, lastVoteEpoch |-> @.lastVoteEpoch]]

ClusterSaveConfig(i, c) ==
    [saved EXCEPT ![i] = [currentEpoch |-> c.currentEpoch, lastVoteEpoch |-> c.lastVoteEpoch]]

\* The handler ends and clusterBeforeSleep runs.
Become(i, c) ==
    /\ node' = [node EXCEPT ![i] = c]
    /\ saved' = IF Configuration(c) # Configuration(node[i]) THEN ClusterSaveConfig(i, c) ELSE saved

\* Beside the others, one of these packets travels for a while, or is lost.
Send(others, packets) ==
    \/ net' = others /\ left' = left
    \/ \E p \in packets \ others :
         /\ left.delays > 0
         /\ net' = others \cup {p}
         /\ left' = [left EXCEPT !.delays = @ - 1]

Spend(what) == left[what] > 0 /\ left' = [left EXCEPT ![what] = @ - 1]

-----------------------------------------------------------------------------
Init ==
    /\ LET primaries == {i \in Nodes : Primary[i] = None}
           epoch == [i \in Nodes |-> IF i \in primaries THEN i ELSE 0]
       IN  /\ node = [i \in Nodes |->
                 [currentEpoch |-> Max(primaries), lastVoteEpoch |-> 0,
                  configEpoch |-> epoch, replicaof |-> Primary, slots |-> Owner,
                  auth |-> NoElection, mf_can_start |-> FALSE]]
           /\ saved = [i \in Nodes |-> [currentEpoch |-> Max(primaries), lastVoteEpoch |-> 0]]
    /\ left \in Scenarios
    /\ up = Nodes \ left.cut
    /\ failed = {} /\ asked = {} /\ net = {} /\ won = {}

\* A ping or pong from i to j arrives at once.
Ping(i, j) ==
    /\ i # j
    /\ LET m == ClusterBuildMessageHdr(node[i], i)
       IN  /\ Become(j, ProcessPing(node[j], j, m))
           /\ Send(net, PingAnswer(node[j], j, m))
    /\ UNCHANGED <<up, failed, asked, won>>

\* A ping or pong from i to j is held up.  The two connections between two nodes,
\* and one that is replaced, are not ordered.
PingDelayed(i, j) ==
    /\ i # j
    /\ left.delays > 0
    /\ Send(net, {[type |-> "ping", to |-> j, hdr |-> ClusterBuildMessageHdr(node[i], i)]})
    /\ UNCHANGED <<up, node, failed, saved, asked, won>>

ReceivePing(p) ==
    /\ p.type = "ping"
    /\ Become(p.to, ProcessPing(node[p.to], p.to, p.hdr))
    /\ Send(net \ {p}, PingAnswer(node[p.to], p.to, p.hdr))
    /\ UNCHANGED <<up, failed, asked, won>>

ReceiveUpdate(p) ==
    LET c == ProcessHeader(node[p.to], p.hdr)
        d == [c EXCEPT !.replicaof[p.about] = None, !.configEpoch[p.about] = p.epoch]
    IN  /\ p.type = "update"
        /\ Become(p.to, IF c.configEpoch[p.about] >= p.epoch
                        THEN c
                        ELSE ClusterUpdateSlotsConfigWith(d, p.to, p.about, p.epoch, p.slots))
        /\ net' = net \ {p}
        /\ UNCHANGED <<up, failed, asked, won, left>>

\* A majority reports n; the FAIL packet tells everybody.
MarkNodeAsFailing(n) ==
    /\ n \in Unreachable \ failed
    /\ failed' = failed \cup {n}
    /\ UNCHANGED <<up, node, saved, asked, net, won, left>>

\* A pong of n, which has no vote or has been flagged for long.
ClearNodeFailure(n) ==
    /\ n \in failed \cap up
    /\ failed' = failed \ {n}
    /\ UNCHANGED <<up, node, saved, asked, net, won, left>>

\* Node i receives the vote request r.
ClusterSendFailoverAuthIfNeeded(i, r) ==
    LET c == ProcessHeader(node[i], r.hdr)
        from == r.hdr.from
        mayVote == /\ ClusterNodeIsVotingPrimary(c, i)
                   /\ r.hdr.currentEpoch >= c.currentEpoch
                   /\ c.lastVoteEpoch # c.currentEpoch
                   /\ IsReplica(c, from)
                   /\ c.replicaof[from] \in failed \ {i} \/ r.force
        newer == Newer(c, r.hdr)
        vote == mayVote /\ newer = {}
    IN  /\ i # from
        /\ Become(i, IF vote THEN [c EXCEPT !.lastVoteEpoch = c.currentEpoch] ELSE c)
        /\ IF vote
           THEN /\ net' = net \cup {[type |-> "ack", to |-> from, hdr |-> ClusterBuildMessageHdr(c, i)]}
                /\ left' = left
           ELSE Send(net, {ClusterSendUpdate(c, i, from, n) : n \in IF mayVote THEN newer ELSE {}})
        /\ UNCHANGED <<up, failed, asked, won>>

ReceiveFailoverAuth(p) ==
    LET c == ProcessHeader(node[p.to], p.hdr)
        counts == /\ ClusterNodeIsVotingPrimary(c, p.hdr.from)
                  /\ p.hdr.currentEpoch >= c.auth.epoch
    IN  /\ p.type = "ack"
        /\ Become(p.to, IF counts THEN [c EXCEPT !.auth.count = @ + 1] ELSE c)
        /\ net' = net \ {p}
        /\ UNCHANGED <<up, failed, asked, won, left>>

-----------------------------------------------------------------------------
(* clusterHandleReplicaFailover: one action for each way through it *)

HasReasonToFailover(i) ==
    LET c == node[i]
    IN  IsReplica(c, i) /\ (c.replicaof[i] \in failed \/ ManualFailover(c))

ScheduleElection(i) ==
    /\ HasReasonToFailover(i)
    /\ Spend("elections")
    /\ Become(i, [node[i] EXCEPT !.auth = [@ EXCEPT !.on = TRUE, !.sent = FALSE, !.count = 0]])
    /\ UNCHANGED <<up, failed, asked, net, won>>

\* From beforeSleep the new epoch is saved one turn of the event loop later.
RequestVotes(i) ==
    LET c == node[i]
        d == [c EXCEPT !.currentEpoch = @ + 1,
                       !.auth = [@ EXCEPT !.sent = TRUE, !.epoch = c.currentEpoch + 1]]
    IN  /\ HasReasonToFailover(i)
        /\ c.auth.on /\ ~c.auth.sent
        /\ node' = [node EXCEPT ![i] = d]
        /\ saved' \in {saved, ClusterSaveConfig(i, d)}
        /\ asked' = asked \cup {[force |-> c.mf_can_start, hdr |-> ClusterBuildMessageHdr(d, i)]}
        /\ UNCHANGED <<up, failed, net, won, left>>

\* Mutant: one vote less is enough.
QuorumOffByOne(c) == c.auth.count + 1 >= NeededQuorum(c)

Elected(c) == c.auth.count >= NeededQuorum(c)

WinElection(i) ==
    LET c == node[i]
        d == [c EXCEPT !.configEpoch[i] = Max({@, c.auth.epoch})]
    IN  /\ HasReasonToFailover(i)
        /\ c.auth.on /\ c.auth.sent
        /\ Elected(c)
        /\ Become(i, ClusterFailoverReplaceYourPrimary(d, i))
        /\ won' = won \cup {<<i, c.auth.epoch>>}
        /\ UNCHANGED <<up, failed, asked, net, left>>

-----------------------------------------------------------------------------
ClusterFailoverForce(i) ==
    /\ "force" \in Operations
    /\ IsReplica(node[i], i)
    /\ Spend("commands")
    /\ Become(i, [node[i] EXCEPT !.mf_can_start = TRUE, !.auth.on = FALSE])
    /\ UNCHANGED <<up, failed, asked, net, won>>

ClusterFailoverTakeover(i) ==
    /\ "takeover" \in Operations
    /\ IsReplica(node[i], i)
    /\ Spend("commands")
    /\ Become(i, ClusterFailoverReplaceYourPrimary(
                     ClusterBumpConfigEpochWithoutConsensus(node[i], i), i))
    /\ UNCHANGED <<up, failed, asked, net, won>>

ManualFailoverTimesOut(i) ==
    /\ node[i].mf_can_start
    /\ Become(i, [node[i] EXCEPT !.mf_can_start = FALSE])
    /\ UNCHANGED <<up, failed, asked, net, won, left>>

\* The server dies and starts again with nodes.conf.
Restart(i) ==
    LET c == [node[i] EXCEPT !.currentEpoch = saved[i].currentEpoch,
                             !.lastVoteEpoch = saved[i].lastVoteEpoch,
                             !.auth = NoElection, !.mf_can_start = FALSE]
    IN  /\ Spend("restarts")
        /\ node' = [node EXCEPT ![i] = [c EXCEPT !.currentEpoch = ClusterGetMaxEpoch(c)]]
        /\ UNCHANGED <<up, failed, saved, asked, net, won>>

Next ==
    \/ \E i, j \in up : Ping(i, j)
    \/ \E i, j \in up : PingDelayed(i, j)
    \/ \E p \in net : ReceivePing(p)
    \/ \E p \in net : ReceiveUpdate(p)
    \/ \E i \in up, r \in asked : ClusterSendFailoverAuthIfNeeded(i, r)
    \/ \E p \in net : ReceiveFailoverAuth(p)
    \/ \E n \in Nodes : MarkNodeAsFailing(n)
    \/ \E n \in Nodes : ClearNodeFailure(n)
    \/ \E i \in up : ScheduleElection(i)
    \/ \E i \in up : RequestVotes(i)
    \/ \E i \in up : WinElection(i)
    \/ \E i \in up : ClusterFailoverForce(i)
    \/ \E i \in up : ClusterFailoverTakeover(i)
    \/ \E i \in up : ManualFailoverTimesOut(i)
    \/ \E i \in up : Restart(i)

Spec == Init /\ [][Next]_vars

-----------------------------------------------------------------------------
\* Type invariant of what nodes know, with three facts the code relies on: no
\* node follows itself and a replica serves no slots (clusterSetPrimary asserts
\* both), and no vote was given in an epoch yet to come
\* (clusterSendFailoverAuthIfNeeded).
TypeOK ==
    /\ \A i \in Nodes :
          /\ node[i].replicaof \in [Nodes -> Nodes \cup {None}]
          /\ node[i].slots \in [Slots -> Nodes]
          /\ node[i].replicaof[i] # i
          /\ IsReplica(node[i], i) => SlotsOf(node[i], i) = {}
          /\ node[i].lastVoteEpoch <= node[i].currentEpoch
    /\ DOMAIN saved = Nodes

\* Two replicas are never elected in the same epoch, whatever vote requests are
\* repeated or lost and whoever restarts in between (clusterSendFailoverAuthIfNeeded
\* votes once per epoch, clusterHandleReplicaFailover needs a majority; the comment
\* above clusterHandleConfigEpochCollision builds on it).
OneWinnerPerEpoch ==
    \A v, w \in won : v[2] = w[2] => v[1] = w[1]

\* A node votes once per epoch, restarts included: the epoch of its last vote never
\* goes back, and a vote is only sent for a later epoch, which is on disk as the last
\* one at the end of the event-loop turn that queues the packet
\* (clusterSendFailoverAuthIfNeeded, clusterBeforeSleep).
VotesRemembered ==
    [][/\ \A i \in Nodes : node'[i].lastVoteEpoch >= node[i].lastVoteEpoch
       /\ \A p \in net' \ net :
             p.type = "ack" => /\ p.hdr.currentEpoch > node[p.hdr.from].lastVoteEpoch
                               /\ p.hdr.currentEpoch = saved'[p.hdr.from].lastVoteEpoch]_vars

SlotEpoch(c, s) == c.configEpoch[c.slots[s]]

\* In no node's view does a slot move to an owner with an epoch that is not greater,
\* whatever takeovers and packets overtake each other, and the epoch of the owner
\* shrinks only where the node took that owner for a replica: there
\* clusterProcessPacket, told that the old primary follows it, assigns the epoch it
\* is told (clusterUpdateSlotsConfigWith, the handling of UPDATE, and the role
\* switch in clusterProcessPacket).
SlotEpochsGrow ==
    [][\A i \in Nodes, s \in Slots :
          IF node'[i].slots[s] # node[i].slots[s]
          THEN SlotEpoch(node'[i], s) > SlotEpoch(node[i], s)
          ELSE \/ SlotEpoch(node'[i], s) >= SlotEpoch(node[i], s)
               \/ IsReplica(node[i], node[i].slots[s])]_vars

\* No further ping between nodes that reach each other teaches its receiver anything.
Settled ==
    \A i, j \in up :
        i # j => ProcessPing(node[j], j, ClusterBuildMessageHdr(node[i], i)) = node[j]

Agreed ==
    \A s \in Slots : \E n \in Nodes : \A i \in up :
        node[i].slots[s] = n /\ node[i].replicaof[n] = None

\* Once gossip has nothing more to tell, all nodes that reach each other name the same
\* primary for every slot, after competing elections and takeovers that chose
\* the same epoch too (clusterUpdateSlotsConfigWith, clusterHandleConfigEpochCollision).
SettledMeansAgreed == Settled => Agreed
=============================================================================
