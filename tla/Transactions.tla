--------------------------- MODULE Transactions ---------------------------
(***************************************************************************)
(* MULTI / EXEC / DISCARD / WATCH / UNWATCH (src/src/multi.c) over a       *)
(* keyspace whose keys expire, with the commands that touch watched keys:  *)
(* SET, DEL, RESTORE REPLACE, a read that meets an expired key, FLUSHDB and*)
(* SWAPDB.                                                                 *)
(*                                                                         *)
(* A key's value does not matter to WATCH, only its presence and whether   *)
(* its TTL has passed: keys \ expired are the keys a client can see.       *)
(* watchedKey is one node linked into the client's list and into the key's *)
(* list; membership is kept once, in watched, and the order of a key's     *)
(* list in ahead.                                                          *)
(***************************************************************************)
EXTENDS Integers, FiniteSets, Sequences

CONSTANTS
    Clients,
    Keys,
    Dbs,         \* numbered databases, 0 among them
    Ops,         \* commands clients send: a subset of AllOps
    MaxQueue,    \* bound on queued commands
    None         \* no client, no database

AllOps == {"set", "del", "get", "restore"}

ASSUME ConstantsAssumption ==
    /\ IsFiniteSet(Clients)
    /\ 0 \in Dbs
    /\ Ops \subseteq AllOps
    /\ MaxQueue \in Nat
    /\ None \notin Clients
    /\ None \notin Dbs

Slots == Dbs \X Keys        \* a key of a database
Commands == [op : Ops, key : Keys]

VARIABLES
    keys,            \* slots present in db->keys
    expired,         \* slots whose TTL has passed, still present
    clientDb,        \* c->db->id
    multi,           \* c->flag.multi
    dirtyCas,        \* c->flag.dirty_cas
    dirtyExec,       \* c->flag.dirty_exec
    queue,           \* c->mstate.commands
    watched,         \* c->watched_keys
    wkExpired,       \* slots of c->watched_keys with wk->expired
    ahead,           \* <<s, a, b>>: a is before b in the list of slot s
    watchingClients, \* server.watching_clients
    inExec,          \* client whose EXEC is running
    execPos,         \* index of the next queued command to run
    moved            \* history: a watched slot was written or changed
                     \* for its readers since it was watched

keyspaceVars == <<keys, expired>>
clientVars == <<clientDb, multi, dirtyCas, dirtyExec, queue>>
watchVars == <<watched, wkExpired, ahead, watchingClients>>
execVars == <<inExec, execPos>>
vars == <<keyspaceVars, clientVars, watchVars, execVars, moved>>

Init ==
    /\ keys = {}
    /\ expired = {}
    /\ clientDb = [c \in Clients |-> 0]
    /\ multi = [c \in Clients |-> FALSE]
    /\ dirtyCas = [c \in Clients |-> FALSE]
    /\ dirtyExec = [c \in Clients |-> FALSE]
    /\ queue = [c \in Clients |-> <<>>]
    /\ watched = [c \in Clients |-> {}]
    /\ wkExpired = [c \in Clients |-> {}]
    /\ ahead = {}
    /\ watchingClients = 0
    /\ inExec = None
    /\ execPos = 0
    /\ moved = [c \in Clients |-> FALSE]

Visible == keys \ expired

\* The history: clients that watch a slot this step writes, or makes appear
\* or disappear for readers.
RecordMoves(changed) ==
    moved' = [c \in Clients |-> moved[c] \/ watched[c] \cap changed # {}]

-----------------------------------------------------------------------------
\* Touching watched keys

Watchers(s) == {c \in Clients : s \in watched[c]}

Flagged(s) == {c \in Watchers(s) : s \in wkExpired[c]}

\* Mutant: only the head of the list is touched.
TouchedHeadOnly(s, present) ==
    {c \in Watchers(s) \ Flagged(s) : \A a \in Watchers(s) : <<s, a, c>> \notin ahead}

\* Clients touchWatchedKey makes dirty: all unflagged watchers of a deleted
\* key; of a present key those before the first flagged one, where the loop
\* breaks.
Touched(s, present) ==
    {c \in Watchers(s) \ Flagged(s) :
        present => \A a \in Flagged(s) : <<s, a, c>> \notin ahead}

\* dirty_cas, resetClientMultiState and unwatchAllKeys for the clients hit;
\* the flags of slot s are cleared if it is gone.
MarkDirtyAndUnwatch(hit, s, present) ==
    /\ dirtyCas' = [c \in Clients |-> dirtyCas[c] \/ c \in hit]
    /\ queue' = [c \in Clients |-> IF c \in hit THEN <<>> ELSE queue[c]]
    /\ watched' = [c \in Clients |-> IF c \in hit THEN {} ELSE watched[c]]
    /\ wkExpired' = [c \in Clients |->
                        IF c \in hit THEN {}
                        ELSE IF present THEN wkExpired[c] ELSE wkExpired[c] \ {s}]
    /\ ahead' = {p \in ahead : p[2] \notin hit /\ p[3] \notin hit}
    /\ watchingClients' = watchingClients - Cardinality(hit)

TouchWatchedKey(s, present) == MarkDirtyAndUnwatch(Touched(s, present), s, present)

\* Mutant: the entry of db->expires stays.
DeleteKeyKeepsTtl(s) ==
    /\ keys' = keys \ {s}
    /\ TouchWatchedKey(s, FALSE)
    /\ UNCHANGED expired

\* A key is deleted and signalled: DEL, or the lookup of an expired key.
DeleteKey(s) ==
    /\ keys' = keys \ {s}
    /\ expired' = expired \ {s}
    /\ TouchWatchedKey(s, FALSE)

\* SET: the lookup deletes an expired key first, which clears every flag, so
\* the second touch meets no flagged watcher.
SetKey(s) ==
    /\ keys' = keys \cup {s}
    /\ expired' = expired \ {s}
    /\ IF s \in expired
       THEN MarkDirtyAndUnwatch(Watchers(s), s, FALSE)
       ELSE TouchWatchedKey(s, TRUE)

\* RESTORE REPLACE: dbDelete and dbAdd, one touch at the end.
RestoreKey(s) ==
    /\ keys' = keys \cup {s}
    /\ expired' = expired \ {s}
    /\ TouchWatchedKey(s, TRUE)

\* What a command does in database d.
Execute(command, d) ==
    LET s == <<d, command.key>> IN
    \/ /\ command.op = "set"
       /\ SetKey(s)
       /\ RecordMoves({s})
    \/ /\ command.op = "restore"
       /\ RestoreKey(s)
       /\ RecordMoves({s})
    \/ /\ command.op = "del"
       /\ IF s \in keys THEN DeleteKey(s)
          ELSE UNCHANGED <<keyspaceVars, watchVars, dirtyCas, queue>>
       /\ RecordMoves({s} \cap Visible)
    \/ /\ command.op = "get"
       /\ IF s \in expired THEN DeleteKey(s)
          ELSE UNCHANGED <<keyspaceVars, watchVars, dirtyCas, queue>>
       /\ UNCHANGED moved

ReplacedPresent(s, source) == source[s[1]] # None /\ <<source[s[1]], s[2]>> \in keys

ReplacedExpired(s, source) == source[s[1]] # None /\ <<source[s[1]], s[2]>> \in expired

\* source: database -> the database whose contents it receives, or None.
\* Watched slots of databases outside DOMAIN source are left alone.
TouchAllWatchedKeys(source) ==
    LET affected(s) == s[1] \in DOMAIN source /\ (s \in keys \/ ReplacedPresent(s, source))
        stale(c, s) ==
            IF s \in wkExpired[c]
            THEN ~ReplacedPresent(s, source) \/ ReplacedExpired(s, source)
            ELSE s \notin keys /\ ReplacedExpired(s, source)
        dirty(c) == \E s \in watched[c] : affected(s) /\ ~stale(c, s)
    IN
    /\ dirtyCas' = [c \in Clients |-> dirtyCas[c] \/ dirty(c)]
    /\ queue' = [c \in Clients |-> IF dirty(c) THEN <<>> ELSE queue[c]]
    /\ wkExpired' = [c \in Clients |->
           {s \in watched[c] :
               IF affected(s) /\ stale(c, s)
               THEN ReplacedExpired(s, source)
               ELSE s \in wkExpired[c]}]
    /\ UNCHANGED <<watched, ahead, watchingClients>>

-----------------------------------------------------------------------------
\* Client commands

Idle == inExec = None

\* Mutants: every key watched is counted; the key's state is not looked at.
WatchCountsKeys(c, k) ==
    LET s == <<clientDb[c], k>> IN
    /\ Idle
    /\ ~multi[c]
    /\ ~dirtyCas[c]
    /\ s \notin watched[c]
    /\ watchingClients' = watchingClients + 1
    /\ watched' = [watched EXCEPT ![c] = @ \cup {s}]
    /\ wkExpired' = IF s \in expired THEN [wkExpired EXCEPT ![c] = @ \cup {s}] ELSE wkExpired
    /\ ahead' = ahead \cup {<<s, a, c>> : a \in Watchers(s)}
    /\ UNCHANGED <<keyspaceVars, clientVars, execVars, moved>>

WatchWithoutFlag(c, k) ==
    LET s == <<clientDb[c], k>> IN
    /\ Idle
    /\ ~multi[c]
    /\ ~dirtyCas[c]
    /\ s \notin watched[c]
    /\ watchingClients' = IF watched[c] = {} THEN watchingClients + 1 ELSE watchingClients
    /\ watched' = [watched EXCEPT ![c] = @ \cup {s}]
    /\ ahead' = ahead \cup {<<s, a, c>> : a \in Watchers(s)}
    /\ UNCHANGED <<keyspaceVars, clientVars, wkExpired, execVars, moved>>

\* watchForKey; WATCH in MULTI is refused, and a dirty client's WATCH is not
\* recorded.
Watch(c, k) ==
    LET s == <<clientDb[c], k>> IN
    /\ Idle
    /\ ~multi[c]
    /\ ~dirtyCas[c]
    /\ s \notin watched[c]
    /\ watchingClients' = IF watched[c] = {} THEN watchingClients + 1 ELSE watchingClients
    /\ watched' = [watched EXCEPT ![c] = @ \cup {s}]
    /\ wkExpired' = IF s \in expired THEN [wkExpired EXCEPT ![c] = @ \cup {s}] ELSE wkExpired
    /\ ahead' = ahead \cup {<<s, a, c>> : a \in Watchers(s)}
    /\ UNCHANGED <<keyspaceVars, clientVars, execVars, moved>>

\* Mutant: the nodes stay in the keys' lists.
UnwatchKeepsNodes(c) ==
    /\ watched' = [watched EXCEPT ![c] = {}]
    /\ wkExpired' = [wkExpired EXCEPT ![c] = {}]
    /\ watchingClients' = IF watched[c] = {} THEN watchingClients ELSE watchingClients - 1
    /\ moved' = [moved EXCEPT ![c] = FALSE]
    /\ UNCHANGED ahead

UnwatchAllKeys(c) ==
    /\ watched' = [watched EXCEPT ![c] = {}]
    /\ wkExpired' = [wkExpired EXCEPT ![c] = {}]
    /\ ahead' = {p \in ahead : p[2] # c /\ p[3] # c}
    /\ watchingClients' = IF watched[c] = {} THEN watchingClients ELSE watchingClients - 1
    /\ moved' = [moved EXCEPT ![c] = FALSE]

Unwatch(c) ==
    /\ Idle
    /\ ~multi[c]
    /\ UnwatchAllKeys(c)
    /\ dirtyCas' = [dirtyCas EXCEPT ![c] = FALSE]
    /\ UNCHANGED <<keyspaceVars, clientDb, multi, dirtyExec, queue, execVars>>

Multi(c) ==
    /\ Idle
    /\ ~multi[c]
    /\ multi' = [multi EXCEPT ![c] = TRUE]
    /\ UNCHANGED <<keyspaceVars, clientDb, dirtyCas, dirtyExec, queue, watchVars, execVars, moved>>

\* Mutant: a doomed transaction goes on queueing.
QueueAlways(c, command) ==
    /\ Idle
    /\ multi[c]
    /\ Len(queue[c]) < MaxQueue
    /\ queue' = [queue EXCEPT ![c] = Append(@, command)]
    /\ UNCHANGED <<keyspaceVars, clientDb, multi, dirtyCas, dirtyExec, watchVars, execVars, moved>>

\* queueMultiCommand: a doomed transaction queues nothing.
QueueMultiCommand(c, command) ==
    /\ Idle
    /\ multi[c]
    /\ Len(queue[c]) < MaxQueue
    /\ queue' = IF dirtyCas[c] \/ dirtyExec[c] THEN queue
                ELSE [queue EXCEPT ![c] = Append(@, command)]
    /\ UNCHANGED <<keyspaceVars, clientDb, multi, dirtyCas, dirtyExec, watchVars, execVars, moved>>

\* The transaction is doomed and its queue released.
FlagTransaction(c) ==
    /\ dirtyExec' = [dirtyExec EXCEPT ![c] = TRUE]
    /\ queue' = [queue EXCEPT ![c] = <<>>]

\* A command refused while queueing.
RejectCommand(c) ==
    /\ Idle
    /\ multi[c]
    /\ FlagTransaction(c)
    /\ UNCHANGED <<keyspaceVars, clientDb, multi, dirtyCas, watchVars, execVars, moved>>

DiscardTransaction(c) ==
    /\ multi' = [multi EXCEPT ![c] = FALSE]
    /\ dirtyCas' = [dirtyCas EXCEPT ![c] = FALSE]
    /\ dirtyExec' = [dirtyExec EXCEPT ![c] = FALSE]
    /\ queue' = [queue EXCEPT ![c] = <<>>]
    /\ UnwatchAllKeys(c)

\* DISCARD, and an EXEC that processCommand refuses.
Discard(c) ==
    /\ Idle
    /\ multi[c]
    /\ DiscardTransaction(c)
    /\ UNCHANGED <<keyspaceVars, clientDb, execVars>>

\* RESET and freeClient followed by a new connection.
ResetOrFree(c) ==
    /\ Idle
    /\ DiscardTransaction(c)
    /\ clientDb' = [clientDb EXCEPT ![c] = 0]
    /\ UNCHANGED <<keyspaceVars, execVars>>

IsWatchedKeyExpired(c) == \E s \in watched[c] : s \in expired /\ s \notin wkExpired[c]

\* Mutant: EXEC does not look for expired keys.
ExecFailsIfDirty(c) == dirtyCas[c] \/ dirtyExec[c]

ExecFails(c) == dirtyCas[c] \/ dirtyExec[c] \/ IsWatchedKeyExpired(c)

ExecAbort(c) ==
    /\ Idle
    /\ multi[c]
    /\ ExecFails(c)
    /\ DiscardTransaction(c)
    /\ UNCHANGED <<keyspaceVars, clientDb, execVars>>

\* Mutant: EXEC unwatches only when it is done.
ExecBeginWatching(c) ==
    /\ Idle
    /\ multi[c]
    /\ ~ExecFails(c)
    /\ inExec' = c
    /\ execPos' = 1
    /\ UNCHANGED <<keyspaceVars, clientVars, watchVars, moved>>

\* EXEC passes its checks and unwatches; the queue then runs to its end
\* before any other client, timer or cron step.
ExecBegin(c) ==
    /\ Idle
    /\ multi[c]
    /\ ~ExecFails(c)
    /\ UnwatchAllKeys(c)
    /\ inExec' = c
    /\ execPos' = 1
    /\ UNCHANGED <<keyspaceVars, clientVars>>

ExecCommand(c) ==
    /\ inExec = c
    /\ execPos <= Len(queue[c])
    /\ Execute(queue[c][execPos], clientDb[c])
    /\ execPos' = execPos + 1
    /\ UNCHANGED <<clientDb, multi, dirtyExec, inExec>>

\* The user's ACL changed since the command was queued: it is answered with
\* an error and skipped.
ExecDenied(c) ==
    /\ inExec = c
    /\ execPos <= Len(queue[c])
    /\ execPos' = execPos + 1
    /\ UNCHANGED <<keyspaceVars, clientVars, watchVars, inExec, moved>>

\* Mutant: EXEC of an empty queue returns with server.in_exec set.
ExecEndEmptyReturns(c) ==
    /\ inExec = c
    /\ execPos > Len(queue[c])
    /\ DiscardTransaction(c)
    /\ inExec' = IF queue[c] = <<>> THEN c ELSE None
    /\ execPos' = IF queue[c] = <<>> THEN execPos ELSE 0
    /\ UNCHANGED <<keyspaceVars, clientDb>>

ExecEnd(c) ==
    /\ inExec = c
    /\ execPos > Len(queue[c])
    /\ DiscardTransaction(c)
    /\ inExec' = None
    /\ execPos' = 0
    /\ UNCHANGED <<keyspaceVars, clientDb>>

\* A command outside MULTI.
Call(c, command) ==
    /\ Idle
    /\ ~multi[c]
    /\ Execute(command, clientDb[c])
    /\ UNCHANGED <<clientDb, multi, dirtyExec, execVars>>

Select(c, d) ==
    /\ Idle
    /\ ~multi[c]
    /\ clientDb' = [clientDb EXCEPT ![c] = d]
    /\ UNCHANGED <<keyspaceVars, multi, dirtyCas, dirtyExec, queue, watchVars, execVars, moved>>

\* FLUSHDB d: the watchers are touched while the keys are still there.
FlushDb(d) ==
    /\ Idle
    /\ TouchAllWatchedKeys([x \in {d} |-> None])
    /\ keys' = {s \in keys : s[1] # d}
    /\ expired' = {s \in expired : s[1] # d}
    /\ RecordMoves({s \in Visible : s[1] = d})
    /\ UNCHANGED <<clientDb, multi, dirtyExec, execVars>>

SwappedSlot(d1, d2, s) ==
    <<IF s[1] = d1 THEN d2 ELSE IF s[1] = d2 THEN d1 ELSE s[1], s[2]>>

\* SWAPDB d1 d2: contents move, watchers stay.
SwapDb(d1, d2) ==
    /\ Idle
    /\ d1 # d2
    /\ TouchAllWatchedKeys([x \in {d1, d2} |-> IF x = d1 THEN d2 ELSE d1])
    /\ keys' = {SwappedSlot(d1, d2, s) : s \in keys}
    /\ expired' = {SwappedSlot(d1, d2, s) : s \in expired}
    /\ RecordMoves({s \in Slots : /\ s[1] \in {d1, d2}
                                  /\ \/ s \in Visible
                                     \/ SwappedSlot(d1, d2, s) \in Visible})
    /\ UNCHANGED <<clientDb, multi, dirtyExec, execVars>>

\* A TTL passes; EXEC sees one moment in time (commandTimeSnapshot).
KeyExpires(s) ==
    /\ Idle
    /\ s \in Visible
    /\ expired' = expired \cup {s}
    /\ RecordMoves({s})
    /\ UNCHANGED <<keys, clientVars, watchVars, execVars>>

\* The active expire cycle deletes an expired key.
ActiveExpire(s) ==
    /\ Idle
    /\ s \in expired
    /\ DeleteKey(s)
    /\ UNCHANGED <<clientDb, multi, dirtyExec, execVars, moved>>

-----------------------------------------------------------------------------
ClientStep(c) ==
    \/ \E k \in Keys : Watch(c, k)
    \/ \E command \in Commands : QueueMultiCommand(c, command) \/ Call(c, command)
    \/ \E d \in Dbs : Select(c, d)
    \/ Unwatch(c) \/ Multi(c) \/ RejectCommand(c) \/ Discard(c) \/ ResetOrFree(c)
    \/ ExecAbort(c) \/ ExecBegin(c) \/ ExecCommand(c) \/ ExecDenied(c) \/ ExecEnd(c)

Next ==
    \/ \E c \in Clients : ClientStep(c)
    \/ \E d \in Dbs : FlushDb(d)
    \/ \E d1, d2 \in Dbs : SwapDb(d1, d2)
    \/ \E s \in Slots : KeyExpires(s) \/ ActiveExpire(s)

\* A started EXEC runs on: it is one call of execCommand.
Fairness == \A c \in Clients : WF_vars(ExecCommand(c) \/ ExecDenied(c) \/ ExecEnd(c))

Spec == Init /\ [][Next]_vars /\ Fairness

-----------------------------------------------------------------------------
\* Properties

\* Every variable has its type.
TypeOK ==
    /\ keys \subseteq Slots
    /\ expired \subseteq keys
    /\ clientDb \in [Clients -> Dbs]
    /\ multi \in [Clients -> BOOLEAN]
    /\ dirtyCas \in [Clients -> BOOLEAN]
    /\ dirtyExec \in [Clients -> BOOLEAN]
    /\ queue \in [Clients -> Seq(Commands)]
    /\ watched \in [Clients -> SUBSET Slots]
    /\ wkExpired \in [Clients -> SUBSET Slots]
    /\ ahead \subseteq Slots \X Clients \X Clients
    /\ watchingClients \in Int
    /\ inExec \in Clients \cup {None}
    /\ execPos \in Nat /\ (execPos = 0 <=> inExec = None)
    /\ moved \in [Clients -> BOOLEAN]

\* "Deleted keys are not flagged as expired" (touchWatchedKey,
\* touchAllWatchedKeysInDb): wk->expired is set only while the watched key is
\* there and expired, so the flag never hides a later change.
FlagMeansExpired ==
    \A c \in Clients : wkExpired[c] \subseteq watched[c] \cap expired

\* server.watching_clients counts exactly the clients with watched keys
\* (watchForKey, unwatchAllKeys).
WatchingCountExact ==
    watchingClients = Cardinality({c \in Clients : watched[c] # {}})

\* The list of a watched key links its watchers and no one else, and of any
\* two of them one is before the other.
ListsWellFormed ==
    /\ \A p \in ahead : p[1] \in watched[p[2]] /\ p[1] \in watched[p[3]]
    /\ \A s \in Slots : \A a, b \in Watchers(s) :
           a # b => (<<s, a, b>> \in ahead <=> <<s, b, a>> \notin ahead)

\* The optimistic lock: EXEC runs the queue only if no watched key was
\* written or changed for its readers, by whatever path, since it was watched
\* (execCommand, touchWatchedKey, isWatchedKeyExpired).
ExecOnlyIfUntouched ==
    [][\A c \in Clients : ExecBegin(c) => ~moved[c]]_vars

\* A change of a watched key dooms the transaction even if nobody calls EXEC
\* yet: the flag or the unflagged expired key is there to be found.
MovedIsRemembered ==
    \A c \in Clients : moved[c] => dirtyCas[c] \/ IsWatchedKeyExpired(c)

\* EXEC fails for WATCH only when something did change: deleting, flushing or
\* swapping keys that were already expired when watched is no change
\* ("WATCH stale keys should not fail EXEC").
DirtyOnlyIfMoved ==
    \A c \in Clients : dirtyCas[c] \/ IsWatchedKeyExpired(c) => moved[c]

\* A doomed transaction holds no queued commands (queueMultiCommand,
\* flagTransaction, touchWatchedKey).
DoomedHoldsNoQueue ==
    \A c \in Clients : dirtyCas[c] \/ dirtyExec[c] => queue[c] = <<>>

\* The running client is never marked dirty by its own commands: it has been
\* unwatched, so its queue is not freed under execCommand's loop.
ExecQueueStable ==
    [][\A c \in Clients : inExec = c /\ inExec' = c => queue'[c] = queue[c]]_vars

\* A started EXEC finishes and gives the server back.
ExecCompletes == \A c \in Clients : inExec = c ~> inExec = None
=============================================================================
