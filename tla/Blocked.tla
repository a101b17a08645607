------------------------------- MODULE Blocked -------------------------------
(* Clients blocked on keys (blocked.c, timeout.c): BLPOP, BLMOVE and          *)
(* XREADGROUP wait for a list element or a stream entry, are served in the    *)
(* order in which they blocked when a write makes a key ready, and leave by   *)
(* timeout, CLIENT UNBLOCK, a role change or disconnection.  CLIENT PAUSE     *)
(* postpones a command, the one of a client being served included.  Keys      *)
(* expire (db.c, expire.c), while clients are being served as well.           *)
(*                                                                            *)
(* The functions of the source change a dozen structures each and call each   *)
(* other, so they are operators from one server state (the record Now) to the *)
(* next, and an action installs the result with Become.                       *)
EXTENDS Integers, Sequences, FiniteSets, SequencesExt, FiniteSetsExt

CONSTANTS
    Clients,      \* connections that send blocking commands
    Keys, Dbs,    \* key names and database numbers
    Commands,     \* the blocking commands they may send, see CommandForm
    Writes,       \* the kinds of write other clients may perform
    MaxElements,  \* bound on the list elements and stream entries that exist
    None          \* no command, no iterator

\* "blmove" has its source first and its destination second; db is the database
\* that the client has selected; timed says whether the timeout argument is
\* other than 0 (wait for ever).
CommandForm == [op : {"blpop", "blmove", "xreadgroup"}, keys : Seq(Keys), db : Dbs, timed : BOOLEAN]

ASSUME ConstantsAssumption ==
    /\ IsFiniteSet(Clients) /\ IsFiniteSet(Keys) /\ IsFiniteSet(Dbs)
    /\ Commands \subseteq CommandForm
    /\ \A cmd \in Commands : cmd.op = "blmove" => Len(cmd.keys) = 2
    /\ MaxElements \in Nat
    /\ None \notin Commands

Slots == Dbs \X Keys
KeyTypes == {"list", "stream"}

VARIABLES
    value,      \* db->keys: type, number of elements (or entries the group has
                \* not read yet) and whether a stream has the consumer group
    ttl,        \* db->expires: no time to live, one that is running, or one that
                \* has passed by the time the current command goes by
    blocking,   \* db->blocking_keys: per key the waiting clients, oldest first
    noKey,      \* db->blocking_keys_unblock_on_nokey: its reference counts
    byType,     \* server.blocked_clients_by_type
    ready,      \* server.ready_keys, in order
    readySet,   \* db->ready_keys of all databases
    client,     \* per connection: command, bstate and flags
    table,      \* server.clients_timeout_table: per client its entry's time
    unblocked,  \* server.unblocked_clients
    postponed,  \* server.postponed_clients
    batch,      \* the list of ready keys being run by handleClientsBlockedOnKeys
    cursor,     \* the key being handled and the clients its iterator has left
    paused,     \* CLIENT PAUSE is in force
    phase,      \* what the main thread is doing
    older       \* history: who was waiting for lists already when c last blocked

serverVars == <<value, ttl, blocking, noKey, byType, ready, readySet, client, table, unblocked, postponed>>
vars == <<serverVars, batch, cursor, paused, phase, older>>

Absent == [type |-> "none", n |-> 0, group |-> FALSE]
String == [type |-> "string", n |-> 0, group |-> FALSE]
ListOf(n) == [type |-> "list", n |-> n, group |-> FALSE]
StreamOf(n, g) == [type |-> "stream", n |-> n, group |-> g]

\* A connection with no command in progress (initClientBlockingState).
\* Times are relative to the clock: "never" is the timeout 0, "future" and
\* "past" are timeouts that have not and that have been reached.
IdleClient ==
    [cmd |-> None, btype |-> "none", keys |-> {}, onNoKey |-> FALSE, timeout |-> "never",
     inTable |-> FALSE, pending |-> FALSE, queued |-> FALSE, owed |-> 0]

Now ==
    [value |-> value, ttl |-> ttl, blocking |-> blocking, noKey |-> noKey, byType |-> byType,
     ready |-> ready, readySet |-> readySet, client |-> client, table |-> table,
     unblocked |-> unblocked, postponed |-> postponed, older |-> older]

WaitsForList(s, c) == s.client[c].btype = "list"

\* Installs the server state s.  The history keeps, for a client waiting for
\* lists, those that came before it and still wait.
Become(s) ==
    /\ value' = s.value /\ ttl' = s.ttl /\ blocking' = s.blocking /\ noKey' = s.noKey
    /\ byType' = s.byType /\ ready' = s.ready /\ readySet' = s.readySet /\ client' = s.client
    /\ table' = s.table /\ unblocked' = s.unblocked /\ postponed' = s.postponed
    /\ older' = [c \in Clients |-> IF WaitsForList(s, c) THEN {d \in s.older[c] : WaitsForList(s, d)}
                                   ELSE {}]

Init ==
    /\ value = [sl \in Slots |-> Absent]
    /\ ttl = [sl \in Slots |-> "none"]
    /\ blocking = [sl \in Slots |-> <<>>]
    /\ noKey = [sl \in Slots |-> 0]
    /\ byType = [t \in KeyTypes \cup {"postpone"} |-> 0]
    /\ ready = <<>> /\ readySet = {} /\ batch = <<>> /\ cursor = None
    /\ client = [c \in Clients |-> IdleClient]
    /\ table = [c \in Clients |-> "never"]
    /\ unblocked = <<>> /\ postponed = <<>>
    /\ paused = FALSE /\ phase = "idle"
    /\ older = [c \in Clients |-> {}]

-------------------------------------------------------------------------------
(* Signalling that a key is ready.                                            *)

\* The blocking type a value of this type serves, "none" for a string.
getBlockedTypeByType(type) == IF type \in KeyTypes THEN type ELSE "none"

\* A deletion matters only to clients that asked to hear of it.
Queues(s, sl, type, deleted) ==
    /\ getBlockedTypeByType(type) # "none"
    /\ s.byType[type] > 0
    /\ IF deleted THEN s.noKey[sl] > 0 ELSE s.blocking[sl] # <<>>
    /\ sl \notin s.readySet

QueueReady(s, order) ==
    [s EXCEPT !.ready = @ \o order, !.readySet = @ \cup ToSet(order)]

signalKeyAsReadyLogic(s, sl, type, deleted) ==
    IF Queues(s, sl, type, deleted) THEN QueueReady(s, <<sl>>) ELSE s

dbAdd(s, sl, v) ==
    signalKeyAsReadyLogic([s EXCEPT !.value[sl] = v], sl, v.type, FALSE)

\* Overwrites an existing key: signalled as the deletion of the old value.
dbSetValue(s, sl, v) ==
    [signalKeyAsReadyLogic(s, sl, s.value[sl].type, TRUE) EXCEPT !.value[sl] = v]

dbDelete(s, sl) ==
    [signalKeyAsReadyLogic(s, sl, s.value[sl].type, TRUE) EXCEPT !.value[sl] = Absent, !.ttl[sl] = "none"]

\* The cached time of a command, by which the keys of late have expired.
enterExecutionUnit(s, late) ==
    [s EXCEPT !.ttl = [sl \in Slots |-> IF sl \in late THEN "passed" ELSE @[sl]]]

Expiring == {sl \in Slots : ttl[sl] = "running"}

\* What a lookup returns: an expired key does not exist.
lookupKey(s, sl) == IF s.ttl[sl] = "passed" THEN Absent ELSE s.value[sl]

\* A command that looks an expired key up deletes it.
expireIfNeeded(s, sl) == IF s.ttl[sl] = "passed" THEN dbDelete(s, sl) ELSE s

\* The new value has no time to live.
setKey(s, sl, v) ==
    LET t == expireIfNeeded(s, sl)
        u == IF t.value[sl] = Absent THEN dbAdd(t, sl, v) ELSE dbSetValue(t, sl, v)
    IN  [u EXCEPT !.ttl[sl] = "none"]

\* A push signals the key only when it creates it.
pushOne(s, sl) ==
    LET t == expireIfNeeded(s, sl)
    IN  IF t.value[sl] = Absent THEN dbAdd(t, sl, ListOf(1)) ELSE [t EXCEPT !.value[sl].n = @ + 1]

\* A mutant: the emptied list is left behind.
PopKeepsEmptyList(s, sl) == [s EXCEPT !.value[sl].n = @ - 1]

\* Taking the last element deletes the key.
popOne(s, sl) ==
    IF s.value[sl].n = 1 THEN dbDelete(s, sl) ELSE [s EXCEPT !.value[sl].n = @ - 1]

-------------------------------------------------------------------------------
(* Blocking and unblocking.                                                   *)

IsBlocked(s, c) == s.client[c].btype # "none"

blockClient(s, c, btype) ==
    LET entered == s.client[c].timeout # "never" /\ s.table[c] # s.client[c].timeout
    IN  [s EXCEPT !.client[c].btype = btype,
                  !.client[c].inTable = @ \/ entered,
                  !.table[c] = IF entered THEN s.client[c].timeout ELSE @,
                  !.byType[btype] = @ + 1]

\* The history: c comes after all that wait for lists now.
Comes(s, c) == [d \in Clients |-> IF d = c THEN {e \in Clients : WaitsForList(s, e)} ELSE s.older[d] \ {c}]

\* A mutant: the client is put at the head of the waiting lists.
BlockForKeysAtHead(s, c, btype, ks, onNoKey, reexecuting) ==
    LET slots == {s.client[c].cmd.db} \X ks
    IN  blockClient(
          [s EXCEPT !.client[c].timeout = IF reexecuting THEN @
                                          ELSE IF s.client[c].cmd.timed THEN "future" ELSE "never",
                    !.client[c].keys = @ \cup ks, !.client[c].onNoKey = onNoKey, !.client[c].pending = TRUE,
                    !.older = Comes(s, c),
                    !.blocking = [sl \in Slots |-> IF sl \in slots THEN <<c>> \o @[sl] ELSE @[sl]],
                    !.noKey = [sl \in Slots |-> IF sl \in slots /\ onNoKey THEN @[sl] + 1 ELSE @[sl]]],
          c, btype)

\* A mutant: a re-executed command starts its timeout again.
BlockForKeysAnew(s, c, btype, ks, onNoKey, reexecuting) ==
    LET slots == {s.client[c].cmd.db} \X ks
    IN  blockClient(
          [s EXCEPT !.client[c].timeout = IF s.client[c].cmd.timed THEN "future" ELSE "never",
                    !.client[c].keys = @ \cup ks, !.client[c].onNoKey = onNoKey, !.client[c].pending = TRUE,
                    !.older = Comes(s, c),
                    !.blocking = [sl \in Slots |-> IF sl \in slots THEN Append(@[sl], c) ELSE @[sl]],
                    !.noKey = [sl \in Slots |-> IF sl \in slots /\ onNoKey THEN @[sl] + 1 ELSE @[sl]]],
          c, btype)

\* A client whose command is being executed again keeps its first timeout.
blockForKeys(s, c, btype, ks, onNoKey, reexecuting) ==
    LET slots == {s.client[c].cmd.db} \X (ks \ s.client[c].keys)
    IN  blockClient(
          [s EXCEPT !.client[c].timeout = IF reexecuting THEN @
                                          ELSE IF s.client[c].cmd.timed THEN "future" ELSE "never",
                    !.client[c].keys = @ \cup ks,
                    !.client[c].onNoKey = onNoKey,
                    !.client[c].pending = TRUE,
                    !.older = Comes(s, c),
                    !.blocking = [sl \in Slots |-> IF sl \in slots THEN Append(@[sl], c) ELSE @[sl]],
                    !.noKey = [sl \in Slots |-> IF sl \in slots /\ onNoKey THEN @[sl] + 1 ELSE @[sl]]],
          c, btype)

\* A mutant: the deadline of the blocking command is kept while it is postponed.
PostponeKeepsTimeout(s, c) ==
    [blockClient(s, c, "postpone") EXCEPT !.postponed = Append(@, c), !.client[c].pending = TRUE]

blockPostponeClient(s, c) ==
    [blockClient([s EXCEPT !.client[c].timeout = "never"], c, "postpone")
        EXCEPT !.postponed = Append(@, c), !.client[c].pending = TRUE]

\* Takes c off the waiting lists of all its keys.  The reference count of a
\* key that others still wait for goes down with a client that counted in it.
unblockClientWaitingData(s, c) ==
    LET slots == {s.client[c].cmd.db} \X s.client[c].keys
        left(sl) == Remove(s.blocking[sl], c)
    IN  [s EXCEPT !.blocking = [sl \in Slots |-> IF sl \in slots THEN left(sl) ELSE @[sl]],
                  !.noKey = [sl \in Slots |-> IF sl \notin slots THEN @[sl]
                                              ELSE IF left(sl) = <<>> THEN 0
                                              ELSE IF s.client[c].onNoKey THEN @[sl] - 1 ELSE @[sl]],
                  !.client[c].keys = {}]

queueClientForReprocessing(s, c) ==
    IF s.client[c].queued THEN s
    ELSE [s EXCEPT !.client[c].queued = TRUE, !.unblocked = Append(@, c)]

removeClientFromTimeoutTable(s, c) ==
    IF ~ s.client[c].inTable THEN s
    ELSE [s EXCEPT !.client[c].inTable = FALSE,
                   !.table[c] = IF @ = s.client[c].timeout THEN "never" ELSE @]

\* The command is forgotten unless it is still to be executed.
unblockClient(s, c, reprocess) ==
    LET btype == s.client[c].btype
        s1 == IF btype = "postpone" THEN [s EXCEPT !.postponed = Remove(@, c)]
              ELSE unblockClientWaitingData(s, c)
        s2 == IF s.client[c].pending THEN s1 ELSE [s1 EXCEPT !.client[c].cmd = None]
        s3 == removeClientFromTimeoutTable(
                [s2 EXCEPT !.byType[btype] = @ - 1,
                           !.client[c].btype = "none",
                           !.client[c].onNoKey = FALSE], c)
    IN  IF reprocess THEN queueClientForReprocessing(s3, c) ELSE s3

\* A mutant: the pending flag survives, so the command runs again after its
\* null or error reply.
AnswerKeepsPending(s, c) ==
    unblockClient([s EXCEPT !.client[c].owed = @ - 1], c, TRUE)

\* A null or an error reply ends the wait (unblockClientOnTimeout, OnError).
unblockWithReply(s, c) ==
    unblockClient([s EXCEPT !.client[c].owed = @ - 1, !.client[c].pending = FALSE], c, TRUE)

-------------------------------------------------------------------------------
(* The blocking commands.                                                     *)

answer(s, c) == [s EXCEPT !.client[c].owed = @ - 1, !.client[c].cmd = None]

Slot(s, c, i) == <<s.client[c].cmd.db, s.client[c].cmd.keys[i]>>

\* The keys of the command are looked up in order, up to the first of `stop`.
LookedUp(s, c, stop) ==
    LET n == IF stop = {} THEN Len(s.client[c].cmd.keys) ELSE Min(stop)
    IN  FoldLeft(expireIfNeeded, s, [i \in 1..n |-> Slot(s, c, i)])

\* The first key that exists decides.
blockingPopGenericCommand(s, c, reexecuting) ==
    LET ks == s.client[c].cmd.keys
        present == {i \in DOMAIN ks : lookupKey(s, Slot(s, c, i)) # Absent}
        first == Slot(s, c, Min(present))
        t == LookedUp(s, c, present)
    IN  IF present = {} THEN blockForKeys(t, c, "list", ToSet(ks), FALSE, reexecuting)
        ELSE IF t.value[first].type # "list" THEN answer(t, c)
        ELSE answer(popOne(t, first), c)

\* The element is pushed before the emptied source is deleted; within one list
\* it only changes its place.
blmoveGenericCommand(s, c, reexecuting) ==
    LET src == Slot(s, c, 1)
        dst == Slot(s, c, 2)
        t == expireIfNeeded(s, src)
        u == expireIfNeeded(t, dst)
    IN  IF t.value[src] = Absent THEN blockForKeys(t, c, "list", {src[2]}, FALSE, reexecuting)
        ELSE IF t.value[src].type # "list" THEN answer(t, c)
        ELSE IF u.value[dst].type \notin {"none", "list"} \/ src = dst THEN answer(u, c)
        ELSE answer(popOne(pushOne(u, dst), src), c)

\* XREADGROUP ... BLOCK with the ">" id: everything the group has not read.
xreadCommand(s, c, reexecuting) ==
    LET ks == s.client[c].cmd.keys
        slots == {Slot(s, c, i) : i \in DOMAIN ks}
        groupless == {i \in DOMAIN ks : LET v == lookupKey(s, Slot(s, c, i))
                                        IN  ~ (v.type = "stream" /\ v.group)}
        t == LookedUp(s, c, groupless)
    IN  IF groupless # {} THEN answer(t, c)
        ELSE IF \E sl \in slots : t.value[sl].n > 0
             THEN answer([t EXCEPT !.value = [sl \in Slots |-> IF sl \in slots THEN [@[sl] EXCEPT !.n = 0]
                                                              ELSE @[sl]]], c)
        ELSE blockForKeys(t, c, "stream", ToSet(ks), TRUE, reexecuting)

processCommand(s, c, reexecuting) ==
    IF paused THEN blockPostponeClient(s, c)
    ELSE CASE s.client[c].cmd.op = "blpop"      -> blockingPopGenericCommand(s, c, reexecuting)
           [] s.client[c].cmd.op = "blmove"     -> blmoveGenericCommand(s, c, reexecuting)
           [] s.client[c].cmd.op = "xreadgroup" -> xreadCommand(s, c, reexecuting)

\* A ready key serves a client by executing its command again, at a new time.
unblockClientOnKey(s, c, late) ==
    LET s1 == enterExecutionUnit(unblockClient(s, c, FALSE), late)
        s2 == processCommand([s1 EXCEPT !.client[c].pending = FALSE], c, TRUE)
    IN  IF IsBlocked(s2, c) THEN s2 ELSE queueClientForReprocessing(s2, c)

\* A mutant: a key that is gone concerns no one.
ConcernsSameType(s, sl, c) == getBlockedTypeByType(lookupKey(s, sl).type) = s.client[c].btype

\* Does a ready key concern this client of its waiting list?
Concerns(s, sl, c) ==
    \/ getBlockedTypeByType(lookupKey(s, sl).type) = s.client[c].btype
    \/ s.client[c].onNoKey

-------------------------------------------------------------------------------
(* handleClientsBlockedOnKeys: runs after the command, before anything else.  *)

AfterCommand(s) == phase' = IF s.ready = <<>> THEN "idle" ELSE "serving"

\* Takes over the list of ready keys; keys signalled meanwhile go to a new one.
TakeReadyKeys ==
    /\ phase = "serving" /\ batch = <<>> /\ cursor = None /\ ready # <<>>
    /\ batch' = ready /\ ready' = <<>>
    /\ UNCHANGED <<value, ttl, blocking, noKey, byType, readySet, client, table, unblocked, postponed,
                   cursor, paused, phase, older>>

\* Starts on the next key of the list.
HandleKey ==
    /\ phase = "serving" /\ batch # <<>> /\ cursor = None
    /\ readySet' = readySet \ {Head(batch)}
    /\ batch' = Tail(batch)
    /\ cursor' = IF blocking[Head(batch)] = <<>> THEN None
                 ELSE [slot |-> Head(batch), rest |-> blocking[Head(batch)]]
    /\ UNCHANGED <<value, ttl, blocking, noKey, byType, ready, client, table, unblocked, postponed,
                   paused, phase, older>>

\* A mutant: without the count, the iterator also visits clients that blocked
\* again while the key was being handled.
HandleClientUncounted ==
    /\ cursor # None
    /\ LET c == Head(cursor.rest)
           s == IF Concerns(Now, cursor.slot, c) THEN unblockClientOnKey(Now, c, {}) ELSE Now
           rest == Tail(cursor.rest) \o (IF Concerns(Now, cursor.slot, c) /\ Contains(s.blocking[cursor.slot], c)
                                         THEN <<c>> ELSE <<>>)
       IN  /\ Become(s)
           /\ cursor' = IF rest = <<>> THEN None ELSE [cursor EXCEPT !.rest = rest]
    /\ UNCHANGED <<batch, paused, phase>>

\* One turn of the loop over the clients waiting for the key.
HandleClient ==
    /\ cursor # None
    /\ LET c == Head(cursor.rest)
       IN  \/ /\ Concerns(Now, cursor.slot, c)
              /\ \E late \in SUBSET Expiring : Become(unblockClientOnKey(Now, c, late))
           \/ ~ Concerns(Now, cursor.slot, c) /\ Become(Now)
    /\ cursor' = IF Len(cursor.rest) = 1 THEN None ELSE [cursor EXCEPT !.rest = Tail(@)]
    /\ UNCHANGED <<batch, paused, phase>>

\* blockedBeforeSleep: keys made ready by something that is no command.
BlockedBeforeSleep ==
    /\ phase = "idle" /\ ready # <<>>
    /\ phase' = "serving"
    /\ UNCHANGED <<serverVars, batch, cursor, paused, older>>

\* No key is ready any more: the event loop goes on.
EndServing ==
    /\ phase = "serving" /\ batch = <<>> /\ cursor = None /\ ready = <<>>
    /\ phase' = "idle"
    /\ UNCHANGED <<serverVars, batch, cursor, paused, older>>

-------------------------------------------------------------------------------
(* What connections and the event loop do.                                    *)

\* canParseCommand: a client in the middle of something sends nothing.
SendCommand(c, cmd) ==
    /\ phase = "idle"
    /\ ~ IsBlocked(Now, c) /\ ~ client[c].queued /\ ~ client[c].pending
    /\ LET s == processCommand([Now EXCEPT !.client[c].cmd = cmd, !.client[c].owed = 1], c, FALSE)
       IN  Become(s) /\ AfterCommand(s)
    /\ UNCHANGED <<batch, cursor, paused>>

\* One turn of processUnblockedClients, with processPendingCommandAndInputBuffer.
ProcessUnblocked ==
    /\ phase = "idle" /\ unblocked # <<>>
    /\ LET c == Head(unblocked)
           s1 == [Now EXCEPT !.unblocked = Tail(@), !.client[c].queued = FALSE]
           s2 == IF ~ IsBlocked(s1, c) /\ s1.client[c].pending
                 THEN processCommand([s1 EXCEPT !.client[c].pending = FALSE], c, FALSE) ELSE s1
       IN  Become(s2) /\ AfterCommand(s2)
    /\ UNCHANGED <<batch, cursor, paused>>

\* The clock passes the timeout of c.  That of a client that is not blocked is
\* never read again.
TimePasses(c) ==
    /\ phase = "idle" /\ IsBlocked(Now, c) /\ client[c].timeout = "future"
    /\ client' = [client EXCEPT ![c].timeout = "past"]
    /\ table' = [table EXCEPT ![c] = IF @ = "future" THEN "past" ELSE @]
    /\ UNCHANGED <<value, ttl, blocking, noKey, byType, ready, readySet, unblocked, postponed,
                   batch, cursor, paused, phase, older>>

\* The clock passes the time to live of a key, and a turn of the event loop
\* (afterSleep) takes the new time over.
KeyExpires(sl) ==
    /\ phase = "idle" /\ ttl[sl] = "running"
    /\ Become(enterExecutionUnit(Now, {sl}))
    /\ UNCHANGED <<batch, cursor, paused, phase>>

\* The expire cycle, of the cron or of beforeSleep after it has served; it rests
\* during a pause.
activeExpireCycle(sl) ==
    /\ phase = "idle" /\ ~ paused /\ ttl[sl] = "passed"
    /\ Become(dbDelete(Now, sl))
    /\ UNCHANGED <<batch, cursor, paused, phase>>

\* One turn of handleBlockedClientsTimeout, with checkBlockedClientTimeout.
HandleTimeout(c) ==
    /\ phase = "idle" /\ table[c] = "past"
    /\ LET s1 == [Now EXCEPT !.client[c].inTable = FALSE]
           s2 == IF IsBlocked(s1, c) /\ s1.client[c].timeout = "past" THEN unblockWithReply(s1, c) ELSE s1
       IN  Become([s2 EXCEPT !.table[c] = "never"])
    /\ UNCHANGED <<batch, cursor, paused, phase>>

\* CLIENT UNBLOCK, or a redirection found by clientsCron.  Clients that are
\* only postponed may not be unblocked (blockedClientMayTimeout).
ClientUnblock(c) ==
    /\ phase = "idle" /\ client[c].btype \in KeyTypes
    /\ LET s == unblockWithReply(Now, c)
       IN  Become(s) /\ AfterCommand(s)
    /\ UNCHANGED <<batch, cursor, paused>>

\* disconnectAllBlockedClients, when the instance becomes a replica.
RoleChange ==
    /\ phase = "idle"
    /\ \E order \in SetToSeqs({c \in Clients : client[c].btype \in KeyTypes}) :
          LET s == FoldLeft(unblockWithReply, Now, order)
          IN  order # <<>> /\ Become(s) /\ AfterCommand(s)
    /\ UNCHANGED <<batch, cursor, paused>>

\* A mutant: a client that is freed stays in the list of unblocked clients.
FreeClientKeepsQueued(c) ==
    /\ phase = "idle"
    /\ LET s == IF IsBlocked(Now, c) THEN unblockClient(Now, c, TRUE) ELSE Now
       IN  Become([s EXCEPT !.client[c] = IdleClient])
    /\ UNCHANGED <<batch, cursor, paused, phase>>

\* A mutant: a client may be freed while ready keys are being handled.
FreeClientAtOnce(c) ==
    /\ phase \in {"idle", "serving"}
    /\ LET s == IF IsBlocked(Now, c) THEN unblockClient(Now, c, TRUE) ELSE Now
       IN  Become([s EXCEPT !.unblocked = Remove(@, c), !.client[c] = IdleClient])
    /\ UNCHANGED <<batch, cursor, paused, phase>>

\* The connection is closed, and a new one takes its place.
freeClient(c) ==
    /\ phase = "idle"
    /\ LET s == IF IsBlocked(Now, c) THEN unblockClient(Now, c, TRUE) ELSE Now
       IN  Become([s EXCEPT !.unblocked = Remove(@, c), !.client[c] = IdleClient])
    /\ UNCHANGED <<batch, cursor, paused, phase>>

\* A mutant: the released clients are not queued for reprocessing.
UnpauseWithoutQueue ==
    /\ phase = "idle" /\ paused
    /\ paused' = FALSE
    /\ Become(FoldLeft(LAMBDA s, c : unblockClient(s, c, FALSE), Now, postponed))
    /\ UNCHANGED <<batch, cursor, phase>>

\* CLIENT UNPAUSE or the end of the pause: all postponed commands run again.
Unpause ==
    /\ phase = "idle" /\ paused
    /\ paused' = FALSE
    /\ Become(FoldLeft(LAMBDA s, c : unblockClient(s, c, TRUE), Now, postponed))
    /\ UNCHANGED <<batch, cursor, phase>>

-------------------------------------------------------------------------------
(* Writes of other clients.  One command is one of these steps and EndExec, a *)
(* transaction or a script any number of them.  A pause holds writes back,    *)
(* except those of the transaction that contains the CLIENT PAUSE.            *)

Writing(kind) ==
    /\ kind \in Writes
    /\ phase = "exec" \/ (phase = "idle" /\ ~ paused)
    /\ phase' = "exec"
    /\ UNCHANGED <<batch, cursor>>

Room == MapThenSumSet(LAMBDA sl : lookupKey(Now, sl).n, Slots) < MaxElements

Push(sl) ==
    /\ Writing("push") /\ Room /\ lookupKey(Now, sl).type \in {"none", "list"}
    /\ Become(pushOne(Now, sl))
    /\ UNCHANGED paused

\* DEL, or any command that finds the key expired.
Del(sl) ==
    /\ Writing("del") /\ value[sl] # Absent
    /\ Become(dbDelete(Now, sl))
    /\ UNCHANGED paused

SetString(sl) ==
    /\ Writing("set") /\ (value[sl] # String \/ ttl[sl] # "none")
    /\ Become(setKey(Now, sl, String))
    /\ UNCHANGED paused

\* PEXPIRE.
Expire(sl) ==
    /\ Writing("expire") /\ value[sl] # Absent /\ ttl[sl] = "none"
    /\ Become([Now EXCEPT !.ttl[sl] = "running"])
    /\ UNCHANGED paused

\* SORT ... STORE, the command that makes a key a list whatever it was.
SortStore(sl) ==
    /\ Writing("sort_store") /\ Room
    /\ lookupKey(Now, sl) = Absent \/ "overwrite" \in Writes
    /\ Become(setKey(Now, sl, ListOf(1)))
    /\ UNCHANGED paused

\* XGROUP CREATE ... $ MKSTREAM.
XGroupCreate(sl) ==
    /\ Writing("xgroup") /\ lookupKey(Now, sl) \in {Absent, StreamOf(0, FALSE)}
    /\ LET s == expireIfNeeded(Now, sl)
       IN  Become(IF s.value[sl] = Absent THEN dbAdd(s, sl, StreamOf(0, TRUE))
                  ELSE [s EXCEPT !.value[sl] = StreamOf(0, TRUE)])
    /\ UNCHANGED paused

\* The consumers of the group are told, they will find it gone.
XGroupDestroy(sl) ==
    /\ Writing("xgroup") /\ lookupKey(Now, sl).type = "stream" /\ value[sl].group
    /\ Become(signalKeyAsReadyLogic([Now EXCEPT !.value[sl] = StreamOf(0, FALSE)], sl, "stream", FALSE))
    /\ UNCHANGED paused

\* XADD: an entry for the group, if there is one.
xaddCommand(sl) ==
    /\ Writing("xadd") /\ Room /\ lookupKey(Now, sl).type \in {"none", "stream"}
    /\ LET s == expireIfNeeded(Now, sl)
           t == IF s.value[sl] = Absent THEN dbAdd(s, sl, StreamOf(0, FALSE))
                ELSE IF s.value[sl].group THEN [s EXCEPT !.value[sl].n = @ + 1] ELSE s
       IN  Become(signalKeyAsReadyLogic(t, sl, "stream", FALSE))
    /\ UNCHANGED paused

\* The keys of database d that someone waits for and that are something else
\* in the database that takes its place (repl gives the new values).
DeletedBy(s, d, repl) ==
    {sl \in {d} \X Keys : /\ s.value[sl].type # repl[sl].type
                          /\ Queues(s, sl, s.value[sl].type, TRUE)}

\* The keys of database d that someone waits for and that exist.
ExistingIn(s, d) == {sl \in {d} \X Keys : Queues(s, sl, s.value[sl].type, FALSE)}

\* One database is scanned, then the other, each in hash order.
Scans(A, B) == {a \o b : a \in SetToSeqs(A), b \in SetToSeqs(B)}

\* scanDatabaseForDeletedKeys goes over the waiting keys in hash order.
flushdb(d) ==
    /\ Writing("flushdb") /\ \E k \in Keys : value[<<d, k>>] # Absent
    /\ LET empty == [sl \in Slots |-> IF sl[1] = d THEN Absent ELSE value[sl]]
       IN  \E order \in SetToSeqs(DeletedBy(Now, d, empty)) :
              Become([QueueReady(Now, order) EXCEPT
                         !.value = empty, !.ttl = [sl \in Slots |-> IF sl[1] = d THEN "none" ELSE @[sl]]])
    /\ UNCHANGED paused

\* A mutant: databases are swapped without looking for keys that are now there.
SwapWithoutScan(d1, d2) ==
    /\ Writing("swapdb") /\ d1 # d2
    /\ LET other(d) == IF d = d1 THEN d2 ELSE IF d = d2 THEN d1 ELSE d
           swapped == [sl \in Slots |-> value[<<other(sl[1]), sl[2]>>]]
           ttls == [sl \in Slots |-> ttl[<<other(sl[1]), sl[2]>>]]
       IN  \E order \in Scans(DeletedBy(Now, d1, swapped), DeletedBy(Now, d2, swapped)) :
              Become([QueueReady(Now, order) EXCEPT !.value = swapped, !.ttl = ttls])
    /\ UNCHANGED paused

\* The waiting lists stay with the database number.  Afterwards every waited
\* for key that exists is signalled (scanDatabaseForReadyKeys).
dbSwapDatabases(d1, d2) ==
    /\ Writing("swapdb") /\ d1 # d2
    /\ LET other(d) == IF d = d1 THEN d2 ELSE IF d = d2 THEN d1 ELSE d
           swapped == [sl \in Slots |-> value[<<other(sl[1]), sl[2]>>]]
           ttls == [sl \in Slots |-> ttl[<<other(sl[1]), sl[2]>>]]
       IN  \E order \in Scans(DeletedBy(Now, d1, swapped), DeletedBy(Now, d2, swapped)) :
              LET s == [QueueReady(Now, order) EXCEPT !.value = swapped, !.ttl = ttls]
              IN  \E found \in Scans(ExistingIn(s, d1), ExistingIn(s, d2)) : Become(QueueReady(s, found))
    /\ UNCHANGED paused

\* CLIENT PAUSE, alone or inside a transaction.
Pause ==
    /\ Writing("pause") /\ ~ paused
    /\ paused' = TRUE
    /\ Become(Now)

EndExec ==
    /\ phase = "exec"
    /\ AfterCommand(Now)
    /\ UNCHANGED <<serverVars, batch, cursor, paused, older>>

\* Commands on an expired key inside the transaction that paused are left out.
Write(sl) ==
    /\ ~ (paused /\ ttl[sl] = "passed")
    /\ \/ Push(sl) \/ Del(sl) \/ SetString(sl) \/ Expire(sl) \/ SortStore(sl)
       \/ XGroupCreate(sl) \/ XGroupDestroy(sl) \/ xaddCommand(sl)

Serve == BlockedBeforeSleep \/ TakeReadyKeys \/ HandleKey \/ HandleClient \/ EndServing \/ EndExec

Next ==
    \/ Serve
    \/ \E c \in Clients :
          \/ \E cmd \in Commands : SendCommand(c, cmd)
          \/ TimePasses(c) \/ HandleTimeout(c) \/ ClientUnblock(c) \/ freeClient(c)
    \/ ProcessUnblocked \/ RoleChange \/ Pause \/ Unpause
    \/ \E sl \in Slots : Write(sl) \/ KeyExpires(sl) \/ activeExpireCycle(sl)
    \/ \E d \in Dbs : flushdb(d)
    \/ \E d1, d2 \in Dbs : dbSwapDatabases(d1, d2)

\* A command ends, and beforeSleep runs once per turn of the event loop: its
\* steps are taken whenever they keep coming up, not only when nothing else is.
\* This is WF(Serve), SF(ProcessUnblocked) and SF(HandleTimeout(c)), with the
\* conditions under which they are enabled written out.
Fairness ==
    /\ []<>(phase = "idle" /\ ready = <<>>) \/ []<><<Serve>>_<<phase, batch, cursor, ready>>
    /\ <>[]~(phase = "idle" /\ unblocked # <<>>) \/ []<><<ProcessUnblocked>>_unblocked
    /\ \A c \in Clients : <>[]~(phase = "idle" /\ table[c] = "past") \/ []<><<HandleTimeout(c)>>_table

Spec == Init /\ [][Next]_vars /\ Fairness

-------------------------------------------------------------------------------
(* Properties.                                                                *)

Times == {"never", "future", "past"}

ClientRecord ==
    [cmd : Commands \cup {None}, btype : KeyTypes \cup {"none", "postpone"},
     keys : SUBSET Keys, onNoKey : BOOLEAN, timeout : Times, inTable : BOOLEAN,
     pending : BOOLEAN, queued : BOOLEAN, owed : Int]

\* Every variable has its type: no key holds an empty list, only keys that
\* exist have a time to live, reference counts are natural numbers, and the
\* server leaves the serving phase only with nothing left to serve.
TypeOK ==
    /\ value \in [Slots -> {Absent, String} \cup {ListOf(n) : n \in 1..MaxElements}
                                \cup {StreamOf(n, g) : n \in 0..MaxElements, g \in BOOLEAN}]
    /\ ttl \in [Slots -> {"none", "running", "passed"}]
    /\ \A sl \in Slots : ttl[sl] # "none" => value[sl] # Absent
    /\ DOMAIN blocking = Slots /\ \A sl \in Slots : ToSet(blocking[sl]) \subseteq Clients
    /\ noKey \in [Slots -> Nat] /\ byType \in [KeyTypes \cup {"postpone"} -> Nat]
    /\ ToSet(ready) \subseteq Slots /\ ToSet(batch) \subseteq Slots /\ readySet \subseteq Slots
    /\ client \in [Clients -> ClientRecord] /\ table \in [Clients -> Times]
    /\ ToSet(unblocked) \subseteq Clients /\ ToSet(postponed) \subseteq Clients
    /\ cursor = None \/ (cursor.slot \in Slots /\ cursor.rest # <<>> /\ ToSet(cursor.rest) \subseteq Clients)
    /\ paused \in BOOLEAN /\ phase \in {"idle", "exec", "serving"}
    /\ phase # "serving" => batch = <<>> /\ cursor = None
    /\ older \in [Clients -> SUBSET Clients]

\* The two directions of the index agree: a client is once in the waiting list
\* of each key it waits for and in no other, the reference counts of
\* blocking_keys_unblock_on_nokey and the counters by type are exact, the flag
\* of a queued client says that it is in the list, and db->ready_keys holds
\* the keys that are to be handled (the assertions of releaseBlockedEntry).
IndexConsistent ==
    /\ \A sl \in Slots :
          /\ IsInjective(blocking[sl])
          /\ ToSet(blocking[sl]) = {c \in Clients : sl[2] \in client[c].keys /\ client[c].cmd.db = sl[1]}
          /\ noKey[sl] = Cardinality({c \in ToSet(blocking[sl]) : client[c].onNoKey})
    /\ \A c \in Clients : client[c].keys # {} <=> client[c].btype \in KeyTypes
    /\ \A t \in DOMAIN byType : byType[t] = Cardinality({c \in Clients : client[c].btype = t})
    /\ IsInjective(unblocked) /\ ToSet(unblocked) = {c \in Clients : client[c].queued}
    /\ IsInjective(postponed) /\ ToSet(postponed) = {c \in Clients : client[c].btype = "postpone"}
    /\ IsInjective(batch \o ready) /\ ToSet(batch \o ready) = readySet

\* The timeout table, which holds raw client pointers, has an entry exactly for
\* the clients blocked with a timeout, under that timeout: a stale entry would
\* be followed to a client that is gone or waits for something else.  A client
\* that is only postponed has no timeout, for there is no reply for it
\* (replyToBlockedClientTimedOut panics).
TimeoutTableExact ==
    \A c \in Clients :
        /\ client[c].btype = "postpone" => table[c] = "never"
        /\ table[c] = IF IsBlocked(Now, c) THEN client[c].timeout ELSE "never"
        /\ client[c].inTable <=> table[c] # "never"

\* What client c waits for, tried again now, would be found at key k.
ServableBy(c, k) ==
    LET sl == <<client[c].cmd.db, k>>
    IN  IF client[c].btype = "list" THEN lookupKey(Now, sl).type = "list"
        ELSE value[sl].type # "stream" \/ ~ value[sl].group \/ value[sl].n > 0

\* No wake-up is missed: when the server goes back to its event loop, no client
\* is left waiting for a list that exists, or for a stream that has entries for
\* its group or that is gone ("The client will unblocked as soon as one of the
\* keys in 'keys' value was updated", blocked.c).  Only a key that the expire
\* cycle has deleted is still to be handled then, and is queued for it.
NoMissedWakeup ==
    phase = "idle" =>
        \A c \in Clients : client[c].btype \in KeyTypes =>
            \A k \in client[c].keys : ServableBy(c, k) => <<client[c].cmd.db, k>> \in readySet

\* Every command gets exactly one reply: one is owed as long as the command is
\* to be executed, blocked or queued for it, and none afterwards, whichever of
\* data, timeout, CLIENT UNBLOCK, role change and pause came first.
OneReplyPerCommand ==
    \A c \in Clients :
        /\ client[c].owed = IF client[c].cmd # None THEN 1 ELSE 0
        /\ client[c].pending <=> client[c].cmd # None
        /\ IsBlocked(Now, c) => client[c].pending

\* The nodes that the iterator of handleClientsBlockedOnKey has still to visit
\* are not freed under it: executing the command of one client again takes no
\* other client off the waiting list.
IteratorValid ==
    cursor # None => ToSet(cursor.rest) \subseteq ToSet(blocking[cursor.slot])

\* Clients waiting for a list are served in the order in which they blocked:
\* who gets an answer from a ready key leaves no one behind that waited for
\* the key before ("We serve clients in the same order they blocked for this
\* key", handleClientsBlockedOnKey).  A client whose command was executed again
\* in vain, because the key had expired meanwhile, has blocked anew and comes
\* after all others.
ServedInOrder ==
    [][\A c \in Clients :
          (cursor # None /\ WaitsForList(Now, c) /\ client'[c].owed < client[c].owed)
            => \A d \in older[c] : ~ (d \in ToSet(blocking[cursor.slot]))]_vars

\* Executing a blocking command again does not move its deadline: while a
\* client waits for the same command its timeout only changes with the clock.
DeadlineKept ==
    [][\A c \in Clients :
          (client[c].btype \in KeyTypes /\ client'[c].btype \in KeyTypes)
            => \/ client'[c].timeout = client[c].timeout
               \/ client[c].timeout = "future" /\ client'[c].timeout = "past"]_vars

\* What is ready gets served, and serving ends, although a command that is
\* executed again may block again or make other keys ready ("Avoid processing more than the initial count so that
\* we're not stuck in an endless loop").
ServingEnds == (readySet # {} \/ phase = "serving") ~> (readySet = {} /\ phase = "idle")

\* Nobody is forgotten: a client whose timeout has passed gets its reply or is
\* postponed, and the command of a client released from a pause is executed.
NobodyForgotten ==
    \A c \in Clients :
        /\ (client[c].btype \in KeyTypes /\ client[c].timeout = "past")
               ~> (client[c].owed = 0 \/ client[c].btype = "postpone")
        /\ (client[c].pending /\ ~ IsBlocked(Now, c)) ~> (client[c].owed = 0 \/ IsBlocked(Now, c))
=============================================================================
