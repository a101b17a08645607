------------------------------ MODULE Observe ------------------------------
(***************************************************************************)
(* OBSERVE / UNOBSERVE: live queries (src/src/observe.c) with the hooks    *)
(* they rest on: signalModifiedKey in db.c, freeClient and RESET in        *)
(* networking.c, the RESP2 gate of processCommand in server.c.             *)
(*                                                                         *)
(* The server executes one command, timer or cron step at a time, so every *)
(* action below is one whole handler.  Error replies change nothing and    *)
(* are the missing steps of the guards.                                    *)
(*                                                                         *)
(* The subscription is kept three times: in the client                     *)
(* (c->observe_fingerprints), per fingerprint (observeCommandInfo with its *)
(* client list) and per key (observe_key_to_fingerprints).  The lists are  *)
(* bags here: clientsOf[f][c] and keyFps[k][f] count occurrences, so that  *)
(* a doubly added or wrongly removed node shows; their order decides only  *)
(* the order in which different sockets are written.                       *)
(***************************************************************************)
EXTENDS Integers, FiniteSets, SequencesExt

CONSTANTS
    Clients,        \* connections
    Queries,        \* observed commands: sequences <<name, key, arg, ...>>
    Dbs,            \* numbered databases, 0 among them
    Values,         \* values a key may hold
    UnobserveArgs,  \* argument lists UNOBSERVE is called with
    None            \* NULL, a missing key, no database

\* An argument is the sequence of its space separated words: <<"a", "b">> is
\* the single argument "a b".
KeyOf(q) == q[2]

\* The arguments joined with single spaces; the CRC64 of the result is taken
\* to be collision free.
Fingerprint == [q \in Queries |-> FlattenSeq(q)]

Keys == {KeyOf(q) : q \in Queries}
Fingerprints == {Fingerprint[q] : q \in Queries}

ASSUME ConstantsAssumption ==
    /\ IsFiniteSet(Clients)
    /\ 0 \in Dbs
    /\ None \notin Queries /\ None \notin Dbs /\ None \notin Values
    /\ None \notin [query : Queries, value : Values \cup {None}]
    /\ \A a \in UnobserveArgs : a \in Seq(Fingerprints)

VARIABLES
    db,               \* server.db[d]: key -> value or None
    expired,          \* <<d, k>> whose TTL has passed, not yet deleted
    debounce,         \* server.observe_debounce_period # 0
    connected,        \* clients of server.clients
    clientDb,         \* c->db->id
    resp,             \* c->resp
    clientFps,        \* c->observe_fingerprints; {} is NULL
    info,             \* server.observe_fingerprints: fingerprint -> stored argv
    clientsOf,        \* observeInfo->clients
    keyFps,           \* server.observe_key_to_fingerprints
    observing,        \* c->flag.observing
    observingClients, \* server.observing_clients
    buffer,           \* server.observe_debounce_buffer: key -> dbid
    timer,            \* isObserveDebounceRunning and its time event
    view,             \* last result the client was sent per fingerprint
    alive             \* FALSE once the process has dereferenced NULL

keyspaceVars == <<db, expired>>
clientVars == <<connected, clientDb, resp>>
indexVars == <<clientFps, info, clientsOf, keyFps, observing, observingClients>>
notifyVars == <<buffer, timer, view>>
vars == <<keyspaceVars, clientVars, indexVars, notifyVars, debounce, alive>>

Init ==
    /\ db = [d \in Dbs |-> [k \in Keys |-> None]]
    /\ expired = {}
    /\ debounce \in BOOLEAN
    /\ connected = {}
    /\ clientDb = [c \in Clients |-> 0]
    /\ resp = [c \in Clients |-> 2]
    /\ clientFps = [c \in Clients |-> {}]
    /\ info = [f \in Fingerprints |-> None]
    /\ clientsOf = [f \in Fingerprints |-> [c \in Clients |-> 0]]
    /\ keyFps = [k \in Keys |-> [f \in Fingerprints |-> 0]]
    /\ observing = [c \in Clients |-> FALSE]
    /\ observingClients = 0
    /\ buffer = [k \in Keys |-> None]
    /\ timer = FALSE
    /\ view = [c \in Clients |-> [f \in Fingerprints |-> None]]
    /\ alive = TRUE

-----------------------------------------------------------------------------
\* Notification

Result(q, v) == [query |-> q, value |-> v]

\* Mutant: subscribers in other databases are notified as well.
NotifyAnyDatabase(batch, values) ==
    [c \in Clients |-> [f \in Fingerprints |->
        IF \E k \in Keys : /\ batch[k] # None
                           /\ keyFps[k][f] > 0
                           /\ info[f] # None
                           /\ clientsOf[f][c] > 0
                           /\ values[batch[k]][KeyOf(info[f])] # None
        THEN Result(info[f], values[CHOOSE d \in Dbs : \E k \in Keys : batch[k] = d]
                                   [KeyOf(info[f])])
        ELSE view[c][f]]]

\* executeObserveCommand for every fingerprint of every key of batch (key ->
\* dbid or None): each subscriber that is in that database is pushed the
\* stored command's result, unless the key is missing there.
NotifyImmediate(batch, values) ==
    [c \in Clients |-> [f \in Fingerprints |->
        IF \E k \in Keys : /\ batch[k] = clientDb[c]
                           /\ keyFps[k][f] > 0
                           /\ info[f] # None
                           /\ clientsOf[f][c] > 0
                           /\ values[batch[k]][KeyOf(info[f])] # None
        THEN Result(info[f], values[clientDb[c]][KeyOf(info[f])])
        ELSE view[c][f]]]

Only(k, d) == [j \in Keys |-> IF j = k THEN d ELSE None]

\* A key is buffered under its name alone: a second change overwrites the
\* database.  The timer is started when the key is new to the buffer.
DebounceKeyChange(k, d) ==
    /\ buffer' = [buffer EXCEPT ![k] = d]
    /\ timer' = (timer \/ buffer[k] = None)

\* observeNotifyKeyChange, with the values the keyspace has by then.
ObserveNotifyKeyChange(k, d, values) ==
    \/ /\ observingClients = 0
       /\ UNCHANGED notifyVars
    \/ /\ observingClients # 0
       /\ ~debounce
       /\ view' = NotifyImmediate(Only(k, d), values)
       /\ UNCHANGED <<buffer, timer>>
    \/ /\ observingClients # 0
       /\ debounce
       /\ DebounceKeyChange(k, d)
       /\ UNCHANGED view

SetKey(d, k, v) ==
    /\ db' = [db EXCEPT ![d][k] = v]
    /\ expired' = expired \ {<<d, k>>}
    /\ ObserveNotifyKeyChange(k, d, db')

\* The first access to a key whose TTL has passed deletes and signals it.
ExpireIfNeeded(d, k) ==
    IF <<d, k>> \in expired
    THEN SetKey(d, k, None)
    ELSE UNCHANGED <<keyspaceVars, notifyVars>>

LiveValue(d, k) == IF <<d, k>> \in expired THEN None ELSE db[d][k]

\* Buffered keys the flush finds expired: looking them up deletes them, which
\* signals them again while the flush is running.
ReapedByFlush ==
    {k \in Keys : /\ buffer[k] # None
                  /\ <<buffer[k], k>> \in expired
                  /\ \E f \in Fingerprints : keyFps[k][f] > 0 /\ info[f] # None}

\* Mutant: the handler always returns AE_NOMORE.
TimerAlwaysStops ==
    /\ alive
    /\ timer
    /\ LET reaped == {<<buffer[k], k>> : k \in ReapedByFlush}
           values == [d \in Dbs |-> [k \in Keys |->
                         IF <<d, k>> \in reaped THEN None ELSE db[d][k]]]
       IN /\ db' = values
          /\ expired' = expired \ reaped
          /\ view' = NotifyImmediate(buffer, values)
    /\ buffer' = [k \in Keys |->
                     IF k \in ReapedByFlush /\ debounce /\ observingClients # 0
                     THEN buffer[k] ELSE None]
    /\ timer' = FALSE
    /\ UNCHANGED <<clientVars, indexVars, debounce, alive>>

\* observeDebounceTimerHandler and observeDebounceFlush: the buffer is copied
\* and emptied, every key notified, and the timer kept only if the buffer has
\* filled again.
ObserveDebounceTimer ==
    /\ alive
    /\ timer
    /\ LET reaped == {<<buffer[k], k>> : k \in ReapedByFlush}
           values == [d \in Dbs |-> [k \in Keys |->
                         IF <<d, k>> \in reaped THEN None ELSE db[d][k]]]
       IN /\ db' = values
          /\ expired' = expired \ reaped
          /\ view' = NotifyImmediate(buffer, values)
    /\ buffer' = [k \in Keys |->
                     IF k \in ReapedByFlush /\ debounce /\ observingClients # 0
                     THEN buffer[k] ELSE None]
    /\ timer' = (\E k \in Keys : buffer'[k] # None)
    /\ UNCHANGED <<clientVars, indexVars, debounce, alive>>

-----------------------------------------------------------------------------
\* Connections

\* processCommand refuses everything but OBSERVE, UNOBSERVE, PING, QUIT and
\* RESET on an observing RESP2 connection.
MayRun(c) ==
    /\ alive
    /\ c \in connected
    /\ ~(observing[c] /\ resp[c] = 2)

Connect(c) ==
    /\ alive
    /\ c \notin connected
    /\ connected' = connected \cup {c}
    /\ clientDb' = [clientDb EXCEPT ![c] = 0]
    /\ resp' = [resp EXCEPT ![c] = 2]
    /\ UNCHANGED <<keyspaceVars, indexVars, notifyVars, debounce, alive>>

Select(c, d) ==
    /\ MayRun(c)
    /\ clientDb' = [clientDb EXCEPT ![c] = d]
    /\ UNCHANGED <<connected, resp, keyspaceVars, indexVars, notifyVars, debounce, alive>>

Hello(c, version) ==
    /\ MayRun(c)
    /\ resp' = [resp EXCEPT ![c] = version]
    /\ UNCHANGED <<connected, clientDb, keyspaceVars, indexVars, notifyVars, debounce, alive>>

\* clearClientConnectionState leaves the observe state alone.
Reset(c) ==
    /\ alive
    /\ c \in connected
    /\ clientDb' = [clientDb EXCEPT ![c] = 0]
    /\ resp' = [resp EXCEPT ![c] = 2]
    /\ UNCHANGED <<connected, keyspaceVars, indexVars, notifyVars, debounce, alive>>

-----------------------------------------------------------------------------
\* Subscribing

\* Mutant: the client is counted at every subscription.
SubscribeCountsAlways(c, q) ==
    LET f == Fingerprint[q] IN
    IF f \in clientFps[c]
    THEN UNCHANGED indexVars
    ELSE /\ clientFps' = [clientFps EXCEPT ![c] = @ \cup {f}]
         /\ clientsOf' = [clientsOf EXCEPT ![f][c] = @ + 1]
         /\ info' = [info EXCEPT ![f] = q]
         /\ keyFps' = [keyFps EXCEPT ![KeyOf(q)][f] = IF info[f] = None THEN @ + 1 ELSE @]
         /\ observing' = [observing EXCEPT ![c] = TRUE]
         /\ observingClients' = observingClients + 1

\* observeSubscribeFingerprint; the caller marks the client afterwards.
ObserveSubscribeFingerprint(c, q) ==
    LET f == Fingerprint[q] IN
    IF f \in clientFps[c]
    THEN UNCHANGED indexVars
    ELSE /\ clientFps' = [clientFps EXCEPT ![c] = @ \cup {f}]
         /\ clientsOf' = [clientsOf EXCEPT ![f][c] = @ + 1]
         /\ IF info[f] = None
            THEN /\ info' = [info EXCEPT ![f] = q]
                 /\ keyFps' = [keyFps EXCEPT ![KeyOf(q)][f] = @ + 1]
            ELSE UNCHANGED <<info, keyFps>>
         /\ observing' = [observing EXCEPT ![c] = TRUE]
         /\ observingClients' =
                IF observing[c] THEN observingClients ELSE observingClients + 1

\* OBSERVE q: subscribe, then run the command for the initial result.  Its
\* lookup may find the key expired; the client does not count as observing
\* until the command is done.
Observe(c, q) ==
    LET d == clientDb[c]
        k == KeyOf(q)
    IN
    /\ alive
    /\ c \in connected
    /\ ObserveSubscribeFingerprint(c, q)
    /\ IF <<d, k>> \in expired
       THEN /\ db' = [db EXCEPT ![d][k] = None]
            /\ expired' = expired \ {<<d, k>>}
            /\ IF observingClients # 0 /\ debounce
               THEN DebounceKeyChange(k, d)
               ELSE UNCHANGED <<buffer, timer>>
       ELSE UNCHANGED <<keyspaceVars, buffer, timer>>
    /\ view' = [view EXCEPT ![c][Fingerprint[q]] = Result(q, LiveValue(d, k))]
    /\ UNCHANGED <<clientVars, debounce, alive>>

-----------------------------------------------------------------------------
\* Unsubscribing

\* clientsOf[f] after listSearchKey and listDelNode of c.
ListWithout(f, c) ==
    [clientsOf[f] EXCEPT ![c] = IF @ > 0 THEN @ - 1 ELSE 0]

\* observeUnsubscribeFingerprint for each fingerprint of fs the client is
\* subscribed to: fingerprints share no entry, so the order is immaterial.
ObserveUnsubscribe(c, fs) ==
    LET mine == fs \cap clientFps[c]
        lists == [f \in Fingerprints |->
                     IF f \in mine /\ info[f] # None THEN ListWithout(f, c) ELSE clientsOf[f]]
        freed == {f \in mine : info[f] # None /\ \A o \in Clients : lists[f][o] = 0}
    IN
    /\ clientFps' = [clientFps EXCEPT ![c] = @ \ mine]
    /\ clientsOf' = lists
    /\ info' = [f \in Fingerprints |-> IF f \in freed THEN None ELSE info[f]]
    /\ keyFps' = [k \in Keys |-> [f \in Fingerprints |->
                     IF f \in freed /\ k = KeyOf(info[f]) /\ keyFps[k][f] > 0
                     THEN keyFps[k][f] - 1 ELSE keyFps[k][f]]]
    /\ view' = [view EXCEPT ![c] = [f \in Fingerprints |->
                                       IF f \in mine THEN None ELSE view[c][f]]]

\* Mutant: the counter is decremented without looking at the flag.
UnmarkUnconditionally(c) ==
    /\ observing' = [observing EXCEPT ![c] = FALSE]
    /\ observingClients' = observingClients - 1

UnmarkClientAsObserving(c) ==
    /\ observing' = [observing EXCEPT ![c] = FALSE]
    /\ observingClients' =
           IF observing[c] THEN observingClients - 1 ELSE observingClients

\* The loop of unobserveCommand looks every argument up in
\* c->observe_fingerprints, which is NULL once the last one is gone.
DereferencesNull(c, args) ==
    /\ clientFps[c] # {}
    /\ clientFps[c] \subseteq {args[i] : i \in 1 .. Len(args) - 1}

Unobserve(c, args) ==
    /\ alive
    /\ c \in connected
    /\ clientFps[c] # {}
    /\ ~DereferencesNull(c, args)
    /\ ObserveUnsubscribe(c, {args[i] : i \in 1 .. Len(args)})
    /\ IF clientFps'[c] = {}
       THEN UnmarkClientAsObserving(c)
       ELSE UNCHANGED <<observing, observingClients>>
    /\ UNCHANGED <<keyspaceVars, clientVars, buffer, timer, debounce, alive>>

UnobserveCrash(c, args) ==
    /\ alive
    /\ c \in connected
    /\ DereferencesNull(c, args)
    /\ alive' = FALSE
    /\ UNCHANGED <<keyspaceVars, clientVars, indexVars, notifyVars, debounce>>

\* Mutant: the client's dict is released and the fingerprints' lists are not.
FreeClientKeepsLists(c) ==
    /\ alive
    /\ c \in connected
    /\ connected' = connected \ {c}
    /\ clientFps' = [clientFps EXCEPT ![c] = {}]
    /\ view' = [view EXCEPT ![c] = [f \in Fingerprints |-> None]]
    /\ UnmarkClientAsObserving(c)
    /\ UNCHANGED <<keyspaceVars, clientDb, resp, info, clientsOf, keyFps, buffer, timer,
                   debounce, alive>>

\* freeClient: every fingerprint is unsubscribed, then the flag cleared.
FreeClient(c) ==
    /\ alive
    /\ c \in connected
    /\ connected' = connected \ {c}
    /\ ObserveUnsubscribe(c, clientFps[c])
    /\ UnmarkClientAsObserving(c)
    /\ UNCHANGED <<keyspaceVars, clientDb, resp, buffer, timer, debounce, alive>>

-----------------------------------------------------------------------------
\* The keyspace

Write(c, k, v) ==
    /\ MayRun(c)
    /\ SetKey(clientDb[c], k, v)
    /\ UNCHANGED <<clientVars, indexVars, debounce, alive>>

Del(c, k) ==
    /\ MayRun(c)
    /\ db[clientDb[c]][k] # None
    /\ SetKey(clientDb[c], k, None)
    /\ UNCHANGED <<clientVars, indexVars, debounce, alive>>

\* The TTL of a key passes; nothing notices yet.
KeyExpires(d, k) ==
    /\ alive
    /\ db[d][k] # None
    /\ <<d, k>> \notin expired
    /\ expired' = expired \cup {<<d, k>>}
    /\ UNCHANGED <<db, clientVars, indexVars, notifyVars, debounce, alive>>

\* A command or the expire cycle meets the key.
Access(d, k) ==
    /\ alive
    /\ <<d, k>> \in expired
    /\ ExpireIfNeeded(d, k)
    /\ UNCHANGED <<clientVars, indexVars, debounce, alive>>

\* FLUSHDB: signalFlushedDb does not tell the observers.
FlushDb(c) ==
    LET d == clientDb[c] IN
    /\ MayRun(c)
    /\ db' = [db EXCEPT ![d] = [k \in Keys |-> None]]
    /\ expired' = {e \in expired : e[1] # d}
    /\ UNCHANGED <<clientVars, indexVars, notifyVars, debounce, alive>>

Swapped(d1, d2, d) == IF d = d1 THEN d2 ELSE IF d = d2 THEN d1 ELSE d

\* SWAPDB: nor does dbSwapDatabases.
SwapDb(c, d1, d2) ==
    /\ MayRun(c)
    /\ d1 # d2
    /\ db' = [d \in Dbs |-> db[Swapped(d1, d2, d)]]
    /\ expired' = {<<Swapped(d1, d2, e[1]), e[2]>> : e \in expired}
    /\ UNCHANGED <<clientVars, indexVars, notifyVars, debounce, alive>>

\* Mutant: setting the period cancels the pending timer.
ConfigSetCancelsTimer(c) ==
    /\ MayRun(c)
    /\ debounce' = ~debounce
    /\ timer' = FALSE
    /\ UNCHANGED <<keyspaceVars, clientVars, indexVars, buffer, view, alive>>

\* CONFIG SET observe-debounce-period-ms
ConfigSet(c) ==
    /\ MayRun(c)
    /\ debounce' = ~debounce
    /\ UNCHANGED <<keyspaceVars, clientVars, indexVars, notifyVars, alive>>

-----------------------------------------------------------------------------
ClientStep(c) ==
    \/ Connect(c) \/ Reset(c) \/ FreeClient(c) \/ FlushDb(c) \/ ConfigSet(c)
    \/ \E d \in Dbs : Select(c, d)
    \/ \E version \in {2, 3} : Hello(c, version)
    \/ \E q \in Queries : Observe(c, q)
    \/ \E args \in UnobserveArgs : Unobserve(c, args) \/ UnobserveCrash(c, args)
    \/ \E k \in Keys, v \in Values : Write(c, k, v)
    \/ \E k \in Keys : Del(c, k)
    \/ \E d1, d2 \in Dbs : SwapDb(c, d1, d2)

Next ==
    \/ \E c \in Clients : ClientStep(c)
    \/ \E d \in Dbs, k \in Keys : KeyExpires(d, k) \/ Access(d, k)
    \/ ObserveDebounceTimer

\* The event loop runs every due time event.
Spec == Init /\ [][Next]_vars /\ WF_vars(ObserveDebounceTimer)

-----------------------------------------------------------------------------
\* Properties

Results == [query : Queries, value : Values \cup {None}]

\* Every variable has its type.
TypeOK ==
    /\ db \in [Dbs -> [Keys -> Values \cup {None}]]
    /\ expired \subseteq Dbs \X Keys
    /\ debounce \in BOOLEAN
    /\ connected \subseteq Clients
    /\ clientDb \in [Clients -> Dbs]
    /\ resp \in [Clients -> {2, 3}]
    /\ clientFps \in [Clients -> SUBSET Fingerprints]
    /\ info \in [Fingerprints -> Queries \cup {None}]
    /\ clientsOf \in [Fingerprints -> [Clients -> Nat]]
    /\ keyFps \in [Keys -> [Fingerprints -> Nat]]
    /\ observing \in [Clients -> BOOLEAN]
    /\ observingClients \in Nat
    /\ buffer \in [Keys -> Dbs \cup {None}]
    /\ timer \in BOOLEAN
    /\ view \in [Clients -> [Fingerprints -> Results \cup {None}]]
    /\ alive \in BOOLEAN

\* The three copies of the subscriptions agree: a client is in a
\* fingerprint's list exactly once if it holds the fingerprint and never
\* otherwise, so that no list keeps a pointer to a freed client
\* (freeClient); a fingerprint's info exists exactly while someone is
\* subscribed, and it is indexed once, under its own key.
IndexConsistent ==
    /\ \A c \in Clients, f \in Fingerprints :
           clientsOf[f][c] = IF f \in clientFps[c] THEN 1 ELSE 0
    /\ \A c \in Clients : clientFps[c] # {} => c \in connected
    /\ \A f \in Fingerprints :
           info[f] # None <=> \E c \in Clients : f \in clientFps[c]
    /\ \A k \in Keys, f \in Fingerprints :
           keyFps[k][f] = IF info[f] # None /\ KeyOf(info[f]) = k THEN 1 ELSE 0

\* The flag tells exactly which clients hold subscriptions, and
\* server.observing_clients, which decides whether changes are looked at at
\* all (observeNotifyKeyChange), counts exactly the flagged clients.
ObservingCountExact ==
    /\ \A c \in Clients : observing[c] <=> clientFps[c] # {}
    /\ observingClients = Cardinality({c \in Clients : observing[c]})

\* A buffered change always has a timer that will flush it, although the
\* timer is only started for a key that is new to the buffer
\* (observeDebounceKeyChange, observeDebounceTimerHandler).
BufferedChangeHasTimer ==
    (\E k \in Keys : buffer[k] # None) => timer

\* What a client receives under a fingerprint is the result of the command it
\* subscribed with: its last result is one of the command that the server
\* executes again for it ("Clients use it to match notifications to
\* subscriptions").
ResultsMatchCommand ==
    \A c \in Clients, f \in Fingerprints :
        f \in clientFps[c] => view[c][f] # None /\ view[c][f].query = info[f]

\* Client c, in database d, needs to be told nothing about its fingerprint f:
\* it has left, the key does not exist or it has the key's value.
UpToDate(c, f, d) ==
    \/ ~alive \/ clientDb[c] # d \/ f \notin clientFps[c]
    \/ LiveValue(d, KeyOf(info[f])) = None
    \/ view[c][f] # None /\ view[c][f].value = LiveValue(d, KeyOf(info[f]))

\* Subscribers catch up with every change of an existing key ("Re-evaluates
\* and pushes results whenever the observed key changes"): unless it selects
\* another database or databases are swapped, a client falls behind only by a
\* change that is buffered for it, and no change is lost between the buffer,
\* the timer, a period change by CONFIG SET and the coming and going of other
\* subscribers.
SubscribersCatchUp ==
    /\ [][\A c \in Clients, f \in Fingerprints, d \in Dbs :
              (UpToDate(c, f, d) /\ ~UpToDate(c, f, d)')
                  => \/ buffer'[KeyOf(info[f])] = d
                     \/ clientDb[c] # d \/ \E b \in Clients, d2 \in Dbs : SwapDb(b, d, d2)]_vars
    /\ \A c \in Clients, f \in Fingerprints, d \in Dbs :
           (~UpToDate(c, f, d) /\ buffer[KeyOf(info[f])] = d) ~> UpToDate(c, f, d)

\* Whatever a client is sent is the value its own database holds at that
\* moment, not the one buffered or another database's ("Database switch
\* isolation"; executeObserveCommand).
DeliveredResultIsCurrent ==
    [][\A c \in Clients, f \in Fingerprints :
           (view'[c][f] # view[c][f] /\ view'[c][f] # None) =>
               \E k \in Keys : /\ k = KeyOf(view'[c][f].query)
                               /\ view'[c][f].value = LiveValue(clientDb[c], k)']_vars
=============================================================================
