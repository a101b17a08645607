--------------------------- MODULE ObserveProofs ---------------------------
(***************************************************************************)
(* Proofs about Observe for any clients, commands, databases and values.   *)
(***************************************************************************)
EXTENDS Observe, FiniteSetTheorems, TLAPS

\* A command's fingerprint and key belong to the index sets.
LEMMA QueryIndices ==
    ASSUME NEW q \in Queries
    PROVE  Fingerprint[q] \in Fingerprints /\ KeyOf(q) \in Keys
BY DEF Fingerprints, Keys

\* Pushing results to subscribers keeps every view well formed.
LEMMA NotifyImmediateType ==
    ASSUME TypeOK,
           NEW batch \in [Keys -> Dbs \cup {None}],
           NEW values \in [Dbs -> [Keys -> Values \cup {None}]]
    PROVE  NotifyImmediate(batch, values)
               \in [Clients -> [Fingerprints -> Results \cup {None}]]
<1>1. ASSUME NEW f \in Fingerprints, info[f] # None
      PROVE  info[f] \in Queries /\ KeyOf(info[f]) \in Keys
  BY <1>1, QueryIndices DEF TypeOK
<1>2. ASSUME NEW c \in Clients, NEW f \in Fingerprints, info[f] # None
      PROVE  Result(info[f], values[clientDb[c]][KeyOf(info[f])]) \in Results
  BY <1>1, <1>2 DEF TypeOK, Result, Results
<1>3. QED
  BY <1>2 DEF TypeOK, NotifyImmediate

\* Buffering a change keeps the types, and a buffered change has its timer.
LEMMA DebounceStep ==
    ASSUME TypeOK, BufferedChangeHasTimer,
           NEW k \in Keys, NEW d \in Dbs, DebounceKeyChange(k, d)
    PROVE  /\ buffer' \in [Keys -> Dbs \cup {None}]
           /\ timer' \in BOOLEAN
           /\ BufferedChangeHasTimer'
BY Zenon DEF TypeOK, DebounceKeyChange, BufferedChangeHasTimer

\* The same for a whole signalModifiedKey.
LEMMA SetKeyStep ==
    ASSUME TypeOK, BufferedChangeHasTimer,
           NEW k \in Keys, NEW d \in Dbs, NEW v \in Values \cup {None}, SetKey(d, k, v)
    PROVE  /\ db' \in [Dbs -> [Keys -> Values \cup {None}]]
           /\ expired' \subseteq Dbs \X Keys
           /\ buffer' \in [Keys -> Dbs \cup {None}]
           /\ timer' \in BOOLEAN
           /\ view' \in [Clients -> [Fingerprints -> Results \cup {None}]]
           /\ BufferedChangeHasTimer'
<1>1. db' \in [Dbs -> [Keys -> Values \cup {None}]] /\ expired' \subseteq Dbs \X Keys
  BY DEF TypeOK, SetKey
<1>2. CASE UNCHANGED notifyVars
  BY <1>1, <1>2 DEF TypeOK, notifyVars, BufferedChangeHasTimer
<1>3. CASE view' = NotifyImmediate(Only(k, d), db') /\ UNCHANGED <<buffer, timer>>
  <2>1. Only(k, d) \in [Keys -> Dbs \cup {None}]
    BY DEF Only
  <2>2. QED
    BY <1>1, <1>3, <2>1, NotifyImmediateType, Zenon DEF TypeOK, BufferedChangeHasTimer
<1>4. CASE DebounceKeyChange(k, d) /\ UNCHANGED view
  BY <1>1, <1>4, DebounceStep DEF TypeOK
<1>5. QED
  BY <1>2, <1>3, <1>4 DEF SetKey, ObserveNotifyKeyChange

-----------------------------------------------------------------------------
\* Steps that leave the subscriptions and connections alone.
IndexUnchanged == UNCHANGED <<indexVars, connected>>

\* Such steps keep the index and the count.
LEMMA IndexUnchangedStep ==
    ASSUME IndexConsistent, ObservingCountExact, IndexUnchanged
    PROVE  IndexConsistent' /\ ObservingCountExact'
BY DEF IndexUnchanged, indexVars, IndexConsistent, ObservingCountExact

\* Adding a client to the flagged set, or taking it away, moves the exact
\* count by one.
LEMMA CountStep ==
    ASSUME TypeOK, ObservingCountExact, NEW c \in Clients
    PROVE  /\ {o \in Clients : [observing EXCEPT ![c] = TRUE][o]}
                  = {o \in Clients : observing[o]} \cup {c}
           /\ {o \in Clients : [observing EXCEPT ![c] = FALSE][o]}
                  = {o \in Clients : observing[o]} \ {c}
           /\ Cardinality({o \in Clients : observing[o]} \cup {c})
                  = IF observing[c] THEN observingClients ELSE observingClients + 1
           /\ Cardinality({o \in Clients : observing[o]} \ {c})
                  = IF observing[c] THEN observingClients - 1 ELSE observingClients
           /\ observing[c] => observingClients > 0
<1> DEFINE S == {o \in Clients : observing[o]}
<1>1. IsFiniteSet(S)
  BY ConstantsAssumption, FS_Subset
<1>2. c \in S <=> observing[c]
  OBVIOUS
<1>3. Cardinality(S) = observingClients /\ observingClients \in Nat
  BY DEF ObservingCountExact, TypeOK
<1>4. Cardinality(S \cup {c}) = IF c \in S THEN Cardinality(S) ELSE Cardinality(S) + 1
  BY <1>1, FS_AddElement
<1>5. Cardinality(S \ {c}) = IF c \in S THEN Cardinality(S) - 1 ELSE Cardinality(S)
  BY <1>1, FS_RemoveElement
<1>6. c \in S => Cardinality(S) # 0
  BY <1>1, FS_EmptySet
<1>7. /\ {o \in Clients : [observing EXCEPT ![c] = TRUE][o]} = S \cup {c}
      /\ {o \in Clients : [observing EXCEPT ![c] = FALSE][o]} = S \ {c}
  BY DEF TypeOK
<1>8. QED
  BY <1>2, <1>3, <1>4, <1>5, <1>6, <1>7

\* Subscribing keeps the three copies and the count in step.
LEMMA SubscribeStep ==
    ASSUME TypeOK, IndexConsistent, ObservingCountExact,
           NEW c \in connected, NEW q \in Queries,
           ObserveSubscribeFingerprint(c, q), connected' = connected
    PROVE  /\ clientFps' \in [Clients -> SUBSET Fingerprints]
           /\ info' \in [Fingerprints -> Queries \cup {None}]
           /\ clientsOf' \in [Fingerprints -> [Clients -> Nat]]
           /\ keyFps' \in [Keys -> [Fingerprints -> Nat]]
           /\ observing' \in [Clients -> BOOLEAN]
           /\ observingClients' \in Nat
           /\ IndexConsistent'
           /\ ObservingCountExact'
<1> DEFINE f == Fingerprint[q]
<1> c \in Clients
  BY DEF TypeOK
<1>0. f \in Fingerprints /\ KeyOf(q) \in Keys
  BY QueryIndices
<1> HIDE DEF f
<1>1. CASE f \in clientFps[c]
  <2>1. UNCHANGED indexVars
    BY <1>1 DEF ObserveSubscribeFingerprint, f
  <2>2. QED
    BY <2>1, IndexUnchangedStep DEF TypeOK, IndexUnchanged, indexVars
<1>2. CASE f \notin clientFps[c]
  <2>1. /\ clientFps' = [clientFps EXCEPT ![c] = @ \cup {f}]
        /\ clientsOf' = [clientsOf EXCEPT ![f][c] = @ + 1]
        /\ observing' = [observing EXCEPT ![c] = TRUE]
        /\ observingClients' = IF observing[c] THEN observingClients ELSE observingClients + 1
        /\ info' = IF info[f] = None THEN [info EXCEPT ![f] = q] ELSE info
        /\ keyFps' = IF info[f] = None THEN [keyFps EXCEPT ![KeyOf(q)][f] = @ + 1] ELSE keyFps
    BY <1>2 DEF ObserveSubscribeFingerprint, f
  <2>2. /\ clientFps' \in [Clients -> SUBSET Fingerprints]
        /\ info' \in [Fingerprints -> Queries \cup {None}]
        /\ clientsOf' \in [Fingerprints -> [Clients -> Nat]]
        /\ keyFps' \in [Keys -> [Fingerprints -> Nat]]
        /\ observing' \in [Clients -> BOOLEAN]
        /\ observingClients' \in Nat
    BY <1>0, <2>1 DEF TypeOK
  <2>3. ASSUME NEW o \in Clients, NEW g \in Fingerprints
        PROVE  clientsOf'[g][o] = IF g \in clientFps'[o] THEN 1 ELSE 0
    BY <1>0, <1>2, <2>1 DEF TypeOK, IndexConsistent
  <2>4. ASSUME NEW o \in Clients, clientFps'[o] # {}
        PROVE  o \in connected'
    BY <2>1, <2>4 DEF TypeOK, IndexConsistent
  <2>5. ASSUME NEW g \in Fingerprints
        PROVE  info'[g] # None <=> \E o \in Clients : g \in clientFps'[o]
    <3>1. CASE g = f
      BY <1>0, <2>1, <3>1, ConstantsAssumption DEF TypeOK
    <3>2. CASE g # f
      BY <1>0, <2>1, <3>2 DEF TypeOK, IndexConsistent
    <3>3. QED
      BY <3>1, <3>2
  <2>6. ASSUME NEW k \in Keys, NEW g \in Fingerprints
        PROVE  keyFps'[k][g] = IF info'[g] # None /\ KeyOf(info'[g]) = k THEN 1 ELSE 0
    <3>0. keyFps[k][g] = IF info[g] # None /\ KeyOf(info[g]) = k THEN 1 ELSE 0
      BY DEF IndexConsistent
    <3>1. CASE info[f] = None /\ g = f
      BY <1>0, <2>1, <3>0, <3>1, ConstantsAssumption DEF TypeOK
    <3>2. CASE ~(info[f] = None /\ g = f)
      BY <1>0, <2>1, <3>0, <3>2 DEF TypeOK
    <3>3. QED
      BY <3>1, <3>2
  <2>7. IndexConsistent'
    BY <2>3, <2>4, <2>5, <2>6 DEF IndexConsistent
  <2>8. ObservingCountExact'
    <3>1. observingClients' = Cardinality({o \in Clients : observing'[o]})
      BY <2>1, CountStep, ZenonT(40)
    <3>2. \A o \in Clients : observing'[o] <=> clientFps'[o] # {}
      BY <1>0, <2>1 DEF TypeOK, ObservingCountExact
    <3>3. QED
      BY <3>1, <3>2 DEF ObservingCountExact
  <2>9. QED
    BY <2>2, <2>7, <2>8
<1>3. QED
  BY <1>1, <1>2

\* The part of IndexConsistent that does not mention connections.
ListsAgree ==
    /\ \A c \in Clients, f \in Fingerprints :
           clientsOf[f][c] = IF f \in clientFps[c] THEN 1 ELSE 0
    /\ \A f \in Fingerprints :
           info[f] # None <=> \E c \in Clients : f \in clientFps[c]
    /\ \A k \in Keys, f \in Fingerprints :
           keyFps[k][f] = IF info[f] # None /\ KeyOf(info[f]) = k THEN 1 ELSE 0

\* Unsubscribing a client from any set of fingerprints keeps the three copies
\* in step.
LEMMA UnsubscribeStep ==
    ASSUME TypeOK, IndexConsistent,
           NEW c \in Clients, NEW fs, ObserveUnsubscribe(c, fs)
    PROVE  /\ clientFps' = [clientFps EXCEPT ![c] = @ \ fs]
           /\ clientFps' \in [Clients -> SUBSET Fingerprints]
           /\ info' \in [Fingerprints -> Queries \cup {None}]
           /\ clientsOf' \in [Fingerprints -> [Clients -> Nat]]
           /\ keyFps' \in [Keys -> [Fingerprints -> Nat]]
           /\ view' \in [Clients -> [Fingerprints -> Results \cup {None}]]
           /\ ListsAgree'
<1> DEFINE mine == fs \cap clientFps[c]
           lists == [f \in Fingerprints |->
                        IF f \in mine /\ info[f] # None THEN ListWithout(f, c) ELSE clientsOf[f]]
           freed == {f \in mine : info[f] # None /\ \A o \in Clients : lists[f][o] = 0}
<1>1. /\ clientFps' = [clientFps EXCEPT ![c] = @ \ mine]
      /\ clientsOf' = lists
      /\ info' = [f \in Fingerprints |-> IF f \in freed THEN None ELSE info[f]]
      /\ keyFps' = [k \in Keys |-> [f \in Fingerprints |->
                       IF f \in freed /\ k = KeyOf(info[f]) /\ keyFps[k][f] > 0
                       THEN keyFps[k][f] - 1 ELSE keyFps[k][f]]]
      /\ view' = [view EXCEPT ![c] = [f \in Fingerprints |->
                                         IF f \in mine THEN None ELSE view[c][f]]]
  BY DEF ObserveUnsubscribe
<1>2. mine \subseteq Fingerprints /\ \A f \in mine : info[f] # None
  BY DEF TypeOK, IndexConsistent
<1>3. ASSUME NEW f \in Fingerprints, NEW o \in Clients
      PROVE  /\ lists[f][o] \in Nat
             /\ lists[f][o] = IF f \in clientFps[o] /\ ~(o = c /\ f \in mine) THEN 1 ELSE 0
  <2>1. clientsOf[f][o] = IF f \in clientFps[o] THEN 1 ELSE 0
    BY DEF IndexConsistent
  <2>2. clientsOf[f] \in [Clients -> Nat]
    BY DEF TypeOK
  <2>3. QED
    BY <1>2, <2>1, <2>2 DEF ListWithout
<1>4. ASSUME NEW f \in Fingerprints
      PROVE  lists[f] \in [Clients -> Nat]
  <2>1. clientsOf[f] \in [Clients -> Nat]
    BY DEF TypeOK
  <2>2. ListWithout(f, c) \in [Clients -> Nat]
    BY <2>1 DEF ListWithout
  <2>3. QED
    BY <2>1, <2>2
<1>5. ASSUME NEW o \in Clients
      PROVE  clientFps'[o] = IF o = c THEN clientFps[o] \ mine ELSE clientFps[o]
  BY <1>1, ZenonT(40) DEF TypeOK
<1> HIDE DEF lists
<1>6. ASSUME NEW f \in Fingerprints
      PROVE  f \in freed <=> f \in mine /\ \A o \in Clients : f \notin clientFps'[o]
  <2>1. \A o \in Clients : lists[f][o] = 0 <=> f \notin clientFps'[o]
    <3> SUFFICES ASSUME NEW o \in Clients PROVE lists[f][o] = 0 <=> f \notin clientFps'[o]
      OBVIOUS
    <3>1. lists[f][o] = IF f \in clientFps[o] /\ ~(o = c /\ f \in mine) THEN 1 ELSE 0
      BY <1>3
    <3>2. f \in clientFps'[o] <=> f \in clientFps[o] /\ ~(o = c /\ f \in mine)
      BY <1>5, Zenon
    <3>3. QED
      BY <3>1, <3>2
  <2>2. f \in freed <=> f \in mine /\ info[f] # None /\ \A o \in Clients : lists[f][o] = 0
    OBVIOUS
  <2>3. QED
    BY <1>2, <2>1, <2>2
<1> HIDE DEF freed
<1>7. ASSUME NEW o \in Clients, NEW f \in Fingerprints
      PROVE  clientsOf'[f][o] = IF f \in clientFps'[o] THEN 1 ELSE 0
  <2>1. lists[f][o] = IF f \in clientFps[o] /\ ~(o = c /\ f \in mine) THEN 1 ELSE 0
    BY <1>3
  <2>2. f \in clientFps'[o] <=> f \in clientFps[o] /\ ~(o = c /\ f \in mine)
    BY <1>5, Zenon
  <2>3. clientsOf'[f][o] = lists[f][o]
    BY <1>1
  <2>4. QED
    BY <2>1, <2>2, <2>3
<1>8. ASSUME NEW f \in Fingerprints
      PROVE  info'[f] # None <=> \E o \in Clients : f \in clientFps'[o]
  <2>1. info[f] # None <=> \E o \in Clients : f \in clientFps[o]
    BY DEF IndexConsistent
  <2>2. info'[f] = IF f \in freed THEN None ELSE info[f]
    BY <1>1
  <2>3. CASE f \in mine
    BY <1>2, <1>6, <2>2, <2>3
  <2>4. CASE f \notin mine
    BY <1>5, <1>6, <2>1, <2>2, <2>4, ZenonT(40)
  <2>5. QED
    BY <2>3, <2>4
<1>9. ASSUME NEW k \in Keys, NEW f \in Fingerprints
      PROVE  /\ keyFps'[k][f] \in Nat
             /\ keyFps'[k][f] = IF info'[f] # None /\ KeyOf(info'[f]) = k THEN 1 ELSE 0
  <2>1. keyFps[k][f] = IF info[f] # None /\ KeyOf(info[f]) = k THEN 1 ELSE 0
    BY DEF IndexConsistent
  <2>2. info'[f] = IF f \in freed THEN None ELSE info[f]
    BY <1>1
  <2>3. f \in freed => info[f] # None
    BY <1>2, <1>6
  <2>4. keyFps'[k][f] = IF f \in freed /\ k = KeyOf(info[f]) /\ keyFps[k][f] > 0
                        THEN keyFps[k][f] - 1 ELSE keyFps[k][f]
    BY <1>1
  <2>5. QED
    BY <2>1, <2>2, <2>3, <2>4
<1>10. ListsAgree'
  BY <1>7, <1>8, <1>9 DEF ListsAgree
<1>11. /\ clientFps' = [clientFps EXCEPT ![c] = @ \ fs]
       /\ clientFps' \in [Clients -> SUBSET Fingerprints]
  BY <1>1, Zenon DEF TypeOK
<1>12. info' \in [Fingerprints -> Queries \cup {None}]
  BY <1>1 DEF TypeOK
<1>13. clientsOf' \in [Fingerprints -> [Clients -> Nat]]
  <2>1. clientsOf' = [f \in Fingerprints |-> lists[f]]
    BY <1>1 DEF lists
  <2>2. QED
    BY <1>4, <2>1
<1>14. keyFps' \in [Keys -> [Fingerprints -> Nat]]
  BY <1>1, <1>9
<1>15. view' \in [Clients -> [Fingerprints -> Results \cup {None}]]
  BY <1>1 DEF TypeOK
<1>16. QED
  BY <1>10, <1>11, <1>12, <1>13, <1>14, <1>15, Zenon

-----------------------------------------------------------------------------
\* The inductive invariant.  The index and the count are not inductive on
\* their own: unsubscribing frees a fingerprint by looking at its list, and
\* the list's counts mean something only together with the clients' sets.
IInv ==
    /\ TypeOK
    /\ IndexConsistent
    /\ ObservingCountExact
    /\ BufferedChangeHasTimer

\* The invariant holds of an empty server.
LEMMA InitIInv == Init => IInv
<1> SUFFICES ASSUME Init PROVE IInv
  OBVIOUS
<1>1. TypeOK
  BY ConstantsAssumption, Zenon DEF Init, TypeOK
<1>2. IndexConsistent
  BY DEF Init, IndexConsistent
<1>3. ObservingCountExact
  <2>1. {c \in Clients : observing[c]} = {}
    BY DEF Init
  <2>2. QED
    BY <2>1, FS_EmptySet, ZenonT(40) DEF Init, ObservingCountExact
<1>4. BufferedChangeHasTimer
  BY DEF Init, BufferedChangeHasTimer
<1>5. QED
  BY <1>1, <1>2, <1>3, <1>4 DEF IInv

\* Every step of the server preserves it.
LEMMA NextIInv == IInv /\ [Next]_vars => IInv'
<1> SUFFICES ASSUME IInv, [Next]_vars PROVE IInv'
  OBVIOUS
<1> USE DEF IInv
<1>1. ASSUME NEW c \in Clients, Connect(c) PROVE IInv'
  <2>1. TypeOK' /\ BufferedChangeHasTimer' /\ ObservingCountExact'
    BY <1>1, ConstantsAssumption
    DEF Connect, keyspaceVars, indexVars, notifyVars, TypeOK, BufferedChangeHasTimer,
        ObservingCountExact
  <2>2. IndexConsistent'
    BY <1>1 DEF Connect, indexVars, IndexConsistent
  <2>3. QED
    BY <2>1, <2>2
<1>2. ASSUME NEW c \in Clients,
             \/ Reset(c)
             \/ \E d \in Dbs : Select(c, d)
             \/ \E version \in {2, 3} : Hello(c, version)
             \/ ConfigSet(c)
             \/ \E args \in UnobserveArgs : UnobserveCrash(c, args)
      PROVE  IInv'
  <2>1. IndexUnchanged /\ UNCHANGED notifyVars /\ UNCHANGED keyspaceVars
    BY <1>2 DEF Reset, Select, Hello, ConfigSet, UnobserveCrash, IndexUnchanged, clientVars
  <2> DEFINE Typed == /\ clientDb' \in [Clients -> Dbs]
                      /\ resp' \in [Clients -> {2, 3}]
                      /\ debounce' \in BOOLEAN
                      /\ alive' \in BOOLEAN
  <2>2. Typed
    <3>1. CASE Reset(c)
      BY <3>1, ConstantsAssumption DEF Reset, TypeOK
    <3>2. ASSUME NEW d \in Dbs, Select(c, d) PROVE Typed
      BY <3>2 DEF Select, TypeOK
    <3>3. ASSUME NEW version \in {2, 3}, Hello(c, version) PROVE Typed
      BY <3>3 DEF Hello, TypeOK
    <3>4. CASE ConfigSet(c)
      BY <3>4 DEF ConfigSet, TypeOK, clientVars
    <3>5. ASSUME NEW args \in UnobserveArgs, UnobserveCrash(c, args) PROVE Typed
      BY <3>5, ZenonT(40) DEF UnobserveCrash, TypeOK, clientVars
    <3>6. QED
      BY <1>2, <3>1, <3>2, <3>3, <3>4, <3>5
  <2>3. TypeOK'
    BY <2>1, <2>2 DEF TypeOK, IndexUnchanged, indexVars, notifyVars, keyspaceVars
  <2>4. QED
    BY <2>1, <2>3, IndexUnchangedStep DEF notifyVars, BufferedChangeHasTimer
<1>3. ASSUME NEW c \in Clients, FreeClient(c) PROVE IInv'
  <2>1. /\ ObserveUnsubscribe(c, clientFps[c])
        /\ UnmarkClientAsObserving(c)
        /\ connected' = connected \ {c}
        /\ UNCHANGED <<keyspaceVars, clientDb, resp, buffer, timer, debounce, alive>>
    BY <1>3 DEF FreeClient
  <2>2. observing' \in [Clients -> BOOLEAN] /\ observingClients' \in Nat
    <3>1. observing[c] => observingClients > 0
      BY CountStep, Zenon
    <3>2. observing \in [Clients -> BOOLEAN] /\ observingClients \in Nat
      BY DEF TypeOK
    <3>3. QED
      BY <2>1, <3>1, <3>2 DEF UnmarkClientAsObserving
  <2>3. TypeOK'
    BY <2>1, <2>2, UnsubscribeStep DEF TypeOK, keyspaceVars
  <2>4. \A o \in Clients : clientFps'[o] = IF o = c THEN {} ELSE clientFps[o]
    <3>1. clientFps' = [clientFps EXCEPT ![c] = @ \ clientFps[c]]
      BY <2>1, UnsubscribeStep
    <3>2. QED
      BY <3>1, ZenonT(40) DEF TypeOK
  <2>5. \A o \in Clients : clientFps'[o] # {} => o \in connected'
    BY <2>1, <2>4 DEF IndexConsistent
  <2>6. IndexConsistent'
    BY <2>1, <2>5, UnsubscribeStep DEF IndexConsistent, ListsAgree
  <2>7. observingClients' = Cardinality({o \in Clients : observing'[o]})
    BY <2>1, CountStep, ZenonT(40) DEF UnmarkClientAsObserving
  <2>8. \A o \in Clients : observing'[o] <=> clientFps'[o] # {}
    BY <2>1, <2>4 DEF UnmarkClientAsObserving, ObservingCountExact, TypeOK
  <2>9. ObservingCountExact'
    BY <2>7, <2>8 DEF ObservingCountExact
  <2>10. BufferedChangeHasTimer'
    BY <2>1 DEF BufferedChangeHasTimer
  <2>11. QED
    BY <2>3, <2>6, <2>9, <2>10
<1>4. ASSUME NEW c \in Clients, NEW args \in UnobserveArgs, Unobserve(c, args) PROVE IInv'
  <2> DEFINE fs == {args[i] : i \in 1 .. Len(args)}
  <2>1. /\ ObserveUnsubscribe(c, fs)
        /\ c \in connected
        /\ clientFps[c] # {}
        /\ IF clientFps'[c] = {}
           THEN UnmarkClientAsObserving(c)
           ELSE UNCHANGED <<observing, observingClients>>
        /\ UNCHANGED <<keyspaceVars, clientVars, buffer, timer, debounce, alive>>
    BY <1>4 DEF Unobserve
  <2> HIDE DEF fs
  <2>2. observing' \in [Clients -> BOOLEAN] /\ observingClients' \in Nat
    <3>1. observing[c] => observingClients > 0
      BY CountStep, Zenon
    <3>2. observing \in [Clients -> BOOLEAN] /\ observingClients \in Nat
      BY DEF TypeOK
    <3>3. CASE UnmarkClientAsObserving(c)
      BY <3>1, <3>2, <3>3 DEF UnmarkClientAsObserving
    <3>4. CASE UNCHANGED <<observing, observingClients>>
      BY <3>2, <3>4
    <3>5. QED
      BY <2>1, <3>3, <3>4
  <2>3. TypeOK'
    BY <2>1, <2>2, UnsubscribeStep DEF TypeOK, keyspaceVars, clientVars
  <2>4. \A o \in Clients : clientFps'[o] = IF o = c THEN clientFps[o] \ fs ELSE clientFps[o]
    <3>1. clientFps' = [clientFps EXCEPT ![c] = @ \ fs]
      BY <2>1, UnsubscribeStep
    <3>2. QED
      BY <3>1, Zenon DEF TypeOK
  <2>5. \A o \in Clients : clientFps'[o] # {} => o \in connected'
    BY <2>1, <2>4, ZenonT(40) DEF IndexConsistent, clientVars
  <2>6. IndexConsistent'
    BY <2>1, <2>5, UnsubscribeStep DEF IndexConsistent, ListsAgree
  <2>7. observingClients' = Cardinality({o \in Clients : observing'[o]})
    <3>1. CASE UnmarkClientAsObserving(c)
      BY <3>1, CountStep, ZenonT(40) DEF UnmarkClientAsObserving
    <3>2. CASE UNCHANGED <<observing, observingClients>>
      BY <3>2 DEF ObservingCountExact
    <3>3. QED
      BY <2>1, <3>1, <3>2
  <2>8. \A o \in Clients : observing'[o] <=> clientFps'[o] # {}
    BY <2>1, <2>4, ZenonT(40) DEF UnmarkClientAsObserving, ObservingCountExact, TypeOK
  <2>9. ObservingCountExact'
    BY <2>7, <2>8 DEF ObservingCountExact
  <2>10. BufferedChangeHasTimer'
    BY <2>1 DEF BufferedChangeHasTimer
  <2>11. QED
    BY <2>3, <2>6, <2>9, <2>10
<1>5. ASSUME NEW c \in Clients, NEW q \in Queries, Observe(c, q) PROVE IInv'
  <2> DEFINE d == clientDb[c]
             k == KeyOf(q)
  <2>1. d \in Dbs /\ k \in Keys /\ Fingerprint[q] \in Fingerprints
    BY QueryIndices DEF TypeOK
  <2>2. /\ c \in connected
        /\ ObserveSubscribeFingerprint(c, q)
        /\ UNCHANGED <<clientVars, debounce, alive>>
        /\ view' = [view EXCEPT ![c][Fingerprint[q]] = Result(q, LiveValue(d, k))]
    BY <1>5 DEF Observe
  <2>3. \/ /\ db' = [db EXCEPT ![d][k] = None]
           /\ expired' = expired \ {<<d, k>>}
        \/ UNCHANGED keyspaceVars
    BY <1>5 DEF Observe
  <2>4. \/ DebounceKeyChange(k, d)
        \/ UNCHANGED <<buffer, timer>>
    BY <1>5 DEF Observe
  <2>5. LiveValue(d, k) \in Values \cup {None}
    BY <2>1 DEF TypeOK, LiveValue
  <2>6. Result(q, LiveValue(d, k)) \in Results
    BY <2>5 DEF Result, Results
  <2> HIDE DEF d, k
  <2>7. view' \in [Clients -> [Fingerprints -> Results \cup {None}]]
    BY <2>1, <2>2, <2>6 DEF TypeOK
  <2>8. /\ db' \in [Dbs -> [Keys -> Values \cup {None}]]
        /\ expired' \subseteq Dbs \X Keys
    <3>1. CASE UNCHANGED keyspaceVars
      BY <3>1 DEF TypeOK, keyspaceVars
    <3>2. CASE db' = [db EXCEPT ![d][k] = None] /\ expired' = expired \ {<<d, k>>}
      BY <2>1, <3>2 DEF TypeOK
    <3>3. QED
      BY <2>3, <3>1, <3>2
  <2>9. /\ buffer' \in [Keys -> Dbs \cup {None}]
        /\ timer' \in BOOLEAN
        /\ BufferedChangeHasTimer'
    BY <2>1, <2>4, DebounceStep DEF TypeOK, BufferedChangeHasTimer
  <2>10. /\ clientFps' \in [Clients -> SUBSET Fingerprints]
         /\ info' \in [Fingerprints -> Queries \cup {None}]
         /\ clientsOf' \in [Fingerprints -> [Clients -> Nat]]
         /\ keyFps' \in [Keys -> [Fingerprints -> Nat]]
         /\ observing' \in [Clients -> BOOLEAN]
         /\ observingClients' \in Nat
         /\ IndexConsistent'
         /\ ObservingCountExact'
    BY <2>2, SubscribeStep DEF clientVars
  <2>11. TypeOK'
    BY <2>2, <2>7, <2>8, <2>9, <2>10 DEF TypeOK, clientVars
  <2>12. QED
    BY <2>9, <2>10, <2>11
<1>6. ASSUME NEW d \in Dbs, NEW k \in Keys, NEW v \in Values \cup {None}, SetKey(d, k, v),
             UNCHANGED <<clientVars, indexVars, debounce, alive>>
      PROVE  IInv'
  <2>1. TypeOK'
    BY <1>6, SetKeyStep DEF TypeOK, clientVars, indexVars
  <2>2. IndexUnchanged
    BY <1>6 DEF IndexUnchanged, clientVars
  <2>3. QED
    BY <1>6, <2>1, <2>2, SetKeyStep, IndexUnchangedStep
<1>7. ASSUME NEW c \in Clients,
             \/ \E k \in Keys, v \in Values : Write(c, k, v)
             \/ \E k \in Keys : Del(c, k)
      PROVE  IInv'
  <2>1. clientDb[c] \in Dbs
    BY DEF TypeOK
  <2>2. QED
    BY <1>6, <1>7, <2>1 DEF Write, Del
<1>8. ASSUME NEW d \in Dbs, NEW k \in Keys, Access(d, k) PROVE IInv'
  BY <1>6, <1>8 DEF Access, ExpireIfNeeded
<1>9. ASSUME NEW d \in Dbs, NEW k \in Keys, KeyExpires(d, k) PROVE IInv'
  <2>1. TypeOK'
    BY <1>9 DEF KeyExpires, TypeOK, clientVars, indexVars, notifyVars
  <2>2. IndexUnchanged /\ UNCHANGED notifyVars
    BY <1>9 DEF KeyExpires, IndexUnchanged, clientVars
  <2>3. QED
    BY <2>1, <2>2, IndexUnchangedStep DEF notifyVars, BufferedChangeHasTimer
<1>10. ASSUME NEW c \in Clients,
              FlushDb(c) \/ \E d1, d2 \in Dbs : SwapDb(c, d1, d2)
       PROVE  IInv'
  <2>1. UNCHANGED <<clientVars, indexVars, notifyVars, debounce, alive>>
    BY <1>10 DEF FlushDb, SwapDb
  <2>2. CASE FlushDb(c)
    <3>1. db' \in [Dbs -> [Keys -> Values \cup {None}]] /\ expired' \subseteq Dbs \X Keys
      BY <2>2 DEF FlushDb, TypeOK
    <3>2. QED
      BY <2>1, <3>1 DEF TypeOK, clientVars, indexVars, notifyVars, IndexConsistent,
         ObservingCountExact, BufferedChangeHasTimer
  <2>3. ASSUME NEW d1 \in Dbs, NEW d2 \in Dbs, SwapDb(c, d1, d2) PROVE IInv'
    <3>1. \A d \in Dbs : Swapped(d1, d2, d) \in Dbs
      BY DEF Swapped
    <3>2. db' \in [Dbs -> [Keys -> Values \cup {None}]]
      BY <2>3, <3>1, ZenonT(40) DEF SwapDb, TypeOK
    <3>3. expired' \subseteq Dbs \X Keys
      BY <2>3, <3>1 DEF SwapDb, TypeOK
    <3>4. QED
      BY <2>1, <3>2, <3>3 DEF TypeOK, clientVars, indexVars, notifyVars, IndexConsistent,
         ObservingCountExact, BufferedChangeHasTimer
  <2>4. QED
    BY <1>10, <2>2, <2>3
<1>11. CASE ObserveDebounceTimer
  <2> DEFINE reaped == {<<buffer[k], k>> : k \in ReapedByFlush}
             values == [d \in Dbs |-> [k \in Keys |->
                           IF <<d, k>> \in reaped THEN None ELSE db[d][k]]]
  <2>1. /\ db' = values
        /\ expired' = expired \ reaped
        /\ view' = NotifyImmediate(buffer, values)
        /\ buffer' = [k \in Keys |->
                        IF k \in ReapedByFlush /\ debounce /\ observingClients # 0
                        THEN buffer[k] ELSE None]
        /\ timer' = (\E k \in Keys : buffer'[k] # None)
        /\ UNCHANGED <<clientVars, indexVars, debounce, alive>>
    BY <1>11 DEF ObserveDebounceTimer
  <2>2. values \in [Dbs -> [Keys -> Values \cup {None}]]
    BY DEF TypeOK
  <2> HIDE DEF values, reaped
  <2>3. view' \in [Clients -> [Fingerprints -> Results \cup {None}]]
    BY <2>1, <2>2, NotifyImmediateType, ZenonT(40) DEF TypeOK
  <2>4. buffer' \in [Keys -> Dbs \cup {None}] /\ timer' \in BOOLEAN
    BY <2>1 DEF TypeOK
  <2>5. TypeOK'
    BY <2>1, <2>2, <2>3, <2>4 DEF TypeOK, clientVars, indexVars
  <2>6. BufferedChangeHasTimer'
    BY <2>1 DEF BufferedChangeHasTimer
  <2>7. IndexUnchanged
    BY <2>1 DEF IndexUnchanged, clientVars
  <2>8. QED
    BY <2>5, <2>6, <2>7, IndexUnchangedStep
<1>12. CASE UNCHANGED vars
  BY <1>12, IndexUnchangedStep
  DEF vars, keyspaceVars, clientVars, notifyVars, IndexUnchanged, indexVars, TypeOK,
      BufferedChangeHasTimer
<1>13. QED
  BY <1>1, <1>2, <1>3, <1>4, <1>5, <1>7, <1>8, <1>9, <1>10, <1>11, <1>12
  DEF Next, ClientStep

-----------------------------------------------------------------------------
\* The invariant holds in every reachable state.
THEOREM IInvHolds == Spec => []IInv
<1>1. Init => IInv
  BY InitIInv
<1>2. IInv /\ [Next]_vars => IInv'
  BY NextIInv
<1>3. QED
  BY <1>1, <1>2, PTL DEF Spec

\* Every variable always has its type.
THEOREM TypeCorrect == Spec => []TypeOK
<1>1. IInv => TypeOK
  BY DEF IInv
<1>2. QED
  BY <1>1, IInvHolds, PTL

\* The client, fingerprint and key indexes of subscriptions always agree, so
\* no list holds a freed client and no key list a freed fingerprint.
THEOREM IndexAlwaysConsistent == Spec => []IndexConsistent
<1>1. IInv => IndexConsistent
  BY DEF IInv
<1>2. QED
  BY <1>1, IInvHolds, PTL

\* server.observing_clients always counts exactly the clients that hold a
\* subscription.
THEOREM CountAlwaysExact == Spec => []ObservingCountExact
<1>1. IInv => ObservingCountExact
  BY DEF IInv
<1>2. QED
  BY <1>1, IInvHolds, PTL

\* No buffered change is ever left without a timer.
THEOREM BufferAlwaysTimed == Spec => []BufferedChangeHasTimer
<1>1. IInv => BufferedChangeHasTimer
  BY DEF IInv
<1>2. QED
  BY <1>1, IInvHolds, PTL

-----------------------------------------------------------------------------
\* The step of DeliveredResultIsCurrent for one client and fingerprint.
Current(c, f) ==
    (view'[c][f] # view[c][f] /\ view'[c][f] # None) =>
        \E k \in Keys : /\ k = KeyOf(view'[c][f].query)
                        /\ view'[c][f].value = LiveValue(clientDb[c], k)'

\* A notification delivers the new value if the values it is computed from
\* are the new keyspace and no key of the batch is left expired: the key
\* index leads from the changed key to fingerprints of that key only.
LEMMA NotifyCurrent ==
    ASSUME TypeOK, IndexConsistent, clientDb' = clientDb,
           NEW batch \in [Keys -> Dbs \cup {None}],
           view' = NotifyImmediate(batch, db'),
           \A k \in Keys, f \in Fingerprints :
               (keyFps[k][f] > 0 /\ info[f] # None) => <<batch[k], k>> \notin expired',
           NEW c \in Clients, NEW f \in Fingerprints
    PROVE  Current(c, f)
<1> SUFFICES ASSUME view'[c][f] # view[c][f]
             PROVE  \E k \in Keys : /\ k = KeyOf(view'[c][f].query)
                                    /\ view'[c][f].value = LiveValue(clientDb[c], k)'
  BY DEF Current
<1>1. PICK k \in Keys : /\ batch[k] = clientDb[c]
                        /\ keyFps[k][f] > 0
                        /\ info[f] # None
                        /\ view'[c][f] = Result(info[f], db'[clientDb[c]][KeyOf(info[f])])
  BY DEF NotifyImmediate
<1>2. KeyOf(info[f]) = k
  BY <1>1 DEF IndexConsistent
<1>3. view'[c][f].query = info[f] /\ view'[c][f].value = db'[clientDb[c]][k]
  BY <1>1, <1>2 DEF Result
<1>4. <<clientDb[c], k>> \notin expired'
  BY <1>1
<1>5. LiveValue(clientDb[c], k)' = db'[clientDb[c]][k]
  BY <1>4 DEF LiveValue
<1>6. QED
  BY <1>2, <1>3, <1>5

\* A write delivers the value it has just stored.
LEMMA SetKeyCurrent ==
    ASSUME TypeOK, IndexConsistent, clientDb' = clientDb,
           NEW d \in Dbs, NEW k \in Keys, NEW v, SetKey(d, k, v),
           NEW c \in Clients, NEW f \in Fingerprints
    PROVE  Current(c, f)
<1>1. CASE UNCHANGED view
  BY <1>1 DEF Current
<1>2. CASE view' = NotifyImmediate(Only(k, d), db')
  <2>1. Only(k, d) \in [Keys -> Dbs \cup {None}]
    BY DEF Only
  <2>2. expired' = expired \ {<<d, k>>}
    BY DEF SetKey
  <2>3. \A j \in Keys : <<Only(k, d)[j], j>> \notin expired'
    BY <2>2, ConstantsAssumption DEF Only, TypeOK
  <2>4. QED
    BY <1>2, <2>1, <2>3, NotifyCurrent
<1>3. QED
  BY <1>1, <1>2 DEF SetKey, ObserveNotifyKeyChange, notifyVars

\* The first result of a subscription is the value the command's lookup finds.
LEMMA ObserveCurrent ==
    ASSUME TypeOK, NEW o \in Clients, NEW q \in Queries, Observe(o, q),
           NEW c \in Clients, NEW f \in Fingerprints
    PROVE  Current(c, f)
<1> DEFINE d == clientDb[o]
           k == KeyOf(q)
<1>1. d \in Dbs /\ k \in Keys /\ Fingerprint[q] \in Fingerprints
  BY QueryIndices DEF TypeOK
<1>2. /\ clientDb' = clientDb
      /\ view' = [view EXCEPT ![o][Fingerprint[q]] = Result(q, LiveValue(d, k))]
      /\ IF <<d, k>> \in expired
         THEN db' = [db EXCEPT ![d][k] = None] /\ expired' = expired \ {<<d, k>>}
         ELSE db' = db /\ expired' = expired
  BY DEF Observe, clientVars, keyspaceVars
<1>3. LiveValue(clientDb[o], k)' = LiveValue(d, k)
  BY <1>1, <1>2 DEF LiveValue, TypeOK
<1> HIDE DEF d, k
<1>4. CASE c = o /\ f = Fingerprint[q]
  <2>1. view'[c][f] = Result(q, LiveValue(d, k))
    BY <1>1, <1>2, <1>4 DEF TypeOK
  <2>2. view'[c][f].query = q /\ view'[c][f].value = LiveValue(d, k)
    BY <2>1 DEF Result
  <2>3. QED
    BY <1>1, <1>3, <1>4, <2>2 DEF Current, k
<1>5. CASE ~(c = o /\ f = Fingerprint[q])
  <2>1. view'[c][f] = view[c][f]
    BY <1>1, <1>2, <1>5 DEF TypeOK
  <2>2. QED
    BY <2>1 DEF Current
<1>6. QED
  BY <1>4, <1>5

\* A flush delivers the values at the time of the flush, and deletes the
\* expired keys it meets before it evaluates their commands.
LEMMA TimerCurrent ==
    ASSUME TypeOK, IndexConsistent, ObserveDebounceTimer,
           NEW c \in Clients, NEW f \in Fingerprints
    PROVE  Current(c, f)
<1>1. /\ view' = NotifyImmediate(buffer, db')
      /\ expired' = expired \ {<<buffer[k], k>> : k \in ReapedByFlush}
      /\ clientDb' = clientDb
  BY Zenon DEF ObserveDebounceTimer, clientVars
<1>2. buffer \in [Keys -> Dbs \cup {None}]
  BY DEF TypeOK
<1>3. ASSUME NEW k \in Keys, NEW g \in Fingerprints, keyFps[k][g] > 0, info[g] # None,
             <<buffer[k], k>> \in expired
      PROVE  <<buffer[k], k>> \notin expired'
  <2>1. buffer[k] # None
    BY <1>3, ConstantsAssumption DEF TypeOK
  <2>2. k \in ReapedByFlush
    BY <1>3, <2>1, ZenonT(40) DEF ReapedByFlush
  <2>3. QED
    BY <1>1, <2>2
<1>4. \A k \in Keys, g \in Fingerprints :
          (keyFps[k][g] > 0 /\ info[g] # None) => <<buffer[k], k>> \notin expired'
  BY <1>1, <1>3
<1>5. QED
  BY <1>1, <1>2, <1>4, NotifyCurrent

\* Unsubscribing sends nothing.
LEMMA UnsubscribeCurrent ==
    ASSUME TypeOK, NEW o \in Clients, NEW fs, ObserveUnsubscribe(o, fs),
           NEW c \in Clients, NEW f \in Fingerprints
    PROVE  Current(c, f)
<1>1. view' = [view EXCEPT ![o] = [g \in Fingerprints |->
                   IF g \in fs \cap clientFps[o] THEN None ELSE view[o][g]]]
  BY DEF ObserveUnsubscribe
<1>2. view'[c][f] = view[c][f] \/ view'[c][f] = None
  BY <1>1 DEF TypeOK
<1>3. QED
  BY <1>2 DEF Current

\* Every step of the server delivers current values only.
LEMMA NextCurrent ==
    ASSUME IInv, [Next]_vars, NEW c \in Clients, NEW f \in Fingerprints
    PROVE  Current(c, f)
<1> TypeOK /\ IndexConsistent
  BY DEF IInv
<1>1. CASE UNCHANGED view
  BY <1>1 DEF Current
<1>2. ASSUME NEW o \in Clients, NEW q \in Queries, Observe(o, q) PROVE Current(c, f)
  BY <1>2, ObserveCurrent
<1>3. ASSUME NEW o \in Clients, NEW args \in UnobserveArgs, Unobserve(o, args)
      PROVE  Current(c, f)
  BY <1>3, UnsubscribeCurrent, ZenonT(40) DEF Unobserve
<1>4. ASSUME NEW o \in Clients, FreeClient(o) PROVE Current(c, f)
  BY <1>4, UnsubscribeCurrent DEF FreeClient
<1>5. ASSUME NEW o \in Clients, NEW k \in Keys, NEW v \in Values, Write(o, k, v)
      PROVE  Current(c, f)
  <2>1. clientDb[o] \in Dbs
    BY DEF TypeOK
  <2>2. QED
    BY <1>5, <2>1, SetKeyCurrent DEF Write, clientVars
<1>6. ASSUME NEW o \in Clients, NEW k \in Keys, Del(o, k) PROVE Current(c, f)
  <2>1. clientDb[o] \in Dbs
    BY DEF TypeOK
  <2>2. QED
    BY <1>6, <2>1, SetKeyCurrent DEF Del, clientVars
<1>7. ASSUME NEW d \in Dbs, NEW k \in Keys, Access(d, k) PROVE Current(c, f)
  BY <1>7, SetKeyCurrent DEF Access, ExpireIfNeeded, clientVars
<1>8. CASE ObserveDebounceTimer
  BY <1>8, TimerCurrent
<1>9. ASSUME NEW d \in Dbs, NEW k \in Keys, KeyExpires(d, k) PROVE UNCHANGED view
  BY <1>9 DEF KeyExpires, notifyVars
<1>10. ASSUME NEW o \in Clients,
              \/ Connect(o) \/ Reset(o) \/ FlushDb(o) \/ ConfigSet(o)
              \/ \E d \in Dbs : Select(o, d)
              \/ \E version \in {2, 3} : Hello(o, version)
              \/ \E args \in UnobserveArgs : UnobserveCrash(o, args)
              \/ \E d1, d2 \in Dbs : SwapDb(o, d1, d2)
       PROVE  UNCHANGED view
  BY <1>10, Zenon
  DEF Connect, Reset, FlushDb, ConfigSet, Select, Hello, UnobserveCrash, SwapDb, notifyVars
<1>11. CASE UNCHANGED vars
  BY <1>1, <1>11 DEF vars, notifyVars
<1>12. QED
  BY <1>1, <1>2, <1>3, <1>4, <1>5, <1>6, <1>7, <1>8, <1>9, <1>10, <1>11
  DEF Next, ClientStep

\* Whatever an observing client is pushed is what its own database holds at
\* that moment: immediately after a write, at a debounced flush, and as the
\* first result of OBSERVE.
THEOREM DeliveredAlwaysCurrent == Spec => DeliveredResultIsCurrent
<1>1. IInv /\ [Next]_vars => [\A c \in Clients, f \in Fingerprints : Current(c, f)]_vars
  BY NextCurrent
<1>2. QED
  BY <1>1, IInvHolds, PTL DEF Spec, DeliveredResultIsCurrent, Current
=============================================================================
