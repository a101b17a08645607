------------------------ MODULE TransactionsProofs ------------------------
(***************************************************************************)
(* Proofs about Transactions for any clients, keys and databases.          *)
(***************************************************************************)
EXTENDS Transactions, FiniteSetTheorems, TLAPS

\* The part of the type invariant that touching keys can disturb.
WatchTypes ==
    /\ dirtyCas \in [Clients -> BOOLEAN]
    /\ queue \in [Clients -> Seq(Commands)]
    /\ watched \in [Clients -> SUBSET Slots]
    /\ wkExpired \in [Clients -> SUBSET Slots]
    /\ ahead \subseteq Slots \X Clients \X Clients
    /\ watchingClients \in Int

\* A set of watchers is finite, so that the counter stays a number.
LEMMA HitIsCounted ==
    ASSUME NEW hit, hit \subseteq Clients
    PROVE  Cardinality(hit) \in Nat
BY ConstantsAssumption, FS_Subset, FS_CardinalityType

\* Marking clients dirty keeps the types.
LEMMA MarkDirtyType ==
    ASSUME TypeOK, NEW hit, hit \subseteq Clients, NEW s, NEW present \in BOOLEAN,
           MarkDirtyAndUnwatch(hit, s, present)
    PROVE  WatchTypes'
<1>1. watchingClients' \in Int
  BY HitIsCounted DEF MarkDirtyAndUnwatch, TypeOK
<1>2. <<>> \in Seq(Commands)
  OBVIOUS
<1>3. QED
  BY <1>1, <1>2 DEF MarkDirtyAndUnwatch, TypeOK, WatchTypes

\* The watchers of a slot and those touched are clients.
LEMMA TouchedAreClients ==
    ASSUME NEW s, NEW present
    PROVE  Watchers(s) \subseteq Clients /\ Touched(s, present) \subseteq Clients
BY DEF Watchers, Touched

\* Running a command keeps the types.
LEMMA ExecuteType ==
    ASSUME TypeOK, NEW command \in Commands, NEW d \in Dbs, Execute(command, d)
    PROVE  /\ keys' \subseteq Slots
           /\ expired' \subseteq keys'
           /\ WatchTypes'
           /\ moved' \in [Clients -> BOOLEAN]
<1> DEFINE s == <<d, command.key>>
<1>0. s \in Slots
  BY DEF Commands, Slots
<1> HIDE DEF s
<1>1. ASSUME NEW present \in BOOLEAN, TouchWatchedKey(s, present) PROVE WatchTypes'
  BY <1>1, MarkDirtyType, TouchedAreClients DEF TouchWatchedKey
<1>2. ASSUME DeleteKey(s)
      PROVE  keys' \subseteq Slots /\ expired' \subseteq keys' /\ WatchTypes'
  BY <1>1, <1>2, Zenon DEF DeleteKey, TypeOK
<1>3. ASSUME UNCHANGED <<keyspaceVars, watchVars, dirtyCas, queue>>
      PROVE  keys' \subseteq Slots /\ expired' \subseteq keys' /\ WatchTypes'
  BY <1>3 DEF keyspaceVars, watchVars, WatchTypes, TypeOK
<1>4. ASSUME NEW changed, RecordMoves(changed) PROVE moved' \in [Clients -> BOOLEAN]
  BY <1>4 DEF RecordMoves, TypeOK
<1>5. CASE command.op = "set" /\ SetKey(s) /\ RecordMoves({s})
  <2>1. keys' \subseteq Slots /\ expired' \subseteq keys'
    BY <1>0, <1>5 DEF SetKey, TypeOK
  <2>2. CASE s \in expired
    BY <1>4, <1>5, <2>1, <2>2, MarkDirtyType, TouchedAreClients, Zenon DEF SetKey
  <2>3. CASE s \notin expired
    BY <1>1, <1>4, <1>5, <2>1, <2>3, Zenon DEF SetKey
  <2>4. QED
    BY <2>2, <2>3
<1>6. CASE command.op = "restore" /\ RestoreKey(s) /\ RecordMoves({s})
  <2>1. keys' \subseteq Slots /\ expired' \subseteq keys'
    BY <1>0, <1>6 DEF RestoreKey, TypeOK
  <2>2. QED
    BY <1>1, <1>4, <1>6, <2>1, Zenon DEF RestoreKey
<1>7. CASE /\ command.op = "del"
           /\ IF s \in keys THEN DeleteKey(s)
              ELSE UNCHANGED <<keyspaceVars, watchVars, dirtyCas, queue>>
           /\ RecordMoves({s} \cap Visible)
  BY <1>2, <1>3, <1>4, <1>7
<1>8. CASE /\ command.op = "get"
           /\ IF s \in expired THEN DeleteKey(s)
              ELSE UNCHANGED <<keyspaceVars, watchVars, dirtyCas, queue>>
           /\ UNCHANGED moved
  BY <1>2, <1>3, <1>8 DEF TypeOK
<1>9. QED
  BY <1>5, <1>6, <1>7, <1>8 DEF Execute, s

\* Flushing and swapping keep the types.
LEMMA TouchAllType ==
    ASSUME TypeOK, NEW source, TouchAllWatchedKeys(source)
    PROVE  WatchTypes'
<1> DEFINE affected(s) == s[1] \in DOMAIN source /\ (s \in keys \/ ReplacedPresent(s, source))
           stale(c, s) ==
               IF s \in wkExpired[c]
               THEN ~ReplacedPresent(s, source) \/ ReplacedExpired(s, source)
               ELSE s \notin keys /\ ReplacedExpired(s, source)
           dirty(c) == \E s \in watched[c] : affected(s) /\ ~stale(c, s)
<1>1. /\ dirtyCas' = [c \in Clients |-> dirtyCas[c] \/ dirty(c)]
      /\ queue' = [c \in Clients |-> IF dirty(c) THEN <<>> ELSE queue[c]]
      /\ wkExpired' = [c \in Clients |->
             {s \in watched[c] :
                 IF affected(s) /\ stale(c, s)
                 THEN ReplacedExpired(s, source)
                 ELSE s \in wkExpired[c]}]
      /\ UNCHANGED <<watched, ahead, watchingClients>>
  BY DEF TouchAllWatchedKeys
<1> HIDE DEF affected, stale, dirty
<1>2. dirtyCas' \in [Clients -> BOOLEAN]
  BY <1>1 DEF TypeOK
<1>3. queue' \in [Clients -> Seq(Commands)]
  <2>1. <<>> \in Seq(Commands)
    OBVIOUS
  <2>2. QED
    BY <1>1, <2>1 DEF TypeOK
<1>4. wkExpired' \in [Clients -> SUBSET Slots]
  BY <1>1 DEF TypeOK
<1>5. QED
  BY <1>1, <1>2, <1>3, <1>4 DEF TypeOK, WatchTypes

\* Unwatching and discarding keep the types.
LEMMA UnwatchType ==
    ASSUME TypeOK, NEW c \in Clients, UnwatchAllKeys(c)
    PROVE  /\ watched' \in [Clients -> SUBSET Slots]
           /\ wkExpired' \in [Clients -> SUBSET Slots]
           /\ ahead' \subseteq Slots \X Clients \X Clients
           /\ watchingClients' \in Int
           /\ moved' \in [Clients -> BOOLEAN]
BY DEF UnwatchAllKeys, TypeOK

\* Discarding a transaction keeps the types.
LEMMA DiscardType ==
    ASSUME TypeOK, NEW c \in Clients, DiscardTransaction(c)
    PROVE  /\ multi' \in [Clients -> BOOLEAN]
           /\ dirtyExec' \in [Clients -> BOOLEAN]
           /\ WatchTypes'
           /\ moved' \in [Clients -> BOOLEAN]
<1>1. <<>> \in Seq(Commands)
  OBVIOUS
<1>2. /\ multi' \in [Clients -> BOOLEAN]
      /\ dirtyExec' \in [Clients -> BOOLEAN]
      /\ dirtyCas' \in [Clients -> BOOLEAN]
      /\ queue' \in [Clients -> Seq(Commands)]
  BY <1>1 DEF DiscardTransaction, TypeOK
<1>3. QED
  BY <1>2, UnwatchType DEF DiscardTransaction, WatchTypes

\* The types hold at first.
LEMMA InitType == Init => TypeOK
<1>1. <<>> \in Seq(Commands)
  OBVIOUS
<1>2. QED
  BY <1>1, ConstantsAssumption DEF Init, TypeOK

\* Every step keeps the types.
LEMMA NextType == TypeOK /\ [Next]_vars => TypeOK'
<1> SUFFICES ASSUME TypeOK, [Next]_vars PROVE TypeOK'
  OBVIOUS
<1> USE DEF keyspaceVars, clientVars, watchVars, execVars
<1>1. ASSUME NEW c \in Clients, ClientStep(c) PROVE TypeOK'
  <2>1. ASSUME NEW k \in Keys, Watch(c, k) PROVE TypeOK'
    <3> DEFINE s == <<clientDb[c], k>>
    <3>1. s \in Slots
      BY DEF TypeOK, Slots
    <3>2. /\ watched' = [watched EXCEPT ![c] = @ \cup {s}]
          /\ wkExpired' = IF s \in expired THEN [wkExpired EXCEPT ![c] = @ \cup {s}] ELSE wkExpired
          /\ ahead' = ahead \cup {<<s, a, c>> : a \in Watchers(s)}
          /\ watchingClients' \in Int
          /\ UNCHANGED <<keyspaceVars, clientVars, execVars, moved>>
      BY <2>1 DEF Watch, TypeOK
    <3> HIDE DEF s
    <3>3. ahead' \subseteq Slots \X Clients \X Clients
      BY <3>1, <3>2 DEF Watchers, TypeOK
    <3>4. QED
      BY <3>1, <3>2, <3>3 DEF TypeOK
  <2>2. ASSUME NEW command \in Commands, QueueMultiCommand(c, command) PROVE TypeOK'
    <3>1. queue' \in [Clients -> Seq(Commands)]
      BY <2>2 DEF QueueMultiCommand, TypeOK
    <3>2. QED
      BY <2>2, <3>1 DEF QueueMultiCommand, TypeOK
  <2>3. ASSUME NEW command \in Commands, Call(c, command) PROVE TypeOK'
    <3>1. clientDb[c] \in Dbs /\ Execute(command, clientDb[c])
      BY <2>3 DEF Call, TypeOK
    <3>2. QED
      BY <2>3, <3>1, ExecuteType DEF Call, TypeOK, WatchTypes
  <2>4. ASSUME NEW d \in Dbs, Select(c, d) PROVE TypeOK'
    BY <2>4 DEF Select, TypeOK
  <2>5. CASE Unwatch(c)
    BY <2>5, UnwatchType DEF Unwatch, TypeOK
  <2>6. CASE Multi(c)
    BY <2>6 DEF Multi, TypeOK
  <2>7. CASE RejectCommand(c)
    <3>1. <<>> \in Seq(Commands)
      OBVIOUS
    <3>2. QED
      BY <2>7, <3>1 DEF RejectCommand, FlagTransaction, TypeOK
  <2>8. CASE Discard(c)
    BY <2>8, DiscardType DEF Discard, TypeOK, WatchTypes
  <2>9. CASE ResetOrFree(c)
    <3>1. clientDb' \in [Clients -> Dbs]
      BY <2>9, ConstantsAssumption DEF ResetOrFree, TypeOK
    <3>2. QED
      BY <2>9, <3>1, DiscardType DEF ResetOrFree, TypeOK, WatchTypes
  <2>10. CASE ExecAbort(c)
    BY <2>10, DiscardType DEF ExecAbort, TypeOK, WatchTypes
  <2>11. CASE ExecBegin(c)
    BY <2>11, UnwatchType, ConstantsAssumption DEF ExecBegin, TypeOK
  <2>12. CASE ExecCommand(c)
    <3>1. queue[c] \in Seq(Commands) /\ execPos \in Nat /\ clientDb[c] \in Dbs
      BY DEF TypeOK
    <3>2. execPos # 0 => queue[c][execPos] \in Commands
      BY <2>12, <3>1 DEF ExecCommand
    <3>3. execPos # 0
      BY <2>12, ConstantsAssumption DEF ExecCommand, TypeOK
    <3>4. QED
      BY <2>12, <3>1, <3>2, <3>3, ExecuteType DEF ExecCommand, TypeOK, WatchTypes
  <2>13. CASE ExecEnd(c)
    BY <2>13, DiscardType DEF ExecEnd, TypeOK, WatchTypes
  <2>14. CASE ExecDenied(c)
    BY <2>14, ConstantsAssumption DEF ExecDenied, TypeOK
  <2>15. QED
    BY <1>1, <2>1, <2>2, <2>3, <2>4, <2>5, <2>6, <2>7, <2>8, <2>9, <2>10, <2>11,
       <2>12, <2>13, <2>14 DEF ClientStep
<1>2. ASSUME NEW d \in Dbs, FlushDb(d) PROVE TypeOK'
  <2>1. WatchTypes'
    BY <1>2, TouchAllType DEF FlushDb
  <2>2. moved' \in [Clients -> BOOLEAN]
    BY <1>2 DEF FlushDb, RecordMoves, TypeOK
  <2>3. QED
    BY <1>2, <2>1, <2>2 DEF FlushDb, TypeOK, WatchTypes
<1>3. ASSUME NEW d1 \in Dbs, NEW d2 \in Dbs, SwapDb(d1, d2) PROVE TypeOK'
  <2>1. WatchTypes'
    BY <1>3, TouchAllType DEF SwapDb
  <2>2. moved' \in [Clients -> BOOLEAN]
    BY <1>3 DEF SwapDb, RecordMoves, TypeOK
  <2>3. \A s \in Slots : SwappedSlot(d1, d2, s) \in Slots
    BY DEF SwappedSlot, Slots
  <2>4. keys' \subseteq Slots /\ expired' \subseteq keys'
    BY <1>3, <2>3 DEF SwapDb, TypeOK
  <2>5. QED
    BY <1>3, <2>1, <2>2, <2>4 DEF SwapDb, TypeOK, WatchTypes
<1>4. ASSUME NEW s \in Slots, KeyExpires(s) PROVE TypeOK'
  <2>1. moved' \in [Clients -> BOOLEAN]
    BY <1>4 DEF KeyExpires, RecordMoves, TypeOK
  <2>2. QED
    BY <1>4, <2>1 DEF KeyExpires, Visible, TypeOK
<1>5. ASSUME NEW s \in Slots, ActiveExpire(s) PROVE TypeOK'
  <2>1. WatchTypes'
    BY <1>5, MarkDirtyType, TouchedAreClients, Zenon DEF ActiveExpire, DeleteKey, TouchWatchedKey
  <2>2. QED
    BY <1>5, <2>1 DEF ActiveExpire, DeleteKey, TypeOK, WatchTypes
<1>6. CASE UNCHANGED vars
  BY <1>6 DEF vars, TypeOK
<1>7. QED
  BY <1>1, <1>2, <1>3, <1>4, <1>5, <1>6 DEF Next

\* The variables of Transactions keep their types.
THEOREM TypeCorrect == Spec => []TypeOK
BY InitType, NextType, PTL DEF Spec

-----------------------------------------------------------------------------
\* WATCH fails EXEC only for a reason

\* A touch keeps DirtyOnlyIfMoved if all clients it hits count as moved.
LEMMA TouchDirty ==
    ASSUME TypeOK, DirtyOnlyIfMoved, NEW s, NEW present \in BOOLEAN,
           NEW hit, hit \subseteq Clients,
           MarkDirtyAndUnwatch(hit, s, present), expired' = expired \ {s},
           \A c \in Clients : moved[c] \/ c \in hit => moved'[c]
    PROVE  DirtyOnlyIfMoved'
<1> SUFFICES ASSUME NEW c \in Clients, dirtyCas'[c] \/ IsWatchedKeyExpired(c)'
             PROVE  moved'[c]
  BY DEF DirtyOnlyIfMoved
<1>1. CASE dirtyCas'[c]
  BY <1>1 DEF MarkDirtyAndUnwatch, DirtyOnlyIfMoved, TypeOK
<1>2. CASE c \notin hit /\ IsWatchedKeyExpired(c)'
  <2>1. PICK t \in watched'[c] : t \in expired' /\ t \notin wkExpired'[c]
    BY <1>2 DEF IsWatchedKeyExpired
  <2>2. t \in watched[c] /\ t \in expired /\ t \notin wkExpired[c]
    BY <1>2, <2>1 DEF MarkDirtyAndUnwatch, TypeOK
  <2>3. QED
    BY <2>2 DEF IsWatchedKeyExpired, DirtyOnlyIfMoved
<1>3. QED
  BY <1>1, <1>2

\* Deleting an expired key makes nobody dirty without a reason: it moved when
\* it expired, or was expired when watched.
LEMMA DeleteExpiredDirty ==
    ASSUME TypeOK, DirtyOnlyIfMoved, NEW s, s \in expired, DeleteKey(s),
           \A c \in Clients : moved[c] => moved'[c]
    PROVE  DirtyOnlyIfMoved'
<1>1. \A c \in Touched(s, FALSE) : IsWatchedKeyExpired(c)
  BY DEF Touched, Watchers, Flagged, IsWatchedKeyExpired
<1>2. \A c \in Clients : moved[c] \/ c \in Touched(s, FALSE) => moved'[c]
  BY <1>1, Zenon DEF DirtyOnlyIfMoved
<1>3. QED
  BY <1>2, TouchDirty, TouchedAreClients, Zenon DEF DeleteKey, TouchWatchedKey

\* A command makes dirty only clients whose watched keys moved.
LEMMA ExecuteDirty ==
    ASSUME TypeOK, DirtyOnlyIfMoved, NEW command \in Commands, NEW d \in Dbs,
           Execute(command, d)
    PROVE  DirtyOnlyIfMoved'
<1> DEFINE s == <<d, command.key>>
<1>1. ASSUME NEW changed, RecordMoves(changed)
      PROVE  /\ \A c \in Clients : moved[c] => moved'[c]
             /\ s \in changed => \A c \in Watchers(s) : moved'[c]
  BY <1>1, Zenon DEF RecordMoves, Watchers
<1>2. /\ Watchers(s) \subseteq Clients
      /\ \A present \in BOOLEAN :
             Touched(s, present) \subseteq Clients /\ Touched(s, present) \subseteq Watchers(s)
  BY DEF Watchers, Touched
<1>3. ASSUME UNCHANGED <<keyspaceVars, watchVars, dirtyCas, queue>>,
             \A c \in Clients : moved[c] => moved'[c]
      PROVE  DirtyOnlyIfMoved'
  BY <1>3 DEF keyspaceVars, watchVars, DirtyOnlyIfMoved, IsWatchedKeyExpired
<1> HIDE DEF s
<1>4. CASE command.op = "set" /\ SetKey(s) /\ RecordMoves({s})
  <2>1. /\ \A c \in Clients : moved[c] => moved'[c]
        /\ \A c \in Watchers(s) : moved'[c]
    BY <1>1, <1>4
  <2>2. CASE s \in expired
    BY <1>2, <1>4, <2>1, <2>2, TouchDirty, Zenon DEF SetKey
  <2>3. CASE s \notin expired
    <3>1. \A c \in Clients : moved[c] \/ c \in Touched(s, TRUE) => moved'[c]
      BY <1>2, <2>1, Zenon
    <3>2. QED
      BY <1>2, <1>4, <2>3, <3>1, TouchDirty, Zenon DEF SetKey, TouchWatchedKey
  <2>4. QED
    BY <2>2, <2>3
<1>5. CASE command.op = "restore" /\ RestoreKey(s) /\ RecordMoves({s})
  <2>1. \A c \in Clients : moved[c] \/ c \in Touched(s, TRUE) => moved'[c]
    BY <1>1, <1>2, <1>5, Zenon
  <2>2. QED
    BY <1>2, <1>5, <2>1, TouchDirty, Zenon DEF RestoreKey, TouchWatchedKey
<1>6. CASE /\ command.op = "del"
           /\ IF s \in keys THEN DeleteKey(s)
              ELSE UNCHANGED <<keyspaceVars, watchVars, dirtyCas, queue>>
           /\ RecordMoves({s} \cap Visible)
  <2>1. CASE s \in expired
    BY <1>1, <1>6, <2>1, DeleteExpiredDirty DEF TypeOK
  <2>2. CASE s \in keys /\ s \notin expired
    <3>1. \A c \in Clients : moved[c] \/ c \in Touched(s, FALSE) => moved'[c]
      BY <1>1, <1>2, <1>6, <2>2, Zenon DEF Visible
    <3>2. QED
      BY <1>2, <1>6, <2>2, <3>1, TouchDirty, Zenon DEF DeleteKey, TouchWatchedKey
  <2>3. CASE s \notin keys
    BY <1>1, <1>3, <1>6, <2>3
  <2>4. QED
    BY <2>1, <2>2, <2>3
<1>7. CASE /\ command.op = "get"
           /\ IF s \in expired THEN DeleteKey(s)
              ELSE UNCHANGED <<keyspaceVars, watchVars, dirtyCas, queue>>
           /\ UNCHANGED moved
  BY <1>3, <1>7, DeleteExpiredDirty
<1>8. QED
  BY <1>4, <1>5, <1>6, <1>7 DEF Execute, s

\* A client whose watched keys are released has nothing left to fail for.
LEMMA UnwatchDirty ==
    ASSUME TypeOK, DirtyOnlyIfMoved, NEW c \in Clients, UnwatchAllKeys(c),
           UNCHANGED expired, dirtyCas'[c] = FALSE,
           \A b \in Clients \ {c} : dirtyCas'[b] = dirtyCas[b]
    PROVE  DirtyOnlyIfMoved'
<1> SUFFICES ASSUME NEW b \in Clients, dirtyCas'[b] \/ IsWatchedKeyExpired(b)'
             PROVE  moved'[b]
  BY DEF DirtyOnlyIfMoved
<1>1. b # c
  BY DEF UnwatchAllKeys, IsWatchedKeyExpired, TypeOK
<1>2. watched'[b] = watched[b] /\ wkExpired'[b] = wkExpired[b] /\ moved'[b] = moved[b]
  BY <1>1 DEF UnwatchAllKeys, TypeOK
<1>3. QED
  BY <1>1, <1>2 DEF DirtyOnlyIfMoved, IsWatchedKeyExpired

\* FLUSHDB and SWAPDB: a client made dirty, or left with an expired key it did
\* not know of, had a watched key that changed.
LEMMA TouchAllDirty ==
    ASSUME TypeOK, DirtyOnlyIfMoved, NEW source, TouchAllWatchedKeys(source),
           \A c \in Clients : moved[c] => moved'[c],
           \A c \in Clients : \A s \in watched[c] :
               /\ s[1] \in DOMAIN source
               /\ \/ s \in Visible
                  \/ ReplacedPresent(s, source) /\ ~ReplacedExpired(s, source)
               => moved'[c],
           \A s \in Slots : s[1] \in DOMAIN source => (s \in expired' <=> ReplacedExpired(s, source)),
           \A s \in Slots : s[1] \notin DOMAIN source => (s \in expired' <=> s \in expired)
    PROVE  DirtyOnlyIfMoved'
<1> SUFFICES ASSUME NEW c \in Clients, dirtyCas'[c] \/ IsWatchedKeyExpired(c)'
             PROVE  moved'[c]
  BY DEF DirtyOnlyIfMoved
<1> DEFINE affected(s) == s[1] \in DOMAIN source /\ (s \in keys \/ ReplacedPresent(s, source))
           stale(s) ==
               IF s \in wkExpired[c]
               THEN ~ReplacedPresent(s, source) \/ ReplacedExpired(s, source)
               ELSE s \notin keys /\ ReplacedExpired(s, source)
<1>1. /\ dirtyCas'[c] = (dirtyCas[c] \/ \E s \in watched[c] : affected(s) /\ ~stale(s))
      /\ \A s \in watched[c] :
             s \in wkExpired'[c] <=>
                 IF affected(s) /\ stale(s) THEN ReplacedExpired(s, source)
                 ELSE s \in wkExpired[c]
      /\ watched'[c] = watched[c]
  BY DEF TouchAllWatchedKeys
<1>2. ASSUME NEW s \in watched[c], affected(s), ~stale(s) PROVE moved'[c]
  <2>1. CASE s \in wkExpired[c]
    BY <1>2, <2>1
  <2>2. CASE s \notin wkExpired[c] /\ s \in keys
    <3>1. s \in expired => IsWatchedKeyExpired(c)
      BY <2>2 DEF IsWatchedKeyExpired
    <3>2. QED
      BY <1>2, <2>2, <3>1 DEF DirtyOnlyIfMoved, Visible
  <2>3. CASE s \notin wkExpired[c] /\ s \notin keys
    BY <1>2, <2>3
  <2>4. QED
    BY <2>1, <2>2, <2>3
<1>3. CASE dirtyCas'[c]
  BY <1>1, <1>2, <1>3, Zenon DEF DirtyOnlyIfMoved
<1>4. CASE IsWatchedKeyExpired(c)'
  <2>1. PICK s \in watched[c] : s \in expired' /\ s \notin wkExpired'[c]
    BY <1>1, <1>4 DEF IsWatchedKeyExpired
  <2>2. s \in Slots
    BY DEF TypeOK
  <2>3. CASE s[1] \in DOMAIN source
    <3>1. ReplacedExpired(s, source)
      BY <2>1, <2>2, <2>3
    <3>2. ReplacedPresent(s, source)
      BY <3>1 DEF ReplacedExpired, ReplacedPresent, TypeOK
    <3>3. affected(s) /\ ~stale(s)
      BY <1>1, <2>1, <2>3, <3>1, <3>2
    <3>4. QED
      BY <1>2, <3>3
  <2>4. CASE s[1] \notin DOMAIN source
    BY <1>1, <2>1, <2>2, <2>4, Zenon DEF IsWatchedKeyExpired, DirtyOnlyIfMoved
  <2>5. QED
    BY <2>3, <2>4
<1>5. QED
  BY <1>3, <1>4

\* FLUSHDB makes dirty only clients whose watched keys moved.
LEMMA FlushDirty ==
    ASSUME TypeOK, DirtyOnlyIfMoved, NEW d \in Dbs, FlushDb(d)
    PROVE  DirtyOnlyIfMoved'
<1> DEFINE source == [x \in {d} |-> None]
<1>1. \A s \in Slots : s[1] \in DOMAIN source <=> s[1] = d
  OBVIOUS
<1>2. \A s : s[1] = d => ~ReplacedExpired(s, source) /\ ~ReplacedPresent(s, source)
  BY DEF ReplacedExpired, ReplacedPresent
<1>3. \A s \in Slots : s \in expired' <=> s \in expired /\ s[1] # d
  BY DEF FlushDb
<1>4. TouchAllWatchedKeys(source) /\ \A c \in Clients : watched[c] \subseteq Slots
  BY DEF FlushDb, TypeOK
<1>5. \A c \in Clients : moved[c] \/ watched[c] \cap {s \in Visible : s[1] = d} # {} => moved'[c]
  BY Zenon DEF FlushDb, RecordMoves
<1> HIDE DEF source
<1>6. \A c \in Clients : \A s \in watched[c] : s \in Visible /\ s[1] = d => moved'[c]
  BY <1>5
<1>7. QED
  BY <1>1, <1>2, <1>3, <1>4, <1>5, <1>6, TouchAllDirty

\* SWAPDB makes dirty only clients whose watched keys moved.
LEMMA SwapDirty ==
    ASSUME TypeOK, DirtyOnlyIfMoved, NEW d1 \in Dbs, NEW d2 \in Dbs, SwapDb(d1, d2)
    PROVE  DirtyOnlyIfMoved'
<1> DEFINE source == [x \in {d1, d2} |-> IF x = d1 THEN d2 ELSE d1]
           changed == {s \in Slots : /\ s[1] \in {d1, d2}
                                     /\ \/ s \in Visible
                                        \/ SwappedSlot(d1, d2, s) \in Visible}
<1>1. \A s \in Slots : s[1] \in DOMAIN source <=> s[1] \in {d1, d2}
  OBVIOUS
<1>2. \A s \in Slots : s[1] \in {d1, d2} =>
          /\ SwappedSlot(d1, d2, s) = <<source[s[1]], s[2]>>
          /\ source[s[1]] \in Dbs
  BY DEF SwappedSlot
<1>3. \A s \in Slots : s[1] \in {d1, d2} =>
          /\ ReplacedExpired(s, source) <=> SwappedSlot(d1, d2, s) \in expired
          /\ ReplacedPresent(s, source) <=> SwappedSlot(d1, d2, s) \in keys
  BY <1>2, ConstantsAssumption DEF ReplacedExpired, ReplacedPresent
<1>4. \A s \in Slots : SwappedSlot(d1, d2, s) \in Slots
                       /\ SwappedSlot(d1, d2, SwappedSlot(d1, d2, s)) = s
  BY DEF SwappedSlot, Slots
<1>5. expired \subseteq Slots /\ \A c \in Clients : watched[c] \subseteq Slots
  BY DEF TypeOK
<1>6. \A s \in Slots : s \in expired' <=> SwappedSlot(d1, d2, s) \in expired
  BY <1>4, <1>5 DEF SwapDb
<1>7. \A s \in Slots : s[1] \notin {d1, d2} => SwappedSlot(d1, d2, s) = s
  BY DEF SwappedSlot, Slots
<1>8. TouchAllWatchedKeys(source)
  BY DEF SwapDb
<1>9. \A c \in Clients : moved[c] \/ watched[c] \cap changed # {} => moved'[c]
  BY Zenon DEF SwapDb, RecordMoves
<1> HIDE DEF source
<1>10. \A c \in Clients : \A s \in watched[c] :
           /\ s[1] \in DOMAIN source
           /\ s \in Visible \/ (ReplacedPresent(s, source) /\ ~ReplacedExpired(s, source))
           => moved'[c]
  <2> SUFFICES ASSUME NEW c \in Clients, NEW s \in watched[c], s[1] \in DOMAIN source,
                      s \in Visible \/ (ReplacedPresent(s, source) /\ ~ReplacedExpired(s, source))
               PROVE  moved'[c]
    OBVIOUS
  <2>1. s \in Slots /\ s[1] \in {d1, d2}
    BY <1>1, <1>5
  <2>2. s \in Visible \/ SwappedSlot(d1, d2, s) \in Visible
    BY <1>3, <2>1 DEF Visible
  <2>3. s \in changed
    BY <2>1, <2>2
  <2>4. QED
    BY <1>9, <2>3
<1> HIDE DEF changed
<1>11. \A s \in Slots : s[1] \in DOMAIN source => (s \in expired' <=> ReplacedExpired(s, source))
  BY <1>1, <1>3, <1>6
<1>12. \A s \in Slots : s[1] \notin DOMAIN source => (s \in expired' <=> s \in expired)
  BY <1>1, <1>6, <1>7
<1>13. \A c \in Clients : moved[c] => moved'[c]
  BY <1>9
<1>14. QED
  BY <1>8, <1>10, <1>11, <1>12, <1>13, TouchAllDirty

\* Every step keeps DirtyOnlyIfMoved.
LEMMA NextDirty == TypeOK /\ DirtyOnlyIfMoved /\ [Next]_vars => DirtyOnlyIfMoved'
<1> SUFFICES ASSUME TypeOK, DirtyOnlyIfMoved, [Next]_vars PROVE DirtyOnlyIfMoved'
  OBVIOUS
<1> USE DEF keyspaceVars, clientVars, watchVars, execVars
<1>0. ASSUME UNCHANGED <<expired, dirtyCas, watched, wkExpired, moved>> PROVE DirtyOnlyIfMoved'
  BY <1>0 DEF DirtyOnlyIfMoved, IsWatchedKeyExpired
<1>1. ASSUME NEW c \in Clients, ClientStep(c) PROVE DirtyOnlyIfMoved'
  <2>1. ASSUME NEW k \in Keys, Watch(c, k) PROVE DirtyOnlyIfMoved'
    <3> SUFFICES ASSUME NEW b \in Clients, dirtyCas'[b] \/ IsWatchedKeyExpired(b)'
                 PROVE  moved'[b]
      BY DEF DirtyOnlyIfMoved
    <3>1. UNCHANGED <<dirtyCas, expired, moved>>
      BY <2>1 DEF Watch
    <3>2. IsWatchedKeyExpired(b)' => IsWatchedKeyExpired(b)
      BY <2>1, <3>1, Zenon DEF Watch, IsWatchedKeyExpired, TypeOK
    <3>3. QED
      BY <3>1, <3>2 DEF DirtyOnlyIfMoved
  <2>2. ASSUME NEW command \in Commands, QueueMultiCommand(c, command) PROVE DirtyOnlyIfMoved'
    BY <1>0, <2>2 DEF QueueMultiCommand
  <2>3. ASSUME NEW command \in Commands, Call(c, command) PROVE DirtyOnlyIfMoved'
    <3>1. clientDb[c] \in Dbs /\ Execute(command, clientDb[c])
      BY <2>3 DEF Call, TypeOK
    <3>2. QED
      BY <3>1, ExecuteDirty
  <2>4. ASSUME NEW d \in Dbs, Select(c, d) PROVE DirtyOnlyIfMoved'
    BY <1>0, <2>4 DEF Select
  <2>5. CASE Unwatch(c)
    <3>1. dirtyCas'[c] = FALSE /\ \A b \in Clients \ {c} : dirtyCas'[b] = dirtyCas[b]
      BY <2>5 DEF Unwatch, TypeOK
    <3>2. QED
      BY <2>5, <3>1, UnwatchDirty, Zenon DEF Unwatch
  <2>6. CASE Multi(c) \/ RejectCommand(c) \/ ExecDenied(c)
    BY <1>0, <2>6 DEF Multi, RejectCommand, ExecDenied
  <2>7. ASSUME DiscardTransaction(c), UNCHANGED expired PROVE DirtyOnlyIfMoved'
    <3>1. dirtyCas'[c] = FALSE /\ \A b \in Clients \ {c} : dirtyCas'[b] = dirtyCas[b]
      BY <2>7 DEF DiscardTransaction, TypeOK
    <3>2. QED
      BY <2>7, <3>1, UnwatchDirty, Zenon DEF DiscardTransaction
  <2>8. CASE Discard(c) \/ ResetOrFree(c) \/ ExecAbort(c) \/ ExecEnd(c)
    BY <2>7, <2>8 DEF Discard, ResetOrFree, ExecAbort, ExecEnd
  <2>9. CASE ExecBegin(c)
    <3>1. dirtyCas[c] = FALSE /\ UNCHANGED dirtyCas
      BY <2>9 DEF ExecBegin, ExecFails, TypeOK
    <3>2. QED
      BY <2>9, <3>1, UnwatchDirty, Zenon DEF ExecBegin
  <2>10. CASE ExecCommand(c)
    <3>1. queue[c] \in Seq(Commands) /\ execPos \in Nat \ {0} /\ clientDb[c] \in Dbs
      BY <2>10, ConstantsAssumption DEF ExecCommand, TypeOK
    <3>2. queue[c][execPos] \in Commands
      BY <2>10, <3>1 DEF ExecCommand
    <3>3. QED
      BY <2>10, <3>1, <3>2, ExecuteDirty DEF ExecCommand
  <2>11. QED
    BY <1>1, <2>1, <2>2, <2>3, <2>4, <2>5, <2>6, <2>8, <2>9, <2>10 DEF ClientStep
<1>2. ASSUME NEW d \in Dbs, FlushDb(d) PROVE DirtyOnlyIfMoved'
  BY <1>2, FlushDirty
<1>3. ASSUME NEW d1 \in Dbs, NEW d2 \in Dbs, SwapDb(d1, d2) PROVE DirtyOnlyIfMoved'
  BY <1>3, SwapDirty
<1>4. ASSUME NEW s \in Slots, KeyExpires(s) PROVE DirtyOnlyIfMoved'
  <2> SUFFICES ASSUME NEW c \in Clients, dirtyCas'[c] \/ IsWatchedKeyExpired(c)'
               PROVE  moved'[c]
    BY DEF DirtyOnlyIfMoved
  <2>1. UNCHANGED <<dirtyCas, watched, wkExpired>> /\ expired' = expired \cup {s}
    BY <1>4 DEF KeyExpires
  <2>2. moved[c] \/ s \in watched[c] => moved'[c]
    BY <1>4, Zenon DEF KeyExpires, RecordMoves
  <2>3. IsWatchedKeyExpired(c)' => IsWatchedKeyExpired(c) \/ s \in watched[c]
    BY <2>1 DEF IsWatchedKeyExpired
  <2>4. QED
    BY <2>1, <2>2, <2>3 DEF DirtyOnlyIfMoved
<1>5. ASSUME NEW s \in Slots, ActiveExpire(s) PROVE DirtyOnlyIfMoved'
  BY <1>5, DeleteExpiredDirty DEF ActiveExpire
<1>6. CASE UNCHANGED vars
  BY <1>0, <1>6 DEF vars
<1>7. QED
  BY <1>1, <1>2, <1>3, <1>4, <1>5, <1>6 DEF Next

\* EXEC fails because of WATCH only if a watched key really was written,
\* appeared, disappeared or expired after it was watched: whatever order
\* touchWatchedKey, touchAllWatchedKeysInDb, expiry and SWAPDB come in, keys
\* already stale when watched never fail it.
THEOREM NoSpuriousAbort == Spec => []DirtyOnlyIfMoved
<1>1. Init => DirtyOnlyIfMoved
  BY DEF Init, DirtyOnlyIfMoved, IsWatchedKeyExpired
<1>2. QED
  BY <1>1, NextDirty, TypeCorrect, PTL DEF Spec

-----------------------------------------------------------------------------
\* The optimistic lock, for commands that look a key up before they write it
\* (all of AllOps but RESTORE) and as long as no databases are swapped

LockInv == FlagMeansExpired /\ MovedIsRemembered

NoSwap == \A d1, d2 \in Dbs : ~SwapDb(d1, d2)

\* Every watcher that could lose its evidence of a change is hit.
LEMMA TouchLock ==
    ASSUME TypeOK, LockInv, NEW s, NEW present \in BOOLEAN,
           NEW hit, hit \subseteq Clients,
           MarkDirtyAndUnwatch(hit, s, present), expired' = expired \ {s},
           present => \A c \in Clients : s \notin wkExpired[c],
           \A c \in Watchers(s) \ hit : s \in expired => s \in wkExpired[c],
           \A c \in Clients : moved'[c] => moved[c] \/ c \in hit
    PROVE  LockInv'
<1>1. FlagMeansExpired'
  BY DEF LockInv, FlagMeansExpired, MarkDirtyAndUnwatch, TypeOK
<1>2. ASSUME NEW c \in Clients, moved'[c] PROVE dirtyCas'[c] \/ IsWatchedKeyExpired(c)'
  <2>1. CASE c \in hit \/ dirtyCas[c]
    BY <2>1, Zenon DEF MarkDirtyAndUnwatch
  <2>2. CASE c \notin hit /\ ~dirtyCas[c]
    <3>1. IsWatchedKeyExpired(c)
      BY <1>2, <2>2 DEF LockInv, MovedIsRemembered
    <3>2. PICK t \in watched[c] : t \in expired /\ t \notin wkExpired[c]
      BY <3>1 DEF IsWatchedKeyExpired
    <3>3. t # s
      BY <2>2, <3>2 DEF Watchers
    <3>4. t \in watched'[c] /\ t \in expired' /\ t \notin wkExpired'[c]
      BY <2>2, <3>2, <3>3 DEF MarkDirtyAndUnwatch, TypeOK
    <3>5. QED
      BY <3>4 DEF IsWatchedKeyExpired
  <2>3. QED
    BY <2>1, <2>2
<1>3. QED
  BY <1>1, <1>2 DEF LockInv, MovedIsRemembered

\* Deleting a key keeps the invariant of the lock.
LEMMA DeleteLock ==
    ASSUME TypeOK, LockInv, NEW s, DeleteKey(s),
           \A c \in Clients : moved'[c] => moved[c] \/ (c \in Watchers(s) /\ s \notin expired)
    PROVE  LockInv'
<1>1. \A c \in Watchers(s) \ Touched(s, FALSE) : s \in wkExpired[c]
  BY DEF Touched, Flagged
<1>2. s \notin expired => Watchers(s) \subseteq Touched(s, FALSE)
  BY <1>1, Zenon DEF LockInv, FlagMeansExpired, Watchers
<1>3. \A c \in Clients : moved'[c] => moved[c] \/ c \in Touched(s, FALSE)
  BY <1>2, Zenon
<1>4. QED
  BY <1>1, <1>3, TouchLock, TouchedAreClients, Zenon DEF DeleteKey, TouchWatchedKey

\* A command other than RESTORE keeps the invariant of the lock.
LEMMA ExecuteLock ==
    ASSUME TypeOK, LockInv, NEW command \in Commands, NEW d \in Dbs,
           "restore" \notin Ops, Execute(command, d)
    PROVE  LockInv'
<1> DEFINE s == <<d, command.key>>
<1>1. ASSUME NEW changed, RecordMoves(changed), changed \subseteq {s}
      PROVE  \A c \in Clients : moved'[c] => moved[c] \/ (c \in Watchers(s) /\ s \in changed)
  BY <1>1, Zenon DEF RecordMoves, Watchers
<1>2. ASSUME UNCHANGED <<keyspaceVars, watchVars, dirtyCas, queue>>,
             \A c \in Clients : moved'[c] => moved[c]
      PROVE  LockInv'
  BY <1>2 DEF keyspaceVars, watchVars, LockInv, FlagMeansExpired, MovedIsRemembered,
              IsWatchedKeyExpired
<1>3. command.op # "restore"
  BY DEF Commands
<1> HIDE DEF s
<1>4. CASE command.op = "set" /\ SetKey(s) /\ RecordMoves({s})
  <2>1. \A c \in Clients : moved'[c] => moved[c] \/ c \in Watchers(s)
    BY <1>1, <1>4
  <2>2. CASE s \in expired
    BY <1>4, <2>1, <2>2, TouchLock, TouchedAreClients, Zenon DEF SetKey
  <2>3. CASE s \notin expired
    <3>1. \A c \in Clients : s \notin wkExpired[c]
      BY <2>3 DEF LockInv, FlagMeansExpired
    <3>2. Touched(s, TRUE) = Watchers(s)
      BY <3>1 DEF Touched, Flagged, Watchers
    <3>3. QED
      BY <1>4, <2>1, <2>3, <3>1, <3>2, TouchLock, TouchedAreClients, ZenonT(40)
         DEF SetKey, TouchWatchedKey
  <2>4. QED
    BY <2>2, <2>3
<1>5. CASE /\ command.op = "del"
           /\ IF s \in keys THEN DeleteKey(s)
              ELSE UNCHANGED <<keyspaceVars, watchVars, dirtyCas, queue>>
           /\ RecordMoves({s} \cap Visible)
  <2>1. \A c \in Clients : moved'[c] => moved[c] \/ (c \in Watchers(s) /\ s \in {s} \cap Visible)
    BY <1>1, <1>5
  <2>2. CASE s \in keys
    BY <1>5, <2>1, <2>2, DeleteLock, Zenon DEF Visible
  <2>3. CASE s \notin keys
    BY <1>2, <1>5, <2>1, <2>3 DEF Visible
  <2>4. QED
    BY <2>2, <2>3
<1>6. CASE /\ command.op = "get"
           /\ IF s \in expired THEN DeleteKey(s)
              ELSE UNCHANGED <<keyspaceVars, watchVars, dirtyCas, queue>>
           /\ UNCHANGED moved
  BY <1>2, <1>6, DeleteLock
<1>7. QED
  BY <1>3, <1>4, <1>5, <1>6 DEF Execute, s

\* Unwatching keeps the invariant of the lock.
LEMMA UnwatchLock ==
    ASSUME TypeOK, LockInv, NEW c \in Clients, UnwatchAllKeys(c), UNCHANGED expired,
           \A b \in Clients \ {c} : dirtyCas'[b] = dirtyCas[b]
    PROVE  LockInv'
<1>1. \A b \in Clients \ {c} : watched'[b] = watched[b] /\ wkExpired'[b] = wkExpired[b]
                               /\ moved'[b] = moved[b]
  BY DEF UnwatchAllKeys, TypeOK
<1>2. watched'[c] = {} /\ wkExpired'[c] = {} /\ moved'[c] = FALSE
  BY DEF UnwatchAllKeys, TypeOK
<1>3. QED
  BY <1>1, <1>2 DEF LockInv, FlagMeansExpired, MovedIsRemembered, IsWatchedKeyExpired

\* FLUSHDB keeps the invariant of the lock.
LEMMA FlushLock ==
    ASSUME TypeOK, LockInv, NEW d \in Dbs, FlushDb(d)
    PROVE  LockInv'
<1>1. ASSUME NEW c \in Clients
      PROVE  /\ dirtyCas'[c] = (dirtyCas[c] \/ \E s \in watched[c] :
                                    s[1] = d /\ s \in keys /\ s \notin wkExpired[c])
             /\ watched'[c] = watched[c]
             /\ \A s \in wkExpired'[c] :
                    s \in watched[c] /\ s \in wkExpired[c] /\ (s[1] = d => s \notin keys)
             /\ \A s \in watched[c] : s \in wkExpired'[c] => s \in wkExpired[c]
  BY Zenon DEF FlushDb, TouchAllWatchedKeys, ReplacedPresent, ReplacedExpired
<1>2. \A s : s \in expired' <=> s \in expired /\ s[1] # d
  BY DEF FlushDb
<1>3. expired \subseteq keys
  BY DEF TypeOK
<1>4. FlagMeansExpired'
  BY <1>1, <1>2, <1>3 DEF LockInv, FlagMeansExpired
<1>5. ASSUME NEW c \in Clients, moved'[c] PROVE dirtyCas'[c] \/ IsWatchedKeyExpired(c)'
  <2>1. moved[c] \/ \E s \in watched[c] : s \in Visible /\ s[1] = d
    BY <1>5, Zenon DEF FlushDb, RecordMoves
  <2>2. ASSUME NEW s \in watched[c], s \in Visible, s[1] = d PROVE dirtyCas'[c]
    <3>1. s \in keys /\ s \notin wkExpired[c]
      BY <2>2 DEF Visible, LockInv, FlagMeansExpired
    <3>2. QED
      BY <1>1, <2>2, <3>1, Zenon
  <2>3. CASE moved[c] /\ ~dirtyCas[c]
    <3>1. PICK t \in watched[c] : t \in expired /\ t \notin wkExpired[c]
      BY <2>3 DEF LockInv, MovedIsRemembered, IsWatchedKeyExpired
    <3>2. CASE t[1] = d
      BY <1>1, <1>3, <3>1, <3>2, Zenon
    <3>3. CASE t[1] # d
      BY <1>1, <1>2, <3>1, <3>3 DEF IsWatchedKeyExpired
    <3>4. QED
      BY <3>2, <3>3
  <2>4. QED
    BY <1>1, <2>1, <2>2, <2>3, Zenon
<1>6. QED
  BY <1>4, <1>5 DEF LockInv, MovedIsRemembered

\* Every step but RESTORE and SWAPDB keeps the invariant of the lock.
LEMMA NextLock ==
    ASSUME "restore" \notin Ops, TypeOK, LockInv, [Next]_vars, [NoSwap]_vars
    PROVE  LockInv'
<1> USE DEF keyspaceVars, clientVars, watchVars, execVars
<1>0. ASSUME UNCHANGED <<expired, dirtyCas, watched, wkExpired, moved>> PROVE LockInv'
  BY <1>0 DEF LockInv, FlagMeansExpired, MovedIsRemembered, IsWatchedKeyExpired
<1>1. ASSUME NEW c \in Clients, ClientStep(c) PROVE LockInv'
  <2>1. ASSUME NEW k \in Keys, Watch(c, k) PROVE LockInv'
    <3> DEFINE s == <<clientDb[c], k>>
    <3>1. /\ UNCHANGED <<dirtyCas, expired, moved>>
          /\ s \notin watched[c]
          /\ \A b \in Clients \ {c} : watched'[b] = watched[b] /\ wkExpired'[b] = wkExpired[b]
          /\ watched'[c] = watched[c] \cup {s}
          /\ wkExpired'[c] = IF s \in expired THEN wkExpired[c] \cup {s} ELSE wkExpired[c]
      BY <2>1 DEF Watch, TypeOK
    <3> HIDE DEF s
    <3>2. FlagMeansExpired'
      BY <3>1 DEF LockInv, FlagMeansExpired
    <3>3. ASSUME NEW b \in Clients, IsWatchedKeyExpired(b) PROVE IsWatchedKeyExpired(b)'
      <4>1. PICK t \in watched[b] : t \in expired /\ t \notin wkExpired[b]
        BY <3>3 DEF IsWatchedKeyExpired
      <4>2. b = c => t # s
        BY <3>1, <4>1
      <4>3. t \in watched'[b] /\ t \in expired' /\ t \notin wkExpired'[b]
        BY <3>1, <4>1, <4>2
      <4>4. QED
        BY <4>3 DEF IsWatchedKeyExpired
    <3>4. QED
      BY <3>1, <3>2, <3>3 DEF LockInv, MovedIsRemembered
  <2>2. ASSUME NEW command \in Commands, QueueMultiCommand(c, command) PROVE LockInv'
    BY <1>0, <2>2 DEF QueueMultiCommand
  <2>3. ASSUME NEW command \in Commands, Call(c, command) PROVE LockInv'
    <3>1. clientDb[c] \in Dbs /\ Execute(command, clientDb[c])
      BY <2>3 DEF Call, TypeOK
    <3>2. QED
      BY <3>1, ExecuteLock
  <2>4. ASSUME NEW d \in Dbs, Select(c, d) PROVE LockInv'
    BY <1>0, <2>4 DEF Select
  <2>5. CASE Unwatch(c)
    <3>1. \A b \in Clients \ {c} : dirtyCas'[b] = dirtyCas[b]
      BY <2>5 DEF Unwatch, TypeOK
    <3>2. QED
      BY <2>5, <3>1, UnwatchLock, Zenon DEF Unwatch
  <2>6. CASE Multi(c) \/ RejectCommand(c) \/ ExecDenied(c)
    BY <1>0, <2>6 DEF Multi, RejectCommand, ExecDenied
  <2>7. ASSUME DiscardTransaction(c), UNCHANGED expired PROVE LockInv'
    <3>1. \A b \in Clients \ {c} : dirtyCas'[b] = dirtyCas[b]
      BY <2>7 DEF DiscardTransaction, TypeOK
    <3>2. QED
      BY <2>7, <3>1, UnwatchLock, Zenon DEF DiscardTransaction
  <2>8. CASE Discard(c) \/ ResetOrFree(c) \/ ExecAbort(c) \/ ExecEnd(c)
    BY <2>7, <2>8 DEF Discard, ResetOrFree, ExecAbort, ExecEnd
  <2>9. CASE ExecBegin(c)
    BY <2>9, UnwatchLock DEF ExecBegin
  <2>10. CASE ExecCommand(c)
    <3>1. queue[c] \in Seq(Commands) /\ execPos \in Nat \ {0} /\ clientDb[c] \in Dbs
      BY <2>10, ConstantsAssumption DEF ExecCommand, TypeOK
    <3>2. queue[c][execPos] \in Commands
      BY <2>10, <3>1 DEF ExecCommand
    <3>3. QED
      BY <2>10, <3>1, <3>2, ExecuteLock DEF ExecCommand
  <2>11. QED
    BY <1>1, <2>1, <2>2, <2>3, <2>4, <2>5, <2>6, <2>8, <2>9, <2>10 DEF ClientStep
<1>2. ASSUME NEW d \in Dbs, FlushDb(d) PROVE LockInv'
  BY <1>2, FlushLock
<1>3. ASSUME NEW s \in Slots, KeyExpires(s) PROVE LockInv'
  <2>1. /\ UNCHANGED <<dirtyCas, watched, wkExpired>>
        /\ expired' = expired \cup {s}
        /\ s \notin expired
        /\ \A c \in Clients : moved'[c] => moved[c] \/ s \in watched[c]
    BY <1>3, Zenon DEF KeyExpires, Visible, RecordMoves
  <2>2. QED
    BY <2>1 DEF LockInv, FlagMeansExpired, MovedIsRemembered, IsWatchedKeyExpired
<1>4. ASSUME NEW s \in Slots, ActiveExpire(s) PROVE LockInv'
  BY <1>4, DeleteLock DEF ActiveExpire
<1>5. CASE UNCHANGED vars
  BY <1>0, <1>5 DEF vars
<1>6. QED
  BY <1>1, <1>2, <1>3, <1>4, <1>5 DEF Next, NoSwap

\* A changed watched key is never forgotten: until the client unwatches or its
\* transaction ends, dirty_cas or the expired key itself says so (touchWatchedKey,
\* touchAllWatchedKeysInDb, isWatchedKeyExpired), provided that writers look the
\* key up first and databases are not swapped.
THEOREM ChangeRemembered ==
    ASSUME "restore" \notin Ops
    PROVE  Spec /\ [][NoSwap]_vars => []MovedIsRemembered
<1>1. Init => LockInv
  BY DEF Init, LockInv, FlagMeansExpired, MovedIsRemembered
<1>2. TypeOK /\ LockInv /\ [Next]_vars /\ [NoSwap]_vars => LockInv'
  BY NextLock
<1>3. LockInv => MovedIsRemembered
  BY DEF LockInv
<1>4. QED
  BY <1>1, <1>2, <1>3, TypeCorrect, PTL DEF Spec

\* The optimistic lock: under the same provisos EXEC runs its queue only if no
\* watched key changed since WATCH (execCommand).
THEOREM OptimisticLock ==
    ASSUME "restore" \notin Ops
    PROVE  Spec /\ [][NoSwap]_vars => ExecOnlyIfUntouched
<1>1. MovedIsRemembered => [\A c \in Clients : ExecBegin(c) => ~moved[c]]_vars
  BY DEF MovedIsRemembered, ExecBegin, ExecFails
<1>2. Spec /\ [][NoSwap]_vars => []MovedIsRemembered
  BY ChangeRemembered
<1>3. QED
  BY <1>1, <1>2, PTL DEF ExecOnlyIfUntouched

-----------------------------------------------------------------------------
\* The queue of a running EXEC, and the counter of watching clients

\* What touching a key does to the clients: those hit were watching, and they
\* lose their queue and their watched keys.
Hits(hit) ==
    /\ hit \subseteq {c \in Clients : watched[c] # {}}
    /\ dirtyCas' = [c \in Clients |-> dirtyCas[c] \/ c \in hit]
    /\ queue' = [c \in Clients |-> IF c \in hit THEN <<>> ELSE queue[c]]
    /\ watched' = [c \in Clients |-> IF c \in hit THEN {} ELSE watched[c]]
    /\ watchingClients' = watchingClients - Cardinality(hit)

\* Touching one key hits the watchers it marks.
LEMMA TouchHits ==
    ASSUME NEW s, NEW present, NEW hit, hit \subseteq Watchers(s), MarkDirtyAndUnwatch(hit, s, present)
    PROVE  Hits(hit)
BY DEF MarkDirtyAndUnwatch, Hits, Watchers

\* A step that leaves the clients alone hits nobody.
LEMMA NothingHit ==
    ASSUME TypeOK, UNCHANGED <<watched, watchingClients, dirtyCas, queue>>
    PROVE  Hits({})
<1>1. Cardinality({}) = 0
  BY FS_EmptySet
<1>2. QED
  BY <1>1 DEF Hits, TypeOK

\* Deleting a key hits its unflagged watchers.
LEMMA DeleteHits ==
    ASSUME NEW s, DeleteKey(s)
    PROVE  \E hit : Hits(hit)
<1>1. Touched(s, FALSE) \subseteq Watchers(s)
  BY DEF Touched
<1>2. MarkDirtyAndUnwatch(Touched(s, FALSE), s, FALSE)
  BY Zenon DEF DeleteKey, TouchWatchedKey
<1>3. Hits(Touched(s, FALSE))
  BY <1>1, <1>2, TouchHits, Zenon
<1>4. QED
  BY <1>3, Zenon

\* Whatever a command does to the clients is a set of hits.
LEMMA ExecuteHits ==
    ASSUME TypeOK, NEW command \in Commands, NEW d \in Dbs, Execute(command, d)
    PROVE  \E hit : Hits(hit)
<1> DEFINE s == <<d, command.key>>
<1>1. Touched(s, TRUE) \subseteq Watchers(s)
  BY DEF Touched
<1>2. CASE SetKey(s)
  <2>1. \/ MarkDirtyAndUnwatch(Watchers(s), s, FALSE)
        \/ MarkDirtyAndUnwatch(Touched(s, TRUE), s, TRUE)
    BY <1>2, Zenon DEF SetKey, TouchWatchedKey
  <2>2. Hits(Watchers(s)) \/ Hits(Touched(s, TRUE))
    BY <1>1, <2>1, TouchHits, Zenon
  <2>3. QED
    BY <2>2, Zenon
<1>3. CASE RestoreKey(s)
  <2>1. MarkDirtyAndUnwatch(Touched(s, TRUE), s, TRUE)
    BY <1>3, Zenon DEF RestoreKey, TouchWatchedKey
  <2>2. Hits(Touched(s, TRUE))
    BY <1>1, <2>1, TouchHits, Zenon
  <2>3. QED
    BY <2>2, Zenon
<1>4. CASE DeleteKey(s)
  BY <1>4, DeleteHits
<1>5. CASE UNCHANGED <<keyspaceVars, watchVars, dirtyCas, queue>>
  BY <1>5, NothingHit DEF watchVars
<1>6. QED
  BY <1>2, <1>3, <1>4, <1>5 DEF Execute

\* A running EXEC has unwatched its keys.
ExecUnwatched == \A c \in Clients : inExec = c => watched[c] = {}

ClientInv == DoomedHoldsNoQueue /\ WatchingCountExact /\ ExecUnwatched

\* A hit keeps the counter exact and spares the client whose EXEC is running.
LEMMA HitsInv ==
    ASSUME TypeOK, ClientInv, NEW hit, Hits(hit), UNCHANGED <<dirtyExec, inExec>>
    PROVE  ClientInv' /\ \A c \in Clients : inExec = c => queue'[c] = queue[c]
<1> DEFINE W == {c \in Clients : watched[c] # {}}
<1>1. DoomedHoldsNoQueue'
  <2>1. ASSUME NEW c \in Clients, dirtyCas'[c] \/ dirtyExec'[c] PROVE queue'[c] = <<>>
    <3>1. CASE c \in hit
      BY <3>1 DEF Hits
    <3>2. CASE c \notin hit
      <4>1. dirtyCas[c] \/ dirtyExec[c]
        BY <2>1, <3>2, Zenon DEF Hits
      <4>2. QED
        BY <3>2, <4>1 DEF ClientInv, DoomedHoldsNoQueue, Hits
    <3>3. QED
      BY <3>1, <3>2
  <2>2. QED
    BY <2>1 DEF DoomedHoldsNoQueue
<1>2. WatchingCountExact'
  <2>1. {c \in Clients : watched'[c] # {}} = W \ hit
    BY DEF Hits
  <2>2. IsFiniteSet(W) /\ hit \subseteq W /\ W \cap hit = hit
    BY ConstantsAssumption, FS_Subset DEF Hits
  <2>3. watchingClients = Cardinality(W) /\ watchingClients' = watchingClients - Cardinality(hit)
    BY DEF ClientInv, WatchingCountExact, Hits
  <2>4. WatchingCountExact' = (watchingClients' = Cardinality({c \in Clients : watched'[c] # {}}))
    BY DEF WatchingCountExact
  <2> HIDE DEF W
  <2>5. Cardinality(W \ hit) = Cardinality(W) - Cardinality(W \cap hit)
    BY <2>2, FS_Difference
  <2>6. QED
    BY <2>1, <2>2, <2>3, <2>4, <2>5, ZenonT(40)
<1>3. \A c \in Clients : inExec = c => c \notin hit
  BY DEF ClientInv, ExecUnwatched, Hits
<1>4. QED
  BY <1>1, <1>2, <1>3 DEF ClientInv, ExecUnwatched, Hits

\* Unwatching keeps the counter exact.
LEMMA UnwatchInv ==
    ASSUME TypeOK, ClientInv, NEW c \in Clients, UnwatchAllKeys(c)
    PROVE  WatchingCountExact' /\ watched'[c] = {} /\ \A b \in Clients \ {c} : watched'[b] = watched[b]
<1> DEFINE W == {b \in Clients : watched[b] # {}}
<1>1. watched'[c] = {} /\ \A b \in Clients \ {c} : watched'[b] = watched[b]
  BY DEF UnwatchAllKeys, TypeOK
<1>2. {b \in Clients : watched'[b] # {}} = W \ {c}
  BY <1>1
<1>3. IsFiniteSet(W)
  BY ConstantsAssumption, FS_Subset
<1>4. Cardinality(W \ {c}) = IF c \in W THEN Cardinality(W) - 1 ELSE Cardinality(W)
  BY <1>3, FS_RemoveElement
<1>5. watchingClients' = IF c \in W THEN watchingClients - 1 ELSE watchingClients
  BY DEF UnwatchAllKeys
<1>6. QED
  BY <1>1, <1>2, <1>4, <1>5, Zenon DEF ClientInv, WatchingCountExact

\* Discarding a transaction keeps the invariant.
LEMMA DiscardInv ==
    ASSUME TypeOK, ClientInv, NEW c \in Clients, DiscardTransaction(c), inExec' \in {inExec, None}
    PROVE  ClientInv'
<1>1. WatchingCountExact' /\ watched'[c] = {} /\ \A b \in Clients \ {c} : watched'[b] = watched[b]
  BY UnwatchInv DEF DiscardTransaction
<1>2. DoomedHoldsNoQueue'
  BY DEF ClientInv, DoomedHoldsNoQueue, DiscardTransaction, TypeOK
<1>3. ExecUnwatched'
  BY <1>1, ConstantsAssumption DEF ClientInv, ExecUnwatched
<1>4. QED
  BY <1>1, <1>2, <1>3 DEF ClientInv

\* FLUSHDB and SWAPDB empty the queues of those they make dirty, and unwatch nobody.
LEMMA TouchAllInv ==
    ASSUME TypeOK, ClientInv, NEW source, TouchAllWatchedKeys(source), UNCHANGED <<dirtyExec, inExec>>, Idle
    PROVE  ClientInv'
<1> DEFINE affected(s) == s[1] \in DOMAIN source /\ (s \in keys \/ ReplacedPresent(s, source))
           stale(c, s) ==
               IF s \in wkExpired[c]
               THEN ~ReplacedPresent(s, source) \/ ReplacedExpired(s, source)
               ELSE s \notin keys /\ ReplacedExpired(s, source)
           dirty(c) == \E s \in watched[c] : affected(s) /\ ~stale(c, s)
<1>1. ASSUME NEW c \in Clients
      PROVE  /\ dirtyCas'[c] => dirtyCas[c] \/ queue'[c] = <<>>
             /\ queue'[c] = <<>> \/ queue'[c] = queue[c]
  <2>1. dirtyCas'[c] = (dirtyCas[c] \/ dirty(c)) /\ queue'[c] = IF dirty(c) THEN <<>> ELSE queue[c]
    BY Zenon DEF TouchAllWatchedKeys
  <2> HIDE DEF dirty
  <2>2. CASE dirty(c)
    BY <2>1, <2>2
  <2>3. CASE ~dirty(c)
    BY <2>1, <2>3, Zenon
  <2>4. QED
    BY <2>2, <2>3
<1>2. UNCHANGED <<watched, watchingClients>>
  BY DEF TouchAllWatchedKeys
<1>3. QED
  BY <1>1, <1>2, Zenon DEF ClientInv, DoomedHoldsNoQueue, WatchingCountExact, ExecUnwatched

\* What ExecQueueStable says of a step.
QueueStable == \A c \in Clients : inExec = c /\ inExec' = c => queue'[c] = queue[c]

\* Every step keeps the invariant and the queue of a running EXEC.
LEMMA NextClient ==
    ASSUME TypeOK, ClientInv, [Next]_vars
    PROVE  ClientInv' /\ QueueStable
<1> USE DEF keyspaceVars, clientVars, watchVars, execVars
<1>0. ASSUME UNCHANGED <<dirtyCas, dirtyExec, queue, watched, watchingClients, inExec>>
      PROVE  ClientInv' /\ QueueStable
  BY <1>0 DEF ClientInv, DoomedHoldsNoQueue, WatchingCountExact, ExecUnwatched, QueueStable
<1>1. Idle => QueueStable
  BY ConstantsAssumption DEF Idle, QueueStable
<1>2. ASSUME NEW c \in Clients, ClientStep(c) PROVE ClientInv' /\ QueueStable
  <2>1. ASSUME NEW k \in Keys, Watch(c, k) PROVE ClientInv' /\ QueueStable
    <3> DEFINE W == {b \in Clients : watched[b] # {}}
    <3>1. watched'[c] # {} /\ \A b \in Clients \ {c} : watched'[b] = watched[b]
      BY <2>1 DEF Watch, TypeOK
    <3>2. {b \in Clients : watched'[b] # {}} = W \cup {c}
      BY <3>1
    <3>3. IsFiniteSet(W)
      BY ConstantsAssumption, FS_Subset
    <3>4. Cardinality(W \cup {c}) = IF c \in W THEN Cardinality(W) ELSE Cardinality(W) + 1
      BY <3>3, FS_AddElement
    <3>5. watchingClients' = IF c \in W THEN watchingClients ELSE watchingClients + 1
      BY <2>1 DEF Watch
    <3>6. WatchingCountExact'
      <4>1. watchingClients = Cardinality(W)
        BY DEF ClientInv, WatchingCountExact
      <4>2. WatchingCountExact' = (watchingClients' = Cardinality({b \in Clients : watched'[b] # {}}))
        BY DEF WatchingCountExact
      <4> HIDE DEF W
      <4>3. QED
        BY <3>2, <3>4, <3>5, <4>1, <4>2, Zenon
    <3>7. QED
      BY <1>1, <2>1, <3>6, ConstantsAssumption, ZenonT(40) DEF Watch, ClientInv, DoomedHoldsNoQueue, ExecUnwatched, Idle
  <2>2. ASSUME NEW command \in Commands, QueueMultiCommand(c, command) PROVE ClientInv' /\ QueueStable
    <3>1. DoomedHoldsNoQueue'
      BY <2>2 DEF QueueMultiCommand, ClientInv, DoomedHoldsNoQueue, TypeOK
    <3>2. QED
      BY <1>1, <2>2, <3>1 DEF QueueMultiCommand, ClientInv, WatchingCountExact, ExecUnwatched
  <2>3. ASSUME NEW command \in Commands, Call(c, command) PROVE ClientInv' /\ QueueStable
    <3>1. clientDb[c] \in Dbs /\ Execute(command, clientDb[c]) /\ UNCHANGED <<dirtyExec, inExec>> /\ Idle
      BY <2>3 DEF Call, TypeOK
    <3>2. QED
      BY <1>1, <3>1, ExecuteHits, HitsInv
  <2>4. ASSUME NEW d \in Dbs, Select(c, d) PROVE ClientInv' /\ QueueStable
    BY <1>0, <2>4 DEF Select
  <2>5. CASE Unwatch(c)
    <3>1. WatchingCountExact' /\ DoomedHoldsNoQueue'
      BY <2>5, UnwatchInv DEF Unwatch, ClientInv, DoomedHoldsNoQueue, TypeOK
    <3>2. QED
      BY <1>1, <2>5, <3>1, ConstantsAssumption, ZenonT(40) DEF Unwatch, ClientInv, ExecUnwatched, Idle
  <2>6. CASE Multi(c) \/ ExecDenied(c)
    BY <1>0, <2>6 DEF Multi, ExecDenied
  <2>7. CASE RejectCommand(c)
    <3>1. DoomedHoldsNoQueue'
      BY <2>7 DEF RejectCommand, FlagTransaction, ClientInv, DoomedHoldsNoQueue, TypeOK
    <3>2. QED
      BY <1>1, <2>7, <3>1 DEF RejectCommand, ClientInv, WatchingCountExact, ExecUnwatched
  <2>8. CASE Discard(c) \/ ResetOrFree(c) \/ ExecAbort(c)
    BY <1>1, <2>8, DiscardInv DEF Discard, ResetOrFree, ExecAbort
  <2>9. CASE ExecEnd(c)
    BY <2>9, DiscardInv, ConstantsAssumption DEF ExecEnd, QueueStable
  <2>10. CASE ExecBegin(c)
    <3>1. WatchingCountExact' /\ watched'[c] = {}
      BY <2>10, UnwatchInv, Zenon DEF ExecBegin
    <3>2. QED
      BY <1>1, <2>10, <3>1, ZenonT(40) DEF ExecBegin, ClientInv, DoomedHoldsNoQueue, ExecUnwatched
  <2>11. CASE ExecCommand(c)
    <3>1. queue[c] \in Seq(Commands) /\ execPos \in Nat \ {0} /\ clientDb[c] \in Dbs
      BY <2>11, ConstantsAssumption DEF ExecCommand, TypeOK
    <3>2. queue[c][execPos] \in Commands
      BY <2>11, <3>1 DEF ExecCommand
    <3>3. Execute(queue[c][execPos], clientDb[c]) /\ UNCHANGED <<dirtyExec, inExec>>
      BY <2>11 DEF ExecCommand
    <3>4. QED
      BY <3>1, <3>2, <3>3, ExecuteHits, HitsInv, ZenonT(40) DEF QueueStable
  <2>12. QED
    BY <1>2, <2>1, <2>2, <2>3, <2>4, <2>5, <2>6, <2>7, <2>8, <2>9, <2>10, <2>11 DEF ClientStep
<1>3. ASSUME NEW d \in Dbs, FlushDb(d) PROVE ClientInv' /\ QueueStable
  BY <1>1, <1>3, TouchAllInv DEF FlushDb
<1>4. ASSUME NEW d1 \in Dbs, NEW d2 \in Dbs, SwapDb(d1, d2) PROVE ClientInv' /\ QueueStable
  BY <1>1, <1>4, TouchAllInv DEF SwapDb
<1>5. ASSUME NEW s \in Slots, KeyExpires(s) PROVE ClientInv' /\ QueueStable
  BY <1>0, <1>5 DEF KeyExpires
<1>6. ASSUME NEW s \in Slots, ActiveExpire(s) PROVE ClientInv' /\ QueueStable
  BY <1>1, <1>6, DeleteHits, HitsInv DEF ActiveExpire
<1>7. CASE UNCHANGED vars
  BY <1>0, <1>7 DEF vars
<1>8. QED
  BY <1>2, <1>3, <1>4, <1>5, <1>6, <1>7 DEF Next

\* No client watches or queues anything at first.
LEMMA InitClient == Init => ClientInv
<1>1. ASSUME Init PROVE {c \in Clients : watched[c] # {}} = {}
  BY <1>1 DEF Init
<1>2. Init => WatchingCountExact
  BY <1>1, FS_EmptySet, Zenon DEF Init, WatchingCountExact
<1>3. Init => DoomedHoldsNoQueue /\ ExecUnwatched
  BY DEF Init, DoomedHoldsNoQueue, ExecUnwatched
<1>4. QED
  BY <1>2, <1>3 DEF ClientInv

\* A doomed transaction never holds commands (queueMultiCommand, flagTransaction,
\* touchWatchedKey), and server.watching_clients is exact (watchForKey,
\* unwatchAllKeys), for any number of clients.
THEOREM ClientsConsistent == Spec => [](DoomedHoldsNoQueue /\ WatchingCountExact)
<1>1. TypeOK /\ ClientInv /\ [Next]_vars => ClientInv'
  BY NextClient
<1>2. ClientInv => DoomedHoldsNoQueue /\ WatchingCountExact
  BY DEF ClientInv
<1>3. QED
  BY <1>1, <1>2, InitClient, TypeCorrect, PTL DEF Spec

\* A transaction that is already doomed goes on accumulating nothing: its queue
\* is empty (flagTransaction, queueMultiCommand), for any number of clients.
THEOREM DoomedAlwaysEmpty == Spec => []DoomedHoldsNoQueue
  BY ClientsConsistent, PTL

\* The commands of a running EXEC are never freed under the loop of execCommand:
\* it has unwatched its keys, so no key its commands touch makes it dirty.
THEOREM RunningQueueStable == Spec => ExecQueueStable
<1>1. TypeOK /\ ClientInv /\ [Next]_vars => ClientInv'
  BY NextClient
<1>2. TypeOK /\ ClientInv /\ [Next]_vars => [QueueStable]_vars
  BY NextClient
<1>3. QED
  BY <1>1, <1>2, InitClient, TypeCorrect, PTL DEF Spec, ExecQueueStable, QueueStable

-----------------------------------------------------------------------------
\* The lists of watchers

\* The clients of R leave every list they are in.
Leave(R) ==
    /\ watched' = [c \in Clients |-> IF c \in R THEN {} ELSE watched[c]]
    /\ ahead' = {p \in ahead : p[2] \notin R /\ p[3] \notin R}

\* The order among those who stay is the old one.
LEMMA LeaveLists ==
    ASSUME TypeOK, ListsWellFormed, NEW R, Leave(R)
    PROVE  ListsWellFormed'
<1>1. ASSUME NEW p \in ahead' PROVE p[1] \in watched'[p[2]] /\ p[1] \in watched'[p[3]]
  <2>1. p \in ahead /\ p[2] \in Clients \ R /\ p[3] \in Clients \ R
    BY DEF Leave, TypeOK
  <2>2. QED
    BY <2>1 DEF Leave, ListsWellFormed
<1>2. ASSUME NEW s \in Slots, NEW a \in Clients, NEW b \in Clients,
             s \in watched'[a], s \in watched'[b], a # b
      PROVE  <<s, a, b>> \in ahead' <=> <<s, b, a>> \notin ahead'
  <2>1. a \notin R /\ b \notin R /\ a \in Watchers(s) /\ b \in Watchers(s)
    BY <1>2 DEF Leave, Watchers
  <2>2. <<s, a, b>> \in ahead <=> <<s, b, a>> \notin ahead
    BY <1>2, <2>1 DEF ListsWellFormed
  <2>3. /\ <<s, a, b>> \in ahead' <=> <<s, a, b>> \in ahead
        /\ <<s, b, a>> \in ahead' <=> <<s, b, a>> \in ahead
    BY <2>1 DEF Leave
  <2>4. QED
    BY <2>2, <2>3
<1>3. QED
  BY <1>1, <1>2 DEF ListsWellFormed, Watchers

\* A new watcher goes to the end of the key's list.
LEMMA WatchLists ==
    ASSUME TypeOK, ListsWellFormed, NEW c \in Clients, NEW k \in Keys, Watch(c, k)
    PROVE  ListsWellFormed'
<1> DEFINE t == <<clientDb[c], k>>
<1>1. /\ t \in Slots /\ t \notin watched[c]
      /\ watched' = [watched EXCEPT ![c] = @ \cup {t}]
      /\ ahead' = ahead \cup {<<t, a, c>> : a \in Watchers(t)}
  BY ZenonT(40) DEF Watch, TypeOK, Slots
<1> HIDE DEF t
<1>2. \A b \in Clients : watched'[b] = IF b = c THEN watched[b] \cup {t} ELSE watched[b]
  BY <1>1, Zenon DEF TypeOK
<1>3. ASSUME NEW p \in ahead' PROVE p[1] \in watched'[p[2]] /\ p[1] \in watched'[p[3]]
  <2>1. CASE p \in ahead
    <3>1. p[2] \in Clients /\ p[3] \in Clients
      BY <2>1 DEF TypeOK
    <3>2. QED
      BY <1>2, <2>1, <3>1, Zenon DEF ListsWellFormed
  <2>2. CASE p \notin ahead
    <3>1. PICK a \in Watchers(t) : p = <<t, a, c>>
      BY <1>1, <2>2
    <3>2. QED
      BY <1>2, <3>1, ZenonT(40) DEF Watchers
  <2>3. QED
    BY <2>1, <2>2
<1>4. ASSUME NEW s \in Slots, NEW a \in Clients, NEW b \in Clients,
             s \in watched'[a], s \in watched'[b], a # b
      PROVE  <<s, a, b>> \in ahead' <=> <<s, b, a>> \notin ahead'
  <2>1. \A x, y \in Clients : <<s, x, y>> \in ahead' <=>
            \/ <<s, x, y>> \in ahead
            \/ s = t /\ y = c /\ x \in Watchers(t)
    BY <1>1
  <2>2. c \notin Watchers(t) /\ \A x \in Clients : <<t, c, x>> \notin ahead /\ <<t, x, c>> \notin ahead
    BY <1>1 DEF Watchers, ListsWellFormed
  <2>3. CASE s = t /\ (a = c \/ b = c)
    <3>1. a # c => a \in Watchers(t)
      BY <1>2, <1>4, <2>3, Zenon DEF Watchers
    <3>2. b # c => b \in Watchers(t)
      BY <1>2, <1>4, <2>3, Zenon DEF Watchers
    <3>3. CASE a = c
      <4>1. <<s, a, b>> \notin ahead'
        BY <1>4, <2>1, <2>2, <2>3, <3>3, Zenon
      <4>2. <<s, b, a>> \in ahead'
        BY <1>4, <2>1, <2>3, <3>2, <3>3
      <4>3. QED
        BY <4>1, <4>2
    <3>4. CASE b = c
      <4>1. <<s, b, a>> \notin ahead'
        BY <1>4, <2>1, <2>2, <2>3, <3>4, Zenon
      <4>2. <<s, a, b>> \in ahead'
        BY <1>4, <2>1, <2>3, <3>1, <3>4
      <4>3. QED
        BY <4>1, <4>2
    <3>5. QED
      BY <2>3, <3>3, <3>4
  <2>4. CASE ~(s = t /\ (a = c \/ b = c))
    <3>1. a \in Watchers(s) /\ b \in Watchers(s)
      <4>1. s = t => a # c /\ b # c
        BY <2>4
      <4>2. \A x \in Clients : s \in watched'[x] /\ (s = t => x # c) => s \in watched[x]
        BY <1>2, ZenonT(40)
      <4>3. QED
        BY <1>4, <4>1, <4>2 DEF Watchers
    <3>2. <<s, a, b>> \in ahead <=> <<s, b, a>> \notin ahead
      BY <1>4, <3>1 DEF ListsWellFormed
    <3>3. QED
      BY <2>1, <2>4, <3>2
  <2>5. QED
    BY <2>3, <2>4
<1>5. QED
  BY <1>3, <1>4 DEF ListsWellFormed, Watchers

\* Commands make the clients they hit leave, and nobody else.
LEMMA ExecuteLeave ==
    ASSUME TypeOK, NEW command, NEW d, Execute(command, d)
    PROVE  \E R : Leave(R)
<1>1. ASSUME NEW hit, NEW s, NEW present, MarkDirtyAndUnwatch(hit, s, present)
      PROVE  Leave(hit)
  BY <1>1, Zenon DEF MarkDirtyAndUnwatch, Leave
<1>2. CASE UNCHANGED watchVars
  <2>1. Leave({})
    BY <1>2 DEF watchVars, Leave, TypeOK
  <2>2. QED
    BY <2>1
<1>3. \/ UNCHANGED watchVars
      \/ \E hit, s, present : MarkDirtyAndUnwatch(hit, s, present)
  BY Zenon DEF Execute, SetKey, RestoreKey, DeleteKey, TouchWatchedKey
<1>4. QED
  BY <1>1, <1>2, <1>3

\* Every step keeps the lists.
LEMMA NextLists ==
    ASSUME TypeOK, ListsWellFormed, [Next]_vars
    PROVE  ListsWellFormed'
<1> USE DEF watchVars
<1>1. CASE UNCHANGED <<watched, ahead>>
  BY <1>1 DEF ListsWellFormed, Watchers
<1>2. ASSUME NEW c \in Clients, UnwatchAllKeys(c) PROVE ListsWellFormed'
  <2>1. Leave({c})
    BY <1>2, Zenon DEF UnwatchAllKeys, Leave, TypeOK
  <2>2. QED
    BY <2>1, LeaveLists
<1>3. ASSUME NEW command, NEW d, Execute(command, d) PROVE ListsWellFormed'
  BY <1>3, ExecuteLeave, LeaveLists
<1>4. ASSUME NEW c \in Clients, ClientStep(c) PROVE ListsWellFormed'
  <2>1. ASSUME NEW k \in Keys, Watch(c, k) PROVE ListsWellFormed'
    BY <2>1, WatchLists
  <2>2. ASSUME NEW command \in Commands, QueueMultiCommand(c, command) PROVE ListsWellFormed'
    BY <1>1, <2>2, Zenon DEF QueueMultiCommand
  <2>3. ASSUME NEW command \in Commands, Call(c, command) PROVE ListsWellFormed'
    BY <1>3, <2>3 DEF Call
  <2>4. ASSUME NEW d \in Dbs, Select(c, d) PROVE ListsWellFormed'
    BY <1>1, <2>4 DEF Select
  <2>5. CASE Multi(c) \/ RejectCommand(c) \/ ExecDenied(c)
    BY <1>1, <2>5 DEF Multi, RejectCommand, ExecDenied
  <2>6. CASE Unwatch(c) \/ Discard(c) \/ ResetOrFree(c) \/ ExecAbort(c) \/ ExecBegin(c) \/ ExecEnd(c)
    BY <1>2, <2>6
    DEF Unwatch, Discard, ResetOrFree, ExecAbort, ExecBegin, ExecEnd, DiscardTransaction
  <2>7. CASE ExecCommand(c)
    BY <1>3, <2>7 DEF ExecCommand
  <2>8. QED
    BY <1>4, <2>1, <2>2, <2>3, <2>4, <2>5, <2>6, <2>7 DEF ClientStep
<1>5. ASSUME NEW source, TouchAllWatchedKeys(source) PROVE ListsWellFormed'
  <2>1. UNCHANGED <<watched, ahead>>
    BY <1>5, Zenon DEF TouchAllWatchedKeys
  <2>2. QED
    BY <1>1, <2>1
<1>6. ASSUME NEW d \in Dbs, FlushDb(d) PROVE ListsWellFormed'
  BY <1>5, <1>6 DEF FlushDb
<1>7. ASSUME NEW d1 \in Dbs, NEW d2 \in Dbs, SwapDb(d1, d2) PROVE ListsWellFormed'
  BY <1>5, <1>7 DEF SwapDb
<1>8. ASSUME NEW s \in Slots, KeyExpires(s) PROVE ListsWellFormed'
  BY <1>1, <1>8 DEF KeyExpires
<1>9. ASSUME NEW s \in Slots, ActiveExpire(s) PROVE ListsWellFormed'
  <2>1. Leave(Touched(s, FALSE))
    BY <1>9, Zenon DEF ActiveExpire, DeleteKey, TouchWatchedKey, MarkDirtyAndUnwatch, Leave
  <2>2. QED
    BY <2>1, LeaveLists, Zenon
<1>10. CASE UNCHANGED vars
  BY <1>1, <1>10 DEF vars
<1>11. QED
  BY <1>4, <1>6, <1>7, <1>8, <1>9, <1>10 DEF Next

\* The list of a key holds exactly the clients that watch it, each once and in
\* one order, however keys are touched and clients come and go: no node is left
\* behind by unwatchAllKeys.
THEOREM ListsAlwaysWellFormed == Spec => []ListsWellFormed
<1>1. Init => ListsWellFormed
  BY DEF Init, ListsWellFormed, Watchers
<1>2. TypeOK /\ ListsWellFormed /\ [Next]_vars => ListsWellFormed'
  BY NextLists
<1>3. QED
  BY <1>1, <1>2, TypeCorrect, PTL DEF Spec
=============================================================================
