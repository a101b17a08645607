----------------------- MODULE ClusterFailoverProofs -----------------------
(***************************************************************************)
(* Proofs about ClusterFailover for any nodes, slots and scenarios.        *)
(***************************************************************************)
EXTENDS ClusterFailover, FiniteSetTheorems, WellFoundedInduction, TLAPS

-----------------------------------------------------------------------------
(* Maxima *)

\* A finite set of epochs has a greatest one: of the sets of epochs above one
\* of them, some is smallest, and it is empty.
LEMMA MaxExists ==
    ASSUME NEW T, T \subseteq Nat, T # {}, IsFiniteSet(T)
    PROVE  Max(T) \in T /\ \A y \in T : y <= Max(T)
<1> DEFINE Above(x) == {y \in T : y > x}
           U == {Above(x) : x \in T}
<1>1. U \subseteq FiniteSubsetsOf(T) /\ U # {}
  <2>1. \A x \in T : Above(x) \in SUBSET T
    OBVIOUS
  <2>2. \A x \in T : IsFiniteSet(Above(x))
    BY <2>1, FS_Subset
  <2>3. QED
    BY <2>1, <2>2, Zenon DEF FiniteSubsetsOf
<1>2. PICK A \in U : \A B \in U : ~(<<B, A>> \in StrictSubsetOrdering(T))
  BY <1>1, FS_StrictSubsetOrderingWellFounded, WFMin, Zenon
<1>3. PICK x \in T : A = Above(x)
  OBVIOUS
<1>4. \A y \in T : y <= x
  <2>1. SUFFICES ASSUME NEW y \in T, y > x PROVE FALSE
    OBVIOUS
  <2>2. Above(y) \subseteq Above(x) /\ y \in Above(x) /\ y \notin Above(y)
    <3>1. x \in Nat /\ y \in Nat /\ \A z \in T : z \in Nat
      OBVIOUS
    <3>2. \A z \in T : z > y => z > x
      BY <2>1, <3>1
    <3>3. ~(y > y)
      BY <3>1
    <3>4. QED
      BY <2>1, <3>2, <3>3, Zenon
  <2>3. <<Above(y), A>> \in StrictSubsetOrdering(T)
    BY <1>3, <2>2 DEF StrictSubsetOrdering
  <2>4. QED
    BY <1>2, <2>3, Zenon
<1>5. QED
  BY <1>4, Zenon DEF Max

\* The maximum of two numbers is a number and bounds both.
LEMMA MaxOfTwo ==
    ASSUME NEW a \in Nat, NEW b \in Nat
    PROVE  Max({a, b}) \in Nat /\ Max({a, b}) >= a /\ Max({a, b}) >= b
<1>1. \E x \in {a, b} : \A y \in {a, b} : x >= y
  OBVIOUS
<1>2. QED
  BY <1>1 DEF Max

-----------------------------------------------------------------------------
(* What a node knows *)

\* The type of node[i].
Knowledge ==
    [currentEpoch : Nat, lastVoteEpoch : Nat,
     configEpoch : [Nodes -> Nat],
     replicaof : [Nodes -> Nodes \cup {None}],
     slots : [Slots -> Nodes],
     auth : [on : BOOLEAN, sent : BOOLEAN, epoch : Nat, count : Nat],
     mf_can_start : BOOLEAN]

\* Node i holds c: a node of its type that does not follow itself, and serves no
\* slots as a replica.
Sound(c, i) ==
    /\ c \in Knowledge
    /\ c.replicaof[i] # i
    /\ c.replicaof[i] # None => \A s \in Slots : c.slots[s] # i

\* What node i may make of c, short of voting.
Step(c, d, i) ==
    /\ Sound(d, i)
    /\ d.lastVoteEpoch = c.lastVoteEpoch
    /\ d.currentEpoch >= c.currentEpoch

Header ==
    [from : Nodes, currentEpoch : Nat, configEpoch : Nat,
     replicaof : Nodes \cup {None}, myslots : SUBSET Slots]

\* Node ids are numbers, and NULL is none of them.
LEMMA NodesAreNumbers == Nodes \subseteq Nat /\ None \notin Nodes /\ None \in Nat
BY ConstantsAssumption DEF None

\* The header a node builds has its type.
LEMMA HeaderType ==
    ASSUME NEW i \in Nodes, NEW c, Sound(c, i)
    PROVE  ClusterBuildMessageHdr(c, i) \in Header /\ ClusterBuildMessageHdr(c, i).from = i
BY DEF Sound, Knowledge, Header, ClusterBuildMessageHdr, PrimaryOf, IsReplica, SlotsOf

\* Taking over the epochs of a header keeps what a node knows sound.
LEMMA HeaderStep ==
    ASSUME NEW i \in Nodes, NEW c, Sound(c, i), NEW m \in Header
    PROVE  Step(c, ProcessHeader(c, m), i)
<1> DEFINE newer == m.replicaof = None /\ m.configEpoch > c.configEpoch[m.from]
           lost == newer /\ c.auth.sent /\ m.configEpoch >= c.auth.epoch
           d == ProcessHeader(c, m)
<1>1. Max({c.currentEpoch, m.currentEpoch}) \in Nat
      /\ Max({c.currentEpoch, m.currentEpoch}) >= c.currentEpoch
  BY MaxOfTwo DEF Sound, Knowledge, Header
<1>2. d = [c EXCEPT !.currentEpoch = Max({@, m.currentEpoch}),
                  !.configEpoch[m.from] = IF newer THEN m.configEpoch ELSE @,
                  !.auth.on = @ /\ ~lost]
  BY DEF ProcessHeader
<1> HIDE DEF newer, lost, d
<1>3. (c.auth.on /\ ~lost) \in BOOLEAN
  OBVIOUS
<1>4. d \in Knowledge
  BY <1>1, <1>2, <1>3, Zenon DEF Sound, Knowledge, Header
<1>5. QED
  BY <1>1, <1>2, <1>4 DEF Sound, Knowledge, Step, d

\* Following another primary keeps it sound.
LEMMA SetPrimaryStep ==
    ASSUME NEW i \in Nodes, NEW c, c \in Knowledge, NEW n \in Nodes, n # i,
           \A s \in Slots : c.slots[s] # i
    PROVE  Step(c, ClusterSetPrimary(c, i, n), i)
<1> DEFINE r == [c.replicaof EXCEPT ![i] = n]
           a == [c.auth EXCEPT !.on = FALSE]
           d == ClusterSetPrimary(c, i, n)
<1>1. d = [c EXCEPT !.replicaof = r, !.mf_can_start = FALSE, !.auth = a]
  BY DEF ClusterSetPrimary, Knowledge
<1>2. r \in [Nodes -> Nodes \cup {None}] /\ r[i] = n
  BY DEF Knowledge
<1>3. a \in [on : BOOLEAN, sent : BOOLEAN, epoch : Nat, count : Nat]
  BY Zenon DEF Knowledge
<1> HIDE DEF r, a, d
<1>4. d \in Knowledge
  BY <1>1, <1>2, <1>3, Zenon DEF Knowledge
<1>5. QED
  BY <1>1, <1>2, <1>4 DEF Sound, Knowledge, Step, d

\* Taking over the slots of a newer owner keeps it sound.
LEMMA UpdateSlotsStep ==
    ASSUME NEW i \in Nodes, NEW c, Sound(c, i), NEW sender \in Nodes, NEW epoch \in Nat,
           NEW claimed \in SUBSET Slots
    PROVE  Step(c, ClusterUpdateSlotsConfigWith(c, i, sender, epoch, claimed), i)
<1> DEFINE cur == PrimaryOf(c, i)
           moved == {s \in claimed : Rebinds(c, sender, epoch, s)}
           d == [c EXCEPT !.slots = [s \in Slots |-> IF s \in moved THEN sender ELSE @[s]]]
<1>1. CASE sender = i
  BY <1>1 DEF ClusterUpdateSlotsConfigWith, Step, Sound, Knowledge
<1>2. CASE sender # i
  <2>1. d.slots = [s \in Slots |-> IF s \in moved THEN sender ELSE c.slots[s]]
        /\ d.replicaof = c.replicaof /\ d.lastVoteEpoch = c.lastVoteEpoch
        /\ d.currentEpoch = c.currentEpoch /\ d \in Knowledge
    BY DEF Sound, Knowledge
  <2>2. Step(c, d, i)
    BY <1>2, <2>1 DEF Step, Sound, Knowledge
  <2>3. ASSUME SlotsOf(d, cur) = {} PROVE Step(c, ClusterSetPrimary(d, i, sender), i)
    <3>1. \A s \in Slots : d.slots[s] # i
      BY <1>2, <2>1, <2>2, <2>3, Zenon DEF Step, Sound, SlotsOf, PrimaryOf, IsReplica
    <3>2. Step(d, ClusterSetPrimary(d, i, sender), i)
      BY <1>2, <2>1, <3>1, SetPrimaryStep, Zenon
    <3>3. QED
      BY <2>1, <3>2 DEF Step
  <2>4. ClusterUpdateSlotsConfigWith(c, i, sender, epoch, claimed) = d
        \/ (SlotsOf(d, cur) = {} /\ ClusterUpdateSlotsConfigWith(c, i, sender, epoch, claimed)
                                      = ClusterSetPrimary(d, i, sender))
    BY <1>2 DEF ClusterUpdateSlotsConfigWith
  <2>5. QED
    BY <2>2, <2>3, <2>4
<1>3. QED
  BY <1>1, <1>2

\* Resolving a collision of configuration epochs keeps it sound.
LEMMA CollisionStep ==
    ASSUME NEW i \in Nodes, NEW c, Sound(c, i), NEW sender \in Nodes
    PROVE  Step(c, ClusterHandleConfigEpochCollision(c, i, sender), i)
<1> DEFINE d == [c EXCEPT !.currentEpoch = @ + 1, !.configEpoch[i] = c.currentEpoch + 1]
<1>1. Step(c, d, i)
  <2> DEFINE n == c.currentEpoch + 1
  <2>0. n \in Nat /\ n >= c.currentEpoch /\ d = [c EXCEPT !.currentEpoch = n, !.configEpoch[i] = n]
    BY DEF Sound, Knowledge
  <2> HIDE DEF n
  <2>1. d \in Knowledge /\ d.currentEpoch = n
    BY <2>0, Zenon DEF Sound, Knowledge
  <2>2. d.replicaof = c.replicaof /\ d.slots = c.slots /\ d.lastVoteEpoch = c.lastVoteEpoch
    BY DEF Sound, Knowledge
  <2> HIDE DEF d
  <2>3. QED
    BY <2>0, <2>1, <2>2 DEF Sound, Knowledge, Step
<1>2. Step(c, c, i)
  BY DEF Sound, Knowledge, Step
<1>3. QED
  BY <1>1, <1>2 DEF ClusterHandleConfigEpochCollision

\* Learning that the sender is a replica keeps it sound.
LEMMA SenderIsReplicaStep ==
    ASSUME NEW i \in Nodes, NEW c, Sound(c, i), NEW m \in Header, m.from # i, m.replicaof # None
    PROVE  Step(c, SenderIsReplica(c, i, m), i)
<1> DEFINE p == m.replicaof
           d == IF ~IsReplica(c, m.from) /\ IsReplica(c, p)
                THEN [c EXCEPT !.replicaof[p] = None, !.configEpoch[p] = m.configEpoch]
                ELSE c
           e == [d EXCEPT !.replicaof[m.from] = p]
           above == e.replicaof[PrimaryOf(e, i)]
<1>1. p \in Nodes /\ m.from \in Nodes /\ m.configEpoch \in Nat
  BY DEF Header
<1>2. Step(c, d, i)
  <2> DEFINE f == [c EXCEPT !.replicaof[p] = None, !.configEpoch[p] = m.configEpoch]
  <2>1. f \in Knowledge
    BY <1>1, Zenon DEF Sound, Knowledge
  <2>2. /\ f.replicaof = [c.replicaof EXCEPT ![p] = None]
        /\ f.slots = c.slots /\ f.lastVoteEpoch = c.lastVoteEpoch /\ f.currentEpoch = c.currentEpoch
    BY DEF Sound, Knowledge
  <2>3. d = f \/ d = c
    OBVIOUS
  <2> HIDE DEF d, f
  <2>4. QED
    BY <1>1, <2>1, <2>2, <2>3, NodesAreNumbers DEF Sound, Knowledge, Step
<1>3. Step(c, e, i)
  <2> HIDE DEF d
  <2>1. QED
    BY <1>1, <1>2 DEF Sound, Knowledge, Step
<1>4. Step(c, c, i)
  BY DEF Sound, Knowledge, Step
<1>5. SenderIsReplica(c, i, m) = c \/ SenderIsReplica(c, i, m) = e
      \/ (above \notin {None, i} /\ SenderIsReplica(c, i, m) = ClusterSetPrimary(e, i, above))
  BY DEF SenderIsReplica
<1> HIDE DEF d, e
<1>6. ASSUME above \notin {None, i} PROVE Step(c, ClusterSetPrimary(e, i, above), i)
  <2>1. above \in Nodes /\ e.replicaof[i] # None
    BY <1>3, <1>6 DEF Sound, Knowledge, Step, PrimaryOf, IsReplica
  <2>2. Step(e, ClusterSetPrimary(e, i, above), i)
    BY <1>3, <1>6, <2>1, SetPrimaryStep DEF Step, Sound
  <2>3. QED
    BY <1>3, <2>2 DEF Step, Sound, Knowledge
<1>7. QED
  BY <1>3, <1>4, <1>5, <1>6

\* So does the configuration in a header as a whole.
LEMMA ConfigurationStep ==
    ASSUME NEW i \in Nodes, NEW c, Sound(c, i), NEW m \in Header, m.from # i
    PROVE  Step(c, ProcessConfiguration(c, i, m), i)
<1> DEFINE d == ProcessHeader(c, m)
           e == IF m.replicaof = None
                THEN [d EXCEPT !.replicaof[m.from] = None]
                ELSE SenderIsReplica(d, i, m)
           f == ClusterUpdateSlotsConfigWith(e, i, m.from, m.configEpoch, m.myslots)
<1>0. m.from \in Nodes /\ m.configEpoch \in Nat /\ m.myslots \in SUBSET Slots
  BY DEF Header
<1>1. Step(c, d, i)
  BY HeaderStep
<1> HIDE DEF d
<1>2. Step(c, e, i)
  <2>1. CASE m.replicaof = None
    BY <1>0, <1>1, <2>1 DEF Sound, Knowledge, Step
  <2>2. CASE m.replicaof # None
    <3>1. Step(d, SenderIsReplica(d, i, m), i)
      BY <1>1, <2>2, SenderIsReplicaStep DEF Step
    <3>2. QED
      BY <1>1, <2>2, <3>1 DEF Sound, Knowledge, Step
  <2>3. QED
    BY <2>1, <2>2
<1> HIDE DEF e
<1>3. Step(c, f, i)
  <2>1. Step(e, f, i)
    BY <1>0, <1>2, UpdateSlotsStep DEF Step
  <2> HIDE DEF f
  <2>2. QED
    BY <1>2, <2>1 DEF Sound, Knowledge, Step
<1>4. ProcessConfiguration(c, i, m) \in {d, e, f}
  BY DEF ProcessConfiguration, d, e
<1>5. QED
  BY <1>1, <1>2, <1>3, <1>4

\* So does a ping or pong as a whole, and it changes no vote.
LEMMA PingStep ==
    ASSUME NEW i \in Nodes, NEW c, Sound(c, i), NEW m \in Header, m.from # i
    PROVE  Step(c, ProcessPing(c, i, m), i)
<1> DEFINE d == ProcessConfiguration(c, i, m)
           e == ClusterHandleConfigEpochCollision(d, i, m.from)
<1>1. Step(c, d, i)
  BY ConfigurationStep
<1>2. Step(d, e, i)
  BY <1>1, CollisionStep DEF Step, Header
<1>3. ProcessPing(c, i, m) \in {d, e}
  BY DEF ProcessPing
<1> HIDE DEF d, e
<1>4. QED
  BY <1>1, <1>2, <1>3 DEF Sound, Knowledge, Step

-----------------------------------------------------------------------------
(* The inductive invariant *)

\* Memory and nodes.conf agree on the last vote, which was given in an epoch
\* that has begun, also for a node that starts again from nodes.conf.
NodesInv ==
    /\ node \in [Nodes -> Knowledge]
    /\ saved \in [Nodes -> [currentEpoch : Nat, lastVoteEpoch : Nat]]
    /\ \A i \in Nodes :
          /\ Sound(node[i], i)
          /\ node[i].lastVoteEpoch <= node[i].currentEpoch
          /\ saved[i].lastVoteEpoch = node[i].lastVoteEpoch
          /\ saved[i].lastVoteEpoch <= saved[i].currentEpoch

Packet(p) ==
    /\ p.to \in Nodes /\ p.hdr \in Header /\ p.hdr.from # p.to
    /\ p.type = "update" => p.about \in Nodes /\ p.epoch \in Nat /\ p.slots \in SUBSET Slots

NetInv ==
    /\ up \subseteq Nodes
    /\ \A p \in net : Packet(p)
    /\ \A r \in asked : r.hdr \in Header

IInv == NodesInv /\ NetInv

\* The epoch of the last vote stays what it is.
VotesKept == \A i \in Nodes : node'[i].lastVoteEpoch = node[i].lastVoteEpoch

\* No vote is sent.
NoVoteSent == \A p \in net' \ net : p.type # "ack"

\* A handler that does not vote keeps the invariant of the nodes.
LEMMA BecomeStep ==
    ASSUME NodesInv, NEW i \in Nodes, NEW d, Step(node[i], d, i), Become(i, d)
    PROVE  NodesInv' /\ VotesKept
<1>1. /\ d \in Knowledge /\ d.lastVoteEpoch = node[i].lastVoteEpoch
      /\ d.lastVoteEpoch \in Nat /\ d.currentEpoch \in Nat
      /\ d.lastVoteEpoch <= d.currentEpoch
  <2>1. node[i] \in Knowledge /\ d \in Knowledge
    BY DEF NodesInv, Step, Sound
  <2>2. QED
    BY <2>1 DEF NodesInv, Step, Knowledge
<1>2. node' = [node EXCEPT ![i] = d]
      /\ saved' \in {saved, [saved EXCEPT ![i] = [currentEpoch |-> d.currentEpoch,
                                               lastVoteEpoch |-> d.lastVoteEpoch]]}
  BY DEF Become, ClusterSaveConfig
<1>3. node' \in [Nodes -> Knowledge] /\ VotesKept
  BY <1>1, <1>2 DEF NodesInv, VotesKept
<1>4. saved' \in [Nodes -> [currentEpoch : Nat, lastVoteEpoch : Nat]]
  BY <1>1, <1>2 DEF NodesInv
<1>5. ASSUME NEW j \in Nodes
      PROVE  /\ Sound(node'[j], j)
             /\ node'[j].lastVoteEpoch <= node'[j].currentEpoch
             /\ saved'[j].lastVoteEpoch = node'[j].lastVoteEpoch
             /\ saved'[j].lastVoteEpoch <= saved'[j].currentEpoch
  <2>1. CASE j = i
    BY <1>1, <1>2, <2>1 DEF NodesInv, Step
  <2>2. CASE j # i
    BY <1>2, <2>2 DEF NodesInv
  <2>3. QED
    BY <2>1, <2>2
<1>6. QED
  BY <1>3, <1>4, <1>5 DEF NodesInv

\* Packets other than votes.
LEMMA SendStep ==
    ASSUME NetInv, NEW others \in SUBSET net, NEW packets,
           \A p \in packets : Packet(p) /\ p.type # "ack",
           Send(others, packets)
    PROVE  (\A p \in net' : Packet(p)) /\ NoVoteSent
<1>1. net' \subseteq others \cup packets
  BY DEF Send
<1>2. QED
  BY <1>1 DEF NetInv, NoVoteSent

\* An UPDATE packet has its type.
LEMMA UpdatePackets ==
    ASSUME NEW i \in Nodes, NEW c, Sound(c, i), NEW to \in Nodes, to # i, NEW n \in Nodes
    PROVE  Packet(ClusterSendUpdate(c, i, to, n)) /\ ClusterSendUpdate(c, i, to, n).type # "ack"
<1>1. c.configEpoch[n] \in Nat /\ SlotsOf(c, n) \in SUBSET Slots
  BY DEF Sound, Knowledge, SlotsOf
<1>2. QED
  BY <1>1, HeaderType DEF ClusterSendUpdate, Packet

\* The owners a node names as newer are nodes.
LEMMA NewerAreNodes ==
    ASSUME NEW i \in Nodes, NEW c, Sound(c, i), NEW m \in Header
    PROVE  Newer(c, m) \subseteq Nodes
BY DEF Newer, Sound, Knowledge, Header

\* The packets a ping is answered with have their type.
LEMMA AnswerPackets ==
    ASSUME NEW i \in Nodes, NEW c, Sound(c, i), NEW m \in Header, m.from # i
    PROVE  \A p \in PingAnswer(c, i, m) : Packet(p) /\ p.type # "ack"
<1> DEFINE d == ProcessConfiguration(c, i, m)
<1>1. Sound(d, i) /\ m.from \in Nodes
  BY ConfigurationStep DEF Step, Header
<1>2. PingAnswer(c, i, m) \subseteq {ClusterSendUpdate(d, i, m.from, n) : n \in Newer(d, m)}
  BY DEF PingAnswer
<1> HIDE DEF d
<1>3. QED
  BY <1>1, <1>2, NewerAreNodes, UpdatePackets

\* The invariant holds of the configuration the cluster starts with.
LEMMA InitIInv == Init => IInv
<1> SUFFICES ASSUME Init PROVE IInv
  OBVIOUS
<1> DEFINE primaries == {i \in Nodes : Primary[i] = None}
           epoch == [i \in Nodes |-> IF i \in primaries THEN i ELSE 0]
           e == Max(primaries)
           first == [currentEpoch |-> e, lastVoteEpoch |-> 0,
                     configEpoch |-> epoch, replicaof |-> Primary, slots |-> Owner,
                     auth |-> NoElection, mf_can_start |-> FALSE]
<1>1. Nodes # {} => e \in Nat
  <2>1. SUFFICES ASSUME Nodes # {} PROVE e \in Nat
    OBVIOUS
  <2>2. primaries \in SUBSET Nodes /\ primaries # {} /\ IsFiniteSet(Nodes) /\ Nodes \subseteq Nat
    BY <2>1, ConstantsAssumption, Zenon
  <2>3. IsFiniteSet(primaries) /\ primaries \subseteq Nat
    BY <2>2, FS_Subset, Zenon
  <2> HIDE DEF primaries
  <2>4. QED
    BY <2>2, <2>3, MaxExists, Zenon
<1>2. node = [i \in Nodes |-> first]
      /\ saved = [i \in Nodes |-> [currentEpoch |-> e, lastVoteEpoch |-> 0]]
  BY DEF Init
<1>3. epoch \in [Nodes -> Nat]
  BY NodesAreNumbers
<1>4. NoElection \in [on : BOOLEAN, sent : BOOLEAN, epoch : Nat, count : Nat]
  BY DEF NoElection
<1> HIDE DEF e, epoch
<1>5. Nodes # {} => first \in Knowledge
  BY <1>1, <1>3, <1>4, ConstantsAssumption DEF Knowledge
<1>6. ASSUME NEW i \in Nodes PROVE Sound(first, i)
  BY <1>5, ConstantsAssumption DEF Sound
<1>7. first.lastVoteEpoch = 0 /\ first.currentEpoch = e
  OBVIOUS
<1> HIDE DEF first
<1>8. NodesInv
  BY <1>1, <1>2, <1>5, <1>6, <1>7 DEF NodesInv
<1>9. NetInv
  BY DEF Init, NetInv
<1>10. QED
  BY <1>8, <1>9 DEF IInv

-----------------------------------------------------------------------------
(* One lemma for every action that needs more than a line *)

\* What every action keeps.
Kept == NodesInv' /\ (\A p \in net' : Packet(p)) /\ VotesKept /\ NoVoteSent

\* A ping, delayed or not, keeps the invariant.
LEMMA ReceivePingStep ==
    ASSUME IInv, NEW i \in Nodes, NEW m \in Header, m.from # i, NEW others \in SUBSET net,
           Become(i, ProcessPing(node[i], i, m)), Send(others, PingAnswer(node[i], i, m))
    PROVE  Kept
<1>1. Sound(node[i], i)
  BY DEF IInv, NodesInv
<1>2. NodesInv' /\ VotesKept
  BY <1>1, PingStep, BecomeStep DEF IInv
<1>3. (\A p \in net' : Packet(p)) /\ NoVoteSent
  BY <1>1, AnswerPackets, SendStep DEF IInv
<1>4. QED
  BY <1>2, <1>3 DEF Kept

\* Holding a ping up keeps it.
LEMMA PingDelayedStep ==
    ASSUME IInv, NEW i \in Nodes, NEW j \in Nodes, PingDelayed(i, j)
    PROVE  Kept
<1> DEFINE p == [type |-> "ping", to |-> j, hdr |-> ClusterBuildMessageHdr(node[i], i)]
<1>1. Packet(p) /\ p.type # "ack"
  BY HeaderType DEF PingDelayed, Packet, IInv, NodesInv
<1>2. Send(net, {p})
  BY DEF PingDelayed
<1> HIDE DEF p
<1>3. (\A q \in net' : Packet(q)) /\ NoVoteSent
  BY <1>1, <1>2, SendStep DEF IInv
<1>4. QED
  BY <1>3 DEF PingDelayed, Kept, VotesKept, IInv, NodesInv

\* An UPDATE packet keeps it.
LEMMA ReceiveUpdateStep ==
    ASSUME IInv, NEW p \in net, ReceiveUpdate(p)
    PROVE  Kept
<1> DEFINE i == p.to
           c == ProcessHeader(node[i], p.hdr)
           d == [c EXCEPT !.replicaof[p.about] = None, !.configEpoch[p.about] = p.epoch]
           e == ClusterUpdateSlotsConfigWith(d, i, p.about, p.epoch, p.slots)
<1>1. i \in Nodes /\ p.hdr \in Header /\ p.about \in Nodes /\ p.epoch \in Nat /\ p.slots \in SUBSET Slots
  BY DEF ReceiveUpdate, IInv, NetInv, Packet
<1>2. Become(i, IF c.configEpoch[p.about] >= p.epoch THEN c ELSE e) /\ net' = net \ {p}
  BY DEF ReceiveUpdate
<1>3. Step(node[i], c, i)
  BY <1>1, HeaderStep DEF IInv, NodesInv
<1> HIDE DEF i, c
<1>4. Step(c, d, i)
  <2>1. d \in Knowledge
    BY <1>1, <1>3, Zenon DEF Step, Sound, Knowledge
  <2>2. /\ d.replicaof = [c.replicaof EXCEPT ![p.about] = None]
        /\ d.slots = c.slots /\ d.lastVoteEpoch = c.lastVoteEpoch /\ d.currentEpoch = c.currentEpoch
    BY <1>3 DEF Step, Sound, Knowledge
  <2> HIDE DEF d
  <2>3. QED
    BY <1>1, <1>3, <2>1, <2>2, NodesAreNumbers DEF Sound, Knowledge, Step
<1> HIDE DEF d
<1>5. Step(d, e, i)
  BY <1>1, <1>4, UpdateSlotsStep DEF Step
<1> HIDE DEF e
<1>6. Step(node[i], e, i)
  <2>1. node[i] \in Knowledge
    BY <1>1 DEF IInv, NodesInv
  <2>2. QED
    BY <1>3, <1>4, <1>5, <2>1 DEF Step, Sound, Knowledge
<1>7. NodesInv' /\ VotesKept
  BY <1>1, <1>2, <1>3, <1>6, BecomeStep DEF IInv
<1>8. QED
  BY <1>2, <1>7 DEF Kept, IInv, NetInv, NoVoteSent

\* A vote: for an epoch later than that of the last one, and saved.
VoteSent(i, e) ==
    /\ e > node[i].lastVoteEpoch
    /\ node'[i].lastVoteEpoch = e /\ saved'[i].lastVoteEpoch = e
    /\ \A j \in Nodes \ {i} : node'[j].lastVoteEpoch = node[j].lastVoteEpoch
    /\ \A p \in net' \ net : p.hdr.from = i /\ p.hdr.currentEpoch = e

\* A vote request keeps it, and a vote is for a later epoch and is saved.
LEMMA VoteStep ==
    ASSUME IInv, NEW i \in Nodes, NEW r \in asked, ClusterSendFailoverAuthIfNeeded(i, r)
    PROVE  Kept \/ (NodesInv' /\ (\A p \in net' : Packet(p))
                     /\ \E e \in Nat : VoteSent(i, e))
<1> DEFINE c == ProcessHeader(node[i], r.hdr)
           from == r.hdr.from
           mayVote == /\ ClusterNodeIsVotingPrimary(c, i)
                      /\ r.hdr.currentEpoch >= c.currentEpoch
                      /\ c.lastVoteEpoch # c.currentEpoch
                      /\ IsReplica(c, from)
                      /\ c.replicaof[from] \in failed \ {i} \/ r.force
           newer == Newer(c, r.hdr)
           vote == mayVote /\ newer = {}
           d == [c EXCEPT !.lastVoteEpoch = c.currentEpoch]
           ack == [type |-> "ack", to |-> from, hdr |-> ClusterBuildMessageHdr(c, i)]
<1>1. r.hdr \in Header /\ from \in Nodes /\ i # from
  BY DEF IInv, NetInv, Header, ClusterSendFailoverAuthIfNeeded
<1>2. Step(node[i], c, i) /\ Sound(c, i)
  BY <1>1, HeaderStep DEF IInv, NodesInv, Step
<1>3. vote => Become(i, d) /\ net' = net \cup {ack}
  BY DEF ClusterSendFailoverAuthIfNeeded
<1>4. ~vote => /\ Become(i, c)
               /\ Send(net, {ClusterSendUpdate(c, i, from, n) : n \in IF mayVote THEN newer ELSE {}})
  BY DEF ClusterSendFailoverAuthIfNeeded
<1>5. vote => c.lastVoteEpoch # c.currentEpoch
  OBVIOUS
<1>6. newer \subseteq Nodes
  BY <1>1, <1>2, NewerAreNodes
<1>7. ack.type = "ack" /\ ack.hdr.from = i /\ ack.hdr.currentEpoch = c.currentEpoch /\ Packet(ack)
  <2>1. ClusterBuildMessageHdr(c, i).currentEpoch = c.currentEpoch
    BY DEF ClusterBuildMessageHdr
  <2>2. QED
    BY <1>1, <1>2, <2>1, HeaderType DEF Packet
<1> HIDE DEF c, mayVote, vote, newer, ack, from
<1>8. CASE ~vote
  <2>1. NodesInv' /\ VotesKept
    BY <1>2, <1>4, <1>8, BecomeStep DEF IInv
  <2>2. (\A p \in net' : Packet(p)) /\ NoVoteSent
    BY <1>1, <1>2, <1>4, <1>6, <1>8, UpdatePackets, SendStep DEF IInv
  <2>3. QED
    BY <2>1, <2>2 DEF Kept
<1>9. CASE vote
  <2>1. /\ node[i] \in Knowledge /\ c \in Knowledge /\ c.currentEpoch \in Nat
        /\ c.currentEpoch > node[i].lastVoteEpoch
    <3>1. node[i] \in Knowledge /\ c \in Knowledge
      BY <1>2 DEF IInv, NodesInv, Sound
    <3>2. /\ node[i].lastVoteEpoch \in Nat /\ node[i].currentEpoch \in Nat /\ c.currentEpoch \in Nat
          /\ node[i].lastVoteEpoch <= node[i].currentEpoch
      BY <3>1 DEF IInv, NodesInv, Knowledge
    <3>3. /\ c.lastVoteEpoch = node[i].lastVoteEpoch /\ c.currentEpoch >= node[i].currentEpoch
          /\ c.lastVoteEpoch # c.currentEpoch
      BY <1>2, <1>5, <1>9 DEF Step
    <3>4. QED
      BY <3>1, <3>2, <3>3
  <2>2. /\ d \in Knowledge /\ d.lastVoteEpoch = c.currentEpoch /\ d.currentEpoch = c.currentEpoch
        /\ d.replicaof = c.replicaof /\ d.slots = c.slots
    BY <2>1 DEF Knowledge
  <2>3. Sound(d, i)
    BY <1>2, <2>2 DEF Sound
  <2>4. Configuration(d) # Configuration(node[i])
    BY <2>1, <2>2 DEF Configuration
  <2> HIDE DEF d
  <2>5. /\ node' = [node EXCEPT ![i] = d]
        /\ saved' = [saved EXCEPT ![i] = [currentEpoch |-> d.currentEpoch,
                                         lastVoteEpoch |-> d.lastVoteEpoch]]
    BY <1>3, <1>9, <2>4 DEF Become, ClusterSaveConfig
  <2>6. NodesInv'
    <3>1. node' \in [Nodes -> Knowledge]
      BY <2>2, <2>5 DEF IInv, NodesInv
    <3>2. saved' \in [Nodes -> [currentEpoch : Nat, lastVoteEpoch : Nat]]
      BY <2>1, <2>2, <2>5 DEF IInv, NodesInv
    <3>3. ASSUME NEW j \in Nodes
          PROVE  /\ Sound(node'[j], j)
                 /\ node'[j].lastVoteEpoch <= node'[j].currentEpoch
                 /\ saved'[j].lastVoteEpoch = node'[j].lastVoteEpoch
                 /\ saved'[j].lastVoteEpoch <= saved'[j].currentEpoch
      <4>1. CASE j = i
        BY <2>1, <2>2, <2>3, <2>5, <4>1 DEF IInv, NodesInv
      <4>2. CASE j # i
        BY <2>5, <4>2 DEF IInv, NodesInv
      <4>3. QED
        BY <4>1, <4>2
    <3>4. QED
      BY <3>1, <3>2, <3>3 DEF NodesInv
  <2>7. VoteSent(i, c.currentEpoch)
    BY <1>3, <1>7, <1>9, <2>1, <2>2, <2>5 DEF VoteSent, IInv, NodesInv
  <2>8. \A p \in net' : Packet(p)
    BY <1>3, <1>7, <1>9 DEF IInv, NetInv
  <2>9. QED
    BY <2>1, <2>6, <2>7, <2>8
<1>10. QED
  BY <1>8, <1>9

\* A step of node i alone that keeps the packets on their way.
LEMMA AloneStep ==
    ASSUME IInv, NEW i \in Nodes, NEW d, Step(node[i], d, i), Become(i, d), net' \subseteq net
    PROVE  Kept
<1>1. NodesInv' /\ VotesKept
  BY BecomeStep DEF IInv
<1>2. QED
  BY <1>1 DEF Kept, IInv, NetInv, NoVoteSent

\* A vote received keeps it.
LEMMA ReceiveFailoverAuthStep ==
    ASSUME IInv, NEW p \in net, ReceiveFailoverAuth(p)
    PROVE  Kept
<1> DEFINE i == p.to
           c == ProcessHeader(node[i], p.hdr)
           d == [c EXCEPT !.auth.count = @ + 1]
<1>1. i \in Nodes /\ p.hdr \in Header
  BY DEF IInv, NetInv, Packet
<1>2. (Become(i, c) \/ Become(i, d)) /\ net' \subseteq net
  BY DEF ReceiveFailoverAuth
<1>3. Step(node[i], c, i)
  BY <1>1, HeaderStep DEF IInv, NodesInv
<1> HIDE DEF c
<1>4. Step(node[i], d, i)
  <2>1. d \in Knowledge
    BY <1>3 DEF Step, Sound, Knowledge
  <2>2. /\ d.replicaof = c.replicaof /\ d.slots = c.slots
        /\ d.lastVoteEpoch = c.lastVoteEpoch /\ d.currentEpoch = c.currentEpoch
    BY <1>3 DEF Step, Sound, Knowledge
  <2>3. QED
    BY <1>3, <2>1, <2>2 DEF Step, Sound
<1>5. QED
  BY <1>1, <1>2, <1>3, <1>4, AloneStep

\* Scheduling an election keeps it.
LEMMA ScheduleElectionStep ==
    ASSUME IInv, NEW i \in Nodes, ScheduleElection(i)
    PROVE  Kept
<1> DEFINE a == [node[i].auth EXCEPT !.on = TRUE, !.sent = FALSE, !.count = 0]
           d == [node[i] EXCEPT !.auth = a]
<1>1. Sound(node[i], i)
  BY DEF IInv, NodesInv
<1>2. a \in [on : BOOLEAN, sent : BOOLEAN, epoch : Nat, count : Nat]
  BY <1>1, Zenon DEF Sound, Knowledge
<1>3. Become(i, d) /\ net' = net
  BY DEF ScheduleElection
<1> HIDE DEF a
<1>4. Step(node[i], d, i)
  BY <1>1, <1>2 DEF Step, Sound, Knowledge
<1>5. QED
  BY <1>3, <1>4, AloneStep

\* The epoch of the request need not be saved, but it is no vote.
LEMMA RequestVotesStep ==
    ASSUME IInv, NEW i \in Nodes, RequestVotes(i)
    PROVE  Kept /\ \A r \in asked' : r.hdr \in Header
<1> DEFINE c == node[i]
           n == c.currentEpoch + 1
           a == [c.auth EXCEPT !.sent = TRUE, !.epoch = n]
           d == [c EXCEPT !.currentEpoch = n, !.auth = a]
<1>1. c \in Knowledge /\ Sound(c, i) /\ c.lastVoteEpoch <= c.currentEpoch
  BY DEF IInv, NodesInv
<1>2. n \in Nat /\ c.lastVoteEpoch \in Nat /\ c.lastVoteEpoch <= n /\ n >= c.currentEpoch
  BY <1>1 DEF Knowledge
<1>3. a \in [on : BOOLEAN, sent : BOOLEAN, epoch : Nat, count : Nat]
  <2> HIDE DEF n
  <2>1. QED
    BY <1>1, <1>2, Zenon DEF Knowledge
<1>4. /\ node' = [node EXCEPT ![i] = d]
      /\ saved' \in {saved, ClusterSaveConfig(i, d)}
      /\ asked' = asked \cup {[force |-> c.mf_can_start, hdr |-> ClusterBuildMessageHdr(d, i)]}
      /\ net' = net
  BY DEF RequestVotes
<1> HIDE DEF c, n, a
<1>5. /\ d \in Knowledge /\ d.currentEpoch = n /\ d.lastVoteEpoch = c.lastVoteEpoch
      /\ d.replicaof = c.replicaof /\ d.slots = c.slots
  BY <1>1, <1>2, <1>3, Zenon DEF Knowledge
<1> HIDE DEF d
<1>6. Sound(d, i)
  BY <1>1, <1>5 DEF Sound
<1>7. saved' \in {saved, [saved EXCEPT ![i] = [currentEpoch |-> n, lastVoteEpoch |-> c.lastVoteEpoch]]}
  BY <1>4, <1>5 DEF ClusterSaveConfig
<1>8. NodesInv' /\ VotesKept
  <2>1. node' \in [Nodes -> Knowledge]
    BY <1>4, <1>5 DEF IInv, NodesInv
  <2>2. saved' \in [Nodes -> [currentEpoch : Nat, lastVoteEpoch : Nat]]
    BY <1>2, <1>7 DEF IInv, NodesInv
  <2>3. ASSUME NEW j \in Nodes
        PROVE  /\ Sound(node'[j], j)
               /\ node'[j].lastVoteEpoch = node[j].lastVoteEpoch
               /\ node'[j].lastVoteEpoch <= node'[j].currentEpoch
               /\ saved'[j].lastVoteEpoch = node'[j].lastVoteEpoch
               /\ saved'[j].lastVoteEpoch <= saved'[j].currentEpoch
    <3>1. CASE j = i
      BY <1>2, <1>4, <1>5, <1>6, <1>7, <3>1 DEF IInv, NodesInv, c
    <3>2. CASE j # i
      BY <1>4, <1>7, <3>2 DEF IInv, NodesInv
    <3>3. QED
      BY <3>1, <3>2
  <2>4. QED
    BY <2>1, <2>2, <2>3 DEF NodesInv, VotesKept
<1>9. \A r \in asked' : r.hdr \in Header
  BY <1>4, <1>6, HeaderType DEF IInv, NetInv
<1>10. QED
  BY <1>4, <1>8, <1>9 DEF Kept, IInv, NetInv, NoVoteSent

\* Taking the place of the primary keeps what a node knows sound.
LEMMA ReplacePrimaryStep ==
    ASSUME NEW i \in Nodes, NEW c, Sound(c, i)
    PROVE  Step(c, ClusterFailoverReplaceYourPrimary(c, i), i)
<1> DEFINE old == c.replicaof[i]
           f == [s \in Slots |-> IF c.slots[s] = old THEN i ELSE c.slots[s]]
           r == [c.replicaof EXCEPT ![i] = None]
           d == ClusterFailoverReplaceYourPrimary(c, i)
<1>1. d = [c EXCEPT !.replicaof = r, !.slots = f, !.mf_can_start = FALSE]
  BY DEF ClusterFailoverReplaceYourPrimary, Sound, Knowledge
<1>2. f \in [Slots -> Nodes] /\ r \in [Nodes -> Nodes \cup {None}] /\ r[i] = None
  BY DEF Sound, Knowledge
<1> HIDE DEF f, r, d
<1>3. d \in Knowledge
  BY <1>1, <1>2, Zenon DEF Sound, Knowledge
<1>4. d.replicaof = r /\ d.lastVoteEpoch = c.lastVoteEpoch /\ d.currentEpoch = c.currentEpoch
  BY <1>1 DEF Sound, Knowledge
<1>5. QED
  BY <1>2, <1>3, <1>4, NodesAreNumbers DEF Sound, Knowledge, Step, d

\* Winning an election keeps the invariant.
LEMMA WinElectionStep ==
    ASSUME IInv, NEW i \in Nodes, WinElection(i)
    PROVE  Kept
<1> DEFINE c == node[i]
           n == Max({c.configEpoch[i], c.auth.epoch})
           d == [c EXCEPT !.configEpoch[i] = n]
           e == ClusterFailoverReplaceYourPrimary(d, i)
<1>1. Sound(c, i) /\ c.configEpoch[i] \in Nat /\ c.auth.epoch \in Nat
  BY DEF IInv, NodesInv, Sound, Knowledge
<1>2. n \in Nat
  BY <1>1, MaxOfTwo
<1>3. Become(i, e) /\ net' = net
  BY <1>1 DEF WinElection, Sound, Knowledge
<1> HIDE DEF c, n
<1>4. Step(c, d, i)
  BY <1>1, <1>2 DEF Step, Sound, Knowledge
<1> HIDE DEF d
<1>5. Step(d, e, i)
  BY <1>4, ReplacePrimaryStep DEF Step
<1> HIDE DEF e
<1>6. Step(c, e, i)
  BY <1>1, <1>4, <1>5 DEF Step, Sound, Knowledge
<1>7. QED
  BY <1>3, <1>6, AloneStep DEF c

\* The flags of a manual failover.
LEMMA ManualFailoverStep ==
    ASSUME IInv, NEW i \in Nodes, ClusterFailoverForce(i) \/ ManualFailoverTimesOut(i)
    PROVE  Kept
<1> DEFINE c == node[i]
           a == [c.auth EXCEPT !.on = FALSE]
           d == [c EXCEPT !.mf_can_start = TRUE, !.auth = a]
           e == [c EXCEPT !.mf_can_start = FALSE]
<1>1. Sound(c, i)
  BY DEF IInv, NodesInv
<1>2. a \in [on : BOOLEAN, sent : BOOLEAN, epoch : Nat, count : Nat]
  BY <1>1, Zenon DEF Sound, Knowledge
<1>3. (Become(i, d) \/ Become(i, e)) /\ net' = net
  BY <1>1 DEF ClusterFailoverForce, ManualFailoverTimesOut, Sound, Knowledge
<1> HIDE DEF c, a
<1>4. d \in Knowledge /\ e \in Knowledge
  BY <1>1, <1>2, Zenon DEF Sound, Knowledge
<1>5. /\ d.replicaof = c.replicaof /\ d.slots = c.slots
      /\ d.lastVoteEpoch = c.lastVoteEpoch /\ d.currentEpoch = c.currentEpoch
  BY <1>1 DEF Sound, Knowledge
<1>6. /\ e.replicaof = c.replicaof /\ e.slots = c.slots
      /\ e.lastVoteEpoch = c.lastVoteEpoch /\ e.currentEpoch = c.currentEpoch
  BY <1>1 DEF Sound, Knowledge
<1> HIDE DEF d, e
<1>7. Step(c, d, i) /\ Step(c, e, i)
  BY <1>1, <1>4, <1>5, <1>6 DEF Step, Sound, Knowledge
<1>8. QED
  BY <1>3, <1>7, AloneStep DEF c

\* A takeover keeps it.
LEMMA TakeoverStep ==
    ASSUME IInv, NEW i \in Nodes, ClusterFailoverTakeover(i)
    PROVE  Kept
<1> DEFINE c == node[i]
           d == ClusterBumpConfigEpochWithoutConsensus(c, i)
           e == ClusterFailoverReplaceYourPrimary(d, i)
<1>1. Sound(c, i)
  BY DEF IInv, NodesInv
<1>2. Become(i, e) /\ net' = net
  BY DEF ClusterFailoverTakeover
<1>3. Step(c, d, i)
  <2> DEFINE n == c.currentEpoch + 1
             f == [c EXCEPT !.currentEpoch = n, !.configEpoch[i] = n]
  <2>1. n \in Nat /\ n >= c.currentEpoch /\ d \in {c, f}
    BY <1>1 DEF Sound, Knowledge, ClusterBumpConfigEpochWithoutConsensus
  <2> HIDE DEF c, n
  <2>2. f \in Knowledge /\ f.currentEpoch = n
    BY <1>1, <2>1, Zenon DEF Sound, Knowledge
  <2>3. f.replicaof = c.replicaof /\ f.slots = c.slots /\ f.lastVoteEpoch = c.lastVoteEpoch
    BY <1>1 DEF Sound, Knowledge
  <2> HIDE DEF f, d
  <2>4. QED
    BY <1>1, <2>1, <2>2, <2>3 DEF Sound, Knowledge, Step
<1> HIDE DEF c, d
<1>4. Step(d, e, i)
  BY <1>3, ReplacePrimaryStep DEF Step
<1> HIDE DEF e
<1>5. Step(c, e, i)
  BY <1>1, <1>3, <1>4 DEF Step, Sound, Knowledge
<1>6. QED
  BY <1>2, <1>5, AloneStep DEF c

\* nodes.conf holds the last vote, and the epoch of the node that starts again is
\* at least the saved one.
LEMMA RestartStep ==
    ASSUME IInv, NEW i \in Nodes, Restart(i)
    PROVE  Kept
<1> DEFINE b == node[i]
           c == [b EXCEPT !.currentEpoch = saved[i].currentEpoch,
                          !.lastVoteEpoch = saved[i].lastVoteEpoch,
                          !.auth = NoElection, !.mf_can_start = FALSE]
           n == ClusterGetMaxEpoch(c)
           d == [c EXCEPT !.currentEpoch = n]
<1>1. Sound(b, i) /\ b \in Knowledge
  BY DEF IInv, NodesInv
<1>2. /\ saved[i].currentEpoch \in Nat /\ saved[i].lastVoteEpoch \in Nat
      /\ saved[i].lastVoteEpoch = b.lastVoteEpoch /\ saved[i].lastVoteEpoch <= saved[i].currentEpoch
  BY DEF IInv, NodesInv
<1>3. NoElection \in [on : BOOLEAN, sent : BOOLEAN, epoch : Nat, count : Nat]
  BY DEF NoElection
<1>4. node' = [node EXCEPT ![i] = d] /\ saved' = saved /\ net' = net
  BY DEF Restart
<1> HIDE DEF b
<1>5. /\ c \in Knowledge /\ c.lastVoteEpoch = b.lastVoteEpoch /\ c.currentEpoch = saved[i].currentEpoch
      /\ c.replicaof = b.replicaof /\ c.slots = b.slots
  BY <1>1, <1>2, <1>3, Zenon DEF Knowledge
<1> HIDE DEF c
<1>6. n \in Nat /\ n >= c.currentEpoch
  <2> DEFINE E == {c.configEpoch[m] : m \in Nodes}
             T == E \cup {c.currentEpoch}
  <2>1. c.configEpoch \in [Nodes -> Nat] /\ c.currentEpoch \in Nat
    BY <1>5 DEF Knowledge
  <2>2. c.configEpoch \in Surjection(Nodes, E)
    BY <2>1 DEF Surjection
  <2>3. IsFiniteSet(E)
    BY <2>2, ConstantsAssumption, FS_Surjection
  <2>4. IsFiniteSet(T)
    BY <2>3, FS_AddElement
  <2>5. T \subseteq Nat /\ c.currentEpoch \in T
    BY <2>1
  <2>6. n = Max(T)
    BY DEF ClusterGetMaxEpoch
  <2> HIDE DEF T, n
  <2>7. n \in T /\ c.currentEpoch <= n
    BY <2>4, <2>5, <2>6, MaxExists, Zenon
  <2>8. QED
    BY <2>1, <2>5, <2>7
<1> HIDE DEF n
<1>7. /\ d \in Knowledge /\ d.lastVoteEpoch = b.lastVoteEpoch /\ d.currentEpoch = n
      /\ d.replicaof = b.replicaof /\ d.slots = b.slots
  BY <1>5, <1>6 DEF Knowledge
<1> HIDE DEF d
<1>8. Sound(d, i) /\ d.lastVoteEpoch <= d.currentEpoch
  BY <1>1, <1>2, <1>5, <1>6, <1>7 DEF Sound
<1>9. ASSUME NEW j \in Nodes
      PROVE  /\ Sound(node'[j], j)
             /\ node'[j].lastVoteEpoch = node[j].lastVoteEpoch
             /\ node'[j].lastVoteEpoch <= node'[j].currentEpoch
  <2>1. CASE j = i
    BY <1>4, <1>7, <1>8, <2>1 DEF IInv, NodesInv, b
  <2>2. CASE j # i
    BY <1>4, <2>2 DEF IInv, NodesInv
  <2>3. QED
    BY <2>1, <2>2
<1>10. node' \in [Nodes -> Knowledge]
  BY <1>4, <1>7 DEF IInv, NodesInv
<1>11. NodesInv' /\ VotesKept
  BY <1>4, <1>9, <1>10 DEF IInv, NodesInv, VotesKept
<1>12. QED
  BY <1>4, <1>11 DEF Kept, IInv, NetInv, NoVoteSent

-----------------------------------------------------------------------------
(* The theorems *)

\* Every step keeps the last votes, or is one vote of one node.
LEMMA NextStep ==
    ASSUME IInv, Next
    PROVE  /\ NodesInv' /\ (\A p \in net' : Packet(p))
           /\ \/ VotesKept /\ NoVoteSent
              \/ \E i \in Nodes, e \in Nat : VoteSent(i, e)
<1> SUFFICES Kept \/ (NodesInv' /\ (\A p \in net' : Packet(p))
                       /\ \E i \in Nodes, e \in Nat : VoteSent(i, e))
  BY DEF Kept
<1>0. up \subseteq Nodes
  BY DEF IInv, NetInv
<1>1. ASSUME NEW i \in up, NEW j \in up, Ping(i, j) PROVE Kept
  <2> DEFINE m == ClusterBuildMessageHdr(node[i], i)
  <2>1. i \in Nodes /\ j \in Nodes /\ Sound(node[i], i)
    BY <1>0 DEF IInv, NodesInv
  <2>2. m \in Header /\ m.from = i /\ i # j
    BY <1>1, <2>1, HeaderType DEF Ping
  <2>3. Become(j, ProcessPing(node[j], j, m)) /\ Send(net, PingAnswer(node[j], j, m))
    BY <1>1 DEF Ping
  <2> HIDE DEF m
  <2>4. QED
    BY <2>1, <2>2, <2>3, ReceivePingStep
<1>2. ASSUME NEW i \in up, NEW j \in up, PingDelayed(i, j) PROVE Kept
  BY <1>0, <1>2, PingDelayedStep
<1>3. ASSUME NEW p \in net, ReceivePing(p) PROVE Kept
  <2>1. p.to \in Nodes /\ p.hdr \in Header /\ p.hdr.from # p.to
    BY DEF IInv, NetInv, Packet
  <2>2. QED
    BY <1>3, <2>1, ReceivePingStep DEF ReceivePing
<1>4. ASSUME NEW p \in net, ReceiveUpdate(p) PROVE Kept
  BY <1>4, ReceiveUpdateStep
<1>5. ASSUME NEW i \in up, NEW r \in asked, ClusterSendFailoverAuthIfNeeded(i, r)
      PROVE  Kept \/ (NodesInv' /\ (\A p \in net' : Packet(p)) /\ \E e \in Nat : VoteSent(i, e))
  BY <1>0, <1>5, VoteStep
<1>6. ASSUME NEW p \in net, ReceiveFailoverAuth(p) PROVE Kept
  BY <1>6, ReceiveFailoverAuthStep
<1>7. ASSUME NEW n \in Nodes, MarkNodeAsFailing(n) \/ ClearNodeFailure(n) PROVE Kept
  <2>1. UNCHANGED <<node, saved, net>>
    BY <1>7 DEF MarkNodeAsFailing, ClearNodeFailure
  <2>2. QED
    BY <2>1 DEF Kept, IInv, NodesInv, NetInv, VotesKept, NoVoteSent
<1>8. ASSUME NEW i \in up, ScheduleElection(i) PROVE Kept
  BY <1>0, <1>8, ScheduleElectionStep
<1>9. ASSUME NEW i \in up, RequestVotes(i) PROVE Kept
  BY <1>0, <1>9, RequestVotesStep
<1>10. ASSUME NEW i \in up, WinElection(i) PROVE Kept
  BY <1>0, <1>10, WinElectionStep
<1>11. ASSUME NEW i \in up, ClusterFailoverForce(i) \/ ManualFailoverTimesOut(i) PROVE Kept
  BY <1>0, <1>11, ManualFailoverStep
<1>12. ASSUME NEW i \in up, ClusterFailoverTakeover(i) PROVE Kept
  BY <1>0, <1>12, TakeoverStep
<1>13. ASSUME NEW i \in up, Restart(i) PROVE Kept
  BY <1>0, <1>13, RestartStep
<1>14. QED
  BY <1>0, <1>1, <1>2, <1>3, <1>4, <1>5, <1>6, <1>7, <1>8, <1>9, <1>10, <1>11, <1>12, <1>13 DEF Next

\* Only RequestVotes adds to the requests, and nobody is cut off later.
LEMMA RequestsKept ==
    ASSUME IInv, Next
    PROVE  up' = up /\ \A r \in asked' : r.hdr \in Header
<1>1. ASSUME NEW i \in up, RequestVotes(i) PROVE up' = up /\ \A r \in asked' : r.hdr \in Header
  BY <1>1, RequestVotesStep, Zenon DEF RequestVotes, IInv, NetInv
<1>2. UNCHANGED <<up, asked>> => up' = up /\ \A r \in asked' : r.hdr \in Header
  BY DEF IInv, NetInv
<1>3. QED
  BY <1>1, <1>2, ZenonT(40) DEF Next, Ping, PingDelayed, ReceivePing, ReceiveUpdate,
     ClusterSendFailoverAuthIfNeeded, ReceiveFailoverAuth, MarkNodeAsFailing, ClearNodeFailure,
     ScheduleElection, WinElection, ClusterFailoverForce, ClusterFailoverTakeover,
     ManualFailoverTimesOut, Restart

\* Every step keeps it.
LEMMA NextIInv == IInv /\ [Next]_vars => IInv'
<1> SUFFICES ASSUME IInv, [Next]_vars PROVE IInv'
  OBVIOUS
<1>1. CASE Next
  BY <1>1, NextStep, RequestsKept DEF IInv, NetInv
<1>2. CASE UNCHANGED vars
  BY <1>2 DEF vars, IInv, NodesInv, NetInv
<1>3. QED
  BY <1>1, <1>2

\* The invariant holds in every reachable state.
THEOREM IInvHolds == Spec => []IInv
BY InitIInv, NextIInv, PTL DEF Spec

\* What nodes know has its type, no node follows itself, a replica serves no
\* slots, and no vote was given in an epoch yet to come: the assertions of
\* clusterSetPrimary hold in a cluster of any size.
THEOREM TypeCorrect == Spec => []TypeOK
<1>1. IInv => TypeOK
  BY DEF IInv, NodesInv, Sound, Knowledge, TypeOK, IsReplica, SlotsOf
<1>2. QED
  BY <1>1, IInvHolds, PTL

\* A node of a cluster of any size votes once per epoch, whatever packets are
\* lost, repeated or delayed and however often nodes restart
\* (clusterSendFailoverAuthIfNeeded).
THEOREM VotesAlwaysRemembered == Spec => VotesRemembered
<1> DEFINE Remembers ==
        /\ \A i \in Nodes : node'[i].lastVoteEpoch >= node[i].lastVoteEpoch
        /\ \A p \in net' \ net :
              p.type = "ack" => /\ p.hdr.currentEpoch > node[p.hdr.from].lastVoteEpoch
                                /\ p.hdr.currentEpoch = saved'[p.hdr.from].lastVoteEpoch
<1>1. ASSUME IInv, [Next]_vars PROVE [Remembers]_vars
  <2>0. ASSUME NEW i \in Nodes PROVE node[i].lastVoteEpoch \in Nat
    BY <1>1 DEF IInv, NodesInv, Knowledge
  <2>1. CASE VotesKept /\ NoVoteSent
    BY <2>0, <2>1 DEF VotesKept, NoVoteSent
  <2>2. ASSUME NEW i \in Nodes, NEW e \in Nat, VoteSent(i, e) PROVE Remembers
    BY <2>0, <2>2 DEF VoteSent
  <2>3. CASE Next
    BY <1>1, <2>1, <2>2, <2>3, NextStep
  <2>4. QED
    BY <1>1, <2>3
<1>2. QED
  BY <1>1, IInvHolds, PTL DEF Spec, VotesRemembered
=============================================================================
