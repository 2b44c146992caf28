--------------------------- MODULE Devices_proofs ---------------------------
(***************************************************************************)
(* What Devices promises of descriptors and displays, and of what an index *)
(* names, proved for any number of nodes, descriptors and decoders, and a  *)
(* host that changes as often as it likes; and what the queries that ask   *)
(* one of these devices for its capabilities (Capabilities) agree on, for  *)
(* any table of profiles and any driver.                                   *)
(***************************************************************************)
EXTENDS Devices, Capabilities, FiniteSetTheorems, WellFoundedInduction, TLAPS

(* The steps at which the running call has a descriptor in hand. *)
Holding == {"display", "init", "query", "terminate", "close"}

(* Which step the running call is at. *)
Running ==
  /\ call = None <=> pc = "idle"
  /\ fd # None <=> pc \in Holding
  /\ call \in {"path", "new"} => index \in Indices

IInv == TypeOK /\ Running /\ DisplaysOwned

-----------------------------------------------------------------------------
LEMMA Initially == Init => IInv
<1> SUFFICES ASSUME Init PROVE IInv
  OBVIOUS
<1>1. TypeOK
  <2>1. 0 \in Nodes /\ 0 \in 0..MaxChanges /\ <<>> \in Seq(Nodes)
    BY DevicesAssumption DEF Nodes
  <2> QED
    BY DevicesAssumption, <2>1 DEF Init, TypeOK
<1>2. Running /\ DisplaysOwned
  BY DevicesAssumption DEF Init, Running, DisplaysOwned, Holding, Calls
<1> QED
  BY <1>1, <1>2 DEF IInv

(* What a call does after a node: it returns, goes on to the next node, or *)
(* opens the path found; whatever it does, it touches no descriptor.       *)
LEMMA DoneStep ==
  ASSUME TypeOK, Running, call # None, NEW counts \in BOOLEAN, Done(counts)
  PROVE  /\ registered' \in 0..MaxChanges \cup {None}
         /\ listed' \in [nodes : Seq(Nodes), at : 0..MaxChanges] \cup {None}
         /\ bound' \in Outcomes \cup {None}
         /\ call' \in Calls \cup {None}
         /\ pc' \in {"exists", "open", "idle"}
         /\ minor' \in Nodes
         /\ index' \in Indices \cup {None}
         /\ working' \in Nat
         /\ found' \in Seq(Nodes)
         /\ call' = None <=> pc' = "idle"
         /\ call' \in {"path", "new"} => index' \in Indices
<1>1. since \in 0..MaxChanges /\ minor \in Nodes /\ minor \in Nat
  BY DevicesAssumption DEF TypeOK, Nodes
<1>2. <<>> \in Seq(Nodes) /\ Append(found, minor) \in Seq(Nodes) /\ 0 \in Nodes
  BY DevicesAssumption, <1>1 DEF TypeOK, Nodes
<1>3. ASSUME NEW w \in BOOLEAN, NextNode(w) PROVE minor' \in Nodes /\ pc' = "exists"
  BY DevicesAssumption, <1>1, <1>3 DEF NextNode, Nodes
<1>4. CASE call = "path" /\ WalkOn(counts)
  <2>1. index \in Indices
    BY <1>4 DEF Running
  <2>2. CASE IsIndexed(counts) /\ call' = "new" /\ pc' = "open"
             /\ UNCHANGED <<results, minor, walk>>
    BY DevicesAssumption, <1>1, <2>1, <2>2 DEF TypeOK, results, walk, Calls
  <2>3. CASE NextNode(counts) /\ working' = Counted(counts)
             /\ UNCHANGED <<results, call, index, found>>
    BY DevicesAssumption, <1>3, <1>4, <2>1, <2>3 DEF TypeOK, results, Counted, Calls
  <2>4. CASE bound' = [index |-> index, node |-> None, at |-> since]
             /\ Return /\ UNCHANGED <<registered, listed>>
    BY DevicesAssumption, <1>1, <1>2, <2>1, <2>4 DEF TypeOK, Return, Outcomes, Calls
  <2> QED
    BY <1>4, <2>2, <2>3, <2>4 DEF WalkOn
<1>5. CASE call = "info" /\ InfoOn(counts)
  <2> DEFINE nodes == IF counts THEN Append(found, minor) ELSE found
  <2>1. nodes \in Seq(Nodes)
    BY <1>2 DEF TypeOK
  <2> HIDE DEF nodes
  <2>2. CASE NextNode(counts) /\ found' = nodes /\ UNCHANGED <<results, call, index, working>>
    BY DevicesAssumption, <1>3, <1>5, <2>1, <2>2 DEF TypeOK, results
  <2>3. CASE listed' = [nodes |-> nodes, at |-> since] /\ Return
             /\ UNCHANGED <<registered, bound>>
    <3>1. listed' \in [nodes : Seq(Nodes), at : 0..MaxChanges]
      BY <1>1, <2>1, <2>3
    <3> QED
      BY DevicesAssumption, <1>1, <1>2, <2>3, <3>1 DEF TypeOK, Return, Calls
  <2> QED
    BY <1>5, <2>2, <2>3 DEF InfoOn, nodes
<1>6. CASE call \in {"register", "new", "drop"} /\ ~(call = "path") /\ ~(call = "info")
  <2>1. index \in Indices \cup {None} /\ (call = "new" => index \in Indices)
    BY DEF TypeOK, Running
  <2>2. CASE /\ registered' = (IF counts THEN since ELSE registered)
             /\ Return /\ UNCHANGED <<listed, bound>>
    BY DevicesAssumption, <1>1, <1>2, <2>2 DEF Return, TypeOK, Calls
  <2>3. CASE /\ call = "new" /\ bound' = [index |-> index, node |-> None, at |-> since]
             /\ Return /\ UNCHANGED <<registered, listed>>
    BY DevicesAssumption, <1>1, <1>2, <2>1, <2>3 DEF Return, TypeOK, Outcomes, Calls
  <2>4. CASE Return /\ UNCHANGED results
    BY DevicesAssumption, <1>1, <1>2, <2>4 DEF Return, TypeOK, results, Calls
  <2> QED
    BY <1>6, <2>2, <2>3, <2>4 DEF Done
<1> QED
  BY <1>4, <1>5, <1>6 DEF Done

(* The calls begin. *)
LEMMA BeginStep ==
  ASSUME IInv,
         \/ Register \/ EngineInfo \/ (\E i \in Indices : New(i))
         \/ \E d \in decoders : DropDecoder(d)
  PROVE  IInv'
<1> USE DevicesAssumption
      DEF IInv, TypeOK, Running, DisplaysOwned, Holding, Begin,
          environment, driver, results, walk, local, Calls
<1>1. CASE Register
  BY <1>1 DEF Register
<1>2. CASE EngineInfo
  BY <1>2 DEF EngineInfo
<1>3. ASSUME NEW i \in Indices, New(i) PROVE IInv'
  BY <1>3 DEF New
<1>4. ASSUME NEW d \in decoders, DropDecoder(d) PROVE IInv'
  BY <1>4 DEF DropDecoder
<1> QED
  BY <1>1, <1>2, <1>3, <1>4

(* The steps after which a call may be done with a node. *)
LEMMA DoneWithNode ==
  ASSUME IInv, Exists \/ OpenFails \/ Close
  PROVE  IInv'
<1> USE DevicesAssumption
      DEF IInv, TypeOK, Running, DisplaysOwned, Holding,
          environment, driver, results, walk, local, Calls
<1>1. CASE pc = "exists" /\ pc' = "open"
           /\ UNCHANGED <<results, call, minor, walk>>
           /\ UNCHANGED <<environment, driver, decoders, since, fd, answer>>
  BY <1>1
<1>2. CASE pc \in {"exists", "open"} /\ Done(FALSE)
           /\ UNCHANGED <<environment, driver, decoders, since, fd, answer>>
  <2>1. call # None
    BY <1>2
  <2> QED
    BY <1>2, <2>1, DoneStep
<1>3. CASE Close
  <2>1. call # None /\ answer \in BOOLEAN /\ Done(answer)
    BY <1>3 DEF Close
  <2>2. /\ opened' = opened \ {fd} /\ fd' = None /\ answer' = FALSE
        /\ UNCHANGED <<environment, initialised, decoders, since>>
        /\ pc = "close"
    BY <1>3 DEF Close
  <2>3. pc' \in {"exists", "open", "idle"} /\ (call' = None <=> pc' = "idle")
    BY <2>1, DoneStep
  <2>4. Running'
    BY <2>1, <2>2, <2>3, DoneStep
  <2>5. DisplaysOwned'
    BY <2>2, <2>3
  <2>6. TypeOK'
    BY <2>1, <2>2, DoneStep
  <2> QED
    BY <2>4, <2>5, <2>6
<1> QED
  BY <1>1, <1>2, <1>3 DEF Exists, OpenFails

(* open_drm() and what follows it on a node that opens. *)
LEMMA NodeStep ==
  ASSUME IInv, Open \/ GetDisplay \/ InitializeFails \/ Initialize \/ Query \/ Terminate
  PROVE  IInv'
<1> USE DevicesAssumption
      DEF IInv, TypeOK, Running, DisplaysOwned, Holding,
          environment, driver, results, walk, local, Calls
<1>1. CASE Open
  BY <1>1 DEF Open
<1>2. CASE GetDisplay
  BY <1>2 DEF GetDisplay
<1>3. CASE InitializeFails
  BY <1>3 DEF InitializeFails
<1>4. CASE Initialize
  <2>1. 0 \in Nodes /\ <<>> \in Seq(Nodes) /\ since \in 0..MaxChanges
    BY DEF Nodes
  <2>2. CASE call \in {"path", "info", "register"}
    BY <1>4, <2>2 DEF Initialize
  <2>3. CASE call = "new"
    <3>1. /\ pc = "init" /\ initialised' = initialised \cup {fd}
          /\ decoders' = decoders \cup {fd} /\ fd' = None
          /\ bound' = [index |-> index, node |-> minor, at |-> since]
          /\ Return
          /\ UNCHANGED <<registered, listed, answer, environment, opened, since>>
      BY <1>4, <2>3 DEF Initialize
    <3>2. bound' \in Outcomes
      BY <2>1, <2>3, <3>1 DEF Outcomes
    <3>3. TypeOK'
      BY <2>1, <3>1, <3>2 DEF Return
    <3>4. Running' /\ DisplaysOwned'
      BY <3>1 DEF Return
    <3> QED
      BY <3>3, <3>4
  <2> QED
    BY <1>4, <2>2, <2>3 DEF Initialize
<1>5. CASE Query
  BY <1>5 DEF Query
<1>6. CASE Terminate
  BY <1>6 DEF Terminate
<1> QED
  BY <1>1, <1>2, <1>3, <1>4, <1>5, <1>6

LEMMA Step == IInv /\ [Next]_vars => IInv'
<1> SUFFICES ASSUME IInv, [Next]_vars PROVE IInv'
  OBVIOUS
<1>1. CASE Next /\ ~(\E n \in Nodes, level \in Levels : Change(n, level))
  BY <1>1, BeginStep, DoneWithNode, NodeStep DEF Next, Proceed
<1>2. ASSUME NEW n \in Nodes, NEW level \in Levels, Change(n, level) PROVE IInv'
  BY <1>2, DevicesAssumption DEF Change, IInv, TypeOK, Running, DisplaysOwned, driver,
       results, walk, local, Calls
<1>3. CASE UNCHANGED vars
  BY <1>3 DEF vars, IInv, TypeOK, Running, DisplaysOwned, environment, driver, results,
       walk, local
<1> QED
  BY <1>1, <1>2, <1>3

LEMMA Inductive == Spec => []IInv
<1>1. Init => IInv
  BY Initially
<1>2. IInv /\ [Next]_vars => IInv'
  BY Step
<1> QED
  BY <1>1, <1>2, PTL DEF Spec

-----------------------------------------------------------------------------
(* Every reachable state is of its type. *)
THEOREM TypeCorrect == Spec => []TypeOK
<1>1. IInv => TypeOK
  BY DEF IInv
<1> QED
  BY <1>1, Inductive, PTL

(* No path out of open_drm(), of a walk or of Drop gives up a descriptor   *)
(* or leaves a display initialised, and none closes what a decoder uses,   *)
(* however the nodes answer and change.                                    *)
THEOREM DisplaysNeverLeak == Spec => []DisplaysOwned
<1>1. IInv => DisplaysOwned
  BY DEF IInv
<1> QED
  BY <1>1, Inductive, PTL
-----------------------------------------------------------------------------
(* What an index names.  While the host stays as it is, the walks agree    *)
(* because each numbers a node by the working nodes below it.              *)

(* The nodes that open_drm() succeeds on. *)
Openable == {n \in Nodes : library /\ host[n] > Driverless}

(* A node's index among them. *)
Rank(W, n) == Cardinality({m \in W : m < n})

(* The nodes of W below n, each in the place of its rank. *)
Ranked(W, nodes, n) ==
  /\ Len(nodes) = Rank(W, n)
  /\ \A k \in 1..Len(nodes) :
       nodes[k] \in W /\ nodes[k] < n /\ Rank(W, nodes[k]) = k - 1

(* Every driver that initialises can be queried. *)
NoneMute == \A n \in Nodes : host[n] # Mute

(* How far the node has got is how far it goes, if the host has not changed. *)
Reached ==
  /\ pc \in {"display", "init", "query", "terminate"} => library /\ host[minor] > Shut
  /\ pc = "init" => host[minor] > Displayless
  /\ pc \in {"query", "terminate"} => minor \in Openable
  /\ pc = "query" => call \in {"info", "register"}

(* What a walk is to make of the node. *)
Truth(counts) ==
  /\ call = "path" => (counts <=> minor \in Openable)
  /\ call = "info" => (counts <=> library /\ host[minor] > Mute)
  /\ call = "register" => (counts => minor \in Openable)
  /\ call # "new"

Answered ==
  /\ pc \in {"exists", "open", "display", "init", "query", "idle"} => ~answer
  /\ since = changes /\ call \notin {None, "drop"} =>
       Reached /\ (pc \in {"terminate", "close"} => Truth(answer))

(* The walk has numbered the nodes below this one. *)
Numbered ==
  /\ call \notin {"path", "info", "new"} => minor = 0 /\ working = 0 /\ found = <<>>
  /\ since = changes =>
       /\ call = "path" => working = Rank(Openable, minor) /\ working <= index
       /\ call = "new" => minor \in Openable /\ Rank(Openable, minor) = index
       /\ call = "info" /\ NoneMute => Ranked(Openable, found, minor)

(* Nothing was noted in a host that is still to come. *)
Past ==
  /\ registered # None => registered <= changes
  /\ listed # None => listed.at <= changes
  /\ bound # None => bound.at <= changes

(* What was noted in this host is true of it. *)
RegisteredNow == registered = changes => 0 \in Openable
ListedNow ==
  listed # None /\ listed.at = changes /\ NoneMute =>
    Ranked(Openable, listed.nodes, Last + 1)
BoundNow ==
  bound # None /\ bound.at = changes =>
    IF bound.node = None THEN Rank(Openable, Last + 1) <= bound.index
    ELSE bound.node \in Openable /\ Rank(Openable, bound.node) = bound.index

Noted == Past /\ RegisteredNow /\ ListedNow /\ BoundNow

(* There is a descriptor for every decoder, and one for the walk. *)
Spare == IsFiniteSet(Fds) /\ Cardinality(Fds) > MaxDecoders

Few ==
  /\ Cardinality(decoders) <= MaxDecoders
  /\ call \in {"path", "new"} => Cardinality(decoders) < MaxDecoders

Indexed == Answered /\ Numbered /\ Noted /\ Few

LEMMA RankType ==
  ASSUME NEW W \in SUBSET Nodes, NEW n \in Nat
  PROVE  /\ IsFiniteSet({m \in W : m < n})
         /\ Rank(W, n) \in Nat
<1>1. IsFiniteSet(0..Last)
  BY DevicesAssumption, FS_Interval
<1>2. IsFiniteSet({m \in W : m < n})
  BY <1>1, FS_Subset DEF Nodes
<1> QED
  BY <1>2, FS_CardinalityType DEF Rank

LEMMA RankZero ==
  ASSUME NEW W \in SUBSET Nodes
  PROVE  Rank(W, 0) = 0
<1>1. \A m \in W : m \in Nat /\ ~(m < 0)
  BY DevicesAssumption DEF Nodes
<1>2. {m \in W : m < 0} = {}
  BY <1>1
<1> QED
  BY <1>2, FS_EmptySet DEF Rank

LEMMA RankNext ==
  ASSUME NEW W \in SUBSET Nodes, NEW n \in Nat
  PROVE  Rank(W, n + 1) = IF n \in W THEN Rank(W, n) + 1 ELSE Rank(W, n)
<1> DEFINE B == {m \in W : m < n}
           C == {m \in W : m < n + 1}
<1>1. IsFiniteSet(B)
  BY RankType
<1>2. \A m \in W : m \in Nat /\ (m < n + 1 <=> m < n \/ m = n)
  BY DevicesAssumption DEF Nodes
<1>3. \A m : m \in C <=> m \in B \/ (m = n /\ n \in W)
  BY <1>2
<1>4. n \notin B
  <2> SUFFICES ASSUME n \in B PROVE FALSE
    OBVIOUS
  <2>1. n < n
    OBVIOUS
  <2> QED
    BY <2>1
<1> HIDE DEF B, C
<1>5. C = IF n \in W THEN B \cup {n} ELSE B
  BY <1>3
<1>6. Cardinality(B \cup {n}) = Cardinality(B) + 1
  BY <1>1, <1>4, FS_AddElement
<1>7. Rank(W, n) = Cardinality(B) /\ Rank(W, n + 1) = Cardinality(C)
  BY DEF Rank, B, C
<1> QED
  BY <1>5, <1>6, <1>7

(* A node that works has a smaller rank than what is above it. *)
LEMMA RankGrows ==
  ASSUME NEW W \in SUBSET Nodes, NEW m \in W, NEW n \in Nat, m < n
  PROVE  Rank(W, m) < Rank(W, n)
<1> DEFINE A == {k \in W : k < m + 1}
           B == {k \in W : k < n}
<1>1. m \in Nat /\ m + 1 \in Nat
  BY DevicesAssumption DEF Nodes
<1>2. \A k \in W : k \in Nat /\ (k < m + 1 => k < n)
  BY <1>1, DevicesAssumption DEF Nodes
<1>3. A \in SUBSET B
  BY <1>2
<1>4. IsFiniteSet(B)
  BY RankType
<1> HIDE DEF A, B
<1>5. Cardinality(A) <= Cardinality(B)
  BY <1>3, <1>4, FS_Subset
<1>6. Rank(W, m + 1) = Cardinality(A) /\ Rank(W, n) = Cardinality(B)
  BY DEF Rank, A, B
<1>7. Rank(W, m + 1) = Rank(W, m) + 1
  BY <1>1, RankNext
<1>8. Rank(W, m) \in Nat /\ Rank(W, n) \in Nat
  BY <1>1, RankType
<1> QED
  BY <1>5, <1>6, <1>7, <1>8

LEMMA RankedNext ==
  ASSUME NEW W \in SUBSET Nodes, NEW nodes \in Seq(Nodes), NEW n \in Nodes,
         Ranked(W, nodes, n), NEW counts \in BOOLEAN, counts <=> n \in W
  PROVE  Ranked(W, IF counts THEN Append(nodes, n) ELSE nodes, n + 1)
<1> n \in Nat
  BY DevicesAssumption DEF Nodes
<1>1. Rank(W, n) \in Nat
  BY RankType
<1>2. Rank(W, n + 1) = IF n \in W THEN Rank(W, n) + 1 ELSE Rank(W, n)
  BY <1>1, RankNext
<1>3. \A k \in 1..Len(nodes) : nodes[k] \in Nat /\ nodes[k] < n + 1
  BY <1>1, DevicesAssumption DEF Ranked, Nodes
<1>4. CASE counts
  <2> DEFINE longer == Append(nodes, n)
  <2>1. /\ Len(longer) = Len(nodes) + 1
        /\ \A k \in 1..Len(longer) : longer[k] = IF k = Len(longer) THEN n ELSE nodes[k]
    OBVIOUS
  <2> HIDE DEF longer
  <2>2. Len(nodes) \in Nat
    OBVIOUS
  <2>3. Len(longer) = Rank(W, n + 1)
    BY <1>1, <1>2, <1>4, <2>1 DEF Ranked
  <2>4. ASSUME NEW k \in 1..Len(longer)
        PROVE  longer[k] \in W /\ longer[k] < n + 1 /\ Rank(W, longer[k]) = k - 1
    <3>1. CASE k = Len(longer)
      BY <1>1, <1>4, <2>1, <2>2, <3>1 DEF Ranked
    <3>2. CASE k # Len(longer)
      <4>1. k \in 1..Len(nodes) /\ longer[k] = nodes[k]
        BY <2>1, <2>2, <3>2
      <4> QED
        BY <1>3, <4>1 DEF Ranked
    <3> QED
      BY <3>1, <3>2
  <2>5. Ranked(W, longer, n + 1)
    BY <2>3, <2>4 DEF Ranked
  <2> QED
    BY <1>4, <2>5 DEF longer
<1>5. CASE ~counts
  BY <1>2, <1>3, <1>5 DEF Ranked
<1> QED
  BY <1>4, <1>5

LEMMA RankedNone == ASSUME NEW W \in SUBSET Nodes PROVE Ranked(W, <<>>, 0)
  BY RankZero DEF Ranked

LEMMA InitiallyIndexed == Init => Indexed
<1> SUFFICES ASSUME Init PROVE Indexed
  OBVIOUS
<1>1. /\ call = None /\ pc = "idle" /\ minor = 0 /\ working = 0 /\ found = <<>>
      /\ changes = 0 /\ registered = None /\ listed = None /\ bound = None
      /\ decoders = {}
  BY DEF Init
<1>2. ~answer
  BY Zenon DEF Init
<1>3. None \notin {"path", "info", "new"} /\ None # 0
  BY DevicesAssumption DEF Calls
<1>4. Answered
  BY <1>1, <1>2 DEF Answered
<1>5. Numbered
  BY <1>1, <1>3 DEF Numbered
<1>6. Noted
  BY <1>1, <1>3 DEF Noted, Past, RegisteredNow, ListedNow, BoundNow
<1>7. Cardinality(decoders) = 0
  BY <1>1, FS_EmptySet
<1>8. Few
  BY <1>1, <1>3, <1>7, DevicesAssumption DEF Few
<1> QED
  BY <1>4, <1>5, <1>6, <1>8 DEF Indexed

LEMMA HostKept ==
  ASSUME UNCHANGED environment
  PROVE  Openable' = Openable /\ (NoneMute' <=> NoneMute) /\ changes' = changes
  BY DEF Openable, NoneMute, environment

LEMMA ReturnNumbers == Return => Numbered' /\ call' \notin {"path", "new"}
  BY DevicesAssumption DEF Return, Numbered, Calls

(* A walk that takes a node for what it is numbers the next one right.     *)
LEMMA DoneNumbers ==
  ASSUME IInv, Numbered, Noted, call # None, UNCHANGED <<environment, since>>,
         NEW counts \in BOOLEAN, Done(counts),
         since = changes /\ call # "drop" => Truth(counts)
  PROVE  Numbered' /\ Noted' /\ (call' \in {"path", "new"} => call \in {"path", "new"})
<1> DEFINE W == Openable
<1>1. W' = W /\ (NoneMute' <=> NoneMute) /\ changes' = changes /\ since' = since
  BY HostKept
<1>2. /\ W \in SUBSET Nodes /\ minor \in Nodes /\ minor \in Nat
      /\ since \in 0..changes /\ since # None
      /\ found \in Seq(Nodes) /\ working \in Nat /\ index \in Indices \cup {None}
  BY DevicesAssumption DEF IInv, TypeOK, Openable, Nodes
<1> Rank(W, minor) \in Nat
  BY <1>2, RankType
<1>3. Rank(W, minor + 1) = IF minor \in W THEN Rank(W, minor) + 1 ELSE Rank(W, minor)
  BY <1>2, RankNext
<1>4. 0 \in Nodes /\ Last \in Nat
  BY DevicesAssumption DEF Nodes
<1> HIDE DEF W
<1>5. CASE call = "path" /\ WalkOn(counts)
  <2>1. index \in Nat
    BY <1>5, DevicesAssumption DEF IInv, Running
  <2>2. since = changes =>
          working = Rank(W, minor) /\ working <= index /\ (counts <=> minor \in W)
    BY <1>5 DEF Numbered, Truth, W
  <2>3. CASE IsIndexed(counts) /\ call' = "new" /\ pc' = "open"
             /\ UNCHANGED <<results, minor, walk>>
    <3>1. Numbered'
      BY <1>1, <2>2, <2>3 DEF Numbered, IsIndexed, walk, W
    <3>2. Noted'
      BY <1>1, <2>3 DEF Noted, Past, RegisteredNow, ListedNow, BoundNow, results, W
    <3> QED
      BY <1>5, <3>1, <3>2
  <2>4. CASE ~IsIndexed(counts) /\ NextNode(counts) /\ working' = Counted(counts)
             /\ UNCHANGED <<results, call, index, found>>
    <3>1. minor' = minor + 1
      BY <2>4 DEF NextNode
    <3>2. since = changes => working' = Rank(W, minor') /\ working' <= index
      BY <1>2, <1>3, <2>1, <2>2, <2>4, <3>1 DEF IsIndexed, Counted
    <3>3. Numbered'
      BY <1>1, <1>5, <2>4, <3>2 DEF Numbered, W
    <3>4. Noted'
      BY <1>1, <2>4 DEF Noted, Past, RegisteredNow, ListedNow, BoundNow, results, W
    <3> QED
      BY <1>5, <2>4, <3>3, <3>4
  <2>5. CASE /\ ~IsIndexed(counts) /\ minor = Last
             /\ bound' = [index |-> index, node |-> None, at |-> since]
             /\ Return /\ UNCHANGED <<registered, listed>>
    <3>1. since = changes => Rank(W, Last + 1) <= index
      BY <1>2, <1>3, <2>1, <2>2, <2>5 DEF IsIndexed
    <3>2. BoundNow' /\ Past'
      BY <1>1, <1>2, <2>5, <3>1 DEF BoundNow, Noted, Past, W
    <3>3. Noted'
      BY <1>1, <2>5, <3>2 DEF Noted, RegisteredNow, ListedNow, W
    <3>4. Numbered' /\ call' \notin {"path", "new"}
      BY <2>5, ReturnNumbers
    <3> QED
      BY <1>5, <3>3, <3>4
  <2> QED
    BY <1>5, <2>3, <2>4, <2>5 DEF WalkOn
<1>6. CASE call = "info" /\ InfoOn(counts)
  <2> DEFINE nodes == IF counts THEN Append(found, minor) ELSE found
  <2>1. since = changes /\ NoneMute => Ranked(W, nodes, minor + 1)
    <3> SUFFICES ASSUME since = changes, NoneMute PROVE Ranked(W, nodes, minor + 1)
      OBVIOUS
    <3>1. host[minor] \in Levels /\ host[minor] # Mute
      BY <1>2 DEF IInv, TypeOK, NoneMute
    <3>2. counts <=> library /\ host[minor] > Mute
      BY <1>6 DEF Truth
    <3>3. host[minor] > Mute <=> host[minor] > Driverless
      BY <3>1 DEF Levels, Mute, Driverless, Absent, Able
    <3>4. minor \in W <=> library /\ host[minor] > Driverless
      BY <1>2 DEF W, Openable
    <3>5. Ranked(W, found, minor)
      BY <1>6 DEF Numbered, W
    <3>6. counts <=> minor \in W
      BY <3>2, <3>3, <3>4
    <3> QED
      BY <1>2, <3>5, <3>6, RankedNext
  <2> HIDE DEF nodes
  <2>2. CASE NextNode(counts) /\ found' = nodes /\ UNCHANGED <<results, call, index, working>>
    <3>1. Numbered'
      BY <1>1, <1>6, <2>1, <2>2 DEF Numbered, NextNode, W
    <3>2. Noted'
      BY <1>1, <2>2 DEF Noted, Past, RegisteredNow, ListedNow, BoundNow, results, W
    <3> QED
      BY <1>6, <2>2, <3>1, <3>2
  <2>3. CASE /\ minor = Last /\ listed' = [nodes |-> nodes, at |-> since]
             /\ Return /\ UNCHANGED <<registered, bound>>
    <3>1. ListedNow' /\ Past'
      BY <1>1, <1>2, <2>1, <2>3 DEF ListedNow, Noted, Past, W
    <3>2. Noted'
      BY <1>1, <2>3, <3>1 DEF Noted, RegisteredNow, BoundNow, W
    <3>3. Numbered' /\ call' \notin {"path", "new"}
      BY <2>3, ReturnNumbers
    <3> QED
      BY <1>6, <2>3, <3>2, <3>3 DEF Return
  <2> QED
    BY <1>6, <2>2, <2>3 DEF InfoOn, nodes
<1>7. CASE /\ call = "register" /\ registered' = IF counts THEN since ELSE registered
           /\ Return /\ UNCHANGED <<listed, bound>>
  <2>1. Numbered' /\ call' \notin {"path", "new"}
    BY <1>7, ReturnNumbers
  <2>2. since = changes /\ counts => 0 \in W
    BY <1>7 DEF Numbered, Truth, W
  <2>3. RegisteredNow' /\ Past'
    BY <1>1, <1>2, <1>7, <2>2 DEF RegisteredNow, Noted, Past, W
  <2>4. Noted'
    BY <1>1, <1>7, <2>3 DEF Noted, ListedNow, BoundNow, W
  <2> QED
    BY <1>7, <2>1, <2>4 DEF Return
<1>8. CASE /\ call = "new" /\ bound' = [index |-> index, node |-> None, at |-> since]
           /\ Return /\ UNCHANGED <<registered, listed>>
  <2>1. Numbered' /\ call' \notin {"path", "new"}
    BY <1>8, ReturnNumbers
  <2>2. since # changes
    BY <1>8 DEF Truth
  <2>3. BoundNow' /\ Past'
    BY <1>1, <1>2, <1>8, <2>2 DEF BoundNow, Noted, Past
  <2>4. Noted'
    BY <1>1, <1>8, <2>3 DEF Noted, RegisteredNow, ListedNow, W
  <2> QED
    BY <1>8, <2>1, <2>4
<1>9. CASE call = "drop" /\ Return /\ UNCHANGED results
  <2>1. Numbered' /\ call' \notin {"path", "new"}
    BY <1>9, ReturnNumbers
  <2>2. Noted'
    BY <1>1, <1>9 DEF Noted, Past, RegisteredNow, ListedNow, BoundNow, results, W
  <2> QED
    BY <1>9, <2>1, <2>2 DEF Return
<1> QED
  BY <1>5, <1>6, <1>7, <1>8, <1>9 DEF Done

(* What is numbered and noted stays while a node is opened and asked.      *)
LEMMA NumbersKept ==
  ASSUME Numbered, Noted, Few,
         UNCHANGED <<environment, decoders, results, call, since, minor, walk>>
  PROVE  Numbered' /\ Noted' /\ Few'
<1>1. Openable' = Openable /\ (NoneMute' <=> NoneMute) /\ changes' = changes
  BY HostKept
<1>2. Numbered'
  BY <1>1 DEF Numbered, walk
<1>3. Noted'
  BY <1>1 DEF Noted, Past, RegisteredNow, ListedNow, BoundNow, results
<1> QED
  BY <1>2, <1>3 DEF Few

(* A node that goes no further than this does not work, and no decoder is  *)
(* being made on it in the host its path was found in.                     *)
LEMMA NotOpenable ==
  ASSUME IInv, Numbered, minor \notin Openable, since = changes, NEW counts, ~counts
  PROVE  Truth(counts)
<1>1. call # "new"
  BY DEF Numbered
<1>2. ~(library /\ host[minor] > Mute)
  BY DEF Openable, IInv, TypeOK, Levels, Absent, Able, Mute, Driverless
<1> QED
  BY <1>1, <1>2 DEF Truth

(* open() finds a descriptor. *)
LEMMA DescriptorLeft ==
  ASSUME Spare, IInv, Few, pc = "open"
  PROVE  ~(Fds \subseteq opened)
<1>1. opened = decoders /\ decoders \subseteq Fds
  BY DEF IInv, Running, Holding, DisplaysOwned, TypeOK
<1>2. Fds \subseteq opened => Fds = decoders
  BY <1>1
<1>3. Cardinality(Fds) \in Nat
  BY FS_CardinalityType DEF Spare
<1> QED
  BY <1>2, <1>3, DevicesAssumption DEF Spare, Few

(* A call begins with the first node. *)
LEMMA BeginIndexed ==
  ASSUME Spare, IInv, Indexed,
         \/ Register \/ EngineInfo \/ (\E i \in Indices : New(i))
         \/ \E d \in decoders : DropDecoder(d)
  PROVE  Indexed'
<1> USE DEF Indexed
<1>1. Openable' = Openable /\ (NoneMute' <=> NoneMute) /\ changes' = changes
      /\ Openable \in SUBSET Nodes
  <2>1. UNCHANGED environment
    BY DEF Register, EngineInfo, New, DropDecoder, Begin
  <2> QED
    BY <2>1, HostKept DEF Openable
<1>2. pc = "idle" /\ call = None /\ ~answer /\ answer' = answer
  BY DEF Register, EngineInfo, New, DropDecoder, Begin, IInv, Running, Answered
<1>3. minor = 0 /\ working = 0 /\ found = <<>>
  BY <1>2, DevicesAssumption DEF Numbered, Calls
<1>4. UNCHANGED results /\ minor' = 0 /\ working' = 0 /\ found' = <<>>
  BY <1>3 DEF Register, EngineInfo, New, DropDecoder, Begin, walk
<1>5. Noted'
  BY <1>1, <1>4 DEF Noted, Past, RegisteredNow, ListedNow, BoundNow, results
<1>6. Answered'
  <2>1. pc' = "exists" \/ (pc' = "terminate" /\ call' = "drop")
    BY DEF Register, EngineInfo, New, DropDecoder, Begin
  <2>2. ~answer'
    BY <1>2
  <2> QED
    BY <2>1, <2>2 DEF Answered, Reached
<1>7. Numbered'
  <2>1. Rank(Openable, 0) = 0 /\ Ranked(Openable, <<>>, 0)
    BY <1>1, RankZero, RankedNone
  <2>2. call' \in {"register", "info", "drop"} \/ (call' = "path" /\ index' \in Indices)
    BY DEF Register, EngineInfo, New, DropDecoder, Begin
  <2>3. \A i \in Indices : 0 <= i
    BY DevicesAssumption
  <2> QED
    BY <1>1, <1>4, <2>1, <2>2, <2>3 DEF Numbered
<1>8. Few'
  <2>1. CASE Register \/ EngineInfo
    BY <2>1 DEF Few, Register, EngineInfo, Begin
  <2>2. ASSUME NEW i \in Indices, New(i) PROVE Few'
    BY <2>2 DEF Few, New, Begin
  <2>3. ASSUME NEW d \in decoders, DropDecoder(d) PROVE Few'
    <3>1. decoders' = decoders \ {d} /\ call' = "drop"
      BY <2>3 DEF DropDecoder
    <3>2. IsFiniteSet(decoders)
      BY FS_Subset DEF Spare, IInv, TypeOK
    <3>3. Cardinality(decoders') <= Cardinality(decoders)
      BY <3>1, <3>2, FS_Subset
    <3>4. Cardinality(decoders) \in Nat /\ Cardinality(decoders') \in Nat
      BY <3>1, <3>2, FS_Subset, FS_CardinalityType
    <3> QED
      BY <3>1, <3>3, <3>4, DevicesAssumption DEF Few
  <2> QED
    BY <2>1, <2>2, <2>3
<1> QED
  BY <1>5, <1>6, <1>7, <1>8

(* The steps after which a call may be done with a node. *)
LEMMA DoneIndexed ==
  ASSUME Spare, IInv, Indexed, Exists \/ OpenFails \/ Close
  PROVE  Indexed'
<1> USE DEF Indexed
<1>1. CASE pc = "exists" /\ pc' = "open" /\ UNCHANGED <<results, call, minor, walk>>
           /\ UNCHANGED <<environment, driver, decoders, since, fd, answer>>
  <2>1. Numbered' /\ Noted' /\ Few'
    BY <1>1, NumbersKept
  <2>2. Answered'
    BY <1>1 DEF Answered, Reached
  <2> QED
    BY <2>1, <2>2
<1>2. ASSUME NEW counts \in BOOLEAN, Done(counts), call # None,
             UNCHANGED <<environment, decoders, since>>, ~answer',
             since = changes /\ call # "drop" => Truth(counts)
      PROVE  Indexed'
  <2>1. Numbered' /\ Noted' /\ (call' \in {"path", "new"} => call \in {"path", "new"})
    BY <1>2, DoneNumbers
  <2>2. pc' \in {"exists", "open", "idle"}
    BY <1>2, DoneStep DEF IInv
  <2>3. Answered'
    BY <1>2, <2>2 DEF Answered, Reached
  <2>4. Few'
    BY <1>2, <2>1 DEF Few
  <2> QED
    BY <2>1, <2>3, <2>4
<1>3. CASE pc \in {"exists", "open"} /\ Done(FALSE) /\ minor \notin Openable
           /\ UNCHANGED <<environment, driver, decoders, since, fd, answer>>
  <2>1. call # None /\ ~answer'
    BY <1>3 DEF IInv, Running, Answered
  <2>2. since = changes => Truth(FALSE)
    BY <1>3, NotOpenable
  <2> QED
    BY <1>2, <1>3, <2>1, <2>2
<1>4. CASE Exists
  <2>1. host[minor] = Absent => minor \notin Openable
    BY DEF Openable, Absent, Driverless
  <2> QED
    BY <1>1, <1>3, <1>4, <2>1 DEF Exists
<1>5. CASE OpenFails
  <2>1. ~library \/ host[minor] <= Shut
    BY <1>5, DescriptorLeft DEF OpenFails
  <2>2. minor \notin Openable
    BY <2>1 DEF Openable, Shut, Driverless, IInv, TypeOK, Levels, Absent, Able
  <2> QED
    BY <1>3, <1>5, <2>2 DEF OpenFails
<1>6. CASE Close
  <2>1. pc = "close" /\ Done(answer) /\ UNCHANGED <<environment, decoders, since>>
    BY <1>6 DEF Close
  <2>2. ~answer'
    BY <1>6, Zenon DEF Close
  <2>3. answer \in BOOLEAN /\ call # None
    BY <2>1 DEF IInv, TypeOK, Running
  <2>4. since = changes /\ call # "drop" => Truth(answer)
    BY <2>1, <2>3 DEF Answered
  <2> QED
    BY <1>2, <2>1, <2>2, <2>3, <2>4
<1> QED
  BY <1>4, <1>5, <1>6

(* open_drm() and what follows it on a node that opens. *)
LEMMA NodeIndexed ==
  ASSUME Spare, IInv, Indexed,
         Open \/ GetDisplay \/ InitializeFails \/ Initialize \/ Query \/ Terminate
  PROVE  Indexed'
<1> USE DEF Indexed
<1>1. ASSUME UNCHANGED <<environment, decoders, results, call, since, minor, walk>>
      PROVE  /\ Numbered' /\ Noted' /\ Few'
             /\ Openable' = Openable /\ changes' = changes
  BY <1>1, NumbersKept, HostKept
<1>2. minor \in Openable <=> library /\ host[minor] > Driverless
  BY DEF Openable, IInv, TypeOK
<1>3. host[minor] \in 0..6
  BY DEF IInv, TypeOK, Levels, Absent, Able
<1>4. CASE Open
  <2>1. /\ pc' = "display" /\ library /\ host[minor] > Shut /\ ~answer'
        /\ UNCHANGED <<environment, decoders, results, call, since, minor, walk>>
    BY <1>4 DEF Open, Answered
  <2>2. Answered'
    BY <2>1 DEF Answered, Reached, environment
  <2> QED
    BY <1>1, <2>1, <2>2
<1>5. CASE GetDisplay \/ InitializeFails
  <2>1. /\ pc \in {"display", "init"} /\ pc' \in {"init", "close"}
        /\ pc' = "init" => host[minor] > Displayless /\ pc = "display"
        /\ pc' = "close" => minor \notin Openable
        /\ UNCHANGED <<environment, decoders, results, call, since, minor, walk, answer>>
    BY <1>2, <1>3, <1>5 DEF GetDisplay, InitializeFails, local, Displayless, Driverless
  <2>2. ~answer /\ answer' = answer
    BY <2>1 DEF Answered
  <2>3. since = changes /\ pc' = "close" => Truth(answer)
    BY <2>1, <2>2, NotOpenable
  <2>4. (Truth(answer))' <=> Truth(answer)
    BY <1>1, <2>1 DEF Truth, environment
  <2>5. Answered'
    BY <1>1, <2>1, <2>2, <2>3, <2>4 DEF Answered, Reached, environment
  <2> QED
    BY <1>1, <2>1, <2>5
<1>6. CASE Initialize
  <2>1. /\ pc = "init" /\ host[minor] > Driverless /\ ~answer
        /\ UNCHANGED environment /\ UNCHANGED since
    BY <1>6 DEF Initialize, Answered
  <2>2. since = changes /\ call \in {"path", "info", "register"} =>
          library /\ minor \in Openable /\ host[minor] > Shut
    BY <1>2, <2>1, DevicesAssumption DEF Answered, Reached, Calls
  <2>3. CASE call = "path" /\ pc' = "terminate" /\ answer' = TRUE
             /\ UNCHANGED <<decoders, results, call, minor, fd, walk>>
    <3>1. Numbered' /\ Noted' /\ Few' /\ Openable' = Openable /\ changes' = changes
      BY <1>1, <2>1, <2>3
    <3>2. answer'
      BY <2>3
    <3>3. since = changes => Reached' /\ (Truth(answer))'
      BY <1>2, <2>1, <2>2, <2>3, <3>1, <3>2 DEF Reached, Truth, environment
    <3>4. Answered'
      BY <2>1, <2>3, <3>1, <3>3 DEF Answered
    <3> QED
      BY <3>1, <3>4
  <2>4. CASE call \in {"info", "register"} /\ pc' = "query"
             /\ UNCHANGED <<decoders, results, call, minor, fd, answer, walk>>
    <3>1. Numbered' /\ Noted' /\ Few' /\ Openable' = Openable /\ changes' = changes
      BY <1>1, <2>1, <2>4
    <3>2. since = changes => Reached'
      BY <1>2, <2>1, <2>2, <2>4, <3>1 DEF Reached, environment
    <3>3. Answered'
      BY <2>1, <2>4, <3>1, <3>2 DEF Answered
    <3> QED
      BY <3>1, <3>3
  <2>5. CASE call = "new" /\ decoders' = decoders \cup {fd} /\ fd' = None
             /\ bound' = [index |-> index, node |-> minor, at |-> since]
             /\ Return /\ UNCHANGED <<registered, listed, answer>>
    <3>1. Openable' = Openable /\ changes' = changes /\ (NoneMute' <=> NoneMute)
      BY <2>1, HostKept
    <3>2. Numbered' /\ call' \notin {"path", "new"}
      BY <2>5, ReturnNumbers
    <3>3. Answered'
      BY <2>1, <2>5 DEF Answered, Return
    <3>4. minor # None /\ since \in 0..changes
      BY DevicesAssumption DEF IInv, TypeOK, Nodes
    <3>5. since = changes => minor \in Openable /\ Rank(Openable, minor) = index
      BY <2>5 DEF Numbered
    <3>6. BoundNow' /\ Past'
      BY <2>5, <3>1, <3>4, <3>5 DEF BoundNow, Noted, Past
    <3>7. Noted'
      BY <2>5, <3>1, <3>6 DEF Noted, RegisteredNow, ListedNow
    <3>8. Cardinality(decoders) < MaxDecoders /\ IsFiniteSet(decoders)
      BY <2>5, FS_Subset DEF Few, Spare, IInv, TypeOK
    <3>9. Cardinality(decoders) \in Nat
      BY <3>8, FS_CardinalityType
    <3>10. \/ Cardinality(decoders \cup {fd}) = Cardinality(decoders)
           \/ Cardinality(decoders \cup {fd}) = Cardinality(decoders) + 1
      BY <3>8, FS_AddElement
    <3>11. Cardinality(decoders \cup {fd}) \in Nat
      BY <3>8, FS_AddElement, FS_CardinalityType
    <3>12. Cardinality(decoders') <= MaxDecoders
      BY <2>5, <3>8, <3>9, <3>10, <3>11, DevicesAssumption
    <3>13. Few'
      BY <3>2, <3>12 DEF Few
    <3> QED
      BY <3>2, <3>3, <3>7, <3>13
  <2> QED
    BY <1>6, <2>3, <2>4, <2>5 DEF Initialize
<1>7. CASE Query
  <2>1. /\ pc = "query" /\ pc' = "terminate"
        /\ UNCHANGED <<environment, decoders, results, call, since, minor, walk>>
    BY <1>7 DEF Query
  <2>2. answer' <=> host[minor] > IF call = "info" THEN Mute ELSE Idle
    BY <1>7, Zenon DEF Query
  <2>3. since = changes /\ call \notin {None, "drop"} => Reached
    BY DEF Answered
  <2>4. since = changes /\ call \notin {None, "drop"} => Reached' /\ (Truth(answer))'
    <3> SUFFICES ASSUME since = changes, call \notin {None, "drop"}
                 PROVE  Reached' /\ (Truth(answer))'
      OBVIOUS
    <3>1. /\ library /\ host[minor] > Shut /\ minor \in Openable
          /\ call \in {"info", "register"}
      BY <2>1, <2>3 DEF Reached
    <3>2. Reached'
      BY <1>1, <2>1, <3>1 DEF Reached, environment
    <3>3. call = "info" => (answer' <=> host[minor] > Mute)
      BY <2>2
    <3>4. (Truth(answer))'
      BY <1>1, <2>1, <3>1, <3>3 DEF Truth, environment
    <3> QED
      BY <3>2, <3>4
  <2>5. Answered'
    BY <1>1, <2>1, <2>4 DEF Answered
  <2> QED
    BY <1>1, <2>1, <2>5
<1>8. CASE Terminate
  <2>1. /\ pc = "terminate" /\ pc' = "close"
        /\ UNCHANGED <<environment, decoders, results, call, since, minor, walk, answer>>
    BY <1>8 DEF Terminate, local
  <2>2. (Truth(answer))' <=> Truth(answer)
    BY <1>1, <2>1 DEF Truth, environment
  <2>3. Answered'
    BY <1>1, <2>1, <2>2 DEF Answered, Reached
  <2> QED
    BY <1>1, <2>1, <2>3
<1> QED
  BY <1>4, <1>5, <1>6, <1>7, <1>8

(* In a changed host nothing is known of what was found before. *)
LEMMA ChangeIndexed ==
  ASSUME IInv, Indexed, NEW n \in Nodes, NEW level \in Levels, Change(n, level)
  PROVE  Indexed'
<1> USE DEF Indexed
<1>1. /\ changes' = changes + 1
      /\ UNCHANGED <<decoders, results, call, pc, local, walk>>
  BY DEF Change
<1>2. since \in 0..changes /\ changes \in Nat /\ changes # None
  BY DevicesAssumption DEF IInv, TypeOK
<1>3. since' # changes'
  BY <1>1, <1>2 DEF local
<1>4. Answered' /\ Numbered'
  BY <1>1, <1>3 DEF Answered, Numbered, local, walk
<1>5. /\ registered # None => registered \in Nat
      /\ listed # None => listed.at \in Nat
      /\ bound # None => bound.at \in Nat
  BY DevicesAssumption DEF IInv, TypeOK, Outcomes
<1>6. Past' /\ registered' # changes' /\ (listed' # None => listed'.at # changes')
      /\ (bound' # None => bound'.at # changes')
  BY <1>1, <1>2, <1>5, DevicesAssumption DEF Noted, Past, results
<1>7. Noted'
  BY <1>6 DEF Noted, RegisteredNow, ListedNow, BoundNow
<1>8. Few'
  BY <1>1 DEF Few
<1> QED
  BY <1>4, <1>7, <1>8

LEMMA IndexedStep == ASSUME Spare PROVE IInv /\ Indexed /\ [Next]_vars => Indexed'
<1> SUFFICES ASSUME IInv, Indexed, [Next]_vars PROVE Indexed'
  OBVIOUS
<1>1. CASE Next /\ ~(\E n \in Nodes, level \in Levels : Change(n, level))
  BY <1>1, BeginIndexed, DoneIndexed, NodeIndexed DEF Next, Proceed
<1>2. ASSUME NEW n \in Nodes, NEW level \in Levels, Change(n, level) PROVE Indexed'
  BY <1>2, ChangeIndexed
<1>3. CASE UNCHANGED vars
  <2>1. /\ UNCHANGED <<environment, decoders, results, call, since, minor, walk>>
        /\ UNCHANGED <<pc, answer>>
    BY <1>3 DEF vars, local
  <2>2. Numbered' /\ Noted' /\ Few'
    BY <2>1, NumbersKept DEF Indexed
  <2>3. Answered'
    BY <2>1, HostKept DEF Indexed, Answered, Reached, Truth, environment
  <2> QED
    BY <2>2, <2>3 DEF Indexed
<1> QED
  BY <1>1, <1>2, <1>3

LEMMA AlwaysIndexed == ASSUME Spare PROVE Spec => [](IInv /\ Indexed)
<1>1. IInv /\ Indexed /\ [Next]_vars => Indexed'
  BY IndexedStep
<1>2. Init => Indexed
  BY InitiallyIndexed
<1> QED
  BY <1>1, <1>2, Inductive, PTL DEF Spec

(* The walk that lists and the walk that looks an index up.                *)
LEMMA ListedMatches == ASSUME IInv, Indexed, NoneMute PROVE IndexCorrelates
<1> SUFFICES ASSUME listed # None, bound # None,
                    listed.at = changes, bound.at = changes
             PROVE  bound.node = IF bound.index < Len(listed.nodes)
                                 THEN listed.nodes[bound.index + 1] ELSE None
  BY DEF IndexCorrelates
<1> DEFINE W == Openable
           nodes == listed.nodes
           i == bound.index
<1>1. W \in SUBSET Nodes /\ (\A m \in Nodes : m \in Nat /\ m < Last + 1)
      /\ Last + 1 \in Nat
  BY DevicesAssumption DEF Openable, Nodes
<1>2. nodes \in Seq(Nodes) /\ i \in Nat
  BY DevicesAssumption DEF IInv, TypeOK, Outcomes
<1>3. Ranked(W, nodes, Last + 1)
  BY DEF Indexed, Noted, ListedNow
<1>4. IF bound.node = None THEN Rank(W, Last + 1) <= i
      ELSE bound.node \in W /\ Rank(W, bound.node) = i
  BY DEF Indexed, Noted, BoundNow
<1> HIDE DEF W, nodes, i
<1>5. Rank(W, Last + 1) \in Nat
  BY <1>1, RankType
<1>6. CASE bound.node = None
  BY <1>2, <1>3, <1>4, <1>5, <1>6 DEF Ranked, nodes, i
<1>7. CASE bound.node # None
  <2>1. bound.node \in W /\ Rank(W, bound.node) = i
    BY <1>4, <1>7
  <2>2. i < Len(nodes)
    BY <1>1, <1>3, <2>1, RankGrows DEF Ranked
  <2>3. i + 1 \in 1..Len(nodes)
    BY <1>2, <2>2
  <2>4. nodes[i + 1] \in W /\ Rank(W, nodes[i + 1]) = i
    BY <1>2, <1>3, <2>3 DEF Ranked
  <2>5. ~(nodes[i + 1] < bound.node) /\ ~(bound.node < nodes[i + 1])
    <3>1. ASSUME NEW m \in W, NEW n \in W, m < n, Rank(W, m) = i, Rank(W, n) = i
          PROVE  FALSE
      BY <1>1, <1>2, <3>1, RankGrows
    <3> QED
      BY <2>1, <2>4, <3>1
  <2>6. nodes[i + 1] = bound.node
    BY <1>1, <2>1, <2>4, <2>5
  <2> QED
    BY <2>2, <2>6 DEF nodes, i
<1> QED
  BY <1>6, <1>7

(* The walk that looks index 0 up, and register(), which asks one node.    *)
LEMMA DefaultMatches == ASSUME IInv, Indexed PROVE DefaultIsProbed
<1> SUFFICES ASSUME registered = changes, bound # None, bound.index = 0, bound.at = changes
             PROVE  bound.node = 0
  BY DEF DefaultIsProbed
<1> DEFINE W == Openable
<1>1. W \in SUBSET Nodes /\ (\A m \in Nodes : m \in Nat) /\ Last + 1 \in Nat /\ 0 < Last + 1
  BY DevicesAssumption DEF Openable, Nodes
<1>2. 0 \in W
  BY DEF Indexed, Noted, RegisteredNow
<1>3. IF bound.node = None THEN Rank(W, Last + 1) <= 0
      ELSE bound.node \in W /\ Rank(W, bound.node) = 0
  BY DEF Indexed, Noted, BoundNow
<1> HIDE DEF W
<1>4. Rank(W, 0) = 0
  BY <1>1, RankZero
<1>5. 0 < Rank(W, Last + 1) /\ Rank(W, Last + 1) \in Nat
  BY <1>1, <1>2, <1>4, RankGrows, RankType
<1>6. \A n \in W : 0 < n => 0 < Rank(W, n)
  BY <1>1, <1>2, <1>4, RankGrows
<1>7. bound.node \in W /\ Rank(W, bound.node) = 0
  BY <1>3, <1>5
<1>8. ~(0 < bound.node) /\ bound.node \in Nat
  BY <1>1, <1>6, <1>7
<1> QED
  BY <1>8

(* An index means one node to engine_info(), to the construction of a      *)
(* decoder and, the index being 0, to register(), for any number of nodes, *)
(* where, for the first two, every driver that initialises can be queried, *)
(* and the process has descriptors enough.                                 *)
THEOREM IndexMeansOne == ASSUME Spare PROVE Spec => []IndexNamesListed
<1>1. IInv /\ Indexed => IndexNamesListed
  BY ListedMatches, DefaultMatches DEF IndexNamesListed, NoneMute
<1> QED
  BY <1>1, AlwaysIndexed, PTL

-----------------------------------------------------------------------------
(* What a device is reported to decode (Capabilities): theorems for any     *)
(* table of profiles and any answers of the driver.                         *)

(* What the driver answers of a profile's entrypoints, an error being none. *)
Supports(p, e) == answers.entrypoints[p] # Failed /\ e \in answers.entrypoints[p]

(* Has a finished matrix: no row of it is an error. *)
Settled ==
  /\ answers.listed # Failed
  /\ \A p \in answers.listed : answers.entrypoints[p] # Failed

(* The sizes the driver gives for some pairs, and the greatest of them. *)
Sizes(pairs) == {answers.size[x[1]][x[2]] : x \in pairs} \cap 1..MaxSize

Greatest(pairs) == IF Sizes(pairs) = {} THEN Unknown ELSE Max(Sizes(pairs))

(* The pairs of a codec. *)
PairsOf(c) == {p \in Profiles : Family[p] = c} \X Entrypoints

(* What engine_info() says of a codec, in terms of the driver's answers. *)
CapsNow(c) ==
  /\ report[c].decode <=> \E p \in Profiles : Family[p] = c /\ Supports(p, "VLD")
  /\ report[c].profiles = {p \in Profiles : Family[p] = c /\ answers.entrypoints[p] # {}}
  /\ report[c].max = Greatest(PairsOf(c))

(* The rows so far are the driver's answers, and none of them an error. *)
RowsTrue ==
  query # "idle" =>
    /\ answers.listed # Failed
    /\ \A p \in DOMAIN rows :
         /\ p \in answers.listed /\ answers.entrypoints[p] # Failed
         /\ rows[p] = answers.entrypoints[p]

ReportTrue ==
  /\ IsReported =>
       /\ Settled
       /\ \A c \in Codecs :
            c \in DOMAIN report
              <=> \E p \in Profiles : Family[p] = c /\ answers.entrypoints[p] # {}
       /\ \A c \in DOMAIN report : CapsNow(c)
  /\ report = LeftOut => ~Settled

(* The pre-flight's answers: it says yes only from a finished matrix, and   *)
(* also says no when a row is an error.                                     *)
PreflightTrue ==
  /\ supported # {} => Settled
  /\ \A c \in supported : \E p \in Profiles : Family[p] = c /\ Supports(p, "VLD")
  /\ \A c \in refused : Settled =>
       ~\E p \in Profiles : Family[p] = c /\ Supports(p, "VLD")

CheckTrue == checked # Unknown => (checked.ok <=> Fits(checked.profile, checked.size))

CapsInv ==
  /\ CapsTypeOK /\ answers \in Drivers
  /\ RowsTrue /\ ReportTrue /\ PreflightTrue /\ CheckTrue

-----------------------------------------------------------------------------
(* max_dims_across() finds the greatest size. *)

LEMMA LeastOf ==
  ASSUME NEW S \in SUBSET Nat, S # {}
  PROVE  \E n \in S : \A m \in S : n <= m
<1>1. \E x \in S : \A y \in S : ~(<<y, x>> \in OpToRel(<, Nat))
  BY NatLessThanWellFounded, WFMin
<1>2. \A x, y \in Nat : <<y, x>> \in OpToRel(<, Nat) <=> y < x
  BY DEF OpToRel
<1>3. PICK x \in S : \A y \in S : ~(<<y, x>> \in OpToRel(<, Nat))
  BY <1>1
<1>4. \A m \in S : x <= m
  <2> TAKE m \in S
  <2>1. x \in Nat /\ m \in Nat
    OBVIOUS
  <2>2. ~(m < x)
    BY <1>2, <1>3, <2>1
  <2> QED
    BY <2>1, <2>2
<1> QED
  BY <1>4

(* A bounded set of sizes has a greatest, from the least distance to the    *)
(* bound.                                                                   *)
LEMMA MaxOf ==
  ASSUME NEW S \in SUBSET (1..MaxSize), S # {}
  PROVE  Max(S) \in S /\ \A y \in S : Max(S) >= y
<1> DEFINE D == {MaxSize - s : s \in S}
<1>1. MaxSize \in Nat
  BY CapabilitiesAssumption
<1>2. D \in SUBSET Nat /\ D # {}
  <2>1. \A s \in S : MaxSize - s \in Nat
    BY <1>1
  <2> QED
    BY <2>1, Zenon
<1>3. PICK d \in D : \A m \in D : d <= m
  <2> HIDE DEF D
  <2> QED
    BY <1>2, LeastOf
<1>4. PICK x \in S : d = MaxSize - x
  BY <1>3
<1>5. \A y \in S : x >= y
  <2> TAKE y \in S
  <2>1. MaxSize - y \in D
    OBVIOUS
  <2>2. MaxSize - x <= MaxSize - y
    BY <1>3, <1>4, <2>1, Zenon
  <2>3. x \in Int /\ y \in Int
    OBVIOUS
  <2> HIDE DEF D
  <2> QED
    BY <1>1, <2>2, <2>3
<1> QED
  BY <1>5, Zenon DEF Max

LEMMA GreatestType ==
  ASSUME NEW S
  PROVE  Greatest(S) \in 1..MaxSize \cup {Unknown}
<1>1. Sizes(S) \in SUBSET (1..MaxSize)
  BY DEF Sizes
<1> QED
  BY <1>1, MaxOf DEF Greatest

(* The greatest is determined by being one of the sizes and above them.     *)
LEMMA GreatestIs ==
  ASSUME NEW S, NEW m \in Sizes(S), \A y \in Sizes(S) : m >= y
  PROVE  Greatest(S) = m
<1>1. Sizes(S) \in SUBSET (1..MaxSize) /\ Sizes(S) # {}
  BY DEF Sizes
<1>2. Max(Sizes(S)) \in Sizes(S) /\ \A y \in Sizes(S) : Max(Sizes(S)) >= y
  BY <1>1, MaxOf, Zenon
<1>3. Max(Sizes(S)) \in Int /\ m \in Int
  BY <1>1, <1>2
<1> QED
  BY <1>1, <1>2, <1>3 DEF Greatest

(* One pair more is one Raise more. *)
LEMMA RaiseOnce ==
  ASSUME answers \in Drivers,
         NEW S \in SUBSET (Profiles \X Entrypoints), NEW x \in S
  PROVE  Greatest(S) = Raise(x, Greatest(S \ {x}))
<1> DEFINE v == answers.size[x[1]][x[2]]
           T == S \ {x}
<1>1. v \in Values
  BY DEF Drivers
<1>2. Sizes(S) = Sizes(T) \cup ({v} \cap 1..MaxSize)
  BY DEF Sizes
<1>3. v \in 1..MaxSize <=> v \notin {NotSupported, Failed} /\ v # 0
  BY <1>1, CapabilitiesAssumption DEF Values
<1>4. Sizes(T) \in SUBSET (1..MaxSize)
  BY DEF Sizes
<1> DEFINE g == Greatest(T)
<1>5. Raise(x, g) = IF v \in 1..MaxSize /\ (g = Unknown \/ v > g) THEN v ELSE g
  <2> HIDE DEF g
  <2> QED
    BY <1>3 DEF Raise, Reported
<1> HIDE DEF v, T
<1>6. CASE v \notin 1..MaxSize
  <2>1. Sizes(S) = Sizes(T)
    BY <1>2, <1>6
  <2>2. Greatest(S) = Greatest(T)
    BY <2>1 DEF Greatest
  <2> QED
    BY <1>5, <1>6, <2>2 DEF T
<1>7. CASE v \in 1..MaxSize
  <2>1. v \in Sizes(S) /\ Sizes(S) = Sizes(T) \cup {v}
    BY <1>2, <1>7
  <2>2. CASE Sizes(T) = {}
    <3>1. g = Unknown
      BY <2>2 DEF Greatest
    <3>2. Greatest(S) = v
      BY <2>1, <2>2, <1>7, GreatestIs
    <3> QED
      BY <1>5, <1>7, <3>1, <3>2 DEF T
  <2>3. CASE Sizes(T) # {}
    <3>1. g \in Sizes(T) /\ \A y \in Sizes(T) : g >= y
      BY <1>4, <2>3, MaxOf DEF Greatest
    <3>2. g \in 1..MaxSize /\ g # Unknown
      BY <1>4, <3>1, CapabilitiesAssumption
    <3> HIDE DEF g
    <3>3. CASE v > g
      <4>1. \A y \in Sizes(S) : v >= y
        BY <1>4, <1>7, <2>1, <3>1, <3>2, <3>3
      <4>2. Greatest(S) = v
        BY <2>1, <4>1, GreatestIs
      <4> QED
        BY <1>5, <1>7, <3>3, <4>2 DEF T, g
    <3>4. CASE ~(v > g)
      <4>1. g \in Sizes(S) /\ \A y \in Sizes(S) : g >= y
        BY <1>4, <1>7, <2>1, <3>1, <3>2, <3>4
      <4>2. Greatest(S) = g
        BY <4>1, GreatestIs
      <4> QED
        BY <1>5, <3>2, <3>4, <4>2 DEF T, g
    <3> QED
      BY <3>3, <3>4
  <2> QED
    BY <2>2, <2>3
<1> QED
  BY <1>6, <1>7

(* The fold: FoldSet's own recursion, unfolded once. *)
Fold(g, S) ==
  [s \in SUBSET S |->
     IF s = {} THEN Unknown
     ELSE Raise(CHOOSE x \in s : TRUE, g[s \ {CHOOSE x \in s : TRUE}])]

Folded(S) == CHOOSE g : g = Fold(g, S)

LEMMA FoldUnfolds ==
  ASSUME NEW P
  PROVE  MaxAcross(P) = Folded(Pairs(P))[Pairs(P)]
  BY Zenon DEF MaxAcross, FoldSet, MapThenFoldSet, Folded, Fold

(* There is such a function, and on finite sets it is the greatest: of two  *)
(* that differ, the smallest set they differ on is not empty, and without   *)
(* one of its pairs they agree.                                             *)
LEMMA FoldIsGreatest ==
  ASSUME answers \in Drivers,
         NEW S \in SUBSET (Profiles \X Entrypoints), IsFiniteSet(S)
  PROVE  Folded(S)[S] = Greatest(S)
<1> DEFINE G == [s \in SUBSET S |-> Greatest(s)]
           f == Folded(S)
<1>1. G = Fold(G, S)
  <2>1. ASSUME NEW s \in SUBSET S, s # {}
        PROVE  Greatest(s) = Raise(CHOOSE x \in s : TRUE, G[s \ {CHOOSE x \in s : TRUE}])
    <3> DEFINE x == CHOOSE x \in s : TRUE
    <3>1. x \in s
      BY <2>1
    <3> HIDE DEF x
    <3>2. Greatest(s) = Raise(x, Greatest(s \ {x}))
      BY <3>1, RaiseOnce
    <3>3. G[s \ {x}] = Greatest(s \ {x})
      OBVIOUS
    <3> HIDE DEF G
    <3> QED
      BY <3>2, <3>3, Zenon DEF x
  <2>2. Greatest({}) = Unknown
    BY DEF Greatest, Sizes
  <2>3. ASSUME NEW s \in SUBSET S PROVE G[s] = Fold(G, S)[s]
    <3>1. G[s] = Greatest(s)
      OBVIOUS
    <3>2. Fold(G, S)[s] = IF s = {} THEN Unknown
            ELSE Raise(CHOOSE x \in s : TRUE, G[s \ {CHOOSE x \in s : TRUE}])
      BY Zenon DEF Fold
    <3> HIDE DEF G
    <3>3. CASE s = {}
      BY <2>2, <3>1, <3>2, <3>3, Zenon
    <3>4. CASE s # {}
      BY <2>1, <3>1, <3>2, <3>4, Zenon
    <3> QED
      BY <3>3, <3>4
  <2>4. Fold(G, S) = [s \in SUBSET S |-> Fold(G, S)[s]]
    <3> HIDE DEF G
    <3> QED
      BY DEF Fold
  <2>5. G = [s \in SUBSET S |-> G[s]]
    BY Zenon
  <2> HIDE DEF G
  <2> QED
    BY <2>3, <2>4, <2>5, Zenon
<1>2. f = Fold(f, S)
  <2> HIDE DEF G
  <2> QED
    BY <1>1, Zenon DEF Folded
<1> HIDE DEF G, f
<1>3. \A s \in SUBSET S : f[s] = IF s = {} THEN Unknown
        ELSE Raise(CHOOSE x \in s : TRUE, f[s \ {CHOOSE x \in s : TRUE}])
  BY <1>2, Zenon DEF Fold
<1> DEFINE Bad == {Cardinality(s) : s \in {t \in SUBSET S : f[t] # Greatest(t)}}
<1>4. Bad = {}
  <2> SUFFICES ASSUME Bad # {} PROVE FALSE
    OBVIOUS
  <2>1. Bad \in SUBSET Nat
    BY FS_Subset, FS_CardinalityType
  <2>2. PICK n \in Bad : \A m \in Bad : n <= m
    <3> HIDE DEF Bad
    <3> QED
      BY <2>1, LeastOf
  <2>3. PICK s \in SUBSET S : f[s] # Greatest(s) /\ n = Cardinality(s)
    BY <2>2
  <2>4. IsFiniteSet(s)
    BY <2>3, FS_Subset
  <2>5. s # {}
    <3>1. Greatest({}) = Unknown
      BY DEF Greatest, Sizes
    <3>2. f[{}] = Unknown
      BY <1>3
    <3> QED
      BY <2>3, <3>1, <3>2
  <2> DEFINE x == CHOOSE x \in s : TRUE
  <2>6. x \in s
    BY <2>5
  <2>7. f[s] = Raise(x, f[s \ {x}])
    BY <1>3, <2>5, Zenon
  <2> HIDE DEF x
  <2>8. Cardinality(s \ {x}) = Cardinality(s) - 1 /\ Cardinality(s) \in Nat
    BY <2>4, <2>6, FS_RemoveElement, FS_CardinalityType
  <2>9. s \ {x} \in SUBSET S
    BY <2>6
  <2>10. f[s \ {x}] = Greatest(s \ {x})
    <3> SUFFICES ASSUME f[s \ {x}] # Greatest(s \ {x}) PROVE FALSE
      OBVIOUS
    <3>1. Cardinality(s \ {x}) \in Bad
      BY <2>9
    <3> HIDE DEF Bad
    <3>2. n <= Cardinality(s \ {x})
      BY <2>2, <3>1
    <3> QED
      BY <2>3, <2>8, <3>2
  <2>11. s \in SUBSET (Profiles \X Entrypoints)
    OBVIOUS
  <2>12. Greatest(s) = Raise(x, Greatest(s \ {x}))
    BY <2>6, <2>11, RaiseOnce, Zenon
  <2> QED
    BY <2>3, <2>7, <2>10, <2>12, Zenon
<1>5. S \in SUBSET S
  OBVIOUS
<1> QED
  BY <1>4, <1>5, Zenon DEF f

(* max_dims_across() over the profiles of a finished matrix. *)
LEMMA MaxIsGreatest ==
  ASSUME answers \in Drivers,
         NEW P \in SUBSET Profiles
  PROVE  MaxAcross(P) = Greatest(Pairs(P))
<1>1. Pairs(P) \in SUBSET (Profiles \X Entrypoints)
  BY DEF Pairs
<1>2. IsFiniteSet(Profiles) /\ IsFiniteSet(Entrypoints)
  <2>1. IsFiniteSet({"VLD"})
    BY FS_Singleton
  <2>2. IsFiniteSet(DOMAIN Family) /\ IsFiniteSet(Encoders)
    BY CapabilitiesAssumption
  <2> QED
    BY <2>1, <2>2, FS_Union DEF Profiles, Entrypoints
<1>3. IsFiniteSet(Profiles \X Entrypoints)
  BY <1>2, FS_Product
<1>4. IsFiniteSet(Pairs(P))
  BY <1>1, <1>3, FS_Subset
<1> QED
  BY <1>1, <1>4, FoldUnfolds, FoldIsGreatest

-----------------------------------------------------------------------------
(* A matrix that is finished shows what the driver supports. *)
LEMMA Finished ==
  ASSUME CapsInv, query # "idle", answers.listed \subseteq DOMAIN rows
  PROVE  /\ Settled
         /\ \A p \in Profiles :
              /\ EntrypointsFor(p) = answers.entrypoints[p]
              /\ \A e : IsSupported(p, e) <=> Supports(p, e)
         /\ \A c, e : AnySupports(c, e)
              <=> \E p \in Profiles : Family[p] = c /\ Supports(p, e)
<1>1. Settled
  BY DEF CapsInv, RowsTrue, Settled
<1>2. ASSUME NEW p \in Profiles
      PROVE  /\ EntrypointsFor(p) = answers.entrypoints[p]
             /\ \A e : IsSupported(p, e) <=> Supports(p, e)
  <2>1. CASE p \in answers.listed
    <3>1. EntrypointsFor(p) = answers.entrypoints[p] /\ answers.entrypoints[p] # Failed
      BY <2>1 DEF CapsInv, RowsTrue, EntrypointsFor
    <3> QED
      BY <3>1 DEF IsSupported, Supports
  <2>2. CASE p \notin answers.listed
    <3>1. answers.entrypoints[p] = {}
      BY <1>1, <2>2 DEF CapsInv, Settled, Drivers
    <3>2. EntrypointsFor(p) = {}
      BY <2>2 DEF CapsInv, RowsTrue, EntrypointsFor
    <3> QED
      BY <3>1, <3>2 DEF IsSupported, Supports
  <2> QED
    BY <2>1, <2>2
<1>3. ASSUME NEW c, NEW e
      PROVE  AnySupports(c, e)
               <=> \E p \in Profiles : Family[p] = c /\ Supports(p, e)
  BY <1>2 DEF AnySupports
<1> QED
  BY <1>1, <1>2, <1>3

(* Only a pair the driver has can have a size. *)
LEMMA SizesOf ==
  ASSUME CapsInv, query # "idle",
         answers.listed \subseteq DOMAIN rows, NEW c
  PROVE  Sizes(Pairs(Present(c))) = Sizes(PairsOf(c))
<1>1. Pairs(Present(c)) \subseteq PairsOf(c)
  BY DEF Pairs, Present, PairsOf
<1>2. ASSUME NEW x \in PairsOf(c), x \notin Pairs(Present(c))
      PROVE  answers.size[x[1]][x[2]] \notin 1..MaxSize
  <2>1. x[1] \in Profiles /\ x[2] \in Entrypoints /\ Family[x[1]] = c
        /\ x = <<x[1], x[2]>>
    BY DEF PairsOf
  <2>2. ~IsSupported(x[1], x[2])
    <3> SUFFICES ASSUME IsSupported(x[1], x[2]) PROVE FALSE
      OBVIOUS
    <3>1. x[1] \in Present(c)
      BY <2>1 DEF Present, IsSupported
    <3> QED
      BY <1>2, <2>1, <3>1 DEF Pairs
  <2>3. ~Supports(x[1], x[2])
    BY <2>1, <2>2, Finished
  <2>4. answers.size[x[1]][x[2]] = NotSupported
    BY <2>1, <2>3 DEF Supports, CapsInv, Drivers
  <2> QED
    BY <2>4, CapabilitiesAssumption
<1> QED
  BY <1>1, <1>2 DEF Sizes

LEMMA CapsOfTrue ==
  ASSUME CapsInv, query # "idle",
         answers.listed \subseteq DOMAIN rows, NEW c \in Codecs
  PROVE  /\ CapsOf(c) \in Caps
         /\ CapsOf(c).decode
              <=> \E p \in Profiles : Family[p] = c /\ Supports(p, "VLD")
         /\ CapsOf(c).profiles = Present(c)
         /\ CapsOf(c).max = Greatest(PairsOf(c))
         /\ Present(c)
              = {p \in Profiles : Family[p] = c /\ answers.entrypoints[p] # {}}
<1>1. Present(c) \in SUBSET Profiles
  BY DEF Present
<1>2. MaxAcross(Present(c)) = Greatest(Pairs(Present(c)))
  BY <1>1, MaxIsGreatest DEF CapsInv
<1>3. Greatest(Pairs(Present(c))) = Greatest(PairsOf(c))
  <2>1. Sizes(Pairs(Present(c))) = Sizes(PairsOf(c))
    BY SizesOf
  <2> QED
    BY <2>1, Zenon DEF Greatest
<1>4. Greatest(PairsOf(c)) \in 1..MaxSize \cup {Unknown}
  BY GreatestType
<1>5. AnySupports(c, "VLD") \in BOOLEAN /\ Encodes(c) \in BOOLEAN
  BY DEF AnySupports, Encodes
<1>6. Present(c)
        = {p \in Profiles : Family[p] = c /\ answers.entrypoints[p] # {}}
  BY Finished DEF Present
<1>7. AnySupports(c, "VLD")
        <=> \E p \in Profiles : Family[p] = c /\ Supports(p, "VLD")
  BY Finished
<1> QED
  BY <1>1, <1>2, <1>3, <1>4, <1>5, <1>6, <1>7 DEF CapsOf, Caps

-----------------------------------------------------------------------------
LEMMA CapsInitially == CapsInit => CapsInv
  BY CapabilitiesAssumption
  DEF CapsInit, CapsInv, CapsTypeOK, RowsTrue, ReportTrue, IsReported, PreflightTrue, CheckTrue

(* Without a matrix engine_info() reports nothing and the pre-flight says   *)
(* no: the driver has no finished one to show.                              *)
LEMMA GiveTrue ==
  ASSUME CapsInv, NEW c \in {"info"} \cup Codecs, Give(c), ~Settled,
         answers' = answers, checked' = checked, rows' = <<>>,
         query' = "idle"
  PROVE  CapsInv'
<1>1. CapsTypeOK'
  BY DEF Give, CapsInv, CapsTypeOK
<1>2. RowsTrue' /\ ReportTrue' /\ PreflightTrue' /\ CheckTrue'
  BY DEF Give, CapsInv, RowsTrue, ReportTrue, IsReported, PreflightTrue, CheckTrue, CapsNow,
     Settled, Supports, Greatest, Sizes, PairsOf, Fits, DisplaySupports, Reported
<1> QED
  BY <1>1, <1>2 DEF CapsInv

(* What is said of the driver stays true: it does not change.              *)
LEMMA AnswersKept ==
  ASSUME CapsInv, answers' = answers
  PROVE  /\ answers' \in Drivers
         /\ report' = report => ReportTrue'
         /\ UNCHANGED <<supported, refused>> => PreflightTrue'
         /\ checked' = checked => CheckTrue'
<1>1. \A c : Greatest(PairsOf(c))' = Greatest(PairsOf(c))
  BY DEF Greatest, Sizes, PairsOf
<1>2. ReportTrue /\ report' = report => ReportTrue'
  BY <1>1 DEF ReportTrue, IsReported, CapsNow, Settled, Supports
<1>3. PreflightTrue /\ UNCHANGED <<supported, refused>> => PreflightTrue'
  BY DEF PreflightTrue, Settled, Supports
<1>4. CheckTrue /\ checked' = checked => CheckTrue'
  BY DEF CheckTrue, Fits, DisplaySupports, Reported
<1> QED
  BY <1>2, <1>3, <1>4 DEF CapsInv

LEMMA CapsStep ==
  CapsInv /\ [CapsNext]_(capsVars) => CapsInv'
<1> SUFFICES ASSUME CapsInv, [CapsNext]_(capsVars) PROVE CapsInv'
  OBVIOUS
<1>1. CapsTypeOK /\ RowsTrue
  BY DEF CapsInv
<1>2. ASSUME NEW c \in {"info"} \cup Codecs, Build(c) PROVE CapsInv'
  <2>1. CASE answers.listed = Failed /\ Give(c) /\ query' = query
    BY <1>2, <2>1, GiveTrue DEF Build, Settled
  <2>2. CASE answers.listed # Failed /\ query' = c /\ UNCHANGED <<report, supported, refused>>
    <3>1. CapsTypeOK' /\ RowsTrue'
      BY <1>1, <1>2, <2>2 DEF Build, CapsTypeOK, RowsTrue
    <3> QED
      BY <1>2, <2>2, <3>1, AnswersKept DEF Build, CapsInv
  <2> QED
    BY <1>2, <2>1, <2>2 DEF Build
<1>3. ASSUME NEW p \in Profiles, Row(p) PROVE CapsInv'
  <2>1. CASE answers.entrypoints[p] = Failed /\ Give(query) /\ query' = "idle" /\ rows' = <<>>
    <3>1. ~Settled /\ query \in {"info"} \cup Codecs
      BY <1>1, <1>3, <2>1 DEF Row, Settled, CapsTypeOK
    <3>2. answers' = answers /\ checked' = checked
      BY <1>3 DEF Row
    <3>3. PICK c \in {"info"} \cup Codecs : c = query
      BY <3>1
    <3>4. Give(c)
      BY <2>1, <3>3 DEF Give
    <3> QED
      BY <2>1, <3>1, <3>2, <3>4, GiveTrue
  <2>2. CASE /\ answers.entrypoints[p] # Failed
             /\ rows' = [q \in DOMAIN rows \cup {p} |->
                           IF q = p THEN answers.entrypoints[p] ELSE rows[q]]
             /\ UNCHANGED <<query, report, supported, refused>>
    <3>1. answers.entrypoints[p] \subseteq Entrypoints
      <4>1. answers.entrypoints \in [Profiles -> (SUBSET Entrypoints) \cup {Failed}]
        BY DEF CapsInv, Drivers
      <4>2. answers.entrypoints[p] \in (SUBSET Entrypoints) \cup {Failed}
        BY <4>1
      <4> QED
        BY <2>2, <4>2, Zenon
    <3>2. CapsTypeOK' /\ RowsTrue'
      BY <1>1, <1>3, <2>2, <3>1 DEF Row, CapsTypeOK, RowsTrue
    <3> QED
      BY <1>3, <2>2, <3>2, AnswersKept DEF Row, CapsInv
  <2> QED
    BY <1>3, <2>1, <2>2 DEF Row
<1>4. CASE Collect
  <2>1. query # "idle" /\ answers.listed \subseteq DOMAIN rows
    BY <1>4 DEF Collect
  <2>2. \A c \in DOMAIN report' : c \in Codecs /\ report'[c] = CapsOf(c)
    BY <1>4 DEF Collect
  <2>3. CapsTypeOK'
    <3>1. DOMAIN report' \subseteq Codecs /\ Range(report') \subseteq Caps
      BY <2>1, <2>2, CapsOfTrue DEF Range
    <3> QED
      BY <1>1, <1>4, <3>1 DEF Collect, CapsTypeOK
  <2>4. ReportTrue'
    <3>1. Settled'
      BY <1>4, <2>1, Finished DEF Collect, Settled
    <3>2. \A c \in Codecs : c \in DOMAIN report'
            <=> \E p \in Profiles : Family[p] = c /\ answers.entrypoints[p] # {}
      <4>1. \A c \in Codecs : c \in DOMAIN report' <=> Present(c) # {}
        BY <1>4 DEF Collect
      <4> QED
        BY <2>1, <4>1, CapsOfTrue
    <3>3. ASSUME NEW c \in DOMAIN report' PROVE CapsNow(c)'
      <4>1. c \in Codecs /\ report'[c] = CapsOf(c)
        BY <2>2
      <4>2. answers' = answers
        BY <1>4 DEF Collect
      <4>3. (/\ report'[c].decode
                <=> \E p \in Profiles : Family[p] = c /\ Supports(p, "VLD")
             /\ report'[c].profiles
                  = {p \in Profiles : Family[p] = c /\ answers.entrypoints[p] # {}}
             /\ report'[c].max = Greatest(PairsOf(c)))
        BY <2>1, <4>1, CapsOfTrue
      <4>4. Greatest(PairsOf(c))' = Greatest(PairsOf(c))
        BY <4>2 DEF Greatest, Sizes, PairsOf
      <4>5. \A p : Supports(p, "VLD")' <=> Supports(p, "VLD")
        BY <4>2 DEF Supports
      <4> QED
        BY <4>2, <4>3, <4>4, <4>5, Zenon DEF CapsNow
    <3>4. report' # LeftOut
      <4>1. PICK C \in SUBSET Codecs : report' = [c \in C |-> CapsOf(c)]
        BY <1>4 DEF Collect
      <4>2. \A c \in C : CapsOf(c) \in Caps
        BY <2>1, CapsOfTrue
      <4>3. [c \in C |-> CapsOf(c)] \in [C -> Caps]
        BY <4>2
      <4> QED
        BY <4>1, <4>3, LeftOutAssumption
    <3> QED
      BY <1>4, <3>1, <3>2, <3>3, <3>4 DEF ReportTrue, Collect
  <2>5. RowsTrue'
    BY <1>4 DEF Collect, RowsTrue
  <2> QED
    BY <1>4, <2>3, <2>4, <2>5, AnswersKept DEF CapsInv, Collect
<1>5. CASE Preflight
  <2>1. query # "idle" /\ answers.listed \subseteq DOMAIN rows /\ query \in Codecs
    BY <1>5, CapabilitiesAssumption DEF Preflight, Codecs
  <2>2. CapsTypeOK' /\ RowsTrue'
    <3>1. /\ supported' \subseteq supported \cup {query} /\ refused' \subseteq refused \cup {query}
          /\ query' = "idle" /\ rows' = <<>> /\ UNCHANGED <<answers, report, checked>>
      BY <1>5 DEF Preflight
    <3>2. supported' \subseteq Codecs /\ refused' \subseteq Codecs
      BY <1>1, <2>1, <3>1 DEF CapsTypeOK
    <3> QED
      BY <1>1, <3>1, <3>2 DEF CapsTypeOK, RowsTrue
  <2>3. AnySupports(query, "VLD")
          <=> \E p \in Profiles : Family[p] = query /\ Supports(p, "VLD")
    BY <2>1, Finished
  <2>4. PreflightTrue'
    <3>1. Settled
      BY <2>1, Finished
    <3> QED
      BY <1>5, <2>3, <3>1 DEF Preflight, CapsInv, PreflightTrue, Settled, Supports
  <2> QED
    BY <1>5, <2>2, <2>4, AnswersKept DEF CapsInv, Preflight
<1>6. ASSUME NEW p \in Profiles, NEW size \in 1..MaxSize, CheckDecode(p, size)
      PROVE  CapsInv'
  <2>1. Fits(p, size) \in BOOLEAN
    BY DEF Fits
  <2>2. CapsTypeOK' /\ RowsTrue'
    BY <1>1, <1>6, <2>1 DEF CheckDecode, CapsTypeOK, RowsTrue
  <2>3. CheckTrue'
    BY <1>6, <2>1
    DEF CheckDecode, CheckTrue, Fits, DisplaySupports, Reported
  <2> QED
    BY <1>6, <2>2, <2>3, AnswersKept DEF CapsInv, CheckDecode
<1>7. CASE UNCHANGED capsVars
  <2>1. CapsTypeOK' /\ RowsTrue'
    BY <1>1, <1>7 DEF capsVars, CapsTypeOK, RowsTrue
  <2> QED
    BY <1>7, <2>1, AnswersKept DEF CapsInv, capsVars
<1> QED
  BY <1>2, <1>3, <1>4, <1>5, <1>6, <1>7 DEF CapsNext

LEMMA AlwaysCaps ==
  CapsSpec => []CapsInv
  BY CapsInitially, CapsStep, PTL DEF CapsSpec

(* The matrix, the report and the answers stay what they are typed as,      *)
(* whatever the driver answers (engine.rs, HwCodecCaps).                    *)
THEOREM CapsTypeCorrect ==
  CapsSpec => []CapsTypeOK
<1>1. CapsInv => CapsTypeOK
  BY DEF CapsInv
<1> QED
  BY <1>1, AlwaysCaps, PTL

(* The four ways to ask a driver agree, for any table of profiles and any   *)
(* driver, also one that some query fails on: whatever check_decode()       *)
(* accepts is in the report, unless the device is left out of it; and the   *)
(* device is left out of it, or the pre-flight says no, only because of     *)
(* another profile (engine.rs probe_node and collect_codecs, profiles.rs    *)
(* host_supports_codec_decode, session.rs check_decode).                    *)
THEOREM QueriesAgree ==
  CapsSpec => []AcceptedIsReported
<1>1. CapsInv => AcceptedIsReported
  <2> SUFFICES ASSUME CapsInv PROVE AcceptedIsReported
    OBVIOUS
  <2>1. ReportTrue /\ PreflightTrue /\ CheckTrue /\ CapsTypeOK
    BY DEF CapsInv
  <2>2. ASSUME IsReported, NEW c \in DOMAIN report PROVE c \in Codecs
    BY <2>1, <2>2 DEF CapsTypeOK, IsReported
  <2> DEFINE p == checked.profile
             c == Family[p]
  <2>3. ASSUME checked # Unknown, checked.ok
        PROVE  /\ p \in Profiles /\ checked.size \in 1..MaxSize
               /\ Fits(p, checked.size)
               /\ Supports(p, "VLD") /\ answers.entrypoints[p] # {}
               /\ c \in Codecs
    <3>1. p \in Profiles /\ checked.size \in 1..MaxSize
      BY <2>1, <2>3 DEF CapsTypeOK
    <3>2. Fits(p, checked.size)
      BY <2>1, <2>3 DEF CheckTrue
    <3>3. Supports(p, "VLD") /\ answers.entrypoints[p] # {}
      BY <3>2 DEF Fits, DisplaySupports, Supports
    <3>4. c \in Codecs
      BY <3>1 DEF Codecs, Range, Profiles
    <3> QED
      BY <3>1, <3>2, <3>3, <3>4
  <2>4. ASSUME checked # Unknown, checked.ok, IsReported
        PROVE  /\ c \in DOMAIN report /\ report[c].decode
               /\ p \in report[c].profiles
               /\ Reported(p, "VLD") => report[c].max >= checked.size
    <3>1. c \in DOMAIN report /\ CapsNow(c)
      BY <2>1, <2>3, <2>4 DEF ReportTrue
    <3>2. ASSUME Reported(p, "VLD") PROVE report[c].max >= checked.size
      <4> DEFINE v == answers.size[p]["VLD"]
      <4>1. checked.size <= v
        BY <2>3, <2>4, <3>2 DEF Fits
      <4>2. v \in Values
        BY <2>3, <2>4 DEF CapsInv, Drivers, Entrypoints
      <4>3. v \in 1..MaxSize
        BY <2>3, <2>4, <3>2, <4>1, <4>2, CapabilitiesAssumption DEF Values, Reported
      <4>4. <<p, "VLD">> \in PairsOf(c)
        BY <2>3, <2>4 DEF PairsOf, Entrypoints
      <4>5. v \in Sizes(PairsOf(c))
        BY <4>3, <4>4 DEF Sizes
      <4>6. Sizes(PairsOf(c)) \in SUBSET (1..MaxSize)
        BY DEF Sizes
      <4>7. Greatest(PairsOf(c)) \in 1..MaxSize /\ Greatest(PairsOf(c)) >= v
        BY <4>5, <4>6, MaxOf DEF Greatest
      <4>8. report[c].max = Greatest(PairsOf(c))
        BY <3>1 DEF CapsNow
      <4>9. checked.size \in 1..MaxSize
        BY <2>3, <2>4
      <4> HIDE DEF v, p, c
      <4> QED
        BY <4>1, <4>3, <4>7, <4>8, <4>9
    <3> QED
      BY <2>3, <2>4, <3>1, <3>2 DEF CapsNow
  <2>5. ASSUME checked # Unknown, checked.ok, report = LeftOut \/ c \in refused
        PROVE  AnotherFails(p)
    <3>1. ~Settled
      BY <2>1, <2>3, <2>5 DEF ReportTrue, PreflightTrue
    <3>2. answers.entrypoints[p] # Failed
      BY <2>3, <2>5 DEF Supports
    <3> QED
      BY <3>1, <3>2 DEF Settled, AnotherFails
  <2>6. ASSUME IsReported, NEW k \in DOMAIN report, k \in refused
        PROVE  ~report[k].decode
    BY <2>1, <2>6 DEF ReportTrue, PreflightTrue, CapsNow
  <2>7. ASSUME IsReported, NEW k \in supported
        PROVE  k \in DOMAIN report /\ report[k].decode
    <3>1. PICK q \in Profiles : Family[q] = k /\ Supports(q, "VLD")
      BY <2>1, <2>7 DEF PreflightTrue
    <3>2. answers.entrypoints[q] # {} /\ k \in Codecs
      BY <2>1, <2>7, <3>1 DEF Supports, CapsTypeOK
    <3> QED
      BY <2>1, <2>7, <3>1, <3>2 DEF ReportTrue, CapsNow
  <2>8. report = LeftOut => supported = {}
    BY <2>1 DEF ReportTrue, PreflightTrue
  <2> QED
    BY <2>4, <2>5, <2>6, <2>7, <2>8 DEF AcceptedIsReported
<1> QED
  BY <1>1, AlwaysCaps, PTL

(* The maximum engine_info() reports for a codec is the greatest size the   *)
(* driver gives for any of its profiles and entrypoints, in whatever order  *)
(* they are asked (engine.rs, max_dims_across).                             *)
THEOREM MaximumIsGreatest ==
  CapsSpec => []MaximaExact
<1>1. ASSUME NEW c PROVE SizesGiven(c) = Sizes(PairsOf(c))
  <2>1. ASSUME NEW v \in SizesGiven(c) PROVE v \in Sizes(PairsOf(c))
    <3>1. PICK p \in Profiles, e \in Entrypoints : Family[p] = c /\ v = answers.size[p][e]
      BY DEF SizesGiven
    <3>2. <<p, e>> \in PairsOf(c) /\ v \in 1..MaxSize
      BY <3>1 DEF PairsOf, SizesGiven
    <3> QED
      BY <3>1, <3>2 DEF Sizes
  <2>2. ASSUME NEW v \in Sizes(PairsOf(c)) PROVE v \in SizesGiven(c)
    BY DEF Sizes, PairsOf, SizesGiven
  <2> QED
    BY <2>1, <2>2
<1>2. CapsInv => MaximaExact
  <2>1. ASSUME CapsInv, IsReported, NEW c \in DOMAIN report
        PROVE  report[c].max = IF SizesGiven(c) = {} THEN Unknown ELSE Max(SizesGiven(c))
    <3>1. report[c].max = Greatest(PairsOf(c))
      BY <2>1 DEF CapsInv, ReportTrue, CapsNow
    <3> QED
      BY <1>1, <3>1, Zenon DEF Greatest
  <2> QED
    BY <2>1, Zenon DEF MaximaExact
<1> QED
  BY <1>2, AlwaysCaps, PTL
=============================================================================
