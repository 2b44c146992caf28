------------------------- MODULE HevcDecoder_proofs -------------------------
(***************************************************************************)
(* Theorems about HevcDecoder, for every set of parameter sets and any     *)
(* number of units to a call: a picture is decoded as it was parsed; and,  *)
(* where the decoder is Paced, a surface of the session is taken for one   *)
(* purpose only and there is always one for the next picture.              *)
(***************************************************************************)
EXTENDS HevcDecoder, FiniteSetTheorems, WellFoundedInduction, TLAPS

Finishing == {"finish", "begin", "acquire", "submit"}

(* How the locals of a call go with where the call is. *)
Locals ==
  /\ target # None <=> pc = "submit"
  /\ pc \in Finishing => pending # None
  /\ pc \in Finishing \cup {"push"} => unit \in Units \cup {Flushing}

(* The picture in progress has its parameter set still: the units that     *)
(* could replace it end the picture first.                                 *)
AsParsed ==
  /\ pending # None => sps[pending.id] = pending.sps
  /\ pc = "push" /\ unit.kind = "sps" => pending = None

(* The DPB leaves a key free, and once the RPS has been applied a place    *)
(* for the picture.                                                        *)
Room ==
  /\ dpb # {} => SpsSet # {} /\ Cardinality(dpb) + 2 <= Largest
  /\ pc \in {"acquire", "submit"} => Cardinality(dpb) < pending.sps.dpb

Typed == TypeOK /\ Locals /\ AsParsed /\ Room

-----------------------------------------------------------------------------
(* Least and greatest. *)

LEMMA Least ==
  ASSUME NEW S \in SUBSET Nat, S # {}
  PROVE  \E n \in S : \A m \in S : n <= m
<1>1. PICK x \in S : \A y \in S : ~(<<y, x>> \in OpToRel(<, Nat))
  BY NatLessThanWellFounded, WFMin
<1>2. \A m, n \in Nat : <<m, n>> \in OpToRel(<, Nat) <=> m < n
  BY DEF OpToRel
<1>3. ASSUME NEW m \in S PROVE x <= m
  <2>1. x \in Nat /\ m \in Nat /\ ~(m < x)
    BY <1>1, <1>2
  <2> QED
    BY <2>1
<1> QED
  BY <1>3

(* A session has two surfaces more than the DPB has places. *)
LEMMA SurfacesBounds ==
  ASSUME NEW s \in SpsSet
  PROVE  s.dpb \in 1..16 /\ Surfaces(s) = s.dpb + 2
<1>1. s.dpb \in 1..16
  BY HevcAssumption
<1> QED
  BY <1>1 DEF Surfaces

LEMMA LargestBounds ==
  ASSUME NEW s \in SpsSet
  PROVE  /\ Largest \in 3..18
         /\ Surfaces(s) <= Largest
<1> DEFINE S == {Surfaces(t) : t \in SpsSet}
           T == {18 - n : n \in S}
<1>1. S \subseteq 3..18 /\ S # {}
  BY SurfacesBounds
<1>2. T \in SUBSET Nat /\ T # {}
  BY <1>1
<1>3. PICK t \in T : \A m \in T : t <= m
  BY <1>2, Least
<1>4. PICK n \in S : t = 18 - n
  BY <1>3
<1>5. \A q \in SpsSet : Surfaces(q) <= n
  <2> SUFFICES ASSUME NEW q \in SpsSet PROVE Surfaces(q) <= n
    OBVIOUS
  <2>1. Surfaces(q) \in S /\ 18 - Surfaces(q) \in T
    OBVIOUS
  <2> QED
    BY <1>1, <1>3, <1>4, <2>1
<1>6. Largest \in S /\ \A q \in SpsSet : Surfaces(q) <= Largest
  BY <1>5 DEF Largest
<1> QED
  BY <1>1, <1>6

(* No slot and nothing asked of a driver is None. *)
LEMMA NoneApart ==
  ASSUME SpsSet # {}
  PROVE  /\ None \notin AllSlots
         /\ \A s \in SpsSet : s # None /\ s.req # None /\ Surfaces(s) # None
<1>1. PICK s \in SpsSet : TRUE
  OBVIOUS
<1>2. Largest \in 3..18
  BY <1>1, LargestBounds
<1>3. None \notin AllSlots
  BY <1>2, HevcAssumption DEF AllSlots
<1>4. \A q \in SpsSet : q # None /\ q.req # None
  BY HevcAssumption
<1>5. \A q \in SpsSet : Surfaces(q) \in Nat
  BY SurfacesBounds
<1> QED
  BY <1>3, <1>4, <1>5, HevcAssumption

LEMMA KeysFinite ==
  ASSUME SpsSet # {}
  PROVE  /\ Keys \subseteq Nat /\ IsFiniteSet(Keys)
         /\ Cardinality(Keys) = Largest - 1
         /\ Largest \in 3..18
<1>1. PICK s \in SpsSet : TRUE
  OBVIOUS
<1>2. Largest \in 3..18
  BY <1>1, LargestBounds
<1>3. IsFiniteSet(0..(Largest - 2)) /\ Cardinality(0..(Largest - 2)) = Largest - 1
  BY <1>2, FS_Interval
<1> QED
  BY <1>2, <1>3 DEF Keys

(* The DPB is finite, and there is a key for one more picture. *)
LEMMA DpbFinite ==
  ASSUME Typed
  PROVE  IsFiniteSet(dpb) /\ Cardinality(dpb) \in Nat
<1>1. CASE dpb = {}
  BY <1>1, FS_EmptySet
<1>2. CASE dpb # {}
  BY <1>2, KeysFinite, FS_Subset, FS_CardinalityType DEF Typed, TypeOK, Room
<1> QED
  BY <1>1, <1>2

LEMMA FreshIsFree ==
  ASSUME Typed, SpsSet # {}
  PROVE  Fresh \in Keys \ dpb
<1>1. Keys \ dpb # {}
  <2> SUFFICES ASSUME Keys \ dpb = {} PROVE FALSE
    OBVIOUS
  <2>1. dpb = Keys
    BY DEF Typed, TypeOK
  <2>2. Cardinality(dpb) = Largest - 1 /\ Largest \in 3..18
    BY <2>1, KeysFinite
  <2>3. dpb # {}
    BY <2>1, <2>2, FS_EmptySet
  <2> QED
    BY <2>2, <2>3 DEF Typed, Room
<1>2. Keys \ dpb \in SUBSET Nat
  BY KeysFinite
<1>3. \E k \in Keys \ dpb : \A j \in Keys \ dpb : k <= j
  BY <1>1, <1>2, Least
<1> QED
  BY <1>3 DEF Fresh

(* A picture that is being finished is one of some sequence. *)
LEMMA InProgress ==
  ASSUME Typed, pc \in Finishing
  PROVE  /\ pending \in Pictures /\ pending # None
         /\ pending.id \in SpsIds /\ pending.sps \in SpsSet
         /\ sps[pending.id] = pending.sps
         /\ None \notin AllSlots
<1>1. pending \in Pictures /\ pending # None /\ sps[pending.id] = pending.sps
  BY DEF Typed, TypeOK, Locals, AsParsed
<1>2. pending.id \in SpsIds /\ pending.sps \in SpsSet
  BY <1>1 DEF Pictures
<1> QED
  BY <1>1, <1>2, NoneApart

-----------------------------------------------------------------------------
LEMMA Initially == Init => Typed
<1> SUFFICES ASSUME Init PROVE Typed
  OBVIOUS
<1>1. TypeOK
  <2>1. seenPicture \in BOOLEAN /\ skipRasl \in BOOLEAN
    BY Zenon DEF Init
  <2>2. /\ session \in {Surfaces(s) : s \in SpsSet} \cup {None}
        /\ requirements \in {s.req : s \in SpsSet} \cup {None}
        /\ sps \in [SpsIds -> SpsSet \cup {None}]
        /\ slots \in [Keys -> AllSlots \cup {None}]
        /\ out \in Seq(AllSlots) /\ given \in Seq(AllSlots)
        /\ left \in 0..MaxUnits
    BY HevcAssumption DEF Init
  <2> QED
    BY <2>1, <2>2 DEF Init, TypeOK
<1>2. Locals /\ AsParsed /\ Room
  BY DEF Init, Locals, AsParsed, Room, Finishing
<1> QED
  BY <1>1, <1>2 DEF Typed

(* The units of a call, and its end. *)
LEMMA UnitStep ==
  ASSUME Typed,
         \/ \E u \in Units : Push(u)
         \/ Flush \/ Deliver
         \/ TakeSps \/ TakeSlice \/ EndSequence \/ TakeOther \/ RejectUnit
  PROVE  Typed'
<1> USE HevcAssumption
      DEF TypeOK, Locals, AsParsed, Room, Finishing, Fail, pool, held, rasl
<1>1. TypeOK /\ Locals /\ AsParsed /\ Room
  BY DEF Typed
<1>2. ASSUME NEW u \in Units, Push(u) PROVE TypeOK' /\ Locals' /\ AsParsed' /\ Room'
  <2>1. u.kind = "sps" => StartsPicture(u)
    BY DEF StartsPicture
  <2>2. TypeOK' /\ Locals' /\ Room'
    BY <1>1, <1>2 DEF Push, Ends
  <2>3. AsParsed'
    BY <1>1, <1>2, <2>1 DEF Push, Ends
  <2> QED
    BY <2>2, <2>3
<1>3. CASE Flush
  BY <1>1, <1>3 DEF Flush, Flushing, Typed
<1>4. CASE Deliver
  BY <1>1, <1>4 DEF Deliver, Typed
<1>5. CASE TakeSps
  <2>1. unit.id \in SpsIds /\ unit.sps \in SpsSet
    BY <1>1, <1>5 DEF TakeSps, Units, Flushing
  <2>2. pending = None
    BY <1>1, <1>5 DEF TakeSps
  <2> QED
    BY <1>1, <1>5, <2>1, <2>2 DEF TakeSps, Typed
<1>6. CASE TakeSlice
  <2>1. unit.id \in SpsIds /\ unit.type \in Kinds
    BY <1>1, <1>6 DEF TakeSlice, Units, Flushing
  <2>2. pending' \in Pictures \cup {None}
    BY <1>1, <1>6, <2>1 DEF TakeSlice, Pictures
  <2>3. AsParsed'
    BY <1>1, <1>6 DEF TakeSlice
  <2> QED
    BY <1>1, <1>6, <2>2, <2>3 DEF TakeSlice, Typed
<1>7. CASE EndSequence
  <2>1. seenPicture' \in BOOLEAN
    BY <1>7, Zenon DEF EndSequence
  <2> QED
    BY <1>1, <1>7, <2>1 DEF EndSequence, Typed
<1>8. CASE TakeOther
  BY <1>1, <1>8 DEF TakeOther, Typed
<1>9. CASE RejectUnit
  BY <1>1, <1>9 DEF RejectUnit, Typed
<1> QED
  BY <1>2, <1>3, <1>4, <1>5, <1>6, <1>7, <1>8, <1>9 DEF Typed

(* A restarted session has an empty pool and DPB. *)
LEMMA RestartTyped ==
  ASSUME NEW s \in SpsSet, Restart(s)
  PROVE  /\ display' \in {"here", None}
         /\ session' \in {Surfaces(q) : q \in SpsSet} \cup {None}
         /\ requirements' \in {q.req : q \in SpsSet} \cup {None}
         /\ inUse' = {} /\ dpb' = {} /\ returnedOnly' = None
         /\ slots' \in [Keys -> AllSlots \cup {None}]
         /\ \A k \in Keys : slots'[k] = None
  BY DEF Restart

LEMMA CallStep ==
  ASSUME Typed,
         \/ \E id \in SpsIds : Prepare(id)
         \/ \E n \in 0..MaxUnits : Decode(n)
  PROVE  Typed'
<1> USE HevcAssumption
      DEF TypeOK, Locals, AsParsed, Room, Finishing, pool, held, rasl
<1>1. TypeOK /\ Locals /\ AsParsed /\ Room
  BY DEF Typed
<1>2. ASSUME NEW n \in 0..MaxUnits, Decode(n) PROVE Typed'
  <2>1. TypeOK'
    BY <1>1, <1>2 DEF Decode
  <2>2. Locals' /\ AsParsed' /\ Room'
    BY <1>1, <1>2 DEF Decode
  <2> QED
    BY <2>1, <2>2 DEF Typed
<1>3. ASSUME NEW id \in SpsIds, Prepare(id) PROVE Typed'
  <2>1. sps[id] \in SpsSet
    BY <1>1, <1>3 DEF Prepare
  <2>2. CASE Serves(sps[id])
    BY <1>1, <1>3, <2>2 DEF Prepare, Typed
  <2>3. CASE Restart(sps[id])
    BY <1>1, <1>3, <2>1, <2>3, RestartTyped DEF Prepare, Typed
  <2> QED
    BY <1>3, <2>2, <2>3 DEF Prepare
<1> QED
  BY <1>2, <1>3

(* finish_picture(), but for the last of its steps. *)
LEMMA FinishStep ==
  ASSUME Typed, RejectPicture \/ DpbRefuses \/ SkipRasl \/ EnsureSession
  PROVE  Typed'
<1> USE HevcAssumption
      DEF TypeOK, Locals, AsParsed, Room, Finishing, Fail, Finished, Goto, pool, held, rasl
<1>1. TypeOK /\ Locals /\ AsParsed /\ Room
  BY DEF Typed
<1>2. CASE RejectPicture \/ DpbRefuses
  BY <1>1, <1>2 DEF RejectPicture, DpbRefuses, Typed
<1>3. CASE SkipRasl
  BY <1>1, <1>3 DEF SkipRasl, Typed
<1>4. CASE EnsureSession
  <2> DEFINE s == sps[pending.id]
  <2>1. s \in SpsSet /\ pending # None
    BY <1>4, InProgress DEF EnsureSession
  <2>2. NoRaslOutput(pending.kind) \in BOOLEAN
    BY DEF NoRaslOutput
  <2>3. /\ display' \in {"here", None}
        /\ session' \in {Surfaces(q) : q \in SpsSet} \cup {None}
        /\ requirements' \in {q.req : q \in SpsSet} \cup {None}
        /\ inUse' \in SUBSET AllSlots /\ dpb' \in SUBSET Keys
        /\ returnedOnly' \in AllSlots \cup {None}
        /\ slots' \in [Keys -> AllSlots \cup {None}]
        /\ dpb' = dpb \/ dpb' = {}
    BY <1>1, <1>4, <2>1, RestartTyped DEF EnsureSession
  <2>4. skipRasl' \in BOOLEAN /\ seenPicture' \in BOOLEAN
    BY <1>1, <1>4, <2>2 DEF EnsureSession
  <2>5. TypeOK'
    BY <1>1, <1>4, <2>3, <2>4 DEF EnsureSession
  <2>6. Locals' /\ AsParsed'
    BY <1>1, <1>4, <2>1 DEF EnsureSession
  <2>7. Room'
    BY <1>1, <1>4, <2>3 DEF EnsureSession, Largest, Surfaces
  <2> QED
    BY <2>5, <2>6, <2>7 DEF Typed
<1> QED
  BY <1>2, <1>3, <1>4

(* The reference picture set makes room for the picture. *)
LEMMA BeginStep ==
  ASSUME Typed, NEW K \in SUBSET dpb, BeginPicture(K)
  PROVE  Typed'
<1> USE HevcAssumption
      DEF TypeOK, Locals, AsParsed, Finishing, Fail, Finished, Goto, pool, held, rasl
<1>1. TypeOK /\ Locals /\ AsParsed /\ Room
  BY DEF Typed
<1>2. /\ pending # None /\ pending.sps \in SpsSet
      /\ pending.sps.dpb \in 1..16 /\ sps[pending.id] = pending.sps
  BY InProgress, SurfacesBounds DEF BeginPicture
<1>3. TypeOK' /\ Locals' /\ AsParsed'
  BY <1>1, <1>2 DEF BeginPicture, LetGo
<1>4. dpb' = dpb \ K
  BY DEF BeginPicture, LetGo
<1>5. IsFiniteSet(dpb) /\ Cardinality(dpb) \in Nat
  BY DpbFinite
<1>6. /\ IsFiniteSet(dpb') /\ Cardinality(dpb') \in Nat
      /\ Cardinality(dpb') <= Cardinality(dpb)
  BY <1>4, <1>5, FS_Subset, FS_CardinalityType
<1>7. Cardinality(dpb') < pending.sps.dpb
  <2>1. CASE K = dpb
    <3>1. dpb' = {}
      BY <1>4, <2>1
    <3> QED
      BY <1>2, <3>1, FS_EmptySet
  <2>2. CASE Cardinality(dpb \ K) < sps[pending.id].dpb
    BY <1>2, <1>4, <2>2
  <2> QED
    BY <2>1, <2>2 DEF BeginPicture, LeftOut
<1>8. dpb' # {} => SpsSet # {} /\ Cardinality(dpb') + 2 <= Largest
  <2> SUFFICES ASSUME dpb' # {} PROVE SpsSet # {} /\ Cardinality(dpb') + 2 <= Largest
    OBVIOUS
  <2>1. dpb # {} /\ Largest \in 3..18
    BY <1>2, <1>4, KeysFinite
  <2>2. Cardinality(dpb) + 2 <= Largest
    BY <1>1, <2>1 DEF Room
  <2> QED
    BY <1>2, <1>5, <1>6, <2>1, <2>2
<1>9. Largest' = Largest
  BY DEF Largest, Surfaces
<1>10. pc' \in {"acquire", "submit"} => pending' = pending
  BY DEF BeginPicture
<1>11. Room'
  BY <1>7, <1>8, <1>9, <1>10 DEF Room
<1> QED
  BY <1>3, <1>11 DEF Typed

LEMMA DecodeStep ==
  ASSUME Typed, Acquire \/ DecodeFails \/ Decoded
  PROVE  Typed'
<1> USE HevcAssumption
      DEF TypeOK, Locals, AsParsed, Finishing, Fail, Finished, Goto, pool, held, rasl
<1>1. TypeOK /\ Locals /\ AsParsed /\ Room
  BY DEF Typed
<1>2. /\ pending # None /\ pending.sps \in SpsSet
      /\ pending.sps.dpb \in 1..16 /\ sps[pending.id] = pending.sps
      /\ None \notin AllSlots
  BY InProgress, SurfacesBounds DEF Acquire, DecodeFails, Decoded
<1>3. Largest' = Largest
  BY DEF Largest, Surfaces
<1>4. CASE Acquire
  <2>1. Room'
    BY <1>1, <1>3, <1>4 DEF Acquire, Room
  <2>2. FreeSlots \subseteq AllSlots
    BY DEF FreeSlots
  <2>3. TypeOK' /\ Locals' /\ AsParsed'
    BY <1>1, <1>2, <1>4, <2>2 DEF Acquire
  <2> QED
    BY <2>1, <2>3 DEF Typed
<1>5. CASE DecodeFails
  BY <1>1, <1>3, <1>5 DEF DecodeFails, Typed, Room
<1>6. CASE Decoded
  <2>1. Fresh \in Keys \ dpb
    BY <1>2, FreshIsFree
  <2>2. target \in AllSlots
    BY <1>1, <1>6 DEF Decoded
  <2>3. /\ dpb' \in SUBSET Keys
        /\ slots' \in [Keys -> AllSlots \cup {None}]
        /\ returnedOnly' \in AllSlots \cup {None}
        /\ out' \in Seq(AllSlots)
    <3>1. CASE Stored
      BY <1>1, <1>6, <2>1, <2>2, <3>1 DEF Decoded
    <3>2. CASE ~Stored
      BY <1>1, <1>6, <2>1, <2>2, <3>2 DEF Decoded
    <3> QED
      BY <3>1, <3>2
  <2>4. TypeOK' /\ Locals' /\ AsParsed'
    BY <1>1, <1>6, <2>3 DEF Decoded
  <2>5. IsFiniteSet(dpb) /\ Cardinality(dpb) \in Nat
    BY DpbFinite
  <2>6. /\ Cardinality(dpb) < pending.sps.dpb
        /\ pending.sps.dpb + 2 <= Largest /\ Largest \in 3..18
    BY <1>1, <1>2, <1>6, SurfacesBounds, LargestBounds DEF Decoded, Room
  <2>7. Cardinality(dpb \cup {Fresh}) = Cardinality(dpb) + 1
    BY <2>1, <2>5, FS_AddElement
  <2>8. Cardinality(dpb') + 2 <= Largest
    <3>1. dpb' = dpb \/ dpb' = dpb \cup {Fresh}
      BY <1>6 DEF Decoded
    <3>2. CASE dpb' = dpb
      BY <1>2, <2>5, <2>6, <3>2
    <3>3. CASE dpb' = dpb \cup {Fresh}
      BY <1>2, <2>5, <2>6, <2>7, <3>3
    <3> QED
      BY <3>1, <3>2, <3>3
  <2>9. Room'
    BY <1>2, <1>3, <1>6, <2>8 DEF Decoded, Room
  <2> QED
    BY <2>4, <2>9 DEF Typed
<1> QED
  BY <1>4, <1>5, <1>6

LEMMA TypedStep == Typed /\ [Next]_vars => Typed'
<1> SUFFICES ASSUME Typed, [Next]_vars PROVE Typed'
  OBVIOUS
<1>1. CASE UNCHANGED vars
  BY <1>1 DEF Typed, TypeOK, Locals, AsParsed, Room, Finishing, Largest, Surfaces, vars,
       pool, held, rasl, call
<1>2. CASE (\E id \in SpsIds : Prepare(id)) \/ (\E n \in 0..MaxUnits : Decode(n))
  BY <1>2, CallStep
<1>3. CASE \/ \E u \in Units : Push(u)
          \/ Flush \/ Deliver
          \/ TakeSps \/ TakeSlice \/ EndSequence \/ TakeOther \/ RejectUnit
  BY <1>3, UnitStep
<1>4. CASE RejectPicture \/ DpbRefuses \/ SkipRasl \/ EnsureSession
  BY <1>4, FinishStep
<1>5. ASSUME NEW K \in SUBSET dpb, BeginPicture(K) PROVE Typed'
  BY <1>5, BeginStep
<1>6. CASE Acquire \/ DecodeFails \/ Decoded
  BY <1>6, DecodeStep
<1> QED
  BY <1>1, <1>2, <1>3, <1>4, <1>5, <1>6 DEF Next

LEMMA AlwaysTyped == Spec => []Typed
  BY Initially, TypedStep, PTL DEF Spec

(* Every reachable state is of its type, for any parameter sets and any    *)
(* number of units to a call.                                              *)
THEOREM TypeCorrect == Spec => []TypeOK
<1>1. Typed => TypeOK
  BY DEF Typed
<1> QED
  BY <1>1, AlwaysTyped, PTL

(* A parameter set never takes the place of the one a picture in progress  *)
(* was parsed with, whatever units, flushes and prepare()s come between.   *)
THEOREM ParsedKept == Spec => []DecodedAsParsed
<1>1. Typed => DecodedAsParsed
  BY DEF Typed, Locals, AsParsed, Finishing, DecodedAsParsed
<1> QED
  BY <1>1, AlwaysTyped, PTL

-----------------------------------------------------------------------------
(* The pool.  A call that is Paced decodes nothing while a picture the DPB *)
(* lacks is still held, so the one place for such a picture is enough.     *)

(* No two pictures of the DPB share a surface. *)
Apart == \A j, k \in dpb : slots[j] = slots[k] => j = k

(* What the slots are taken for, without the count of PoolExact. *)
Taken ==
  /\ SlotsFollowDpb
  /\ Apart
  /\ inUse = (DpbSlots \cup {returnedOnly, target}) \ {None}
  /\ returnedOnly \notin DpbSlots
  /\ target \notin DpbSlots
  /\ target = None \/ target # returnedOnly

Alone ==
  /\ pc \in Finishing => out = <<>> /\ returnedOnly = None
  /\ pc = "units" /\ out = <<>> => returnedOnly = None
  /\ pc = "push" /\ unit # Flushing /\ out = <<>> => returnedOnly = None

(* The session has the surfaces the picture's sequence needs. *)
Large ==
  pc \in {"begin", "acquire", "submit"} =>
    session # None /\ Surfaces(pending.sps) <= session

Counted == Taken /\ Alone /\ Large

LEMMA InitiallyCounted == Init => Counted
  BY DEF Init, Counted, Taken, Apart, SlotsFollowDpb, DpbSlots, Alone, Large, Finishing

LEMMA TakenKept ==
  ASSUME Taken, UNCHANGED <<held, inUse, target>>
  PROVE  Taken'
<1>1. SlotsFollowDpb' /\ Apart'
  BY DEF held, Taken, SlotsFollowDpb, Apart
<1>2. DpbSlots' = DpbSlots
  BY DEF held, DpbSlots
<1> QED
  BY <1>1, <1>2 DEF held, Taken

LEMMA RestartTakes ==
  ASSUME NEW s \in SpsSet, target = None, target' = None, Restart(s)
  PROVE  Taken'
  BY DEF Restart, Taken, SlotsFollowDpb, Apart, DpbSlots

LEMMA UnitsNeverFlush == Flushing \notin Units
  BY DEF Flushing, Units

LEMMA UnitStepCounted ==
  ASSUME Paced, Typed, Counted,
         \/ \E u \in Units : Push(u)
         \/ Flush \/ Deliver
         \/ TakeSps \/ TakeSlice \/ EndSequence \/ TakeOther \/ RejectUnit
  PROVE  Counted'
<1> USE DEF Alone, Finishing, Fail, held
<1>1. Taken /\ Alone
  BY DEF Counted
<1>2. UNCHANGED <<held, inUse, target>>
  BY DEF Push, Flush, Deliver, TakeSps, TakeSlice, EndSequence, TakeOther, RejectUnit
<1>3. Taken'
  BY <1>1, <1>2, TakenKept
<1>4. Large'
  BY DEF Large, Push, Flush, Deliver, TakeSps, TakeSlice, EndSequence, TakeOther,
       RejectUnit
<1>5. Alone'
  <2>1. ASSUME NEW u \in Units, Push(u) PROVE Alone'
    BY <1>1, <2>1, UnitsNeverFlush DEF Push, Ends, PacedUnit
  <2>2. CASE Flush
    BY <1>1, <2>2 DEF Flush
  <2>3. CASE Deliver
    BY <1>1, <2>3 DEF Deliver
  <2>4. CASE TakeSps
    BY <1>1, <2>4 DEF TakeSps, Flushing
  <2>5. CASE TakeSlice
    BY <1>1, <2>5 DEF TakeSlice, Flushing
  <2>6. CASE EndSequence
    BY <1>1, <2>6 DEF EndSequence, Flushing
  <2>7. CASE TakeOther
    BY <1>1, <2>7 DEF TakeOther, Flushing
  <2>8. CASE RejectUnit
    BY <1>1, <2>8 DEF RejectUnit
  <2> QED
    BY <2>1, <2>2, <2>3, <2>4, <2>5, <2>6, <2>7, <2>8
<1> QED
  BY <1>3, <1>4, <1>5 DEF Counted

LEMMA CallStepCounted ==
  ASSUME Typed, Counted,
         \/ \E id \in SpsIds : Prepare(id)
         \/ \E n \in 0..MaxUnits : Decode(n)
  PROVE  Counted'
<1>1. Taken /\ Alone /\ Large /\ TypeOK /\ Locals
  BY DEF Counted, Typed
<1>2. ASSUME NEW n \in 0..MaxUnits, Decode(n) PROVE Counted'
  <2>1. Alone' /\ Large'
    BY <1>2 DEF Decode, Alone, Large, Finishing
  <2>2. SlotsFollowDpb' /\ Apart' /\ DpbSlots' = DpbSlots
    BY <1>1, <1>2 DEF Decode, Taken, SlotsFollowDpb, Apart, DpbSlots
  <2>3. target = None /\ target' = None
    BY <1>1, <1>2 DEF Decode, Locals
  <2>4. None \notin DpbSlots
    BY <1>1 DEF Taken, SlotsFollowDpb, DpbSlots, TypeOK
  <2>5. Taken'
    BY <1>1, <1>2, <2>2, <2>3, <2>4 DEF Decode, Taken
  <2> QED
    BY <2>1, <2>5 DEF Counted
<1>3. ASSUME NEW id \in SpsIds, Prepare(id) PROVE Counted'
  <2>1. sps[id] \in SpsSet /\ target = None /\ target' = None
    BY <1>1, <1>3 DEF Prepare, TypeOK, Locals
  <2>2. Alone' /\ Large'
    BY <1>3 DEF Prepare, Alone, Large, Finishing
  <2>3. CASE Serves(sps[id])
    <3>1. UNCHANGED <<held, inUse, target>>
      BY <1>3, <2>3 DEF Prepare
    <3> QED
      BY <1>1, <2>2, <3>1, TakenKept DEF Counted
  <2>4. CASE Restart(sps[id])
    BY <2>1, <2>2, <2>4, RestartTakes DEF Counted
  <2> QED
    BY <1>3, <2>3, <2>4 DEF Prepare
<1> QED
  BY <1>2, <1>3

LEMMA FinishStepCounted ==
  ASSUME Typed, Counted, RejectPicture \/ DpbRefuses \/ SkipRasl \/ EnsureSession
  PROVE  Counted'
<1> USE DEF Alone, Large, Finishing, Fail, Finished, Goto
<1>1. Taken /\ Alone /\ Large /\ TypeOK /\ Locals
  BY DEF Counted, Typed
<1>2. CASE RejectPicture \/ DpbRefuses \/ SkipRasl
  <2>1. UNCHANGED <<held, inUse, target>>
    BY <1>2 DEF RejectPicture, DpbRefuses, SkipRasl
  <2>2. Alone' /\ Large'
    BY <1>1, <1>2 DEF RejectPicture, DpbRefuses, SkipRasl, held
  <2> QED
    BY <1>1, <2>1, <2>2, TakenKept DEF Counted
<1>3. CASE EnsureSession
  <2> DEFINE s == sps[pending.id]
  <2>1. s \in SpsSet /\ s = pending.sps
    BY <1>3, InProgress DEF EnsureSession
  <2>2. target = None /\ target' = None
    BY <1>1, <1>3 DEF EnsureSession, Locals
  <2>3. (UNCHANGED <<held, inUse, target>>) \/ Restart(s)
    BY <1>3 DEF EnsureSession
  <2>4. Taken'
    BY <1>1, <2>1, <2>2, <2>3, TakenKept, RestartTakes
  <2>5. Alone'
    BY <1>1, <1>3 DEF EnsureSession, held, Restart
  <2>6. Large'
    <3>1. SUFFICES ASSUME pc' = "begin"
                   PROVE  session' # None /\ Surfaces(pending.sps) <= session'
      BY <1>3 DEF EnsureSession
    <3>2. Surfaces(s) \in Nat
      BY <2>1, SurfacesBounds
    <3>3. session' # None /\ (Serves(s) \/ pool' # pool)
      BY <1>3, <3>1 DEF EnsureSession
    <3>4. CASE Serves(s)
      <4>1. session' = session
        BY <1>3, <3>4 DEF EnsureSession, pool
      <4> QED
        BY <2>1, <3>3, <3>4, <4>1 DEF Serves
    <3>5. CASE ~Serves(s)
      <4>1. Restart(s)
        BY <1>3, <3>3, <3>5 DEF EnsureSession
      <4> QED
        BY <2>1, <3>2, <3>3, <4>1 DEF Restart
    <3> QED
      BY <3>4, <3>5
  <2> QED
    BY <2>4, <2>5, <2>6 DEF Counted
<1> QED
  BY <1>2, <1>3

LEMMA BeginStepCounted ==
  ASSUME Typed, Counted, NEW K \in SUBSET dpb, BeginPicture(K)
  PROVE  Counted'
<1>1. Taken /\ Alone /\ Large /\ TypeOK /\ Locals
  BY DEF Counted, Typed
<1>2. Alone' /\ Large'
  BY <1>1 DEF BeginPicture, Alone, Large, Finishing, Fail, Finished, Goto, pool
<1> DEFINE dropped == {slots[k] : k \in K}
<1>3. /\ dpb' = dpb \ K /\ inUse' = inUse \ dropped
      /\ \A k \in Keys : slots'[k] = IF k \in K THEN None ELSE slots[k]
      /\ returnedOnly' = returnedOnly
  BY DEF BeginPicture, LetGo
<1>4. target = None /\ target' = None
  BY <1>1 DEF BeginPicture, Locals
<1>5. \A k \in dpb \ K : slots'[k] = slots[k] /\ slots[k] \notin dropped
  BY <1>1, <1>3 DEF Taken, Apart, TypeOK
<1>6. SlotsFollowDpb' /\ Apart'
  BY <1>1, <1>3, <1>5 DEF Taken, SlotsFollowDpb, Apart, TypeOK
<1>7. DpbSlots' = DpbSlots \ dropped
  BY <1>3, <1>5 DEF DpbSlots
<1>8. dropped \subseteq DpbSlots
  BY DEF DpbSlots
<1>9. Taken'
  BY <1>1, <1>3, <1>4, <1>6, <1>7, <1>8 DEF Taken
<1> QED
  BY <1>2, <1>9 DEF Counted

LEMMA DecodeStepCounted ==
  ASSUME Typed, Counted, Acquire \/ DecodeFails \/ Decoded
  PROVE  Counted'
<1>1. Taken /\ Alone /\ Large /\ TypeOK /\ Locals
  BY DEF Counted, Typed
<1>2. None \notin AllSlots /\ returnedOnly = None /\ out = <<>>
  BY <1>1, InProgress DEF Alone, Finishing, Acquire, DecodeFails, Decoded
<1>3. None \notin DpbSlots
  BY <1>1 DEF Taken, SlotsFollowDpb, DpbSlots, TypeOK
<1>4. CASE Acquire
  <2>1. Alone' /\ Large'
    BY <1>1, <1>2, <1>4 DEF Acquire, Alone, Large, Finishing, Fail, Goto, pool, held
  <2>2. CASE FreeSlots = {}
    BY <1>1, <1>4, <2>1, <2>2, TakenKept DEF Acquire, Counted
  <2>3. CASE FreeSlots # {}
    <3>1. target' \in AllSlots \ inUse /\ inUse' = inUse \cup {target'}
      BY <1>4, <2>3 DEF Acquire, FreeSlots
    <3>2. SlotsFollowDpb' /\ Apart' /\ DpbSlots' = DpbSlots /\ returnedOnly' = None
      BY <1>1, <1>2, <1>4 DEF Acquire, held, Taken, SlotsFollowDpb, Apart, DpbSlots
    <3>3. target = None
      BY <1>1, <1>4 DEF Acquire, Locals
    <3>4. Taken'
      BY <1>1, <1>2, <1>3, <3>1, <3>2, <3>3 DEF Taken
    <3> QED
      BY <2>1, <3>4 DEF Counted
  <2> QED
    BY <2>2, <2>3
<1>5. CASE DecodeFails
  <2>1. Alone' /\ Large'
    BY <1>5 DEF DecodeFails, Alone, Large, Finishing, Fail
  <2>2. SlotsFollowDpb' /\ Apart' /\ DpbSlots' = DpbSlots /\ returnedOnly' = None
    BY <1>1, <1>2, <1>5 DEF DecodeFails, held, Taken, SlotsFollowDpb, Apart, DpbSlots
  <2>3. inUse' = inUse \ {target} /\ target' = None
    BY <1>5 DEF DecodeFails
  <2>4. Taken'
    BY <1>1, <1>2, <1>3, <2>2, <2>3 DEF Taken
  <2> QED
    BY <2>1, <2>4 DEF Counted
<1>6. CASE Decoded
  <2>1. out' # <<>> /\ pc' = "push" /\ target' = None /\ inUse' = inUse
    BY <1>2, <1>6 DEF Decoded, Finished, Goto
  <2>2. Alone' /\ Large'
    BY <2>1 DEF Alone, Large, Finishing
  <2>3. target \in AllSlots /\ target \notin DpbSlots
    BY <1>1, <1>6 DEF Decoded, Locals, TypeOK, Taken
  <2>4. inUse = DpbSlots \cup {target}
    BY <1>1, <1>2, <1>3, <2>3 DEF Taken
  <2>5. CASE Stored
    <3>1. Fresh \in Keys \ dpb
      BY <1>6, InProgress, FreshIsFree DEF Decoded, Finishing
    <3>2. dpb' = dpb \cup {Fresh} /\ returnedOnly' = None
      BY <1>2, <1>6, <2>5 DEF Decoded
    <3>3. \A k \in Keys : slots'[k] = IF k = Fresh THEN target ELSE slots[k]
      BY <1>1, <1>6, <2>5, <3>1 DEF Decoded, TypeOK
    <3>4. slots'[Fresh] = target /\ \A k \in dpb : slots'[k] = slots[k]
      BY <1>1, <3>1, <3>3 DEF TypeOK
    <3>5. SlotsFollowDpb'
      BY <1>1, <1>2, <2>3, <3>1, <3>2, <3>3 DEF Taken, SlotsFollowDpb
    <3>6. Apart'
      BY <1>1, <2>3, <3>2, <3>4 DEF Taken, Apart, DpbSlots
    <3>7. DpbSlots' = DpbSlots \cup {target}
      BY <3>2, <3>4 DEF DpbSlots
    <3>8. Taken'
      BY <1>2, <1>3, <2>1, <2>3, <2>4, <3>2, <3>5, <3>6, <3>7 DEF Taken
    <3> QED
      BY <2>2, <3>8 DEF Counted
  <2>6. CASE ~Stored
    <3>1. dpb' = dpb /\ slots' = slots /\ returnedOnly' = target
      BY <1>6, <2>6 DEF Decoded
    <3>2. SlotsFollowDpb' /\ Apart' /\ DpbSlots' = DpbSlots
      BY <1>1, <3>1 DEF Taken, SlotsFollowDpb, Apart, DpbSlots
    <3>3. Taken'
      BY <1>2, <1>3, <2>1, <2>3, <2>4, <3>1, <3>2 DEF Taken
    <3> QED
      BY <2>2, <3>3 DEF Counted
  <2> QED
    BY <2>5, <2>6
<1> QED
  BY <1>4, <1>5, <1>6

LEMMA CountedStep ==
  ASSUME Paced PROVE Typed /\ Counted /\ [Next]_vars => Counted'
<1> SUFFICES ASSUME Typed, Counted, [Next]_vars PROVE Counted'
  OBVIOUS
<1>1. CASE UNCHANGED vars
  <2>1. UNCHANGED <<held, inUse, target>>
    BY <1>1 DEF vars
  <2>2. Taken'
    BY <2>1, TakenKept DEF Counted
  <2>3. Alone' /\ Large'
    BY <1>1 DEF Counted, Alone, Large, Finishing, vars, pool, held, call
  <2> QED
    BY <2>2, <2>3 DEF Counted
<1>2. CASE (\E id \in SpsIds : Prepare(id)) \/ (\E n \in 0..MaxUnits : Decode(n))
  BY <1>2, CallStepCounted
<1>3. CASE \/ \E u \in Units : Push(u)
          \/ Flush \/ Deliver
          \/ TakeSps \/ TakeSlice \/ EndSequence \/ TakeOther \/ RejectUnit
  BY <1>3, UnitStepCounted
<1>4. CASE RejectPicture \/ DpbRefuses \/ SkipRasl \/ EnsureSession
  BY <1>4, FinishStepCounted
<1>5. ASSUME NEW K \in SUBSET dpb, BeginPicture(K) PROVE Counted'
  BY <1>5, BeginStepCounted
<1>6. CASE Acquire \/ DecodeFails \/ Decoded
  BY <1>6, DecodeStepCounted
<1> QED
  BY <1>1, <1>2, <1>3, <1>4, <1>5, <1>6 DEF Next

LEMMA AlwaysCounted == ASSUME Paced PROVE Spec => [](Typed /\ Counted)
<1>1. Typed /\ Counted /\ [Next]_vars => (Typed /\ Counted)'
  BY TypedStep, CountedStep
<1>2. Init => Typed /\ Counted
  BY Initially, InitiallyCounted
<1> QED
  BY <1>1, <1>2, PTL DEF Spec

-----------------------------------------------------------------------------
(* As many surfaces are held by the DPB as it has pictures. *)
LEMMA OneEach ==
  ASSUME Typed, Taken
  PROVE  /\ IsFiniteSet(dpb) /\ IsFiniteSet(DpbSlots)
         /\ Cardinality(DpbSlots) = Cardinality(dpb)
<1> DEFINE f == [k \in dpb |-> slots[k]]
<1>1. IsFiniteSet(dpb)
  BY DpbFinite
<1>2. f \in Surjection(dpb, DpbSlots)
  BY DEF Surjection, DpbSlots
<1>3. f \in Injection(dpb, DpbSlots)
  BY DEF Injection, IsInjective, DpbSlots, Taken, Apart
<1> HIDE DEF f
<1> QED
  BY <1>1, <1>2, <1>3, FS_Surjection

(* decode_picture() always finds a surface. *)
LEMMA SlotIsFree ==
  ASSUME Typed, Counted, pc = "acquire"
  PROVE  FreeSlots # {}
<1>1. TypeOK /\ Locals /\ Room /\ Taken /\ Alone /\ Large
  BY DEF Typed, Counted
<1>2. PICK s \in SpsSet : session = Surfaces(s)
  BY <1>1 DEF TypeOK, Large
<1>3. session \in 3..18 /\ session <= Largest /\ Largest \in 3..18
  BY <1>2, SurfacesBounds, LargestBounds
<1>4. pending.sps \in SpsSet /\ None \notin AllSlots
  BY InProgress DEF Finishing
<1>5. pending.sps.dpb \in 1..16 /\ pending.sps.dpb + 2 <= session
  BY <1>1, <1>4, SurfacesBounds DEF Large
<1>6. Cardinality(dpb) \in Nat /\ Cardinality(dpb) < pending.sps.dpb
  BY <1>1, DpbFinite DEF Room
<1>7. IsFiniteSet(DpbSlots) /\ Cardinality(DpbSlots) = Cardinality(dpb)
  BY <1>1, OneEach
<1>8. inUse \subseteq DpbSlots
  BY <1>1 DEF Taken, Alone, Locals, Finishing
<1>9. IsFiniteSet(0..(session - 1)) /\ Cardinality(0..(session - 1)) = session
  BY <1>3, FS_Interval
<1>10. ~(0..(session - 1) \subseteq DpbSlots)
  <2> SUFFICES ASSUME 0..(session - 1) \subseteq DpbSlots PROVE FALSE
    OBVIOUS
  <2>1. Cardinality(0..(session - 1)) <= Cardinality(DpbSlots)
    BY <1>7, FS_Subset
  <2>2. session <= Cardinality(dpb)
    BY <1>7, <1>9, <2>1
  <2> QED
    BY <1>3, <1>5, <1>6, <2>2
<1>11. PICK x \in 0..(session - 1) : x \notin inUse
  BY <1>8, <1>10
<1>12. x \in AllSlots /\ x < session /\ session # None
  BY <1>1, <1>3, <1>11 DEF AllSlots, Large
<1> QED
  BY <1>11, <1>12 DEF FreeSlots

(* Whatever fails in it, a decoder that is Paced has every surface of its   *)
(* session taken for exactly one picture of the DPB, for the one picture   *)
(* returned without being held, or for the picture being decoded.          *)
THEOREM NothingTwice == ASSUME Paced PROVE Spec => []PoolExact
<1>1. Typed /\ Counted => PoolExact
  BY OneEach DEF Counted, Taken, PoolExact
<1> QED
  BY <1>1, AlwaysCounted, PTL

(* The surfaces of a session are enough for the DPB its sequence asks for, *)
(* also where the session was made for a larger one.                       *)
THEOREM EnoughSurfaces == ASSUME Paced PROVE Spec => []NeverStarved
<1>1. Init => NeverStarved
  BY DEF Init, NeverStarved
<1>2. Typed /\ Counted /\ NeverStarved /\ [Next]_vars => NeverStarved'
  <2> SUFFICES ASSUME Typed, Counted, NeverStarved, [Next]_vars PROVE NeverStarved'
    OBVIOUS
  <2> USE DEF NeverStarved, Fail, Finished, Goto
  <2>1. CASE Acquire
    BY <2>1, SlotIsFree DEF Acquire
  <2>2. CASE (\E id \in SpsIds : Prepare(id)) \/ (\E n \in 0..MaxUnits : Decode(n))
    BY <2>2 DEF Prepare, Decode
  <2>3. CASE \/ \E u \in Units : Push(u)
            \/ Flush \/ Deliver
            \/ TakeSps \/ TakeSlice \/ EndSequence \/ TakeOther \/ RejectUnit
    BY <2>3 DEF Push, Flush, Deliver, TakeSps, TakeSlice, EndSequence, TakeOther,
         RejectUnit
  <2>4. CASE \/ RejectPicture \/ DpbRefuses \/ SkipRasl \/ EnsureSession
            \/ \E K \in SUBSET dpb : BeginPicture(K)
            \/ DecodeFails \/ Decoded
    BY <2>4 DEF RejectPicture, DpbRefuses, SkipRasl, EnsureSession, BeginPicture, DecodeFails, Decoded
  <2>5. CASE UNCHANGED vars
    BY <2>5 DEF vars, call
  <2> QED
    BY <2>1, <2>2, <2>3, <2>4, <2>5 DEF Next
<1> QED
  BY <1>1, <1>2, AlwaysCounted, PTL DEF Spec

-----------------------------------------------------------------------------
(* The decoder implements SurfacePool. *)

(* While a call runs the caller has nothing of the last one. *)
Quiet == pc # "idle" => given = <<>>

LEMMA QuietStep == Quiet /\ [Next]_vars => Quiet'
  BY DEF Quiet, Next, vars, call, Prepare, Decode, Push, Flush, Deliver, TakeSps, TakeSlice,
       EndSequence, TakeOther, RejectUnit, RejectPicture, DpbRefuses, SkipRasl, EnsureSession,
       BeginPicture, Acquire, DecodeFails, Decoded, Fail, Goto, Finished

(* The pictures of the running call and of the last one have their         *)
(* surfaces; a call that has some to return does not end without.          *)
Kept ==
  /\ pc = "idle" => out = <<>>
  /\ \A i \in DOMAIN out : out[i] \in inUse
  /\ \A i \in DOMAIN given : given[i] \in inUse

LEMMA KeptStep ==
  ASSUME Paced, Typed, Counted, Quiet, Kept, [Next]_vars
  PROVE  Kept'
<1>1. TypeOK /\ Locals /\ Taken /\ Alone
  BY DEF Typed, Counted
<1>2. CASE (\E id \in SpsIds : Prepare(id)) \/ (\E n \in 0..MaxUnits : Decode(n)) \/ Flush
  <2>1. out' = <<>> /\ given' = <<>>
    BY <1>2, HevcAssumption DEF Prepare, Decode, Flush, Kept, Quiet
  <2> QED
    BY <2>1 DEF Kept
<1>3. CASE \/ (\E u \in Units : Push(u))
          \/ TakeSps \/ TakeSlice \/ EndSequence \/ TakeOther \/ RejectUnit
  <2>1. UNCHANGED <<out, given, inUse>> /\ (pc' = "idle" => out = <<>>)
    BY <1>3 DEF Push, TakeSps, TakeSlice, EndSequence, TakeOther, RejectUnit, MayFail, Fail
  <2> QED
    BY <2>1 DEF Kept
<1>4. CASE Deliver
  <2>1. given' = out /\ out' = <<>> /\ inUse' = inUse
    BY <1>4 DEF Deliver
  <2> QED
    BY <2>1 DEF Kept
<1>5. CASE \/ RejectPicture \/ DpbRefuses \/ SkipRasl \/ EnsureSession
          \/ (\E K \in SUBSET dpb : BeginPicture(K))
          \/ Acquire \/ DecodeFails
  <2>1. out = <<>> /\ given = <<>>
    BY <1>1, <1>5 DEF Alone, Quiet, Finishing, RejectPicture, DpbRefuses, SkipRasl,
       EnsureSession, BeginPicture, Acquire, DecodeFails
  <2>2. out' = <<>> /\ given' = <<>>
    BY <2>1, <1>5 DEF RejectPicture, DpbRefuses, SkipRasl, EnsureSession, BeginPicture,
       Acquire, DecodeFails
  <2> QED
    BY <2>2 DEF Kept
<1>6. CASE Decoded
  <2>1. /\ out = <<>> /\ given' = <<>> /\ out' = Append(out, target)
        /\ inUse' = inUse /\ pc' = "push"
    BY <1>1, <1>6 DEF Alone, Quiet, Finishing, Decoded, Finished, Goto
  <2>2. target \in inUse
    BY <1>1, <1>6 DEF Taken, Locals, Decoded
  <2>3. \A i \in DOMAIN out' : out'[i] = target
    BY <2>1
  <2> QED
    BY <2>1, <2>2, <2>3 DEF Kept
<1>7. CASE UNCHANGED vars
  <2>1. UNCHANGED <<pc, out, given, inUse>>
    BY <1>7 DEF vars, call
  <2> QED
    BY <2>1 DEF Kept
<1> QED
  BY <1>2, <1>3, <1>4, <1>5, <1>6, <1>7 DEF Next

(* A picture returned keeps its surface until the next call (hevc.rs,      *)
(* HevcPicture), when a call that has completed a picture finishes no      *)
(* other and does not fail, and flush() finishes none while the last one   *)
(* returned is one the DPB does not hold.                                  *)
THEOREM ReturnedStay == ASSUME Paced PROVE Spec => []ReturnedKept
<1>1. Init => Quiet /\ Kept
  BY DEF Init, Quiet, Kept
<1>2. Typed /\ Counted /\ Quiet /\ Kept /\ [Next]_vars => Kept'
  BY KeptStep
<1>3. Kept => ReturnedKept
  BY DEF Kept, ReturnedKept
<1> QED
  BY <1>1, <1>2, <1>3, AlwaysCounted, QuietStep, PTL DEF Spec

(* What somebody holds, or is being decoded into. *)
Known == Pool!Live \cup {None}

LEMMA HoldersKnown ==
  /\ target \in Known /\ None \in Known
  /\ \A k \in Keys : slots[k] \in Known
  /\ \A i \in 1..MaxUnits : i \in DOMAIN out => out[i] \in Known
  /\ \A i \in 1..MaxUnits : i \in DOMAIN given => given[i] \in Known
<1>1. \A x \in Holders : hold[x] \in Known
  BY DEF Known, Pool!Live, Pool!Held
<1>2. \A k \in Keys : <<"dpb", k>> \in Holders /\ hold[<<"dpb", k>>] = slots[k]
  BY DEF hold, Holders
<1>3. \A i \in 1..MaxUnits :
        /\ <<"out", i>> \in Holders
        /\ i \in DOMAIN out => hold[<<"out", i>>] = out[i]
  BY DEF hold, Holders
<1>4. \A i \in 1..MaxUnits :
        /\ <<"given", i>> \in Holders
        /\ i \in DOMAIN given => hold[<<"given", i>>] = given[i]
  BY DEF hold, Holders
<1>5. target \in Known /\ None \in Known
  BY DEF Known, Pool!Live
<1> QED
  BY <1>1, <1>2, <1>3, <1>4, <1>5

(* A step whose holders end with surfaces that were live is a Pass. *)
LEMMA PassStep ==
  ASSUME \A k \in Keys : slots'[k] \in Known,
         \A i \in 1..MaxUnits : i \in DOMAIN out' => out'[i] \in Known,
         \A i \in 1..MaxUnits : i \in DOMAIN given' => given'[i] \in Known,
         target' \in {target, None}
  PROVE  Pool!Pass
<1>1. \A x \in Holders : hold'[x] \in Known
  <2> SUFFICES ASSUME NEW x \in Holders PROVE hold'[x] \in Known
    OBVIOUS
  <2>1. CASE x \in {"dpb"} \X Keys
    BY <2>1 DEF hold
  <2>2. CASE x \in {"out"} \X (1..MaxUnits)
    BY <2>2, HoldersKnown DEF hold
  <2>3. CASE x \in {"given"} \X (1..MaxUnits)
    BY <2>3, HoldersKnown DEF hold
  <2> QED
    BY <2>1, <2>2, <2>3 DEF Holders
<1>2. hold' \in [Holders -> Pool!Live \cup {None}]
  <2> DEFINE kept(x) ==
        CASE x[1] = "dpb" -> slots'[x[2]]
          [] x[1] = "out" -> IF x[2] \in DOMAIN out' THEN out'[x[2]] ELSE None
          [] x[1] = "given" -> IF x[2] \in DOMAIN given' THEN given'[x[2]] ELSE None
  <2>1. hold' = [x \in Holders |-> kept(x)]
    BY DEF hold
  <2> HIDE DEF kept
  <2>2. hold' = [x \in Holders |-> hold'[x]]
    BY <2>1
  <2> QED
    BY <1>1, <2>2 DEF Known
<1> QED
  BY <1>2 DEF Pool!Pass

LEMMA InitPool == Init => Pool!Init
<1> SUFFICES ASSUME Init PROVE Pool!Init
  OBVIOUS
<1>1. hold = [x \in Holders |-> None]
  BY DEF Init, hold, Holders
<1> QED
  BY <1>1 DEF Init, Pool!Init

LEMMA NextPool ==
  ASSUME Typed, Counted, Quiet, [Next]_vars
  PROVE  [Pool!Next]_Pool!vars
<1> SUFFICES Pool!Pass \/ Pool!Write
  BY DEF Pool!Next
<1>1. TypeOK /\ Locals /\ Taken
  BY DEF Typed, Counted
<1>2. ASSUME slots' = slots \/ \A k \in Keys : slots'[k] \in {slots[k], None},
             out' \in {out, <<>>}, given' \in {given, <<>>}, target' \in {target, None}
      PROVE  Pool!Pass
  BY <1>2, PassStep, HoldersKnown
<1>3. ASSUME NEW id \in SpsIds, Prepare(id) PROVE Pool!Pass
  BY <1>2, <1>3 DEF Prepare, Restart, held
<1>4. ASSUME NEW n \in 0..MaxUnits, Decode(n) PROVE Pool!Pass
  BY <1>2, <1>4 DEF Decode
<1>5. ASSUME NEW u \in Units, Push(u) PROVE Pool!Pass
  BY <1>2, <1>5 DEF Push, held
<1>6. CASE \/ Flush \/ TakeSps \/ TakeSlice \/ EndSequence \/ TakeOther \/ RejectUnit
          \/ RejectPicture \/ DpbRefuses \/ SkipRasl \/ DecodeFails
  BY <1>2, <1>6 DEF Flush, TakeSps, TakeSlice, EndSequence, TakeOther, RejectUnit,
       RejectPicture, DpbRefuses, SkipRasl, DecodeFails, held
<1>7. CASE EnsureSession
  BY <1>2, <1>7 DEF EnsureSession, Restart, held
<1>8. ASSUME NEW K \in SUBSET dpb, BeginPicture(K) PROVE Pool!Pass
  BY <1>2, <1>8 DEF BeginPicture, LetGo
<1>20. CASE Deliver
  BY <1>20, PassStep, HoldersKnown DEF Deliver, held
<1>21. CASE Acquire
  <2>1. CASE FreeSlots = {}
    BY <1>2, <1>21, <2>1 DEF Acquire, held
  <2>2. CASE FreeSlots # {}
    <3>1. target' \in AllSlots \ inUse /\ UNCHANGED <<slots, out, given>>
      BY <1>21, <2>2 DEF Acquire, FreeSlots, held
    <3>2. target = None /\ out = <<>> /\ given = <<>>
      BY <1>1, <1>21 DEF Acquire, Locals, Quiet, Counted, Alone, Finishing
    <3>3. \A k \in Keys : slots[k] # None => slots[k] \in inUse
      BY <1>1 DEF Taken, SlotsFollowDpb, DpbSlots
    <3>4. \A x \in Holders : hold[x] # None => hold[x] \in inUse
      <4> SUFFICES ASSUME NEW x \in Holders PROVE hold[x] # None => hold[x] \in inUse
        OBVIOUS
      <4>1. CASE x \in {"dpb"} \X Keys
        BY <3>3, <4>1 DEF hold
      <4>2. CASE x \in {"out", "given"} \X (1..MaxUnits)
        BY <3>2, <4>2 DEF hold
      <4> QED
        BY <4>1, <4>2 DEF Holders
    <3>5. hold' = hold
      BY <3>1 DEF hold
    <3>6. target' \notin Pool!Held(hold)
      BY <3>1, <3>4 DEF Pool!Held
    <3> QED
      BY <3>1, <3>2, <3>5, <3>6 DEF Pool!Write
  <2> QED
    BY <2>1, <2>2
<1>22. CASE UNCHANGED vars
  BY <1>2, <1>22 DEF vars, held
<1>23. CASE Decoded
  <2>1. \A k \in Keys : slots'[k] \in {slots[k], target}
    BY <1>1, <1>23 DEF Decoded, TypeOK
  <2>2. \A i \in DOMAIN out' : out'[i] = target \/ (i \in DOMAIN out /\ out'[i] = out[i])
    BY <1>1, <1>23 DEF Decoded, TypeOK
  <2> QED
    BY <1>23, <2>1, <2>2, PassStep, HoldersKnown DEF Decoded
<1> QED
  BY <1>3, <1>4, <1>5, <1>6, <1>7, <1>8, <1>20, <1>21, <1>22, <1>23 DEF Next

(* Nothing the DPB, the pictures to be returned or the caller have is ever *)
(* decoded into, when a call that has completed a picture finishes no      *)
(* other and does not fail, and flush() finishes none while the last one   *)
(* returned is one the DPB does not hold.                                  *)
THEOREM ImplementsPool == ASSUME Paced PROVE Spec => PoolSpec
<1>1. Init => Quiet
  BY DEF Init, Quiet
<1> QED
  BY <1>1, AlwaysCounted, QuietStep, InitPool, NextPool, PTL DEF Spec, PoolSpec, Pool!Spec
=============================================================================
