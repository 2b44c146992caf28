------------------------- MODULE H264Decoder_proofs -------------------------
(***************************************************************************)
(* Theorems about H264Decoder, for every set of sequence parameter sets,   *)
(* every max_num_ref_frames and any number of units to a call, failures    *)
(* and all: the slot map follows the DPB, and a surface of the session is  *)
(* taken for one purpose only.                                             *)
(***************************************************************************)
EXTENDS H264Decoder, FiniteSetTheorems, WellFoundedInduction, TLAPS

(* How the locals of a call go with where the call is. *)
Locals ==
  /\ target # None <=> pc = "submit"
  /\ pc \in {"finish", "submit"} => pending # None
  /\ pc \in {"finish", "submit", "push"} => unit \in Units \cup {Flushing}

(* No two frame stores share a surface. *)
Apart == \A j, k \in dpb : slots[j] = slots[k] => j = k

(* The DPB leaves a key free, for the picture that is stored next. *)
Room == dpb # {} => Reqs # {} /\ Cardinality(dpb) + 2 <= Largest

(* What the slots are taken for, without the count of PoolExact. *)
Taken ==
  /\ SlotsFollowDpb
  /\ Apart
  /\ inUse = StoreSlots \cup returnedOnly \cup ({target} \ {None})
  /\ StoreSlots \cap returnedOnly = {}
  /\ target \notin StoreSlots \cup returnedOnly

IInv == TypeOK /\ Locals /\ Room /\ Taken

-----------------------------------------------------------------------------
(* Least and greatest. *)

LEMMA Least ==
  ASSUME NEW S \in SUBSET Nat, S # {}
  PROVE  \E n \in S : \A m \in S : n <= m
<1>1. \E x \in S : \A y \in S : ~(<<y, x>> \in OpToRel(<, Nat))
  BY NatLessThanWellFounded, WFMin
<1>2. \A x, y \in Nat : <<y, x>> \in OpToRel(<, Nat) <=> y < x
  BY DEF OpToRel
<1>3. PICK x \in S : \A y \in S : ~(<<y, x>> \in OpToRel(<, Nat))
  BY <1>1
<1>4. \A m \in S : x <= m
  <2> SUFFICES ASSUME NEW m \in S PROVE x <= m
    OBVIOUS
  <2>1. x \in Nat /\ m \in Nat
    OBVIOUS
  <2>2. ~(m < x)
    BY <1>2, <1>3, <2>1
  <2> QED
    BY <2>1, <2>2
<1> QED
  BY <1>4

(* Every sequence has as many surfaces as its frames need, within limits,  *)
(* and Largest is the most of any.                                         *)
LEMMA SurfacesBounds ==
  ASSUME NEW r \in Reqs
  PROVE  /\ MaxRefs[r] \in 0..16
         /\ Surfaces(r) \in 4..18
         /\ MaxRefs[r] + 2 <= Surfaces(r)
  BY H264Assumption DEF Surfaces, Clamp

LEMMA LargestBounds ==
  ASSUME NEW r \in Reqs
  PROVE  /\ Largest \in 4..18
         /\ Surfaces(r) <= Largest
<1> DEFINE S == {Surfaces(q) : q \in Reqs}
           T == {18 - n : n \in S}
<1>1. S \subseteq 4..18 /\ S # {}
  BY SurfacesBounds
<1>2. T \in SUBSET Nat /\ T # {}
  BY <1>1
<1>3. PICK t \in T : \A m \in T : t <= m
  BY <1>2, Least
<1>4. PICK n \in S : t = 18 - n
  BY <1>3
<1>5. \A q \in Reqs : Surfaces(q) <= n
  <2> SUFFICES ASSUME NEW q \in Reqs PROVE Surfaces(q) <= n
    OBVIOUS
  <2>1. Surfaces(q) \in S /\ 18 - Surfaces(q) \in T
    OBVIOUS
  <2> QED
    BY <1>1, <1>3, <1>4, <2>1
<1>6. Largest \in S /\ \A q \in Reqs : Surfaces(q) <= Largest
  BY <1>5 DEF Largest
<1> QED
  BY <1>1, <1>6

(* No slot and no sequence is None. *)
LEMMA NoneApart ==
  /\ \A r \in Reqs : r # None
  /\ Reqs # {} => None \notin AllSlots
<1>1. \A r \in Reqs : r # None
  BY H264Assumption
<1>2. ASSUME Reqs # {} PROVE None \notin AllSlots
  <2>1. PICK r \in Reqs : TRUE
    BY <1>2
  <2>2. Largest \in Nat
    BY <2>1, LargestBounds
  <2> QED
    BY <2>2, H264Assumption DEF AllSlots
<1> QED
  BY <1>1, <1>2

LEMMA KeysFinite ==
  ASSUME Reqs # {}
  PROVE  /\ Keys \subseteq Nat /\ IsFiniteSet(Keys)
         /\ Cardinality(Keys) = Largest - 1
         /\ Largest \in 4..18
<1>1. PICK r \in Reqs : TRUE
  OBVIOUS
<1>2. Largest \in 4..18
  BY <1>1, LargestBounds
<1>3. IsFiniteSet(0..(Largest - 2)) /\ Cardinality(0..(Largest - 2)) = Largest - 1
  BY <1>2, FS_Interval
<1> QED
  BY <1>2, <1>3 DEF Keys

(* There is a key for one more frame store. *)
LEMMA FreshIsFree ==
  ASSUME Room, dpb \in SUBSET Keys, Reqs # {}
  PROVE  Fresh \in Keys \ dpb
<1>1. Keys \ dpb # {}
  <2> SUFFICES ASSUME Keys \ dpb = {} PROVE FALSE
    OBVIOUS
  <2>1. dpb = Keys
    OBVIOUS
  <2>2. Cardinality(dpb) = Largest - 1 /\ Largest \in 4..18
    BY <2>1, KeysFinite
  <2>3. dpb # {}
    BY <2>1, <2>2, FS_EmptySet
  <2> QED
    BY <2>2, <2>3 DEF Room
<1>2. Keys \ dpb \in SUBSET Nat
  BY KeysFinite
<1>3. \E k \in Keys \ dpb : \A j \in Keys \ dpb : k <= j
  BY <1>1, <1>2, Least
<1> QED
  BY <1>3 DEF Fresh

-----------------------------------------------------------------------------
LEMMA Initially == Init => IInv
<1> SUFFICES ASSUME Init PROVE IInv
  OBVIOUS
<1>1. TypeOK
  BY H264Assumption DEF Init, TypeOK
<1>2. Locals /\ Room /\ Taken
  BY DEF Init, Locals, Room, Taken, Apart, SlotsFollowDpb, StoreSlots
<1> QED
  BY <1>1, <1>2 DEF IInv

(* What the pool and the DPB hold is as good as before if nothing of it     *)
(* changes.                                                                *)
held == <<dpb, slots, inUse, returnedOnly, target>>

LEMMA HeldKept ==
  ASSUME Room, Taken, UNCHANGED held
  PROVE  Room' /\ Taken'
<1>1. Room'
  BY DEF held, Room
<1>2. SlotsFollowDpb' /\ Apart'
  BY DEF held, Taken, SlotsFollowDpb, Apart
<1>3. StoreSlots' = StoreSlots
  BY DEF held, StoreSlots
<1> QED
  BY <1>1, <1>2, <1>3 DEF held, Taken

(* The units of a call, and its end. *)
LEMMA UnitStep ==
  ASSUME IInv,
         \/ \E u \in Units : Push(u)
         \/ RejectUnit \/ Flush \/ Deliver
         \/ TakeSps \/ TakeOther \/ RejectPicture
  PROVE  IInv'
<1> USE H264Assumption DEF TypeOK, Locals, Fail, pool
<1>1. TypeOK /\ Locals /\ Room /\ Taken
  BY DEF IInv
<1>2. UNCHANGED held
  BY DEF held, Push, RejectUnit, Flush, Deliver, TakeSps, TakeOther, RejectPicture
<1>3. Room' /\ Taken'
  BY <1>1, <1>2, HeldKept
<1>4. TypeOK' /\ Locals'
  <2>1. ASSUME NEW u \in Units, Push(u) PROVE TypeOK' /\ Locals'
    BY <1>1, <2>1 DEF Push, Ends
  <2>2. CASE RejectUnit
    BY <1>1, <2>2 DEF RejectUnit
  <2>3. CASE Flush
    BY <1>1, <2>3 DEF Flush
  <2>4. CASE Deliver
    BY <1>1, <2>4 DEF Deliver
  <2>5. CASE TakeSps
    <3>1. unit \in SpsUnits
      BY <1>1, <2>5 DEF TakeSps, Units, Delimiters, SliceUnits, Flushing
    <3>2. unit.id \in SpsIds /\ unit.req \in Reqs
      BY <3>1 DEF SpsUnits
    <3> QED
      BY <1>1, <2>5, <3>2 DEF TakeSps
  <2>6. CASE TakeOther
    BY <1>1, <2>6 DEF TakeOther
  <2>7. CASE RejectPicture
    BY <1>1, <2>7 DEF RejectPicture
  <2> QED
    BY <2>1, <2>2, <2>3, <2>4, <2>5, <2>6, <2>7
<1> QED
  BY <1>3, <1>4 DEF IInv

(* A restart leaves the pictures completed, without their surfaces. *)
LEMMA RestartForfeits ==
  ASSUME TypeOK, NEW r \in Reqs, Restart(r)
  PROVE  /\ out' \in Seq(AllSlots \cup {None})
         /\ DOMAIN out' = DOMAIN out
         /\ \A i \in DOMAIN out' : out'[i] = None
         /\ out = <<>> => out' = <<>>
<1>1. out' = [i \in DOMAIN out |-> None] /\ out \in Seq(AllSlots \cup {None})
  BY DEF Restart, TypeOK
<1>2. Len(out) \in Nat /\ DOMAIN out = 1..Len(out)
  BY <1>1
<1>3. out' = [i \in 1..Len(out) |-> None]
  BY <1>1, <1>2
<1>4. out' \in Seq(AllSlots \cup {None})
  BY <1>2, <1>3
<1>5. out = <<>> => out' = <<>>
  BY <1>2, <1>3, <1>4
<1> QED
  BY <1>1, <1>4, <1>5

(* A restarted session has nothing taken. *)
LEMMA RestartHolds ==
  ASSUME NEW r \in Reqs, target = None, target' = None, Restart(r)
  PROVE  Room' /\ Taken'
  BY DEF Restart, Room, Taken, SlotsFollowDpb, Apart, StoreSlots

LEMMA PrepareStep ==
  ASSUME IInv, NEW id \in SpsIds, Prepare(id)
  PROVE  IInv'
<1> USE H264Assumption DEF TypeOK, Locals, pool
<1>1. TypeOK /\ Locals /\ Room /\ Taken
  BY DEF IInv
<1>2. sps[id] \in Reqs /\ target = None /\ target' = None
  BY <1>1 DEF Prepare
<1>3. CASE Serves(sps[id])
  <2>1. UNCHANGED held
    BY <1>3 DEF Prepare, held
  <2>2. TypeOK' /\ Locals'
    BY <1>1, <1>3 DEF Prepare
  <2> QED
    BY <1>1, <2>1, <2>2, HeldKept DEF IInv
<1>4. CASE ~Serves(sps[id])
  <2>1. Restart(sps[id])
    BY <1>4 DEF Prepare
  <2>2. Room' /\ Taken'
    BY <1>2, <2>1, RestartHolds
  <2>3. TypeOK' /\ Locals'
    BY <1>1, <1>2, <2>1, RestartForfeits DEF Prepare, Restart
  <2> QED
    BY <2>2, <2>3 DEF IInv
<1> QED
  BY <1>3, <1>4

LEMMA BeginPictureStep ==
  ASSUME IInv, BeginPicture
  PROVE  IInv'
<1> USE H264Assumption DEF TypeOK, Locals, pool, Fail
<1>1. TypeOK /\ Locals /\ Room /\ Taken
  BY DEF IInv
<1>2. unit \in SliceUnits
  BY <1>1 DEF BeginPicture, Units, Delimiters, SpsUnits, SliceUnits, Flushing
<1>3. /\ unit.id \in SpsIds /\ unit.idr \in BOOLEAN /\ unit.ref \in BOOLEAN
      /\ sps[unit.id] \in Reqs
  BY <1>1, <1>2 DEF BeginPicture, SliceUnits
<1>4. target = None /\ target' = None
  BY <1>1 DEF BeginPicture
<1>5. pending' \in Pictures \cup {None}
  BY <1>1, <1>3 DEF BeginPicture, Pictures
<1>6. CASE Serves(sps[unit.id])
  <2>1. UNCHANGED held
    BY <1>6, <1>4 DEF BeginPicture, held
  <2>2. TypeOK' /\ Locals'
    BY <1>1, <1>4, <1>5, <1>6 DEF BeginPicture
  <2> QED
    BY <1>1, <2>1, <2>2, HeldKept DEF IInv
<1>7. CASE ~Serves(sps[unit.id])
  <2>1. Restart(sps[unit.id])
    BY <1>7 DEF BeginPicture
  <2>2. Room' /\ Taken'
    BY <1>3, <1>4, <2>1, RestartHolds
  <2>3. TypeOK' /\ Locals'
    BY <1>1, <1>3, <1>4, <1>5, <2>1, RestartForfeits DEF BeginPicture, Restart
  <2> QED
    BY <2>2, <2>3 DEF IInv
<1> QED
  BY <1>6, <1>7

(* The pictures returned last are let go; a surface is taken, or given     *)
(* back.                                                                   *)
LEMMA DecodeStep ==
  ASSUME IInv, NEW n \in 0..MaxUnits, Decode(n)
  PROVE  IInv'
<1>1. TypeOK /\ Locals /\ Room /\ Taken
  BY DEF IInv
<1>2. TypeOK' /\ Locals'
  BY <1>1, H264Assumption DEF Decode, TypeOK, Locals, pool
<1>3. Room' /\ SlotsFollowDpb' /\ Apart'
  BY <1>1 DEF Decode, Room, Taken, SlotsFollowDpb, Apart
<1>4. StoreSlots' = StoreSlots /\ target = None /\ target' = None
  BY <1>1 DEF Decode, StoreSlots, Locals
<1>5. Taken'
  BY <1>1, <1>3, <1>4 DEF Decode, Taken
<1> QED
  BY <1>2, <1>3, <1>5 DEF IInv

LEMMA AcquireStep ==
  ASSUME IInv, Acquire
  PROVE  IInv'
<1>1. TypeOK /\ Locals /\ Room /\ Taken
  BY DEF IInv
<1>2. CASE FreeSlots = {}
  <2>1. UNCHANGED held
    BY <1>2 DEF Acquire, held
  <2>2. TypeOK' /\ Locals'
    BY <1>1, <1>2, H264Assumption DEF Acquire, TypeOK, Locals, pool, Fail
  <2> QED
    BY <1>1, <2>1, <2>2, HeldKept DEF IInv
<1>3. CASE FreeSlots # {}
  <2>1. target' \in AllSlots \ inUse /\ session # None
    BY <1>3 DEF Acquire, FreeSlots
  <2>2. Reqs # {}
    BY <1>1, <2>1 DEF TypeOK
  <2>3. target' # None /\ None \notin AllSlots /\ target = None
    BY <1>1, <2>1, <2>2, NoneApart DEF Acquire, Locals
  <2>4. TypeOK'
    BY <1>1, <1>3, <2>1, H264Assumption DEF Acquire, TypeOK, pool
  <2>5. Locals'
    BY <1>1, <1>3, <2>3 DEF Acquire, Locals
  <2>6. Room' /\ SlotsFollowDpb' /\ Apart'
    BY <1>1 DEF Acquire, Room, Taken, SlotsFollowDpb, Apart
  <2>7. /\ StoreSlots' = StoreSlots /\ returnedOnly' = returnedOnly
        /\ inUse' = inUse \cup {target'}
    BY <1>3 DEF Acquire, StoreSlots
  <2>8. Taken'
    BY <1>1, <2>1, <2>3, <2>6, <2>7 DEF Taken
  <2> QED
    BY <2>4, <2>5, <2>6, <2>8 DEF IInv
<1> QED
  BY <1>2, <1>3

(* A picture being decoded is a picture of some sequence. *)
LEMMA Submitted ==
  ASSUME IInv, pc = "submit"
  PROVE  /\ pending \in Pictures /\ pending.req \in Reqs
         /\ target \in AllSlots /\ None \notin AllSlots
<1>1. pending \in Pictures /\ target # None
  BY DEF IInv, TypeOK, Locals
<1>2. pending.req \in Reqs
  BY <1>1 DEF Pictures
<1> QED
  BY <1>1, <1>2, NoneApart DEF IInv, TypeOK

LEMMA DecodeFailsStep ==
  ASSUME IInv, DecodeFails
  PROVE  IInv'
<1>1. TypeOK /\ Locals /\ Room /\ Taken
  BY DEF IInv
<1>2. target \in AllSlots /\ None \notin AllSlots
  BY Submitted DEF DecodeFails
<1>3. TypeOK' /\ Locals'
  BY <1>1, H264Assumption DEF DecodeFails, TypeOK, Locals, pool, Fail
<1>4. Room' /\ SlotsFollowDpb' /\ Apart'
  BY <1>1 DEF DecodeFails, Room, Taken, SlotsFollowDpb, Apart
<1>5. /\ StoreSlots' = StoreSlots /\ returnedOnly' = returnedOnly
      /\ inUse' = inUse \ {target} /\ target' = None
  BY DEF DecodeFails, StoreSlots
<1>6. None \notin StoreSlots \cup returnedOnly
  BY <1>1, <1>2 DEF TypeOK, Taken, SlotsFollowDpb, StoreSlots
<1>7. Taken'
  BY <1>1, <1>2, <1>4, <1>5, <1>6 DEF Taken
<1> QED
  BY <1>3, <1>4, <1>7 DEF IInv

(* Marking leaves room for the picture stored. *)
LEMMA RoomLeft ==
  ASSUME IInv, NEW K \in SUBSET dpb, Decoded(K)
  PROVE  Room'
<1>1. TypeOK /\ Room /\ pending \in Pictures /\ pending.req \in Reqs
  BY Submitted DEF IInv, Decoded
<1>2. CASE ~pending.ref
  <2>1. dpb' = dpb
    BY <1>2 DEF Decoded, Dropped
  <2> QED
    BY <1>1, <2>1 DEF Room
<1>3. CASE pending.ref
  <2> DEFINE remain == dpb \ K
  <2>1. dpb' = remain \cup {Fresh}
    BY <1>3 DEF Decoded
  <2>2. IsFiniteSet(Keys) /\ Largest \in 4..18 /\ Surfaces(pending.req) <= Largest
    BY <1>1, KeysFinite, LargestBounds
  <2>3. Fresh \notin remain /\ IsFiniteSet(remain)
    <3>1. Fresh \notin dpb
      BY <1>1, FreshIsFree DEF TypeOK
    <3>2. remain \subseteq Keys
      BY <1>1 DEF TypeOK
    <3> QED
      BY <2>2, <3>1, <3>2, FS_Subset
  <2>4. Cardinality(dpb') = Cardinality(remain) + 1 /\ Cardinality(remain) \in Nat
    BY <2>1, <2>3, FS_AddElement, FS_CardinalityType
  <2>5. Cardinality(remain) < MaxRefs[pending.req] \/ remain = {}
    BY <1>3 DEF Decoded, Dropped
  <2>6. Cardinality(remain) + 3 <= Largest
    <3>1. CASE remain = {}
      BY <2>2, <3>1, FS_EmptySet
    <3>2. CASE Cardinality(remain) < MaxRefs[pending.req]
      BY <1>1, <2>2, <2>4, <3>2, SurfacesBounds
    <3> QED
      BY <2>5, <3>1, <3>2
  <2>7. Largest' = Largest
    BY DEF Largest, Surfaces
  <2>8. Reqs # {} /\ Cardinality(dpb') + 2 <= Largest
    BY <1>1, <2>2, <2>4, <2>6
  <2> QED
    BY <2>7, <2>8 DEF Room
<1> QED
  BY <1>1, <1>2, <1>3 DEF Pictures

(* A picture decoded is in the DPB, or returned only. *)
LEMMA DecodedStep ==
  ASSUME IInv, NEW K \in SUBSET dpb, Decoded(K)
  PROVE  IInv'
<1>1. TypeOK /\ Locals /\ Room /\ Taken
  BY DEF IInv
<1>2. /\ pending \in Pictures /\ pending.req \in Reqs
      /\ target \in AllSlots /\ None \notin AllSlots
  BY Submitted DEF Decoded
<1>3. Fresh \in Keys \ dpb
  BY <1>1, <1>2, FreshIsFree DEF TypeOK
<1>4. Room'
  BY RoomLeft
<1>5. Locals'
  BY <1>1 DEF Decoded, Locals
<1>6. /\ dpb' \in SUBSET Keys
      /\ slots' \in [Keys -> AllSlots \cup {None}]
      /\ inUse' \in SUBSET AllSlots
      /\ returnedOnly' \in SUBSET AllSlots
      /\ out' \in Seq(AllSlots \cup {None})
  BY <1>1, <1>2, <1>3 DEF Decoded, TypeOK
<1>7. TypeOK'
  BY <1>1, <1>6 DEF Decoded, TypeOK, pool
<1>8. StoreSlots \subseteq AllSlots
  BY <1>1 DEF TypeOK, Taken, SlotsFollowDpb, StoreSlots
<1>9. target \notin StoreSlots \cup returnedOnly /\ target' = None
  BY <1>1 DEF Decoded, Taken
<1> DEFINE dropped == {slots[k] : k \in K}
<1>10. inUse' = inUse \ dropped
  BY DEF Decoded
<1>11. CASE ~pending.ref
  <2>1. /\ K = {} /\ dpb' = dpb
        /\ returnedOnly' = returnedOnly \cup {target}
        /\ inUse' = inUse
    BY <1>11 DEF Decoded, Dropped
  <2>2. \A k \in Keys : slots'[k] = slots[k]
    BY <1>11, <2>1 DEF Decoded
  <2>3. StoreSlots' = StoreSlots
    BY <1>1, <2>1, <2>2 DEF StoreSlots, TypeOK
  <2>4. SlotsFollowDpb' /\ Apart'
    BY <1>1, <2>1, <2>2 DEF Taken, SlotsFollowDpb, Apart, TypeOK
  <2>5. Taken'
    BY <1>1, <1>2, <1>8, <1>9, <2>1, <2>3, <2>4 DEF Taken, TypeOK
  <2> QED
    BY <1>4, <1>5, <1>7, <2>5 DEF IInv
<1>12. CASE pending.ref
  <2>1. /\ dpb' = (dpb \ K) \cup {Fresh}
        /\ returnedOnly' = returnedOnly
    BY <1>12 DEF Decoded
  <2>2. \A k \in Keys : slots'[k] = IF k = Fresh THEN target
                                   ELSE IF k \in K THEN None ELSE slots[k]
    BY <1>12 DEF Decoded
  <2>3. SlotsFollowDpb'
    BY <1>1, <1>2, <1>3, <2>1, <2>2 DEF Taken, SlotsFollowDpb
  <2>4. \A k \in dpb \ K : slots'[k] = slots[k]
    BY <1>1, <1>3, <2>2 DEF TypeOK
  <2>5. slots'[Fresh] = target
    BY <1>3, <2>2
  <2>6. Apart'
    BY <1>1, <1>9, <2>1, <2>4, <2>5 DEF Taken, Apart, StoreSlots
  <2>7. StoreSlots' = (StoreSlots \ dropped) \cup {target}
    <3>1. \A k \in dpb \ K : slots[k] \notin dropped
      BY <1>1 DEF Taken, Apart
    <3> QED
      BY <2>1, <2>4, <2>5, <3>1 DEF StoreSlots
  <2>8. dropped \subseteq StoreSlots
    BY DEF StoreSlots
  <2>9. Taken'
    BY <1>1, <1>2, <1>8, <1>9, <1>10, <2>1, <2>3, <2>6, <2>7, <2>8 DEF Taken, TypeOK
  <2> QED
    BY <1>4, <1>5, <1>7, <2>9 DEF IInv
<1> QED
  BY <1>2, <1>11, <1>12 DEF Pictures

LEMMA Unchanged ==
  ASSUME IInv, UNCHANGED vars
  PROVE  IInv'
<1>1. Room' /\ Taken'
  BY HeldKept DEF IInv, vars, held
<1>2. TypeOK' /\ Locals'
  BY DEF IInv, TypeOK, Locals, vars, pool
<1> QED
  BY <1>1, <1>2 DEF IInv

LEMMA Inductive == IInv /\ [Next]_vars => IInv'
<1> SUFFICES ASSUME IInv, [Next]_vars PROVE IInv'
  OBVIOUS
<1>1. ASSUME NEW id \in SpsIds, Prepare(id) PROVE IInv'
  BY <1>1, PrepareStep
<1>2. ASSUME NEW n \in 0..MaxUnits, Decode(n) PROVE IInv'
  BY <1>2, DecodeStep
<1>3. ASSUME NEW u \in Units, Push(u) PROVE IInv'
  BY <1>3, UnitStep
<1>4. CASE RejectUnit \/ Flush \/ Deliver \/ TakeSps \/ TakeOther \/ RejectPicture
  BY <1>4, UnitStep
<1>5. CASE BeginPicture
  BY <1>5, BeginPictureStep
<1>6. CASE Acquire
  BY <1>6, AcquireStep
<1>7. CASE DecodeFails
  BY <1>7, DecodeFailsStep
<1>8. ASSUME NEW K \in SUBSET dpb, Decoded(K) PROVE IInv'
  BY <1>8, DecodedStep
<1>9. CASE UNCHANGED vars
  BY <1>9, Unchanged
<1> QED
  BY <1>1, <1>2, <1>3, <1>4, <1>5, <1>6, <1>7, <1>8, <1>9 DEF Next

(* The invariant holds in every reachable state. *)
LEMMA Always == Spec => []IInv
<1>1. Init => IInv
  BY Initially
<1>2. IInv /\ [Next]_vars => IInv'
  BY Inductive
<1> QED
  BY <1>1, <1>2, PTL DEF Spec

(* As many surfaces are held by the DPB as it has frame stores. *)
LEMMA OneEach ==
  ASSUME IInv
  PROVE  /\ IsFiniteSet(dpb) /\ IsFiniteSet(StoreSlots)
         /\ Cardinality(StoreSlots) = Cardinality(dpb)
<1>1. TypeOK /\ Room /\ Taken
  BY DEF IInv
<1>2. CASE dpb = {}
  <2>1. StoreSlots = {}
    BY <1>2 DEF StoreSlots
  <2> QED
    BY <1>2, <2>1, FS_EmptySet
<1>3. CASE dpb # {}
  <2> DEFINE f == [k \in dpb |-> slots[k]]
  <2>1. IsFiniteSet(dpb)
    BY <1>1, <1>3, KeysFinite, FS_Subset DEF TypeOK, Room
  <2>2. f \in Surjection(dpb, StoreSlots)
    BY DEF Surjection, StoreSlots
  <2>3. f \in Injection(dpb, StoreSlots)
    BY <1>1 DEF Injection, IsInjective, StoreSlots, Taken, Apart
  <2> HIDE DEF f
  <2> QED
    BY <2>1, <2>2, <2>3, FS_Surjection
<1> QED
  BY <1>2, <1>3

-----------------------------------------------------------------------------
(* Every reachable state is of its type, for any sequences and any number  *)
(* of units to a call.                                                     *)
THEOREM TypeCorrect == Spec => []TypeOK
<1>1. IInv => TypeOK
  BY DEF IInv
<1> QED
  BY <1>1, Always, PTL

(* Whatever fails, a surface of the session is taken exactly for one frame *)
(* store, for one picture put out that is not stored, or for the picture   *)
(* being decoded: `slots` follows the DPB through every early return of    *)
(* finish_picture().                                                       *)
THEOREM NothingTwice == Spec => []PoolExact
<1>1. IInv => PoolExact
  BY OneEach DEF IInv, Taken, PoolExact
<1> QED
  BY <1>1, Always, PTL

-----------------------------------------------------------------------------
(* Enough surfaces.  A call that is Paced never takes a surface while it   *)
(* has one to return, so beside the DPB at most one picture of the last    *)
(* decode() is held when flush() decodes another.                          *)

AtMostOne(S) == \A a, b \in S : a = b

(* What is returned only and what is to be returned, while a call runs and *)
(* after it.                                                               *)
Flushes == pc \in {"finish", "submit", "push"} /\ unit = Flushing
Decodes == pc = "units" \/ (pc \in {"finish", "submit", "push"} /\ unit # Flushing)

Waiting ==
  /\ pc \in {"idle", "finish", "submit"} => out = <<>>
  /\ Decodes => AtMostOne(returnedOnly) /\ (out = <<>> => returnedOnly = {})
  /\ pending # None => AtMostOne(returnedOnly)
  /\ Flushes /\ pc = "push" => pending = None

(* The DPB holds what the session was made for.  A prepare() between a     *)
(* picture's begin and its end makes another session, with an empty DPB.   *)
Bounded ==
  /\ session = requirements
  /\ pending # None => pending.req = requirements \/ dpb = {}
  /\ \/ AtMostOne(dpb)
     \/ requirements \in Reqs /\ Cardinality(dpb) <= MaxRefs[requirements]

Fed == Waiting /\ Bounded /\ NeverStarved

LEMMA InitiallyFed == Init => Fed
  BY DEF Init, Fed, Waiting, Bounded, NeverStarved, AtMostOne, Flushes, Decodes

LEMMA UnitsNeverFlush == Flushing \notin Units
  BY DEF Flushing, Units, Delimiters, SpsUnits, SliceUnits

(* The steps that leave pool and DPB alone. *)
LEMMA UnitStepFed ==
  ASSUME Paced, IInv, Fed,
         \/ \E u \in Units : Push(u)
         \/ RejectUnit \/ Flush \/ Deliver
         \/ TakeSps \/ TakeOther \/ RejectPicture
  PROVE  Fed'
<1> USE DEF Waiting, Flushes, Decodes, Fail, AtMostOne
<1>1. Waiting /\ Bounded /\ NeverStarved
  BY DEF Fed
<1>2. Bounded'
  BY <1>1 DEF Bounded, AtMostOne, pool, Push, RejectUnit, Flush, Deliver, TakeSps,
       TakeOther, RejectPicture
<1>3. NeverStarved'
  BY <1>1 DEF NeverStarved, Push, RejectUnit, Flush, Deliver, TakeSps, TakeOther,
       RejectPicture
<1>4. Waiting'
  <2>1. ASSUME NEW u \in Units, Push(u) PROVE Waiting'
    BY <1>1, <2>1, UnitsNeverFlush DEF Push, Ends, PacedUnit
  <2>2. CASE RejectUnit
    BY <1>1, <2>2 DEF RejectUnit, MayFail
  <2>3. CASE Flush
    BY <1>1, <2>3 DEF Flush
  <2>4. CASE Deliver
    BY <1>1, <2>4 DEF Deliver
  <2>5. CASE TakeSps
    BY <1>1, <2>5 DEF TakeSps, Flushing
  <2>6. CASE TakeOther
    BY <1>1, <2>6 DEF TakeOther, Flushing
  <2>7. CASE RejectPicture
    BY <1>1, <2>7 DEF RejectPicture, MayFail
  <2> QED
    BY <2>1, <2>2, <2>3, <2>4, <2>5, <2>6, <2>7
<1> QED
  BY <1>2, <1>3, <1>4 DEF Fed

LEMMA SessionStepFed ==
  ASSUME Paced, IInv, Fed, BeginPicture \/ \E id \in SpsIds : Prepare(id)
  PROVE  Fed'
<1>1. Waiting /\ Bounded /\ NeverStarved
  BY DEF Fed
<1>2. ASSUME NEW id \in SpsIds, Prepare(id) PROVE Fed'
  <2>1. Bounded'
    BY <1>1, <1>2 DEF Bounded, Prepare, Restart, Serves, pool, AtMostOne
  <2>2. Waiting'
    BY <1>1, <1>2 DEF Waiting, Flushes, Decodes, Prepare, Restart, AtMostOne
  <2>3. NeverStarved'
    BY <1>2 DEF NeverStarved, Prepare
  <2> QED
    BY <2>1, <2>2, <2>3 DEF Fed
<1>3. CASE BeginPicture
  <2>1. unit # Flushing
    BY <1>3 DEF BeginPicture, Flushing
  <2>2. Bounded'
    BY <1>1, <1>3 DEF Bounded, BeginPicture, Restart, Serves, pool, AtMostOne
  <2>3. Waiting'
    BY <1>1, <1>3, <2>1 DEF Waiting, Flushes, Decodes, BeginPicture, Restart, Serves,
         MayFail, Fail, pool, AtMostOne
  <2>4. NeverStarved'
    BY <1>1, <1>3 DEF NeverStarved, BeginPicture, Fail
  <2> QED
    BY <2>2, <2>3, <2>4 DEF Fed
<1> QED
  BY <1>2, <1>3

(* decode_picture() always finds a surface. *)
LEMMA SlotIsFree ==
  ASSUME IInv, Fed, pc = "finish", session # None
  PROVE  FreeSlots # {}
<1>1. TypeOK /\ Locals /\ Taken /\ Waiting /\ Bounded
  BY DEF IInv, Fed
<1>2. session \in Reqs /\ requirements = session /\ target = None /\ pending # None
  BY <1>1 DEF TypeOK, Bounded, Locals
<1> DEFINE n == Surfaces(session)
<1>3. n \in 4..18 /\ MaxRefs[session] + 2 <= n /\ n <= Largest /\ Largest \in 4..18
  BY <1>2, SurfacesBounds, LargestBounds
<1>4. IsFiniteSet(dpb) /\ IsFiniteSet(StoreSlots) /\ Cardinality(StoreSlots) = Cardinality(dpb)
  BY OneEach
<1>5. Cardinality(dpb) \in Nat /\ Cardinality(dpb) + 2 <= n
  <2>1. Cardinality(dpb) \in Nat
    BY <1>4, FS_CardinalityType
  <2>2. CASE dpb = {}
    BY <1>3, <2>1, <2>2, FS_EmptySet
  <2>3. CASE dpb # {} /\ AtMostOne(dpb)
    <3>1. PICK k \in dpb : dpb = {k}
      BY <2>3 DEF AtMostOne
    <3>2. Cardinality(dpb) = 1
      BY <3>1, FS_Singleton
    <3> QED
      BY <1>3, <3>2
  <2>4. CASE Cardinality(dpb) <= MaxRefs[requirements]
    <3>1. MaxRefs[session] \in 0..16
      BY <1>2, SurfacesBounds
    <3> QED
      BY <1>2, <1>3, <2>1, <2>4, <3>1
  <2> QED
    BY <1>1, <2>1, <2>2, <2>3, <2>4 DEF Bounded
<1>6. AtMostOne(returnedOnly) /\ inUse = StoreSlots \cup returnedOnly
  BY <1>1, <1>2 DEF Waiting, Taken
<1>7. IsFiniteSet(inUse) /\ Cardinality(inUse) <= Cardinality(dpb) + 1
  <2>1. CASE returnedOnly = {}
    BY <1>4, <1>5, <1>6, <2>1
  <2>2. CASE returnedOnly # {}
    <3>1. PICK s \in returnedOnly : returnedOnly = {s}
      BY <1>6, <2>2 DEF AtMostOne
    <3>2. s \notin StoreSlots /\ inUse = StoreSlots \cup {s}
      BY <1>1, <1>6, <3>1 DEF Taken
    <3>3. /\ IsFiniteSet(StoreSlots \cup {s})
          /\ Cardinality(StoreSlots \cup {s}) = Cardinality(StoreSlots) + 1
      BY <1>4, <3>2, FS_AddElement
    <3>4. IsFiniteSet(inUse) /\ Cardinality(inUse) = Cardinality(dpb) + 1
      BY <1>4, <3>2, <3>3
    <3> QED
      BY <1>5, <3>4
  <2> QED
    BY <2>1, <2>2
<1>8. IsFiniteSet(0..(n - 1)) /\ Cardinality(0..(n - 1)) = n
  <2> HIDE DEF n
  <2>1. n - 1 \in Int /\ (n - 1) - 0 + 1 = n /\ 0 <= n - 1
    BY <1>3
  <2> QED
    BY <1>3, <2>1, FS_Interval
<1>9. Cardinality(inUse) \in Nat
  BY <1>7, FS_CardinalityType
<1>10. ~(0..(n - 1) \subseteq inUse)
  <2> SUFFICES ASSUME 0..(n - 1) \subseteq inUse PROVE FALSE
    OBVIOUS
  <2>1. Cardinality(0..(n - 1)) <= Cardinality(inUse)
    BY <1>7, FS_Subset
  <2> HIDE DEF n
  <2>2. n <= Cardinality(inUse)
    BY <1>8, <2>1
  <2> QED
    BY <1>3, <1>5, <1>7, <1>9, <2>2
<1>11. PICK s \in 0..(n - 1) : s \notin inUse
  BY <1>10
<1>12. s \in AllSlots /\ s < Surfaces(session)
  BY <1>3, <1>11 DEF AllSlots
<1> QED
  BY <1>11, <1>12 DEF FreeSlots

LEMMA DecodeStepFed ==
  ASSUME Paced, IInv, Fed,
         Acquire \/ DecodeFails \/ \E n \in 0..MaxUnits : Decode(n)
  PROVE  Fed'
<1>1. Waiting /\ Bounded /\ NeverStarved
  BY DEF Fed
<1>2. ASSUME NEW n \in 0..MaxUnits, Decode(n) PROVE Fed'
  BY <1>1, <1>2 DEF Fed, Waiting, Flushes, Decodes, Bounded, NeverStarved, AtMostOne,
       Decode, pool
<1>3. CASE DecodeFails
  BY <1>1, <1>3 DEF Fed, Waiting, Flushes, Decodes, Bounded, NeverStarved, AtMostOne,
       DecodeFails, Fail, pool
<1>4. CASE Acquire
  <2>1. Bounded'
    BY <1>1, <1>4 DEF Bounded, AtMostOne, Acquire, pool
  <2>2. Waiting'
    BY <1>1, <1>4 DEF Waiting, Flushes, Decodes, AtMostOne, Acquire, Fail
  <2>3. NeverStarved'
    BY <1>1, <1>4, SlotIsFree DEF NeverStarved, Acquire, Fail
  <2> QED
    BY <2>1, <2>2, <2>3 DEF Fed
<1> QED
  BY <1>2, <1>3, <1>4

LEMMA DecodedStepFed ==
  ASSUME Paced, IInv, Fed, NEW K \in SUBSET dpb, Decoded(K)
  PROVE  Fed'
<1>1. Waiting /\ Bounded /\ NeverStarved
  BY DEF Fed
<1>2. pending \in Pictures /\ pending.req \in Reqs /\ pending # None
  BY Submitted DEF Decoded, IInv, Locals
<1>3. NeverStarved'
  BY <1>1 DEF Decoded, NeverStarved
<1>4. Waiting'
  <2>1. out = <<>> /\ out' = Append(out, target) /\ pc = "submit" /\ pc' = "push"
    BY <1>1 DEF Decoded, Waiting
  <2>2. out' # <<>>
    BY <2>1
  <2>3. unit # Flushing => AtMostOne(returnedOnly')
    BY <1>1, <2>1 DEF Decoded, Waiting, Decodes, AtMostOne
  <2> QED
    BY <2>1, <2>2, <2>3 DEF Decoded, Waiting, Decodes, Flushes
<1>5. Bounded'
  <2>1. session' = requirements' /\ pending' = None /\ requirements' = requirements
    BY <1>1 DEF Decoded, Bounded, pool
  <2>2. CASE ~pending.ref
    <3>1. dpb' = dpb
      BY <2>2 DEF Decoded, Dropped
    <3> QED
      BY <1>1, <2>1, <3>1 DEF Bounded, AtMostOne
  <2>3. CASE pending.ref /\ dpb \ K = {}
    <3>1. dpb' = {Fresh}
      BY <2>3 DEF Decoded
    <3> QED
      BY <2>1, <3>1 DEF Bounded, AtMostOne
  <2>4. CASE pending.ref /\ dpb \ K # {}
    <3>1. dpb' = (dpb \ K) \cup {Fresh} /\ pending.req = requirements
      BY <1>1, <1>2, <2>4 DEF Decoded, Bounded
    <3>2. Cardinality(dpb \ K) < MaxRefs[requirements]
      BY <2>4, <3>1 DEF Decoded, Dropped
    <3>3. Fresh \notin dpb \ K /\ IsFiniteSet(dpb \ K)
      <4>1. Fresh \notin dpb
        BY <1>2, FreshIsFree DEF IInv, TypeOK
      <4> QED
        BY <4>1, OneEach, FS_Subset
    <3>4. /\ Cardinality(dpb') = Cardinality(dpb \ K) + 1
          /\ Cardinality(dpb \ K) \in Nat
      BY <3>1, <3>3, FS_AddElement, FS_CardinalityType
    <3>5. MaxRefs[requirements] \in 0..16 /\ requirements \in Reqs
      BY <1>2, <3>1, SurfacesBounds
    <3>6. Cardinality(dpb') <= MaxRefs[requirements]
      BY <3>2, <3>4, <3>5
    <3> QED
      BY <2>1, <3>5, <3>6 DEF Bounded
  <2> QED
    BY <1>2, <2>2, <2>3, <2>4 DEF Pictures
<1> QED
  BY <1>3, <1>4, <1>5 DEF Fed

LEMMA NextFed == ASSUME Paced PROVE IInv /\ Fed /\ [Next]_vars => Fed'
<1> SUFFICES ASSUME IInv, Fed, [Next]_vars PROVE Fed'
  OBVIOUS
<1>1. CASE \/ \E u \in Units : Push(u)
          \/ RejectUnit \/ Flush \/ Deliver
          \/ TakeSps \/ TakeOther \/ RejectPicture
  BY <1>1, UnitStepFed
<1>2. CASE BeginPicture \/ \E id \in SpsIds : Prepare(id)
  BY <1>2, SessionStepFed
<1>3. CASE Acquire \/ DecodeFails \/ \E n \in 0..MaxUnits : Decode(n)
  BY <1>3, DecodeStepFed
<1>4. ASSUME NEW K \in SUBSET dpb, Decoded(K) PROVE Fed'
  BY <1>4, DecodedStepFed
<1>5. CASE UNCHANGED vars
  BY <1>5 DEF Fed, Waiting, Flushes, Decodes, Bounded, NeverStarved, AtMostOne, vars,
       pool
<1> QED
  BY <1>1, <1>2, <1>3, <1>4, <1>5 DEF Next

(* The surfaces of a session are enough: max_num_ref_frames and two more,  *)
(* as requirements() has it, when a call completes one picture at most;    *)
(* also with a prepare() or a failure between a picture's begin and its    *)
(* end.                                                                    *)
THEOREM EnoughSurfaces == ASSUME Paced PROVE Spec => []NeverStarved
<1>1. Init => Fed
  BY InitiallyFed
<1>2. IInv /\ Fed /\ [Next]_vars => Fed'
  BY NextFed
<1>3. Fed => NeverStarved
  BY DEF Fed
<1> QED
  BY <1>1, <1>2, <1>3, Always, PTL DEF Spec

-----------------------------------------------------------------------------
(* The decoder implements SurfacePool. *)

(* While a call runs the caller has nothing of the last one. *)
Quiet == pc # "idle" => given = <<>>

LEMMA QuietStep == Quiet /\ [Next]_vars => Quiet'
  BY DEF Quiet, Next, vars, Prepare, Decode, Push, RejectUnit, Flush, Deliver, TakeSps,
       TakeOther, BeginPicture, RejectPicture, Acquire, DecodeFails, Decoded, Fail

(* A picture of the running call, or of the last one, has its surface, or   *)
(* lost it to the IDR picture of another session that is in progress.      *)
Replaced == pending # None /\ pending.idr /\ dpb = {} /\ inUse = {}

Kept(pictures) ==
  \A i \in DOMAIN pictures : pictures[i] \in inUse \/ (pictures[i] = None /\ Replaced)

AllKept == Kept(out) /\ Kept(given)

LEMMA KeptStep ==
  ASSUME Paced, IInv, Fed, Quiet, AllKept, [Next]_vars
  PROVE  AllKept'
<1>1. TypeOK /\ Locals /\ Taken /\ Waiting
  BY DEF IInv, Fed
<1>2. pc # "idle" => given = <<>>
  BY DEF Quiet
<1>3. Kept(<<>>)' /\ AllKept
  BY DEF Kept
<1>4. ASSUME UNCHANGED <<pending, dpb, inUse>>, NEW p, Kept(p), p' = p PROVE Kept(p)'
  BY <1>4 DEF Kept, Replaced
<1>5. CASE \/ \E n \in 0..MaxUnits : Decode(n)
          \/ Flush \/ \E id \in SpsIds : Prepare(id)
  <2>1. out = <<>> /\ given' = <<>>
    BY <1>1, <1>5 DEF Waiting, Decode, Flush, Prepare
  <2>2. out' = <<>>
    <3>1. CASE (\E n \in 0..MaxUnits : Decode(n)) \/ Flush
      BY <2>1, <3>1 DEF Decode, Flush
    <3>2. ASSUME NEW id \in SpsIds, Prepare(id) PROVE out' = <<>>
      <4>1. sps[id] \in Reqs
        BY <1>1, <3>2 DEF Prepare, TypeOK
      <4> QED
        BY <1>1, <2>1, <3>2, <4>1, RestartForfeits DEF Prepare
    <3> QED
      BY <1>5, <3>1, <3>2
  <2> QED
    BY <2>1, <2>2 DEF AllKept, Kept
<1>6. CASE \/ \E u \in Units : Push(u)
          \/ RejectUnit \/ TakeSps \/ TakeOther \/ RejectPicture
          \/ UNCHANGED vars
  <2>1. UNCHANGED <<pending, dpb, inUse, out, given>>
    BY <1>6 DEF Push, RejectUnit, TakeSps, TakeOther, RejectPicture, vars
  <2> QED
    BY <1>3, <2>1 DEF AllKept, Kept, Replaced
<1>7. CASE Deliver
  <2>1. UNCHANGED <<pending, dpb, inUse>> /\ given' = out /\ out' = <<>>
    BY <1>7 DEF Deliver
  <2> QED
    BY <1>3, <2>1 DEF AllKept, Kept, Replaced
<1>8. CASE BeginPicture
  <2> DEFINE q == sps[unit.id]
  <2>1. unit \in SliceUnits /\ pending = None /\ given = <<>> /\ given' = <<>>
    BY <1>1, <1>2, <1>8
    DEF BeginPicture, Locals, Units, Delimiters, SpsUnits, SliceUnits, Flushing
  <2>2. q \in Reqs
    BY <1>1, <1>8, <2>1 DEF BeginPicture, SliceUnits, TypeOK
  <2>3. CASE Serves(q)
    <3>1. UNCHANGED <<out, inUse>>
      BY <1>8, <2>3 DEF BeginPicture
    <3>2. \A i \in DOMAIN out : out[i] \in inUse
      BY <1>3, <2>1 DEF AllKept, Kept, Replaced
    <3> QED
      BY <2>1, <3>1, <3>2 DEF AllKept, Kept
  <2>4. CASE ~Serves(q)
    <3>1. Restart(q) /\ unit.idr
      BY <1>8, <2>4 DEF BeginPicture
    <3>2. \A i \in DOMAIN out' : out'[i] = None
      BY <1>1, <2>2, <3>1, RestartForfeits
    <3>3. CASE session' # None
      <4>1. Replaced'
        <5>1. pending' = [req |-> q, idr |-> unit.idr, ref |-> unit.ref]
          BY <1>8, <3>3 DEF BeginPicture
        <5>2. pending' \in Pictures
          BY <2>1, <2>2, <5>1 DEF Pictures, SliceUnits
        <5>3. pending' # None
          BY <5>2, H264Assumption DEF Pictures
        <5> QED
          BY <3>1, <5>1, <5>3 DEF Replaced, Restart
      <4> QED
        BY <2>1, <3>2, <4>1 DEF AllKept, Kept
    <3>4. CASE session' = None
      <4>1. out = <<>>
        BY <1>8, <3>4 DEF BeginPicture, MayFail
      <4>2. out' = <<>>
        BY <1>1, <2>2, <3>1, <4>1, RestartForfeits
      <4> QED
        BY <2>1, <4>2 DEF AllKept, Kept
    <3> QED
      BY <3>3, <3>4
  <2> QED
    BY <2>3, <2>4
<1>9. CASE Acquire \/ DecodeFails
  <2>1. out' = <<>> /\ given' = <<>>
    BY <1>1, <1>2, <1>9 DEF Waiting, Acquire, DecodeFails
  <2> QED
    BY <2>1 DEF AllKept, Kept
<1>10. ASSUME NEW K \in SUBSET dpb, Decoded(K) PROVE AllKept'
  <2>1. /\ out = <<>> /\ given = <<>> /\ given' = <<>>
        /\ out' = Append(out, target) /\ inUse' = inUse \ {slots[k] : k \in K}
    BY <1>1, <1>2, <1>10 DEF Waiting, Decoded
  <2>2. target \in inUse'
    <3>1. target \in inUse /\ target \notin StoreSlots
      BY <1>1, <1>10 DEF Taken, Locals, Decoded
    <3>2. {slots[k] : k \in K} \subseteq StoreSlots
      BY DEF StoreSlots
    <3> QED
      BY <2>1, <3>1, <3>2
  <2>3. \A i \in DOMAIN out' : out'[i] = target
    BY <2>1
  <2> QED
    BY <2>1, <2>2, <2>3 DEF AllKept, Kept
<1> QED
  BY <1>5, <1>6, <1>7, <1>8, <1>9, <1>10 DEF Next

(* A picture returned keeps its surface until the next call (h264.rs,      *)
(* H264Picture), for calls that finish no picture and do not fail once     *)
(* they have completed one.  They may fail before, prepare, flush, and     *)
(* change the session: only a picture completed in the very call that      *)
(* begins an IDR picture of another session has lost its surface.          *)
THEOREM ReturnedStay == ASSUME Paced PROVE Spec => []ReturnedKept
<1>1. Init => Fed /\ Quiet /\ AllKept
  BY InitiallyFed DEF Init, Quiet, AllKept, Kept
<1>2. IInv /\ Fed /\ [Next]_vars => Fed'
  BY NextFed
<1>3. IInv /\ Fed /\ Quiet /\ AllKept /\ [Next]_vars => AllKept'
  BY KeptStep
<1>4. AllKept => ReturnedKept
  BY DEF AllKept, Kept, Replaced, ReturnedKept
<1> QED
  BY <1>1, <1>2, <1>3, <1>4, Always, QuietStep, PTL DEF Spec

(* What somebody holds, or is being decoded into. *)
Known == Pool!Live \cup {None}

LEMMA HoldersKnown ==
  /\ target \in Known /\ None \in Known
  /\ \A k \in Keys : slots[k] \in Known
  /\ \A i \in 1..MaxUnits : i \in DOMAIN out => out[i] \in Known
  /\ \A i \in 1..MaxUnits : i \in DOMAIN given => given[i] \in Known
<1>1. \A x \in Holders : hold[x] \in Known
  BY DEF Known, Pool!Live, Pool!Held
<1>2. \A k \in Keys : <<"store", k>> \in Holders /\ hold[<<"store", k>>] = slots[k]
  BY DEF hold, Holders
<1>3. \A i \in 1..MaxUnits :
        /\ <<"out", i>> \in Holders
        /\ i \in DOMAIN out => hold[<<"out", i>>] = out[i]
  BY DEF hold, Holders
<1>4. \A i \in 1..MaxUnits :
        /\ <<"given", i>> \in Holders
        /\ i \in DOMAIN given => hold[<<"given", i>>] = given[i]
  BY DEF hold, Holders
<1>5. target \in Known /\ None \in Known
  BY DEF Known, Pool!Live
<1> QED
  BY <1>1, <1>2, <1>3, <1>4, <1>5

(* A step whose holders end with surfaces that were live is a Pass. *)
LEMMA PassStep ==
  ASSUME \A k \in Keys : slots'[k] \in Known,
         \A i \in 1..MaxUnits : i \in DOMAIN out' => out'[i] \in Known,
         \A i \in 1..MaxUnits : i \in DOMAIN given' => given'[i] \in Known,
         target' \in {target, None}
  PROVE  Pool!Pass
<1>1. \A x \in Holders : hold'[x] \in Known
  <2> SUFFICES ASSUME NEW x \in Holders PROVE hold'[x] \in Known
    OBVIOUS
  <2>1. CASE x \in {"store"} \X Keys
    BY <2>1 DEF hold
  <2>2. CASE x \in {"out"} \X (1..MaxUnits)
    BY <2>2, HoldersKnown DEF hold
  <2>3. CASE x \in {"given"} \X (1..MaxUnits)
    BY <2>3, HoldersKnown DEF hold
  <2> QED
    BY <2>1, <2>2, <2>3 DEF Holders
<1>2. hold' \in [Holders -> Pool!Live \cup {None}]
  <2> DEFINE kept(x) ==
        CASE x[1] = "store" -> slots'[x[2]]
          [] x[1] = "out" -> IF x[2] \in DOMAIN out' THEN out'[x[2]] ELSE None
          [] x[1] = "given" -> IF x[2] \in DOMAIN given' THEN given'[x[2]] ELSE None
  <2>1. hold' = [x \in Holders |-> kept(x)]
    BY DEF hold
  <2> HIDE DEF kept
  <2>2. hold' = [x \in Holders |-> hold'[x]]
    BY <2>1
  <2> QED
    BY <1>1, <2>2 DEF Known
<1> QED
  BY <1>2 DEF Pool!Pass

LEMMA InitPool == Init => Pool!Init
<1> SUFFICES ASSUME Init PROVE Pool!Init
  OBVIOUS
<1>1. hold = [x \in Holders |-> None]
  BY DEF Init, hold, Holders
<1> QED
  BY <1>1 DEF Init, Pool!Init

LEMMA NextPool ==
  ASSUME IInv, Fed, Quiet, [Next]_vars
  PROVE  [Pool!Next]_Pool!vars
<1> SUFFICES Pool!Pass \/ Pool!Write
  BY DEF Pool!Next
<1>1. TypeOK /\ Locals /\ Taken
  BY DEF IInv
<1>2. ASSUME slots' = slots \/ \A k \in Keys : slots'[k] \in {slots[k], None},
             out' \in {out, <<>>} \/ \A i \in DOMAIN out' : out'[i] = None,
             given' \in {given, <<>>}, target' \in {target, None}
      PROVE  Pool!Pass
  BY <1>2, PassStep, HoldersKnown
<1>3. ASSUME NEW id \in SpsIds, Prepare(id) PROVE Pool!Pass
  BY <1>2, <1>3 DEF Prepare, Restart
<1>4. ASSUME NEW n \in 0..MaxUnits, Decode(n) PROVE Pool!Pass
  BY <1>2, <1>4 DEF Decode
<1>5. ASSUME NEW u \in Units, Push(u) PROVE Pool!Pass
  BY <1>2, <1>5 DEF Push
<1>6. CASE \/ RejectUnit \/ Flush \/ TakeSps \/ TakeOther \/ RejectPicture
          \/ DecodeFails
  BY <1>2, <1>6 DEF RejectUnit, Flush, TakeSps, TakeOther, RejectPicture, DecodeFails
<1>7. CASE BeginPicture
  BY <1>2, <1>7 DEF BeginPicture, Restart
<1>20. CASE Deliver
  BY <1>20, PassStep, HoldersKnown DEF Deliver
<1>21. CASE Acquire
  <2>1. CASE FreeSlots = {}
    BY <1>2, <1>21, <2>1 DEF Acquire
  <2>2. CASE FreeSlots # {}
    <3>1. target' \in AllSlots \ inUse /\ UNCHANGED <<slots, out, given>>
      BY <1>21, <2>2 DEF Acquire, FreeSlots
    <3>2. target = None /\ out = <<>> /\ given = <<>>
      BY <1>1, <1>21 DEF Acquire, Locals, Quiet, Fed, Waiting
    <3>3. \A k \in Keys : slots[k] # None => slots[k] \in inUse
      BY <1>1 DEF Taken, SlotsFollowDpb, StoreSlots
    <3>4. \A x \in Holders : hold[x] # None => hold[x] \in inUse
      <4> SUFFICES ASSUME NEW x \in Holders PROVE hold[x] # None => hold[x] \in inUse
        OBVIOUS
      <4>1. CASE x \in {"store"} \X Keys
        BY <3>3, <4>1 DEF hold
      <4>2. CASE x \in {"out", "given"} \X (1..MaxUnits)
        BY <3>2, <4>2 DEF hold
      <4> QED
        BY <4>1, <4>2 DEF Holders
    <3>5. hold' = hold
      BY <3>1 DEF hold
    <3>6. target' \notin Pool!Held(hold)
      BY <3>1, <3>4 DEF Pool!Held
    <3> QED
      BY <3>1, <3>2, <3>5, <3>6 DEF Pool!Write
  <2> QED
    BY <2>1, <2>2
<1>22. CASE UNCHANGED vars
  BY <1>2, <1>22 DEF vars
<1>23. ASSUME NEW K \in SUBSET dpb, Decoded(K) PROVE Pool!Pass
  <2>1. \A k \in Keys : slots'[k] \in {slots[k], None, target}
    BY <1>23 DEF Decoded
  <2>2. \A i \in DOMAIN out' : out'[i] = target \/ (i \in DOMAIN out /\ out'[i] = out[i])
    BY <1>1, <1>23 DEF Decoded, TypeOK
  <2> QED
    BY <1>23, <2>1, <2>2, PassStep, HoldersKnown DEF Decoded
<1> QED
  BY <1>3, <1>4, <1>5, <1>6, <1>7, <1>20, <1>21, <1>22, <1>23 DEF Next

(* Nothing the DPB, the pictures to be returned or the caller have is ever *)
(* decoded into, for calls that finish no picture and do not fail once     *)
(* they have completed one (without that the code breaks it: the pictures  *)
(* of a call that failed stay in `out` with their surfaces let go).  A     *)
(* session may change at any IDR picture and any prepare(); a picture      *)
(* whose session is gone has no surface to be decoded into, and            *)
(* ReturnedStay says which pictures these are.                             *)
THEOREM ImplementsPool == ASSUME Paced PROVE Spec => PoolSpec
<1>1. Init => Fed /\ Quiet
  BY InitiallyFed DEF Init, Quiet
<1>2. IInv /\ Fed /\ [Next]_vars => Fed'
  BY NextFed
<1> QED
  BY <1>1, <1>2, Always, QuietStep, InitPool, NextPool, PTL DEF Spec, PoolSpec, Pool!Spec
=============================================================================
