-------------------------- MODULE Av1Decoder_proofs --------------------------
(***************************************************************************)
(* Theorems about Av1Decoder, for every number of reference slots, OBUs    *)
(* and tiles, and every set of requirements with and without film grain.   *)
(*                                                                         *)
(* Typed is inductive for every stream.  Counted adds what only holds of   *)
(* units that do not fail after a frame was shown (Conforming): the exact  *)
(* user counts of both surfaces of a frame, that a session's surfaces are  *)
(* enough, and SurfacePool.  The three need each other: a call that ran    *)
(* out of surfaces would drop the frame it had to show with its user.      *)
(***************************************************************************)
EXTENDS Av1Decoder, FiniteSetTheorems, SequenceTheorems, WellFoundedInduction, TLAPS

(* How the locals of a call go with where the call is. *)
Locals ==
  /\ target # None <=> pc \in {"submit", "store"}
  /\ dtarget # None => target # None /\ dtarget # target
  /\ pc \in {"decode", "submit", "store"} => pending # None
  /\ index # None <=> pc = "load"
  /\ pc = "load" => pending = None /\ index \notin mask
  /\ pc = "idle" => picture = None /\ pending = None
  /\ pc # "idle" => returned = None
  /\ pc \notin {"store", "load"} => mask = {}

(* A reference slot has both its surfaces or neither, the one loaded from  *)
(* has both.                                                               *)
Whole ==
  /\ \A i \in RefIdx : refs[i] = None <=> shown[i] = None
  /\ index # None => refs[index] # None

(* A frame collects its tiles from the first on. *)
Tiled ==
  pending # None =>
    /\ pending.got = Tiles(0, pending.next - 1)
    /\ pc = "decode" => pending.next = pending.hdr.tiles

(* The session is what the decoder thinks it is. *)
Agreed == session = requirements /\ (requirements # None => sequence = requirements)

Typed == TypeOK /\ Locals /\ Whole /\ Tiled /\ Agreed

(* A conforming unit does not end, or fail, inside a frame once another of *)
(* its frames is to be shown.                                              *)
Complete == pc = "obus" /\ pending # None => picture = None

(* A frame with film grain is decoded in a session made for it. *)
GrainServed ==
  pending # None /\ requirements # None =>
    (pending.hdr.grain => requirements \in Grain)

(* Without film grain a frame has one surface. *)
Plain == requirements \notin Grain => shown = refs /\ dtarget = None

(* Nobody uses the surfaces a frame is submitted to. *)
FreshTarget == pc = "submit" => \A s \in {target, dtarget} \ {None} : users[s] = 0

Counted ==
  /\ Typed /\ Complete /\ GrainServed /\ Plain /\ FreshTarget
  /\ UsersExact /\ PoolExact /\ NeverStarved

-----------------------------------------------------------------------------
(* Tiles.                                                                  *)

LEMMA TilesType ==
  ASSUME NEW first \in 0..MaxTiles, NEW last \in -1..(MaxTiles - 1)
  PROVE  Tiles(first, last) \in Seq(0..MaxTiles)
<1> DEFINE n == IF last - first + 1 > 0 THEN last - first + 1 ELSE 0
<1>1. n \in Nat /\ 1..(last - first + 1) = 1..n
  BY RefAssumption
<1>2. \A k \in 1..n : first + k - 1 \in 0..MaxTiles
  BY RefAssumption
<1> HIDE DEF n
<1>3. Tiles(first, last) = [k \in 1..n |-> first + k - 1]
  BY <1>1 DEF Tiles
<1> QED
  BY <1>1, <1>2, <1>3

LEMMA LengthOf ==
  ASSUME NEW S, NEW s \in Seq(S), NEW n \in Nat, DOMAIN s = 1..n
  PROVE  Len(s) = n
<1>1. Len(s) \in Nat /\ 1..Len(s) = 1..n
  BY LenProperties
<1> QED
  BY <1>1

(* The next tiles follow those there are. *)
LEMMA TilesJoin ==
  ASSUME NEW n \in 0..MaxTiles, NEW last \in n..(MaxTiles - 1)
  PROVE  Tiles(0, n - 1) \o Tiles(n, last) = Tiles(0, last)
<1>1. MaxTiles \in Nat
  BY RefAssumption
<1> DEFINE s == Tiles(0, n - 1)
           t == Tiles(n, last)
           u == Tiles(0, last)
<1>2. s \in Seq(0..MaxTiles) /\ t \in Seq(0..MaxTiles) /\ u \in Seq(0..MaxTiles)
  BY <1>1, TilesType
<1>3. /\ Len(s) = n /\ Len(t) = last - n + 1 /\ Len(u) = last + 1
      /\ \A k \in 1..n : s[k] = k - 1
      /\ \A k \in 1..(last - n + 1) : t[k] = n + k - 1
      /\ \A k \in 1..(last + 1) : u[k] = k - 1
  <2>1. /\ DOMAIN s = 1..n /\ DOMAIN t = 1..(last - n + 1) /\ DOMAIN u = 1..(last + 1)
        /\ n \in Nat /\ last - n + 1 \in Nat /\ last + 1 \in Nat
    BY <1>1 DEF Tiles
  <2>2. Len(s) = n /\ Len(t) = last - n + 1 /\ Len(u) = last + 1
    BY <1>2, <2>1, LengthOf
  <2> QED
    BY <1>1, <2>2 DEF Tiles
<1> HIDE DEF s, t, u
<1>4. /\ s \o t \in Seq(0..MaxTiles)
      /\ Len(s \o t) = Len(s) + Len(t)
      /\ \A k \in 1..(Len(s) + Len(t)) :
           (s \o t)[k] = IF k <= Len(s) THEN s[k] ELSE t[k - Len(s)]
  BY <1>2, ConcatProperties, Zenon
<1>5. Len(s \o t) = Len(u)
  BY <1>3, <1>4
<1>6. \A k \in 1..Len(u) : (s \o t)[k] = u[k]
  BY <1>3, <1>4
<1>7. s \o t = u
  BY <1>2, <1>4, <1>5, <1>6, SeqEqual, Zenon
<1> QED
  BY <1>7 DEF s, t, u

LEMMA NoneNoFrame == None \notin Pendings
  BY RefAssumption

(* A frame as its header leaves it, and as a tile group does. *)
LEMMA FrameStarts ==
  ASSUME NEW h \in Headers, NEW last \in -1..(MaxTiles - 1), last < h.tiles,
         NEW p, p = [hdr |-> h, got |-> Tiles(0, last), next |-> last + 1]
  PROVE  /\ p \in Pendings /\ p # None /\ p.hdr = h
         /\ p.next = last + 1 /\ p.got = Tiles(0, p.next - 1)
<1>1. last + 1 \in 0..MaxTiles /\ (last + 1) - 1 = last /\ 0 \in 0..MaxTiles
  BY RefAssumption
<1>2. Tiles(0, last) \in Seq(0..MaxTiles)
  BY <1>1, TilesType
<1>3. p.hdr = h /\ p.next = last + 1 /\ p.got = Tiles(0, last)
  OBVIOUS
<1>4. p \in Pendings
  BY <1>1, <1>2 DEF Pendings
<1> QED
  BY <1>1, <1>3, <1>4, NoneNoFrame

LEMMA FrameGrows ==
  ASSUME NEW q \in Pendings, q.got = Tiles(0, q.next - 1),
         NEW last \in q.next..(MaxTiles - 1), last < q.hdr.tiles,
         NEW p, p = [q EXCEPT !.got = @ \o Tiles(q.next, last), !.next = last + 1]
  PROVE  /\ p \in Pendings /\ p # None /\ p.hdr = q.hdr
         /\ p.next = last + 1 /\ p.got = Tiles(0, p.next - 1)
<1>1. q.next \in 0..MaxTiles /\ q.hdr \in Headers
  BY DEF Pendings
<1>2. last + 1 \in 0..MaxTiles /\ (last + 1) - 1 = last /\ 0 \in 0..MaxTiles
      /\ last \in -1..(MaxTiles - 1)
  BY <1>1, RefAssumption
<1>3. Tiles(0, last) \in Seq(0..MaxTiles)
  BY <1>2, TilesType
<1>4. Tiles(0, q.next - 1) \o Tiles(q.next, last) = Tiles(0, last)
  BY <1>1, TilesJoin
<1>5. p = [hdr |-> q.hdr, got |-> Tiles(0, last), next |-> last + 1]
  BY <1>4 DEF Pendings
<1>6. ASSUME NEW g, g = [hdr |-> q.hdr, got |-> Tiles(0, last), next |-> last + 1]
      PROVE  /\ g \in Pendings /\ g # None /\ g.hdr = q.hdr
             /\ g.next = last + 1 /\ g.got = Tiles(0, g.next - 1)
  BY <1>1, <1>2, <1>6, FrameStarts, Zenon
<1> QED
  BY <1>5, <1>6, Zenon

-----------------------------------------------------------------------------
(* The pool's operators.                                                   *)

LEMMA RetainType ==
  ASSUME NEW u \in [AllSlots -> Nat], NEW s \in AllSlots
  PROVE  Retain(u, s) \in [AllSlots -> Nat]
  BY DEF Retain

LEMMA LessType ==
  ASSUME NEW u \in [AllSlots -> Nat], NEW s \in AllSlots \cup {None}
  PROVE  Less(u, s) \in [AllSlots -> Nat]
  BY DEF Less

LEMMA LetGoType ==
  ASSUME inUse \in SUBSET AllSlots, NEW u \in [AllSlots -> Nat],
         NEW a \in AllSlots \cup {None}, NEW b \in AllSlots \cup {None}, LetGo(u, <<a, b>>)
  PROVE  users' \in [AllSlots -> Nat] /\ inUse' \in SUBSET AllSlots
  BY LessType DEF LetGo

LEMMA NoneNoSlot == None \notin AllSlots
  BY RefAssumption DEF AllSlots

LEMMA NoneNoIndex == None \notin RefIdx
  BY RefAssumption

LEMMA RefsNat == REFS \in Nat
  BY RefAssumption, FS_CardinalityType DEF REFS

(* The lowest of a set of slots. *)
LEMMA Least ==
  ASSUME NEW S \in SUBSET Nat, S # {}
  PROVE  \E n \in S : \A m \in S : n <= m
<1>1. \E x \in S : \A y \in S : ~(<<y, x>> \in OpToRel(<, Nat))
  BY NatLessThanWellFounded, WFMin
<1>2. \A x, y \in Nat : <<y, x>> \in OpToRel(<, Nat) <=> y < x
  BY DEF OpToRel
<1>3. PICK x \in S : \A y \in S : ~(<<y, x>> \in OpToRel(<, Nat))
  BY <1>1
<1>4. \A m \in S : x <= m
  <2> TAKE m \in S
  <2>1. x \in Nat /\ m \in Nat
    OBVIOUS
  <2>2. ~(m < x)
    BY <1>2, <1>3, <2>1
  <2> QED
    BY <2>1, <2>2
<1> QED
  BY <1>4

LEMMA LowestIn ==
  ASSUME NEW S \in SUBSET AllSlots, S # {}
  PROVE  Lowest(S) \in S
<1>1. S \in SUBSET Nat
  BY DEF AllSlots
<1>2. \E n \in S : \A m \in S : n <= m
  BY <1>1, Least
<1> QED
  BY <1>2 DEF Lowest

(* decode_frame() takes one free surface, or two different ones. *)
LEMMA AcquireTakes ==
  ASSUME TypeOK, Locals, Acquire
  PROVE  \/ /\ Cardinality(FreeSlots) < (IF pending.hdr.grain THEN 2 ELSE 1)
            /\ Return("starved") /\ inUse' = inUse
         \/ /\ target' \in FreeSlots
            /\ dtarget' \in (FreeSlots \ {target'}) \cup {None}
            /\ dtarget' # None => pending.hdr.grain
            /\ inUse' = inUse \cup ({target', dtarget'} \ {None})
            /\ pc' = "submit"
            /\ UNCHANGED <<left, pending, mask, index, picture, result>>
<1>1. FreeSlots \in SUBSET AllSlots /\ IsFiniteSet(FreeSlots) /\ Cardinality(FreeSlots) \in Nat
  <2>1. FreeSlots \in SUBSET AllSlots
    BY DEF FreeSlots
  <2>2. IsFiniteSet(AllSlots)
    BY RefsNat, FS_Interval DEF AllSlots
  <2> QED
    BY <2>1, <2>2, FS_Subset, FS_CardinalityType
<1> DEFINE need == IF pending.hdr.grain THEN 2 ELSE 1
<1>2. CASE Cardinality(FreeSlots) < need
  BY <1>1, <1>2 DEF Acquire
<1>3. CASE ~(Cardinality(FreeSlots) < need)
  <2>1. FreeSlots # {}
    BY <1>1, <1>3, FS_EmptySet
  <2>2. target' = Lowest(FreeSlots) /\ target' \in FreeSlots
    BY <1>1, <1>3, <2>1, LowestIn DEF Acquire
  <2>3. ASSUME need = 2 PROVE FreeSlots \ {target'} # {}
    <3>1. Cardinality(FreeSlots \ {target'}) = Cardinality(FreeSlots) - 1
      BY <1>1, <2>2, FS_RemoveElement
    <3> QED
      BY <1>1, <1>3, <2>3, <3>1, FS_EmptySet
  <2>4. dtarget' = IF need = 2 THEN Lowest(FreeSlots \ {target'}) ELSE None
    BY <1>3 DEF Acquire
  <2>5. need = 2 => dtarget' \in FreeSlots \ {target'}
    BY <1>1, <2>3, <2>4, LowestIn
  <2> QED
    BY <1>3, <2>2, <2>4, <2>5 DEF Acquire
<1> QED
  BY <1>2, <1>3

-----------------------------------------------------------------------------
LEMMA InitTyped == Init => Typed
<1> SUFFICES ASSUME Init PROVE Typed
  OBVIOUS
<1> USE RefAssumption DEF Init
<1>1. TypeOK
  BY DEF TypeOK
<1>2. Locals
  BY DEF Locals
<1>3. Whole /\ Tiled /\ Agreed
  BY DEF Whole, Tiled, Agreed
<1> QED
  BY <1>1, <1>2, <1>3 DEF Typed

(* A slot that is stored gets both surfaces; what it had is let go. *)
LEMMA StoreSlotType ==
  ASSUME TypeOK, Whole, NEW i \in RefIdx, NEW d \in AllSlots, NEW s \in AllSlots,
         StoreSlot(i, d, s), index' = index
  PROVE  /\ users' \in [AllSlots -> Nat] /\ inUse' \in SUBSET AllSlots
         /\ refs' \in [RefIdx -> AllSlots \cup {None}]
         /\ shown' \in [RefIdx -> AllSlots \cup {None}]
         /\ mask' \in SUBSET RefIdx
         /\ Whole'
<1>1. refs[i] \in AllSlots \cup {None} /\ shown[i] \in AllSlots \cup {None}
  BY DEF TypeOK
<1>2. Retain(Retain(users, d), s) \in [AllSlots -> Nat]
  BY RetainType DEF TypeOK
<1>3. users' \in [AllSlots -> Nat] /\ inUse' \in SUBSET AllSlots
  BY <1>1, <1>2, LetGoType DEF StoreSlot, TypeOK
<1>4. refs' = [refs EXCEPT ![i] = d] /\ shown' = [shown EXCEPT ![i] = s]
      /\ mask' = mask \ {i}
  BY DEF StoreSlot
<1>5. Whole'
  BY <1>4, NoneNoSlot, NoneNoIndex DEF Whole, TypeOK
<1> QED
  BY <1>3, <1>4, <1>5 DEF TypeOK

(* A new session starts with nothing, or there is none and the display is  *)
(* kept.                                                                   *)
LEMMA RestartTyped ==
  ASSUME NEW r \in Reqs, Restart(r)
  PROVE  /\ display' \in {"here", None} /\ session' \in {r, None}
         /\ requirements' = session'
         /\ inUse' = {} /\ state' = {} /\ returned' = None
         /\ users' \in [AllSlots -> Nat]
         /\ refs' \in [RefIdx -> {None}] /\ shown' = refs'
  BY DEF Restart

(* Between frames and sessions: what keeps Typed of the calls' outer steps. *)
LEMMA OuterTyped ==
  ASSUME Typed,
         \/ \E r \in Reqs : Prepare(r) \/ SequenceHeader(r)
         \/ \E n \in 0..MaxObus : Decode(n)
         \/ RejectObu \/ EndUnit \/ UNCHANGED vars
  PROVE  Typed'
<1> USE RefAssumption, NoneNoSlot, NoneNoIndex DEF Typed
<1>1. ASSUME NEW r \in Reqs, Prepare(r) PROVE Typed'
  <2>1. UNCHANGED <<pc, locals>> /\ pc = "idle"
        /\ sequence' = (IF session' # None THEN r ELSE sequence)
        /\ result' = (IF session' # None THEN "ok" ELSE "error")
    BY <1>1 DEF Prepare
  <2>2. CASE requirements = r /\ session # None
    BY <1>1, <2>1, <2>2 DEF Prepare, pool, locals, TypeOK, Locals, Whole, Tiled, Agreed
  <2>3. CASE Restart(r)
    BY <2>1, <2>3, RestartTyped DEF locals, TypeOK, Locals, Whole, Tiled, Agreed
  <2> QED
    BY <1>1, <2>2, <2>3 DEF Prepare
<1>2. ASSUME NEW r \in Reqs, SequenceHeader(r) PROVE Typed'
  <2>1. pc = "obus" /\ left > 0 /\ index = None
    BY <1>2 DEF SequenceHeader, Locals
  <2>2. CASE requirements = r
    <3>1. session # None /\ session' = session
      BY <2>2 , <1>2 DEF SequenceHeader, Restart, pool, Agreed
    <3> QED
      BY <1>2, <2>1, <2>2, <3>1
      DEF SequenceHeader, pool, TypeOK, Locals, Whole, Tiled, Agreed
  <2>3. CASE Restart(r) /\ session' # None
    <3>1. /\ sequence' = r /\ left' = left - 1
          /\ UNCHANGED <<pc, pending, target, dtarget, mask, index, picture, result>>
      BY <1>2, <2>3 DEF SequenceHeader
    <3>2. TypeOK'
      BY <2>1, <2>3, <3>1, RestartTyped DEF TypeOK
    <3> QED
      BY <2>1, <2>3, <3>1, <3>2, RestartTyped DEF Locals, Whole, Tiled, Agreed
  <2>4. CASE Restart(r) /\ session' = None
    <3>1. Return("error") /\ sequence' = sequence
      BY <1>2, <2>4 DEF SequenceHeader
    <3>2. TypeOK'
      BY <2>4, <3>1, RestartTyped DEF Return, TypeOK
    <3> QED
      BY <2>4, <3>1, <3>2, RestartTyped DEF Return, Locals, Whole, Tiled, Agreed
  <2> QED
    BY <1>2, <2>2, <2>3, <2>4 DEF SequenceHeader
<1>3. ASSUME NEW n \in 0..MaxObus, Decode(n) PROVE Typed'
  <2>1. users' \in [AllSlots -> Nat] /\ inUse' \in SUBSET AllSlots
    BY <1>3, LetGoType DEF Decode, TypeOK
  <2> QED
    BY <1>3, <2>1 DEF Decode, pool, stream, TypeOK, Locals, Whole, Tiled, Agreed
<1>4. CASE RejectObu
  BY <1>4 DEF RejectObu, Return, pool, stream, TypeOK, Locals, Whole, Tiled, Agreed
<1>5. CASE EndUnit
  BY <1>5 DEF EndUnit, Return, pool, stream, TypeOK, Locals, Whole, Tiled, Agreed
<1>6. CASE UNCHANGED vars
  BY <1>6 DEF vars, pool, stream, locals, TypeOK, Locals, Whole, Tiled, Agreed
<1> QED
  BY <1>1, <1>2, <1>3, <1>4, <1>5, <1>6

(* From the frame's header to the driver. *)
LEMMA FrameTyped ==
  ASSUME Typed,
         \/ \E h \in Headers, last \in -1..(MaxTiles - 1) : FrameHeader(h, last)
         \/ \E first, last \in 0..(MaxTiles - 1) : TileGroup(first, last)
         \/ Acquire \/ SubmitFails \/ Submitted
  PROVE  Typed'
<1> USE RefAssumption, NoneNoSlot, NoneNoIndex DEF Typed
<1>1. ASSUME NEW p \in Pendings, p # None, p.got = Tiles(0, p.next - 1), Collect(p),
             pc = "obus", left > 0,
             UNCHANGED <<pool, stream, inUse, users, refs, shown, returned, target, dtarget,
                         mask, index, picture, result>>
      PROVE  Typed'
  BY <1>1 DEF Collect, pool, stream, TypeOK, Locals, Whole, Tiled, Agreed
<1>2. ASSUME NEW h \in Headers, NEW last \in -1..(MaxTiles - 1), FrameHeader(h, last)
      PROVE  Typed'
  <2> DEFINE p == [hdr |-> h, got |-> Tiles(0, last), next |-> last + 1]
  <2>1. p \in Pendings /\ p # None /\ p.got = Tiles(0, p.next - 1)
    BY <1>2, FrameStarts DEF FrameHeader
  <2>2. Collect(p)
    BY <1>2 DEF FrameHeader
  <2> HIDE DEF p
  <2> QED
    BY <1>1, <1>2, <2>1, <2>2 DEF FrameHeader
<1>3. ASSUME NEW first \in 0..(MaxTiles - 1), NEW last \in 0..(MaxTiles - 1),
             TileGroup(first, last)
      PROVE  Typed'
  <2> DEFINE p == [pending EXCEPT !.got = @ \o Tiles(first, last), !.next = last + 1]
  <2>0. pending # None /\ first = pending.next /\ first <= last /\ last < pending.hdr.tiles
    BY <1>3, Zenon DEF TileGroup
  <2>1. /\ pending \in Pendings /\ first = pending.next /\ last \in pending.next..(MaxTiles - 1)
        /\ last < pending.hdr.tiles /\ pending.got = Tiles(0, pending.next - 1)
    BY <2>0 DEF TypeOK, Tiled
  <2>2. p \in Pendings /\ p # None /\ p.got = Tiles(0, p.next - 1)
    BY <2>1, FrameGrows, Zenon
  <2>3. Collect(p)
    BY <1>3 DEF TileGroup
  <2> HIDE DEF p
  <2> QED
    BY <1>1, <1>3, <2>2, <2>3 DEF TileGroup
<1>4. CASE Acquire
  <2>1. pc = "decode" /\ UNCHANGED <<pool, stream, users, refs, shown, returned>>
    BY <1>4 DEF Acquire
  <2>2. CASE Return("starved") /\ inUse' = inUse
    BY <2>1, <2>2 DEF Return, pool, stream, TypeOK, Locals, Whole, Tiled, Agreed
  <2>3. CASE /\ target' \in FreeSlots
             /\ dtarget' \in (FreeSlots \ {target'}) \cup {None}
             /\ inUse' = inUse \cup ({target', dtarget'} \ {None})
             /\ pc' = "submit"
             /\ UNCHANGED <<left, pending, mask, index, picture, result>>
    <3>1. target' \in AllSlots /\ dtarget' \in AllSlots \cup {None} /\ target' # dtarget'
          /\ inUse' \in SUBSET AllSlots
      BY <2>3 DEF FreeSlots, TypeOK
    <3> QED
      BY <2>1, <2>3, <3>1 DEF pool, stream, TypeOK, Locals, Whole, Tiled, Agreed
  <2> QED
    BY <1>4, <2>2, <2>3, AcquireTakes
<1>5. CASE SubmitFails
  BY <1>5 DEF SubmitFails, Return, pool, stream, TypeOK, Locals, Whole, Tiled, Agreed
<1>6. CASE Submitted
  <2>1. users' \in [AllSlots -> Nat] /\ mask' \in SUBSET RefIdx
    BY <1>6 DEF Submitted, TypeOK, Locals, Pendings, Headers
  <2> QED
    BY <1>6, <2>1 DEF Submitted, pool, stream, TypeOK, Locals, Whole, Tiled, Agreed
<1> QED
  BY <1>2, <1>3, <1>4, <1>5, <1>6

(* Storing the frame in the reference slots, and showing one of theirs. *)
LEMMA StoreTyped ==
  ASSUME Typed,
         \/ \E i \in RefIdx : Store(i) \/ Load(i)
         \/ FinishFrame
         \/ \E i \in RefIdx, key \in BOOLEAN : ShowExisting(i, key)
         \/ FinishShow
  PROVE  Typed'
<1> USE RefAssumption, NoneNoSlot, NoneNoIndex DEF Typed
<1>1. ASSUME NEW i \in RefIdx, Store(i) PROVE Typed'
  <2>1. target \in AllSlots /\ ToShow \in AllSlots
    BY <1>1 DEF Store, ToShow, TypeOK, Locals
  <2>2. /\ users' \in [AllSlots -> Nat] /\ inUse' \in SUBSET AllSlots
        /\ refs' \in [RefIdx -> AllSlots \cup {None}]
        /\ shown' \in [RefIdx -> AllSlots \cup {None}]
        /\ mask' \in SUBSET RefIdx
        /\ Whole'
    BY <1>1, <2>1, StoreSlotType DEF Store
  <2>3. TypeOK'
    BY <1>1, <2>2 DEF Store, pool, stream, TypeOK
  <2>4. Locals' /\ Tiled' /\ Agreed'
    BY <1>1 DEF Store, pool, stream, Locals, Tiled, Agreed
  <2> QED
    BY <2>2, <2>3, <2>4
<1>2. ASSUME NEW i \in RefIdx, Load(i) PROVE Typed'
  <2>1. index \in RefIdx /\ refs[index] \in AllSlots /\ shown[index] \in AllSlots
    BY <1>2 DEF Load, TypeOK, Locals, Whole
  <2>2. /\ users' \in [AllSlots -> Nat] /\ inUse' \in SUBSET AllSlots
        /\ refs' \in [RefIdx -> AllSlots \cup {None}]
        /\ shown' \in [RefIdx -> AllSlots \cup {None}]
        /\ mask' \in SUBSET RefIdx
        /\ Whole'
    BY <1>2, <2>1, StoreSlotType DEF Load
  <2>3. TypeOK'
    BY <1>2, <2>2 DEF Load, pool, TypeOK
  <2>4. Locals' /\ Tiled' /\ Agreed'
    BY <1>2 DEF Load, StoreSlot, pool, Locals, Tiled, Agreed
  <2> QED
    BY <2>2, <2>3, <2>4
<1>3. CASE FinishFrame
  <2>1. /\ target \in AllSlots /\ ToShow \in AllSlots /\ pending \in Pendings
        /\ picture \in AllSlots \cup {None} /\ users \in [AllSlots -> Nat]
    BY <1>3 DEF FinishFrame, ToShow, TypeOK, Locals
  <2>2. state' \in SUBSET RefIdx
    BY <1>3, <2>1 DEF FinishFrame, TypeOK, Pendings, Headers
  <2>3. users' \in [AllSlots -> Nat]
    BY <1>3, <2>1, RetainType, LessType DEF FinishFrame
  <2>4. inUse' \in SUBSET AllSlots /\ picture' \in AllSlots \cup {None}
    BY <1>3, <2>1 DEF FinishFrame, TypeOK
  <2> QED
    BY <1>3, <2>2, <2>3, <2>4 DEF FinishFrame, pool, TypeOK, Locals, Whole, Tiled, Agreed
<1>4. ASSUME NEW i \in RefIdx, NEW key \in BOOLEAN, ShowExisting(i, key) PROVE Typed'
  <2>1. shown[i] \in AllSlots
    BY <1>4 DEF ShowExisting, TypeOK
  <2>2. users' \in [AllSlots -> Nat]
    BY <1>4, <2>1, RetainType DEF ShowExisting, TypeOK
  <2>3. mask' \in SUBSET RefIdx /\ i \notin mask'
    BY <1>4 DEF ShowExisting
  <2> QED
    BY <1>4, <2>1, <2>2, <2>3
    DEF ShowExisting, pool, stream, TypeOK, Locals, Whole, Tiled, Agreed
<1>5. CASE FinishShow
  <2>1. shown[index] \in AllSlots /\ index \in RefIdx
    BY <1>5 DEF FinishShow, TypeOK, Locals, Whole
  <2>2. users' \in [AllSlots -> Nat] /\ inUse' \in SUBSET AllSlots
    BY <1>5, LetGoType DEF FinishShow, TypeOK
  <2> QED
    BY <1>5, <2>1, <2>2 DEF FinishShow, pool, stream, TypeOK, Locals, Whole, Tiled, Agreed
<1> QED
  BY <1>1, <1>2, <1>3, <1>4, <1>5

LEMMA NextTyped == Typed /\ [Next]_vars => Typed'
  BY OuterTyped, FrameTyped, StoreTyped, Zenon DEF Next

(* Every variable keeps its type, whatever the stream: in particular no    *)
(* more OBUs are read than the temporal unit has (av1.rs, decode).         *)
THEOREM TypeCorrect == Spec => []TypeOK
  BY InitTyped, NextTyped, PTL DEF Spec, Typed

(* However its tiles come, in one group or several, in the frame's own OBU *)
(* or in OBUs of their own, a frame is decoded from all of them, each once *)
(* and in order (av1.rs, collect_tiles).                                   *)
THEOREM TilesInOrder == Spec => []TilesOnce
<1>1. Typed => TilesOnce
  BY DEF Typed, TilesOnce, Tiled, Locals
<1> QED
  BY <1>1, InitTyped, NextTyped, PTL DEF Spec

-----------------------------------------------------------------------------
(* Counting the reference slots that hold a surface, as decoded or to show. *)

RefUses(r, s) == Cardinality({i \in RefIdx : r[i] = s})

LEMMA RefUsesType ==
  ASSUME NEW r, NEW s
  PROVE  /\ IsFiniteSet({i \in RefIdx : r[i] = s})
         /\ RefUses(r, s) \in Nat
         /\ RefUses(r, s) = 0 <=> \A i \in RefIdx : r[i] # s
<1> DEFINE S == {i \in RefIdx : r[i] = s}
<1>1. IsFiniteSet(S) /\ Cardinality(S) \in Nat
  BY RefAssumption, FS_Subset, FS_CardinalityType
<1>2. Cardinality(S) = 0 <=> S = {}
  BY <1>1, FS_EmptySet
<1> QED
  BY <1>1, <1>2 DEF RefUses

LEMMA RefUsesNat ==
  ASSUME NEW r, NEW s
  PROVE  RefUses(r, s) \in Nat
  BY RefUsesType

(* From slots r to slots q, where slot i has t instead: t gains a use, the  *)
(* surface slot i had loses one.                                           *)
Moved(r, q, i, t, s) == RefUses(q, s) = RefUses(r, s) + One(s = t) - One(s = r[i])

LEMMA RefUsesMove ==
  ASSUME NEW r \in [RefIdx -> AllSlots \cup {None}], NEW i \in RefIdx, NEW t \in AllSlots,
         NEW s \in AllSlots, NEW q, q = [r EXCEPT ![i] = t]
  PROVE  Moved(r, q, i, t, s)
<1> USE DEF Moved
<1> DEFINE R == {j \in RefIdx : r[j] = s}
           Q == {j \in RefIdx : q[j] = s}
<1>1. IsFiniteSet(R) /\ Cardinality(R) \in Nat
  BY RefUsesType, FS_CardinalityType
<1>2. i \in R <=> s = r[i]
  OBVIOUS
<1>3. CASE s = t
  <2>1. Q = R \cup {i}
    BY <1>3
  <2>2. Cardinality(Q) = IF i \in R THEN Cardinality(R) ELSE Cardinality(R) + 1
    BY <1>1, <2>1, FS_AddElement
  <2> QED
    BY <1>1, <1>2, <1>3, <2>2 DEF RefUses, One
<1>4. CASE s # t
  <2>1. Q = R \ {i}
    BY <1>4
  <2>2. Cardinality(Q) = IF i \in R THEN Cardinality(R) - 1 ELSE Cardinality(R)
    BY <1>1, <2>1, FS_RemoveElement
  <2> QED
    BY <1>1, <1>2, <1>4, <2>2 DEF RefUses, One
<1> QED
  BY <1>3, <1>4

LEMMA UsesParts ==
  ASSUME NEW s
  PROVE  /\ Uses(s) = RefUses(refs, s) + RefUses(shown, s) + One(returned = s)
                      + One(picture = s) + One(index # None /\ shown[index] = s)
         /\ Uses(s)' = RefUses(refs', s) + RefUses(shown', s) + One(returned' = s)
                      + One(picture' = s) + One(index' # None /\ shown'[index'] = s)
  BY DEF Uses, RefUses, One

(* unuse() of one slot that has a user. *)
LEMMA LessEffect ==
  ASSUME NEW u \in [AllSlots -> Nat], NEW s \in AllSlots \cup {None}, s # None => u[s] > 0
  PROVE  \A x \in AllSlots : Less(u, s)[x] = u[x] - One(x = s)
  BY NoneNoSlot DEF Less, One

(* unuse() of two slots with a user for each: as many users less, and the  *)
(* last one of each gives it back.                                         *)
LEMMA LetGoEffect ==
  ASSUME inUse \in SUBSET AllSlots, NEW u \in [AllSlots -> Nat],
         NEW a \in AllSlots \cup {None}, NEW b \in AllSlots \cup {None},
         \A x \in AllSlots : u[x] >= One(x = a) + One(x = b),
         LetGo(u, <<a, b>>)
  PROVE  \A x \in AllSlots :
           /\ users'[x] = u[x] - One(x = a) - One(x = b)
           /\ x \in inUse' <=> x \in inUse /\ ~((x = a \/ x = b) /\ users'[x] = 0)
<1> DEFINE u1 == Less(u, a)
           u2 == Less(u1, b)
           b1 == IF a = None \/ u1[a] # 0 THEN inUse ELSE inUse \ {a}
           b2 == IF b = None \/ u2[b] # 0 THEN b1 ELSE b1 \ {b}
<1>1. users' = u2 /\ inUse' = b2
  BY DEF LetGo
<1>2. u1 \in [AllSlots -> Nat] /\ \A x \in AllSlots : u1[x] = u[x] - One(x = a)
  <2>1. a # None => u[a] > 0
    BY NoneNoSlot DEF One
  <2> QED
    BY <2>1, LessType, LessEffect
<1> HIDE DEF u1
<1>3. u2 \in [AllSlots -> Nat] /\ \A x \in AllSlots : u2[x] = u1[x] - One(x = b)
  <2>1. b # None => u1[b] > 0
    <3> SUFFICES ASSUME b # None PROVE u1[b] > 0
      OBVIOUS
    <3>1. b \in AllSlots /\ u[b] >= One(b = a) + 1 /\ u1[b] = u[b] - One(b = a) /\ u[b] \in Nat
      BY <1>2 DEF One
    <3> QED
      BY <3>1 DEF One
  <2> QED
    BY <1>2, <2>1, LessType, LessEffect
<1> HIDE DEF u2
<1> TAKE x \in AllSlots
<1>4. /\ u1[x] = u[x] - One(x = a) /\ u2[x] = u1[x] - One(x = b)
      /\ u[x] \in Nat /\ u1[x] \in Nat /\ u2[x] \in Nat
      /\ One(x = a) \in 0..1 /\ One(x = b) \in 0..1
  BY <1>2, <1>3 DEF One
<1>5. x \in b1 <=> x \in inUse /\ ~(x = a /\ u1[x] = 0)
  BY NoneNoSlot
<1>6. x \in b2 <=> x \in b1 /\ ~(x = b /\ u2[x] = 0)
  BY NoneNoSlot
<1> HIDE DEF b1, b2
<1>7. x = a /\ x # b => u2[x] = u1[x]
  BY <1>4 DEF One
<1>8. x = b => One(x = b) = 1
  BY DEF One
<1>9. x \in b2 <=> x \in inUse /\ ~((x = a \/ x = b) /\ u2[x] = 0)
  BY <1>4, <1>5, <1>6, <1>7, <1>8
<1>10. users'[x] = u[x] - One(x = a) - One(x = b)
  BY <1>1, <1>4
<1> QED
  BY <1>1, <1>9, <1>10

-----------------------------------------------------------------------------
(* UsersExact and PoolExact, surface by surface. *)
Exact(s) ==
  /\ users[s] = Uses(s)
  /\ s \in inUse <=> users[s] > 0 \/ s \in {target, dtarget}

LEMMA ExactEverywhere ==
  UsersExact /\ PoolExact <=> \A s \in AllSlots : Exact(s)
  BY DEF UsersExact, PoolExact, Exact

(* The use each holder makes of a surface. *)
LEMMA UsesOf ==
  ASSUME NEW s \in AllSlots, Counted
  PROVE  /\ Exact(s) /\ users[s] \in Nat
         /\ RefUses(refs, s) \in Nat /\ RefUses(shown, s) \in Nat
         /\ users[s] >= RefUses(refs, s) + RefUses(shown, s)
         /\ returned = s => users[s] > 0
         /\ picture = s => users[s] > 0
         /\ \A i \in RefIdx : refs[i] = s => RefUses(refs, s) > 0
         /\ \A i \in RefIdx : shown[i] = s => RefUses(shown, s) > 0
<1>1. Exact(s) /\ users[s] \in Nat
  BY ExactEverywhere DEF Counted, Typed, TypeOK
<1> DEFINE a == RefUses(refs, s)
           b == RefUses(shown, s)
           c == One(returned = s)
           d == One(picture = s)
           e == One(index # None /\ shown[index] = s)
<1>2. a \in Nat /\ b \in Nat
  BY RefUsesNat
<1>3. c \in 0..1 /\ d \in 0..1 /\ e \in 0..1 /\ (returned = s => c = 1) /\ (picture = s => d = 1)
  BY DEF One
<1>4. users[s] = a + b + c + d + e
  BY <1>1, UsesParts DEF Exact
<1>5. /\ \A i \in RefIdx : refs[i] = s => a # 0
      /\ \A i \in RefIdx : shown[i] = s => b # 0
  BY RefUsesType
<1> HIDE DEF a, b, c, d, e
<1>6. /\ users[s] >= a + b
      /\ returned = s => users[s] > 0
      /\ picture = s => users[s] > 0
      /\ \A i \in RefIdx : refs[i] = s => a > 0
      /\ \A i \in RefIdx : shown[i] = s => b > 0
  BY <1>2, <1>3, <1>4, <1>5
<1> QED
  BY <1>1, <1>2, <1>6 DEF a, b

(* What a holder keeps has a user, and its slot is taken. *)
LEMMA HeldIsUsed ==
  ASSUME Counted, NEW s \in AllSlots,
         s \in {returned, picture} \/ \E i \in RefIdx : s \in {refs[i], shown[i]}
  PROVE  users[s] > 0 /\ s \in inUse
<1>1. users[s] > 0
  BY UsesOf
<1> QED
  BY <1>1, UsesOf DEF Exact

(* Reference slot i gets surfaces d and t: the uses it moves.              *)
LEMMA StoreCounted ==
  ASSUME Counted, NEW i \in RefIdx, NEW d \in AllSlots, NEW t \in AllSlots,
         StoreSlot(i, d, t), d \in inUse, t \in inUse,
         {target, dtarget} \ {None} \subseteq {d, t},
         UNCHANGED <<returned, picture, index, target, dtarget>>,
         index # i
  PROVE  \A s \in AllSlots : Exact(s)'
<1> SUFFICES ASSUME NEW s \in AllSlots PROVE Exact(s)'
  OBVIOUS
<1> DEFINE o == refs[i]
           p == shown[i]
           u == Retain(Retain(users, d), t)
<1>1. /\ users \in [AllSlots -> Nat] /\ inUse \in SUBSET AllSlots
      /\ refs \in [RefIdx -> AllSlots \cup {None}] /\ shown \in [RefIdx -> AllSlots \cup {None}]
      /\ o \in AllSlots \cup {None} /\ p \in AllSlots \cup {None}
      /\ index \in RefIdx \cup {None}
  BY DEF Counted, Typed, TypeOK
<1>2. LetGo(u, <<o, p>>) /\ refs' = [refs EXCEPT ![i] = d] /\ shown' = [shown EXCEPT ![i] = t]
  BY DEF StoreSlot
<1>3. /\ u \in [AllSlots -> Nat]
      /\ \A x \in AllSlots : u[x] = users[x] + One(x = d) + One(x = t)
  <2>1. u \in [AllSlots -> Nat]
    BY <1>1, RetainType
  <2> QED
    BY <1>1, <2>1 DEF Retain, One
<1> HIDE DEF u
<1>4. \A x \in AllSlots : users[x] >= One(x = o) + One(x = p)
  <2> TAKE x \in AllSlots
  <2>1. /\ users[x] \in Nat /\ RefUses(refs, x) \in Nat /\ RefUses(shown, x) \in Nat
        /\ users[x] >= RefUses(refs, x) + RefUses(shown, x)
        /\ o = x => RefUses(refs, x) > 0
        /\ p = x => RefUses(shown, x) > 0
    BY UsesOf
  <2> QED
    BY <2>1 DEF One
<1>5. \A x \in AllSlots : u[x] >= One(x = o) + One(x = p)
  <2> TAKE x \in AllSlots
  <2>1. u[x] >= users[x] /\ users[x] \in Nat /\ u[x] \in Nat
    BY <1>1, <1>3 DEF One
  <2> QED
    BY <1>4, <2>1 DEF One
<1>6. /\ users'[s] = u[s] - One(s = o) - One(s = p)
      /\ s \in inUse' <=> s \in inUse /\ ~((s = o \/ s = p) /\ users'[s] = 0)
  BY <1>1, <1>2, <1>3, <1>5, LetGoEffect
<1>7. users'[s] = users[s] + One(s = d) + One(s = t) - One(s = o) - One(s = p)
  BY <1>1, <1>3, <1>6 DEF One
<1>8. /\ RefUses(refs', s) = RefUses(refs, s) + One(s = d) - One(s = o)
      /\ RefUses(shown', s) = RefUses(shown, s) + One(s = t) - One(s = p)
  <2>1. Moved(refs, refs', i, d, s) /\ Moved(shown, shown', i, t, s)
    BY <1>1, <1>2, RefUsesMove, Zenon
  <2> QED
    BY <2>1 DEF Moved
<1>9. (index' # None /\ shown'[index'] = s) <=> (index # None /\ shown[index] = s)
  BY <1>1, <1>2
<1> HIDE DEF o, p
<1>10. /\ users[s] \in Nat /\ RefUses(refs, s) \in Nat /\ RefUses(shown, s) \in Nat
       /\ One(s = d) \in 0..1 /\ One(s = t) \in 0..1
       /\ One(s = o) \in 0..1 /\ One(s = p) \in 0..1
       /\ users[s] >= One(s = o) + One(s = p)
  BY <1>1, <1>4, RefUsesNat DEF One
<1>11. users'[s] = Uses(s)'
  <2> DEFINE x == One(returned = s)
             y == One(picture = s)
             z == One(index # None /\ shown[index] = s)
  <2>1. x \in 0..1 /\ y \in 0..1 /\ z \in 0..1
    BY DEF One
  <2>2. users[s] = RefUses(refs, s) + RefUses(shown, s) + x + y + z
    BY UsesOf, UsesParts DEF Exact
  <2>3. Uses(s)' = RefUses(refs', s) + RefUses(shown', s) + x + y + z
    <3>1. /\ One(returned' = s) = x /\ One(picture' = s) = y
          /\ One(index' # None /\ shown'[index'] = s) = z
      BY <1>9 DEF One
    <3> QED
      BY <3>1, UsesParts
  <2> HIDE DEF x, y, z
  <2> QED
    BY <1>7, <1>8, <1>10, <2>1, <2>2, <2>3
<1>12. s \in inUse' <=> users'[s] > 0 \/ s \in {target', dtarget'}
  <2>1. s \in inUse <=> users[s] > 0 \/ s \in {target, dtarget}
    BY UsesOf DEF Exact
  <2>2. CASE s = d \/ s = t
    <3>1. One(s = d) + One(s = t) > 0
      BY <2>2 DEF One
    <3>2. users'[s] > 0
      BY <1>7, <1>10, <3>1
    <3> QED
      BY <1>6, <2>2, <3>2
  <2>3. CASE s # d /\ s # t
    <3>1. One(s = d) = 0 /\ One(s = t) = 0 /\ s \notin {target, dtarget}
      BY <2>3, NoneNoSlot DEF One
    <3>2. users'[s] = users[s] - One(s = o) - One(s = p)
      BY <1>7, <1>10, <3>1
    <3>3. s # o /\ s # p => One(s = o) = 0 /\ One(s = p) = 0
      BY DEF One
    <3> QED
      BY <1>6, <1>10, <2>1, <3>1, <3>2, <3>3
  <2> QED
    BY <2>2, <2>3
<1> QED
  BY <1>11, <1>12 DEF Exact

-----------------------------------------------------------------------------
(* As many surfaces as a frame needs are free when it needs them.          *)

(* The surfaces of the reference slots are at most as many as the slots.   *)
LEMMA RangeBound ==
  ASSUME NEW r
  PROVE  /\ IsFiniteSet({r[i] : i \in RefIdx})
         /\ Cardinality({r[i] : i \in RefIdx}) \in Nat
         /\ Cardinality({r[i] : i \in RefIdx}) <= REFS
<1> DEFINE T == {r[i] : i \in RefIdx}
           f == [i \in RefIdx |-> r[i]]
<1>1. f \in Surjection(RefIdx, T)
  BY DEF Surjection
<1> HIDE DEF f
<1>2. IsFiniteSet(T) /\ Cardinality(T) <= Cardinality(RefIdx)
  BY <1>1, RefAssumption, FS_Surjection
<1> QED
  BY <1>2, FS_CardinalityType DEF REFS

LEMMA UnionBound ==
  ASSUME NEW S, NEW T, IsFiniteSet(S), IsFiniteSet(T)
  PROVE  /\ IsFiniteSet(S \cup T)
         /\ Cardinality(S \cup T) \in Nat
         /\ Cardinality(S \cup T) <= Cardinality(S) + Cardinality(T)
<1>1. Cardinality(S \cup T) = Cardinality(S) + Cardinality(T) - Cardinality(S \cap T)
      /\ IsFiniteSet(S \cup T)
  BY FS_Union
<1>2. IsFiniteSet(S \cap T)
  BY FS_Subset
<1>3. Cardinality(S) \in Nat /\ Cardinality(T) \in Nat /\ Cardinality(S \cap T) \in Nat
      /\ Cardinality(S \cup T) \in Nat
  BY <1>1, <1>2, FS_CardinalityType
<1> QED
  BY <1>1, <1>3

LEMMA DifferenceBound ==
  ASSUME NEW S, NEW T, IsFiniteSet(S), IsFiniteSet(T)
  PROVE  /\ IsFiniteSet(S \ T)
         /\ Cardinality(S \ T) \in Nat
         /\ Cardinality(S \ T) >= Cardinality(S) - Cardinality(T)
<1>1. Cardinality(S \ T) = Cardinality(S) - Cardinality(S \cap T) /\ IsFiniteSet(S \ T)
  BY FS_Difference
<1>2. IsFiniteSet(S \cap T) /\ Cardinality(S \cap T) <= Cardinality(T)
  BY FS_Subset
<1>3. Cardinality(S) \in Nat /\ Cardinality(T) \in Nat /\ Cardinality(S \cap T) \in Nat
      /\ Cardinality(S \ T) \in Nat
  BY <1>1, <1>2, FS_CardinalityType
<1> QED
  BY <1>1, <1>2, <1>3

LEMMA EnoughFree ==
  ASSUME Counted, pc = "decode", requirements # None
  PROVE  Cardinality(FreeSlots) >= IF requirements \in Grain THEN 2 ELSE 1
<1> DEFINE n == Surfaces(requirements)
           S == 0..(n - 1)
           A == {refs[i] : i \in RefIdx}
           B == {shown[i] : i \in RefIdx}
           T == (A \cup B) \cup {picture}
<1>1. /\ REFS \in Nat /\ n \in Nat /\ n <= 2 * (REFS + 1) + 1
      /\ requirements \in Grain => n = 2 * REFS + 3
      /\ requirements \notin Grain => n = REFS + 2
  BY RefsNat DEF Surfaces
<1>2. session = requirements /\ target = None /\ dtarget = None /\ returned = None /\ index = None
  BY DEF Counted, Typed, Agreed, Locals
<1>3. inUse \subseteq T
  <2> SUFFICES ASSUME NEW s \in inUse, s \notin T PROVE FALSE
    OBVIOUS
  <2>1. s \in AllSlots
    BY DEF Counted, Typed, TypeOK
  <2>2. RefUses(refs, s) = 0 /\ RefUses(shown, s) = 0
    BY RefUsesType
  <2>3. Uses(s) = 0
    BY <1>2, <2>1, <2>2, UsesParts, NoneNoSlot DEF One
  <2>4. Exact(s)
    BY <2>1, UsesOf
  <2> QED
    BY <1>2, <2>1, <2>3, <2>4, NoneNoSlot DEF Exact
<1>4. FreeSlots = S \ inUse
  <2>1. \A s : s \in AllSlots /\ s < n <=> s \in S
    BY <1>1 DEF AllSlots
  <2> QED
    BY <1>2, <2>1 DEF FreeSlots
<1>5. IsFiniteSet(S) /\ Cardinality(S) = n
  <2> HIDE DEF n
  <2>1. 0 \in Int /\ n - 1 \in Int /\ n > 0
    BY <1>1
  <2>2. IsFiniteSet(S) /\ Cardinality(S) = IF 0 > n - 1 THEN 0 ELSE n - 1 - 0 + 1
    BY <2>1, FS_Interval
  <2> HIDE DEF S
  <2> QED
    BY <1>1, <2>1, <2>2
<1>6. /\ IsFiniteSet(A) /\ Cardinality(A) \in Nat /\ Cardinality(A) <= REFS
      /\ IsFiniteSet(B) /\ Cardinality(B) \in Nat /\ Cardinality(B) <= REFS
  BY RangeBound
<1>7. requirements \notin Grain => A = B
  BY DEF Counted, Plain
<1>8. IsFiniteSet({picture}) /\ Cardinality({picture}) = 1
  BY FS_Singleton
<1> HIDE DEF n, S, A, B
<1>9. /\ IsFiniteSet(A \cup B) /\ Cardinality(A \cup B) \in Nat
      /\ Cardinality(A \cup B) <= Cardinality(A) + Cardinality(B)
  BY <1>6, UnionBound
<1>10. requirements \notin Grain => Cardinality(A \cup B) <= REFS
  <2>1. A = B => A \cup B = A
    OBVIOUS
  <2> QED
    BY <1>6, <1>7, <2>1
<1>11. /\ IsFiniteSet(T) /\ Cardinality(T) \in Nat
       /\ Cardinality(T) <= Cardinality(A \cup B) + 1
  BY <1>8, <1>9, UnionBound
<1> HIDE DEF T
<1>12. Cardinality(S \ T) >= Cardinality(S) - Cardinality(T)
  BY <1>5, <1>11, DifferenceBound
<1>13. /\ Cardinality(S \ T) \in Nat /\ Cardinality(FreeSlots) \in Nat
       /\ Cardinality(S \ T) <= Cardinality(FreeSlots)
  <2>1. S \ T \in SUBSET FreeSlots /\ IsFiniteSet(FreeSlots) /\ IsFiniteSet(S \ T)
    BY <1>3, <1>4, <1>5, FS_Subset
  <2> QED
    BY <2>1, FS_Subset, FS_CardinalityType
<1> DEFINE f == Cardinality(FreeSlots)
           e == Cardinality(S \ T)
           t == Cardinality(T)
           ab == Cardinality(A \cup B)
<1>14. /\ e >= n - t /\ e <= f /\ t <= ab + 1 /\ e \in Nat /\ f \in Nat /\ t \in Nat /\ ab \in Nat
       /\ n \in Nat /\ REFS \in Nat
       /\ ab <= REFS + REFS
       /\ requirements \notin Grain => ab <= REFS
  BY <1>1, <1>5, <1>6, <1>9, <1>10, <1>11, <1>12, <1>13
<1> HIDE DEF f, e, t, ab
<1>15. CASE requirements \in Grain
  BY <1>1, <1>14, <1>15 DEF f
<1>16. CASE requirements \notin Grain
  BY <1>1, <1>14, <1>16 DEF f
<1> QED
  BY <1>15, <1>16

-----------------------------------------------------------------------------
(* The exact counts, step by step.                                         *)

LEMMA InitCounted == Init => Counted
<1> SUFFICES ASSUME Init PROVE Counted
  OBVIOUS
<1>1. Typed
  BY InitTyped
<1>2. Complete /\ GrainServed /\ Plain /\ FreshTarget /\ NeverStarved
  BY DEF Init, Complete, GrainServed, Plain, FreshTarget, NeverStarved
<1>3. ASSUME NEW s \in AllSlots PROVE Exact(s)
  <2>1. RefUses(refs, s) = 0 /\ RefUses(shown, s) = 0
    BY RefUsesType, NoneNoSlot DEF Init
  <2>2. Uses(s) = 0
    BY <2>1, UsesParts, NoneNoSlot DEF Init, One
  <2> QED
    BY <2>2, NoneNoSlot DEF Init, Exact
<1> QED
  BY <1>1, <1>2, <1>3, ExactEverywhere DEF Counted

(* A new session has no users and no slot taken. *)
LEMMA RestartCounted ==
  ASSUME NEW r \in Reqs, Restart(r), picture' = None, index' = None,
         target' = None, dtarget' = None
  PROVE  \A s \in AllSlots : Exact(s)'
<1> SUFFICES ASSUME NEW s \in AllSlots PROVE Exact(s)'
  OBVIOUS
<1>1. RefUses(refs', s) = 0 /\ RefUses(shown', s) = 0
  BY RefUsesType, NoneNoSlot DEF Restart
<1>2. Uses(s)' = 0
  BY <1>1, UsesParts, NoneNoSlot DEF Restart, One
<1> QED
  BY <1>2, NoneNoSlot DEF Restart, Exact

(* A step that moves no surface, other than from the frame to return to    *)
(* the frame returned.                                                     *)
LEMMA UsesSame ==
  ASSUME NEW s \in AllSlots, Exact(s), UNCHANGED <<users, refs, shown, index>>,
         \/ UNCHANGED <<returned, picture>>
         \/ returned = None /\ returned' = picture /\ picture' = None
  PROVE  users'[s] = Uses(s)'
<1> DEFINE a == RefUses(refs, s)
           b == RefUses(shown, s)
           c == One(returned = s)
           d == One(picture = s)
           e == One(index # None /\ shown[index] = s)
<1>1. users[s] = a + b + c + d + e
  BY UsesParts DEF Exact
<1>2. Uses(s)' = a + b + One(returned' = s) + One(picture' = s) + e
  <2>1. /\ RefUses(refs', s) = a /\ RefUses(shown', s) = b
        /\ One(index' # None /\ shown'[index'] = s) = e
    BY DEF One
  <2> QED
    BY <2>1, UsesParts
<1>3. a \in Nat /\ b \in Nat /\ c \in 0..1 /\ d \in 0..1 /\ e \in 0..1
  BY RefUsesNat DEF One
<1>4. \/ One(returned' = s) = c /\ One(picture' = s) = d
      \/ c = 0 /\ One(returned' = s) = d /\ One(picture' = s) = 0
  BY NoneNoSlot DEF One
<1> HIDE DEF a, b, c, d, e
<1> QED
  BY <1>1, <1>2, <1>3, <1>4

LEMMA SameExact ==
  ASSUME NEW s \in AllSlots, Exact(s),
         UNCHANGED <<users, inUse, refs, shown, index>>,
         \/ UNCHANGED <<returned, picture>>
         \/ returned = None /\ returned' = picture /\ picture' = None,
         UNCHANGED <<target, dtarget>>
  PROVE  Exact(s)'
<1>1. users'[s] = Uses(s)'
  BY UsesSame
<1> QED
  BY <1>1 DEF Exact

(* One use of surface o goes, or none does. *)
LEMMA DropEffect ==
  ASSUME Counted, NEW o \in {returned, picture}, LetGo(users, <<o, None>>),
         NEW s \in AllSlots
  PROVE  /\ users'[s] = users[s] - One(s = o)
         /\ s \in inUse' <=> s \in inUse /\ ~(s = o /\ users'[s] = 0)
<1>1. /\ users \in [AllSlots -> Nat] /\ inUse \in SUBSET AllSlots
      /\ o \in AllSlots \cup {None}
  BY DEF Counted, Typed, TypeOK
<1>2. \A x \in AllSlots : users[x] >= One(x = o) + One(x = None)
  <2> TAKE x \in AllSlots
  <2>1. users[x] \in Nat /\ (x = o => users[x] > 0)
    BY UsesOf
  <2> QED
    BY <2>1, NoneNoSlot DEF One
<1>3. /\ users'[s] = users[s] - One(s = o) - One(s = None)
      /\ s \in inUse' <=> s \in inUse /\ ~((s = o \/ s = None) /\ users'[s] = 0)
  BY <1>1, <1>2, LetGoEffect
<1> QED
  BY <1>1, <1>3, NoneNoSlot DEF One

(* decode() lets go of the picture last returned. *)
LEMMA DecodeExact ==
  ASSUME Counted, NEW n \in 0..MaxObus, Decode(n), NEW s \in AllSlots
  PROVE  Exact(s)'
<1>1. /\ LetGo(users, <<returned, None>>) /\ returned' = None
      /\ UNCHANGED <<refs, shown, index, picture, target, dtarget>>
      /\ target = None /\ dtarget = None
  BY DEF Decode, Counted, Typed, Locals
<1>2. /\ users'[s] = users[s] - One(s = returned)
      /\ s \in inUse' <=> s \in inUse /\ ~(s = returned /\ users'[s] = 0)
  BY <1>1, DropEffect
<1> DEFINE a == RefUses(refs, s)
           b == RefUses(shown, s)
           c == One(returned = s)
           d == One(picture = s)
           e == One(index # None /\ shown[index] = s)
<1>3. users[s] = a + b + c + d + e
  BY UsesOf, UsesParts DEF Exact
<1>4. Uses(s)' = a + b + One(returned' = s) + d + e
  BY <1>1, UsesParts
<1>5. a \in Nat /\ b \in Nat /\ c \in 0..1 /\ d \in 0..1 /\ e \in 0..1
      /\ One(returned' = s) = 0 /\ One(s = returned) = c
  BY <1>1, RefUsesNat, NoneNoSlot DEF One
<1>6. s # returned => c = 0
  BY DEF One
<1>7. s \in inUse <=> users[s] > 0
  BY <1>1, UsesOf, NoneNoSlot DEF Exact
<1> HIDE DEF a, b, c, d, e
<1>8. users'[s] = Uses(s)' /\ users[s] \in Nat /\ users'[s] = users[s] - c
  BY <1>2, <1>3, <1>4, <1>5
<1>9. s \in inUse' <=> users'[s] > 0
  BY <1>2, <1>5, <1>6, <1>7, <1>8, <1>3
<1> QED
  BY <1>1, <1>8, <1>9, NoneNoSlot DEF Exact

(* decode_frame() took surfaces that nobody used. *)
LEMMA AcquireExact ==
  ASSUME Counted, NEW s \in AllSlots,
         target' \in FreeSlots, dtarget' \in (FreeSlots \ {target'}) \cup {None},
         inUse' = inUse \cup ({target', dtarget'} \ {None}), pc = "decode",
         UNCHANGED <<users, refs, shown, returned, picture, index>>
  PROVE  Exact(s)'
<1>1. Exact(s) /\ target = None /\ dtarget = None
  BY UsesOf DEF Counted, Typed, Locals
<1>2. users'[s] = Uses(s)'
  BY <1>1, UsesSame
<1>3. s \in inUse <=> users[s] > 0
  BY <1>1, NoneNoSlot DEF Exact
<1>4. s \in inUse' <=> users'[s] > 0 \/ s \in {target', dtarget'}
  BY <1>3, NoneNoSlot DEF FreeSlots
<1> QED
  BY <1>2, <1>4 DEF Exact

(* The surfaces of a frame that failed go back. *)
LEMMA SubmitFailsExact ==
  ASSUME Conforming, Counted, SubmitFails, NEW s \in AllSlots
  PROVE  Exact(s)'
<1>1. /\ inUse' = inUse \ {target, dtarget} /\ UNCHANGED <<users, refs, shown, returned>>
      /\ target' = None /\ dtarget' = None /\ picture = None /\ picture' = None
      /\ index = None /\ index' = None /\ pc = "submit"
  BY DEF SubmitFails, Return, MayFail, Counted, Typed, Locals
<1>2. Exact(s) /\ users[s] \in Nat
  BY UsesOf
<1>3. users'[s] = Uses(s)'
  BY <1>1, <1>2, UsesSame
<1>4. s \in {target, dtarget} => users[s] = 0
  BY <1>1, NoneNoSlot DEF Counted, FreshTarget
<1>5. s \in inUse' <=> users'[s] > 0
  BY <1>1, <1>2, <1>4 DEF Exact
<1> QED
  BY <1>1, <1>3, <1>5, NoneNoSlot DEF Exact

(* state.update(), settle() and `shown.replace`: the shown frame gets its  *)
(* user, the one it replaces loses its.                                    *)
LEMMA FinishFrameExact ==
  ASSUME Counted, FinishFrame, NEW s \in AllSlots
  PROVE  Exact(s)'
<1>1. /\ target \in AllSlots /\ target' = None /\ dtarget' = None
      /\ ToShow \in {target, dtarget} /\ ToShow \in AllSlots
      /\ picture \in AllSlots \cup {None} /\ users \in [AllSlots -> Nat]
      /\ UNCHANGED <<refs, shown, returned, index>>
  BY DEF FinishFrame, ToShow, Counted, Typed, TypeOK, Locals
<1>2. Exact(s) /\ users[s] \in Nat
  BY UsesOf
<1>3. CASE ~pending.hdr.show
  <2>1. UNCHANGED <<users, picture>>
        /\ inUse' = {x \in inUse : x \in {target, dtarget} => users[x] > 0}
    BY <1>3 DEF FinishFrame
  <2>2. users'[s] = Uses(s)'
    BY <1>1, <1>2, <2>1, UsesSame
  <2>3. s \in inUse' <=> users'[s] > 0
    BY <1>2, <2>1 DEF Exact
  <2> QED
    BY <1>1, <2>2, <2>3, NoneNoSlot DEF Exact
<1>4. CASE pending.hdr.show
  <2>1. /\ users' = Less(Retain(users, ToShow), picture) /\ picture' = ToShow
        /\ inUse' = {x \in inUse : x \in {picture, target, dtarget} => users'[x] > 0}
    BY <1>4 DEF FinishFrame
  <2> DEFINE t == ToShow
             u == Retain(users, t)
  <2>2. /\ u \in [AllSlots -> Nat]
        /\ \A x \in AllSlots : u[x] = users[x] + One(x = t)
    BY <1>1, RetainType DEF Retain, One
  <2> HIDE DEF u, t
  <2>3. picture # None => u[picture] > 0
    <3> SUFFICES ASSUME picture # None PROVE u[picture] > 0
      OBVIOUS
    <3>1. picture \in AllSlots /\ users[picture] > 0 /\ users[picture] \in Nat
      BY <1>1, UsesOf
    <3> QED
      BY <2>2, <3>1 DEF One
  <2>4. users'[s] = u[s] - One(s = picture)
    BY <1>1, <2>1, <2>2, <2>3, LessEffect DEF u, t
  <2> DEFINE a == RefUses(refs, s)
             b == RefUses(shown, s)
             c == One(returned = s)
             d == One(picture = s)
             e == One(index # None /\ shown[index] = s)
             g == One(s = t)
  <2>5. users[s] = a + b + c + d + e
    BY <1>2, UsesParts DEF Exact
  <2>6. Uses(s)' = a + b + c + One(picture' = s) + e
    BY <1>1, UsesParts
  <2>7. /\ a \in Nat /\ b \in Nat /\ c \in 0..1 /\ d \in 0..1 /\ e \in 0..1 /\ g \in 0..1
        /\ One(picture' = s) = g /\ One(s = picture) = d
        /\ s # picture => d = 0
        /\ s # t => g = 0
    BY <2>1, RefUsesNat DEF One, t
  <2>8. u[s] = users[s] + g
    BY <2>2
  <2>9. s \in inUse <=> users[s] > 0 \/ s \in {target, dtarget}
    BY <1>2 DEF Exact
  <2>10. s = t => s \in {target, dtarget}
    BY <1>1 DEF t
  <2>11. s = picture => users[s] > 0
    BY UsesOf
  <2> HIDE DEF a, b, c, d, e, g
  <2>12. users'[s] = Uses(s)' /\ users'[s] = users[s] + g - d
    BY <1>2, <2>4, <2>5, <2>6, <2>7, <2>8
  <2>13. s \in inUse' <=> users'[s] > 0
    <3>1. CASE s \in {picture, target, dtarget}
      BY <2>1, <2>9, <2>11, <3>1
    <3>2. CASE s \notin {picture, target, dtarget}
      <4>1. g = 0 /\ d = 0
        BY <2>7, <2>10, <3>2
      <4> QED
        BY <1>2, <2>1, <2>9, <2>12, <3>2, <4>1
    <3> QED
      BY <3>1, <3>2
  <2> QED
    BY <1>1, <2>12, <2>13, NoneNoSlot DEF Exact
<1> QED
  BY <1>3, <1>4

(* show_existing() uses the surface it shows for itself... *)
LEMMA ShowExact ==
  ASSUME Counted, NEW i \in RefIdx, NEW key \in BOOLEAN, ShowExisting(i, key),
         NEW s \in AllSlots
  PROVE  Exact(s)'
<1>1. /\ users' = Retain(users, shown[i]) /\ index' = i /\ index = None
      /\ shown[i] \in AllSlots /\ users \in [AllSlots -> Nat] /\ i # None
      /\ UNCHANGED <<inUse, refs, shown, returned, picture, target, dtarget>>
  BY NoneNoIndex DEF ShowExisting, Counted, Typed, TypeOK, Locals
<1> DEFINE a == RefUses(refs, s)
           b == RefUses(shown, s)
           c == One(returned = s)
           d == One(picture = s)
           e == One(index' # None /\ shown'[index'] = s)
<1>2. users[s] = a + b + c + d + One(index # None /\ shown[index] = s)
  BY UsesOf, UsesParts DEF Exact
<1>3. Uses(s)' = a + b + c + d + e
  BY <1>1, UsesParts
<1>4. users'[s] = users[s] + One(s = shown[i])
  BY <1>1 DEF Retain, One
<1>5. /\ a \in Nat /\ b \in Nat /\ c \in 0..1 /\ d \in 0..1 /\ e \in 0..1
      /\ One(s = shown[i]) = e /\ One(index # None /\ shown[index] = s) = 0
      /\ s # shown[i] => e = 0
  BY <1>1, RefUsesNat DEF One
<1>6. s = shown[i] => users[s] > 0
  BY HeldIsUsed
<1>7. users[s] \in Nat /\ (s \in inUse <=> users[s] > 0 \/ s \in {target, dtarget})
  BY UsesOf DEF Exact
<1> HIDE DEF a, b, c, d, e
<1>8. users'[s] = Uses(s)' /\ users'[s] = users[s] + e
  BY <1>2, <1>3, <1>4, <1>5
<1>9. users'[s] > 0 <=> users[s] > 0
  BY <1>5, <1>6, <1>7, <1>8
<1> QED
  BY <1>1, <1>7, <1>8, <1>9 DEF Exact

(* ... until it is the frame to return, in place of the one there was. *)
LEMMA FinishShowExact ==
  ASSUME Counted, FinishShow, NEW s \in AllSlots
  PROVE  Exact(s)'
<1>1. /\ LetGo(users, <<picture, None>>) /\ picture' = shown[index]
      /\ index # None /\ index' = None /\ target = None /\ dtarget = None
      /\ UNCHANGED <<refs, shown, returned, target, dtarget>>
  BY DEF FinishShow, Counted, Typed, Locals
<1>2. /\ users'[s] = users[s] - One(s = picture)
      /\ s \in inUse' <=> s \in inUse /\ ~(s = picture /\ users'[s] = 0)
  BY <1>1, DropEffect
<1> DEFINE a == RefUses(refs, s)
           b == RefUses(shown, s)
           c == One(returned = s)
           d == One(picture = s)
           e == One(picture' = s)
<1>3. users[s] = a + b + c + d + One(index # None /\ shown[index] = s)
  BY UsesOf, UsesParts DEF Exact
<1>4. Uses(s)' = a + b + c + e + One(index' # None /\ shown'[index'] = s)
  BY <1>1, UsesParts
<1>5. /\ a \in Nat /\ b \in Nat /\ c \in 0..1 /\ d \in 0..1 /\ e \in 0..1
      /\ One(s = picture) = d
      /\ One(index # None /\ shown[index] = s) = e
      /\ One(index' # None /\ shown'[index'] = s) = 0
      /\ s # picture => d = 0
  BY <1>1, RefUsesNat DEF One
<1>6. users[s] \in Nat /\ (s \in inUse <=> users[s] > 0)
  BY <1>1, UsesOf, NoneNoSlot DEF Exact
<1> HIDE DEF a, b, c, d, e
<1>7. users'[s] = Uses(s)' /\ users'[s] = users[s] - d
  BY <1>2, <1>3, <1>4, <1>5
<1>8. s \in inUse' <=> users'[s] > 0
  BY <1>2, <1>3, <1>5, <1>6, <1>7
<1> QED
  BY <1>1, <1>7, <1>8, NoneNoSlot DEF Exact

LEMMA OuterExact ==
  ASSUME Conforming, Counted,
         \/ \E r \in Reqs : Prepare(r) \/ SequenceHeader(r)
         \/ \E n \in 0..MaxObus : Decode(n)
         \/ RejectObu \/ EndUnit \/ UNCHANGED vars
  PROVE  \A s \in AllSlots : Exact(s)'
<1>1. \A s \in AllSlots : Exact(s)
  BY ExactEverywhere DEF Counted
<1>2. Locals /\ Complete
  BY DEF Counted, Typed
<1>3. ASSUME NEW r \in Reqs, Prepare(r), NEW s \in AllSlots PROVE Exact(s)'
  <2>1. UNCHANGED <<picture, index, target, dtarget>> /\ pc = "idle"
    BY <1>3 DEF Prepare, locals
  <2>2. CASE Restart(r)
    BY <1>2, <2>1, <2>2, RestartCounted DEF Locals
  <2>3. CASE UNCHANGED <<pool, state, inUse, users, refs, shown, returned>>
    BY <1>1, <2>1, <2>3, SameExact
  <2> QED
    BY <1>3, <2>2, <2>3 DEF Prepare
<1>4. ASSUME NEW r \in Reqs, SequenceHeader(r), NEW s \in AllSlots PROVE Exact(s)'
  <2>1. /\ picture = None /\ index = None /\ target = None /\ dtarget = None
        /\ UNCHANGED <<picture, index, target, dtarget>>
    BY <1>2, <1>4 DEF SequenceHeader, Return, Locals
  <2>2. CASE Restart(r)
    BY <2>1, <2>2, RestartCounted
  <2>3. CASE UNCHANGED <<pool, state, inUse, users, refs, shown, returned>>
    BY <1>1, <2>1, <2>3, SameExact
  <2> QED
    BY <1>4, <2>2, <2>3 DEF SequenceHeader
<1>5. ASSUME NEW n \in 0..MaxObus, Decode(n), NEW s \in AllSlots PROVE Exact(s)'
  BY <1>5, DecodeExact
<1>6. ASSUME RejectObu, NEW s \in AllSlots PROVE Exact(s)'
  <2>1. /\ picture = None /\ index = None /\ target = None /\ dtarget = None
        /\ UNCHANGED <<picture, index, target, dtarget, users, inUse, refs, shown, returned>>
    BY <1>2, <1>6 DEF RejectObu, MayFail, Return, Locals
  <2> QED
    BY <1>1, <2>1, SameExact
<1>7. ASSUME EndUnit, NEW s \in AllSlots PROVE Exact(s)'
  <2>1. /\ index = None /\ target = None /\ dtarget = None /\ returned = None
        /\ UNCHANGED <<index, target, dtarget, users, inUse, refs, shown>>
        /\ picture' = None
    BY <1>2, <1>7 DEF EndUnit, Return, Locals
  <2>2. returned' = picture
    BY <1>2, <1>7, <2>1 DEF EndUnit, Complete
  <2> QED
    BY <1>1, <2>1, <2>2, SameExact
<1>8. ASSUME UNCHANGED vars, NEW s \in AllSlots PROVE Exact(s)'
  BY <1>1, <1>8, SameExact DEF vars, locals
<1> QED
  BY <1>3, <1>4, <1>5, <1>6, <1>7, <1>8

LEMMA FrameExact ==
  ASSUME Conforming, Counted,
         \/ \E h \in Headers, last \in -1..(MaxTiles - 1) : FrameHeader(h, last)
         \/ \E first, last \in 0..(MaxTiles - 1) : TileGroup(first, last)
         \/ (Acquire /\ result' # "starved") \/ SubmitFails \/ Submitted
  PROVE  \A s \in AllSlots : Exact(s)'
<1>1. \A s \in AllSlots : Exact(s)
  BY ExactEverywhere DEF Counted
<1>2. TypeOK /\ Locals /\ FreshTarget
  BY DEF Counted, Typed
<1>3. ASSUME NEW h, NEW last, FrameHeader(h, last), NEW s \in AllSlots PROVE Exact(s)'
  BY <1>1, <1>3, SameExact DEF FrameHeader
<1>4. ASSUME NEW first, NEW last, TileGroup(first, last), NEW s \in AllSlots
      PROVE  Exact(s)'
  <2>1. UNCHANGED <<inUse, users, refs, shown, returned, target, dtarget, index, picture>>
    BY <1>4, Zenon DEF TileGroup
  <2> QED
    BY <1>1, <2>1, SameExact
<1>5. ASSUME Acquire, result' # "starved", NEW s \in AllSlots PROVE Exact(s)'
  <2>1. /\ target' \in FreeSlots
        /\ dtarget' \in (FreeSlots \ {target'}) \cup {None}
        /\ inUse' = inUse \cup ({target', dtarget'} \ {None})
        /\ UNCHANGED <<index, picture>>
    BY <1>2, <1>5, AcquireTakes DEF Return
  <2>2. pc = "decode" /\ UNCHANGED <<users, refs, shown, returned>>
    BY <1>5 DEF Acquire
  <2> QED
    BY <2>1, <2>2, AcquireExact
<1>6. ASSUME SubmitFails, NEW s \in AllSlots PROVE Exact(s)'
  BY <1>6, SubmitFailsExact
<1>7. ASSUME Submitted, NEW s \in AllSlots PROVE Exact(s)'
  <2>1. \A x \in AllSlots : x \in {target, dtarget} => users[x] = 0
    BY <1>2, <1>7, NoneNoSlot DEF Submitted, FreshTarget
  <2>2. users' = users
    BY <1>2, <1>7, <2>1 DEF Submitted, TypeOK
  <2> QED
    BY <1>1, <1>7, <2>2, SameExact DEF Submitted
<1> QED
  BY <1>3, <1>4, <1>5, <1>6, <1>7

LEMMA StoreExact ==
  ASSUME Counted,
         \/ \E i \in RefIdx : Store(i) \/ Load(i)
         \/ FinishFrame
         \/ \E i \in RefIdx, key \in BOOLEAN : ShowExisting(i, key)
         \/ FinishShow
  PROVE  \A s \in AllSlots : Exact(s)'
<1>1. TypeOK /\ Locals /\ Whole
  BY DEF Counted, Typed
<1>2. ASSUME NEW i \in RefIdx, Store(i) PROVE \A s \in AllSlots : Exact(s)'
  <2>1. /\ target \in AllSlots /\ ToShow \in AllSlots
        /\ {target, dtarget} \ {None} = {target, ToShow}
        /\ index = None /\ i # None
    BY <1>1, <1>2, NoneNoSlot, NoneNoIndex DEF Store, ToShow, TypeOK, Locals
  <2>2. target \in inUse /\ ToShow \in inUse
    BY <2>1, UsesOf, NoneNoSlot DEF Exact
  <2>3. /\ StoreSlot(i, target, ToShow)
        /\ UNCHANGED <<returned, picture, index, target, dtarget>>
    BY <1>2 DEF Store
  <2> QED
    BY <2>1, <2>2, <2>3, StoreCounted
<1>3. ASSUME NEW i \in RefIdx, Load(i) PROVE \A s \in AllSlots : Exact(s)'
  <2>1. /\ index \in RefIdx /\ index # i
        /\ refs[index] \in AllSlots /\ shown[index] \in AllSlots
        /\ target = None /\ dtarget = None
    BY <1>1, <1>3, NoneNoIndex DEF Load, TypeOK, Locals, Whole
  <2>2. refs[index] \in inUse /\ shown[index] \in inUse
    BY <2>1, HeldIsUsed
  <2>3. /\ StoreSlot(i, refs[index], shown[index])
        /\ UNCHANGED <<returned, picture, index, target, dtarget>>
    BY <1>3 DEF Load
  <2>4. {target, dtarget} \ {None} \subseteq {refs[index], shown[index]}
    BY <2>1
  <2> DEFINE d == refs[index]
             t == shown[index]
  <2> HIDE DEF d, t
  <2>5. /\ d \in AllSlots /\ t \in AllSlots /\ d \in inUse /\ t \in inUse
        /\ StoreSlot(i, d, t) /\ {target, dtarget} \ {None} \subseteq {d, t}
    BY <2>1, <2>2, <2>3, <2>4 DEF d, t
  <2> QED
    BY <2>1, <2>3, <2>5, StoreCounted
<1>4. ASSUME FinishFrame, NEW s \in AllSlots PROVE Exact(s)'
  BY <1>4, FinishFrameExact
<1>5. ASSUME NEW i \in RefIdx, NEW key \in BOOLEAN, ShowExisting(i, key), NEW s \in AllSlots
      PROVE  Exact(s)'
  BY <1>5, ShowExact
<1>6. ASSUME FinishShow, NEW s \in AllSlots PROVE Exact(s)'
  BY <1>6, FinishShowExact
<1> QED
  BY <1>2, <1>3, <1>4, <1>5, <1>6

-----------------------------------------------------------------------------
(* What a conforming unit keeps besides.                                   *)

(* decode_frame() finds its surfaces. *)
LEMMA AcquireFeeds ==
  ASSUME Counted, Acquire
  PROVE  /\ target' \in FreeSlots
         /\ dtarget' \in (FreeSlots \ {target'}) \cup {None}
         /\ dtarget' # None => requirements \in Grain
         /\ inUse' = inUse \cup ({target', dtarget'} \ {None})
         /\ pc' = "submit" /\ pc = "decode"
         /\ UNCHANGED <<left, pending, mask, index, picture, result>>
         /\ UNCHANGED <<pool, stream, users, refs, shown, returned>>
<1>1. /\ pc = "decode" /\ requirements # None /\ pending # None
      /\ UNCHANGED <<pool, stream, users, refs, shown, returned>>
  BY DEF Acquire, Counted, Typed, Locals
<1>2. pending.hdr.grain => requirements \in Grain
  BY <1>1 DEF Counted, GrainServed
<1>3. ~(Cardinality(FreeSlots) < (IF pending.hdr.grain THEN 2 ELSE 1))
  <2>1. Cardinality(FreeSlots) >= (IF requirements \in Grain THEN 2 ELSE 1)
    BY <1>1, EnoughFree
  <2>2. Cardinality(FreeSlots) \in Nat
    <3>1. FreeSlots \in SUBSET AllSlots /\ IsFiniteSet(AllSlots)
      BY RefsNat, FS_Interval DEF FreeSlots, AllSlots
    <3> QED
      BY <3>1, FS_Subset, FS_CardinalityType
  <2> QED
    BY <1>2, <2>1, <2>2
<1>4. TypeOK /\ Locals
  BY DEF Counted, Typed
<1> QED
  BY <1>1, <1>2, <1>3, <1>4, AcquireTakes

LEMMA NextConforming ==
  ASSUME Conforming, Counted, [Next]_vars
  PROVE  Complete' /\ GrainServed' /\ Plain' /\ FreshTarget' /\ NeverStarved'
<1> DEFINE Kept == Complete' /\ GrainServed' /\ Plain' /\ FreshTarget' /\ NeverStarved'
<1> USE RefAssumption, NoneNoSlot
    DEF Counted, Typed, Locals, Complete, GrainServed, Plain, FreshTarget, NeverStarved
<1>1. ASSUME NEW r \in Reqs, Prepare(r) PROVE Kept
  BY <1>1 DEF Prepare, Restart, pool, locals
<1>2. ASSUME NEW r \in Reqs, SequenceHeader(r) PROVE Kept
  BY <1>2 DEF SequenceHeader, Restart, Return, pool
<1>3. ASSUME NEW n \in 0..MaxObus, Decode(n) PROVE Kept
  BY <1>3 DEF Decode, pool
<1>4. CASE RejectObu \/ EndUnit \/ SubmitFails
  BY <1>4 DEF RejectObu, EndUnit, SubmitFails, Return, pool
<1>5. ASSUME NEW h \in Headers, NEW last \in -1..(MaxTiles - 1), FrameHeader(h, last)
      PROVE  Kept
  <2> DEFINE p == [hdr |-> h, got |-> Tiles(0, last), next |-> last + 1]
  <2>1. p.hdr = h /\ p.next = last + 1
    OBVIOUS
  <2>2. Collect(p) /\ (picture = None \/ last = h.tiles - 1) /\ (h.grain => sequence \in Grain)
    BY <1>5 DEF FrameHeader, MayFail
  <2>3. UNCHANGED <<pool, stream, inUse, users, refs, shown, returned, target, dtarget,
                    mask, index, picture, result>> /\ pc = "obus"
    BY <1>5 DEF FrameHeader
  <2>4. h.tiles \in Nat /\ last \in Int
    BY DEF Headers
  <2> HIDE DEF p
  <2>5. pending' = p /\ pc' \in {"decode", "obus"} /\ (pc' = "obus" => picture = None)
    BY <2>1, <2>2, <2>4 DEF Collect
  <2> QED
    BY <2>1, <2>2, <2>3, <2>5 DEF pool, Agreed
<1>6. ASSUME NEW first, NEW last, TileGroup(first, last) PROVE Kept
  <2> DEFINE p == [pending EXCEPT !.got = @ \o Tiles(first, last), !.next = last + 1]
  <2>1. Collect(p) /\ pc = "obus" /\ pending # None
        /\ UNCHANGED <<pool, stream, inUse, users, refs, shown, returned, target, dtarget,
                       mask, index, picture, result>>
    BY <1>6, Zenon DEF TileGroup
  <2>2. p.hdr = pending.hdr
    BY <2>1 DEF TypeOK, Pendings
  <2> HIDE DEF p
  <2>3. pending' = p /\ pc' \in {"decode", "obus"}
    BY <2>1 DEF Collect
  <2> QED
    BY <2>1, <2>2, <2>3 DEF pool
<1>7. CASE Acquire
  <2>1. users[target'] = 0 /\ (dtarget' # None => users[dtarget'] = 0)
    BY <1>7, AcquireFeeds DEF FreeSlots, PoolExact, TypeOK
  <2> QED
    BY <1>7, <2>1, AcquireFeeds DEF pool
<1>8. CASE Submitted
  BY <1>8 DEF Submitted, pool
<1>9. ASSUME NEW i \in RefIdx, Store(i) PROVE Kept
  <2>1. requirements \notin Grain => shown' = refs'
    BY <1>9 DEF Store, StoreSlot, ToShow
  <2> QED
    BY <1>9, <2>1 DEF Store, pool
<1>10. ASSUME NEW i \in RefIdx, Load(i) PROVE Kept
  <2>1. requirements \notin Grain => shown' = refs'
    BY <1>10 DEF Load, StoreSlot
  <2> QED
    BY <1>10, <2>1 DEF Load, pool
<1>11. CASE FinishFrame
  BY <1>11 DEF FinishFrame, pool
<1>12. ASSUME NEW i \in RefIdx, NEW key \in BOOLEAN, ShowExisting(i, key) PROVE Kept
  BY <1>12 DEF ShowExisting, pool
<1>13. CASE FinishShow
  BY <1>13 DEF FinishShow, pool
<1>14. CASE UNCHANGED vars
  BY <1>14 DEF vars, pool, locals
<1> QED
  BY <1>1, <1>2, <1>3, <1>4, <1>5, <1>6, <1>7, <1>8, <1>9, <1>10, <1>11, <1>12, <1>13,
     <1>14 DEF Next

LEMMA NextCounted ==
  ASSUME Conforming
  PROVE  Counted /\ [Next]_vars => Counted'
<1> SUFFICES ASSUME Counted, [Next]_vars PROVE Counted'
  OBVIOUS
<1>1. Typed'
  BY NextTyped DEF Counted
<1>2. Complete' /\ GrainServed' /\ Plain' /\ FreshTarget' /\ NeverStarved'
  BY NextConforming
<1>3. \A s \in AllSlots : Exact(s)'
  BY <1>2, OuterExact, FrameExact, StoreExact, Zenon DEF Next, NeverStarved
<1>4. UsersExact' /\ PoolExact'
  BY <1>3 DEF UsersExact, PoolExact, Exact
<1> QED
  BY <1>1, <1>2, <1>4 DEF Counted

(* On conforming units the count of every surface is the number of its     *)
(* users at every step, failed calls included, with and without film grain *)
(* (av1.rs, users).                                                        *)
THEOREM CountsExact ==
  ASSUME Conforming
  PROVE  Spec => []UsersExact
  BY InitCounted, NextCounted, PTL DEF Spec, Counted

(* On conforming units a session's slot is taken exactly while somebody    *)
(* needs it: neither surface of a frame leaks, none is given back early    *)
(* (av1.rs, retain, unuse and settle).                                     *)
THEOREM NothingLeaks ==
  ASSUME Conforming
  PROVE  Spec => []PoolExact
  BY InitCounted, NextCounted, PTL DEF Spec, Counted

(* On conforming units the surfaces a session is made with are enough: two *)
(* for each of the reference slots and three more with film grain, one for *)
(* each and two more without (av1.rs, surfaces; 8 reference slots, 19 and  *)
(* 10 surfaces).                                                           *)
THEOREM EnoughSurfaces ==
  ASSUME Conforming
  PROVE  Spec => []NeverStarved
  BY InitCounted, NextCounted, PTL DEF Spec, Counted

-----------------------------------------------------------------------------
(* Av1Decoder implements SurfacePool. *)

(* What the holders keep, or is being decoded into. *)
Known ==
  {refs[i] : i \in RefIdx} \cup {shown[i] : i \in RefIdx}
    \cup {picture, returned, target, dtarget, None}

PictureHolder == <<"picture", 0>>
ReturnedHolder == <<"returned", 0>>

LEMMA HoldersHold ==
  /\ \A i \in RefIdx :
       /\ <<"decoded", i>> \in Holders /\ hold[<<"decoded", i>>] = refs[i]
       /\ <<"shown", i>> \in Holders /\ hold[<<"shown", i>>] = shown[i]
  /\ PictureHolder \in Holders /\ hold[PictureHolder] = picture
  /\ ReturnedHolder \in Holders /\ hold[ReturnedHolder] = returned
  /\ \A x \in Holders : \/ \E i \in RefIdx : x = <<"decoded", i>> \/ x = <<"shown", i>>
                        \/ x = PictureHolder \/ x = ReturnedHolder
<1>1. /\ \A i \in RefIdx : <<"decoded", i>> \in Holders /\ <<"shown", i>> \in Holders
      /\ PictureHolder \in Holders /\ ReturnedHolder \in Holders
  BY DEF Holders, PictureHolder, ReturnedHolder
<1>2. \A x \in Holders : \/ \E i \in RefIdx : x = <<"decoded", i>> \/ x = <<"shown", i>>
                         \/ x = PictureHolder \/ x = ReturnedHolder
  BY DEF Holders, PictureHolder, ReturnedHolder
<1>3. \A i \in RefIdx : hold[<<"decoded", i>>] = refs[i] /\ hold[<<"shown", i>>] = shown[i]
  BY <1>1 DEF hold
<1>4. hold[PictureHolder] = picture /\ hold[ReturnedHolder] = returned
  BY <1>1 DEF hold, PictureHolder, ReturnedHolder
<1> QED
  BY <1>1, <1>2, <1>3, <1>4

LEMMA KnownIsLive == Known \subseteq Pool!Live \cup {None}
  BY HoldersHold DEF Known, Pool!Live, Pool!Held

(* A step whose holders end with surfaces that were live is a Pass. *)
LEMMA PassStep ==
  ASSUME picture' \in Known, returned' \in Known,
         \A i \in RefIdx : refs'[i] \in Known /\ shown'[i] \in Known,
         target' \in {target, None}, dtarget' \in {dtarget, None}
  PROVE  Pool!Pass
<1> DEFINE kept(x) == CASE x[1] = "decoded" -> refs'[x[2]]
                       [] x[1] = "shown" -> shown'[x[2]]
                       [] x[1] = "picture" -> picture'
                       [] x[1] = "returned" -> returned'
<1>1. hold' = [x \in Holders |-> kept(x)]
  BY Zenon DEF hold
<1>2. \A x \in Holders : kept(x) \in Known
  BY DEF Holders
<1> HIDE DEF kept
<1>3. hold' \in [Holders -> Pool!Live \cup {None}]
  BY <1>1, <1>2, KnownIsLive
<1> QED
  BY <1>3 DEF Pool!Pass

LEMMA InitPool == Init => Pool!Init
<1> SUFFICES ASSUME Init PROVE Pool!Init
  OBVIOUS
<1>1. hold = [x \in Holders |-> None]
  BY DEF Init, hold, Holders
<1> QED
  BY <1>1 DEF Init, Pool!Init

LEMMA NextPool ==
  ASSUME Counted, [Next]_vars
  PROVE  [Pool!Next]_Pool!vars
<1> SUFFICES Pool!Pass \/ Pool!Write
  BY DEF Pool!Next
<1> USE DEF Known
<1>1. TypeOK /\ Locals /\ Whole
  BY DEF Counted, Typed
<1>2. ASSUME refs' = refs, shown' = shown, picture' \in Known, returned' \in Known,
             target' \in {target, None}, dtarget' \in {dtarget, None}
      PROVE  Pool!Pass
  BY <1>2, PassStep
<1>3. ASSUME NEW r \in Reqs, Restart(r), picture' \in {picture, None},
             target' \in {target, None}, dtarget' \in {dtarget, None}
      PROVE  Pool!Pass
  BY <1>3, PassStep DEF Restart
<1>4. ASSUME NEW r \in Reqs, Prepare(r) PROVE Pool!Pass
  BY <1>2, <1>3, <1>4 DEF Prepare, locals
<1>5. ASSUME NEW r \in Reqs, SequenceHeader(r) PROVE Pool!Pass
  BY <1>2, <1>3, <1>5 DEF SequenceHeader, Return
<1>6. ASSUME NEW n \in 0..MaxObus, Decode(n) PROVE Pool!Pass
  BY <1>2, <1>6 DEF Decode
<1>7. CASE RejectObu \/ EndUnit \/ SubmitFails \/ Submitted
  BY <1>2, <1>7 DEF RejectObu, EndUnit, SubmitFails, Submitted, Return
<1>8. ASSUME NEW h, NEW last, FrameHeader(h, last) PROVE Pool!Pass
  BY <1>2, <1>8 DEF FrameHeader
<1>9. ASSUME NEW first, NEW last, TileGroup(first, last) PROVE Pool!Pass
  <2>1. UNCHANGED <<refs, shown, picture, returned, target, dtarget>>
    BY <1>9, Zenon DEF TileGroup
  <2> QED
    BY <1>2, <2>1
<1>10. CASE Acquire
  <2>1. /\ target' \in AllSlots \ inUse /\ dtarget' \in (AllSlots \ inUse) \cup {None}
        /\ UNCHANGED <<refs, shown, picture, returned>>
    BY <1>10, AcquireFeeds DEF FreeSlots
  <2>2. target = None /\ dtarget = None
    BY <1>1, <1>10 DEF Acquire, Locals
  <2>3. \A x \in Holders : hold[x] # None => hold[x] \in inUse
    <3> TAKE x \in Holders
    <3>1. /\ \A i \in RefIdx : refs[i] \in AllSlots \cup {None} /\ shown[i] \in AllSlots \cup {None}
          /\ picture \in AllSlots \cup {None} /\ returned \in AllSlots \cup {None}
      BY <1>1 DEF TypeOK
    <3>2. \A i \in RefIdx : /\ refs[i] # None => refs[i] \in inUse
                            /\ shown[i] # None => shown[i] \in inUse
      BY <3>1, HeldIsUsed
    <3>3. /\ picture # None => picture \in inUse
          /\ returned # None => returned \in inUse
      BY <3>1, HeldIsUsed
    <3> QED
      BY <3>2, <3>3, HoldersHold
  <2>4. hold' = hold
    BY <2>1 DEF hold
  <2>5. ({target', dtarget'} \ {None}) \in SUBSET (AllSlots \ Pool!Held(hold))
    BY <2>1, <2>3 DEF Pool!Held
  <2> QED
    BY <2>2, <2>4, <2>5 DEF Pool!Write
<1>11. ASSUME NEW i \in RefIdx, NEW d \in Known, NEW s \in Known, StoreSlot(i, d, s),
              UNCHANGED <<picture, returned, target, dtarget>>
       PROVE  Pool!Pass
  <2>1. refs' = [refs EXCEPT ![i] = d] /\ shown' = [shown EXCEPT ![i] = s]
    BY <1>11 DEF StoreSlot
  <2>2. \A j \in RefIdx : refs'[j] \in Known /\ shown'[j] \in Known
    BY <1>1, <2>1 DEF TypeOK
  <2> QED
    BY <1>11, <2>2, PassStep
<1>12. ASSUME NEW i \in RefIdx, Store(i) PROVE Pool!Pass
  BY <1>11, <1>12 DEF Store, ToShow
<1>13. ASSUME NEW i \in RefIdx, Load(i) PROVE Pool!Pass
  <2>1. index \in RefIdx
    BY <1>1, <1>13 DEF Load, TypeOK, Locals
  <2> QED
    BY <1>11, <1>13, <2>1 DEF Load
<1>14. CASE FinishFrame
  BY <1>2, <1>14 DEF FinishFrame, ToShow
<1>15. ASSUME NEW i \in RefIdx, NEW key \in BOOLEAN, ShowExisting(i, key) PROVE Pool!Pass
  BY <1>2, <1>15 DEF ShowExisting
<1>16. CASE FinishShow
  <2>1. index \in RefIdx
    BY <1>1, <1>16 DEF FinishShow, TypeOK, Locals
  <2> QED
    BY <1>2, <1>16, <2>1 DEF FinishShow
<1>17. CASE UNCHANGED vars
  BY <1>2, <1>17 DEF vars, locals
<1> QED
  BY <1>4, <1>5, <1>6, <1>7, <1>8, <1>9, <1>10, <1>12, <1>13, <1>14, <1>15, <1>16, <1>17
  DEF Next

(* On conforming units the decoder never decodes into a surface that a     *)
(* reference slot, the frame to return or the picture returned needs.      *)
THEOREM ImplementsPool ==
  ASSUME Conforming
  PROVE  Spec => PoolSpec
  BY InitCounted, NextCounted, InitPool, NextPool, PTL DEF Spec, PoolSpec, Pool!Spec
==============================================================================
