------------------------- MODULE Vp9Decoder_proofs -------------------------
(***************************************************************************)
(* Theorems about Vp9Decoder, for every number of surfaces, reference      *)
(* slots and frames per sample, and every set of requirements.             *)
(*                                                                         *)
(* Typed is inductive for every stream.  Counted adds what only holds when *)
(* a sample shows no frame before its last (Conforming): the exact user    *)
(* counts, and from them the absence of starvation and SurfacePool.        *)
(***************************************************************************)
EXTENDS Vp9Decoder, FiniteSetTheorems, TLAPS

(* How the locals of a call go with where the call is. *)
Locals ==
  /\ target # None <=> pc \in {"submit", "refresh"}
  /\ pc \in {"session", "submit", "refresh"} => session # None /\ left > 0
  /\ pc # "idle" => returned = None
  /\ pc = "idle" => shown = None

Typed == TypeOK /\ Locals /\ DisplayHeldOnce

(* A conforming sample has its shown frame last. *)
ShownLast ==
  /\ shown # None => left = 0
  /\ pc \in {"session", "submit", "refresh"} /\ hdr.show => left = 1

(* Nobody uses the surface a frame is submitted to. *)
FreshTarget == pc = "submit" => users[target] = 0

Counted == Typed /\ ShownLast /\ FreshTarget /\ UsersExact /\ PoolExact

-----------------------------------------------------------------------------
(* The pool's operators.                                                   *)

LEMMA UnuseType ==
  ASSUME NEW u \in [Slots -> Nat], NEW s \in Slots \cup {None}
  PROVE  Unuse(u, s) \in [Slots -> Nat]
  BY DEF Unuse

LEMMA RetainType ==
  ASSUME NEW u \in [Slots -> Nat], NEW s \in Slots
  PROVE  Retain(u, s) \in [Slots -> Nat]
  BY DEF Retain

LEMMA FreeUnusedType ==
  ASSUME NEW b \in SUBSET Slots, NEW u, NEW s \in Slots \cup {None}
  PROVE  FreeUnused(b, u, s) \in SUBSET Slots
  BY DEF FreeUnused

(* What unuse() of s does to the user counts and to the session's slots. *)
LEMMA LetGoType ==
  ASSUME TypeOK, NEW u \in [Slots -> Nat], NEW s \in Slots \cup {None}, LetGo(u, s)
  PROVE  users' \in [Slots -> Nat] /\ inUse' \in SUBSET Slots
  BY UnuseType, FreeUnusedType DEF LetGo, TypeOK

LEMMA NoHeaderFacts ==
  NoHeader \in Headers
  BY DEF NoHeader, Headers

LEMMA NoHeaderFlag == NoHeader.show = FALSE
  BY DEF NoHeader

LEMMA HeaderMask ==
  ASSUME NEW h \in Headers, NEW i
  PROVE  /\ [h EXCEPT !.mask = @ \ {i}] \in Headers
         /\ [h EXCEPT !.mask = @ \ {i}].show = h.show
  BY DEF Headers

LEMMA ResultFacts ==
  /\ "none" \in Results /\ "ok" \in Results
  /\ "error" \in Results /\ "starved" \in Results
  BY DEF Results

-----------------------------------------------------------------------------
LEMMA InitTyped == Init => Typed
<1> SUFFICES ASSUME Init PROVE Typed
  OBVIOUS
<1> USE SlotsAssumption DEF Init
<1>1. TypeOK
  BY NoHeaderFacts, ResultFacts DEF TypeOK
<1>2. Locals
  BY DEF Locals
<1>3. DisplayHeldOnce
  BY DEF DisplayHeldOnce
<1>4. QED
  BY <1>1, <1>2, <1>3 DEF Typed

LEMMA NextTyped == Typed /\ [Next]_vars => Typed'
<1> SUFFICES ASSUME Typed, [Next]_vars PROVE Typed'
  OBVIOUS
<1> USE SlotsAssumption, NoHeaderFacts, ResultFacts DEF Typed
<1>1. ASSUME NEW r \in Reqs, Prepare(r) PROVE Typed'
  BY <1>1 DEF Prepare, Restart, TypeOK, Locals, DisplayHeldOnce
<1>2. ASSUME NEW n \in 0..MaxFrames, Decode(n) PROVE Typed'
  <2>1. users' \in [Slots -> Nat] /\ inUse' \in SUBSET Slots
    BY <1>2, LetGoType DEF Decode, TypeOK
  <2>2. QED
    BY <1>2, <2>1 DEF Decode, pool, TypeOK, Locals, DisplayHeldOnce
<1>3. CASE RejectFrame
  BY <1>3 DEF RejectFrame, Return, pool, TypeOK, Locals, DisplayHeldOnce
<1>4. ASSUME NEW i \in RefIdx, ShowExisting(i) PROVE Typed'
  <2>1. refs[i] \in Slots
    BY <1>4 DEF ShowExisting, TypeOK
  <2>2. users' \in [Slots -> Nat] /\ inUse' \in SUBSET Slots
    BY <1>4, <2>1, RetainType, LetGoType DEF ShowExisting, Show, TypeOK
  <2>3. QED
    BY <1>4, <2>1, <2>2
    DEF ShowExisting, Show, pool, TypeOK, Locals, DisplayHeldOnce
<1>5. ASSUME NEW r \in Reqs, NEW h \in Headers, ChangeSession(r, h) PROVE Typed'
  BY <1>5 DEF ChangeSession, Restart, Return, TypeOK, Locals, DisplayHeldOnce
<1>6. ASSUME NEW h \in Headers, NEW reads, Acquire(h, reads),
             session # None, left > 0, pc \in {"frame", "session"}
      PROVE  Typed'
  <2>1. CASE FreeSlots = {}
    <3>1. Return("starved") /\ inUse' = inUse /\ UNCHANGED <<pool, users, refs, returned>>
      BY <1>6, <2>1 DEF Acquire, Return
    <3>2. QED
      BY <1>6, <3>1 DEF Return, pool, TypeOK, Locals, DisplayHeldOnce
  <2>2. CASE FreeSlots # {}
    <3>1. target' \in Slots /\ inUse' \in SUBSET Slots
      BY <1>6, <2>2 DEF Acquire, FreeSlots, TypeOK
    <3>2. QED
      BY <1>6, <2>2, <3>1 DEF Acquire, pool, TypeOK, Locals, DisplayHeldOnce
  <2>3. QED
    BY <2>1, <2>2
<1>7. CASE SubmitFails
  <2>1. inUse' \in SUBSET Slots
    BY <1>7 DEF SubmitFails, TypeOK
  <2>2. QED
    BY <1>7, <2>1 DEF SubmitFails, Return, pool, TypeOK, Locals, DisplayHeldOnce
<1>8. CASE Submitted
  BY <1>8 DEF Submitted, pool, TypeOK, Locals, DisplayHeldOnce
<1>9. ASSUME NEW i \in RefIdx, Refresh(i) PROVE Typed'
  <2>1. target \in Slots
    BY <1>9 DEF Refresh, TypeOK, Locals
  <2>2. users' \in [Slots -> Nat] /\ inUse' \in SUBSET Slots
    BY <1>9, <2>1, RetainType, LetGoType DEF Refresh, RefreshSlot, TypeOK
  <2>3. hdr' \in Headers
    BY <1>9, HeaderMask DEF Refresh, TypeOK
  <2>4. QED
    BY <1>9, <2>1, <2>2, <2>3
    DEF Refresh, RefreshSlot, pool, TypeOK, Locals, DisplayHeldOnce
<1>10. CASE FinishHidden
  <2>1. inUse' \in SUBSET Slots
    BY <1>10, FreeUnusedType DEF FinishHidden, TypeOK
  <2>2. QED
    BY <1>10, <2>1 DEF FinishHidden, pool, TypeOK, Locals, DisplayHeldOnce
<1>11. CASE FinishShown
  <2>1. target \in Slots
    BY <1>11 DEF FinishShown, TypeOK, Locals
  <2>2. users' \in [Slots -> Nat] /\ inUse' \in SUBSET Slots
    BY <1>11, <2>1, RetainType, LetGoType DEF FinishShown, Show, TypeOK
  <2>3. QED
    BY <1>11, <2>1, <2>2
    DEF FinishShown, Show, pool, TypeOK, Locals, DisplayHeldOnce
<1>12. CASE EndSample
  BY <1>12 DEF EndSample, Return, pool, TypeOK, Locals, DisplayHeldOnce
<1>13. CASE UNCHANGED vars
  BY <1>13 DEF vars, pool, TypeOK, Locals, DisplayHeldOnce
<1>14. ASSUME NEW h \in Headers, NEW reads \in SUBSET RefIdx, StartFrame(h, reads)
       PROVE  Typed'
  BY <1>14, <1>6 DEF StartFrame
<1>15. CASE StartKeyFrame
  BY <1>15, <1>6 DEF StartKeyFrame, TypeOK, Locals
<1>16. QED
  BY <1>1, <1>2, <1>3, <1>4, <1>5, <1>7, <1>8, <1>9, <1>10, <1>11, <1>12,
     <1>13, <1>14, <1>15
  DEF Next

(* Every variable keeps its type, whatever the stream: in particular no    *)
(* call decodes more frames than the sample has (vp9.rs, decode).          *)
THEOREM TypeCorrect == Spec => []TypeOK
  BY InitTyped, NextTyped, PTL DEF Spec, Typed

(* The Display is never lost, whatever the stream and the driver's answers *)
(* (vp9.rs, ensure_session).                                               *)
THEOREM DisplayKept == Spec => []DisplayHeldOnce
  BY InitTyped, NextTyped, PTL DEF Spec, Typed

-----------------------------------------------------------------------------
(* Counting the reference slots that hold a surface.                       *)

LEMMA RefUsesType ==
  ASSUME NEW r, NEW s
  PROVE  /\ IsFiniteSet({i \in RefIdx : r[i] = s})
         /\ RefUses(r, s) \in Nat
         /\ RefUses(r, s) = 0 <=> \A i \in RefIdx : r[i] # s
<1> DEFINE S == {i \in RefIdx : r[i] = s}
<1>1. IsFiniteSet(S) /\ Cardinality(S) \in Nat
  BY SlotsAssumption, FS_Subset, FS_CardinalityType
<1>2. Cardinality(S) = 0 <=> S = {}
  BY <1>1, FS_EmptySet
<1>3. QED
  BY <1>1, <1>2 DEF RefUses

LEMMA RefUsesNat ==
  ASSUME NEW r, NEW s
  PROVE  RefUses(r, s) \in Nat
  BY RefUsesType

(* Moving reference slot i to surface t: t gains a use, the surface the    *)
(* slot held loses one.                                                    *)
LEMMA RefUsesMove ==
  ASSUME NEW i \in RefIdx, NEW t \in Slots, NEW s \in Slots,
         refs \in [RefIdx -> Slots \cup {None}], refs' = [refs EXCEPT ![i] = t]
  PROVE  RefUses(refs', s) =
           RefUses(refs, s) + (IF s = t THEN 1 ELSE 0) - (IF s = refs[i] THEN 1 ELSE 0)
<1> DEFINE R == {j \in RefIdx : refs[j] = s}
           Q == {j \in RefIdx : refs'[j] = s}
<1>1. IsFiniteSet(R) /\ Cardinality(R) \in Nat
  BY RefUsesType, FS_CardinalityType
<1>2. i \in R <=> s = refs[i]
  OBVIOUS
<1>3. CASE s = t
  <2>1. Q = R \cup {i}
    BY <1>3
  <2>2. Cardinality(Q) = IF i \in R THEN Cardinality(R) ELSE Cardinality(R) + 1
    BY <1>1, <2>1, FS_AddElement
  <2>3. QED
    BY <1>1, <1>2, <1>3, <2>2 DEF RefUses
<1>4. CASE s # t
  <2>1. Q = R \ {i}
    BY <1>4
  <2>2. Cardinality(Q) = IF i \in R THEN Cardinality(R) - 1 ELSE Cardinality(R)
    BY <1>1, <2>1, FS_RemoveElement
  <2>3. QED
    BY <1>1, <1>2, <1>4, <2>2 DEF RefUses
<1>5. QED
  BY <1>3, <1>4

(* unuse() of a slot with a user: one user less, the last one frees it.    *)
LEMMA LetGoEffect ==
  ASSUME inUse \in SUBSET Slots, NEW u \in [Slots -> Nat],
         NEW s \in Slots \cup {None}, s # None => u[s] > 0, LetGo(u, s)
  PROVE  \A x \in Slots :
           /\ users'[x] = u[x] - (IF x = s THEN 1 ELSE 0)
           /\ x \in inUse' <=> x \in inUse /\ ~(x = s /\ users'[x] = 0)
<1>1. CASE s = None
  BY <1>1, SlotsAssumption DEF LetGo, Unuse, FreeUnused
<1>2. CASE s \in Slots
  <2>1. s # None
    BY <1>2, SlotsAssumption
  <2>2. u[s] > 0 /\ u[s] \in Nat
    BY <1>2, <2>1
  <2>3. users' = [u EXCEPT ![s] = IF u[s] = 0 THEN 0 ELSE u[s] - 1]
    BY <2>1 DEF LetGo, Unuse
  <2>4. inUse' = IF users'[s] # 0 THEN inUse ELSE inUse \ {s}
    BY <2>1 DEF LetGo, FreeUnused
  <2>5. \A x \in Slots : users'[x] = u[x] - (IF x = s THEN 1 ELSE 0)
    BY <2>2, <2>3
  <2>6. QED
    BY <1>2, <2>4, <2>5
<1>3. QED
  BY <1>1, <1>2

-----------------------------------------------------------------------------
(* UsersExact and PoolExact, surface by surface. *)
Exact(s) ==
  /\ users[s] = Uses(s)
  /\ s \in inUse <=> users[s] > 0 \/ s = target

LEMMA ExactEverywhere ==
  UsersExact /\ PoolExact <=> \A s \in Slots : Exact(s)
  BY DEF UsersExact, PoolExact, Exact

LEMMA InitCounted == Init => Counted
<1> SUFFICES ASSUME Init PROVE Counted
  OBVIOUS
<1>1. Typed
  BY InitTyped
<1>2. ShownLast /\ FreshTarget
  BY DEF Init, ShownLast, FreshTarget
<1>3. UsersExact /\ PoolExact
  <2> SUFFICES ASSUME NEW s \in Slots
               PROVE  users[s] = Uses(s) /\ (s \in inUse <=> (users[s] > 0 \/ s = target))
    BY DEF UsersExact, PoolExact
  <2>1. RefUses(refs, s) = 0
    BY RefUsesType, SlotsAssumption DEF Init
  <2>2. QED
    BY <2>1, SlotsAssumption DEF Init, Uses
<1>4. QED
  BY <1>1, <1>2, <1>3 DEF Counted

(* With all calls' surfaces let go, more surfaces than reference slots     *)
(* leave one free: the pigeonhole principle.                               *)
LEMMA SomeSlotFree ==
  ASSUME Counted, Cardinality(RefIdx) < Cardinality(Slots),
         target = None, shown = None, returned = None
  PROVE  FreeSlots # {}
<1> SUFFICES ASSUME FreeSlots = {} PROVE FALSE
  OBVIOUS
<1> DEFINE f == [s \in Slots |-> CHOOSE i \in RefIdx : refs[i] = s]
<1>1. ASSUME NEW s \in Slots PROVE \E i \in RefIdx : refs[i] = s
  <2>1. users[s] > 0
    BY SlotsAssumption DEF Counted, PoolExact, FreeSlots
  <2>2. RefUses(refs, s) # 0
    BY <2>1, RefUsesType, SlotsAssumption DEF Counted, UsersExact, Uses
  <2>3. QED
    BY <2>2, RefUsesType
<1>2. \A s \in Slots : f[s] \in RefIdx /\ refs[f[s]] = s
  BY <1>1
<1>3. f \in [Slots -> RefIdx]
  BY <1>2
<1> HIDE DEF f
<1>4. \E x, y \in Slots : x # y /\ f[x] = f[y]
  <2>1. IsFiniteSet(Slots) /\ IsFiniteSet(RefIdx)
    BY SlotsAssumption
  <2>2. QED
    BY <1>3, <2>1, FS_PigeonHole, Zenon
<1>5. QED
  BY <1>2, <1>4

(* A picture shown from surface t (Show): t gains the use of the picture.  *)
LEMMA ShowCounted ==
  ASSUME Counted, left = 1, shown = None, NEW t \in Slots, Show(t), returned' = None,
         refs' = refs, target' = None, t \in inUse,
         target = None \/ target = t, returned = None
  PROVE  \A s \in Slots : Exact(s)'
<1> SUFFICES ASSUME NEW s \in Slots PROVE Exact(s)'
  OBVIOUS
<1>1. Exact(s) /\ Exact(t)
  BY ExactEverywhere DEF Counted
<1>2. users' = Retain(users, t) /\ inUse' = inUse /\ shown' = t
  BY SlotsAssumption DEF Show, LetGo, Unuse, FreeUnused
<1>3. users'[s] = users[s] + (IF s = t THEN 1 ELSE 0) /\ users[s] \in Nat
  BY <1>2 DEF Retain, Counted, Typed, TypeOK
<1>4. Uses(s) = RefUses(refs, s) /\ RefUses(refs, s) \in Nat
  BY RefUsesNat, SlotsAssumption DEF Uses
<1>5. Uses(s)' = RefUses(refs, s) + (IF s = t THEN 1 ELSE 0)
  BY <1>2, <1>4, SlotsAssumption DEF Uses, RefUses
<1>6. users'[s] = Uses(s)'
  BY <1>1, <1>3, <1>4, <1>5 DEF Exact
<1>7. s \in inUse' <=> users'[s] > 0 \/ s = target'
  BY <1>1, <1>2, <1>3, SlotsAssumption DEF Exact
<1>8. QED
  BY <1>6, <1>7 DEF Exact

(* A new session has no users and no slot taken. *)
LEMMA RestartCounted ==
  ASSUME NEW r \in Reqs, Restart(r), shown' = None, target' = None
  PROVE  \A s \in Slots : Exact(s)'
<1> SUFFICES ASSUME NEW s \in Slots PROVE Exact(s)'
  OBVIOUS
<1>1. RefUses(refs', s) = 0
  BY RefUsesType, SlotsAssumption DEF Restart
<1>2. Uses(s)' = 0
  BY <1>1, SlotsAssumption DEF Uses, Restart, RefUses
<1>3. QED
  BY <1>2, SlotsAssumption DEF Restart, Exact

(* Uses of s, the reference slots' apart.                                  *)
LEMMA UsesSame ==
  ASSUME NEW s \in Slots, UNCHANGED <<users, refs>>, Exact(s), TypeOK,
         \/ UNCHANGED <<returned, shown>>
         \/ returned = None /\ returned' = shown /\ shown' = None
  PROVE  users'[s] = Uses(s)'
<1>1. RefUses(refs, s)' = RefUses(refs, s) /\ RefUses(refs, s) \in Nat
  BY RefUsesNat DEF RefUses
<1>2. QED
  BY <1>1, SlotsAssumption DEF Exact, Uses

(* The locals of a conforming call, step by step. *)
LEMMA NextShownLast ==
  ASSUME Conforming, Counted, Typed', [Next]_vars
  PROVE  ShownLast' /\ FreshTarget'
<1> USE SlotsAssumption, NoHeaderFlag DEF Counted, Typed, TypeOK, Locals, ShownLast, FreshTarget
<1>1. ASSUME NEW r \in Reqs, Prepare(r) PROVE ShownLast' /\ FreshTarget'
  BY <1>1 DEF Prepare, Restart
<1>2. ASSUME NEW n \in 0..MaxFrames, Decode(n) PROVE ShownLast' /\ FreshTarget'
  BY <1>2 DEF Decode
<1>3. CASE RejectFrame
  BY <1>3 DEF RejectFrame, Return
<1>4. ASSUME NEW i \in RefIdx, ShowExisting(i) PROVE ShownLast' /\ FreshTarget'
  BY <1>4 DEF ShowExisting, Show, MayShow
<1>5. ASSUME NEW r \in Reqs, NEW h \in Headers, ChangeSession(r, h)
      PROVE  ShownLast' /\ FreshTarget'
  BY <1>5 DEF ChangeSession, Return, MayShow
<1>6. ASSUME NEW h \in Headers, NEW reads, Acquire(h, reads),
             left > 0, h.show => left = 1, pc \in {"frame", "session"}
      PROVE  ShownLast' /\ FreshTarget'
  <2>1. CASE FreeSlots = {}
    <3>1. Return("starved")
      BY <1>6, <2>1 DEF Acquire
    <3>2. QED
      BY <3>1 DEF Return
  <2>2. CASE FreeSlots # {}
    <3>1. /\ target' \in Slots \ inUse /\ hdr' = h /\ pc' = "submit"
          /\ UNCHANGED <<users, left, shown>>
      BY <1>6, <2>2 DEF Acquire, FreeSlots
    <3>2. users[target'] = 0
      BY <3>1 DEF PoolExact
    <3>3. shown = None
      BY <1>6
    <3>4. QED
      BY <1>6, <3>1, <3>2, <3>3
  <2>3. QED
    BY <2>1, <2>2
<1>7. CASE SubmitFails
  BY <1>7 DEF SubmitFails, Return
<1>8. CASE Submitted
  BY <1>8 DEF Submitted
<1>9. ASSUME NEW i \in RefIdx, Refresh(i) PROVE ShownLast' /\ FreshTarget'
  BY <1>9, HeaderMask DEF Refresh
<1>10. CASE FinishHidden
  BY <1>10 DEF FinishHidden
<1>11. CASE FinishShown
  BY <1>11 DEF FinishShown, Show
<1>12. CASE EndSample
  BY <1>12 DEF EndSample, Return
<1>13. CASE UNCHANGED vars
  BY <1>13 DEF vars, pool
<1>14. ASSUME NEW h \in Headers, NEW reads \in SUBSET RefIdx, StartFrame(h, reads)
       PROVE  ShownLast' /\ FreshTarget'
  BY <1>14, <1>6 DEF StartFrame, MayShow
<1>15. CASE StartKeyFrame
  BY <1>15, <1>6 DEF StartKeyFrame
<1>16. QED
  BY <1>1, <1>2, <1>3, <1>4, <1>5, <1>7, <1>8, <1>9, <1>10, <1>11, <1>12,
     <1>13, <1>14, <1>15
  DEF Next

(* retain() of t, then unuse() of o: the uses a reference slot moves.      *)
LEMMA MoveEffect ==
  ASSUME users \in [Slots -> Nat], inUse \in SUBSET Slots,
         NEW t \in Slots, NEW o \in Slots \cup {None}, NEW s \in Slots,
         o # None => users[o] > 0, LetGo(Retain(users, t), o)
  PROVE  /\ users'[s] = users[s] + (IF s = t THEN 1 ELSE 0) - (IF s = o THEN 1 ELSE 0)
         /\ s \in inUse' <=> s \in inUse /\ ~(s = o /\ users'[s] = 0)
<1> DEFINE u == Retain(users, t)
<1>1. u \in [Slots -> Nat]
  BY RetainType
<1>2. \A x \in Slots : u[x] = users[x] + (IF x = t THEN 1 ELSE 0)
  BY DEF Retain
<1> HIDE DEF u
<1>3. o # None => u[o] > 0
  <2> SUFFICES ASSUME o # None PROVE u[o] > 0
    OBVIOUS
  <2>1. o \in Slots /\ users[o] \in Nat /\ users[o] > 0
    OBVIOUS
  <2>2. QED
    BY <1>2, <2>1
<1>4. LetGo(u, o)
  BY DEF u
<1>5. /\ users'[s] = u[s] - (IF s = o THEN 1 ELSE 0)
      /\ s \in inUse' <=> s \in inUse /\ ~(s = o /\ users'[s] = 0)
  BY <1>1, <1>3, <1>4, LetGoEffect
<1>6. QED
  BY <1>2, <1>5

(* A surface a reference slot holds has a user, and its slot is taken.     *)
LEMMA HeldIsUsed ==
  ASSUME Counted, NEW i \in RefIdx, refs[i] # None
  PROVE  refs[i] \in Slots /\ users[refs[i]] > 0 /\ refs[i] \in inUse
<1> DEFINE s == refs[i]
<1>1. s \in Slots
  BY DEF Counted, Typed, TypeOK
<1>2. Exact(s)
  BY <1>1, ExactEverywhere DEF Counted
<1>3. RefUses(refs, s) # 0
  BY RefUsesType
<1>4. RefUses(refs, s) \in Nat
  BY RefUsesNat
<1> HIDE DEF s
<1>5. Uses(s) > 0
  BY <1>3, <1>4 DEF Uses
<1>6. QED
  BY <1>1, <1>2, <1>5 DEF Exact, s

(* One iteration of the refresh loop moves one use.                        *)
LEMMA RefreshCounted ==
  ASSUME Counted, NEW i \in RefIdx, Refresh(i)
  PROVE  \A s \in Slots : Exact(s)'
<1> SUFFICES ASSUME NEW s \in Slots PROVE Exact(s)'
  OBVIOUS
<1> DEFINE o == refs[i]
           gain == IF s = target THEN 1 ELSE 0
           loss == IF s = o THEN 1 ELSE 0
<1>1. /\ target \in Slots /\ target' = target /\ UNCHANGED <<returned, shown>>
      /\ o \in Slots \cup {None} /\ refs \in [RefIdx -> Slots \cup {None}]
      /\ users \in [Slots -> Nat] /\ inUse \in SUBSET Slots
  BY DEF Refresh, Locals, Counted, Typed, TypeOK
<1>2. LetGo(Retain(users, target), o) /\ refs' = [refs EXCEPT ![i] = target]
  BY DEF Refresh, RefreshSlot
<1>3. o # None => users[o] > 0
  BY HeldIsUsed
<1>4. Exact(s)
  BY ExactEverywhere DEF Counted
<1>5. RefUses(refs', s) = RefUses(refs, s) + gain - loss
  <2>1. /\ refs \in [RefIdx -> Slots \cup {None}] /\ target \in Slots
        /\ refs' = [refs EXCEPT ![i] = target]
    BY <1>1, <1>2
  <2>2. RefUses(refs', s) = RefUses(refs, s) + (IF s = target THEN 1 ELSE 0)
                                             - (IF s = refs[i] THEN 1 ELSE 0)
    BY <2>1, RefUsesMove, ZenonT(60)
  <2>3. QED
    BY <2>2
<1> HIDE DEF o
<1>6. /\ users'[s] = users[s] + gain - loss
      /\ s \in inUse' <=> s \in inUse /\ ~(s = o /\ users'[s] = 0)
  BY <1>1, <1>2, <1>3, MoveEffect
<1>7. RefUses(refs, s) \in Nat /\ RefUses(refs', s) \in Nat /\ gain \in 0..1 /\ loss \in 0..1
  BY RefUsesNat
<1>8. RefUses(refs, s)' = RefUses(refs', s)
  BY DEF RefUses
<1>9. users'[s] = Uses(s)'
  BY <1>1, <1>4, <1>5, <1>6, <1>7, <1>8 DEF Uses, Exact
<1>10. s \in inUse' <=> users'[s] > 0 \/ s = target'
  <2>1. users[s] \in Nat /\ (s \in inUse <=> users[s] > 0 \/ s = target)
    BY <1>1, <1>4 DEF Exact
  <2>2. s = o => users[s] > 0
    BY <1>3, SlotsAssumption
  <2>3. s = o /\ s = target => users'[s] = users[s]
    BY <1>6, <2>1
  <2>4. QED
    BY <1>1, <1>6, <2>1, <2>2, <2>3
<1>11. QED
  BY <1>9, <1>10 DEF Exact

(* The user counts and the session's slots, step by step. *)
LEMMA NextExact ==
  ASSUME Conforming, Counted, Typed', [Next]_vars
  PROVE  \A s \in Slots : Exact(s)'
<1> USE SlotsAssumption DEF Counted, Typed
<1>1. \A s \in Slots : Exact(s)
  BY ExactEverywhere
<1>2. \A s \in Slots : users[s] \in Nat
  BY DEF TypeOK
<1>3. ASSUME NEW r \in Reqs, Prepare(r) PROVE \A s \in Slots : Exact(s)'
  BY <1>3, RestartCounted DEF Prepare, Locals
<1>4. ASSUME NEW n \in 0..MaxFrames, Decode(n), NEW s \in Slots PROVE Exact(s)'
  <2>1. shown = None /\ shown' = None /\ target = None /\ target' = None /\ returned' = None
    BY <1>4 DEF Decode, Locals
  <2>2. returned # None => users[returned] > 0
    <3> SUFFICES ASSUME returned # None PROVE users[returned] > 0
      OBVIOUS
    <3>1. returned \in Slots /\ Exact(returned)
      BY <1>1 DEF TypeOK
    <3>2. QED
      BY <2>1, <3>1, RefUsesNat DEF Exact, Uses
  <2>3. /\ users'[s] = users[s] - (IF s = returned THEN 1 ELSE 0)
        /\ s \in inUse' <=> s \in inUse /\ ~(s = returned /\ users'[s] = 0)
    BY <1>4, <2>2, LetGoEffect DEF Decode, TypeOK
  <2>4. RefUses(refs, s)' = RefUses(refs, s) /\ RefUses(refs, s) \in Nat
    BY <1>4, RefUsesNat DEF Decode, RefUses
  <2>5. QED
    BY <1>1, <1>2, <2>1, <2>3, <2>4 DEF Exact, Uses
<1>5. ASSUME UNCHANGED <<users, inUse, refs, target>>, NEW s \in Slots,
             \/ UNCHANGED <<returned, shown>>
             \/ returned = None /\ returned' = shown /\ shown' = None
      PROVE  Exact(s)'
  <2>1. users'[s] = Uses(s)'
    BY <1>1, <1>5, UsesSame
  <2>2. QED
    BY <1>1, <1>5, <2>1 DEF Exact
<1>6. ASSUME RejectFrame, NEW s \in Slots PROVE Exact(s)'
  BY <1>5, <1>6 DEF RejectFrame, Return, Locals, ShownLast
<1>7. ASSUME NEW i \in RefIdx, ShowExisting(i) PROVE \A s \in Slots : Exact(s)'
  <2>1. refs[i] \in Slots
    BY <1>7 DEF ShowExisting, TypeOK
  <2>2. refs[i] \in inUse
    BY <1>7, HeldIsUsed DEF ShowExisting
  <2>3. /\ left = 1 /\ shown = None /\ Show(refs[i]) /\ refs' = refs
        /\ returned = None /\ returned' = None /\ target = None /\ target' = None
    BY <1>7 DEF ShowExisting, MayShow, Locals, ShownLast
  <2>4. QED
    BY <2>1, <2>2, <2>3, ShowCounted
<1>8. ASSUME NEW r \in Reqs, NEW h \in Headers, ChangeSession(r, h)
      PROVE  \A s \in Slots : Exact(s)'
  <2>1. shown' = None /\ target' = None
    BY <1>8 DEF ChangeSession, Return, Locals, ShownLast, TypeOK
  <2>2. QED
    BY <1>8, <2>1, RestartCounted DEF ChangeSession
<1>9. ASSUME NEW h \in Headers, NEW reads, Acquire(h, reads), NEW s \in Slots,
             left > 0, pc \in {"frame", "session"}
      PROVE  Exact(s)'
  <2>1. CASE FreeSlots = {}
    <3>1. Return("starved") /\ inUse' = inUse /\ UNCHANGED <<users, refs, returned>>
      BY <1>9, <2>1 DEF Acquire, Return
    <3>2. QED
      BY <1>5, <1>9, <3>1 DEF Return, Locals, ShownLast
  <2>2. CASE FreeSlots # {}
    <3>1. /\ target' \in Slots \ inUse /\ inUse' = inUse \cup {target'}
          /\ UNCHANGED <<users, refs, returned, shown>>
      BY <1>9, <2>2 DEF Acquire, FreeSlots
    <3>2. users'[s] = Uses(s)'
      BY <1>1, <3>1, UsesSame
    <3>3. target = None
      BY <1>9 DEF Locals
    <3>4. QED
      BY <1>1, <3>1, <3>2, <3>3 DEF Exact
  <2>3. QED
    BY <2>1, <2>2
<1>10. ASSUME SubmitFails, NEW s \in Slots PROVE Exact(s)'
  <2>1. /\ shown = None /\ shown' = None /\ target' = None /\ target \in Slots
        /\ inUse' = inUse \ {target} /\ UNCHANGED <<users, refs, returned>>
    BY <1>10 DEF SubmitFails, Return, Locals, ShownLast, TypeOK
  <2>2. users[target] = 0
    BY <1>10 DEF SubmitFails, FreshTarget
  <2>3. users'[s] = Uses(s)'
    BY <1>1, <2>1, UsesSame
  <2>4. QED
    BY <1>1, <1>2, <2>1, <2>2, <2>3 DEF Exact
<1>11. ASSUME Submitted, NEW s \in Slots PROVE Exact(s)'
  <2>1. users' = users
    BY <1>11 DEF Submitted, FreshTarget, TypeOK
  <2>2. QED
    BY <1>5, <1>11, <2>1 DEF Submitted
<1>12. ASSUME NEW i \in RefIdx, Refresh(i) PROVE \A s \in Slots : Exact(s)'
  BY <1>12, RefreshCounted
<1>13. ASSUME FinishHidden, NEW s \in Slots PROVE Exact(s)'
  <2>1. /\ target \in Slots /\ target' = None
        /\ UNCHANGED <<users, refs, returned, shown>>
        /\ inUse' = FreeUnused(inUse, users, target)
    BY <1>13 DEF FinishHidden, Locals, TypeOK
  <2>2. users'[s] = Uses(s)'
    BY <1>1, <2>1, UsesSame
  <2>3. Exact(s) /\ users' = users /\ users[target] \in Nat
    BY <1>1, <1>2, <2>1
  <2>4. CASE users[target] = 0
    <3>1. inUse' = inUse \ {target}
      BY <2>1, <2>4 DEF FreeUnused
    <3>2. QED
      BY <2>1, <2>2, <2>3, <2>4, <3>1 DEF Exact
  <2>5. CASE users[target] # 0
    <3>1. inUse' = inUse
      BY <2>1, <2>5 DEF FreeUnused
    <3>2. QED
      BY <2>1, <2>2, <2>3, <2>5, <3>1 DEF Exact
  <2>6. QED
    BY <2>4, <2>5
<1>14. ASSUME FinishShown PROVE \A s \in Slots : Exact(s)'
  <2>1. /\ target \in Slots /\ left = 1 /\ shown = None /\ Show(target)
        /\ returned = None /\ returned' = None /\ refs' = refs /\ target' = None
    BY <1>14 DEF FinishShown, Locals, ShownLast, TypeOK
  <2>2. target \in inUse
    BY <1>1, <2>1 DEF Exact
  <2>3. QED
    BY <2>1, <2>2, ShowCounted
<1>15. ASSUME EndSample, NEW s \in Slots PROVE Exact(s)'
  BY <1>5, <1>15 DEF EndSample, Return, Locals
<1>16. ASSUME UNCHANGED vars, NEW s \in Slots PROVE Exact(s)'
  BY <1>5, <1>16 DEF vars
<1>17. ASSUME NEW h \in Headers, NEW reads \in SUBSET RefIdx, StartFrame(h, reads)
       PROVE  \A s \in Slots : Exact(s)'
  BY <1>9, <1>17 DEF StartFrame
<1>18. ASSUME StartKeyFrame PROVE \A s \in Slots : Exact(s)'
  BY <1>9, <1>18 DEF StartKeyFrame, Locals, TypeOK
<1>19. QED
  BY <1>3, <1>4, <1>6, <1>7, <1>8, <1>10, <1>11, <1>12, <1>13, <1>14, <1>15,
     <1>16, <1>17, <1>18
  DEF Next

LEMMA NextCounted ==
  ASSUME Conforming
  PROVE  Counted /\ [Next]_vars => Counted'
<1> SUFFICES ASSUME Counted, [Next]_vars PROVE Counted'
  OBVIOUS
<1>1. Typed'
  BY NextTyped DEF Counted
<1>2. ShownLast' /\ FreshTarget'
  BY <1>1, NextShownLast
<1>3. \A s \in Slots : Exact(s)'
  BY <1>1, NextExact
<1>4. UsersExact' /\ PoolExact'
  BY <1>3 DEF UsersExact, PoolExact, Exact
<1>5. QED
  BY <1>1, <1>2, <1>4 DEF Counted

(* On conforming streams the count of every surface is the number of its   *)
(* users at every step, failed calls included (vp9.rs, users).             *)
THEOREM CountsExact ==
  ASSUME Conforming
  PROVE  Spec => []UsersExact
  BY InitCounted, NextCounted, PTL DEF Spec, Counted

(* On conforming streams a session's slot is taken exactly while somebody  *)
(* needs it: no surface leaks (vp9.rs, retain and unuse).                  *)
THEOREM NothingLeaks ==
  ASSUME Conforming
  PROVE  Spec => []PoolExact
  BY InitCounted, NextCounted, PTL DEF Spec, Counted

(* On conforming streams a surface a reference slot holds stays taken in   *)
(* the session (vp9.rs, decode_frame).                                     *)
THEOREM RefsStayHeld ==
  ASSUME Conforming
  PROVE  Spec => []RefsHeld
<1>1. Counted => RefsHeld
  BY HeldIsUsed DEF RefsHeld
<1>2. QED
  BY <1>1, InitCounted, NextCounted, PTL DEF Spec

-----------------------------------------------------------------------------
(* No call runs out of surfaces. *)

Fed == Counted /\ NeverStarved

LEMMA NextFed ==
  ASSUME Conforming, Cardinality(RefIdx) < Cardinality(Slots)
  PROVE  Fed /\ [Next]_vars => Fed'
<1> SUFFICES ASSUME Fed, [Next]_vars PROVE Fed'
  OBVIOUS
<1>1. Counted'
  BY NextCounted DEF Fed
<1>2. ASSUME NEW h, NEW reads, Acquire(h, reads), left > 0, pc \in {"frame", "session"}
      PROVE  result' = result
  <2>1. target = None /\ shown = None /\ returned = None
    BY <1>2 DEF Fed, Counted, Typed, TypeOK, Locals, ShownLast
  <2>2. FreeSlots # {}
    BY <2>1, SomeSlotFree DEF Fed
  <2>3. QED
    BY <1>2, <2>2 DEF Acquire
<1>3. ASSUME NEW h \in Headers, NEW reads \in SUBSET RefIdx, StartFrame(h, reads)
      PROVE  NeverStarved'
  BY <1>2, <1>3 DEF StartFrame, Fed, NeverStarved
<1>4. ASSUME StartKeyFrame PROVE NeverStarved'
  BY <1>2, <1>4 DEF StartKeyFrame, Fed, Counted, Typed, Locals, NeverStarved
<1>5. ASSUME NEW r \in Reqs, Prepare(r) PROVE NeverStarved'
  BY <1>5 DEF Prepare, NeverStarved
<1>6. ASSUME NEW n \in 0..MaxFrames, Decode(n) PROVE NeverStarved'
  BY <1>6 DEF Decode, NeverStarved
<1>7. ASSUME RejectFrame \/ SubmitFails \/ EndSample PROVE NeverStarved'
  BY <1>7 DEF RejectFrame, SubmitFails, EndSample, Return, NeverStarved
<1>8. ASSUME NEW r \in Reqs, NEW h \in Headers, ChangeSession(r, h) PROVE NeverStarved'
  BY <1>8 DEF ChangeSession, Return, Fed, NeverStarved
<1>9. ASSUME UNCHANGED result PROVE NeverStarved'
  BY <1>9 DEF Fed, NeverStarved
<1>10. QED
  BY <1>1, <1>3, <1>4, <1>5, <1>6, <1>7, <1>8, <1>9
  DEF Next, Fed, vars, ShowExisting, Submitted, Refresh, FinishHidden, FinishShown

(* One surface more than there are reference slots is enough for           *)
(* conforming streams: decode() never answers "no free surface" (vp9.rs,   *)
(* SURFACES; 8 reference slots, 10 surfaces).                              *)
THEOREM EnoughSurfaces ==
  ASSUME Conforming, Cardinality(RefIdx) < Cardinality(Slots)
  PROVE  Spec => []NeverStarved
<1>1. Init => Fed
  BY InitCounted DEF Init, Fed, NeverStarved
<1>2. QED
  BY <1>1, NextFed, PTL DEF Spec, Fed

-----------------------------------------------------------------------------
(* Vp9Decoder implements SurfacePool. *)

(* What the holders keep, or is being decoded into. *)
Known == {refs[i] : i \in RefIdx} \cup {shown, returned, target, None}

LEMMA KnownIsLive == Known \subseteq Pool!Live \cup {None}
<1>1. \A i \in RefIdx : hold[i] = refs[i]
  BY SlotsAssumption DEF hold, Holders, ShownHolder, ReturnedHolder
<1>2. hold[ShownHolder] = shown /\ hold[ReturnedHolder] = returned
  BY DEF hold, Holders, ShownHolder, ReturnedHolder
<1>3. RefIdx \subseteq Holders /\ ShownHolder \in Holders /\ ReturnedHolder \in Holders
  BY DEF Holders
<1>4. QED
  BY <1>1, <1>2, <1>3 DEF Known, Pool!Live, Pool!Held

(* A step whose holders end with surfaces that were live is a Pass. *)
LEMMA PassStep ==
  ASSUME shown' \in Known, returned' \in Known, \A i \in RefIdx : refs'[i] \in Known,
         target' \in {target, None}
  PROVE  Pool!Pass
<1>1. \A x \in Holders : hold'[x] \in Known
  BY DEF hold, Holders
<1>2. hold' \in [Holders -> Pool!Live \cup {None}]
  <2>1. hold' = [x \in Holders |-> hold'[x]]
    BY DEF hold
  <2>2. QED
    BY <1>1, <2>1, KnownIsLive
<1>3. QED
  BY <1>2 DEF Pool!Pass

LEMMA InitPool == Init => Pool!Init
<1> SUFFICES ASSUME Init PROVE Pool!Init
  OBVIOUS
<1>1. hold = [x \in Holders |-> None]
  BY DEF Init, hold, Holders
<1>2. QED
  BY <1>1 DEF Init, Pool!Init

LEMMA NextPool ==
  ASSUME Counted, [Next]_vars
  PROVE  [Pool!Next]_Pool!vars
<1> SUFFICES Pool!Pass \/ Pool!Write
  BY DEF Pool!Next
<1> USE DEF Known
<1>1. ASSUME NEW r \in Reqs, Restart(r), shown' \in {shown, None}, target' \in {target, None}
      PROVE  Pool!Pass
  BY <1>1, PassStep DEF Restart
<1>2. ASSUME NEW r \in Reqs, Prepare(r) PROVE Pool!Pass
  BY <1>1, <1>2 DEF Prepare
<1>3. ASSUME NEW r \in Reqs, NEW h \in Headers, ChangeSession(r, h) PROVE Pool!Pass
  BY <1>1, <1>3 DEF ChangeSession, Return
<1>4. ASSUME shown' \in Known, returned' \in {returned, None}, refs' = refs,
             target' \in {target, None}
      PROVE  Pool!Pass
  BY <1>4, PassStep
<1>5. ASSUME NEW n \in 0..MaxFrames, Decode(n) PROVE Pool!Pass
  BY <1>4, <1>5 DEF Decode
<1>6. CASE RejectFrame \/ SubmitFails \/ Submitted \/ FinishHidden \/ FinishShown
  BY <1>4, <1>6
  DEF RejectFrame, SubmitFails, Submitted, FinishHidden, FinishShown, Return, Show
<1>7. ASSUME NEW i \in RefIdx, ShowExisting(i) PROVE Pool!Pass
  BY <1>4, <1>7 DEF ShowExisting, Show
<1>8. ASSUME NEW h, NEW reads, Acquire(h, reads), left > 0, pc \in {"frame", "session"}
      PROVE  Pool!Pass \/ Pool!Write
  <2>1. CASE FreeSlots = {}
    BY <1>4, <1>8, <2>1 DEF Acquire, Return
  <2>2. CASE FreeSlots # {}
    <3>1. target' \in Slots \ inUse /\ UNCHANGED <<shown, refs, returned>>
      BY <1>8, <2>2 DEF Acquire, FreeSlots
    <3>2. target = None /\ shown = None /\ returned = None
      BY <1>8 DEF Counted, Typed, TypeOK, Locals, ShownLast
    <3>3. \A x \in Holders : hold[x] # None => hold[x] \in inUse
      <4>1. \A i \in RefIdx : refs[i] # None => refs[i] \in inUse
        BY HeldIsUsed
      <4>2. QED
        BY <3>2, <4>1 DEF hold, Holders
    <3>4. hold' = hold
      BY <3>1 DEF hold
    <3>5. target' \notin Pool!Held(hold)
      BY <3>1, <3>3 DEF Pool!Held
    <3>6. QED
      BY <3>1, <3>2, <3>4, <3>5 DEF Pool!Write
  <2>3. QED
    BY <2>1, <2>2
<1>9. ASSUME NEW h \in Headers, NEW reads \in SUBSET RefIdx, StartFrame(h, reads)
      PROVE  Pool!Pass \/ Pool!Write
  BY <1>8, <1>9 DEF StartFrame
<1>10. CASE StartKeyFrame
  BY <1>8, <1>10 DEF StartKeyFrame, Counted, Typed, Locals
<1>11. ASSUME NEW i \in RefIdx, Refresh(i) PROVE Pool!Pass
  <2>1. refs' = [refs EXCEPT ![i] = target] /\ UNCHANGED <<shown, returned, target>>
    BY <1>11 DEF Refresh, RefreshSlot
  <2>2. \A j \in RefIdx : refs'[j] \in Known
    BY <2>1 DEF Counted, Typed, TypeOK
  <2>3. QED
    BY <2>1, <2>2, PassStep
<1>12. CASE EndSample
  BY <1>12, PassStep DEF EndSample, Return
<1>13. CASE UNCHANGED vars
  BY <1>4, <1>13 DEF vars
<1>14. QED
  BY <1>2, <1>3, <1>5, <1>6, <1>7, <1>9, <1>10, <1>11, <1>12, <1>13 DEF Next

(* On conforming streams the decoder never decodes into a surface that a   *)
(* reference slot, the picture to return or the picture returned needs.    *)
THEOREM ImplementsPool ==
  ASSUME Conforming
  PROVE  Spec => PoolSpec
  BY InitCounted, NextCounted, InitPool, NextPool, PTL DEF Spec, PoolSpec, Pool!Spec

==============================================================================
