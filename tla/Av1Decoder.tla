----------------------------- MODULE Av1Decoder -----------------------------
(***************************************************************************)
(* The AV1 decoder of src/src/av1.rs over the surface pool of a            *)
(* src/src/session.rs DecodeSession.                                       *)
(*                                                                         *)
(* decode() takes a temporal unit and goes through its OBUs: sequence      *)
(* headers, frame headers, tile groups.  A frame is decoded once all its   *)
(* tiles are there.  A frame with film grain has two surfaces, one for     *)
(* later frames to read and one to show, and a reference slot keeps both.  *)
(* A unit with spatial layers shows several frames; the last is returned.  *)
(* As in Vp9Decoder calls do not overlap, and a step lies between two      *)
(* decisions of the stream or the driver, or is one round of a loop.       *)
(***************************************************************************)
EXTENDS Integers, FiniteSets, Sequences

CONSTANTS
  RefIdx,       (* reference slots of the bitstream, 0..7                 *)
  Reqs,         (* the Av1Requirements a sequence may have                *)
  Grain,        (* those with film grain                                  *)
  MaxObus,      (* bound: OBUs in one temporal unit                       *)
  MaxTiles,     (* bound: tiles of a frame                                *)
  Conforming,   (* only units with the sequence header ahead of the       *)
                (* frames, and that do not fail after a frame was shown   *)
  None          (* Option::None                                           *)

(* What a frame header says: whether to show the frame, the reference slots *)
(* it refreshes, whether it has film grain, and its tiles.                 *)
Headers == [show : BOOLEAN, mask : SUBSET RefIdx, grain : BOOLEAN, tiles : 1..MaxTiles]

(* A frame waiting for its tiles: those collected, and the one due next. *)
Pendings == [hdr : Headers, got : Seq(0..MaxTiles), next : 0..MaxTiles]

ASSUME RefAssumption ==
  /\ RefIdx \subseteq Nat
  /\ IsFiniteSet(RefIdx)
  /\ Grain \subseteq Reqs
  /\ None \notin Reqs \cup {"here"} \cup Nat
  /\ None \notin Pendings
  /\ MaxObus \in Nat
  /\ MaxTiles \in Nat \ {0}
  /\ Conforming \in BOOLEAN

REFS == Cardinality(RefIdx)

(* Mutant of Surfaces: nothing beside the reference slots and the frame.   *)
SurfacesOneLess(r) == IF r \in Grain THEN 2 * (REFS + 1) ELSE REFS + 1

(* Av1Requirements::surfaces() *)
Surfaces(r) == IF r \in Grain THEN 2 * (REFS + 1) + 1 ELSE REFS + 2

AllSlots == 0..(2 * (REFS + 1))

VARIABLES
  display,        (* the Display: "here", or None                         *)
  session,        (* the DecodeSession: what it is a session for, or None *)
  inUse,          (* the slots taken: where DecodeSession.in_use is true  *)
  requirements,   (* what the session was made for, or None               *)
  sequence,       (* the sequence header in force: what it asks, or None  *)
  state,          (* the reference slots with header state                *)
  users,          (* users of each surface slot                           *)
  refs,           (* the decoded surface of each reference slot, or None  *)
  shown,          (* the surface a show_existing_frame of it shows        *)
  returned,       (* the surface of the picture last returned, or None    *)
  pc,             (* where the running call is                            *)
  left,           (* OBUs of the temporal unit not yet read               *)
  pending,        (* the frame whose tiles are being collected, or None   *)
  target,         (* decode_frame()'s local: the surface decoded into     *)
  dtarget,        (* decode_frame()'s local: the display surface, or None *)
  mask,           (* the reference slots yet to be stored                 *)
  index,          (* show_existing()'s local: the slot shown, or None     *)
  picture,        (* decode()'s local `shown`: the frame to return        *)
  result          (* what the last call came to                           *)

pool == <<display, session, requirements>>
stream == <<sequence, state>>
locals == <<left, pending, target, dtarget, mask, index, picture>>
vars == <<pool, stream, inUse, users, refs, shown, returned, pc, locals, result>>

TypeOK ==
  /\ display \in {"here", None}
  /\ session \in Reqs \cup {None}
  /\ inUse \in SUBSET AllSlots
  /\ requirements \in Reqs \cup {None}
  /\ sequence \in Reqs \cup {None}
  /\ state \in SUBSET RefIdx
  /\ users \in [AllSlots -> Nat]
  /\ refs \in [RefIdx -> AllSlots \cup {None}]
  /\ shown \in [RefIdx -> AllSlots \cup {None}]
  /\ returned \in AllSlots \cup {None}
  /\ pc \in {"idle", "obus", "decode", "submit", "store", "load"}
  /\ left \in 0..MaxObus
  /\ pending = None \/ pending \in Pendings
  /\ target \in AllSlots \cup {None}
  /\ dtarget \in AllSlots \cup {None}
  /\ mask \in SUBSET RefIdx
  /\ index \in RefIdx \cup {None}
  /\ picture \in AllSlots \cup {None}
  /\ result \in {"none", "ok", "error", "starved"}

-----------------------------------------------------------------------------
(* The pool.                                                               *)

FreeSlots == {s \in AllSlots : session # None /\ s < Surfaces(session)} \ inUse

(* acquire() takes the lowest free slot. *)
Lowest(S) == CHOOSE s \in S : \A t \in S : s <= t

(* retain(), on user counts u. *)
Retain(u, s) == [u EXCEPT ![s] = @ + 1]

Less(u, s) == IF s = None THEN u ELSE [u EXCEPT ![s] = IF @ = 0 THEN 0 ELSE @ - 1]

(* unuse() of the two slots of ss, or None, on user counts u: the count    *)
(* saturates at zero, and the last user gives the slot back.               *)
LetGo(u, ss) ==
  LET Free(b, v, s) == IF s = None \/ v[s] # 0 THEN b ELSE b \ {s}
      u1 == Less(u, ss[1])
      u2 == Less(u1, ss[2])
  IN  /\ users' = u2
      /\ inUse' = Free(Free(inUse, u1, ss[1]), u2, ss[2])

Init ==
  /\ display = "here" /\ session = None /\ requirements = None
  /\ sequence = None /\ state = {}
  /\ inUse = {} /\ users = [s \in AllSlots |-> 0]
  /\ refs = [i \in RefIdx |-> None] /\ shown = [i \in RefIdx |-> None]
  /\ returned = None
  /\ pc = "idle" /\ left = 0 /\ pending = None
  /\ target = None /\ dtarget = None /\ mask = {} /\ index = None /\ picture = None
  /\ result = "none"

(* The call returns e; what it had to show so far is dropped. *)
Return(e) ==
  /\ pc' = "idle" /\ left' = 0 /\ pending' = None
  /\ target' = None /\ dtarget' = None /\ mask' = {} /\ index' = None /\ picture' = None
  /\ result' = e

(* Where a call may fail. *)
MayFail == Conforming => picture = None

-----------------------------------------------------------------------------
(* Sessions.                                                               *)

(* ensure_session() when the running session does not serve r: the display *)
(* moves from the old session to the new, or stays when that is refused.   *)
Restart(r) ==
  /\ display # None \/ session # None
  /\ inUse' = {}
  /\ users' = [s \in AllSlots |-> 0]
  /\ refs' = [i \in RefIdx |-> None]
  /\ shown' = [i \in RefIdx |-> None]
  /\ state' = {}
  /\ returned' = None
  /\ \/ session' = r /\ display' = None /\ requirements' = r
     \/ session' = None /\ display' = "here" /\ requirements' = None

(* prepare(), between two temporal units. *)
Prepare(r) ==
  /\ pc = "idle"
  /\ \/ requirements = r /\ session # None
        /\ UNCHANGED <<pool, state, inUse, users, refs, shown, returned>>
     \/ ~(requirements = r /\ session # None) /\ Restart(r)
  /\ sequence' = IF session' # None THEN r ELSE sequence
  /\ result' = IF session' # None THEN "ok" ELSE "error"
  /\ UNCHANGED <<pc, locals>>

-----------------------------------------------------------------------------
(* decode()                                                                *)

Decode(n) ==
  /\ pc = "idle"
  /\ LetGo(users, <<returned, None>>)
  /\ returned' = None
  /\ left' = n
  /\ pc' = "obus"
  /\ result' = "none"
  /\ UNCHANGED <<pool, stream, refs, shown, pending, target, dtarget, mask, index, picture>>

(* An OBU that ends the call before anything changes: one that does not    *)
(* parse, a sequence outside the bridge's scope, a frame header before a   *)
(* sequence header or before the last frame's tiles, a tile group without  *)
(* a frame header or out of order, an empty slot shown, a frame too large  *)
(* or that refers to an empty slot.                                        *)
RejectObu ==
  /\ \/ pc = "obus" /\ left > 0
     \/ pc = "decode"
  /\ MayFail
  /\ Return("error")
  /\ UNCHANGED <<pool, stream, inUse, users, refs, shown, returned>>

(* A sequence header replaces the session when it asks for another one. *)
SequenceHeader(r) ==
  /\ pc = "obus" /\ left > 0
  /\ Conforming => picture = None /\ pending = None
  /\ \/ requirements = r
        /\ UNCHANGED <<pool, state, inUse, users, refs, shown, returned>>
     \/ requirements # r /\ Restart(r)
  /\ IF session' # None
     THEN /\ sequence' = r
          /\ left' = left - 1
          /\ UNCHANGED <<pc, pending, target, dtarget, mask, index, picture, result>>
     ELSE /\ Return("error")
          /\ UNCHANGED sequence

(* After an OBU: a frame with all its tiles is decoded. *)
Collect(p) ==
  /\ pending' = p
  /\ pc' = IF p.next = p.hdr.tiles THEN "decode" ELSE "obus"
  /\ left' = left - 1

Tiles(first, last) == [k \in 1..(last - first + 1) |-> first + k - 1]

(* Mutant of FrameHeader: a frame beyond the end of the temporal unit.     *)
FrameHeaderBeyond(h, last) ==
  /\ pc = "obus"
  /\ pending = None
  /\ sequence # None
  /\ h.grain => sequence \in Grain
  /\ last < h.tiles
  /\ Collect([hdr |-> h, got |-> Tiles(0, last), next |-> last + 1])
  /\ UNCHANGED <<pool, stream, inUse, users, refs, shown, returned, target, dtarget,
                 mask, index, picture, result>>

(* OBU_FRAME_HEADER; OBU_FRAME also has the first tile group, 0..last.     *)
(* Where the unit must not fail, that has all the tiles.                   *)
FrameHeader(h, last) ==
  /\ pc = "obus" /\ left > 0
  /\ pending = None
  /\ sequence # None
  /\ h.grain => sequence \in Grain
  /\ last < h.tiles
  /\ MayFail \/ last = h.tiles - 1
  /\ Collect([hdr |-> h, got |-> Tiles(0, last), next |-> last + 1])
  /\ UNCHANGED <<pool, stream, inUse, users, refs, shown, returned, target, dtarget,
                 mask, index, picture, result>>

(* Mutant of TileGroup: no check of the tile a group starts with.          *)
TileGroupAnywhere(first, last) ==
  /\ pc = "obus" /\ left > 0
  /\ pending # None
  /\ first <= last /\ last < pending.hdr.tiles
  /\ Collect([pending EXCEPT !.got = @ \o Tiles(first, last), !.next = last + 1])
  /\ UNCHANGED <<pool, stream, inUse, users, refs, shown, returned, target, dtarget,
                 mask, index, picture, result>>

TileGroup(first, last) ==
  /\ pc = "obus" /\ left > 0
  /\ pending # None
  /\ first = pending.next
  /\ first <= last /\ last < pending.hdr.tiles
  /\ Collect([pending EXCEPT !.got = @ \o Tiles(first, last), !.next = last + 1])
  /\ UNCHANGED <<pool, stream, inUse, users, refs, shown, returned, target, dtarget,
                 mask, index, picture, result>>

-----------------------------------------------------------------------------
(* decode_frame()                                                          *)

(* The surface to decode into and, with film grain, one to show.  Too few  *)
(* free surfaces fail the call with none taken.                            *)
Acquire ==
  /\ pc = "decode"
  /\ requirements # None
  /\ LET need == IF pending.hdr.grain THEN 2 ELSE 1
     IN  IF Cardinality(FreeSlots) < need
         THEN Return("starved") /\ inUse' = inUse
         ELSE /\ target' = Lowest(FreeSlots)
              /\ dtarget' = IF need = 2 THEN Lowest(FreeSlots \ {target'}) ELSE None
              /\ inUse' = inUse \cup ({target', dtarget'} \ {None})
              /\ pc' = "submit"
              /\ UNCHANGED <<left, pending, mask, index, picture, result>>
  /\ UNCHANGED <<pool, stream, users, refs, shown, returned>>

(* Mutant of SubmitFails: only the target goes back.                       *)
SubmitFailsKeepsDisplay ==
  /\ pc = "submit"
  /\ MayFail
  /\ inUse' = inUse \ {target}
  /\ Return("error")
  /\ UNCHANGED <<pool, stream, users, refs, shown, returned>>

(* submit() or a sync() fails: both surfaces go back. *)
SubmitFails ==
  /\ pc = "submit"
  /\ MayFail
  /\ inUse' = inUse \ {target, dtarget}
  /\ Return("error")
  /\ UNCHANGED <<pool, stream, users, refs, shown, returned>>

ToShow == IF dtarget = None THEN target ELSE dtarget

(* The driver decoded the frame. *)
Submitted ==
  /\ pc = "submit"
  /\ users' = [s \in AllSlots |-> IF s \in {target, dtarget} THEN 0 ELSE users[s]]
  /\ mask' = pending.hdr.mask
  /\ pc' = "store"
  /\ UNCHANGED <<pool, stream, inUse, refs, shown, returned, left, pending, target, dtarget,
                 index, picture, result>>

(* Mutants of StoreSlot: without a display surface the target gets one     *)
(* user less; the display surface gets none.                               *)
StoreSlotOneUser(i, d, s) ==
  /\ LetGo(IF d = s THEN Retain(users, d) ELSE Retain(Retain(users, d), s),
           <<refs[i], shown[i]>>)
  /\ refs' = [refs EXCEPT ![i] = d]
  /\ shown' = [shown EXCEPT ![i] = s]
  /\ mask' = mask \ {i}

StoreSlotDisplayUnused(i, d, s) ==
  /\ LetGo(Retain(Retain(users, d), d), <<refs[i], shown[i]>>)
  /\ refs' = [refs EXCEPT ![i] = d]
  /\ shown' = [shown EXCEPT ![i] = s]
  /\ mask' = mask \ {i}

(* Reference slot i takes surface d, and s to show: one round of the loop  *)
(* of either update.                                                       *)
StoreSlot(i, d, s) ==
  /\ LetGo(Retain(Retain(users, d), s), <<refs[i], shown[i]>>)
  /\ refs' = [refs EXCEPT ![i] = d]
  /\ shown' = [shown EXCEPT ![i] = s]
  /\ mask' = mask \ {i}

Store(i) ==
  /\ pc = "store"
  /\ i \in mask /\ \A j \in mask : i <= j
  /\ StoreSlot(i, target, ToShow)
  /\ UNCHANGED <<pool, stream, returned, pc, left, pending, target, dtarget, index, picture,
                 result>>

(* state.update(), the shown frame's user, settle() of both surfaces, and  *)
(* decode()'s `shown.replace`.                                             *)
FinishFrame ==
  /\ pc = "store" /\ mask = {}
  /\ state' = state \cup pending.hdr.mask
  /\ IF pending.hdr.show
     THEN /\ users' = Less(Retain(users, ToShow), picture)
          /\ inUse' = {s \in inUse : s \in {picture, target, dtarget} => users'[s] > 0}
          /\ picture' = ToShow
     ELSE /\ inUse' = {s \in inUse : s \in {target, dtarget} => users[s] > 0}
          /\ UNCHANGED <<users, picture>>
  /\ pc' = "obus" /\ pending' = None /\ target' = None /\ dtarget' = None
  /\ UNCHANGED <<pool, sequence, refs, shown, returned, left, mask, index, result>>

-----------------------------------------------------------------------------
(* show_existing()                                                         *)

(* Reference slot i is shown; a key frame is then loaded into every slot. *)
ShowExisting(i, key) ==
  /\ pc = "obus" /\ left > 0
  /\ pending = None /\ sequence # None
  /\ i \in state /\ shown[i] # None
  /\ users' = Retain(users, shown[i])
  /\ index' = i
  /\ mask' = IF key THEN RefIdx \ {i} ELSE {}
  /\ pc' = "load"
  /\ left' = left - 1
  /\ UNCHANGED <<pool, stream, inUse, refs, shown, returned, pending, target, dtarget,
                 picture, result>>

Load(i) ==
  /\ pc = "load"
  /\ i \in mask /\ \A j \in mask : i <= j
  /\ StoreSlot(i, refs[index], shown[index])
  /\ state' = state \cup {i}
  /\ UNCHANGED <<pool, sequence, returned, pc, left, pending, target, dtarget, index,
                 picture, result>>

(* The frame shown replaces the one decode() had to return. *)
FinishShow ==
  /\ pc = "load" /\ mask = {}
  /\ picture' = shown[index]
  /\ LetGo(users, <<picture, None>>)
  /\ index' = None
  /\ pc' = "obus"
  /\ UNCHANGED <<pool, stream, refs, shown, returned, left, pending, target, dtarget, mask,
                 result>>

(* The temporal unit is read: it must not end inside a frame. *)
EndUnit ==
  /\ pc = "obus" /\ left = 0
  /\ IF pending = None
     THEN returned' = picture /\ Return("ok")
     ELSE Return("error") /\ returned' = returned
  /\ UNCHANGED <<pool, stream, inUse, users, refs, shown>>

-----------------------------------------------------------------------------
Next ==
  \/ \E r \in Reqs : Prepare(r) \/ SequenceHeader(r)
  \/ \E n \in 0..MaxObus : Decode(n)
  \/ RejectObu
  \/ \E h \in Headers, last \in -1..(MaxTiles - 1) : FrameHeader(h, last)
  \/ \E first, last \in 0..(MaxTiles - 1) : TileGroup(first, last)
  \/ Acquire \/ SubmitFails \/ Submitted
  \/ \E i \in RefIdx : Store(i) \/ Load(i)
  \/ FinishFrame
  \/ \E i \in RefIdx, key \in BOOLEAN : ShowExisting(i, key)
  \/ FinishShow
  \/ EndUnit

Spec == Init /\ [][Next]_vars

-----------------------------------------------------------------------------
(* Properties.                                                             *)

One(b) == IF b THEN 1 ELSE 0

(* Who uses surface s: the reference slots, once for its decoded surface   *)
(* and once for the one to show, the picture last returned, the picture    *)
(* decode() is going to return, and the one show_existing() is showing.    *)
Uses(s) ==
  Cardinality({i \in RefIdx : refs[i] = s}) + Cardinality({i \in RefIdx : shown[i] = s})
    + One(returned = s) + One(picture = s) + One(index # None /\ shown[index] = s)

(* The count kept for each surface is the number of its users, at every    *)
(* step, with and without film grain.                                      *)
UsersExact == \A s \in AllSlots : users[s] = Uses(s)

(* A slot of the session is taken exactly while it has a user or a frame   *)
(* is being decoded into it: nothing leaks, nothing is given back early.   *)
PoolExact == \A s \in AllSlots : s \in inUse <=> (users[s] > 0 \/ s \in {target, dtarget})

(* A frame is decoded from each of its tiles once, in order. *)
TilesOnce == pc = "decode" => pending.got = Tiles(0, pending.hdr.tiles - 1)

(* The surfaces a session is made with are enough: neither "no free        *)
(* surface" nor "no free display surface" is ever answered.                *)
NeverStarved == result # "starved"

(* The decoder keeps the promise of SurfacePool: with the two surfaces of  *)
(* each reference slot, the picture to return and the picture returned as  *)
(* the holders, no surface somebody holds is decoded into.                 *)
Holders == ({"decoded", "shown"} \X RefIdx) \cup {<<"picture", 0>>, <<"returned", 0>>}

hold == [x \in Holders |->
           CASE x[1] = "decoded" -> refs[x[2]]
             [] x[1] = "shown" -> shown[x[2]]
             [] x[1] = "picture" -> picture
             [] x[1] = "returned" -> returned]

Pool == INSTANCE SurfacePool WITH Slots <- AllSlots, writing <- {target, dtarget} \ {None}

PoolSpec == Pool!Spec

=============================================================================
