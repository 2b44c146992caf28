----------------------------- MODULE Vp9Decoder -----------------------------
(***************************************************************************)
(* The VP9 decoder of src/src/vp9.rs over the surface pool of a            *)
(* src/src/session.rs DecodeSession.                                       *)
(*                                                                         *)
(* One call of decode() takes a sample (a frame or a superframe) and steps *)
(* through its frames.  The decoder is used through &mut self, so calls    *)
(* do not overlap; what varies is what each frame header says, what the    *)
(* driver answers, and what the caller does between two calls.  A step is  *)
(* one stretch of decode_frame between two decisions of the driver, or one *)
(* iteration of its reference refresh loop.                                *)
(***************************************************************************)
EXTENDS Integers, FiniteSets

CONSTANTS
  Slots,        (* surface slots of a session, SURFACES = 10 of them      *)
  RefIdx,       (* reference slots of the bitstream, 0..7                 *)
  Reqs,         (* the Vp9Requirements a stream may ask for               *)
  MaxFrames,    (* bound: frames in one superframe                        *)
  Conforming,   (* only samples whose shown frame, if any, comes last     *)
  None          (* Option::None                                           *)

ASSUME SlotsAssumption ==
  /\ Slots \subseteq Nat
  /\ IsFiniteSet(Slots)
  /\ IsFiniteSet(RefIdx)
  /\ RefIdx \subseteq Nat
  /\ None \notin Slots
  /\ None \notin Reqs \cup {"here"}
  /\ MaxFrames \in Nat
  /\ Conforming \in BOOLEAN

VARIABLES
  display,        (* the Display: "here", or None                         *)
  session,        (* the DecodeSession (it holds the Display): what it is *)
                  (* a session for, or None                               *)
  inUse,          (* the slots taken: where DecodeSession.in_use is true *)
  requirements,   (* what the session was made for, or None               *)
  users,          (* users of each surface slot                           *)
  refs,           (* the surface of each reference slot, or None          *)
  returned,       (* the surface of the picture last returned, or None    *)
  pc,             (* where the running call is                            *)
  left,           (* frames of the sample not yet decoded                 *)
  shown,          (* decode()'s local: the frame to return, or None       *)
  target,         (* decode_frame()'s local: the surface decoded into     *)
  hdr,            (* the header being decoded: shown? refresh flags left  *)
  result          (* what the last call came to                           *)

pool == <<display, session, requirements>>
vars == <<display, session, inUse, requirements, users, refs, returned, pc,
          left, shown, target, hdr, result>>

NoHeader == [show |-> FALSE, mask |-> {}]
Headers  == [show : BOOLEAN, mask : SUBSET RefIdx]
Results  == {"none", "ok", "error", "starved"}

TypeOK ==
  /\ display \in {"here", None}
  /\ session \in Reqs \cup {None}
  /\ inUse \in SUBSET Slots
  /\ requirements \in Reqs \cup {None}
  /\ users \in [Slots -> Nat]
  /\ refs \in [RefIdx -> Slots \cup {None}]
  /\ returned \in Slots \cup {None}
  /\ pc \in {"idle", "frame", "session", "submit", "refresh"}
  /\ left \in 0..MaxFrames
  /\ shown \in Slots \cup {None}
  /\ target \in Slots \cup {None}
  /\ hdr \in Headers
  /\ result \in Results

-----------------------------------------------------------------------------
(* The pool: DecodeSession's slots and the decoder's user counts.          *)

FreeSlots == Slots \ inUse

(* retain(): one more user of slot s, on user counts u. *)
Retain(u, s) == [u EXCEPT ![s] = @ + 1]

(* unuse(): one user less; the count saturates at zero. *)
Unuse(u, s) == IF s = None THEN u ELSE [u EXCEPT ![s] = IF @ = 0 THEN 0 ELSE @ - 1]

(* unuse() gives the slot back to the session with its last user. *)
FreeUnused(b, u, s) == IF s = None \/ u[s] # 0 THEN b ELSE b \ {s}

(* One unuse() of slot s when the user counts are u. *)
LetGo(u, s) ==
  /\ users' = Unuse(u, s)
  /\ inUse' = FreeUnused(inUse, Unuse(u, s), s)

Init ==
  /\ display = "here"
  /\ session = None
  /\ inUse = {}
  /\ requirements = None
  /\ users = [s \in Slots |-> 0]
  /\ refs = [i \in RefIdx |-> None]
  /\ returned = None
  /\ pc = "idle"
  /\ left = 0
  /\ shown = None
  /\ target = None
  /\ hdr = NoHeader
  /\ result = "none"

-----------------------------------------------------------------------------
(* Sessions.                                                               *)

(* ensure_session() when the running session does not serve r: the old     *)
(* session gives its display up, every slot is forgotten, and a session is *)
(* made for r or, when the driver refuses, the display is kept.            *)
Restart(r) ==
  /\ display # None \/ session # None
  /\ inUse' = {}
  /\ users' = [s \in Slots |-> 0]
  /\ refs' = [i \in RefIdx |-> None]
  /\ returned' = None
  /\ \/ session' = r /\ display' = None /\ requirements' = r
     \/ session' = None /\ display' = "here" /\ requirements' = None

Serves(r) == session # None /\ requirements = r

(* prepare(): a caller may ask for a session ahead of the first key frame, *)
(* or for another one at any time between two samples.                     *)
Prepare(r) ==
  /\ pc = "idle"
  /\ ~Serves(r)
  /\ Restart(r)
  /\ result' = IF session' # None THEN "ok" ELSE "error"
  /\ UNCHANGED <<pc, left, shown, target, hdr>>

-----------------------------------------------------------------------------
(* decode()                                                                *)

(* The call starts: the picture last returned loses its user.  A sample    *)
(* with no frames is an error.                                             *)
Decode(n) ==
  /\ pc = "idle"
  /\ LetGo(users, returned)
  /\ returned' = None
  /\ left' = n
  /\ pc' = IF n = 0 THEN "idle" ELSE "frame"
  /\ result' = IF n = 0 THEN "error" ELSE "none"
  /\ UNCHANGED <<pool, refs, shown, target, hdr>>

(* The `?` of decode(): the call returns e, and the frame shown so far is  *)
(* dropped with the locals.                                                *)
Return(e) ==
  /\ pc' = "idle"
  /\ left' = 0
  /\ shown' = None
  /\ target' = None
  /\ hdr' = NoHeader
  /\ result' = e

(* A frame that is turned away before anything changes: a header that does *)
(* not parse, a format outside the bridge's scope, a frame of another size *)
(* than the session's outside a key frame, a frame before the first key    *)
(* frame, a reference to an empty slot.                                    *)
RejectFrame ==
  /\ pc \in {"frame", "session"} /\ left > 0
  /\ Return("error")
  /\ UNCHANGED <<pool, inUse, users, refs, returned>>

(* A sample shows at most its last frame, when the stream conforms. *)
MayShow == Conforming => left = 1

(* decode()'s loop body once decode_frame returned picture s to show: s is *)
(* the frame to return now, and the one it replaces loses its user.        *)
Show(s) ==
  /\ LetGo(Retain(users, s), shown)
  /\ shown' = s
  /\ left' = left - 1
  /\ pc' = "frame"

(* show_existing_frame of reference slot i. *)
ShowExisting(i) ==
  /\ pc = "frame" /\ left > 0
  /\ MayShow
  /\ refs[i] # None
  /\ Show(refs[i])
  /\ UNCHANGED <<pool, refs, returned, target, hdr, result>>

(* A key frame that asks for what the session does not serve replaces the  *)
(* session first; a refusal is the call's error.                           *)
ChangeSession(r, h) ==
  /\ pc = "frame" /\ left > 0
  /\ h.show => MayShow
  /\ h.mask = RefIdx
  /\ requirements # r
  /\ Restart(r)
  /\ IF session' # None
     THEN /\ pc' = "session"
          /\ hdr' = h
          /\ UNCHANGED <<left, shown, target, result>>
     ELSE Return("error")

(* Take the lowest free slot for the frame with header h, which reads the  *)
(* reference slots in reads.                                               *)
Acquire(h, reads) ==
  /\ \A i \in reads : refs[i] # None
  /\ IF FreeSlots = {}
     THEN Return("starved")
     ELSE /\ target' \in FreeSlots
          /\ \A s \in FreeSlots : target' <= s
          /\ pc' = "submit"
          /\ hdr' = h
          /\ UNCHANGED <<left, shown, result>>
  /\ inUse' = inUse \cup ({target'} \ {None})
  /\ UNCHANGED <<pool, users, refs, returned>>

(* Mutant of StartFrame: a frame more than the sample has.                 *)
StartFrameBeyondSample(h, reads) ==
  /\ pc = "frame"
  /\ h.show => MayShow
  /\ session # None
  /\ Acquire(h, reads)

(* decode_frame() up to the submission, for a frame the running session    *)
(* serves, or for the key frame the session was just made for.             *)
StartFrame(h, reads) ==
  /\ pc = "frame" /\ left > 0
  /\ h.show => MayShow
  /\ session # None
  /\ Acquire(h, reads)

StartKeyFrame == pc = "session" /\ Acquire(hdr, {})

(* Mutant of SubmitFails: `?` on submit() without the release.             *)
SubmitFailsLeaks ==
  /\ pc = "submit"
  /\ Return("error")
  /\ UNCHANGED <<pool, inUse, users, refs, returned>>

(* submit() or sync() fails: the target goes back to the pool. *)
SubmitFails ==
  /\ pc = "submit"
  /\ inUse' = inUse \ {target}
  /\ Return("error")
  /\ UNCHANGED <<pool, users, refs, returned>>

(* The driver decoded the frame. *)
Submitted ==
  /\ pc = "submit"
  /\ users' = [users EXCEPT ![target] = 0]
  /\ pc' = "refresh"
  /\ UNCHANGED <<pool, inUse, refs, returned, left, shown, target, hdr, result>>

(* Mutants of RefreshSlot: the surface replaced keeps its user; the target *)
(* gets none.                                                              *)
RefreshSlotKeepsOld(i) ==
  /\ users' = Retain(users, target)
  /\ inUse' = inUse
  /\ refs' = [refs EXCEPT ![i] = target]

RefreshSlotNotRetained(i) ==
  /\ LetGo(users, refs[i])
  /\ refs' = [refs EXCEPT ![i] = target]

(* One iteration of the refresh loop: reference slot i takes the target.   *)
RefreshSlot(i) ==
  /\ LetGo(Retain(users, target), refs[i])
  /\ refs' = [refs EXCEPT ![i] = target]

Refresh(i) ==
  /\ pc = "refresh"
  /\ i \in hdr.mask
  /\ \A j \in hdr.mask : i <= j
  /\ RefreshSlot(i)
  /\ hdr' = [hdr EXCEPT !.mask = @ \ {i}]
  /\ UNCHANGED <<pool, returned, pc, left, shown, target, result>>

(* Mutant of FinishHidden: nobody asks whether the surface is used.        *)
FinishHiddenLeaks ==
  /\ pc = "refresh" /\ hdr.mask = {} /\ ~hdr.show
  /\ target' = None
  /\ hdr' = NoHeader
  /\ left' = left - 1
  /\ pc' = "frame"
  /\ UNCHANGED <<pool, inUse, users, refs, returned, shown, result>>

(* A hidden frame no reference slot took gives its surface back. *)
FinishHidden ==
  /\ pc = "refresh" /\ hdr.mask = {} /\ ~hdr.show
  /\ inUse' = FreeUnused(inUse, users, target)
  /\ target' = None
  /\ hdr' = NoHeader
  /\ left' = left - 1
  /\ pc' = "frame"
  /\ UNCHANGED <<pool, users, refs, returned, shown, result>>

FinishShown ==
  /\ pc = "refresh" /\ hdr.mask = {} /\ hdr.show
  /\ Show(target)
  /\ target' = None
  /\ hdr' = NoHeader
  /\ UNCHANGED <<pool, refs, returned, result>>

(* Every frame is decoded: the call returns the frame shown last. *)
EndSample ==
  /\ pc = "frame" /\ left = 0
  /\ returned' = shown
  /\ Return("ok")
  /\ UNCHANGED <<pool, inUse, users, refs>>

-----------------------------------------------------------------------------
Next ==
  \/ \E r \in Reqs : Prepare(r)
  \/ \E n \in 0..MaxFrames : Decode(n)
  \/ RejectFrame
  \/ \E i \in RefIdx : ShowExisting(i)
  \/ \E r \in Reqs, h \in Headers : ChangeSession(r, h)
  \/ \E h \in Headers, reads \in SUBSET RefIdx : StartFrame(h, reads)
  \/ StartKeyFrame
  \/ SubmitFails
  \/ Submitted
  \/ \E i \in RefIdx : Refresh(i)
  \/ FinishHidden
  \/ FinishShown
  \/ EndSample

Spec == Init /\ [][Next]_vars

-----------------------------------------------------------------------------
(* Properties.                                                             *)

(* Who uses surface s: the reference slots that hold it, the picture last  *)
(* returned, and the picture the running call is going to return.          *)
RefUses(r, s) == Cardinality({i \in RefIdx : r[i] = s})

Uses(s) ==
  RefUses(refs, s)
    + (IF returned = s THEN 1 ELSE 0) + (IF shown = s THEN 1 ELSE 0)

(* The count kept for each surface is the number of its users, at every    *)
(* step of every call: failed, refused and half-done calls included.       *)
UsersExact == \A s \in Slots : users[s] = Uses(s)

(* The session's slot is taken exactly while somebody uses it or a frame   *)
(* is being decoded into it: nothing leaks, nothing is given back early.   *)
PoolExact == \A s \in Slots : s \in inUse <=> (users[s] > 0 \/ s = target)

(* The Display is in exactly one place, the decoder or its session, and    *)
(* the requirements on record are the running session's: a refused session *)
(* loses neither ("decoder lost its display" is never reported).           *)
DisplayHeldOnce ==
  /\ display = None <=> session # None
  /\ requirements = session

(* SURFACES is enough: decode() never reports "no free surface".           *)
NeverStarved == result # "starved"

(* A surface a reference slot holds is taken in the session, so it cannot  *)
(* be handed out as a decode target while the slot needs it.               *)
RefsHeld == \A i \in RefIdx : refs[i] # None => refs[i] \in inUse

(* The decoder keeps the promise of SurfacePool, with the reference slots, *)
(* the picture to return and the picture returned as the holders.          *)
ShownHolder == -1
ReturnedHolder == -2
Holders == RefIdx \cup {ShownHolder, ReturnedHolder}

hold == [x \in Holders |->
           IF x = ShownHolder THEN shown
           ELSE IF x = ReturnedHolder THEN returned
           ELSE refs[x]]

Pool == INSTANCE SurfacePool WITH writing <- {target} \ {None}

PoolSpec == Pool!Spec

=============================================================================
