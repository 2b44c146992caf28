---------------------------- MODULE H264Decoder ----------------------------
(***************************************************************************)
(* The H.264 decoder of src/src/h264.rs over the surface pool of a         *)
(* src/src/session.rs DecodeSession.                                       *)
(*                                                                         *)
(* decode() is fed NAL units.  A unit that begins an access unit, or the   *)
(* first slice of a picture, first finishes the picture in progress: it is *)
(* decoded, joins the DPB if later pictures refer to it, and is put out.   *)
(* The decoded picture buffer itself is the bitstream crate's (external):  *)
(* here it is the set of its frame stores, and marking a picture may drop  *)
(* any of them as long as max_num_ref_frames stay.                         *)
(***************************************************************************)
EXTENDS Integers, FiniteSets, Sequences

CONSTANTS
  SpsIds,       (* ids of sequence parameter sets                         *)
  Reqs,         (* the H264Requirements they may ask for                  *)
  MaxRefs,      (* max_num_ref_frames of each                             *)
  MaxUnits,     (* bound: NAL units fed to one call                       *)
  Paced,        (* a call that has completed a picture does not fail, and *)
                (* finishes no other; it may still change the session     *)
  None          (* Option::None                                           *)

ASSUME H264Assumption ==
  /\ SpsIds \subseteq Nat
  /\ MaxRefs \in [Reqs -> 0..16]
  /\ MaxUnits \in Nat
  /\ Paced \in BOOLEAN
  /\ None \notin Reqs \cup Nat \cup {"here"}
  /\ None \notin [req : Reqs, idr : BOOLEAN, ref : BOOLEAN]

Clamp(n, low, high) == IF n < low THEN low ELSE IF n > high THEN high ELSE n

(* requirements(): the surfaces a session for r has. *)
Surfaces(r) == Clamp(MaxRefs[r] + 2, 4, 18)

Largest == CHOOSE n \in {Surfaces(r) : r \in Reqs} : \A r \in Reqs : Surfaces(r) <= n
AllSlots == 0..(Largest - 1)
Keys == 0..(Largest - 2)

VARIABLES
  display,        (* the Display: "here", or None                         *)
  session,        (* the DecodeSession: what it is a session for, or None *)
  inUse,          (* the slots taken: where DecodeSession.in_use is true  *)
  requirements,   (* what the session was made for, or None               *)
  sps,            (* the parser's sequence parameter sets, by id          *)
  dpb,            (* the keys of the DPB's frame stores                   *)
  slots,          (* the surface slot of each frame store, or None        *)
  pending,        (* the picture in progress, or None                     *)
  returnedOnly,   (* slots put out since the last call the DPB lacks      *)
  out,            (* the pictures completed, not yet returned: their      *)
                  (* slots, None once the session they were decoded in    *)
                  (* is gone, though the code keeps the number            *)
  given,          (* the pictures the last call returned                  *)
  pc,             (* where the running call is                            *)
  left,           (* units of the call not yet pushed                     *)
  unit,           (* the unit being pushed, or None                       *)
  target,         (* decode_picture()'s local: the surface decoded into   *)
  result          (* what the last call came to                           *)

pool == <<display, session, requirements>>
vars == <<pool, inUse, sps, dpb, slots, pending, returnedOnly, out, given, pc,
          left, unit, target, result>>

Pictures == [req : Reqs, idr : BOOLEAN, ref : BOOLEAN]

Delimiters == [kind : {"delimiter"}]
SpsUnits   == [kind : {"sps"}, id : SpsIds, req : Reqs]
SliceUnits == [kind : {"slice"}, id : SpsIds, idr : BOOLEAN, ref : BOOLEAN, first : BOOLEAN]
Flushing   == [kind |-> "flush"]

(* An IDR picture is a reference picture. *)
Units == Delimiters \cup SpsUnits \cup {u \in SliceUnits : u.idr => u.ref}

TypeOK ==
  /\ display \in {"here", None}
  /\ session \in Reqs \cup {None}
  /\ inUse \in SUBSET AllSlots
  /\ requirements \in Reqs \cup {None}
  /\ sps \in [SpsIds -> Reqs \cup {None}]
  /\ dpb \in SUBSET Keys
  /\ slots \in [Keys -> AllSlots \cup {None}]
  /\ pending \in Pictures \cup {None}
  /\ returnedOnly \in SUBSET AllSlots
  /\ out \in Seq(AllSlots \cup {None})
  /\ given \in Seq(AllSlots \cup {None})
  /\ pc \in {"idle", "units", "finish", "submit", "push"}
  /\ left \in 0..MaxUnits
  /\ unit \in Units \cup {Flushing, None}
  /\ target \in AllSlots \cup {None}
  /\ result \in {"none", "ok", "error", "starved", "panic"}

FreeSlots == {s \in AllSlots : session # None /\ s < Surfaces(session)} \ inUse

Init ==
  /\ display = "here" /\ session = None /\ requirements = None
  /\ inUse = {}
  /\ sps = [i \in SpsIds |-> None]
  /\ dpb = {} /\ slots = [k \in Keys |-> None]
  /\ pending = None
  /\ returnedOnly = {} /\ out = <<>> /\ given = <<>>
  /\ pc = "idle" /\ left = 0 /\ unit = None /\ target = None
  /\ result = "none"

(* A call returns e; the pictures it completed wait in `out`. *)
Fail(e) ==
  /\ pc' = "idle" /\ left' = 0 /\ unit' = None
  /\ result' = e

MayFail == Paced => out = <<>>

-----------------------------------------------------------------------------
(* Sessions.                                                               *)

(* ensure_session() when the running session does not serve r: with the    *)
(* session go its surfaces, those of the pictures not yet returned too.    *)
Restart(r) ==
  /\ display # None \/ session # None
  /\ inUse' = {}
  /\ dpb' = {}
  /\ slots' = [k \in Keys |-> None]
  /\ returnedOnly' = {}
  /\ out' = [i \in DOMAIN out |-> None]
  /\ \/ session' = r /\ display' = None /\ requirements' = r
     \/ session' = None /\ display' = "here" /\ requirements' = None

Serves(r) == session # None /\ requirements = r

(* prepare(): for the sequence parameter set with the highest id. *)
Prepare(id) ==
  /\ pc = "idle"
  /\ sps[id] # None
  /\ \A j \in SpsIds : sps[j] # None => j <= id
  /\ \/ Serves(sps[id])
        /\ UNCHANGED <<pool, inUse, dpb, slots, returnedOnly, out>>
     \/ ~Serves(sps[id]) /\ Restart(sps[id])
  /\ given' = <<>>
  /\ result' = IF session' # None THEN "ok" ELSE "error"
  /\ UNCHANGED <<sps, pending, pc, left, unit, target>>

-----------------------------------------------------------------------------
(* decode() and flush()                                                    *)

(* Mutant of Decode: the pictures returned are never let go.               *)
DecodeHoldsReturned(n) ==
  /\ pc = "idle"
  /\ returnedOnly' = {}
  /\ given' = <<>>
  /\ pc' = "units" /\ left' = n
  /\ result' = "none"
  /\ UNCHANGED <<pool, inUse, sps, dpb, slots, pending, out, unit, target>>

(* decode() starts: what was returned and is no reference is let go. *)
Decode(n) ==
  /\ pc = "idle"
  /\ inUse' = inUse \ returnedOnly
  /\ returnedOnly' = {}
  /\ given' = <<>>
  /\ pc' = "units" /\ left' = n
  /\ result' = "none"
  /\ UNCHANGED <<pool, sps, dpb, slots, pending, out, unit, target>>

(* The units that finish the picture in progress before anything else. *)
Ends(u) == pending # None /\ (u.kind = "slice" => u.first)

(* With a picture completed, a call that is Paced finishes no other, and   *)
(* begins none that fails: its parameter set is there, and is the          *)
(* session's or comes with an IDR picture.  RejectUnit, RejectPicture and  *)
(* BeginPicture leave out the other ways to fail.                          *)
PacedUnit(u) ==
  Paced => /\ Ends(u) => out = <<>>
           /\ u.kind = "slice" /\ (Ends(u) \/ (pending = None /\ out # <<>>))
                => sps[u.id] # None /\ (Serves(sps[u.id]) \/ u.idr)

(* Mutant of Push: a unit more than the call was fed. *)
PushBeyond(u) ==
  /\ pc = "units"
  /\ PacedUnit(u)
  /\ left' = left - 1
  /\ unit' = u
  /\ pc' = IF Ends(u) THEN "finish" ELSE "push"
  /\ UNCHANGED <<pool, inUse, sps, dpb, slots, pending, returnedOnly, out, given, target,
                 result>>

(* Push the next unit; one that begins an access unit, or the first slice  *)
(* of a picture, first finishes the picture in progress.                   *)
Push(u) ==
  /\ pc = "units" /\ left > 0
  /\ PacedUnit(u)
  /\ left' = left - 1
  /\ unit' = u
  /\ pc' = IF Ends(u) THEN "finish" ELSE "push"
  /\ UNCHANGED <<pool, inUse, sps, dpb, slots, pending, returnedOnly, out, given, target,
                 result>>

(* A unit that does not parse, or of what the bridge does not do. *)
RejectUnit ==
  /\ pc = "units" /\ left > 0
  /\ MayFail
  /\ Fail("error")
  /\ UNCHANGED <<pool, inUse, sps, dpb, slots, pending, returnedOnly, out, given, target>>

Flush ==
  /\ pc = "idle"
  /\ given' = <<>>
  /\ unit' = Flushing
  /\ pc' = IF pending = None THEN "push" ELSE "finish"
  /\ result' = "none"
  /\ UNCHANGED <<pool, inUse, sps, dpb, slots, pending, returnedOnly, out, left, target>>

(* The pictures completed are returned. *)
Deliver ==
  /\ \/ pc = "units" /\ left = 0
     \/ pc = "push" /\ unit = Flushing
  /\ given' = out /\ out' = <<>>
  /\ Fail("ok")
  /\ UNCHANGED <<pool, inUse, sps, dpb, slots, pending, returnedOnly, target>>

-----------------------------------------------------------------------------
(* push(), once the picture before is finished.                            *)

TakeSps ==
  /\ pc = "push" /\ unit.kind = "sps"
  /\ sps' = [sps EXCEPT ![unit.id] = unit.req]
  /\ pc' = "units" /\ unit' = None
  /\ UNCHANGED <<pool, inUse, dpb, slots, pending, returnedOnly, out, given, left, target,
                 result>>

(* A unit that changes nothing here: it delimits pictures, or is one more  *)
(* slice of the picture in progress.                                       *)
TakeOther ==
  /\ pc = "push"
  /\ unit.kind = "delimiter" \/ (unit.kind = "slice" /\ pending # None)
  /\ pc' = "units" /\ unit' = None
  /\ UNCHANGED <<pool, inUse, sps, dpb, slots, pending, returnedOnly, out, given, left,
                 target, result>>

(* begin_picture(): an IDR picture may change the session.  A slice out of *)
(* order, a gap in frame_num, a stream outside the bridge's scope or one   *)
(* that changes without an IDR picture ends the call.                      *)
BeginPicture ==
  /\ pc = "push" /\ unit.kind = "slice" /\ pending = None
  /\ sps[unit.id] # None
  /\ LET r == sps[unit.id]
     IN  /\ \/ Serves(r)
               /\ UNCHANGED <<pool, inUse, dpb, slots, returnedOnly, out>>
            \/ ~Serves(r) /\ unit.idr /\ Restart(r)
         /\ IF session' # None
            THEN /\ pending' = [req |-> r, idr |-> unit.idr, ref |-> unit.ref]
                 /\ pc' = "units" /\ unit' = None
                 /\ UNCHANGED <<left, result>>
            ELSE /\ MayFail
                 /\ Fail("error")
                 /\ UNCHANGED pending
  /\ UNCHANGED <<sps, given, target>>

RejectPicture ==
  /\ pc = "push" /\ unit.kind = "slice" /\ pending = None
  /\ MayFail
  /\ Fail("error")
  /\ UNCHANGED <<pool, inUse, sps, dpb, slots, pending, returnedOnly, out, given, target>>

-----------------------------------------------------------------------------
(* finish_picture() and decode_picture()                                   *)

(* The lowest free slot; without one the DPB is put back as it was.  There *)
(* must be a session.                                                      *)
Acquire ==
  /\ pc = "finish"
  /\ IF FreeSlots = {}
     THEN /\ Fail(IF session = None THEN "panic" ELSE "starved")
          /\ pending' = None
          /\ UNCHANGED <<inUse, target>>
     ELSE /\ target' \in FreeSlots
          /\ \A s \in FreeSlots : target' <= s
          /\ inUse' = inUse \cup {target'}
          /\ pc' = "submit"
          /\ UNCHANGED <<pending, left, unit, result>>
  /\ UNCHANGED <<pool, sps, dpb, slots, returnedOnly, out, given>>

(* Mutant of DecodeFails: the DPB is left as the failed marking left it. *)
DecodeFailsHalfMarked ==
  /\ pc = "submit"
  /\ inUse' = inUse \ {target}
  /\ dpb' \in SUBSET dpb
  /\ Fail("error")
  /\ pending' = None /\ target' = None
  /\ UNCHANGED <<pool, sps, slots, returnedOnly, out, given>>

(* The reference lists, the driver or the marking of the picture fail: the *)
(* target goes back and the DPB is put back as it was.                     *)
DecodeFails ==
  /\ pc = "submit"
  /\ inUse' = inUse \ {target}
  /\ Fail("error")
  /\ pending' = None /\ target' = None
  /\ UNCHANGED <<pool, sps, dpb, slots, returnedOnly, out, given>>

(* What marking drops: an IDR picture all, another reference picture at    *)
(* least what makes room for itself.                                       *)
Dropped ==
  IF ~pending.ref THEN {{}}
  ELSE IF pending.idr THEN {dpb}
  ELSE {K \in SUBSET dpb : Cardinality(dpb \ K) < MaxRefs[pending.req]
                             \/ K = dpb}

Fresh == CHOOSE k \in Keys \ dpb : \A j \in Keys \ dpb : k <= j

(* Mutant of Decoded: a reference picture frees the surfaces of all older  *)
(* ones.                                                                   *)
DecodedFreesStores(K) ==
  /\ pc = "submit"
  /\ K \in Dropped
  /\ inUse' = IF pending.ref THEN inUse \ {slots[k] : k \in dpb} ELSE inUse
  /\ dpb' = (dpb \ K) \cup (IF pending.ref THEN {Fresh} ELSE {})
  /\ slots' = [k \in Keys |-> IF pending.ref /\ k = Fresh THEN target
                              ELSE IF k \in K THEN None ELSE slots[k]]
  /\ returnedOnly' = IF pending.ref THEN returnedOnly ELSE returnedOnly \cup {target}
  /\ out' = Append(out, target)
  /\ pc' = "push" /\ pending' = None /\ target' = None
  /\ UNCHANGED <<pool, sps, given, left, unit, result>>

(* Mutant of Decoded: a picture that is not stored is let go at once. *)
DecodedDropsUnstored(K) ==
  /\ pc = "submit"
  /\ K \in Dropped
  /\ inUse' = inUse \ ({slots[k] : k \in K} \cup IF pending.ref THEN {} ELSE {target})
  /\ dpb' = (dpb \ K) \cup (IF pending.ref THEN {Fresh} ELSE {})
  /\ slots' = [k \in Keys |-> IF pending.ref /\ k = Fresh THEN target
                              ELSE IF k \in K THEN None ELSE slots[k]]
  /\ out' = Append(out, target)
  /\ pc' = "push" /\ pending' = None /\ target' = None
  /\ UNCHANGED <<pool, sps, returnedOnly, given, left, unit, result>>

(* The picture is decoded, marked, stored or not, and put out. *)
Decoded(K) ==
  /\ pc = "submit"
  /\ K \in Dropped
  /\ inUse' = inUse \ {slots[k] : k \in K}
  /\ dpb' = (dpb \ K) \cup (IF pending.ref THEN {Fresh} ELSE {})
  /\ slots' = [k \in Keys |-> IF pending.ref /\ k = Fresh THEN target
                              ELSE IF k \in K THEN None ELSE slots[k]]
  /\ returnedOnly' = IF pending.ref THEN returnedOnly ELSE returnedOnly \cup {target}
  /\ out' = Append(out, target)
  /\ pc' = "push" /\ pending' = None /\ target' = None
  /\ UNCHANGED <<pool, sps, given, left, unit, result>>

-----------------------------------------------------------------------------
Next ==
  \/ \E id \in SpsIds : Prepare(id)
  \/ \E n \in 0..MaxUnits : Decode(n)
  \/ \E u \in Units : Push(u)
  \/ RejectUnit
  \/ Flush \/ Deliver
  \/ TakeSps \/ TakeOther \/ BeginPicture \/ RejectPicture
  \/ Acquire \/ DecodeFails
  \/ \E K \in SUBSET dpb : Decoded(K)

Spec == Init /\ [][Next]_vars

-----------------------------------------------------------------------------
(* Properties.                                                             *)

(* Every frame store of the DPB has a surface, and only they: a picture    *)
(* that failed left neither behind (finish_picture's saved DPB).           *)
SlotsFollowDpb == \A k \in Keys : slots[k] # None <=> k \in dpb

StoreSlots == {slots[k] : k \in dpb}

(* A slot of the session is taken exactly for one frame store, for one     *)
(* picture put out that is not stored, or for the picture being decoded.   *)
PoolExact ==
  /\ SlotsFollowDpb
  /\ inUse = StoreSlots \cup returnedOnly \cup ({target} \ {None})
  /\ StoreSlots \cap returnedOnly = {}
  /\ target \notin StoreSlots \cup returnedOnly
  /\ Cardinality(StoreSlots) = Cardinality(dpb)

(* max_num_ref_frames + 2 surfaces are enough: "more pictures held than    *)
(* the DPB allows" is never answered.                                      *)
NeverStarved == result # "starved"

(* A picture in progress always has its session: finish_picture() after a  *)
(* prepare(), a refused session or a sequence change does not panic.       *)
SessionEnsured == pc = "finish" => session # None

(* A picture returned keeps its surface until the next call, as a frame    *)
(* store or as returned only.  The one exception is a picture completed in *)
(* a call that went on to begin an IDR picture of another session: its     *)
(* surface went with the old session.                                      *)
ReturnedKept ==
  \A i \in DOMAIN given :
    \/ given[i] \in inUse
    \/ given[i] = None /\ pending # None /\ pending.idr /\ dpb = {} /\ inUse = {}

(* The decoder keeps the promise of SurfacePool: with the frame stores,    *)
(* the pictures completed and the pictures returned as the holders, no     *)
(* surface somebody holds is decoded into.  A picture whose session is     *)
(* gone holds none (ReturnedKept says when that is).                       *)
Holders == ({"store"} \X Keys) \cup ({"out", "given"} \X (1..MaxUnits))

hold == [x \in Holders |->
           CASE x[1] = "store" -> slots[x[2]]
             [] x[1] = "out" -> IF x[2] \in DOMAIN out THEN out[x[2]] ELSE None
             [] x[1] = "given" -> IF x[2] \in DOMAIN given THEN given[x[2]] ELSE None]

Pool == INSTANCE SurfacePool WITH Slots <- AllSlots, writing <- {target} \ {None}

PoolSpec == Pool!Spec

=============================================================================
