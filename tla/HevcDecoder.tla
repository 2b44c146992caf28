---------------------------- MODULE HevcDecoder ----------------------------
(***************************************************************************)
(* The HEVC decoder of src/src/hevc.rs over the surface pool of a          *)
(* src/src/session.rs DecodeSession.                                       *)
(*                                                                         *)
(* decode() is fed NAL units.  A unit that starts the next picture first   *)
(* finishes the one in progress, under the parameter sets its slices were  *)
(* parsed with.  decode_picture() makes sure of the session, lets go what  *)
(* the reference picture set leaves out, takes a surface, decodes into it, *)
(* and hands it to the DPB, or, when the DPB holds one picture only, to    *)
(* the caller until the next decode().  The DPB is the bitstream crate's   *)
(* (external): here it is the set of its pictures.                         *)
(***************************************************************************)
EXTENDS Integers, FiniteSets, Sequences

CONSTANTS
  SpsIds,       (* ids of sequence parameter sets                         *)
  SpsSet,       (* sequence parameter sets: what they need of the driver  *)
                (* (req) and sps_max_dec_pic_buffering_minus1 + 1 (dpb)   *)
  MaxUnits,     (* bound: NAL units fed to one call                       *)
  Paced,        (* a call that has completed a picture finishes no other  *)
                (* and does not fail; flush() finishes none while the     *)
                (* last one returned is one the DPB does not hold         *)
  None          (* Option::None                                           *)

ASSUME HevcAssumption ==
  /\ SpsIds \subseteq 0..15
  /\ \A s \in SpsSet : DOMAIN s = {"req", "dpb"} /\ s.dpb \in 1..16
  /\ MaxUnits \in Nat
  /\ Paced \in BOOLEAN
  /\ None \notin SpsSet \cup {s.req : s \in SpsSet} \cup Nat \cup {"here"}

(* ensure_session(): the surfaces a session for s has. *)
Surfaces(s) == IF s.dpb + 2 > 18 THEN 18 ELSE s.dpb + 2

Largest == CHOOSE n \in {Surfaces(s) : s \in SpsSet} : \A s \in SpsSet : Surfaces(s) <= n
AllSlots == 0..(Largest - 1)
Keys == 0..(Largest - 2)

VARIABLES
  display,        (* the Display: "here", or None                         *)
  session,        (* the DecodeSession: its number of surfaces, or None   *)
  inUse,          (* the slots taken: where DecodeSession.in_use is true  *)
  requirements,   (* what the session was made for, or None               *)
  sps,            (* the parser's sequence parameter sets, by id          *)
  dpb,            (* the keys of the DPB's pictures                       *)
  slots,          (* the surface slot of each of them, or None            *)
  returnedOnly,   (* the slot put out last that the DPB lacks, or None    *)
  pending,        (* the picture in progress, or None                     *)
  seenPicture,    (* a picture was begun since the end of a sequence      *)
  skipRasl,       (* RASL pictures are skipped                            *)
  out,            (* the pictures completed, not yet returned             *)
  given,          (* the pictures the last call returned                  *)
  pc,             (* where the running call is                            *)
  left,           (* units of the call not yet pushed                     *)
  unit,           (* the unit being pushed, or None                       *)
  target,         (* decode_picture()'s local: the surface decoded into   *)
  result          (* what the last call came to                           *)

pool == <<display, session, requirements>>
held == <<dpb, slots, returnedOnly>>
rasl == <<seenPicture, skipRasl>>
call == <<pc, left, unit, result>>
vars == <<pool, held, inUse, sps, rasl, pending, out, given, call, target>>

(* IDR and BLA pictures always start a sequence, a CRA picture may. *)
Kinds == {"idr", "cra", "rasl", "trail"}
Irap(k) == k \in {"idr", "cra"}

Pictures == [id : SpsIds, kind : Kinds, sps : SpsSet]

(* VPS and PPS; a SPS; an end of sequence; a slice segment; all others. *)
Units == [kind : {"set", "eos", "other"}]
           \cup [kind : {"sps"}, id : SpsIds, sps : SpsSet]
           \cup [kind : {"slice"}, id : SpsIds, type : Kinds, first : BOOLEAN]
Flushing == [kind |-> "flush"]

TypeOK ==
  /\ display \in {"here", None}
  /\ session \in {Surfaces(s) : s \in SpsSet} \cup {None}
  /\ inUse \in SUBSET AllSlots
  /\ requirements \in {s.req : s \in SpsSet} \cup {None}
  /\ sps \in [SpsIds -> SpsSet \cup {None}]
  /\ dpb \in SUBSET Keys
  /\ slots \in [Keys -> AllSlots \cup {None}]
  /\ returnedOnly \in AllSlots \cup {None}
  /\ pending \in Pictures \cup {None}
  /\ seenPicture \in BOOLEAN /\ skipRasl \in BOOLEAN
  /\ out \in Seq(AllSlots)
  /\ given \in Seq(AllSlots)
  /\ pc \in {"idle", "units", "finish", "begin", "acquire", "submit", "push"}
  /\ left \in 0..MaxUnits
  /\ unit \in Units \cup {Flushing, None}
  /\ target \in AllSlots \cup {None}
  /\ result \in {"none", "ok", "error", "starved"}

FreeSlots == {s \in AllSlots : session # None /\ s < session} \ inUse

Init ==
  /\ display = "here" /\ session = None /\ requirements = None
  /\ inUse = {}
  /\ sps = [i \in SpsIds |-> None]
  /\ dpb = {} /\ slots = [k \in Keys |-> None] /\ returnedOnly = None
  /\ pending = None /\ seenPicture = FALSE /\ skipRasl = FALSE
  /\ out = <<>> /\ given = <<>>
  /\ pc = "idle" /\ left = 0 /\ unit = None /\ target = None
  /\ result = "none"

(* A call returns e; the pictures it completed wait in `out`. *)
Fail(e) ==
  /\ pc' = "idle" /\ left' = 0 /\ unit' = None
  /\ result' = e

Goto(p) ==
  /\ pc' = p
  /\ UNCHANGED <<left, unit, result>>

(* finish_picture() is done; the unit itself is next. *)
Finished == pending' = None /\ Goto("push")

MayFail == Paced => out = <<>>

-----------------------------------------------------------------------------
(* Sessions.                                                               *)

Serves(s) == session # None /\ requirements = s.req /\ session >= Surfaces(s)

(* ensure_session() when the running session does not serve s. *)
Restart(s) ==
  /\ display # None \/ session # None
  /\ inUse' = {}
  /\ dpb' = {}
  /\ slots' = [k \in Keys |-> None]
  /\ returnedOnly' = None
  /\ \/ session' = Surfaces(s) /\ display' = None /\ requirements' = s.req
     \/ session' = None /\ display' = "here" /\ requirements' = None

(* prepare(): for the sequence parameter set with the highest id. *)
Prepare(id) ==
  /\ pc = "idle"
  /\ sps[id] # None
  /\ \A j \in SpsIds : sps[j] # None => j <= id
  /\ \/ Serves(sps[id]) /\ UNCHANGED <<pool, inUse, held>>
     \/ ~Serves(sps[id]) /\ Restart(sps[id])
  /\ given' = <<>>
  /\ result' = IF session' # None THEN "ok" ELSE "error"
  /\ UNCHANGED <<sps, rasl, pending, out, pc, left, unit, target>>

-----------------------------------------------------------------------------
(* decode() and flush()                                                    *)

(* Mutant of Decode: the picture returned last is forgotten, not let go.   *)
DecodeForgetsReturned(n) ==
  /\ pc = "idle"
  /\ returnedOnly' = None
  /\ out' = <<>> /\ given' = <<>>
  /\ pc' = "units" /\ left' = n
  /\ result' = "none"
  /\ UNCHANGED <<pool, inUse, sps, rasl, dpb, slots, pending, unit, target>>

(* decode() starts: what an earlier call left is dropped, and the picture  *)
(* returned last is let go unless it is a reference.                       *)
Decode(n) ==
  /\ pc = "idle"
  /\ inUse' = inUse \ {returnedOnly}
  /\ returnedOnly' = None
  /\ out' = <<>> /\ given' = <<>>
  /\ pc' = "units" /\ left' = n
  /\ result' = "none"
  /\ UNCHANGED <<pool, sps, rasl, dpb, slots, pending, unit, target>>

(* Units that start the next picture: a first slice segment, a parameter   *)
(* set, an end of sequence.                                                *)
StartsPicture(u) == IF u.kind = "slice" THEN u.first ELSE u.kind # "other"

Ends(u) == pending # None /\ StartsPicture(u)

PacedUnit(u) == Paced /\ Ends(u) => out = <<>>

(* Mutants of Push: a unit more than the call was fed; a parameter set     *)
(* does not end the picture.                                               *)
PushBeyond(u) ==
  /\ pc = "units"
  /\ PacedUnit(u)
  /\ left' = left - 1
  /\ unit' = u
  /\ pc' = IF Ends(u) THEN "finish" ELSE "push"
  /\ UNCHANGED <<pool, inUse, sps, rasl, held, pending, out, given, target, result>>

PushSetsAnywhere(u) ==
  /\ pc = "units" /\ left > 0
  /\ PacedUnit(u)
  /\ left' = left - 1
  /\ unit' = u
  /\ pc' = IF Ends(u) /\ u.kind # "sps" THEN "finish" ELSE "push"
  /\ UNCHANGED <<pool, inUse, sps, rasl, held, pending, out, given, target, result>>

Push(u) ==
  /\ pc = "units" /\ left > 0
  /\ PacedUnit(u)
  /\ left' = left - 1
  /\ unit' = u
  /\ pc' = IF Ends(u) THEN "finish" ELSE "push"
  /\ UNCHANGED <<pool, inUse, sps, rasl, held, pending, out, given, target, result>>

Flush ==
  /\ pc = "idle"
  /\ Paced /\ pending # None => returnedOnly = None
  /\ out' = <<>> /\ given' = <<>>
  /\ unit' = Flushing
  /\ pc' = IF pending = None THEN "push" ELSE "finish"
  /\ result' = "none"
  /\ UNCHANGED <<pool, inUse, sps, rasl, held, pending, left, target>>

(* The pictures completed are returned. *)
Deliver ==
  /\ \/ pc = "units" /\ left = 0
     \/ pc = "push" /\ unit = Flushing
  /\ given' = out /\ out' = <<>>
  /\ Fail("ok")
  /\ UNCHANGED <<pool, inUse, sps, rasl, held, pending, target>>

-----------------------------------------------------------------------------
(* push(), once the picture before is finished.                            *)

TakeSps ==
  /\ pc = "push" /\ unit.kind = "sps"
  /\ sps' = [sps EXCEPT ![unit.id] = unit.sps]
  /\ pc' = "units" /\ unit' = None
  /\ UNCHANGED <<pool, inUse, rasl, held, pending, out, given, left, target, result>>

(* A slice segment joins the picture in progress, or begins one. *)
TakeSlice ==
  /\ pc = "push" /\ unit.kind = "slice"
  /\ sps[unit.id] # None
  /\ pending' = IF pending # None THEN pending
                ELSE [id |-> unit.id, kind |-> unit.type, sps |-> sps[unit.id]]
  /\ pc' = "units" /\ unit' = None
  /\ UNCHANGED <<pool, inUse, sps, rasl, held, out, given, left, target, result>>

EndSequence ==
  /\ pc = "push" /\ unit.kind = "eos"
  /\ seenPicture' = FALSE
  /\ pc' = "units" /\ unit' = None
  /\ UNCHANGED <<pool, inUse, sps, skipRasl, held, pending, out, given, left, target,
                 result>>

TakeOther ==
  /\ pc = "push" /\ unit.kind \in {"set", "other"}
  /\ pc' = "units" /\ unit' = None
  /\ UNCHANGED <<pool, inUse, sps, rasl, held, pending, out, given, left, target, result>>

(* A unit shorter than its header, or one that does not parse. *)
RejectUnit ==
  /\ \/ pc = "units" /\ left > 0
     \/ pc = "push" /\ unit # Flushing
  /\ MayFail
  /\ Fail("error")
  /\ UNCHANGED <<pool, inUse, sps, rasl, held, pending, out, given, target>>

-----------------------------------------------------------------------------
(* finish_picture(): decode_picture(), an action for each thing it does.   *)

NoRaslOutput(k) == k = "idr" \/ (k = "cra" /\ ~seenPicture)

(* A dependent segment first, a parameter set missing or out of scope. *)
RejectPicture ==
  /\ pc = "finish"
  /\ Fail("error")
  /\ pending' = None
  /\ UNCHANGED <<pool, inUse, sps, rasl, held, out, given, target>>

(* A RASL picture of an IRAP that started its sequence is not decoded. *)
SkipRasl ==
  /\ pc = "finish" /\ pending.kind = "rasl" /\ skipRasl
  /\ Finished
  /\ UNCHANGED <<pool, inUse, sps, rasl, held, out, given, target>>

(* A new session is made where a sequence starts, the first at any IRAP     *)
(* picture.                                                                *)
MayRestart(k) == IF session = None THEN Irap(k) ELSE NoRaslOutput(k)

(* The session is made sure of, or the call ends: requirements() refuses    *)
(* the parameter set (no session ever served it), no IRAP picture allows a *)
(* new session, or the driver refuses it.                                  *)
EnsureSession ==
  /\ pc = "finish"
  /\ ~(pending.kind = "rasl" /\ skipRasl)
  /\ LET s == sps[pending.id]
         k == pending.kind
     IN  /\ skipRasl' = IF Irap(k) THEN NoRaslOutput(k) ELSE skipRasl
         /\ \/ Serves(s) /\ UNCHANGED <<pool, inUse, held>>
            \/ ~Serves(s) /\ MayRestart(k) /\ Restart(s)
            \/ ~Serves(s) /\ UNCHANGED <<pool, inUse, held>>
         /\ IF session' # None /\ (Serves(s) \/ pool' # pool)
            THEN /\ seenPicture' = TRUE
                 /\ Goto("begin")
                 /\ UNCHANGED pending
            ELSE /\ Fail("error")
                 /\ pending' = None
                 /\ UNCHANGED seenPicture
  /\ UNCHANGED <<sps, out, given, target>>

(* The pictures the reference picture set may leave out: all of them where *)
(* a sequence starts, else at least what makes room for this one.  After   *)
(* EnsureSession an IRAP has skipRasl = NoRaslOutputFlag.                  *)
LeftOut ==
  IF Irap(pending.kind) /\ skipRasl THEN {dpb}
  ELSE {K \in SUBSET dpb : Cardinality(dpb \ K) < sps[pending.id].dpb}

LetGo(K) ==
  /\ inUse' = inUse \ {slots[k] : k \in K}
  /\ dpb' = dpb \ K
  /\ slots' = [k \in Keys |-> IF k \in K THEN None ELSE slots[k]]

(* dpb.begin_picture() itself is an error: the DPB is as it was (external), *)
(* and nothing is let go.                                                  *)
DpbRefuses ==
  /\ pc = "begin"
  /\ Fail("error") /\ pending' = None
  /\ UNCHANGED <<pool, inUse, sps, rasl, held, out, given, target>>

(* Mutants of BeginPicture: a reference picture missing is seen before the *)
(* slots of the pictures left out are given back; all slots are given back.*)
BeginPictureMissingFirst(K) ==
  /\ pc = "begin"
  /\ K \in LeftOut
  /\ \/ LetGo(K) /\ Goto("acquire") /\ UNCHANGED pending
     \/ LetGo(K) /\ Finished
     \/ /\ dpb' = dpb \ K /\ UNCHANGED <<inUse, slots>>
        /\ Fail("error") /\ pending' = None
  /\ UNCHANGED <<pool, sps, rasl, returnedOnly, out, given, target>>

BeginPictureLetsAllGo(K) ==
  /\ pc = "begin"
  /\ K \in LeftOut
  /\ dpb' = dpb \ K
  /\ slots' = [k \in Keys |-> IF k \in K THEN None ELSE slots[k]]
  /\ inUse' = inUse \ {slots[k] : k \in dpb}
  /\ \/ Goto("acquire") /\ UNCHANGED pending
     \/ Finished
     \/ Fail("error") /\ pending' = None
  /\ UNCHANGED <<pool, sps, rasl, returnedOnly, out, given, target>>

(* The DPB leaves out K, whose slots are given back.  Then the picture may *)
(* be one to skip, or miss a reference.                                    *)
BeginPicture(K) ==
  /\ pc = "begin"
  /\ K \in LeftOut
  /\ LetGo(K)
  /\ \/ Goto("acquire") /\ UNCHANGED pending
     \/ Finished
     \/ Fail("error") /\ pending' = None
  /\ UNCHANGED <<pool, sps, rasl, returnedOnly, out, given, target>>

(* The lowest free slot. *)
Acquire ==
  /\ pc = "acquire"
  /\ IF FreeSlots = {}
     THEN /\ Fail("starved") /\ pending' = None
          /\ UNCHANGED <<inUse, target>>
     ELSE /\ target' \in FreeSlots
          /\ \A s \in FreeSlots : target' <= s
          /\ inUse' = inUse \cup {target'}
          /\ Goto("submit") /\ UNCHANGED pending
  /\ UNCHANGED <<pool, sps, rasl, held, out, given>>

(* The parameters, the reference lists, the driver or the DPB fail: the    *)
(* target goes back.                                                       *)
DecodeFails ==
  /\ pc = "submit"
  /\ inUse' = inUse \ {target}
  /\ Fail("error")
  /\ pending' = None /\ target' = None
  /\ UNCHANGED <<pool, sps, rasl, held, out, given>>

(* A DPB of one picture is empty when the next begins and holds none.  The *)
(* RPS has seen to the first: what finish_picture() releases is nothing.   *)
Stored == sps[pending.id].dpb > 1

Fresh == CHOOSE k \in Keys \ dpb : \A j \in Keys \ dpb : k <= j

(* Mutant of Decoded: a picture that is not stored is let go at once. *)
DecodedDropsUnstored ==
  /\ pc = "submit"
  /\ IF Stored
     THEN /\ dpb' = dpb \cup {Fresh}
          /\ slots' = [slots EXCEPT ![Fresh] = target]
          /\ UNCHANGED inUse
     ELSE /\ inUse' = inUse \ {target}
          /\ UNCHANGED <<dpb, slots>>
  /\ out' = Append(out, target)
  /\ target' = None
  /\ Finished
  /\ UNCHANGED <<pool, returnedOnly, sps, rasl, given>>

(* The picture is decoded, stored or not, and put out. *)
Decoded ==
  /\ pc = "submit"
  /\ IF Stored
     THEN /\ dpb' = dpb \cup {Fresh}
          /\ slots' = [slots EXCEPT ![Fresh] = target]
          /\ UNCHANGED returnedOnly
     ELSE /\ returnedOnly' = target
          /\ UNCHANGED <<dpb, slots>>
  /\ out' = Append(out, target)
  /\ target' = None
  /\ Finished
  /\ UNCHANGED <<pool, inUse, sps, rasl, given>>

-----------------------------------------------------------------------------
Next ==
  \/ \E id \in SpsIds : Prepare(id)
  \/ \E n \in 0..MaxUnits : Decode(n)
  \/ \E u \in Units : Push(u)
  \/ Flush \/ Deliver
  \/ TakeSps \/ TakeSlice \/ EndSequence \/ TakeOther \/ RejectUnit
  \/ RejectPicture \/ SkipRasl \/ EnsureSession
  \/ \E K \in SUBSET dpb : BeginPicture(K)
  \/ DpbRefuses
  \/ Acquire \/ DecodeFails \/ Decoded

Spec == Init /\ [][Next]_vars

-----------------------------------------------------------------------------
(* Properties.                                                             *)

(* Every picture of the DPB has a surface, and only they: none is skipped  *)
(* by the loop over dpb.references(), whatever failed before.              *)
SlotsFollowDpb == \A k \in Keys : slots[k] # None <=> k \in dpb

DpbSlots == {slots[k] : k \in dpb}

(* A slot is taken exactly for one picture of the DPB, for the last one    *)
(* put out that the DPB lacks, or for the picture being decoded.           *)
PoolExact ==
  /\ SlotsFollowDpb
  /\ inUse = (DpbSlots \cup {returnedOnly, target}) \ {None}
  /\ returnedOnly \notin DpbSlots
  /\ target \notin DpbSlots
  /\ target = None \/ target # returnedOnly
  /\ Cardinality(DpbSlots) = Cardinality(dpb)

(* The DPB's pictures and two more are all that is ever held: "more        *)
(* pictures held than the DPB allows" is never answered.                   *)
NeverStarved == result # "starved"

(* A picture is decoded under the parameter set its slices were parsed     *)
(* with: one that comes with the next picture does not reach back.         *)
DecodedAsParsed ==
  pc \in {"finish", "begin", "acquire", "submit"} => pending.sps = sps[pending.id]

(* A picture returned keeps its surface until the next call, as a picture  *)
(* of the DPB or as the one returned last, whatever session changes, RPS   *)
(* and failures came before it.                                            *)
ReturnedKept == \A i \in DOMAIN given : given[i] \in inUse

(* The decoder keeps the promise of SurfacePool: with the DPB's pictures,  *)
(* the pictures completed and the pictures returned as the holders, no     *)
(* surface somebody holds is decoded into.                                 *)
Holders == ({"dpb"} \X Keys) \cup ({"out", "given"} \X (1..MaxUnits))

hold == [x \in Holders |->
           CASE x[1] = "dpb" -> slots[x[2]]
             [] x[1] = "out" -> IF x[2] \in DOMAIN out THEN out[x[2]] ELSE None
             [] x[1] = "given" -> IF x[2] \in DOMAIN given THEN given[x[2]] ELSE None]

Pool == INSTANCE SurfacePool WITH Slots <- AllSlots, writing <- {target} \ {None}

PoolSpec == Pool!Spec

=============================================================================
