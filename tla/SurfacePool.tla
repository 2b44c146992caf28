---------------------------- MODULE SurfacePool ----------------------------
(***************************************************************************)
(* What every decoder of this crate promises about the surfaces of its     *)
(* decode session, without saying how it keeps the promise.                *)
(*                                                                         *)
(* A holder is anything that will look at a surface later: a reference     *)
(* slot or a DPB entry, a picture about to be returned, the picture last   *)
(* returned to the caller.  A surface some holder holds is never written:  *)
(* the driver decodes only into a surface nobody holds, and a holder gets  *)
(* a surface only while it is live (just written, or held by another).  A  *)
(* picture may have two surfaces, one of them with film grain.             *)
(* Every decoder module here implements this specification.                *)
(***************************************************************************)
CONSTANTS
  Slots,      (* the surfaces of a session                                *)
  Holders,    (* whatever may keep a surface                              *)
  None        (* no surface                                               *)

VARIABLES
  hold,       (* the surface each holder keeps, or None                   *)
  writing     (* the surfaces the picture in progress is decoded into     *)

vars == <<hold, writing>>

Held(h) == {h[x] : x \in Holders} \ {None}

(* The surfaces whose contents mean something to somebody. *)
Live == Held(hold) \cup writing

TypeOK ==
  /\ hold \in [Holders -> Slots \cup {None}]
  /\ writing \in SUBSET Slots

Init ==
  /\ hold = [x \in Holders |-> None]
  /\ writing = {}

(* Start a picture in surfaces nobody holds. *)
Write ==
  /\ writing = {}
  /\ hold' = hold
  /\ writing' \in SUBSET (Slots \ Held(hold))

(* Holders let go of surfaces or take live ones; the picture may end. *)
Pass ==
  /\ hold' \in [Holders -> Live \cup {None}]
  /\ writing' \in SUBSET writing

Next == Write \/ Pass

Spec == Init /\ [][Next]_vars

============================================================================
