------------------------------- MODULE Loader -------------------------------
(***************************************************************************)
(* How threads come by libva: the OnceLock HOST of src/src/host.rs and the *)
(* OnceLock VTABLE of src/src/sys.rs.                                      *)
(*                                                                         *)
(* install() looks whether the vtable is loaded and then sets HOST; the    *)
(* first use of libva loads the vtable, from the host loader if HOST is    *)
(* set and from the system's libraries otherwise; native() looks at HOST   *)
(* again at each call, to bracket it.  A OnceLock is external: one thread  *)
(* initialises it, others wait, and get() sees it only when that is done.  *)
(***************************************************************************)

CONSTANTS
  Threads,      (* the threads of the process                             *)
  Exclusive,    (* install() does not overlap a first use of libva        *)
  None          (* an empty OnceLock                                      *)

ASSUME LoaderAssumption == Exclusive \in BOOLEAN /\ None \notin Threads

VARIABLES
  host,         (* HOST: the thread whose loader it is, or None           *)
  vtable,       (* VTABLE: empty, being loaded, or what it was loaded to  *)
  pc,           (* where each thread is                                   *)
  source,       (* load_vtable()'s choice, made in each thread            *)
  bracketed,    (* is the thread's native call bracketed?                 *)
  installed     (* what install() returned to the thread last             *)

vars == <<host, vtable, pc, source, bracketed, installed>>

Loaded == {"host", "system", "failed"}

TypeOK ==
  /\ host \in Threads \cup {None}
  /\ vtable \in Loaded \cup {"empty", "loading"}
  /\ pc \in [Threads -> {"idle", "check", "set", "vtable", "load", "resolve", "call",
                         "native"}]
  /\ source \in [Threads -> {"host", "system"}]
  /\ bracketed \in [Threads -> {"no", "yes"}]
  /\ installed \in [Threads -> {"none", "yes", "no"}]

Init ==
  /\ host = None /\ vtable = "empty"
  /\ pc = [t \in Threads |-> "idle"]
  /\ source = [t \in Threads |-> "system"]
  /\ bracketed = [t \in Threads |-> "no"]
  /\ installed = [t \in Threads |-> "none"]

Goto(t, p) == pc' = [pc EXCEPT ![t] = p]

Some(places) == \E t \in Threads : pc[t] \in places

-----------------------------------------------------------------------------
(* install()                                                               *)

Install(t) ==
  /\ pc[t] = "idle"
  /\ Exclusive => ~Some({"vtable", "load", "resolve"})
  /\ Goto(t, "check")
  /\ installed' = [installed EXCEPT ![t] = "none"]
  /\ UNCHANGED <<host, vtable, source, bracketed>>

(* Mutant of CheckLoaded: the vtable is not looked at. *)
CheckLoadedNever(t) ==
  /\ pc[t] = "check"
  /\ Goto(t, "set")
  /\ UNCHANGED <<host, vtable, source, bracketed, installed>>

(* vtable_loaded(): a load in progress does not count. *)
CheckLoaded(t) ==
  /\ pc[t] = "check"
  /\ IF vtable \in Loaded
     THEN Goto(t, "idle") /\ installed' = [installed EXCEPT ![t] = "no"]
     ELSE Goto(t, "set") /\ UNCHANGED installed
  /\ UNCHANGED <<host, vtable, source, bracketed>>

(* Mutant of SetHost: the last installation wins.                          *)
SetHostAgain(t) ==
  /\ pc[t] = "set"
  /\ Goto(t, "idle")
  /\ host' = t /\ installed' = [installed EXCEPT ![t] = "yes"]
  /\ UNCHANGED <<vtable, source, bracketed>>

SetHost(t) ==
  /\ pc[t] = "set"
  /\ Goto(t, "idle")
  /\ IF host = None
     THEN host' = t /\ installed' = [installed EXCEPT ![t] = "yes"]
     ELSE installed' = [installed EXCEPT ![t] = "no"] /\ UNCHANGED host
  /\ UNCHANGED <<vtable, source, bracketed>>

-----------------------------------------------------------------------------
(* vtable() and native()                                                   *)

Use(t) ==
  /\ pc[t] = "idle"
  /\ Exclusive => ~Some({"check", "set"})
  /\ Goto(t, "vtable")
  /\ UNCHANGED <<host, vtable, source, bracketed, installed>>

(* get_or_init(): wait while another thread loads. *)
GetVtable(t) ==
  /\ pc[t] = "vtable"
  /\ \/ vtable = "empty" /\ vtable' = "loading" /\ Goto(t, "load")
     \/ vtable = "failed" /\ Goto(t, "idle") /\ UNCHANGED vtable
     \/ vtable \in {"host", "system"} /\ Goto(t, "call") /\ UNCHANGED vtable
  /\ UNCHANGED <<host, source, bracketed, installed>>

(* load_vtable(): the host's loader if there is one. *)
ChooseSource(t) ==
  /\ pc[t] = "load"
  /\ source' = [source EXCEPT ![t] = IF host # None THEN "host" ELSE "system"]
  /\ Goto(t, "resolve")
  /\ UNCHANGED <<host, vtable, bracketed, installed>>

(* Mutants of Resolve: a failure is retried by the next thread that uses   *)
(* libva; or at once, by the thread that loads.                            *)
ResolveNotCached(t) ==
  /\ pc[t] = "resolve"
  /\ \/ vtable' = source[t] /\ Goto(t, "vtable")
     \/ vtable' = "empty" /\ Goto(t, "idle")
  /\ UNCHANGED <<host, source, bracketed, installed>>

ResolveRetries(t) ==
  /\ pc[t] = "resolve"
  /\ \/ vtable' = source[t] /\ Goto(t, "vtable")
     \/ UNCHANGED vtable /\ Goto(t, "load")
  /\ UNCHANGED <<host, source, bracketed, installed>>

(* All symbols are found, or the error is cached. *)
Resolve(t) ==
  /\ pc[t] = "resolve"
  /\ vtable' \in {source[t], "failed"}
  /\ Goto(t, "vtable")
  /\ UNCHANGED <<host, source, bracketed, installed>>

(* Mutant of Enter: the token a thread has is taken for its bracket.       *)
EnterNested(t) ==
  /\ pc[t] = "call"
  /\ bracketed' = [bracketed EXCEPT ![t] = host]
  /\ Goto(t, "native")
  /\ UNCHANGED <<host, vtable, source, installed>>

(* native(): HOST is looked at once, for enter and exit alike. *)
Enter(t) ==
  /\ pc[t] = "call"
  /\ bracketed' = [bracketed EXCEPT ![t] = IF host # None THEN "yes" ELSE "no"]
  /\ Goto(t, "native")
  /\ UNCHANGED <<host, vtable, source, installed>>

Exit(t) ==
  /\ pc[t] = "native"
  /\ bracketed' = [bracketed EXCEPT ![t] = "no"]
  /\ Goto(t, "idle")
  /\ UNCHANGED <<host, vtable, source, installed>>

-----------------------------------------------------------------------------
Proceed(t) ==
  \/ CheckLoaded(t) \/ SetHost(t)
  \/ GetVtable(t) \/ ChooseSource(t) \/ Resolve(t)
  \/ Enter(t) \/ Exit(t)

Next == \E t \in Threads : Install(t) \/ Use(t) \/ Proceed(t)

(* Every thread inside a call is scheduled. *)
Spec == Init /\ [][Next]_vars /\ \A t \in Threads : WF_vars(Proceed(t))

-----------------------------------------------------------------------------
(* Properties.                                                             *)

(* A native call is bracketed by the host's enter and exit exactly when    *)
(* the function called is the host's.                                      *)
BracketsMatch ==
  \A t \in Threads : pc[t] = "native" => (bracketed[t] = "yes" <=> vtable = "host")

(* A host that was told its loader is installed never finds libva loaded   *)
(* from the system, nor another host's loader in its place.                *)
InstallTruthful ==
  \A t \in Threads : installed[t] = "yes" => vtable # "system" /\ host = t

(* libva is loaded once: the functions a thread was handed stay the ones   *)
(* every thread calls, and an error stays the answer.                      *)
LoadedOnce ==
  [][/\ vtable # "empty" => vtable' # "empty"
     /\ vtable \in Loaded => vtable' = vtable]_vars

(* No thread waits for the vtable forever. *)
VtableReturns == \A t \in Threads : pc[t] = "vtable" ~> pc[t] # "vtable"

=============================================================================
