--------------------------- MODULE Loader_proofs ---------------------------
(***************************************************************************)
(* What Loader promises, proved for any set of threads: where install()    *)
(* does not overlap a first use of libva (Exclusive), the loader in HOST   *)
(* and the functions in VTABLE belong together.                            *)
(***************************************************************************)
EXTENDS Loader, TLAPS

Installing(t) == pc[t] \in {"check", "set"}
Loading(t)    == pc[t] \in {"load", "resolve"}
Using(t)      == pc[t] = "vtable" \/ Loading(t)

(* install() and a first use of libva do not overlap. *)
Apart == \A t, u \in Threads : ~(Installing(t) /\ Using(u))

(* A thread that is loading has VTABLE to itself.                          *)
LoadingAlone ==
  /\ \A t \in Threads : Loading(t) => vtable = "loading"
  /\ \A t, u \in Threads : Loading(t) /\ Loading(u) => t = u
  /\ vtable = "loading" => \E t \in Threads : Loading(t)

(* The functions are the host's exactly when there is a host loader, at    *)
(* every step of loading them and of calling them; and HOST is set only    *)
(* before.                                                                 *)
Together ==
  /\ \A t \in Threads : pc[t] = "set" => vtable \notin Loaded
  /\ vtable = "host" => host # None
  /\ vtable = "system" => host = None
  /\ \A t \in Threads : pc[t] = "resolve" => (source[t] = "host" <=> host # None)
  /\ \A t \in Threads : pc[t] \in {"call", "native"} => vtable \in {"host", "system"}
  /\ \A t \in Threads : pc[t] = "native" => (bracketed[t] = "yes" <=> host # None)

(* Only the thread whose loader HOST is was told that it is installed. *)
Told == \A t \in Threads : installed[t] = "yes" => host = t

IInv == TypeOK /\ Apart /\ LoadingAlone /\ Together /\ Told

-----------------------------------------------------------------------------
LEMMA Initially == Init => IInv
  BY LoaderAssumption DEF Init, IInv, TypeOK, Apart, LoadingAlone, Together, Told,
       Installing, Loading, Using, Loaded

(* Types: no action leaves them. *)
LEMMA TypeStep == TypeOK /\ [Next]_vars => TypeOK'
<1> SUFFICES ASSUME TypeOK, [Next]_vars PROVE TypeOK'
  OBVIOUS
<1> USE DEF TypeOK, Goto, Loaded
<1>1. ASSUME NEW t \in Threads, Install(t) PROVE TypeOK'
  BY <1>1 DEF Install
<1>2. ASSUME NEW t \in Threads, Use(t) PROVE TypeOK'
  BY <1>2 DEF Use
<1>3. ASSUME NEW t \in Threads, CheckLoaded(t) PROVE TypeOK'
  BY <1>3 DEF CheckLoaded
<1>4. ASSUME NEW t \in Threads, SetHost(t) PROVE TypeOK'
  BY <1>4 DEF SetHost
<1>5. ASSUME NEW t \in Threads, GetVtable(t) PROVE TypeOK'
  BY <1>5 DEF GetVtable
<1>6. ASSUME NEW t \in Threads, ChooseSource(t) PROVE TypeOK'
  BY <1>6 DEF ChooseSource
<1>7. ASSUME NEW t \in Threads, Resolve(t) PROVE TypeOK'
  BY <1>7 DEF Resolve
<1>8. ASSUME NEW t \in Threads, Enter(t) PROVE TypeOK'
  BY <1>8 DEF Enter
<1>9. ASSUME NEW t \in Threads, Exit(t) PROVE TypeOK'
  BY <1>9 DEF Exit
<1>10. ASSUME UNCHANGED vars PROVE TypeOK'
  BY <1>10 DEF vars
<1> QED
  BY <1>1, <1>2, <1>3, <1>4, <1>5, <1>6, <1>7, <1>8, <1>9, <1>10 DEF Next, Proceed

(* Loading is done by one thread at a time, overlap or not. *)
LEMMA AloneStep == TypeOK /\ LoadingAlone /\ [Next]_vars => LoadingAlone'
<1> SUFFICES ASSUME TypeOK, LoadingAlone, [Next]_vars PROVE LoadingAlone'
  OBVIOUS
<1> USE DEF TypeOK, LoadingAlone, Loading, Goto, Loaded
<1>1. ASSUME NEW t \in Threads, GetVtable(t) PROVE LoadingAlone'
  BY <1>1 DEF GetVtable
<1>2. ASSUME NEW t \in Threads, ChooseSource(t) PROVE LoadingAlone'
  BY <1>2 DEF ChooseSource
<1>3. ASSUME NEW t \in Threads, Resolve(t) PROVE LoadingAlone'
  BY <1>3 DEF Resolve
<1>4. ASSUME NEW t \in Threads, Install(t) \/ Use(t) PROVE LoadingAlone'
  BY <1>4 DEF Install, Use
<1>5. ASSUME NEW t \in Threads, CheckLoaded(t) \/ SetHost(t) PROVE LoadingAlone'
  BY <1>5 DEF CheckLoaded, SetHost
<1>6. ASSUME NEW t \in Threads, Enter(t) \/ Exit(t) PROVE LoadingAlone'
  BY <1>6 DEF Enter, Exit
<1>7. ASSUME UNCHANGED vars PROVE LoadingAlone'
  BY <1>7 DEF vars
<1> QED
  BY <1>1, <1>2, <1>3, <1>4, <1>5, <1>6, <1>7 DEF Next, Proceed

(* The rest of the invariant, action by action. *)
LEMMA Step == IInv /\ Exclusive /\ [Next]_vars => IInv'
<1> SUFFICES ASSUME IInv, Exclusive, [Next]_vars PROVE IInv'
  OBVIOUS
<1>0. TypeOK'
  BY TypeStep DEF IInv
<1>a. LoadingAlone'
  BY AloneStep DEF IInv
<1> DEFINE Rest == Apart /\ LoadingAlone /\ Together /\ Told
<1> USE LoaderAssumption, <1>0, <1>a
      DEF IInv, TypeOK, Apart, LoadingAlone, Together, Told, Installing, Loading, Using,
          Goto, Loaded
<1>1. ASSUME NEW t \in Threads, Install(t) PROVE Rest'
  BY <1>1 DEF Install, Some
<1>2. ASSUME NEW t \in Threads, Use(t) PROVE Rest'
  BY <1>2 DEF Use, Some
<1>3. ASSUME NEW t \in Threads, CheckLoaded(t) PROVE Rest'
  BY <1>3 DEF CheckLoaded
<1>4. ASSUME NEW t \in Threads, SetHost(t) PROVE Rest'
  BY <1>4 DEF SetHost
<1>5. ASSUME NEW t \in Threads, GetVtable(t) PROVE Rest'
  BY <1>5 DEF GetVtable
<1>6. ASSUME NEW t \in Threads, ChooseSource(t) PROVE Rest'
  BY <1>6 DEF ChooseSource
<1>7. ASSUME NEW t \in Threads, Resolve(t) PROVE Rest'
  BY <1>7 DEF Resolve
<1>8. ASSUME NEW t \in Threads, Enter(t) PROVE Rest'
  BY <1>8 DEF Enter
<1>9. ASSUME NEW t \in Threads, Exit(t) PROVE Rest'
  BY <1>9 DEF Exit
<1>10. ASSUME UNCHANGED vars PROVE Rest'
  BY <1>10 DEF vars
<1> HIDE DEF Rest
<1>11. Rest'
  BY <1>1, <1>2, <1>3, <1>4, <1>5, <1>6, <1>7, <1>8, <1>9, <1>10 DEF Next, Proceed
<1> QED
  BY <1>11 DEF Rest

-----------------------------------------------------------------------------
(* HOST, VTABLE and the threads stay what the types say, overlap or not.   *)
THEOREM TypeCorrect == Spec => []TypeOK
<1>1. Init => TypeOK
  BY Initially DEF IInv
<1> QED
  BY <1>1, TypeStep, PTL DEF Spec

LEMMA Invariance == ASSUME Exclusive PROVE Spec => []IInv
<1>1. IInv /\ [Next]_vars => IInv'
  BY Step
<1> QED
  BY <1>1, Initially, PTL DEF Spec

(* native() brackets the host's functions and only them, though it looks   *)
(* at HOST again, long after the vtable was loaded.                        *)
THEOREM BracketsRight == ASSUME Exclusive PROVE Spec => []BracketsMatch
<1>1. IInv => BracketsMatch
  <2> SUFFICES ASSUME IInv, NEW t \in Threads, pc[t] = "native"
               PROVE  bracketed[t] = "yes" <=> vtable = "host"
    BY DEF BracketsMatch
  <2>1. vtable \in {"host", "system"}
    BY DEF IInv, Together
  <2>2. bracketed[t] = "yes" <=> host # None
    BY DEF IInv, Together
  <2> QED
    BY <2>1, <2>2 DEF IInv, Together
<1> QED
  BY <1>1, Invariance, PTL

(* install() answers true only to the host whose loader is, and stays, the *)
(* one libva is reached through.                                           *)
THEOREM InstallKept == ASSUME Exclusive PROVE Spec => []InstallTruthful
<1>1. IInv => InstallTruthful
  BY LoaderAssumption DEF IInv, Told, Together, InstallTruthful
<1> QED
  BY <1>1, Invariance, PTL

(* VTABLE is filled once, and its loading is never given up.               *)
THEOREM FilledOnce == Spec => LoadedOnce
<1> DEFINE Kept == /\ vtable # "empty" => vtable' # "empty"
                   /\ vtable \in Loaded => vtable' = vtable
<1>1. ASSUME TypeOK, LoadingAlone, [Next]_vars PROVE Kept
  <2> USE <1>1 DEF LoadingAlone, TypeOK, Loading, Loaded, Goto
  <2>1. ASSUME NEW t \in Threads, GetVtable(t) PROVE Kept
    BY <2>1 DEF GetVtable
  <2>2. ASSUME NEW t \in Threads, Resolve(t) PROVE Kept
    BY <2>2 DEF Resolve
  <2>3. ASSUME UNCHANGED vtable PROVE Kept
    BY <2>3
  <2> QED
    BY <2>1, <2>2, <2>3
       DEF Next, Proceed, Install, Use, CheckLoaded, SetHost, ChooseSource, Enter, Exit, vars
<1>2. TypeOK /\ LoadingAlone /\ [Next]_vars => [Kept]_vars
  BY <1>1
<1>3. Init => LoadingAlone
  BY Initially DEF IInv
<1> QED
  BY <1>2, <1>3, AloneStep, TypeCorrect, PTL DEF Spec, LoadedOnce

=============================================================================
