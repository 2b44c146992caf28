------------------------------ MODULE Devices ------------------------------
(***************************************************************************)
(* The DRM render nodes and the displays opened on them: open_drm() and    *)
(* Drop of src/src/display.rs a call into the C library or the driver at a *)
(* time, the two walks over the nodes of src/src/engine.rs, the look at    *)
(* the first node before src/src/lib.rs registers the decoder, and the     *)
(* construction of that decoder, which opens the node again that a walk    *)
(* found.  Drivers and nodes come and go between any two of these calls.   *)
(***************************************************************************)
EXTENDS Integers, FiniteSets, Sequences

CONSTANTS
  Last,         (* the render nodes are 0..Last, node 0 is renderD128     *)
  Indices,      (* the device indices callers ask for                     *)
  Fds,          (* the file descriptors the process may have              *)
  MaxChanges,   (* bound: changes of the host                             *)
  MaxDecoders,  (* bound: decoders alive                                  *)
  None          (* no node, no descriptor, no call                        *)

(* The functions that open nodes, or close one. *)
Calls == {"register", "info", "path", "new", "drop"}

ASSUME DevicesAssumption ==
  /\ Last \in Nat /\ MaxChanges \in Nat /\ MaxDecoders \in Nat
  /\ Indices \subseteq Nat /\ Fds \subseteq Nat
  /\ None \notin Nat \cup Calls

VARIABLES
  library,      (* did libva load?  sys::vtable() settles it once         *)
  host,         (* how far each node answers                              *)
  changes,      (* how often that changed                                 *)
  opened,       (* descriptors the process has open                       *)
  initialised,  (* those with an initialised display                      *)
  decoders,     (* the decoders alive: the descriptors of their displays  *)
  registered,   (* is the H.264 decoder registered, and in which host?    *)
  listed,       (* what engine_info() returned last, and in which host    *)
  bound,        (* what a decoder's construction came to, and where       *)
  call,         (* the function running                                   *)
  since,        (* `changes` when it was called                           *)
  pc,           (* its next call into the C library or the driver         *)
  minor,        (* the node it looks at                                   *)
  fd,           (* the descriptor of the Display it is making or dropping *)
  answer,       (* does the node count for the caller?                    *)
  index,        (* device_path_for_index(): its argument                  *)
  working,      (* device_path_for_index(): the working nodes so far      *)
  found         (* engine_info(): the nodes reported so far               *)

environment == <<library, host, changes>>
driver == <<opened, initialised>>
results == <<registered, listed, bound>>
walk == <<index, working, found>>
local == <<since, minor, fd, answer>>
vars == <<environment, driver, decoders, results, call, pc, local, walk>>

Nodes == 0..Last

(* How far a node answers: each level fails where the next one goes on. *)
Absent == 0       \* no such path
Shut == 1         \* open() fails
Displayless == 2  \* vaGetDisplayDRM() returns null
Driverless == 3   \* vaInitialize() fails
Mute == 4         \* profiles or entrypoints cannot be queried
Idle == 5         \* the driver does not decode H.264
Able == 6         \* it does
Levels == Absent..Able

Outcomes == [index : Indices, node : Nodes \cup {None}, at : 0..MaxChanges]

TypeOK ==
  /\ library \in BOOLEAN
  /\ host \in [Nodes -> Levels]
  /\ changes \in 0..MaxChanges
  /\ opened \in SUBSET Fds
  /\ initialised \in SUBSET Fds
  /\ decoders \in SUBSET Fds
  /\ registered \in 0..MaxChanges \cup {None}
  /\ listed \in [nodes : Seq(Nodes), at : 0..MaxChanges] \cup {None}
  /\ bound \in Outcomes \cup {None}
  /\ call \in Calls \cup {None}
  /\ pc \in {"exists", "open", "display", "init", "query", "terminate", "close", "idle"}
  /\ since \in 0..changes
  /\ minor \in Nodes
  /\ fd \in Fds \cup {None}
  /\ answer \in BOOLEAN
  /\ index \in Indices \cup {None}
  /\ working \in Nat
  /\ found \in Seq(Nodes)

Init ==
  /\ library \in BOOLEAN
  /\ host \in [Nodes -> Levels]
  /\ changes = 0
  /\ opened = {} /\ initialised = {}
  /\ decoders = {}
  /\ registered = None /\ listed = None /\ bound = None
  /\ call = None /\ pc = "idle" /\ since = 0 /\ minor = 0 /\ fd = None /\ answer = FALSE
  /\ index = None /\ working = 0 /\ found = <<>>

(***************************************************************************)
(* A call returns, or its loop over the nodes goes on.                     *)
(***************************************************************************)
Return ==
  /\ call' = None /\ pc' = "idle" /\ minor' = 0
  /\ index' = None /\ working' = 0 /\ found' = <<>>

(* device_path_for_index(): is this the node looked for? *)
IsIndexed(works) == works /\ working = index

(* The nodes counted once this one is. *)
(* Mutant of Counted: nodes that fail are counted too. *)
CountedAll(works) == working + 1

Counted(works) == IF works THEN working + 1 ELSE working

(* The loops over the nodes go on to the next. *)
(* Mutant of NextNode: one node too many. *)
NextNodeBeyond(works) == minor <= Last /\ minor' = minor + 1 /\ pc' = "exists"

NextNode(works) == minor < Last /\ minor' = minor + 1 /\ pc' = "exists"

(* The path found is opened again; without one the construction is refused. *)
WalkOn(works) ==
  \/ /\ IsIndexed(works)
     /\ call' = "new" /\ pc' = "open"
     /\ UNCHANGED <<results, minor, walk>>
  \/ /\ ~IsIndexed(works)
     /\ NextNode(works) /\ working' = Counted(works)
     /\ UNCHANGED <<results, call, index, found>>
  \/ /\ ~IsIndexed(works) /\ minor = Last
     /\ bound' = [index |-> index, node |-> None, at |-> since]
     /\ Return
     /\ UNCHANGED <<registered, listed>>

(* engine_info(): a node is reported if probe_node() answered. *)
InfoOn(answers) ==
  LET nodes == IF answers THEN Append(found, minor) ELSE found IN
  \/ /\ NextNode(answers) /\ found' = nodes
     /\ UNCHANGED <<results, call, index, working>>
  \/ /\ minor = Last
     /\ listed' = [nodes |-> nodes, at |-> since]
     /\ Return
     /\ UNCHANGED <<registered, bound>>

(* What the running call does with a node that counts for it, or does not. *)
Done(counts) ==
  \/ call = "path" /\ WalkOn(counts)
  \/ call = "info" /\ InfoOn(counts)
  \/ /\ call = "register"
     /\ registered' = IF counts THEN since ELSE registered
     /\ Return /\ UNCHANGED <<listed, bound>>
  \/ /\ call = "new"
     /\ bound' = [index |-> index, node |-> None, at |-> since]
     /\ Return /\ UNCHANGED <<registered, listed>>
  \/ call = "drop" /\ Return /\ UNCHANGED results

(***************************************************************************)
(* The calls.                                                              *)
(***************************************************************************)
Begin(name) ==
  /\ pc = "idle"
  /\ call' = name /\ pc' = "exists" /\ since' = changes
  /\ UNCHANGED <<environment, driver, decoders, results, minor, fd, answer, working, found>>

(* register(): without the libraries nothing is looked at, or registered. *)
Register == library /\ Begin("register") /\ UNCHANGED index

EngineInfo == Begin("info") /\ UNCHANGED index

(* new_with_device_index(), its walk first. *)
New(i) ==
  /\ Cardinality(decoders) < MaxDecoders
  /\ Begin("path") /\ index' = i

(* Drop for H264VaCodecDecoder: the Display it leaked is dropped. *)
DropDecoder(d) ==
  /\ pc = "idle"
  /\ decoders' = decoders \ {d} /\ fd' = d
  /\ call' = "drop" /\ pc' = "terminate" /\ since' = changes
  /\ UNCHANGED <<environment, driver, results, minor, answer, walk>>

(***************************************************************************)
(* The steps.                                                              *)
(***************************************************************************)
(* path.exists(). *)
Exists ==
  /\ pc = "exists"
  /\ \/ host[minor] > Absent /\ pc' = "open" /\ UNCHANGED <<results, call, minor, walk>>
     \/ host[minor] = Absent /\ Done(FALSE)
  /\ UNCHANGED <<environment, driver, decoders, since, fd, answer>>

(* open_drm(): vtable(), and open(), which takes the lowest descriptor. *)
OpenFails ==
  /\ pc = "open"
  /\ ~library \/ host[minor] <= Shut \/ Fds \subseteq opened
  /\ Done(FALSE)
  /\ UNCHANGED <<environment, driver, decoders, since, fd, answer>>

Open ==
  /\ pc = "open" /\ library /\ host[minor] > Shut
  /\ \E f \in Fds \ opened :
       /\ \A g \in Fds \ opened : f <= g
       /\ opened' = opened \cup {f} /\ fd' = f
  /\ pc' = "display"
  /\ UNCHANGED <<environment, initialised, decoders, results, call, since, minor, answer, walk>>

(* vaGetDisplayDRM(); a null display closes the descriptor. *)
GetDisplay ==
  /\ pc = "display"
  /\ pc' = IF host[minor] > Displayless THEN "init" ELSE "close"
  /\ UNCHANGED <<environment, driver, decoders, results, call, local, walk>>

(* Mutant of InitializeFails: the descriptor stays open. *)
InitializeFailsLeaks ==
  /\ pc = "init" /\ host[minor] <= Driverless
  /\ fd' = None
  /\ Done(FALSE)
  /\ UNCHANGED <<environment, driver, decoders, since, answer>>

(* vaInitialize() fails: the descriptor is closed, nothing terminated. *)
InitializeFails ==
  /\ pc = "init" /\ host[minor] <= Driverless
  /\ pc' = "close"
  /\ UNCHANGED <<environment, driver, decoders, results, call, local, walk>>

(* It succeeds: the walk for an index drops the Display at once,            *)
(* probe_node() and host_supports_codec_decode() ask it first,              *)
(* new_with_device_index() leaks it into the decoder.                       *)
Initialize ==
  /\ pc = "init" /\ host[minor] > Driverless
  /\ initialised' = initialised \cup {fd}
  /\ \/ /\ call = "path"
        /\ pc' = "terminate" /\ answer' = TRUE
        /\ UNCHANGED <<decoders, results, call, minor, fd, walk>>
     \/ /\ call \in {"info", "register"}
        /\ pc' = "query"
        /\ UNCHANGED <<decoders, results, call, minor, fd, answer, walk>>
     \/ /\ call = "new"
        /\ decoders' = decoders \cup {fd} /\ fd' = None
        /\ bound' = [index |-> index, node |-> minor, at |-> since]
        /\ Return
        /\ UNCHANGED <<registered, listed, answer>>
  /\ UNCHANGED <<environment, opened, since>>

(* entrypoint_matrix(), and for register() any_supports() on it. *)
Query ==
  /\ pc = "query"
  /\ answer' = (host[minor] > IF call = "info" THEN Mute ELSE Idle)
  /\ pc' = "terminate"
  /\ UNCHANGED <<environment, driver, decoders, results, call, since, minor, fd, walk>>

(* Drop for Display. *)
Terminate ==
  /\ pc = "terminate"
  /\ initialised' = initialised \ {fd}
  /\ pc' = "close"
  /\ UNCHANGED <<environment, opened, decoders, results, call, local, walk>>

Close ==
  /\ pc = "close"
  /\ opened' = opened \ {fd} /\ fd' = None /\ answer' = FALSE
  /\ Done(answer)
  /\ UNCHANGED <<environment, initialised, decoders, since>>

(* A driver or a node comes, goes or changes. *)
Change(n, level) ==
  /\ changes < MaxChanges /\ host[n] # level
  /\ host' = [host EXCEPT ![n] = level] /\ changes' = changes + 1
  /\ UNCHANGED <<library, driver, decoders, results, call, pc, local, walk>>

Proceed ==
  \/ Exists \/ OpenFails \/ Open \/ GetDisplay \/ InitializeFails \/ Initialize
  \/ Query \/ Terminate \/ Close

Next ==
  \/ Register
  \/ EngineInfo
  \/ \E i \in Indices : New(i)
  \/ \E d \in decoders : DropDecoder(d)
  \/ Proceed
  \/ \E n \in Nodes, level \in Levels : Change(n, level)

Spec == Init /\ [][Next]_vars

(***************************************************************************)
(* Properties.                                                             *)
(***************************************************************************)
(* Every open descriptor is a living decoder's or the running call's, on    *)
(* every path out of open_drm() and of the walks, and a display is          *)
(* initialised exactly while somebody may use it: open_drm() never gives up *)
(* a descriptor, Drop terminates and closes once, and in this order.        *)
DisplaysOwned ==
  /\ fd \notin decoders
  /\ opened = decoders \cup ({fd} \ {None})
  /\ initialised = decoders \cup IF pc \in {"query", "terminate"} THEN {fd} ELSE {}

(* "The walk and filter logic mirrors engine_info exactly": while the host  *)
(* stays as it is, a decoder asked for device i is bound to the i-th device *)
(* engine_info() listed, and refused exactly when there is none.            *)
IndexCorrelates ==
  /\ listed # None /\ bound # None
  /\ listed.at = changes /\ bound.at = changes
  => bound.node = IF bound.index < Len(listed.nodes)
                  THEN listed.nodes[bound.index + 1] ELSE None

(* register() asks the first node only, whatever device a decoder is bound  *)
(* to later: while the host stays as it is, the decoder it registered is    *)
(* never refused device 0, and gets the node that was asked.                *)
DefaultIsProbed ==
  /\ registered = changes
  /\ bound # None /\ bound.index = 0 /\ bound.at = changes
  => bound.node = 0

(* Three walks number the devices, those of engine_info(), of the look-up   *)
(* of an index and of register(), and they agree: the index names the       *)
(* device listed where no driver initialises and then cannot be queried,    *)
(* which engine_info() leaves out and the look-up counts, and device 0 is   *)
(* the one asked at registration, whatever failed, was opened or changed    *)
(* before.                                                                  *)
IndexNamesListed ==
  /\ (\A n \in Nodes : host[n] # Mute) => IndexCorrelates
  /\ DefaultIsProbed

=============================================================================
