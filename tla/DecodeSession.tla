---------------------------- MODULE DecodeSession ----------------------------
(***************************************************************************)
(* The DecodeSession of src/src/session.rs against a driver whose every    *)
(* call may fail: which driver objects exist, and which the session knows. *)
(*                                                                         *)
(* A session is used through &mut self, so calls do not overlap; each      *)
(* action is one call into the driver.  The slots of the surface pool      *)
(* (acquire, release) are with the decoders that take them.                *)
(***************************************************************************)
EXTENDS Integers

CONSTANT MaxBuffers     (* bound: buffers of one submission                *)

ASSUME BuffersAssumption == MaxBuffers \in Nat \ {0}

VARIABLES
  display,      (* who has the Display: "caller", "session", or "closed"   *)
  driver,       (* the driver's objects, its buffers apart                 *)
  buffers,      (* the driver's buffers, counted                           *)
  own,          (* the session's fields that hold an object                *)
  ids,          (* submit()'s local: the buffers it created, counted       *)
  left,         (* buffers submit() has yet to create                      *)
  derive,       (* derive_works: "unknown", "works" or "fails"             *)
  pc,           (* where the running call is                               *)
  err,          (* the error the call will return, or "none"               *)
  result        (* what the last call came to                              *)

vars == <<display, driver, buffers, own, ids, left, derive, pc, err, result>>
submission == <<buffers, ids, left>>
lasting == <<display, own, derive>>

Fields  == {"config", "surfaces", "context"}
Objects == Fields \cup {"picture", "image", "map"}
Errors  == {"Unsupported", "Bitstream", "Va"}

TypeOK ==
  /\ display \in {"caller", "session", "closed"}
  /\ driver \in SUBSET Objects
  /\ buffers \in 0..MaxBuffers
  /\ own \in SUBSET Fields
  /\ ids \in 0..MaxBuffers
  /\ left \in 0..MaxBuffers
  /\ derive \in {"unknown", "works", "fails"}
  /\ pc \in {"none", "attributes", "config", "surfaces", "context", "into", "drop",
             "idle", "buffers", "render", "end", "cleanup",
             "derive", "create", "get", "copy", "unmap", "derived", "created"}
  /\ err \in Errors \cup {"none"}
  /\ result \in Errors \cup {"none", "ok"}

Init ==
  /\ display = "caller" /\ driver = {} /\ buffers = 0 /\ own = {}
  /\ ids = 0 /\ left = 0 /\ derive = "unknown" /\ pc = "none"
  /\ err = "none" /\ result = "none"

(* A call starts, at step p. *)
Call(p) == pc' = p /\ err' = "none" /\ result' = "none"

(* The call goes on at step p. *)
Goto(p) == pc' = p /\ UNCHANGED <<err, result>>

(* A call into the driver failed: the `?` or early return, with error e,   *)
(* goes through step p on its way out.                                     *)
Fail(e, p) ==
  /\ err' = e
  /\ pc' = p
  /\ UNCHANGED result

(* The call returns; a session that is no more is at "none". *)
Return(p) ==
  /\ pc' = p
  /\ result' = IF err = "none" THEN "ok" ELSE err
  /\ err' = "none"

-----------------------------------------------------------------------------
(* new() and create()                                                      *)

New ==
  /\ pc = "none" /\ display = "caller"
  /\ display' = "session"
  /\ derive' = "unknown"
  /\ Call("attributes")
  /\ UNCHANGED <<driver, buffers, own, ids, left>>

(* vaGetConfigAttributes; the render target format must be among them. *)
GetAttributes ==
  /\ pc = "attributes"
  /\ Goto("config") \/ Fail("Unsupported", "into")
  /\ UNCHANGED <<lasting, submission, driver>>

(* Mutant of CreateObject: the object is recorded once the session works.  *)
CreateObjectUnrecorded(o, p, e) ==
  /\ pc = o
  /\ \/ driver' = driver \cup {o} /\ Goto(p)
        /\ own' = IF p = "idle" THEN Fields ELSE own
     \/ Fail(e, "into") /\ UNCHANGED <<driver, own>>
  /\ UNCHANGED <<display, derive, submission>>

(* One vaCreate call of create(); what was made before a failure is in the *)
(* session's fields for destroy() to find.                                 *)
CreateObject(o, p, e) ==
  /\ pc = o
  /\ \/ driver' = driver \cup {o} /\ own' = own \cup {o} /\ Goto(p)
     \/ Fail(e, "into") /\ UNCHANGED <<driver, own>>
  /\ UNCHANGED <<display, derive, submission>>

CreateConfig   == CreateObject("config", "surfaces", "Unsupported")
CreateSurfaces == CreateObject("surfaces", "context", "Va")
CreateContext  == CreateObject("context", "idle", "Unsupported")

-----------------------------------------------------------------------------
(* into_display() and drop: both destroy() first.                          *)

IntoDisplay ==
  /\ pc = "idle"
  /\ Call("into")
  /\ UNCHANGED <<lasting, submission, driver>>

Drop ==
  /\ pc = "idle"
  /\ Call("drop")
  /\ UNCHANGED <<lasting, submission, driver>>

(* Mutant of DestroyNext: surfaces and configuration before the context.   *)
DestroyAnyOrder(o) ==
  /\ pc \in {"into", "drop"}
  /\ o \in own
  /\ driver' = driver \ {o}
  /\ own' = own \ {o}
  /\ UNCHANGED <<display, derive, submission, pc, err, result>>

(* One call of destroy(): the context, then the surfaces, then the config. *)
DestroyNext(o) ==
  /\ pc \in {"into", "drop"}
  /\ o \in own
  /\ o = "surfaces" => "context" \notin own
  /\ o = "config" => own = {"config"}
  /\ driver' = driver \ {o}
  /\ own' = own \ {o}
  /\ UNCHANGED <<display, derive, submission, pc, err, result>>

(* The Display goes back to the caller, or is dropped with the session. *)
Destroyed ==
  /\ pc \in {"into", "drop"} /\ own = {}
  /\ display' = IF pc = "into" THEN "caller" ELSE "closed"
  /\ Return("none")
  /\ UNCHANGED <<own, derive, submission, driver>>

-----------------------------------------------------------------------------
(* submit()                                                                *)

Submit(n) ==
  /\ pc = "idle"
  /\ left' = n
  /\ Call("buffers")
  /\ UNCHANGED <<lasting, driver, buffers, ids>>

(* An empty or ragged buffer stops the loop before the driver is called. *)
RaggedBuffer ==
  /\ pc = "buffers" /\ left > 0
  /\ err' = "Bitstream" /\ pc' = "cleanup"
  /\ UNCHANGED <<lasting, submission, driver, result>>

(* Mutant of CreateBuffer: one buffer more than there are.                 *)
CreateBufferBeyond ==
  /\ pc = "buffers"
  /\ buffers' = buffers + 1 /\ ids' = ids + 1 /\ left' = left - 1 /\ Goto(pc)
  /\ UNCHANGED <<lasting, driver>>

CreateBuffer ==
  /\ pc = "buffers" /\ left > 0
  /\ \/ buffers' = buffers + 1 /\ ids' = ids + 1 /\ left' = left - 1 /\ Goto(pc)
     \/ Fail("Va", "cleanup") /\ UNCHANGED <<buffers, ids, left>>
  /\ UNCHANGED <<lasting, driver>>

BeginPicture ==
  /\ pc = "buffers" /\ left = 0
  /\ \/ driver' = driver \cup {"picture"} /\ Goto("render")
     \/ Fail("Va", "cleanup") /\ UNCHANGED driver
  /\ UNCHANGED <<lasting, buffers, ids, left>>

(* Mutant of RenderPicture: a failed render returns at once.               *)
RenderPictureReturns ==
  /\ pc = "render"
  /\ Goto("end") \/ Fail("Va", "cleanup")
  /\ UNCHANGED <<lasting, submission, driver>>

(* vaEndPicture follows, whatever vaRenderPicture answers. *)
RenderPicture ==
  /\ pc = "render"
  /\ Goto("end") \/ Fail("Va", "end")
  /\ UNCHANGED <<lasting, submission, driver>>

(* The picture is closed; a failed render is reported before a failed end. *)
EndPicture ==
  /\ pc = "end"
  /\ driver' = driver \ {"picture"}
  /\ Goto("cleanup") \/ Fail("Va", "cleanup")
  /\ UNCHANGED <<lasting, submission>>

DestroyBuffer ==
  /\ pc = "cleanup" /\ ids > 0
  /\ ids' = ids - 1 /\ buffers' = buffers - 1
  /\ UNCHANGED <<lasting, driver, left, pc, err, result>>

SubmitReturns ==
  /\ pc = "cleanup" /\ ids = 0
  /\ left' = 0
  /\ Return("idle")
  /\ UNCHANGED <<lasting, driver, buffers, ids>>

Sync ==
  /\ pc = "idle"
  /\ result' \in {"ok", "Va"}
  /\ UNCHANGED <<lasting, submission, driver, pc, err>>

-----------------------------------------------------------------------------
(* read()                                                                  *)

(* The rectangle lies outside the surface, or the planes are too small. *)
ReadRejected ==
  /\ pc = "idle"
  /\ result' = "Bitstream"
  /\ UNCHANGED <<lasting, submission, driver, pc, err>>

Read ==
  /\ pc = "idle"
  /\ Call(IF derive = "fails" THEN "create" ELSE "derive")
  /\ UNCHANGED <<lasting, submission, driver>>

(* read_derived() *)
DeriveImage ==
  /\ pc = "derive"
  /\ \/ driver' = driver \cup {"image"} /\ Goto("copy")
     \/ driver' = driver /\ Fail("Va", "derived")
  /\ UNCHANGED <<lasting, submission>>

(* read_through_image() *)
CreateImage ==
  /\ pc = "create"
  /\ \/ driver' = driver \cup {"image"} /\ Goto("get")
     \/ driver' = driver /\ Fail("Va", "created")
  /\ UNCHANGED <<lasting, submission>>

(* Either path ends where it began to tell the two apart. *)
Path == IF derive = "fails" THEN "created" ELSE "derived"

GetImage ==
  /\ pc = "get"
  /\ Goto("copy") \/ Fail("Va", Path)
  /\ UNCHANGED <<lasting, submission, driver>>

(* copy_image(): the image must be of the session's format and at least    *)
(* the surface's size, and map to memory.  A mapping that succeeds without *)
(* an address is an error as well; it is not undone, and ends with its     *)
(* image.                                                                  *)
CopyImage ==
  /\ pc = "copy"
  /\ \/ driver' = driver \cup {"map"} /\ Goto("unmap")
     \/ driver' = driver \cup {"map"} /\ Fail("Va", Path)
     \/ \E e \in {"Unsupported", "Va"} : Fail(e, Path) /\ driver' = driver
  /\ UNCHANGED <<lasting, submission>>

UnmapBuffer ==
  /\ pc = "unmap"
  /\ driver' = driver \ {"map"}
  /\ Goto(Path)
  /\ UNCHANGED <<lasting, submission>>

(* Mutant of DerivedDone: the first failure tries vaDeriveImage again.     *)
DerivedDoneRetries ==
  /\ pc = "derived"
  /\ driver' = driver \ {"image", "map"}
  /\ \/ err = "none" /\ derive' = "works" /\ Return("idle")
     \/ err # "none" /\ derive = "works" /\ derive' = derive /\ Return("idle")
     \/ /\ err # "none" /\ derive = "unknown"
        /\ derive' = derive /\ pc' = "derive" /\ err' = "none"
        /\ UNCHANGED result
  /\ UNCHANGED <<display, own, submission>>

(* read_derived() returned: its image is gone.  The first failure is not   *)
(* an error of the read, it settles that images are created instead.       *)
DerivedDone ==
  /\ pc = "derived"
  /\ driver' = driver \ {"image", "map"}
  /\ \/ err = "none" /\ derive' = "works" /\ Return("idle")
     \/ err # "none" /\ derive = "works" /\ derive' = derive /\ Return("idle")
     \/ /\ err # "none" /\ derive = "unknown"
        /\ derive' = "fails" /\ pc' = "create" /\ err' = "none"
        /\ UNCHANGED result
  /\ UNCHANGED <<display, own, submission>>

CreatedDone ==
  /\ pc = "created"
  /\ driver' = driver \ {"image", "map"}
  /\ Return("idle")
  /\ UNCHANGED <<lasting, submission>>

-----------------------------------------------------------------------------
(* What a caller may ask for. *)
Request ==
  \/ New \/ IntoDisplay \/ Drop
  \/ (\E n \in 1..MaxBuffers : Submit(n)) \/ Sync
  \/ ReadRejected \/ Read

(* What a running call does next. *)
Proceed ==
  \/ GetAttributes \/ CreateConfig \/ CreateSurfaces \/ CreateContext
  \/ (\E o \in Fields : DestroyNext(o)) \/ Destroyed
  \/ RaggedBuffer \/ CreateBuffer \/ BeginPicture \/ RenderPicture \/ EndPicture
  \/ DestroyBuffer \/ SubmitReturns
  \/ DeriveImage \/ CreateImage \/ GetImage \/ CopyImage \/ UnmapBuffer
  \/ DerivedDone \/ CreatedDone

Next == Request \/ Proceed

(* A call the driver answers goes on; nobody has to make another one.      *)
Spec == Init /\ [][Next]_vars /\ WF_vars(Proceed)

-----------------------------------------------------------------------------
(* Properties.                                                             *)

(* Between two calls the driver has what the session's fields name and no  *)
(* more, whichever call of the last one failed; with no session, nothing.  *)
(* Only a mapping without an address is left for the image to end.         *)
NothingLeaks ==
  /\ pc = "idle" => driver = Fields /\ own = Fields /\ buffers = 0
  /\ pc = "none" => driver = {} /\ own = {} /\ buffers = 0
  /\ pc \in {"derived", "created"} /\ "map" \in driver => err = "Va"

(* Objects are made and destroyed inside out: nothing is destroyed while   *)
(* something of the driver stands on it.  A picture is rendered from all   *)
(* the buffers made for it.                                                *)
Nested ==
  /\ "surfaces" \in driver => "config" \in driver
  /\ "context" \in driver => "surfaces" \in driver
  /\ buffers > 0 \/ driver \cap {"picture", "image"} # {} => "context" \in driver
  /\ "picture" \in driver => ids = buffers /\ buffers > 0 /\ left = 0
  /\ "map" \in driver => "image" \in driver
  /\ display # "session" => driver = {}

(* A picture that was begun is ended before a buffer of it is destroyed:   *)
(* the context is never left with an open picture.                         *)
EndsWhatItBegins == [][buffers' < buffers => "picture" \notin driver]_vars

(* No call goes round for ever, whatever the driver answers: the read that *)
(* changes paths does so once, and every teardown comes to its end.        *)
CallsReturn == pc \notin {"none", "idle"} ~> pc \in {"none", "idle"}

=============================================================================
