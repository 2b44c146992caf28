-------------------------- MODULE RegistryDecoder --------------------------
(***************************************************************************)
(* The decoder the codec registry is given, H264VaCodecDecoder of          *)
(* src/src/decoder.rs: it keeps the last SPS and PPS it saw, builds the    *)
(* H264VaDecoder inside (a Config and a Context with one surface) at the   *)
(* first slice, and decodes every slice NAL as a picture of its own, each  *)
(* call into the driver an action that may fail.                           *)
(***************************************************************************)
EXTENDS Integers

CONSTANTS
  Sizes,        (* the picture sizes of sequence parameter sets           *)
  MaxPackets,   (* bound: packets sent                                    *)
  MaxNals,      (* bound: NAL units of a packet                           *)
  None          (* Option::None                                           *)

ASSUME RegistryAssumption ==
  /\ MaxPackets \in Nat /\ MaxNals \in Nat
  /\ None \notin Sizes

VARIABLES
  display,      (* the leaked Display: "open" or "closed"                 *)
  driver,       (* the driver's objects, its buffers apart                *)
  buffers,      (* the driver's buffers, counted                          *)
  ids,          (* decode_slice()'s locals: the buffers it created        *)
  forgotten,    (* how many of them a failed call left behind             *)
  decoder,      (* the inner decoder: the size it was made for, or None   *)
  cachedSps,    (* the size in the last SPS, or None                      *)
  cachedPps,    (* was a PPS seen?                                        *)
  pending,      (* the frame to be received, or None                      *)
  pts,          (* of the packet sent last: packets are numbered          *)
  pc,           (* where the running call is                              *)
  left,         (* NAL units of the packet to come                        *)
  err,          (* has a step of the call failed?                         *)
  result        (* what the last call came to                             *)

stream == <<cachedSps, cachedPps>>
bufs == <<buffers, ids, forgotten>>
vars == <<display, driver, bufs, decoder, stream, pending, pts, pc, left, err, result>>

Fields == {"config", "surfaces", "context"}
Frames == [pts : 1..MaxPackets, size : Sizes]

FlagsOK == cachedPps \in BOOLEAN /\ err \in BOOLEAN

ValuesOK ==
  /\ display \in {"open", "closed"}
  /\ driver \in SUBSET (Fields \cup {"picture", "image", "map"})
  /\ buffers \in Nat
  /\ ids \in 0..4
  /\ forgotten \in 0..buffers
  /\ decoder \in Sizes \cup {None}
  /\ cachedSps \in Sizes \cup {None}
  /\ pending \in Frames \cup {None}
  /\ pts \in 0..MaxPackets
  /\ pc \in {"idle", "nals", "config", "surfaces", "context", "buffers", "render", "end",
             "sync", "cleanup", "image", "get", "map", "unmap", "destroy", "drop"}
  /\ left \in 0..MaxNals
  /\ result \in {"none", "ok", "error", "frame", "needmore"}

TypeOK == FlagsOK /\ ValuesOK

Init ==
  /\ display = "open" /\ driver = {} /\ buffers = 0 /\ ids = 0 /\ forgotten = 0
  /\ decoder = None /\ cachedSps = None /\ cachedPps = FALSE
  /\ pending = None /\ pts = 0
  /\ pc = "idle" /\ left = 0 /\ err = FALSE /\ result = "none"

Goto(p) ==
  /\ pc' = p
  /\ UNCHANGED <<left, err, result>>

(* A step failed, with more to do at p before send_packet() returns. *)
FailThrough(p) ==
  /\ err' = TRUE
  /\ pc' = p
  /\ UNCHANGED <<left, result>>

(* send_packet() returns; the rest of the packet is dropped on an error. *)
Return(r) ==
  /\ pc' = "idle" /\ left' = 0 /\ err' = FALSE
  /\ result' = r

-----------------------------------------------------------------------------
(* The calls.                                                              *)

SendPacket(n) ==
  /\ pc = "idle" /\ display = "open"
  /\ pts < MaxPackets
  /\ pts' = pts + 1
  /\ pc' = "nals" /\ left' = n
  /\ result' = "none"
  /\ UNCHANGED <<display, driver, bufs, decoder, stream, pending, err>>

ReceiveFrame ==
  /\ pc = "idle" /\ display = "open"
  /\ result' = IF pending = None THEN "needmore" ELSE "frame"
  /\ pending' = None
  /\ UNCHANGED <<display, driver, bufs, decoder, stream, pts, pc, left, err>>

Drop ==
  /\ pc = "idle" /\ display = "open"
  /\ decoder' = None
  /\ Goto("drop")
  /\ UNCHANGED <<display, driver, bufs, stream, pending, pts>>

(* The fields of the inner decoder in the order they are declared, the     *)
(* Config first; then the Display.                                         *)
DropNext ==
  /\ pc = "drop"
  /\ CASE "config" \in driver -> driver' = driver \ {"config"} /\ UNCHANGED <<pc, display>>
       [] "context" \in driver -> driver' = driver \ {"context"} /\ UNCHANGED <<pc, display>>
       [] "surfaces" \in driver -> driver' = driver \ {"surfaces"} /\ UNCHANGED <<pc, display>>
       [] OTHER -> display' = "closed" /\ pc' = "idle" /\ UNCHANGED driver
  /\ UNCHANGED <<bufs, decoder, stream, pending, pts, left, err, result>>

-----------------------------------------------------------------------------
(* send_packet(): the NAL units.                                           *)

TakeSps(size) ==
  /\ pc = "nals" /\ left > 0
  /\ left' = left - 1
  /\ cachedSps' = size
  /\ UNCHANGED <<display, driver, bufs, decoder, cachedPps, pending, pts, pc, err, result>>

TakePps ==
  /\ pc = "nals" /\ left > 0
  /\ left' = left - 1
  /\ cachedPps' = TRUE
  /\ UNCHANGED <<display, driver, bufs, decoder, cachedSps, pending, pts, pc, err, result>>

TakeOther ==
  /\ pc = "nals" /\ left > 0
  /\ left' = left - 1
  /\ UNCHANGED <<display, driver, bufs, decoder, stream, pending, pts, pc, err, result>>

(* A slice needs both parameter sets; its decoder is built if there is     *)
(* none.                                                                   *)
TakeSlice ==
  /\ pc = "nals" /\ left > 0
  /\ cachedSps # None /\ cachedPps
  /\ left' = left - 1
  /\ pc' = IF decoder = None THEN "config" ELSE "buffers"
  /\ UNCHANGED <<display, driver, bufs, decoder, stream, pending, pts, err, result>>

(* A unit that does not parse; a slice without its parameter sets. *)
RejectNal ==
  /\ pc = "nals" /\ left > 0
  /\ Return("error")
  /\ UNCHANGED <<display, driver, bufs, decoder, stream, pending, pts>>

PacketDone ==
  /\ pc = "nals" /\ left = 0
  /\ Return("ok")
  /\ UNCHANGED <<display, driver, bufs, decoder, stream, pending, pts>>

-----------------------------------------------------------------------------
(* H264VaDecoder::from_sps()                                               *)

CreateObject(o, p) ==
  /\ pc = o
  /\ driver' = driver \cup {o}
  /\ Goto(p)
  /\ decoder' = IF o = "context" THEN cachedSps ELSE decoder
  /\ UNCHANGED <<display, bufs, stream, pending, pts>>

CreateConfig   == CreateObject("config", "surfaces")
CreateSurfaces == CreateObject("surfaces", "context")
CreateContext  == CreateObject("context", "buffers")

(* Mutant of CreateFails: Context::new() leaves its surfaces behind. *)
CreateFailsLeaks ==
  /\ pc \in Fields
  /\ driver' = driver \ {"config"}
  /\ Return("error")
  /\ UNCHANGED <<display, bufs, decoder, stream, pending, pts>>

(* One of the three fails: Context::new() destroys the surfaces it made,   *)
(* and the Config is dropped.                                              *)
CreateFails ==
  /\ pc \in Fields
  /\ driver' = {}
  /\ Return("error")
  /\ UNCHANGED <<display, bufs, decoder, stream, pending, pts>>

-----------------------------------------------------------------------------
(* decode_slice()                                                          *)

(* The bit offset of the slice data cannot be told. *)
RejectSlice ==
  /\ pc = "buffers" /\ ids = 0
  /\ Return("error")
  /\ UNCHANGED <<display, driver, bufs, decoder, stream, pending, pts>>

(* Mutant of CreateBuffer: a buffer too many. *)
CreateBufferBeyond ==
  /\ pc = "buffers" /\ ids <= 4
  /\ buffers' = buffers + 1 /\ ids' = ids + 1
  /\ UNCHANGED <<display, driver, forgotten, decoder, stream, pending, pts, pc, left, err,
                 result>>

(* The picture parameters, the matrices, the slice parameters, the slice.  *)
CreateBuffer ==
  /\ pc = "buffers" /\ ids < 4
  /\ buffers' = buffers + 1 /\ ids' = ids + 1
  /\ UNCHANGED <<display, driver, forgotten, decoder, stream, pending, pts, pc, left, err,
                 result>>

(* The `?` of a create_buffer(): the buffers made before it are forgotten. *)
CreateBufferFails ==
  /\ pc = "buffers" /\ ids < 4
  /\ ids' = 0 /\ forgotten' = forgotten + ids
  /\ Return("error")
  /\ UNCHANGED <<display, driver, buffers, decoder, stream, pending, pts>>

BeginPicture ==
  /\ pc = "buffers" /\ ids = 4
  /\ \/ driver' = driver \cup {"picture"} /\ Goto("render")
     \/ FailThrough("cleanup") /\ UNCHANGED driver
  /\ UNCHANGED <<display, bufs, decoder, stream, pending, pts>>

(* All buffers in one call; the picture is ended even if it fails. *)
RenderPicture ==
  /\ pc = "render"
  /\ Goto("end") \/ FailThrough("end")
  /\ UNCHANGED <<display, driver, bufs, decoder, stream, pending, pts>>

EndPicture ==
  /\ pc = "end"
  /\ driver' = driver \ {"picture"}
  /\ IF err THEN Goto("cleanup") ELSE Goto("sync") \/ FailThrough("cleanup")
  /\ UNCHANGED <<display, bufs, decoder, stream, pending, pts>>

Sync ==
  /\ pc = "sync"
  /\ Goto("cleanup") \/ FailThrough("cleanup")
  /\ UNCHANGED <<display, driver, bufs, decoder, stream, pending, pts>>

DestroyBuffer ==
  /\ pc = "cleanup" /\ ids > 0
  /\ buffers' = buffers - 1 /\ ids' = ids - 1
  /\ UNCHANGED <<display, driver, forgotten, decoder, stream, pending, pts, pc, left, err,
                 result>>

BuffersDone ==
  /\ pc = "cleanup" /\ ids = 0
  /\ IF err THEN Return("error") ELSE Goto("image")
  /\ UNCHANGED <<display, driver, bufs, decoder, stream, pending, pts>>

-----------------------------------------------------------------------------
(* read_back_nv12_as_i420()                                                *)

CreateImage ==
  /\ pc = "image"
  /\ \/ driver' = driver \cup {"image"} /\ Goto("get")
     \/ Return("error") /\ UNCHANGED driver
  /\ UNCHANGED <<display, bufs, decoder, stream, pending, pts>>

GetImage ==
  /\ pc = "get"
  /\ Goto("map") \/ FailThrough("destroy")
  /\ UNCHANGED <<display, driver, bufs, decoder, stream, pending, pts>>

MapBuffer ==
  /\ pc = "map"
  /\ \/ driver' = driver \cup {"map"} /\ Goto("unmap")
     \/ FailThrough("destroy") /\ UNCHANGED driver
  /\ UNCHANGED <<display, bufs, decoder, stream, pending, pts>>

UnmapBuffer ==
  /\ pc = "unmap"
  /\ driver' = driver \ {"map"}
  /\ Goto("destroy")
  /\ UNCHANGED <<display, bufs, decoder, stream, pending, pts>>

(* decode_one_slice(): the frame, cropped, takes the place of any before.  *)
DestroyImage ==
  /\ pc = "destroy"
  /\ driver' = driver \ {"image"}
  /\ IF err
     THEN Return("error") /\ UNCHANGED pending
     ELSE Goto("nals") /\ pending' = [pts |-> pts, size |-> decoder]
  /\ UNCHANGED <<display, bufs, decoder, stream, pts>>

-----------------------------------------------------------------------------
Request ==
  \/ \E n \in 0..MaxNals : SendPacket(n)
  \/ ReceiveFrame \/ Drop

Proceed ==
  \/ DropNext
  \/ \E size \in Sizes : TakeSps(size)
  \/ TakePps \/ TakeOther \/ TakeSlice \/ RejectNal \/ PacketDone
  \/ CreateConfig \/ CreateSurfaces \/ CreateContext \/ CreateFails
  \/ RejectSlice \/ CreateBuffer \/ CreateBufferFails
  \/ BeginPicture \/ RenderPicture \/ EndPicture \/ Sync
  \/ DestroyBuffer \/ BuffersDone
  \/ CreateImage \/ GetImage \/ MapBuffer \/ UnmapBuffer \/ DestroyImage

Next == Request \/ Proceed

Spec == Init /\ [][Next]_vars

-----------------------------------------------------------------------------
(* Properties.                                                             *)

(* At every step of every call each of the driver's objects has an owner:  *)
(* the inner decoder has all three of its own as long as it is there, and  *)
(* only while it is built or torn down are there some without it; a        *)
(* picture is open, and an image there, for the steps that work on it,     *)
(* whichever of them fails; the buffers are decode_slice()'s.  Without one *)
(* are only the buffers made before one that could not be.                 *)
ObjectsOwned ==
  /\ decoder # None => Fields \subseteq driver
  /\ decoder = None /\ driver # {} => driver \subseteq Fields /\ pc \in Fields \cup {"drop"}
  /\ "picture" \in driver => pc \in {"render", "end"} /\ ids = 4
  /\ "image" \in driver => pc \in {"get", "map", "unmap", "destroy"}
  /\ "map" \in driver => pc = "unmap" /\ "image" \in driver
  /\ buffers = forgotten + ids
  /\ ids > 0 => pc \in {"buffers", "render", "end", "sync", "cleanup"}

============================================================================
