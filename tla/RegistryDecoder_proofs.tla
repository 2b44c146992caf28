----------------------- MODULE RegistryDecoder_proofs -----------------------
(***************************************************************************)
(* What RegistryDecoder promises of the driver's objects, proved for any   *)
(* sizes and packets: every step of send_packet(), whichever failed before *)
(* it, has the objects it works on and no others.                          *)
(***************************************************************************)
EXTENDS RegistryDecoder, TLAPS

(* The inner decoder is built once, by the slice that needs it. *)
Building ==
  /\ pc \in Fields => decoder = None /\ cachedSps # None
  /\ pc = "config" => driver = {}
  /\ pc = "surfaces" => driver = {"config"}
  /\ pc = "context" => driver = {"config", "surfaces"}
  /\ pc = "drop" => decoder = None /\ driver \in SUBSET Fields

(* Between NAL units there is the inner decoder, or nothing; a slice adds   *)
(* the picture, then the image it is read through.                          *)
Decoding ==
  /\ pc \in {"idle", "nals"} => driver = IF decoder = None THEN {} ELSE Fields
  /\ pc \in {"buffers", "sync", "cleanup", "image"} => driver = Fields
  /\ pc \in {"render", "end"} => driver = Fields \cup {"picture"}
  /\ pc \in {"get", "map", "destroy"} => driver = Fields \cup {"image"}
  /\ pc = "unmap" => driver = Fields \cup {"image", "map"}
  /\ pc \notin Fields \cup {"idle", "nals", "drop"} => decoder # None
  /\ pc \notin {"idle", "drop"} => pts > 0

(* Buffers are decode_slice()'s, or forgotten by one that failed. *)
Counted ==
  /\ buffers = forgotten + ids
  /\ pc \notin {"buffers", "render", "end", "sync", "cleanup"} => ids = 0
  /\ pc \in {"render", "end"} => ids = 4

Objects == ValuesOK /\ Building /\ Decoding /\ Counted

IInv == FlagsOK /\ Objects

-----------------------------------------------------------------------------
LEMMA Initially == Init => IInv
<1> SUFFICES ASSUME Init PROVE IInv
  OBVIOUS
<1>1. FlagsOK
  BY Zenon DEF Init, FlagsOK
<1>2. Objects
  BY RegistryAssumption DEF Init, Objects, ValuesOK, Building, Decoding, Counted, Fields
<1> QED
  BY <1>1, <1>2 DEF IInv

(* The two flags: a step leaves each alone or sets it. *)
LEMMA FlagsStep == FlagsOK /\ [Next]_vars => FlagsOK'
<1> SUFFICES ASSUME FlagsOK, [Next]_vars PROVE FlagsOK'
  OBVIOUS
<1> USE DEF FlagsOK, Goto, FailThrough, Return, stream, bufs
<1>1. CASE Request
  BY <1>1, Zenon DEF Request, SendPacket, ReceiveFrame, Drop
<1>2. CASE DropNext \/ (\E size \in Sizes : TakeSps(size)) \/ TakePps \/ TakeOther
           \/ TakeSlice \/ RejectNal \/ PacketDone
  BY <1>2, Zenon DEF DropNext, TakeSps, TakePps, TakeOther, TakeSlice, RejectNal, PacketDone
<1>3. CASE CreateConfig \/ CreateSurfaces \/ CreateContext \/ CreateFails
           \/ RejectSlice \/ CreateBuffer \/ CreateBufferFails
  BY <1>3, Zenon DEF CreateConfig, CreateSurfaces, CreateContext, CreateObject,
       CreateFails, RejectSlice, CreateBuffer, CreateBufferFails
<1>4. CASE BeginPicture \/ RenderPicture \/ EndPicture \/ Sync \/ DestroyBuffer \/ BuffersDone
  BY <1>4, Zenon DEF BeginPicture, RenderPicture, EndPicture, Sync, DestroyBuffer, BuffersDone
<1>5. CASE CreateImage \/ GetImage \/ MapBuffer \/ UnmapBuffer \/ DestroyImage
  BY <1>5, Zenon DEF CreateImage, GetImage, MapBuffer, UnmapBuffer, DestroyImage
<1>6. CASE UNCHANGED vars
  BY <1>6, Zenon DEF vars
<1> QED
  BY <1>1, <1>2, <1>3, <1>4, <1>5, <1>6 DEF Next, Proceed

(* The calls, and the parameter sets and slices of a packet. *)
LEMMA PacketStep ==
  ASSUME IInv,
         \/ (\E n \in 0..MaxNals : SendPacket(n)) \/ ReceiveFrame \/ Drop \/ DropNext
         \/ (\E size \in Sizes : TakeSps(size))
         \/ TakePps \/ TakeOther \/ TakeSlice \/ RejectNal \/ PacketDone
  PROVE  Objects'
<1> USE RegistryAssumption
      DEF IInv, Objects, ValuesOK, Building, Decoding, Counted, Fields, Goto, Return, stream, bufs
<1>1. ASSUME NEW n \in 0..MaxNals, SendPacket(n) PROVE Objects'
  BY <1>1 DEF SendPacket
<1>2. CASE ReceiveFrame \/ Drop
  BY <1>2 DEF ReceiveFrame, Drop
<1>3. CASE DropNext
  BY <1>3 DEF DropNext
<1>4. ASSUME NEW size \in Sizes, TakeSps(size) PROVE Objects'
  BY <1>4 DEF TakeSps
<1>5. CASE TakePps \/ TakeOther
  <2>1. /\ pc = "nals" /\ left > 0 /\ left' = left - 1
        /\ UNCHANGED <<display, driver, bufs, decoder, cachedSps, pending, pts, pc, result>>
    BY <1>5 DEF TakePps, TakeOther
  <2> QED
    BY <2>1
<1>6. CASE TakeSlice
  BY <1>6 DEF TakeSlice
<1>7. CASE RejectNal \/ PacketDone
  <2>1. /\ pc = "nals" /\ pc' = "idle" /\ left' = 0 /\ result' \in {"ok", "error"}
        /\ UNCHANGED <<display, driver, bufs, decoder, stream, pending, pts>>
    BY <1>7 DEF RejectNal, PacketDone
  <2> QED
    BY <2>1
<1> QED
  BY <1>1, <1>2, <1>3, <1>4, <1>5, <1>6, <1>7

(* from_sps() and decode_slice() *)
LEMMA SliceStep ==
  ASSUME IInv,
         \/ CreateConfig \/ CreateSurfaces \/ CreateContext \/ CreateFails
         \/ RejectSlice \/ CreateBuffer \/ CreateBufferFails
         \/ BeginPicture \/ RenderPicture \/ EndPicture \/ Sync
         \/ DestroyBuffer \/ BuffersDone
  PROVE  Objects'
<1> USE RegistryAssumption
      DEF IInv, Objects, ValuesOK, Building, Decoding, Counted, Fields, Goto, FailThrough,
          Return, stream, bufs
<1>1. CASE CreateConfig \/ CreateSurfaces \/ CreateContext
  BY <1>1 DEF CreateConfig, CreateSurfaces, CreateContext, CreateObject
<1>2. CASE CreateFails \/ RejectSlice
  BY <1>2 DEF CreateFails, RejectSlice
<1>3. CASE CreateBuffer
  BY <1>3 DEF CreateBuffer
<1>4. CASE CreateBufferFails
  BY <1>4 DEF CreateBufferFails
<1>5. CASE BeginPicture
  BY <1>5 DEF BeginPicture
<1>6. CASE RenderPicture
  BY <1>6 DEF RenderPicture
<1>7. CASE EndPicture
  BY <1>7 DEF EndPicture
<1>8. CASE Sync
  BY <1>8 DEF Sync
<1>9. CASE DestroyBuffer
  BY <1>9 DEF DestroyBuffer
<1>10. CASE BuffersDone
  BY <1>10 DEF BuffersDone
<1> QED
  BY <1>1, <1>2, <1>3, <1>4, <1>5, <1>6, <1>7, <1>8, <1>9, <1>10

(* read_back_nv12_as_i420() *)
LEMMA ImageStep ==
  ASSUME IInv, CreateImage \/ GetImage \/ MapBuffer \/ UnmapBuffer \/ DestroyImage
  PROVE  Objects'
<1> USE RegistryAssumption
      DEF IInv, Objects, ValuesOK, Building, Decoding, Counted, Fields, Goto, FailThrough,
          Return, stream, bufs
<1>1. CASE CreateImage
  BY <1>1 DEF CreateImage
<1>2. CASE GetImage
  BY <1>2 DEF GetImage
<1>3. CASE MapBuffer
  BY <1>3 DEF MapBuffer
<1>4. CASE UnmapBuffer
  BY <1>4 DEF UnmapBuffer
<1>5. CASE DestroyImage
  BY <1>5 DEF DestroyImage, Frames
<1> QED
  BY <1>1, <1>2, <1>3, <1>4, <1>5

LEMMA Step == IInv /\ [Next]_vars => IInv'
<1> SUFFICES ASSUME IInv, [Next]_vars PROVE IInv'
  OBVIOUS
<1>1. FlagsOK'
  BY FlagsStep DEF IInv
<1>2. CASE Next
  <2>1. Objects'
    BY <1>2, PacketStep, SliceStep, ImageStep DEF Next, Request, Proceed
  <2> QED
    BY <1>1, <2>1 DEF IInv
<1>3. CASE UNCHANGED vars
  BY <1>1, <1>3 DEF vars, stream, bufs, IInv, Objects, ValuesOK, Building, Decoding, Counted
<1> QED
  BY <1>2, <1>3

LEMMA Inductive == Spec => []IInv
<1>1. Init => IInv
  BY Initially
<1>2. IInv /\ [Next]_vars => IInv'
  BY Step
<1> QED
  BY <1>1, <1>2, PTL DEF Spec

-----------------------------------------------------------------------------
(* Every reachable state is of its type. *)
THEOREM TypeCorrect == Spec => []TypeOK
<1>1. IInv => TypeOK
  BY DEF IInv, Objects, TypeOK
<1> QED
  BY <1>1, Inductive, PTL

(* At every step of every call, whichever calls into the driver failed     *)
(* before it, every object is the inner decoder's, or of the step that     *)
(* works on it, but for the buffers a failed vaCreateBuffer made the code  *)
(* forget: between calls there is a whole inner decoder or none.           *)
THEOREM NothingElseLeft == Spec => []ObjectsOwned
<1>1. IInv => ObjectsOwned
  <2> SUFFICES ASSUME IInv PROVE ObjectsOwned
    OBVIOUS
  <2> USE DEF IInv, Objects, ValuesOK, Building, Decoding, Counted, Fields
  <2>1. decoder # None => Fields \subseteq driver
    OBVIOUS
  <2>2. decoder = None /\ driver # {} => driver \subseteq Fields /\ pc \in Fields \cup {"drop"}
    OBVIOUS
  <2>3. "picture" \in driver => pc \in {"render", "end"} /\ ids = 4
    OBVIOUS
  <2>4. /\ "image" \in driver => pc \in {"get", "map", "unmap", "destroy"}
        /\ "map" \in driver => pc = "unmap" /\ "image" \in driver
    OBVIOUS
  <2>5. /\ buffers = forgotten + ids
        /\ ids > 0 => pc \in {"buffers", "render", "end", "sync", "cleanup"}
    OBVIOUS
  <2> QED
    BY <2>1, <2>2, <2>3, <2>4, <2>5 DEF ObjectsOwned
<1> QED
  BY <1>1, Inductive, PTL
=============================================================================
