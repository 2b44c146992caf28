------------------------ MODULE DecodeSession_proofs ------------------------
(***************************************************************************)
(* What DecodeSession promises, proved for submissions of any number of    *)
(* buffers: at every step of every call, whichever calls into the driver   *)
(* failed before it, the driver's objects are those the step says.  The    *)
(* last part is about the rows that are copied out of it, of ReadBack.     *)
(***************************************************************************)
EXTENDS DecodeSession, ReadBack, TLAPS

(* The session's fields name the driver's lasting objects, always. *)
Recorded == own = driver \cap Fields

(* A session being made or taken apart has its objects from the inside out. *)
Making ==
  /\ pc \in {"none", "attributes", "config"} => driver = {}
  /\ pc = "surfaces" => driver = {"config"}
  /\ pc = "context" => driver = {"config", "surfaces"}
  /\ pc \in {"into", "drop"} =>
       driver \in {{}, {"config"}, {"config", "surfaces"}, Fields}

(* A session at work has all three, and what the step it is at works on. *)
Working ==
  /\ pc \in {"idle", "buffers", "cleanup", "derive", "create"} => driver = Fields
  /\ pc \in {"render", "end"} => driver = Fields \cup {"picture"}
  /\ pc \in {"get", "copy"} => driver = Fields \cup {"image"}
  /\ pc = "unmap" => driver = Fields \cup {"image", "map"}
  /\ pc \in {"derived", "created"} =>
       \/ driver \in {Fields, Fields \cup {"image"}}
       \/ driver = Fields \cup {"image", "map"} /\ err = "Va"

(* The driver's buffers are those submit() counts, and only submit() has any. *)
Counted ==
  /\ buffers = ids
  /\ ids + left <= MaxBuffers
  /\ pc \notin {"buffers", "render", "end", "cleanup"} => ids = 0 /\ left = 0
  /\ pc = "buffers" => ids + left > 0
  /\ pc \in {"render", "end"} => left = 0 /\ ids > 0

(* Without a session the Display is the caller's, or closed. *)
DisplayKept == pc = "none" <=> display # "session"

IInv == TypeOK /\ Recorded /\ Making /\ Working /\ Counted /\ DisplayKept

-----------------------------------------------------------------------------
LEMMA Initially == Init => IInv
  BY BuffersAssumption DEF Init, IInv, TypeOK, Recorded, Making, Working, Counted,
       DisplayKept, Fields, Objects, Errors

(* The calls that make a session and take it apart. *)
LEMMA LifeStep ==
  ASSUME IInv,
         \/ New \/ GetAttributes \/ CreateConfig \/ CreateSurfaces \/ CreateContext
         \/ IntoDisplay \/ Drop \/ (\E o \in Fields : DestroyNext(o)) \/ Destroyed
  PROVE  IInv'
<1> USE BuffersAssumption
      DEF IInv, TypeOK, Recorded, Making, Working, Counted, DisplayKept, Fields, Objects,
          Errors, Call, Goto, Fail, Return, submission, lasting
<1>1. CASE New
  BY <1>1 DEF New
<1>2. CASE GetAttributes
  BY <1>2 DEF GetAttributes
<1>3. CASE CreateConfig
  BY <1>3 DEF CreateConfig, CreateObject
<1>4. CASE CreateSurfaces
  BY <1>4 DEF CreateSurfaces, CreateObject
<1>5. CASE CreateContext
  BY <1>5 DEF CreateContext, CreateObject
<1>6. CASE IntoDisplay \/ Drop
  BY <1>6 DEF IntoDisplay, Drop
<1>7. ASSUME NEW o \in Fields, DestroyNext(o) PROVE IInv'
  BY <1>7 DEF DestroyNext
<1>8. CASE Destroyed
  BY <1>8 DEF Destroyed
<1> QED
  BY <1>1, <1>2, <1>3, <1>4, <1>5, <1>6, <1>7, <1>8

(* submit() *)
LEMMA SubmitStep ==
  ASSUME IInv,
         \/ \E n \in 1..MaxBuffers : Submit(n)
         \/ RaggedBuffer \/ CreateBuffer \/ BeginPicture \/ RenderPicture \/ EndPicture
         \/ DestroyBuffer \/ SubmitReturns
  PROVE  IInv'
<1> USE BuffersAssumption
      DEF IInv, TypeOK, Recorded, Making, Working, Counted, DisplayKept, Fields, Objects,
          Errors, Call, Goto, Fail, Return, submission, lasting
<1>1. ASSUME NEW n \in 1..MaxBuffers, Submit(n) PROVE IInv'
  BY <1>1 DEF Submit
<1>2. CASE RaggedBuffer
  BY <1>2 DEF RaggedBuffer
<1>3. CASE CreateBuffer
  BY <1>3 DEF CreateBuffer
<1>4. CASE BeginPicture
  BY <1>4 DEF BeginPicture
<1>5. CASE RenderPicture
  BY <1>5 DEF RenderPicture
<1>6. CASE EndPicture
  BY <1>6 DEF EndPicture
<1>7. CASE DestroyBuffer
  BY <1>7 DEF DestroyBuffer
<1>8. CASE SubmitReturns
  BY <1>8 DEF SubmitReturns
<1> QED
  BY <1>1, <1>2, <1>3, <1>4, <1>5, <1>6, <1>7, <1>8

(* sync() and read() *)
LEMMA ReadStep ==
  ASSUME IInv,
         \/ Sync \/ ReadRejected \/ Read
         \/ DeriveImage \/ CreateImage \/ GetImage \/ CopyImage \/ UnmapBuffer
         \/ DerivedDone \/ CreatedDone
  PROVE  IInv'
<1> USE BuffersAssumption
      DEF IInv, TypeOK, Recorded, Making, Working, Counted, DisplayKept, Fields, Objects,
          Errors, Call, Goto, Fail, Return, submission, lasting
<1>1. CASE Sync \/ ReadRejected \/ Read
  BY <1>1 DEF Sync, ReadRejected, Read
<1>2. CASE DeriveImage
  BY <1>2 DEF DeriveImage
<1>3. CASE CreateImage
  BY <1>3 DEF CreateImage
<1>4. CASE GetImage
  BY <1>4 DEF GetImage, Path
<1>5. CASE CopyImage
  BY <1>5 DEF CopyImage, Path
<1>6. CASE UnmapBuffer
  BY <1>6 DEF UnmapBuffer, Path
<1>7. CASE DerivedDone
  BY <1>7 DEF DerivedDone
<1>8. CASE CreatedDone
  BY <1>8 DEF CreatedDone
<1> QED
  BY <1>1, <1>2, <1>3, <1>4, <1>5, <1>6, <1>7, <1>8

LEMMA Step == IInv /\ [Next]_vars => IInv'
<1> SUFFICES ASSUME IInv, [Next]_vars PROVE IInv'
  OBVIOUS
<1>1. CASE Next
  BY <1>1, LifeStep, SubmitStep, ReadStep DEF Next, Request, Proceed
<1>2. CASE UNCHANGED vars
  BY <1>2 DEF vars, IInv, TypeOK, Recorded, Making, Working, Counted, DisplayKept
<1> QED
  BY <1>1, <1>2

LEMMA Inductive == Spec => []IInv
<1>1. Init => IInv
  BY Initially
<1>2. IInv /\ [Next]_vars => IInv'
  BY Step
<1> QED
  BY <1>1, <1>2, PTL DEF Spec

-----------------------------------------------------------------------------
(* Every reachable state is of its type. *)
THEOREM TypeCorrect == Spec => []TypeOK
<1>1. IInv => TypeOK
  BY DEF IInv
<1> QED
  BY <1>1, Inductive, PTL

(* Between two calls the driver has the session's three objects and        *)
(* nothing else, and nothing once the session is gone, whichever calls     *)
(* into the driver failed and however often.                               *)
THEOREM NeverLeaks == Spec => []NothingLeaks
<1>1. IInv => NothingLeaks
  BY DEF IInv, Recorded, Making, Working, Counted, NothingLeaks, TypeOK, Fields
<1> QED
  BY <1>1, Inductive, PTL

(* What stands on an object goes before it, on every path.                 *)
THEOREM InsideOut == Spec => []Nested
<1>1. IInv => Nested
  <2> SUFFICES ASSUME IInv PROVE Nested
    OBVIOUS
  <2> USE DEF IInv, TypeOK, Making, Working, Counted, DisplayKept, Fields, Objects
  <2>1. /\ "surfaces" \in driver => "config" \in driver
        /\ "map" \in driver => "image" \in driver
        /\ driver \cap {"picture", "image"} # {} => "context" \in driver
    OBVIOUS
  <2>2. /\ buffers > 0 => "context" \in driver
        /\ "context" \in driver => "surfaces" \in driver
    OBVIOUS
  <2>3. "picture" \in driver => ids = buffers /\ buffers > 0 /\ left = 0
    OBVIOUS
  <2>4. display # "session" => driver = {}
    OBVIOUS
  <2> QED
    BY <2>1, <2>2, <2>3, <2>4 DEF Nested
<1> QED
  BY <1>1, Inductive, PTL

(* No buffer of a picture is destroyed while the picture is open: of the   *)
(* steps that follow a failure none skips vaEndPicture.                    *)
THEOREM EndsFirst == Spec => EndsWhatItBegins
<1>1. IInv /\ [Next]_vars => [buffers' < buffers => "picture" \notin driver]_vars
  <2> SUFFICES ASSUME IInv, Next, buffers' < buffers PROVE "picture" \notin driver
    OBVIOUS
  <2>1. buffers \in Nat
    BY DEF IInv, TypeOK
  <2>2. DestroyBuffer
    BY <2>1 DEF Next, Request, Proceed, New, GetAttributes, CreateConfig, CreateSurfaces,
         CreateContext, CreateObject, IntoDisplay, Drop, DestroyNext, Destroyed, Submit,
         RaggedBuffer, CreateBuffer, BeginPicture, RenderPicture, EndPicture,
         SubmitReturns, Sync, ReadRejected, Read, DeriveImage, CreateImage, GetImage,
         CopyImage, UnmapBuffer, DerivedDone, CreatedDone, submission
  <2> QED
    BY <2>2 DEF IInv, Working, DestroyBuffer, Fields
<1> QED
  BY <1>1, Inductive, PTL DEF Spec, EndsWhatItBegins

-----------------------------------------------------------------------------
(***************************************************************************)
(* Which bytes a read copies (ReadBack).  The checks of read() and         *)
(* copy_image() keep every row inside the image and the caller's planes,   *)
(* rows do not overlap, no image that holds the surface is refused, and    *)
(* none of their sums leaves a 64-bit word.  And what the unchecked copies *)
(* need.                                                                   *)
(***************************************************************************)

(* Products grow with their factors. *)
LEMMA Monotonic ==
  ASSUME NEW a \in Nat, NEW b \in Nat, NEW p \in Nat, a <= b
  PROVE  p * a <= p * b /\ a * p <= b * p
<1> DEFINE d == b - a
<1>1. d \in Nat /\ b = a + d
  OBVIOUS
<1>2. p * b = p * a + p * d /\ b * p = a * p + d * p
  BY <1>1
<1>3. p * d >= 0 /\ d * p >= 0
  BY <1>1
<1> QED
  BY <1>2, <1>3

(* The fields of a copy and of a layout are numbers. *)
LEMMA CopyFields ==
  ASSUME NEW c \in Copies, NEW l \in Layouts
  PROVE  /\ c.left \in Nat /\ c.top \in Nat /\ c.row \in Nat /\ c.rows \in Nat
         /\ c.rows > 0
         /\ l.offset \in Nat /\ l.pitch \in Nat /\ l.size \in Nat
BY DEF Copies, Layouts

(* "Every read below was bounds-checked": each row copied lies inside the  *)
(* image, if only the pitch and the end of the last row were looked at.    *)
THEOREM RowsInsideImage ==
  ASSUME NEW c \in Copies, NEW l \in Layouts, ImageHolds(c, l)
  PROVE  \A r \in 0..c.rows - 1 :
           /\ l.offset <= Source(c, l, r)
           /\ Source(c, l, r) + c.row <= l.size
<1> USE CopyFields
<1> TAKE r \in 0..c.rows - 1
<1>1. /\ c.top + r \in Nat /\ c.top + c.rows - 1 \in Nat
      /\ c.top + r <= c.top + c.rows - 1
  OBVIOUS
<1>2. l.pitch * (c.top + r) <= l.pitch * (c.top + c.rows - 1)
  BY <1>1, Monotonic
<1>3. l.pitch * (c.top + r) \in Nat /\ l.pitch * (c.top + c.rows - 1) \in Nat
  BY <1>1
<1>4. l.offset + l.pitch * (c.top + c.rows - 1) + c.left + c.row <= l.size
  BY DEF ImageHolds, SourceEnd
<1> DEFINE p == l.pitch * (c.top + r)
           e == l.pitch * (c.top + c.rows - 1)
<1>5. p \in Nat /\ e \in Nat /\ p <= e /\ l.offset + e + c.left + c.row <= l.size
  BY <1>2, <1>3, <1>4
<1> HIDE DEF p, e
<1>6. l.offset <= l.offset + p + c.left /\ l.offset + p + c.left + c.row <= l.size
  BY <1>5
<1> QED
  BY <1>6 DEF Source, p

(* Each row written lies inside the caller's plane, and no two overlap.    *)
THEOREM RowsInsidePlane ==
  ASSUME NEW c \in Copies, NEW stride \in Nat, NEW length \in Nat,
         PlaneHolds(c, stride, length)
  PROVE  \A r \in 0..c.rows - 1 :
           /\ Destination(stride, r) + c.row <= length
           /\ \A s \in 0..r - 1 :
                Destination(stride, s) + c.row <= Destination(stride, r)
<1>1. c.row \in Nat /\ c.rows \in Nat /\ c.rows > 0
  BY DEF Copies
<1>2. stride >= c.row /\ length >= stride * (c.rows - 1) + c.row
  BY DEF PlaneHolds
<1> TAKE r \in 0..c.rows - 1
<1>3. stride * r <= stride * (c.rows - 1)
  BY <1>1, Monotonic
<1>4. stride * r \in Nat /\ stride * (c.rows - 1) \in Nat
  BY <1>1
<1>5. stride * r + c.row <= length
  BY <1>1, <1>2, <1>3, <1>4
<1>6. ASSUME NEW s \in 0..r - 1
      PROVE  stride * s + c.row <= stride * r
  <2>1. s \in Nat /\ s + 1 <= r /\ r \in Nat
    BY <1>1
  <2>2. stride * (s + 1) <= stride * r
    BY <2>1, Monotonic
  <2>3. stride * (s + 1) = stride * s + stride
    BY <2>1
  <2> QED
    BY <1>1, <1>2, <1>4, <2>1, <2>2, <2>3
<1> QED
  BY <1>5, <1>6 DEF Destination

-----------------------------------------------------------------------------
(* A copy that stays in the corner of H rows, of an image with H rows.     *)
LEMMA Fits ==
  ASSUME NEW c \in Copies, NEW l \in Layouts, NEW H \in Nat,
         c.left + c.row <= l.pitch, c.top + c.rows <= H,
         l.offset + l.pitch * H <= l.size
  PROVE  ImageHolds(c, l)
<1> USE CopyFields
<1> DEFINE n == c.top + c.rows - 1
<1>1. n \in Nat /\ n + 1 \in Nat /\ n + 1 <= H
  OBVIOUS
<1> HIDE DEF n
<1>2. l.pitch * (n + 1) <= l.pitch * H
  BY <1>1, Monotonic
<1>3. l.pitch * (n + 1) = l.pitch * n + l.pitch
  BY <1>1
<1> DEFINE e == l.pitch * n
           a == l.pitch * H
<1>4. e \in Nat /\ a \in Nat /\ e + l.pitch <= a /\ l.offset + a <= l.size
  BY <1>1, <1>2, <1>3
<1> HIDE DEF e, a
<1>5. l.offset + e + c.left + c.row <= l.size
  BY <1>4
<1> QED
  BY <1>5 DEF ImageHolds, SourceEnd, e, n

(* What read() asks copy_image() for is a copy within the surface, rounded *)
(* up to whole pairs of chroma samples.                                    *)
LEMMA WithinSurface ==
  ASSUME NEW width \in Nat, NEW height \in Nat, NEW q \in Rectangles,
         NEW sb \in SampleBytes, Accepts(width, height, q)
  PROVE  /\ Luma(q, sb) \in Copies /\ Chroma(q, sb) \in Copies
         /\ Luma(q, sb).left + Luma(q, sb).row <= width * sb
         /\ Luma(q, sb).top + Luma(q, sb).rows <= height
         /\ Chroma(q, sb).left + Chroma(q, sb).row <= Even(width) * sb
         /\ Chroma(q, sb).top + Chroma(q, sb).rows <= Half(height)
<1>1. /\ q.x \in Nat /\ q.y \in Nat /\ q.width \in Nat /\ q.height \in Nat
      /\ q.width > 0 /\ q.height > 0
      /\ q.x % 2 = 0 /\ q.y % 2 = 0
      /\ q.x + q.width <= width /\ q.y + q.height <= height
  BY DEF Rectangles, Accepts
<1>2. /\ Even(q.width) \in Nat /\ Half(q.height) \in Nat \ {0}
      /\ q.y \div 2 \in Nat
      /\ q.x + Even(q.width) <= Even(width) /\ Even(width) \in Nat
      /\ q.y \div 2 + Half(q.height) <= Half(height)
  BY <1>1 DEF Even, Half
<1>3. ASSUME NEW n \in Nat PROVE n * sb \in Nat /\ (sb = 1 => n * sb = n)
                                 /\ (sb = 2 => n * sb = n + n)
  BY DEF SampleBytes
<1>4. Luma(q, sb) \in Copies /\ Chroma(q, sb) \in Copies
  BY <1>1, <1>2, <1>3 DEF Luma, Chroma, Copies
<1>5. q.x * sb + q.width * sb <= width * sb
  BY <1>1, <1>3 DEF SampleBytes
<1>6. q.x * sb + Even(q.width) * sb <= Even(width) * sb
  BY <1>1, <1>2, <1>3 DEF SampleBytes
<1> QED
  BY <1>1, <1>2, <1>4, <1>5, <1>6 DEF Luma, Chroma

(* "image layout smaller than the surface" is said of no other: in an      *)
(* image that holds the whole surface, every rectangle of it can be read.  *)
THEOREM WholeSurfaceFits ==
  ASSUME NEW width \in Nat, NEW height \in Nat, NEW q \in Rectangles,
         NEW sb \in SampleBytes, Accepts(width, height, q),
         NEW luma \in Layouts, NEW chroma \in Layouts,
         luma.pitch >= width * sb,
         luma.offset + luma.pitch * height <= luma.size,
         chroma.pitch >= Even(width) * sb,
         chroma.offset + chroma.pitch * Half(height) <= chroma.size
  PROVE  ImageHolds(Luma(q, sb), luma) /\ ImageHolds(Chroma(q, sb), chroma)
<1> DEFINE c == Luma(q, sb)
           d == Chroma(q, sb)
<1>1. /\ c \in Copies /\ d \in Copies
      /\ c.left + c.row <= width * sb /\ c.top + c.rows <= height
      /\ d.left + d.row <= Even(width) * sb /\ d.top + d.rows <= Half(height)
  BY WithinSurface
<1>2. Half(height) \in Nat /\ width * sb \in Nat /\ Even(width) * sb \in Nat
  BY DEF Half, Even, SampleBytes
<1> HIDE DEF c, d
<1>3. c.left + c.row \in Nat /\ d.left + d.row \in Nat
  BY <1>1 DEF Copies
<1>4. luma.pitch \in Nat /\ chroma.pitch \in Nat
  BY DEF Layouts
<1>5. c.left + c.row <= luma.pitch /\ d.left + d.row <= chroma.pitch
  BY <1>1, <1>2, <1>3, <1>4
<1>6. ImageHolds(c, luma)
  BY <1>1, <1>5, Fits
<1>7. ImageHolds(d, chroma)
  BY <1>1, <1>2, <1>5, Fits
<1> QED
  BY <1>6, <1>7 DEF c, d

(* A sum of three parts, each of them bounded.                             *)
LEMMA Bounded ==
  ASSUME NEW c \in Copies, NEW l \in Layouts, NEW W \in Nat, W > 0,
         NEW N \in Nat, NEW R \in Nat,
         l.offset < W, l.pitch < W,
         c.top + c.rows - 1 <= N, c.left + c.row <= R,
         (W - 1) + (W - 1) * N + R < W * W
  PROVE  SourceEnd(c, l) < W * W
<1> USE CopyFields
<1> DEFINE n == c.top + c.rows - 1
           v == W - 1
<1>1. n \in Nat /\ v \in Nat /\ n <= N /\ l.pitch <= v /\ l.offset <= v
  OBVIOUS
<1> HIDE DEF n
<1>2. l.pitch * n <= v * n /\ v * n <= v * N
  BY <1>1, Monotonic
<1> DEFINE e == l.pitch * n
           f == v * n
           g == v * N
           w == W * W
<1>3. e \in Nat /\ f \in Nat /\ g \in Nat /\ w \in Nat /\ v + g + R < w
  BY <1>1
<1>4. e <= f /\ f <= g
  BY <1>2
<1> HIDE DEF e, f, g, w, v
<1>5. l.offset + e + c.left + c.row < w
  BY <1>1, <1>3, <1>4
<1> QED
  BY <1>5 DEF SourceEnd, e, n, w

(* What copy_image() compares with the size of the image fits a word twice *)
(* as wide as the numbers of the driver and of the surface: no sum comes   *)
(* round to a small one and passes.  The numbers are of 32 bits, the sums  *)
(* of 64, and for the widest of surfaces that of the luma plane is the     *)
(* largest there is; W is 2^32.                                            *)
THEOREM NoOverflow ==
  ASSUME NEW W \in Nat, W >= 4,
         NEW width \in Nat, NEW height \in Nat, width < W, height < W,
         NEW q \in Rectangles, NEW sb \in SampleBytes, Accepts(width, height, q),
         NEW l \in Layouts, l.offset < W, l.pitch < W
  PROVE  /\ SourceEnd(Luma(q, sb), l) < W * W
         /\ SourceEnd(Chroma(q, sb), l) < W * W
<1> DEFINE c == Luma(q, sb)
           d == Chroma(q, sb)
<1>1. /\ c \in Copies /\ d \in Copies
      /\ c.left + c.row <= width * sb /\ c.top + c.rows <= height
      /\ d.left + d.row <= Even(width) * sb /\ d.top + d.rows <= Half(height)
  BY WithinSurface
<1> HIDE DEF c, d
<1>2. /\ c.left \in Nat /\ c.row \in Nat /\ c.top \in Nat /\ c.rows \in Nat
      /\ d.left \in Nat /\ d.row \in Nat /\ d.top \in Nat /\ d.rows \in Nat
  BY <1>1 DEF Copies
<1>3. width * sb <= 2 * W - 2 /\ width * sb \in Nat
  BY DEF SampleBytes
<1>4. Even(width) <= W /\ Even(width) \in Nat /\ Half(height) <= W - 2 /\ Half(height) \in Nat
  BY DEF Even, Half
<1>5. Even(width) * sb <= 2 * W /\ Even(width) * sb \in Nat
  BY <1>4 DEF SampleBytes
<1>6. /\ c.top + c.rows - 1 <= W - 2 /\ c.left + c.row <= 2 * W - 2
      /\ d.top + d.rows - 1 <= W - 3 /\ d.left + d.row <= 2 * W
  BY <1>1, <1>2, <1>3, <1>4, <1>5
<1>7. /\ W - 2 \in Nat /\ W - 3 \in Nat /\ 2 * W - 2 \in Nat /\ 2 * W \in Nat
      /\ (W - 1) * (W - 2) = W * W - 3 * W + 2
      /\ (W - 1) * (W - 3) = W * W - 4 * W + 3
      /\ W * W \in Nat
  OBVIOUS
<1>8. /\ (W - 1) + (W - 1) * (W - 2) + (2 * W - 2) < W * W
      /\ (W - 1) + (W - 1) * (W - 3) + (2 * W) < W * W
  BY <1>7
<1>9. SourceEnd(c, l) < W * W
  BY <1>1, <1>6, <1>7, <1>8, Bounded
<1>10. SourceEnd(d, l) < W * W
  BY <1>1, <1>6, <1>7, <1>8, Bounded
<1> QED
  BY <1>9, <1>10 DEF c, d

-----------------------------------------------------------------------------
(* copy_nv12_image_to_i420() checks nothing.  It stays inside an image     *)
(* whose planes are whole, pitch by height; nothing less is looked at.     *)
THEOREM WholeImageCopies ==
  ASSUME NEW width \in Nat, NEW height \in Nat, height >= 2,
         NEW luma \in Layouts, NEW chroma \in Layouts,
         luma.pitch >= width,
         luma.offset + luma.pitch * height <= luma.size,
         chroma.pitch >= Even(width),
         chroma.offset + chroma.pitch * Half(height) <= chroma.size
  PROVE  /\ ImageHolds(ImageLuma(width, height), luma)
         /\ ImageHolds(ImageChroma(width, height), chroma)
<1>1. /\ Half(height) \in Nat /\ height \div 2 \in Nat \ {0}
      /\ height \div 2 <= Half(height)
      /\ 2 * (width \div 2) \in Nat /\ 2 * (width \div 2) <= Even(width)
      /\ Even(width) \in Nat /\ chroma.pitch \in Nat
  BY DEF Half, Even, Layouts
<1>2. /\ ImageLuma(width, height) \in Copies
      /\ ImageChroma(width, height) \in Copies
  BY <1>1 DEF ImageLuma, ImageChroma, Copies
<1>3. ImageHolds(ImageLuma(width, height), luma)
  BY <1>2, Fits DEF ImageLuma
<1>4. /\ ImageChroma(width, height).left + ImageChroma(width, height).row <= chroma.pitch
      /\ ImageChroma(width, height).top + ImageChroma(width, height).rows <= Half(height)
  BY <1>1 DEF ImageChroma
<1>5. ImageHolds(ImageChroma(width, height), chroma)
  BY <1>1, <1>2, <1>4, Fits
<1> QED
  BY <1>3, <1>5

(* Nor does crop_plane(): its slices are inside the plane when the part    *)
(* kept is no larger than the plane, and this is all it needs.             *)
THEOREM CropInside ==
  ASSUME NEW width \in Nat, NEW height \in Nat,
         NEW w \in Nat, NEW h \in Nat \ {0}, w <= width, h <= height
  PROVE  \A r \in 0..h - 1 :
           Source(Crop(w, h), Packed(width, height), r) + w <= width * height
<1>1. Crop(w, h) \in Copies /\ Packed(width, height) \in Layouts
  BY DEF Crop, Packed, Copies, Layouts
<1>2. ImageHolds(Crop(w, h), Packed(width, height))
  BY <1>1, Fits DEF Crop, Packed
<1> QED
  BY <1>1, <1>2, RowsInsideImage DEF Crop, Packed
=============================================================================
