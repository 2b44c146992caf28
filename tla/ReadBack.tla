------------------------------ MODULE ReadBack ------------------------------
(***************************************************************************)
(* Which bytes a read-back copies: read() and copy_image() of              *)
(* src/src/session.rs, where the driver says how an image lies in memory   *)
(* and the caller how its planes do, and the copies of                     *)
(* src/src/decoder.rs, which check neither.  Both planes of an image are   *)
(* copied alike, rows of bytes out of rows of bytes.  Operators only:      *)
(* DecodeSession_proofs says what they are good for.                            *)
(***************************************************************************)
EXTENDS Integers

(* A plane as the driver describes it, in an image of `size` bytes. *)
Layouts == [offset : Nat, pitch : Nat, size : Nat]

(* What is copied of a plane: `rows` rows of `row` bytes, from row `top` on *)
(* and `left` bytes into each.                                              *)
Copies == [left : Nat, top : Nat, row : Nat, rows : Nat \ {0}]

Rectangles == [x : Nat, y : Nat, width : Nat \ {0}, height : Nat \ {0}]

(* sample_bytes(): one byte to a sample in NV12, two in P010. *)
SampleBytes == {1, 2}

Even(n) == n + (n % 2)
Half(n) == (n + 1) \div 2

(* read() on a surface of `width` by `height`. *)
Accepts(width, height, q) ==
  /\ q.x % 2 = 0 /\ q.y % 2 = 0
  /\ q.x + q.width <= width
  /\ q.y + q.height <= height

Luma(q, sb) ==
  [left |-> q.x * sb, top |-> q.y, row |-> q.width * sb, rows |-> q.height]

(* The chroma samples of a rectangle, interleaved in pairs. *)
Chroma(q, sb) ==
  [left |-> q.x * sb, top |-> q.y \div 2,
   row |-> Even(q.width) * sb, rows |-> Half(q.height)]

(* Where row r is read, and where it is written. *)
Source(c, l, r) == l.offset + l.pitch * (c.top + r) + c.left
Destination(stride, r) == stride * r

(* The end of the last row. *)
SourceEnd(c, l) == l.offset + l.pitch * (c.top + c.rows - 1) + c.left + c.row

(* copy_image() refuses a layout "smaller than the surface". *)
ImageHolds(c, l) == l.pitch >= c.left + c.row /\ SourceEnd(c, l) <= l.size

(* read() refuses planes that are too small. *)
PlaneHolds(c, stride, length) ==
  /\ stride >= c.row
  /\ length >= stride * (c.rows - 1) + c.row

(* copy_nv12_image_to_i420(): the image from its corner, without checks; an *)
(* odd last column or row has no chroma.                                    *)
ImageLuma(width, height) == [left |-> 0, top |-> 0, row |-> width, rows |-> height]
ImageChroma(width, height) ==
  [left |-> 0, top |-> 0, row |-> 2 * (width \div 2), rows |-> height \div 2]

(* crop_plane(): the corner of a plane without padding. *)
Packed(width, height) == [offset |-> 0, pitch |-> width, size |-> width * height]
Crop(width, height) == [left |-> 0, top |-> 0, row |-> width, rows |-> height]
=============================================================================
