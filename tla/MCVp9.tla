------------------------------- MODULE MCVp9 -------------------------------
(* Small instances of Vp9Decoder for TLC: three reference slots, and as    *)
(* many surfaces more as SURFACES has above eight.                         *)
EXTENDS Vp9Decoder

MCRefIdx == 0..2
MCSlots == 0..4

============================================================================
