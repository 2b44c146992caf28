------------------------------- MODULE MCAv1 -------------------------------
(* Small instances of Av1Decoder for TLC: two reference slots, so seven    *)
(* surfaces with film grain and four without.                              *)
EXTENDS Av1Decoder

MCRefIdx == 0..1

============================================================================
