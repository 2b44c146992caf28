------------------------------- MODULE MCHevc -------------------------------
(* Small instances of HevcDecoder for TLC: of what the driver is asked, two *)
(* kinds; a DPB of one picture and of two, so three and four surfaces.      *)
EXTENDS HevcDecoder

CONSTANTS r1, r2

MCSps == {[req |-> r1, dpb |-> 1], [req |-> r1, dpb |-> 2], [req |-> r2, dpb |-> 2]}
MCIntra == {[req |-> r1, dpb |-> 1]}
MCOneId == {0}

=============================================================================
