------------------------------- MODULE MCH264 -------------------------------
(* Small instances of H264Decoder for TLC: sequences with two and three    *)
(* reference frames, so four and five surfaces.                            *)
EXTENDS H264Decoder, TLC

CONSTANTS r1, r2

MCReqs == {r1, r2}
MCMaxRefs == r1 :> 2 @@ r2 :> 3
MCOneSps == {0}
MCTwoSps == {0, 1}

============================================================================
