--------------------------- MODULE MCCapabilities ---------------------------
(* A small instance of Capabilities for TLC: a family of two profiles, the  *)
(* shape of AV1's, VP9's and MPEG-2's rows of KNOWN_CODECS.                 *)
EXTENDS Capabilities

MCFamily == <<"av1", "av1">>

MCEncoders == {"EncSlice"}

=============================================================================
