----------------------------- MODULE MCRegistry -----------------------------
(* Small instances of RegistryDecoder for TLC: two picture sizes. *)
EXTENDS RegistryDecoder

CONSTANTS small, large

MCSizes == {small, large}

=============================================================================
