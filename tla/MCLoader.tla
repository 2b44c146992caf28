------------------------------ MODULE MCLoader ------------------------------
(* Small instances of Loader for TLC: three threads. *)
EXTENDS Loader

CONSTANTS t1, t2, t3

MCThreads == {t1, t2, t3}

=============================================================================
