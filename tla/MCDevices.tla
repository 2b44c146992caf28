----------------------------- MODULE MCDevices -----------------------------
(* Small instances of Devices for TLC: an index for every node, and         *)
(* descriptors for every decoder and the walk.                              *)
EXTENDS Devices

MCIndices == 0..Last

MCFds == 1..MaxDecoders + 1

=============================================================================
