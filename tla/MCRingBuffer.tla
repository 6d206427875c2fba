---------------------------- MODULE MCRingBuffer ----------------------------
(* Instances of RingBuffer for TLC: the constants are given in the cfgs.   *)
EXTENDS RingBuffer

=============================================================================
