---------------------------- MODULE MCPendingAck ----------------------------
(* Instances of PendingAck for TLC: the constants are given in the cfgs.   *)
EXTENDS PendingAck, TLC

\* Client descriptors are interchangeable.
ClientSymmetry == Permutations(Clients)

=============================================================================
