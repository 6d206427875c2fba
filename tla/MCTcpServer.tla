---------------------------- MODULE MCTcpServer -----------------------------
(* Instances of TcpServer for TLC: the constants are given in the cfgs.    *)
EXTENDS TcpServer, TLC

=============================================================================
