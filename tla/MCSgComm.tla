------------------------------ MODULE MCSgComm ------------------------------
(***************************************************************************)
(* An instance of SgComm for TLC: the constants are given in comm.cfg.     *)
(***************************************************************************)
EXTENDS SgComm

\* All that guards and properties read: what is left out are the histories of
\* BinCount and PendingAck (issued, failed, sent, latest, silenced), which only
\* their own safety properties read, so states that differ in them alone have
\* the same behaviours.
Present == <<up, bincount, file, mutex, pc, msg, todo, pending, mgr, rested, lag,
             left, ackq, task, queued, adds, glue>>

=============================================================================
