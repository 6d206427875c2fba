---------------------------- MODULE MCLifecycle -----------------------------
(* Instance of Boot, Shutdown and Log for TLC.  The threads are started by *)
(* the last step of Boot; what they do until the end does not depend on    *)
(* the configuration, so the shutdown is explored with the defaults only.  *)
(* A death takes the threads with it.  The log shares no state with the    *)
(* rest and is explored by itself.                                         *)
EXTENDS Boot, Shutdown, Log

Init == BootInit /\ ShutdownInit /\ LogInit

Next ==
    \/ /\ LogInit /\ log_file = <<>>
       /\ \/ stage = 0 /\ BootNext /\ ThreadsGone
          \/ /\ at = "running" /\ applied = {Defaults} /\ failed = {}
             /\ ShutdownNext /\ UNCHANGED bootVars
       /\ UNCHANGED logVars
    \/ BootInit /\ ShutdownInit /\ LogNext /\ UNCHANGED <<bootVars, shutdownVars>>

vars == <<bootVars, shutdownVars, logVars>>

(* Fairness: once the stop is requested main and the threads keep running. *)
Spec ==
    /\ Init /\ [][Next]_vars
    /\ WF_vars(Stopping /\ UNCHANGED <<bootVars, logVars>>)
    /\ \A t \in Threads : WF_vars(Step(t) /\ UNCHANGED <<bootVars, logVars>>)

=============================================================================
