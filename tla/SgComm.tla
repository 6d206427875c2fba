------------------------------- MODULE SgComm -------------------------------
(***************************************************************************)
(* sg-comm.c as a whole: the bin counter (BinCount) and the pending list   *)
(* (PendingAck) in one process.  They meet in gpio_change_callback, which  *)
(* broadcasts a lift message, asks for the client list and only then calls *)
(*     add_pending(clist[i], bin_message, bincount)                        *)
(* for each client, the third argument being a fresh, unlocked read of     *)
(* bincount.  The clients acknowledge lift ids they have been told.        *)
(*                                                                         *)
(* They meet again in the server: SgTcpServer_broadcast, called by the     *)
(* callback and by bin_clr_handler, holds clients_mtx while it waits for   *)
(* room in send_q, where ack_manager and bin_query_handler put messages    *)
(* too; send_loop wants clients_mtx to clean up after a send that failed.  *)
(* The array is a number of clients here, the -1 of failed accepts left    *)
(* out; TcpServer has it in detail.                                        *)
(***************************************************************************)
EXTENDS Integers, Sequences, FiniteSets

CONSTANTS Clients, MaxBin, Faults, MAX_RETRIES, TIMEOUT_SEC, MaxLag, SendCap,
          AckCap, MaxAdds

\* What BinCount and PendingAck assume of their constants.
ASSUME CommAssumption ==
    /\ {MaxBin, MaxLag, MaxAdds} \subseteq Nat
    /\ {MAX_RETRIES, TIMEOUT_SEC, SendCap, AckCap} \subseteq Nat \ {0}
    /\ Faults \subseteq {"read", "write"}

Keys == 0 .. MaxBin

VARIABLES up, bincount, file, mutex, pc, msg, todo, issued, failed
VARIABLES pending, mgr, rested, lag, left, ackq, task, queued, adds,
          sent, latest, silenced
VARIABLES call,      \* the add_pending call being made: {} or {[fd, key]}
          told,      \* the highest lift id ever broadcast
          caster,    \* who holds clients_mtx for a broadcast: "gpio", "clr"
                     \* or "none"
          toSend,    \* messages that broadcast must still put in send_q
          snd        \* send_loop: "pop", or "clean" after a failed send

Counter == INSTANCE BinCount
List    == INSTANCE PendingAck

counterVars == <<up, bincount, file, mutex, pc, msg, todo, issued, failed>>
listVars    == <<pending, mgr, rested, lag, left, ackq, task, queued,
                 adds, sent, latest, silenced>>
server      == <<caster, toSend, snd>>
glue        == <<call, told, server>>
vars        == <<counterVars, listVars, glue>>

Init ==
    /\ Counter!Init
    /\ List!Init
    /\ call = {}
    /\ told = 0
    /\ caster = "none"
    /\ toSend = 0
    /\ snd = "pop"

-----------------------------------------------------------------------------
(* gpio_change_callback's loop over the clients                            *)

\* The arguments are evaluated: bincount is read without bincount_mutex.
CallAddPending(c) ==
    /\ pc["gpio"] = "pend"
    /\ c \in todo
    /\ call = {}
    /\ call' = {[fd |-> c, key |-> bincount]}
    /\ UNCHANGED <<counterVars, listVars, told, server>>

\* add_pending gets pending_mtx and inserts the entry.
AddPending(a) ==
    /\ a \in call
    /\ call' = {}
    /\ Counter!GpioPend(a.fd)
    /\ List!add_pending(a.fd, a.key)
    /\ UNCHANGED <<told, server>>

\* SgTcpServer_get_clients, which takes clients_mtx.
ListClients ==
    /\ caster = "none"
    /\ Counter!GpioList
    /\ UNCHANGED <<listVars, glue>>

-----------------------------------------------------------------------------
(* SgTcpServer_broadcast and send_loop                                     *)

\* A lift or a clear to tell, or (idle) a reverse input that has changed.
BeginBroadcast(t) ==
    /\ up
    /\ pc[t] = "bcast" \/ (t = "gpio" /\ pc[t] = "idle")
    /\ caster = "none"
    /\ caster' = t
    /\ toSend' \in 0 .. Cardinality(Clients)
    /\ UNCHANGED <<counterVars, listVars, call, told, snd>>

\* One SgTcpServer_send of the loop: it blocks while send_q is full.
BroadcastPush(t) ==
    /\ caster = t
    /\ toSend > 0
    /\ toSend' = toSend - 1
    /\ told' = IF msg[t] > told /\ t = "gpio" THEN msg[t] ELSE told
    /\ List!OtherSend
    /\ UNCHANGED <<counterVars, call, caster, snd>>

EndBroadcast(t) ==
    /\ caster = t
    /\ toSend = 0
    /\ caster' = "none"
    /\ \/ t = "gpio" /\ Counter!GpioBroadcast
       \/ t = "clr" /\ Counter!ClrBroadcast
       \/ pc[t] = "idle" /\ UNCHANGED counterVars
    /\ UNCHANGED <<listVars, call, told, toSend, snd>>

\* send() takes the message, or fails and send_loop goes to clean up.
SendTakes ==
    /\ snd = "pop"
    /\ List!SendTakes
    /\ snd' \in {"pop", "clean"}
    /\ UNCHANGED <<counterVars, call, told, caster, toSend>>

\* cleanup_connection gets clients_mtx.
SendCleans ==
    /\ snd = "clean"
    /\ caster = "none"
    /\ snd' = "pop"
    /\ UNCHANGED <<counterVars, listVars, call, told, caster, toSend>>

\* bin_query_handler's answer.  It waits for room too, with no mutex held; its
\* reading of bincount, which waits for nothing, is in BinCount alone.
Answer ==
    /\ up
    /\ List!OtherSend
    /\ UNCHANGED <<counterVars, glue>>

-----------------------------------------------------------------------------
(* The steps of one component alone                                        *)

\* A bin lift; MaxAdds bounds the lifts so that every one can be listed.
Lift ==
    /\ adds + Cardinality(Clients) <= MaxAdds
    /\ caster # "gpio"
    /\ Counter!GpioLock
    /\ UNCHANGED <<listVars, glue>>

CounterAlone ==
    /\ \/ Counter!Boot
       \/ Counter!GpioInc \/ Counter!GpioWrite \/ Counter!GpioFormat
       \/ Counter!ClrLock \/ Counter!ClrZero \/ Counter!ClrWrite \/ Counter!ClrRead
       \/ Counter!ClrFormat
    /\ UNCHANGED <<listVars, glue>>

\* A client answers {BIN=k;} to a lift it may have been told, before or after
\* a clear or a restart.
ClientAcks(c, k) ==
    /\ up
    /\ 0 < k /\ k <= told
    /\ List!AckArrives(c, k)
    /\ UNCHANGED <<counterVars, glue>>

ListAlone ==
    /\ up
    /\ \/ List!AckPop \/ (\E t \in task : List!AckMark(t)) \/ List!MgrStep
       \/ List!Tick
    /\ UNCHANGED <<counterVars, glue>>

\* The process is killed; clients reconnect with new descriptors.
Crash ==
    /\ Counter!Crash
    /\ List!ProcessDies
    /\ call' = {}
    /\ caster' = "none"
    /\ toSend' = 0
    /\ snd' = "pop"
    /\ UNCHANGED told

Next ==
    \/ Lift
    \/ CounterAlone
    \/ \E t \in {"gpio", "clr"} :
          BeginBroadcast(t) \/ BroadcastPush(t) \/ EndBroadcast(t)
    \/ ListClients
    \/ SendTakes \/ SendCleans \/ Answer
    \/ \E c \in Clients : CallAddPending(c)
    \/ \E a \in call : AddPending(a)
    \/ \E c \in Clients, k \in Keys : ClientAcks(c, k)
    \/ ListAlone
    \/ Crash

Spec == Init /\ [][Next]_vars

(* Fairness: every thread keeps running and the clock advances.  The       *)
(* mutexes and the slots of send_q are taken again and again by others, so *)
(* a thread that takes one needs strong fairness: it gets it if it is free *)
(* infinitely often (the manager sleeps a second between scans, the        *)
(* handlers wait for requests, others send a message per lift or request). *)
(* Nothing makes an input change, a client ask or a broadcast of a clear   *)
(* begin.                                                                  *)
CallbackRuns ==
    \/ Counter!GpioInc /\ UNCHANGED <<listVars, glue>>
    \/ Counter!GpioWrite /\ UNCHANGED <<listVars, glue>>
    \/ Counter!GpioFormat /\ UNCHANGED <<listVars, glue>>
    \/ pc["gpio"] = "bcast" /\ BeginBroadcast("gpio")
    \/ BroadcastPush("gpio")
    \/ EndBroadcast("gpio")
    \/ ListClients
    \/ \E c \in Clients : CallAddPending(c)
    \/ \E a \in call : AddPending(a)

Fairness ==
    /\ SF_vars(CallbackRuns)
    /\ SF_vars(BroadcastPush("clr") \/ EndBroadcast("clr"))
    /\ SF_vars(SendTakes \/ SendCleans)
    /\ SF_vars(up /\ List!MgrStep /\ UNCHANGED <<counterVars, glue>>)
    /\ WF_vars(up /\ List!Tick /\ UNCHANGED <<counterVars, glue>>)

FairSpec == Spec /\ Fairness

-----------------------------------------------------------------------------
(* Properties                                                              *)

\* The deadlock of a broadcast that waits for room in send_q with clients_mtx
\* and of send_loop, which waits for clients_mtx and makes no room.
SendStuck ==
    /\ caster # "none"
    /\ toSend > 0
    /\ queued = SendCap
    /\ snd = "clean"

\* The GPIO callback, which samples no input while it runs, returns in all
\* cases but that one: it never waits for ever for pending_mtx, which
\* ack_manager keeps while its resends wait for room in send_q, nor for
\* clients_mtx, which a clear's broadcast keeps while it waits likewise.
CallbackBusy    == pc["gpio"] # "idle" \/ caster = "gpio"
CallbackReturns == CallbackBusy ~> (~CallbackBusy \/ SendStuck)

\* Lifts that no client acknowledges do not stay in the list: once there are
\* no more lifts it empties in all cases but that one, whatever clears,
\* requests and the callback do.
ListDrains == (adds = MaxAdds) ~> (pending = {} \/ SendStuck)

=============================================================================
