------------------------------ MODULE Shutdown ------------------------------
(***************************************************************************)
(* The end of main(): stop_sg_server joins the GPIO monitor and the four   *)
(* request and resend threads, frees the task queues, then SgTcpServer_free*)
(* joins io_loop, worker_loop and send_loop, and frees the server; at last *)
(* GPIO access and the log are closed.  It begins when running is cleared, *)
(* which only handle_sigint does and nothing in this program installs.     *)
(*                                                                         *)
(* stage counts main's steps.  pc[t] of a thread is "test" (the condition  *)
(* of its loop), "wait" (for a timeout, an event or an item), "push" (in   *)
(* rb_push to send_q, or of io_loop to recv_q), "use" (worker_loop in      *)
(* on_message), a place where clients_mtx is wanted or held, or "done":    *)
(*   "lift", "tell"  to broadcast: a lift; a clear or a reverse input,     *)
(*   "list"          the monitor's SgTcpServer_get_clients after a lift,   *)
(*   "clean"         cleanup_connection, after a send that failed,         *)
(*   "enter"         io_loop, with a connection to add or to clean up.     *)
(* Left out are bincount_mutex and pending_mtx: who has the first waits    *)
(* for nothing, and who has the second waits for room in send_q at most,   *)
(* which is here (BinCount and PendingAck have them).                      *)
(***************************************************************************)
EXTENDS Integers

CONSTANTS Handlers,  \* of bin_query, bin_clr, bin_ack, those that are modelled
          RecvCap, SendCap,
          MaxListed  \* bound on the clients of a broadcast

ASSUME ShutdownAssumption ==
    /\ Handlers \subseteq {"query", "clr", "ack"}
    /\ {RecvCap, SendCap} \subseteq Nat \ {0}
    /\ MaxListed \in Nat

\* Threads by the flag that ends their loop.
TaskThreads   == Handlers \cup {"resend"}
ServerThreads == {"io", "worker", "send"}
Threads == TaskThreads \cup ServerThreads \cup {"monitor"}

\* Threads that send to one client at a time, and those that broadcast.
Senders      == TaskThreads \ {"ack", "clr"}
Broadcasters == (Handlers \ {"ack", "query"}) \cup {"monitor"}

VARIABLES stage, pc, recv_n, send_n, freed
VARIABLES caster,    \* who holds clients_mtx for a broadcast, or "none"
          toSend     \* messages it must still put in send_q

castVars     == <<caster, toSend>>
shutdownVars == <<stage, pc, recv_n, send_n, freed, castVars>>

ShutdownInit ==
    /\ stage = 0
    /\ pc = [t \in Threads |-> "test"]
    /\ recv_n = 0
    /\ send_n = 0
    /\ freed = {}
    /\ caster = "none"
    /\ toSend = 0

\* The process is not running yet, or has died: nothing of it is left.
ThreadsGone ==
    /\ stage' = 0
    /\ pc' = [t \in Threads |-> "test"]
    /\ recv_n' = 0
    /\ send_n' = 0
    /\ freed' = {}
    /\ caster' = "none"
    /\ toSend' = 0

thread_stop == stage >= 1
stop_thread == stage >= 2

\* Fault: the server is stopped with the handlers.
stopped_early == stage >= 1
stopped     == stage >= 6

Told(t) == IF t \in TaskThreads THEN thread_stop
           ELSE IF t = "monitor" THEN stop_thread ELSE stopped

\* What a thread may use before it is done.
Uses(t) == CASE t = "io"      -> {"server"}
             [] t = "worker"  -> {"server", "log"} \cup (IF pc[t] = "use" THEN {"tasks"} ELSE {})
             [] t = "send"    -> {"server"}
             [] t = "monitor" -> {"server", "gpio", "log", "bincount_mutex"}
             [] t = "resend"  -> {"server"}
             [] OTHER         -> {"server", "tasks", "log", "bincount_mutex"}

-----------------------------------------------------------------------------
(* The threads                                                             *)

Reaches(t, place) == pc' = [pc EXCEPT ![t] = place]

Test(t) ==
    /\ pc[t] = "test"
    /\ Reaches(t, IF Told(t) THEN "done" ELSE "wait")
    /\ UNCHANGED <<stage, recv_n, send_n, freed, castVars>>

\* A timed pop of an empty queue, a sleep or a sample that brings nothing.
Nothing(t) ==
    /\ t # "io" /\ pc[t] = "wait"
    /\ t = "send" => send_n = 0
    /\ t = "worker" => recv_n = 0
    /\ Reaches(t, "test")
    /\ UNCHANGED <<stage, recv_n, send_n, freed, castVars>>

\* A request, a timeout or a change that makes the thread send; the one that
\* is not sent for (an acknowledgement) is Nothing.
Something(t) ==
    /\ pc[t] = "wait"
    /\ \/ t \in Senders /\ Reaches(t, "push")
       \/ t = "monitor" /\ Reaches(t, "lift")
       \/ t \in Broadcasters /\ Reaches(t, "tell")
    /\ UNCHANGED <<stage, recv_n, send_n, freed, castVars>>

Push(t) ==
    /\ t \in Senders /\ pc[t] = "push" /\ send_n < SendCap
    /\ send_n' = send_n + 1
    /\ Reaches(t, "test")
    /\ UNCHANGED <<stage, recv_n, freed, castVars>>

BeginBroadcast(t) ==
    /\ t \in Broadcasters /\ pc[t] \in {"lift", "tell"} /\ caster = "none"
    /\ caster' = t
    /\ toSend' \in 0 .. MaxListed
    /\ UNCHANGED <<stage, pc, recv_n, send_n, freed>>

\* With clients_mtx held: SgTcpServer_send to the next client.
BroadcastPush(t) ==
    /\ caster = t /\ pc[t] \in {"lift", "tell"}
    /\ toSend > 0 /\ send_n < SendCap
    /\ send_n' = send_n + 1
    /\ toSend' = toSend - 1
    /\ UNCHANGED <<stage, pc, recv_n, freed, caster>>

EndBroadcast(t) ==
    /\ caster = t /\ toSend = 0 /\ pc[t] \in {"lift", "tell"}
    /\ caster' = "none"
    /\ Reaches(t, IF pc[t] = "lift" THEN "list" ELSE "test")
    /\ UNCHANGED <<stage, recv_n, send_n, freed, toSend>>

\* SgTcpServer_get_clients; the reverse input may have changed with the lift.
ListClients ==
    /\ pc["monitor"] = "list" /\ caster = "none"
    /\ \E place \in {"tell", "test"} : Reaches("monitor", place)
    /\ UNCHANGED <<stage, recv_n, send_n, freed, castVars>>

\* send() takes the message, or fails.
SendTakes ==
    /\ pc["send"] = "wait" /\ send_n > 0
    /\ send_n' = send_n - 1
    /\ \E place \in {"test", "clean"} : Reaches("send", place)
    /\ UNCHANGED <<stage, recv_n, freed, castVars>>

\* cleanup_connection, or the end of accept, gets clients_mtx.
GetsMutex(t, place) ==
    /\ pc[t] = place /\ caster = "none"
    /\ Reaches(t, "test")
    /\ UNCHANGED <<stage, recv_n, send_n, freed, castVars>>

SendCleans == GetsMutex("send", "clean")
IoEnters   == GetsMutex("io", "enter")

WorkerTakes ==
    /\ pc["worker"] = "wait" /\ recv_n > 0
    /\ recv_n' = recv_n - 1
    /\ Reaches("worker", "use")
    /\ UNCHANGED <<stage, send_n, freed, castVars>>

\* on_message has pushed the task, or given up after 100 ms.
WorkerReturns ==
    /\ pc["worker"] = "use"
    /\ Reaches("worker", "test")
    /\ UNCHANGED <<stage, recv_n, send_n, freed, castVars>>

\* epoll_wait returns with a client's bytes,
Bytes ==
    /\ pc["io"] = "wait"
    /\ Reaches("io", "push")
    /\ UNCHANGED <<stage, recv_n, send_n, freed, castVars>>

\* or with a client that comes or goes.
ComesOrGoes ==
    /\ pc["io"] = "wait"
    /\ Reaches("io", "enter")
    /\ UNCHANGED <<stage, recv_n, send_n, freed, castVars>>

\* The event that SgTcpServer_stop raises is taken for a message of event_fd,
\* for the test for event_fd is inside the one for listen_fd (sg-tcp.c:72).
ExitEvent ==
    /\ stopped
    /\ Bytes

IoPush ==
    /\ pc["io"] = "push" /\ recv_n < RecvCap
    /\ recv_n' = recv_n + 1
    /\ Reaches("io", "test")
    /\ UNCHANGED <<stage, send_n, freed, castVars>>

-----------------------------------------------------------------------------
(* main                                                                    *)

Joined(S) == \A t \in S : pc[t] = "done"

Main(from, guard, objects) ==
    /\ stage = from
    /\ guard
    /\ stage' = from + 1
    /\ freed' = freed \cup objects
    /\ UNCHANGED <<pc, recv_n, send_n, castVars>>

StopRequested == Main(0, TRUE, {})      \* running = 0; thread_stop = 1
StopMonitor   == Main(1, TRUE, {})      \* stop_thread = true
JoinMonitor   == Main(2, Joined({"monitor"}), {})

\* Fault: the task threads are not waited for.
JoinTasks_none == Main(3, TRUE, {})
JoinTasks     == Main(3, Joined(TaskThreads), {})

FreeTasks     == Main(4, TRUE, {"tasks"})
SgTcpServer_stop == Main(5, TRUE, {})   \* stopped = 1, the exit event
JoinIo        == Main(6, Joined({"io"}), {})
JoinWorker    == Main(7, Joined({"worker"}), {})
JoinSend      == Main(8, Joined({"send"}), {})
SgTcpServer_free == Main(9, TRUE, {"server"})
DestroyMutex  == Main(10, TRUE, {"bincount_mutex"})
gpio_deinit   == Main(11, TRUE, {"gpio"})
log_close     == Main(12, TRUE, {"log"})

Stopping == \/ StopMonitor \/ JoinMonitor \/ JoinTasks \/ FreeTasks
            \/ SgTcpServer_stop \/ JoinIo \/ JoinWorker \/ JoinSend
            \/ SgTcpServer_free \/ DestroyMutex \/ gpio_deinit \/ log_close

Step(t) ==
    \/ Test(t) \/ Nothing(t) \/ Something(t) \/ Push(t)
    \/ BeginBroadcast(t) \/ BroadcastPush(t) \/ EndBroadcast(t)
    \/ t = "monitor" /\ ListClients
    \/ t = "send" /\ (SendTakes \/ SendCleans)
    \/ t = "worker" /\ (WorkerTakes \/ WorkerReturns)
    \/ t = "io" /\ (ExitEvent \/ IoPush \/ IoEnters)

ClientEvent == Bytes \/ ComesOrGoes

ShutdownNext == StopRequested \/ Stopping \/ ClientEvent \/ \E t \in Threads : Step(t)

ShutdownSpec == ShutdownInit /\ [][ShutdownNext \/ ThreadsGone]_shutdownVars

-----------------------------------------------------------------------------
(* Properties                                                              *)

\* Nothing is freed while a thread may still use it, with one exception: the
\* task queues are freed before worker_loop, which pushes to them, is joined.
ObjectsOutliveUsers ==
    \A t \in Threads : pc[t] # "done" =>
        Uses(t) \cap freed \subseteq (IF t = "worker" THEN {"tasks"} ELSE {})

\* io_loop waits for room in recv_q, and the only thread to make room has left.
IoStuck == pc["io"] = "push" /\ recv_n = RecvCap /\ pc["worker"] = "done"

\* A broadcast waits with clients_mtx for room in send_q, and send_loop, the only
\* thread to make room, waits for clients_mtx.
SendStuck ==
    /\ caster # "none" /\ toSend > 0
    /\ send_n = SendCap /\ pc["send"] = "clean"

\* The shutdown ends in all but these two cases: a thread that waits for room in
\* send_q or for clients_mtx gets it, since send_loop is stopped last.
ShutdownEnds == (stage = 1) ~> (stage = 13 \/ IoStuck \/ SendStuck)

=============================================================================
