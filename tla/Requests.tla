------------------------------ MODULE Requests ------------------------------
(***************************************************************************)
(* A client's request from the socket to its handler: io_loop reads what   *)
(* has arrived of the byte stream, worker_loop calls on_message, which     *)
(* parses it into a task for one of three queues, and the queue's handler  *)
(* thread pops, handles and frees the task.                                *)
(*                                                                         *)
(* A text is a sequence of pieces: "{BIN", "{CLR", "?;}", "=", ";}" and    *)
(* digits.  A read takes any number of pieces from the stream and is not   *)
(* terminated: what malloc left in the buffer follows it for the parser.   *)
(* What handlers do with a task is the matter of BinCount and PendingAck,  *)
(* the queues are BoundedQueues (shown of sg-ringbuffer.c in RingBuffer).  *)
(***************************************************************************)
EXTENDS Integers, FiniteSetsExt, SequencesExt

CONSTANTS Clients,    \* connections
          Acks,       \* acknowledged numbers, as sequences of digits
          Stale,      \* what a fresh buffer may hold behind the bytes read
          RecvCap,    \* capacity of recv_q
          TaskCap,    \* capacity of each task queue
          IntMax,     \* INT_MAX, scaled
          MaxSends    \* bound on the requests sent by each client

Kinds == {"MSG_BIN_QUERY", "MSG_CLR_QUERY", "MSG_BIN_ACK"}
Digit == [d \in {"1", "2"} |-> IF d = "1" THEN 1 ELSE 2]
Piece == {"{BIN", "{CLR", "?;}", "=", ";}"} \cup DOMAIN Digit

ASSUME RequestsAssumption ==
    /\ Acks \subseteq Seq(DOMAIN Digit) /\ <<>> \notin Acks
    /\ Stale \subseteq Seq(Piece)
    /\ {RecvCap, TaskCap, IntMax} \subseteq Nat \ {0} /\ MaxSends \in Nat

VARIABLES stream,  \* stream[c]: requests sent and not read, as their pieces
          sends,   \* sends[c]: how many c has sent
          recv_q,  \* messages: fd, text (with what follows it), and first: the
                   \* request the text begins with, if it was read to its end
          worker,  \* at: "pop", "push", "log" (after the push); waits: its push
                   \* has found the queue full; its msg's fd and first, its task
          tasks,   \* tasks[k]: the queue of kind k
          handler, \* handler[k]: the task being handled: {} or a singleton
          live     \* tasks that are allocated

vars == <<stream, sends, recv_q, worker, tasks, handler, live>>

-----------------------------------------------------------------------------
(* Requests and their parser                                               *)

Request == [kind : Kinds \ {"MSG_BIN_ACK"}, digits : {<<>>}]
           \cup [kind : {"MSG_BIN_ACK"}, digits : Acks]

Pieces(r) == CASE r.kind = "MSG_BIN_QUERY" -> <<"{BIN", "?;}">>
               [] r.kind = "MSG_CLR_QUERY" -> <<"{CLR", "?;}">>
               [] r.kind = "MSG_BIN_ACK"   -> <<"{BIN", "=">> \o r.digits \o <<";}">>

Number(digits) ==
    LET after[i \in 0 .. Len(digits)] ==
            IF i = 0 THEN 0 ELSE after[i-1] * 10 + Digit[digits[i]]
    IN  after[Len(digits)]

\* value = value * 10 + digit in an int that wraps round: wrapping at each
\* digit comes to the same as wrapping the number.
Value(digits) == ((Number(digits) + IntMax + 1) % (2 * IntMax + 2)) - (IntMax + 1)

Unknown == [type |-> "MSG_UNKNOWN", bincount |-> 0]

\* Fault: the text must be the request and nothing more.
parse_client_request_whole(text) ==
    CASE text = <<"{BIN", "?;}">> -> [type |-> "MSG_BIN_QUERY", bincount |-> 0]
      [] text = <<"{CLR", "?;}">> -> [type |-> "MSG_CLR_QUERY", bincount |-> 0]
      [] \E d \in Acks : text = <<"{BIN", "=">> \o d \o <<";}">> ->
            [type |-> "MSG_BIN_ACK", bincount |-> Value(SubSeq(text, 3, Len(text) - 1))]
      [] OTHER -> Unknown

parse_client_request(text) ==
    LET n == SelectInSubSeq(text, 3, Len(text), LAMBDA p : p \notin DOMAIN Digit)
        digits == SubSeq(text, 3, n - 1)
    IN  CASE IsPrefix(<<"{BIN", "?;}">>, text) -> [type |-> "MSG_BIN_QUERY", bincount |-> 0]
          [] IsPrefix(<<"{CLR", "?;}">>, text) -> [type |-> "MSG_CLR_QUERY", bincount |-> 0]
          [] /\ IsPrefix(<<"{BIN", "=">>, text)
             /\ n > 3 /\ text[n] = ";}"        ->
                [type |-> "MSG_BIN_ACK", bincount |-> Value(digits)]
          [] OTHER -> Unknown

-----------------------------------------------------------------------------

NoRequest == [kind |-> "none", digits |-> <<>>]
NoMsg  == [fd |-> CHOOSE c \in Clients : TRUE, first |-> NoRequest]

\* The request a text begins with, if it is there to its end.
First(text) == IF \E r \in Request : IsPrefix(Pieces(r), text)
               THEN CHOOSE r \in Request : IsPrefix(Pieces(r), text) ELSE NoRequest

NoTask == [id |-> 0, fd |-> NoMsg.fd, type |-> "MSG_UNKNOWN", bincount |-> 0]

\* Tasks that can exist at once: queued, being handled, and the worker's.
Ids == 1 .. 3 * (TaskCap + 1) + 1

Idle == [at |-> "pop", waits |-> FALSE, msg |-> NoMsg, task |-> NoTask]

Init ==
    /\ stream = [c \in Clients |-> <<>>]
    /\ sends = [c \in Clients |-> 0]
    /\ recv_q = <<>>
    /\ worker = Idle
    /\ tasks = [k \in Kinds |-> <<>>]
    /\ handler = [k \in Kinds |-> {}]
    /\ live = {}

ClientSends(c, r) ==
    /\ sends[c] < MaxSends
    /\ sends' = [sends EXCEPT ![c] = @ + 1]
    /\ stream' = [stream EXCEPT ![c] = Append(@, Pieces(r))]
    /\ UNCHANGED <<recv_q, worker, tasks, handler, live>>

\* io_loop reads the first n requests of c's stream and cut pieces of the next.
Read(c, n, cut, stale) ==
    LET s == stream[c]
        whole == FlattenSeq(SubSeq(s, 1, n))
        part == IF cut = 0 THEN <<>> ELSE SubSeq(s[n+1], 1, cut)
        rest == IF cut = 0 THEN SubSeq(s, n + 1, Len(s))
                ELSE <<SubSeq(s[n+1], cut + 1, Len(s[n+1]))>> \o SubSeq(s, n + 2, Len(s))
    IN  /\ n + cut > 0 /\ Len(recv_q) < RecvCap
        /\ cut > 0 => n < Len(s) /\ cut < Len(s[n+1])
        /\ stream' = [stream EXCEPT ![c] = rest]
        /\ recv_q' = Append(recv_q,
               [fd |-> c, text |-> whole \o part \o stale,
                first |-> First(whole)])
        /\ UNCHANGED <<sends, worker, tasks, handler, live>>

\* worker_loop pops a message; on_message allocates a task and parses.
WorkerPop ==
    /\ worker.at = "pop" /\ recv_q # <<>>
    /\ LET msg == Head(recv_q)
           parsed == parse_client_request(msg.text)
           task == [id |-> Min(Ids \ live), fd |-> msg.fd,
                    type |-> parsed.type, bincount |-> parsed.bincount]
       IN  /\ worker' = [at |-> "push", waits |-> FALSE,
                          msg |-> [fd |-> msg.fd, first |-> msg.first], task |-> task]
           /\ live' = live \cup {task.id}
    /\ recv_q' = Tail(recv_q)
    /\ UNCHANGED <<stream, sends, tasks, handler>>

WorkerPush ==
    LET k == worker.task.type IN
    /\ worker.at = "push" /\ k \in Kinds
    /\ Len(tasks[k]) < TaskCap
    /\ tasks' = [tasks EXCEPT ![k] = Append(@, worker.task)]
    /\ worker' = [worker EXCEPT !.at = "log", !.msg = NoMsg]
    /\ UNCHANGED <<stream, sends, recv_q, handler, live>>

\* rb_timed_push finds the queue full and waits, for 100 ms at most.
WorkerWaits ==
    /\ worker.at = "push" /\ ~worker.waits /\ worker.task.type \in Kinds
    /\ Len(tasks[worker.task.type]) = TaskCap
    /\ worker' = [worker EXCEPT !.waits = TRUE]
    /\ UNCHANGED <<stream, sends, recv_q, tasks, handler, live>>

\* Fault: a push that timed out is tried again.
WorkerDrop_retries ==
    /\ worker.at = "push"
    /\ worker.task.type = "MSG_UNKNOWN"
    /\ live' = live \ {worker.task.id}
    /\ worker' = Idle
    /\ UNCHANGED <<stream, sends, recv_q, tasks, handler>>

\* Fault: a task that is not pushed is not freed.
WorkerDrop_leaks ==
    /\ worker.at = "push"
    /\ worker.task.type \in Kinds => worker.waits
    /\ worker' = Idle
    /\ UNCHANGED <<stream, sends, recv_q, tasks, handler, live>>

\* Not a request, or the wait has timed out, which rb_timed_push reports without
\* looking at the queue again: the task is freed.
WorkerDrop ==
    /\ worker.at = "push"
    /\ worker.task.type \in Kinds => worker.waits
    /\ live' = live \ {worker.task.id}
    /\ worker' = Idle
    /\ UNCHANGED <<stream, sends, recv_q, tasks, handler>>

\* The pushed task is logged, which reads it; then the message is freed.
WorkerLog ==
    /\ worker.at = "log"
    /\ worker' = Idle
    /\ UNCHANGED <<stream, sends, recv_q, tasks, handler, live>>

HandlerPop(k) ==
    /\ handler[k] = {} /\ tasks[k] # <<>>
    /\ handler' = [handler EXCEPT ![k] = {Head(tasks[k])}]
    /\ tasks' = [tasks EXCEPT ![k] = Tail(@)]
    /\ UNCHANGED <<stream, sends, recv_q, worker, live>>

HandlerFree(k) ==
    /\ handler[k] # {}
    /\ live' = live \ {t.id : t \in handler[k]}
    /\ handler' = [handler EXCEPT ![k] = {}]
    /\ UNCHANGED <<stream, sends, recv_q, worker, tasks>>

Worker == WorkerPop \/ WorkerPush \/ WorkerWaits \/ WorkerDrop \/ WorkerLog

Next ==
    \/ \E c \in Clients, r \in Request : ClientSends(c, r)
    \/ \E c \in Clients, stale \in Stale : \E n \in 0 .. Len(stream[c]) :
          \E cut \in 0 .. (IF n = Len(stream[c]) THEN 0 ELSE Len(stream[c][n+1]) - 1) :
              Read(c, n, cut, stale)
    \/ Worker
    \/ \E k \in Kinds : HandlerPop(k) \/ HandlerFree(k)

Spec == Init /\ [][Next]_vars

(* Fairness: the worker thread runs.  Nothing is asked of the handlers,    *)
(* which may be stuck in a send or waiting for a mutex.                    *)
FairSpec == Spec /\ WF_vars(Worker)

-----------------------------------------------------------------------------
(* Properties                                                              *)

\* A request that arrives from its first byte to its last in one read is
\* understood for what it is, whatever comes behind it in the stream or was
\* left in the buffer, which on_message parses as a string although nothing
\* terminates it (sg-tcp.c:93); its number is right up to INT_MAX.
WholeRequestUnderstood ==
    (worker.at = "push" /\ worker.msg.first # NoRequest) =>
        LET r == worker.msg.first IN
        /\ worker.task.fd = worker.msg.fd
        /\ worker.task.type = r.kind
        /\ Number(r.digits) <= IntMax =>
               worker.task.bincount = Number(r.digits)

\* The tasks that someone must still free: each is in one place only.
Held == {t.id : t \in UNION {ToSet(tasks[k]) \cup handler[k] : k \in Kinds}}
        \cup IF worker.at = "push" THEN {worker.task.id} ELSE {}
Places == (IF worker.at = "push" THEN 1 ELSE 0)
          + Len(tasks["MSG_BIN_QUERY"]) + Len(tasks["MSG_CLR_QUERY"])
          + Len(tasks["MSG_BIN_ACK"]) + Cardinality(UNION {handler[k] : k \in Kinds})

\* No task is lost or freed twice: what is allocated is what somebody holds,
\* once, though a task is freed by on_message if its push times out and by the
\* handler otherwise (sg-comm.c:20).
TasksHaveOneOwner == Held = live /\ Cardinality(Held) = Places

\* on_message returns though a handler may be stuck and its queue full: each
\* push gives up, so one kind of request cannot block the others or the reads.
WorkerReturns == (worker.at # "pop") ~> (worker.at = "pop")

\* "the tasks in this queue must be freed in [task threads]" (sg-comm.c:20): so
\* after the push on_message does not know whether the task still exists.
PushedTaskNotTouched == worker.at = "log" => worker.task.id \in live

=============================================================================
