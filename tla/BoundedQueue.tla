---------------------------- MODULE BoundedQueue ----------------------------
(***************************************************************************)
(* What sg-ringbuffer promises its callers, without indices, mutex or      *)
(* condition variables: a FIFO queue of at most Cap items.  An item handed *)
(* to a push is enqueued exactly once, or, for a timed push, refused and   *)
(* never seen again; a pop takes the oldest item.  RingBuffer implements   *)
(* this specification.                                                     *)
(***************************************************************************)
EXTENDS Naturals, Sequences

CONSTANTS Cap,            \* capacity given to rb_create
          Items,          \* the void* values that travel through the queue
          NoItem,         \* "no item in hand" (NULL)
          Pushers,        \* threads that call rb_push
          TimedPushers,   \* threads that call rb_timed_push
          Poppers,        \* threads that call rb_pop
          TimedPoppers    \* threads that call rb_timed_pop

Senders   == Pushers \cup TimedPushers
Receivers == Poppers \cup TimedPoppers

VARIABLES queue,  \* the items in the queue, oldest first
          arg,    \* arg[s]: the item s is pushing, NoItem outside a push
          got     \* got[r]: the item r's last pop returned, NoItem until then

vars == <<queue, arg, got>>

Init ==
    /\ queue = <<>>
    /\ arg = [s \in Senders |-> NoItem]
    /\ got = [r \in Receivers |-> NoItem]

\* A thread asks to push v.
Offer(s, v) ==
    /\ arg[s] = NoItem
    /\ arg' = [arg EXCEPT ![s] = v]
    /\ UNCHANGED <<queue, got>>

\* The push takes effect: v becomes the youngest item.
Put(s) ==
    /\ arg[s] # NoItem
    /\ Len(queue) < Cap
    /\ queue' = Append(queue, arg[s])
    /\ arg' = [arg EXCEPT ![s] = NoItem]
    /\ UNCHANGED got

\* A timed push gives up: the caller still owns v, the queue never held it.
Refuse(s) ==
    /\ s \in TimedPushers
    /\ arg[s] # NoItem
    /\ arg' = [arg EXCEPT ![s] = NoItem]
    /\ UNCHANGED <<queue, got>>

\* A thread asks for an item.
Ask(r) ==
    /\ got' = [got EXCEPT ![r] = NoItem]
    /\ UNCHANGED <<queue, arg>>

\* The pop takes effect: the oldest item leaves the queue.
Take(r) ==
    /\ got[r] = NoItem
    /\ queue # <<>>
    /\ got' = [got EXCEPT ![r] = Head(queue)]
    /\ queue' = Tail(queue)
    /\ UNCHANGED arg

Next ==
    \/ \E s \in Senders : (\E v \in Items : Offer(s, v)) \/ Put(s) \/ Refuse(s)
    \/ \E r \in Receivers : Ask(r) \/ Take(r)

Spec == Init /\ [][Next]_vars

=============================================================================
