----------------------------- MODULE RingBuffer -----------------------------
(***************************************************************************)
(* sg-ringbuffer.c: a bounded multi-producer multi-consumer queue over an  *)
(* array with head, tail and cnt, one mutex (mtx) and two condition        *)
(* variables (not_empty, not_full).                                        *)
(*                                                                         *)
(* Every access to buf, head, tail and cnt is made with mtx held and mtx   *)
(* is only given up inside pthread_cond_(timed)wait, so the code between   *)
(* two such points is one step.  A thread is                               *)
(*   "idle"     outside the ring buffer's functions,                       *)
(*   "lock"     at the function's pthread_mutex_lock,                      *)
(*   "wait"     blocked on its condition variable,                         *)
(*   "awake"    its wait has ended with 0 (a signal or a spurious          *)
(*              wake-up) and it is re-acquiring mtx to re-test the loop,   *)
(*   "expired"  its timed wait has ended with ETIMEDOUT.                   *)
(***************************************************************************)
EXTENDS Integers, Sequences, FiniteSets

CONSTANTS Cap, Items, NoItem, Pushers, TimedPushers, Poppers, TimedPoppers

Senders   == Pushers \cup TimedPushers
Receivers == Poppers \cup TimedPoppers
Threads   == Senders \cup Receivers
Timed     == TimedPushers \cup TimedPoppers

\* rb_create is only called with a positive capacity (128), and the threads
\* that push to a queue never pop from it.
ASSUME RingAssumption ==
    /\ Cap \in Nat \ {0}
    /\ NoItem \notin Items
    /\ Senders \cap Receivers = {}
    /\ Pushers \cap TimedPushers = {}
    /\ Poppers \cap TimedPoppers = {}
    /\ IsFiniteSet(Threads)

VARIABLES buf,   \* the array of Cap slots
          head,  \* slot of the oldest item
          tail,  \* slot the next push writes
          cnt,   \* number of items
          pc,    \* pc[t]: where thread t is (see above)
          arg,   \* arg[s]: the item sender s is pushing
          got    \* got[r]: what receiver r's last pop returned (NULL before)

ring == <<buf, head, tail, cnt>>
vars == <<buf, head, tail, cnt, pc, arg, got>>

Places == {"idle", "lock", "wait", "awake", "expired"}

TypeOK ==
    /\ buf \in [0 .. Cap-1 -> Items \cup {NoItem}]
    /\ head \in 0 .. Cap-1
    /\ tail \in 0 .. Cap-1
    /\ cnt \in 0 .. Cap
    /\ pc \in [Threads -> Places]
    /\ arg \in [Senders -> Items \cup {NoItem}]
    /\ got \in [Receivers -> Items \cup {NoItem}]

\* rb_create: calloc'ed slots, all indices 0.
Init ==
    /\ buf = [i \in 0 .. Cap-1 |-> NoItem]
    /\ head = 0
    /\ tail = 0
    /\ cnt = 0
    /\ pc = [t \in Threads |-> "idle"]
    /\ arg = [s \in Senders |-> NoItem]
    /\ got = [r \in Receivers |-> NoItem]

-----------------------------------------------------------------------------
(* Condition variables.  not_full is the one senders wait on, not_empty    *)
(* the one receivers wait on, so a condition variable's queue is the set   *)
(* of its threads that are in "wait".                                      *)

Waiting(S) == {t \in S : pc[t] = "wait"}

\* pthread_cond_signal on the condition variable of the threads S, made by a
\* thread that goes on to pc' = p: one waiter, whichever, is woken.
Signal(p, S) ==
    IF Waiting(S) = {} THEN {p}
    ELSE {[p EXCEPT ![w] = "awake"] : w \in Waiting(S)}

\* pthread_cond_wait may return although nobody signalled.
SpuriousWakeup(t) ==
    /\ pc[t] = "wait"
    /\ pc' = [pc EXCEPT ![t] = "awake"]
    /\ UNCHANGED <<buf, head, tail, cnt, arg, got>>

\* A timed wait reaches its deadline.  POSIX lets it report ETIMEDOUT even
\* when it has consumed a signal sent at that moment, hence "awake".
Expire(t) ==
    /\ t \in Timed
    /\ pc[t] \in {"wait", "awake"}
    /\ pc' = [pc EXCEPT ![t] = "expired"]
    /\ UNCHANGED <<buf, head, tail, cnt, arg, got>>

-----------------------------------------------------------------------------
(* rb_push and rb_timed_push                                               *)

PushCall(s, v) ==
    /\ pc[s] = "idle"
    /\ pc' = [pc EXCEPT ![s] = "lock"]
    /\ arg' = [arg EXCEPT ![s] = v]
    /\ UNCHANGED <<buf, head, tail, cnt, got>>

\* while (cnt == cap) wait(not_full)
PushWait(s) ==
    /\ pc[s] \in {"lock", "awake"}
    /\ cnt = Cap
    /\ pc' = [pc EXCEPT ![s] = "wait"]
    /\ UNCHANGED <<buf, head, tail, cnt, arg, got>>

\* Fault: not_empty is signalled only when the queue was empty.
PushSignalsIfEmpty(s) ==
    /\ pc[s] \in {"lock", "awake"}
    /\ cnt # Cap
    /\ buf' = [buf EXCEPT ![tail] = arg[s]]
    /\ tail' = (tail + 1) % Cap
    /\ cnt' = cnt + 1
    /\ pc' \in IF cnt = 0 THEN Signal([pc EXCEPT ![s] = "idle"], Receivers)
                          ELSE {[pc EXCEPT ![s] = "idle"]}
    /\ arg' = [arg EXCEPT ![s] = NoItem]
    /\ UNCHANGED <<head, got>>

\* Fault: not_empty is not signalled.
PushNoSignal(s) ==
    /\ pc[s] \in {"lock", "awake"}
    /\ cnt # Cap
    /\ buf' = [buf EXCEPT ![tail] = arg[s]]
    /\ tail' = (tail + 1) % Cap
    /\ cnt' = cnt + 1
    /\ pc' = [pc EXCEPT ![s] = "idle"]
    /\ arg' = [arg EXCEPT ![s] = NoItem]
    /\ UNCHANGED <<head, got>>

\* Fault: a push that was woken does not re-test cnt == cap (if, not while).
PushNoRetest(s) ==
    /\ pc[s] \in {"lock", "awake"}
    /\ pc[s] = "awake" \/ cnt # Cap
    /\ buf' = [buf EXCEPT ![tail] = arg[s]]
    /\ tail' = (tail + 1) % Cap
    /\ cnt' = IF cnt = Cap THEN cnt ELSE cnt + 1
    /\ pc' \in Signal([pc EXCEPT ![s] = "idle"], Receivers)
    /\ arg' = [arg EXCEPT ![s] = NoItem]
    /\ UNCHANGED <<head, got>>

Push(s) ==
    /\ pc[s] \in {"lock", "awake"}
    /\ cnt # Cap
    /\ buf' = [buf EXCEPT ![tail] = arg[s]]
    /\ tail' = (tail + 1) % Cap
    /\ cnt' = cnt + 1
    /\ pc' \in Signal([pc EXCEPT ![s] = "idle"], Receivers)
    /\ arg' = [arg EXCEPT ![s] = NoItem]
    /\ UNCHANGED <<head, got>>

\* Fault: ETIMEDOUT is treated like a wake-up.
PushTimeoutRetries(s) ==
    /\ pc[s] = "expired"
    /\ pc' = [pc EXCEPT ![s] = "awake"]
    /\ UNCHANGED <<buf, head, tail, cnt, arg, got>>

\* ETIMEDOUT: return 0 without looking at cnt again.
PushTimeout(s) ==
    /\ pc[s] = "expired"
    /\ pc' = [pc EXCEPT ![s] = "idle"]
    /\ arg' = [arg EXCEPT ![s] = NoItem]
    /\ UNCHANGED <<buf, head, tail, cnt, got>>

-----------------------------------------------------------------------------
(* rb_pop and rb_timed_pop; the callers start from a NULL item.            *)

PopCall(r) ==
    /\ pc[r] = "idle"
    /\ pc' = [pc EXCEPT ![r] = "lock"]
    /\ got' = [got EXCEPT ![r] = NoItem]
    /\ UNCHANGED <<buf, head, tail, cnt, arg>>

PopWait(r) ==
    /\ pc[r] \in {"lock", "awake"}
    /\ cnt = 0
    /\ pc' = [pc EXCEPT ![r] = "wait"]
    /\ UNCHANGED <<buf, head, tail, cnt, arg, got>>

\* Fault: not_full is signalled only when the queue was full.
PopSignalsIfFull(r) ==
    /\ pc[r] \in {"lock", "awake"}
    /\ cnt # 0
    /\ got' = [got EXCEPT ![r] = buf[head]]
    /\ head' = (head + 1) % Cap
    /\ cnt' = cnt - 1
    /\ pc' \in IF cnt = Cap THEN Signal([pc EXCEPT ![r] = "idle"], Senders)
                            ELSE {[pc EXCEPT ![r] = "idle"]}
    /\ UNCHANGED <<buf, tail, arg>>

\* Fault: the newest item is returned instead of the oldest.
PopNewest(r) ==
    /\ pc[r] \in {"lock", "awake"}
    /\ cnt # 0
    /\ got' = [got EXCEPT ![r] = buf[(head + cnt - 1) % Cap]]
    /\ tail' = (tail + Cap - 1) % Cap
    /\ cnt' = cnt - 1
    /\ pc' \in Signal([pc EXCEPT ![r] = "idle"], Senders)
    /\ UNCHANGED <<buf, head, arg>>

Pop(r) ==
    /\ pc[r] \in {"lock", "awake"}
    /\ cnt # 0
    /\ got' = [got EXCEPT ![r] = buf[head]]
    /\ head' = (head + 1) % Cap
    /\ cnt' = cnt - 1
    /\ pc' \in Signal([pc EXCEPT ![r] = "idle"], Senders)
    /\ UNCHANGED <<buf, tail, arg>>

PopTimeout(r) ==
    /\ pc[r] = "expired"
    /\ pc' = [pc EXCEPT ![r] = "idle"]
    /\ UNCHANGED <<buf, head, tail, cnt, arg, got>>

-----------------------------------------------------------------------------
SenderStep(s) ==
    \/ \E v \in Items : PushCall(s, v)
    \/ PushWait(s)
    \/ Push(s)
    \/ PushTimeout(s)

ReceiverStep(r) ==
    \/ PopCall(r)
    \/ PopWait(r)
    \/ Pop(r)
    \/ PopTimeout(r)

Next ==
    \/ \E s \in Senders : SenderStep(s)
    \/ \E r \in Receivers : ReceiverStep(r)
    \/ \E t \in Threads : SpuriousWakeup(t) \/ Expire(t)

Spec == Init /\ [][Next]_vars

(* Fairness.  A thread inside a ring-buffer function keeps running         *)
(* (scheduler), time passes (Expire), and receivers are the loops of       *)
(* worker_loop, send_loop and the request handlers, which pop again and    *)
(* again.  Nothing makes a sender call, and nothing makes a mutex fair.    *)
Fairness ==
    /\ \A s \in Senders : WF_vars(PushWait(s) \/ Push(s) \/ PushTimeout(s))
    /\ \A r \in Receivers : WF_vars(ReceiverStep(r))
    /\ \A t \in Timed : WF_vars(Expire(t))

FairSpec == Spec /\ Fairness

-----------------------------------------------------------------------------
(* Properties                                                              *)

\* The items between head and tail, oldest first: the queue buf represents.
Contents == [i \in 1 .. cnt |-> buf[(head + i - 1) % Cap]]

\* The ring buffer is the FIFO queue its header promises, whatever the
\* interleaving of its callers (sg-ringbuffer.h:8-48).
Abstract == INSTANCE BoundedQueue WITH queue <- Contents
ImplementsQueue == Abstract!Spec

\* head, tail and cnt always agree, and the occupied slots hold pushed
\* items: rb_push never overwrites an item that rb_pop has not yet returned.
IndicesAgree ==
    /\ tail = (head + cnt) % Cap
    /\ \A i \in 0 .. cnt-1 : buf[(head + i) % Cap] \in Items

\* A thread inside a push holds an item, a thread inside a pop holds none.
CallsAgree ==
    /\ \A s \in Senders : IF pc[s] = "idle" THEN arg[s] = NoItem
                                            ELSE arg[s] \in Items
    /\ \A r \in Receivers : pc[r] # "idle" => got[r] = NoItem

\* Only a timed wait can end with ETIMEDOUT.
ExpiredAreTimed == \A t \in Threads : pc[t] = "expired" => t \in Timed

\* The inductive invariant: no slot is overwritten before it is read (the head
\* is IndicesAgree), and no item is in two places or nowhere when a call waits,
\* is woken for nothing or gives up (sg-ringbuffer.c:30-103).
RingInv == TypeOK /\ IndicesAgree /\ CallsAgree /\ ExpiredAreTimed

\* One signal per pop is enough although rb_push signals only once per item:
\* while senders sleep on not_full, every free slot has a woken sender on its
\* way to it, even when a newcomer or a spurious wake-up steals a slot.  (For
\* queues without rb_timed_push callers, as send_q and recv_q are: a timed
\* push may swallow a signal and give up.)
NotFullWakeups ==
    Waiting(Senders) # {} =>
        Cap - cnt <= Cardinality({s \in Senders : pc[s] = "awake"})

\* The same for receivers: no item lies in the queue with every receiver
\* asleep on not_empty.  (For queues without rb_timed_pop callers.)
NotEmptyWakeups ==
    Waiting(Receivers) # {} =>
        cnt <= Cardinality({r \in Receivers : pc[r] = "awake"})

\* A full queue is drained again: the consumer is never asleep on not_empty
\* while items wait, so blocked rb_push callers get a slot.
FullDrains == (cnt = Cap) ~> (cnt < Cap)

\* rb_timed_push and rb_timed_pop return, whatever the other threads do and
\* however often the wait is woken for nothing.
TimedCallsReturn == \A t \in Timed : (pc[t] # "idle") ~> (pc[t] = "idle")

=============================================================================
