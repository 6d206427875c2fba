----------------------------- MODULE PendingAck -----------------------------
(***************************************************************************)
(* The pending-acknowledgement list of sg-comm.c: add_pending inserts the  *)
(* lift message a client must acknowledge, bin_ack_handler marks it, and   *)
(* the thread ack_manager wakes every second, resends what has waited for  *)
(* TIMEOUT_SEC and drops what is acknowledged or out of retries.  All      *)
(* three work under pending_mtx; ack_manager keeps it during a whole scan, *)
(* in which it may block on a full send_q.                                 *)
(*                                                                         *)
(* An entry's id is its add_pending call's number.  add_pending inserts at *)
(* the head, so the list is the set pending in descending order of id.     *)
(* Time is relative: age is the clock minus last_sent, lag the clock minus *)
(* the manager's now, both in the seconds of time().  The text to resend   *)
(* is left out here; SgComm adds it.                                       *)
(***************************************************************************)
EXTENDS Integers, Sequences

CONSTANTS Clients,      \* client file descriptors
          Keys,         \* values of bincount: lift ids and acknowledged ids
          MAX_RETRIES,  \* 3 in sg-comm.h
          TIMEOUT_SEC,  \* 5 in sg-comm.h
          MaxLag,       \* bound: seconds between reading time() and using it
          SendCap,      \* capacity of send_q
          AckCap,       \* capacity of bin_ack_tasks
          MaxAdds       \* bound: calls of add_pending

ASSUME PendingAssumption ==
    /\ MAX_RETRIES \in Nat \ {0}
    /\ TIMEOUT_SEC \in Nat \ {0}
    /\ MaxLag \in Nat
    /\ SendCap \in Nat \ {0}
    /\ AckCap \in Nat \ {0}
    /\ MaxAdds \in Nat

VARIABLES pending,   \* the list
          mgr,       \* ack_manager: "sleep", "lock" or "scan" (holds the mutex)
          rested,    \* a second has passed since ack_manager went to sleep
          lag,       \* clock minus the manager's now
          left,      \* ids of the entries the scan has not visited yet
          ackq,      \* bin_ack_tasks
          task,      \* the requests bin_ack_handler has popped (at most one)
          queued,    \* messages in send_q
          adds,      \* calls of add_pending
          sent,      \* history: how often entry id was resent
          latest,    \* history: the id of the client's latest lift (0: none)
          silenced   \* history: ids whose acknowledgement was processed

vars == <<pending, mgr, rested, lag, left, ackq, task, queued, adds,
          sent, latest, silenced>>

Ids    == 1 .. MaxAdds
MaxAge == TIMEOUT_SEC + MaxLag   \* from here on an entry is due in any scan
Entry  == [id : Ids, fd : Clients, key : Keys, age : 0 .. MaxAge,
           retries : 0 .. MAX_RETRIES, acked : BOOLEAN]
Ack    == [fd : Clients, key : Keys]

TypeOK ==
    /\ pending \subseteq Entry
    /\ mgr \in {"sleep", "lock", "scan"}
    /\ rested \in BOOLEAN
    /\ lag \in 0 .. MaxLag
    /\ left \subseteq Ids
    /\ ackq \in Seq(Ack)
    /\ task \subseteq Ack
    /\ queued \in 0 .. SendCap
    /\ adds \in 0 .. MaxAdds
    /\ sent \in [Ids -> Nat]
    /\ latest \in [Clients -> 0 .. MaxAdds]
    /\ silenced \subseteq Ids

Init ==
    /\ pending = {}
    /\ mgr = "sleep"
    /\ rested = FALSE
    /\ lag = 0
    /\ left = {}
    /\ ackq = <<>>
    /\ task = {}
    /\ queued = 0
    /\ adds = 0
    /\ sent = [i \in Ids |-> 0]
    /\ latest = [c \in Clients |-> 0]
    /\ silenced = {}

MutexFree == mgr # "scan"

\* The first entry of the list among the set S.
First(S) == CHOOSE e \in S : \A f \in S : f.id <= e.id

-----------------------------------------------------------------------------
(* add_pending: time() is read before the mutex is taken, so the entry may *)
(* have an age already when it gets into the list.                         *)

NewEntry(fd, k, a) ==
    [id |-> adds + 1, fd |-> fd, key |-> k, age |-> a,
     retries |-> 0, acked |-> FALSE]

\* Fault: the client's older entries stay in the list.
AddKeepsOld(fd, k) ==
    /\ MutexFree
    /\ adds < MaxAdds
    /\ adds' = adds + 1
    /\ \E a \in 0 .. MaxLag : pending' = pending \cup {NewEntry(fd, k, a)}
    /\ latest' = [latest EXCEPT ![fd] = adds + 1]
    /\ UNCHANGED <<mgr, rested, lag, left, ackq, task, queued, sent, silenced>>

add_pending(fd, k) ==
    /\ MutexFree
    /\ adds < MaxAdds
    /\ adds' = adds + 1
    /\ \E a \in 0 .. MaxLag :
          pending' = {e \in pending : e.fd # fd} \cup {NewEntry(fd, k, a)}
    /\ latest' = [latest EXCEPT ![fd] = adds + 1]
    /\ UNCHANGED <<mgr, rested, lag, left, ackq, task, queued, sent, silenced>>

-----------------------------------------------------------------------------
(* on_message for {BIN=k;}, and bin_ack_handler.  When bin_ack_tasks stays *)
(* full for 100 ms the request is dropped, which changes nothing here.     *)

AckArrives(fd, k) ==
    /\ Len(ackq) < AckCap
    /\ ackq' = Append(ackq, [fd |-> fd, key |-> k])
    /\ UNCHANGED <<pending, mgr, rested, lag, left, task, queued, adds,
                   sent, latest, silenced>>

AckPop ==
    /\ task = {}
    /\ ackq # <<>>
    /\ task' = {Head(ackq)}
    /\ ackq' = Tail(ackq)
    /\ UNCHANGED <<pending, mgr, rested, lag, left, queued, adds, sent,
                   latest, silenced>>

Matches(t) == {e \in pending : e.fd = t.fd /\ e.key = t.key}

\* The first matching entry is marked; without one the request is ignored.
AckMark(t) ==
    /\ MutexFree
    /\ t \in task
    /\ task' = {}
    /\ IF Matches(t) = {}
       THEN UNCHANGED <<pending, silenced>>
       ELSE LET e == First(Matches(t))
            IN  /\ pending' = (pending \ {e}) \cup {[e EXCEPT !.acked = TRUE]}
                /\ silenced' = silenced \cup {e.id}
    /\ UNCHANGED <<mgr, rested, lag, left, ackq, queued, adds, sent, latest>>

-----------------------------------------------------------------------------
(* ack_manager                                                             *)

\* sleep(1) returns and time() is read.
MgrWake ==
    /\ mgr = "sleep"
    /\ rested
    /\ mgr' = "lock"
    /\ lag' = 0
    /\ UNCHANGED <<pending, rested, left, ackq, task, queued, adds,
                   sent, latest, silenced>>

MgrLock ==
    /\ mgr = "lock"
    /\ mgr' = "scan"
    /\ left' = {e.id : e \in pending}
    /\ UNCHANGED <<pending, rested, lag, ackq, task, queued, adds,
                   sent, latest, silenced>>

\* e is the entry *pp points to.
At(e) ==
    /\ mgr = "scan"
    /\ e.id \in left
    /\ \A i \in left : i <= e.id

Done(e)    == e.acked \/ e.retries >= MAX_RETRIES
Expired(e) == e.age - lag >= TIMEOUT_SEC   \* now - last_sent >= TIMEOUT_SEC

\* Fault: an entry out of retries is not dropped.
DropAckedOnly(e) ==
    /\ At(e)
    /\ e.acked
    /\ pending' = pending \ {e}
    /\ left' = left \ {e.id}
    /\ UNCHANGED <<mgr, rested, lag, ackq, task, queued, adds, sent,
                   latest, silenced>>

MgrDrop(e) ==
    /\ At(e)
    /\ Done(e)
    /\ pending' = pending \ {e}
    /\ left' = left \ {e.id}
    /\ UNCHANGED <<mgr, rested, lag, ackq, task, queued, adds, sent,
                   latest, silenced>>

MgrSkip(e) ==
    /\ At(e)
    /\ ~Done(e)
    /\ ~Expired(e)
    /\ left' = left \ {e.id}
    /\ UNCHANGED <<pending, mgr, rested, lag, ackq, task, queued, adds,
                   sent, latest, silenced>>

\* Fault: the loop is left without pthread_mutex_unlock.
MgrKeepsMutex ==
    /\ mgr = "scan"
    /\ left = {}
    /\ rested
    /\ left' = {e.id : e \in pending}
    /\ rested' = FALSE
    /\ lag' = 0
    /\ UNCHANGED <<pending, mgr, ackq, task, queued, adds, sent,
                   latest, silenced>>

\* Fault: an acknowledged entry is resent.
ResendAcked(e) ==
    /\ At(e)
    /\ e.retries < MAX_RETRIES
    /\ Expired(e)
    /\ queued < SendCap
    /\ queued' = queued + 1
    /\ pending' = (pending \ {e})
                    \cup {[e EXCEPT !.age = lag, !.retries = e.retries + 1]}
    /\ left' = left \ {e.id}
    /\ sent' = [sent EXCEPT ![e.id] = sent[e.id] + 1]
    /\ UNCHANGED <<mgr, rested, lag, ackq, task, adds, latest, silenced>>

\* Fault: retries is not counted.
ResendUncounted(e) ==
    /\ At(e)
    /\ ~Done(e)
    /\ Expired(e)
    /\ queued < SendCap
    /\ queued' = queued + 1
    /\ pending' = (pending \ {e}) \cup {[e EXCEPT !.age = lag]}
    /\ left' = left \ {e.id}
    /\ sent' = [sent EXCEPT ![e.id] = sent[e.id] + 1]
    /\ UNCHANGED <<mgr, rested, lag, ackq, task, adds, latest, silenced>>

\* SgTcpServer_send blocks, pending_mtx held, until send_q has room.
MgrResend(e) ==
    /\ At(e)
    /\ ~Done(e)
    /\ Expired(e)
    /\ queued < SendCap
    /\ queued' = queued + 1
    /\ pending' = (pending \ {e})
                    \cup {[e EXCEPT !.age = lag, !.retries = e.retries + 1]}
    /\ left' = left \ {e.id}
    /\ sent' = [sent EXCEPT ![e.id] = sent[e.id] + 1]
    /\ UNCHANGED <<mgr, rested, lag, ackq, task, adds, latest, silenced>>

MgrUnlock ==
    /\ mgr = "scan"
    /\ left = {}
    /\ mgr' = "sleep"
    /\ rested' = FALSE
    /\ lag' = 0
    /\ UNCHANGED <<pending, left, ackq, task, queued, adds, sent,
                   latest, silenced>>

MgrStep ==
    \/ MgrWake
    \/ MgrLock
    \/ \E e \in pending : MgrDrop(e) \/ MgrSkip(e) \/ MgrResend(e)
    \/ MgrUnlock

-----------------------------------------------------------------------------
(* The environment: a second passes; the send thread takes a message from  *)
(* send_q; a broadcast or an answer puts one in.                           *)

Older(e) == [e EXCEPT !.age = IF e.age < MaxAge THEN e.age + 1 ELSE MaxAge]

Tick ==
    /\ lag < MaxLag \/ mgr = "sleep"
    /\ pending' = {Older(e) : e \in pending}
    /\ lag' = IF mgr = "sleep" THEN 0 ELSE lag + 1
    /\ rested' = TRUE
    /\ UNCHANGED <<mgr, left, ackq, task, queued, adds, sent, latest, silenced>>

SendTakes ==
    /\ queued > 0
    /\ queued' = queued - 1
    /\ UNCHANGED <<pending, mgr, rested, lag, left, ackq, task, adds,
                   sent, latest, silenced>>

OtherSend ==
    /\ queued < SendCap
    /\ queued' = queued + 1
    /\ UNCHANGED <<pending, mgr, rested, lag, left, ackq, task, adds, sent,
                   latest, silenced>>

\* The process is killed and started again: the list, the queues and the
\* threads' state are gone (the history is not).
ProcessDies ==
    /\ pending' = {}
    /\ mgr' = "sleep"
    /\ rested' = FALSE
    /\ lag' = 0
    /\ left' = {}
    /\ ackq' = <<>>
    /\ task' = {}
    /\ queued' = 0
    /\ UNCHANGED <<adds, sent, latest, silenced>>

\* The steps other than add_pending and ProcessDies.
ListStep ==
    \/ \E c \in Clients, k \in Keys : AckArrives(c, k)
    \/ AckPop
    \/ \E t \in task : AckMark(t)
    \/ MgrStep
    \/ Tick \/ SendTakes \/ OtherSend

Next ==
    \/ \E c \in Clients, k \in Keys : add_pending(c, k)
    \/ ListStep
    \/ ProcessDies

Spec == Init /\ [][Next]_vars

-----------------------------------------------------------------------------
(* Properties                                                              *)

\* Whatever the order of lifts, acknowledgements and scans, the list holds at
\* most one entry per client: an older lift never competes with a newer one.
OnePendingPerClient ==
    \A e, f \in pending : e.fd = f.fd => e = f

\* A lift message is resent at most MAX_RETRIES times, also when the manager's
\* clock reading is stale or its send was blocked for long.
ResendBudget == \A i \in Ids : sent[i] <= MAX_RETRIES

\* What is resent to a client is its latest lift, and never one whose
\* acknowledgement bin_ack_handler has processed.
NoStaleResend ==
    [][\A i \in Ids : sent'[i] > sent[i] =>
          i \notin silenced /\ \E c \in Clients : latest[c] = i]_vars

\* The scan is over every entry of the list and nothing else: no entry is
\* lost or added under the manager's feet while it holds pending_mtx.
ScanSeesList ==
    mgr = "scan" => left \subseteq {e.id : e \in pending}

\* The inductive invariant behind the four: entries agree with the history.
ListInv ==
    /\ \A e, f \in pending : e.id = f.id => e = f
    /\ \A e \in pending :
          /\ e.id <= adds
          /\ latest[e.fd] = e.id
          /\ sent[e.id] = e.retries
          /\ e.id \in silenced => e.acked
    /\ \A i \in silenced : i <= adds
    /\ \A i \in Ids : i > adds => sent[i] = 0

PendingInv == TypeOK /\ ListInv /\ OnePendingPerClient /\ ResendBudget /\ ScanSeesList

=============================================================================
