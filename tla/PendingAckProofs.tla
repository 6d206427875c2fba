-------------------------- MODULE PendingAckProofs --------------------------
(***************************************************************************)
(* Proofs about PendingAck for any number of clients, lifts and retries    *)
(* and any timing.  The inductive invariant is TypeOK, ListInv and the     *)
(* three invariants below: ResendBudget needs that an entry's retries      *)
(* counts its resends, NoStaleResend that an entry is its client's latest  *)
(* lift and remembers its acknowledgement.                                 *)
(***************************************************************************)
EXTENDS PendingAck, TLAPS

\* The initial states satisfy the invariant.
LEMMA InvInit == Init => PendingInv
<1> SUFFICES ASSUME Init PROVE PendingInv
  OBVIOUS
<1>1. TypeOK
  <2>1. /\ lag \in 0 .. MaxLag /\ queued \in 0 .. SendCap
        /\ adds \in 0 .. MaxAdds
    BY PendingAssumption DEF Init
  <2>2. sent \in [Ids -> Nat] /\ latest \in [Clients -> 0 .. MaxAdds]
    BY PendingAssumption DEF Init
  <2>3. /\ pending \subseteq Entry /\ left \subseteq Ids /\ task \subseteq Ack
        /\ silenced \subseteq Ids /\ ackq \in Seq(Ack)
    BY DEF Init
  <2> QED BY <2>1, <2>2, <2>3 DEF Init, TypeOK
<1>2. ListInv /\ OnePendingPerClient /\ ScanSeesList
  BY DEF Init, ListInv, OnePendingPerClient, ScanSeesList
<1>3. ResendBudget
  BY PendingAssumption DEF Init, ResendBudget
<1> QED BY <1>1, <1>2, <1>3 DEF PendingInv

\* add_pending replaces the client's entry by one with a fresh id.
LEMMA InvAdd ==
    ASSUME PendingInv, NEW c \in Clients, NEW k \in Keys, add_pending(c, k)
    PROVE  PendingInv'
<1> USE DEF PendingInv
<1> PICK a \in 0 .. MaxLag :
        pending' = {e \in pending : e.fd # c} \cup {NewEntry(c, k, a)}
  BY DEF add_pending
<1> DEFINE n == NewEntry(c, k, a)
<1>1. /\ n \in Entry
      /\ n.id = adds + 1 /\ n.fd = c /\ n.retries = 0 /\ n.acked = FALSE
  BY PendingAssumption DEF add_pending, NewEntry, Entry, Ids, MaxAge, TypeOK
<1> HIDE DEF n
<1>2. pending' = {e \in pending : e.fd # c} \cup {n}
  BY DEF n
<1>3. /\ adds' = adds + 1 /\ adds < MaxAdds /\ mgr # "scan"
      /\ latest' = [latest EXCEPT ![c] = adds + 1]
      /\ UNCHANGED <<mgr, rested, lag, left, ackq, task, queued, sent, silenced>>
  BY DEF add_pending, MutexFree
<1>4. TypeOK'
  BY <1>1, <1>2, <1>3, PendingAssumption DEF TypeOK
<1>5. OnePendingPerClient'
  BY <1>1, <1>2 DEF OnePendingPerClient
<1>6. ListInv'
  <2>1. \A e, f \in pending' : e.id = f.id => e = f
    BY <1>1, <1>2, PendingAssumption DEF ListInv, TypeOK, Entry, Ids
  <2>2. ASSUME NEW e \in pending'
        PROVE  /\ e.id <= adds'
               /\ latest'[e.fd] = e.id
               /\ sent'[e.id] = e.retries
               /\ e.id \in silenced' => e.acked
    <3>1. CASE e = n
      BY <3>1, <1>1, <1>3, PendingAssumption DEF ListInv, TypeOK, Ids
    <3>2. CASE e \in pending /\ e.fd # c
      BY <3>2, <1>3, PendingAssumption DEF ListInv, TypeOK, Entry, Ids
    <3> QED BY <3>1, <3>2, <1>2
  <2>3. /\ \A i \in silenced' : i <= adds'
        /\ \A i \in Ids : i > adds' => sent'[i] = 0
    BY <1>3, PendingAssumption DEF ListInv, TypeOK, Ids
  <2> QED BY <2>1, <2>2, <2>3 DEF ListInv
<1>7. ResendBudget' /\ ScanSeesList'
  BY <1>3 DEF ResendBudget, ScanSeesList
<1> QED BY <1>4, <1>5, <1>6, <1>7

\* Replacing an entry e by g of the same id and client keeps what the list
\* says of ids and clients.
LEMMA Replace ==
    ASSUME PendingInv, NEW e \in pending, NEW g \in Entry, g.id = e.id, g.fd = e.fd,
           pending' = (pending \ {e}) \cup {g}
    PROVE  /\ OnePendingPerClient'
           /\ \A x, y \in pending' : x.id = y.id => x = y
           /\ {x.id : x \in pending'} = {x.id : x \in pending}
           /\ pending' \subseteq Entry
<1> USE DEF PendingInv
<1>1. OnePendingPerClient'
  BY DEF OnePendingPerClient
<1>2. \A x, y \in pending' : x.id = y.id => x = y
  BY DEF ListInv
<1>3. {x.id : x \in pending'} = {x.id : x \in pending}
  OBVIOUS
<1>4. pending' \subseteq Entry
  BY DEF TypeOK
<1> QED BY <1>1, <1>2, <1>3, <1>4

\* bin_ack_handler and on_message.
LEMMA InvAck ==
    ASSUME PendingInv,
           \/ \E c \in Clients, k \in Keys : AckArrives(c, k)
           \/ AckPop
           \/ \E t \in task : AckMark(t)
    PROVE  PendingInv'
<1> USE DEF PendingInv
<1>1. CASE \E c \in Clients, k \in Keys : AckArrives(c, k)
  <2> PICK c \in Clients, k \in Keys : AckArrives(c, k)
    BY <1>1
  <2>1. [fd |-> c, key |-> k] \in Ack
    BY DEF Ack
  <2> QED BY <2>1 DEF AckArrives, TypeOK, ListInv, OnePendingPerClient,
                      ResendBudget, ScanSeesList
<1>2. CASE AckPop
  BY <1>2 DEF AckPop, TypeOK, ListInv, OnePendingPerClient, ResendBudget, ScanSeesList
<1>3. CASE \E t \in task : AckMark(t)
  <2> PICK t \in task : AckMark(t)
    BY <1>3
  <2>1. CASE Matches(t) = {}
    BY <2>1 DEF AckMark, TypeOK, ListInv, OnePendingPerClient, ResendBudget, ScanSeesList
  <2>2. CASE Matches(t) # {}
    <3> DEFINE e == First(Matches(t))
               g == [e EXCEPT !.acked = TRUE]
    <3>1. e \in Matches(t)
      <4>1. PICK x \in Matches(t) : TRUE
        BY <2>2
      <4>2. \A f \in Matches(t) : f.id <= x.id
        BY <4>1 DEF Matches, OnePendingPerClient, TypeOK, Entry, Ids
      <4> QED BY <4>1, <4>2 DEF First
    <3>2. pending' = (pending \ {e}) \cup {g} /\ silenced' = silenced \cup {e.id}
      BY <2>2 DEF AckMark
    <3>3. e \in pending
      BY <3>1 DEF Matches
    <3> HIDE DEF e
    <3>4. g \in Entry /\ g.id = e.id /\ g.fd = e.fd /\ g.retries = e.retries /\ g.acked
      BY <3>3 DEF TypeOK, Entry
    <3> HIDE DEF g
    <3>5. UNCHANGED <<mgr, left, queued, rested, lag, ackq, adds, sent, latest>>
          /\ task' = {}
      BY DEF AckMark
    <3>6. TypeOK'
      BY <3>2, <3>3, <3>4, <3>5 DEF TypeOK, Entry
    <3>7. ListInv'
      <4>1. \A x \in pending' :
              /\ x.id <= adds'
              /\ latest'[x.fd] = x.id
              /\ sent'[x.id] = x.retries
              /\ x.id \in silenced' => x.acked
        BY <3>2, <3>3, <3>4, <3>5 DEF ListInv
      <4>2. \A i \in silenced' : i <= adds'
        BY <3>2, <3>3, <3>5 DEF ListInv
      <4> QED BY <4>1, <4>2, <3>2, <3>3, <3>4, <3>5, Replace DEF ListInv
    <3>8. OnePendingPerClient' /\ ResendBudget' /\ ScanSeesList'
      BY <3>2, <3>3, <3>4, <3>5, Replace DEF ResendBudget, ScanSeesList
    <3> QED BY <3>6, <3>7, <3>8
  <2> QED BY <2>1, <2>2
<1> QED BY <1>1, <1>2, <1>3

\* ack_manager: only MgrResend changes an entry.
LEMMA InvMgr ==
    ASSUME PendingInv, MgrStep
    PROVE  PendingInv'
<1> USE DEF PendingInv
<1>1. CASE MgrWake \/ MgrLock \/ MgrUnlock
  <2>1. {e.id : e \in pending} \subseteq Ids
    BY DEF TypeOK, Entry
  <2>2. 0 \in 0 .. MaxLag
    BY PendingAssumption
  <2>3. TypeOK'
    BY <1>1, <2>1, <2>2 DEF MgrWake, MgrLock, MgrUnlock, TypeOK
  <2>4. ListInv' /\ OnePendingPerClient' /\ ResendBudget'
    BY <1>1 DEF MgrWake, MgrLock, MgrUnlock, ListInv, OnePendingPerClient, ResendBudget
  <2>5. ScanSeesList'
    BY <1>1 DEF MgrWake, MgrLock, MgrUnlock, ScanSeesList
  <2> QED BY <2>3, <2>4, <2>5
<1>2. CASE \E e \in pending : MgrDrop(e)
  <2> PICK e \in pending : MgrDrop(e)
    BY <1>2
  <2>1. ScanSeesList'
    BY DEF MgrDrop, ScanSeesList
  <2> QED BY <2>1 DEF MgrDrop, TypeOK, ListInv, OnePendingPerClient, ResendBudget
<1>3. CASE \E e \in pending : MgrSkip(e)
  BY <1>3 DEF MgrSkip, TypeOK, ListInv, OnePendingPerClient, ResendBudget, ScanSeesList
<1>4. CASE \E e \in pending : MgrResend(e)
  <2> PICK e \in pending : MgrResend(e)
    BY <1>4
  <2> DEFINE g == [e EXCEPT !.age = lag, !.retries = e.retries + 1]
  <2>1. e \in Entry
    BY DEF TypeOK
  <2>2. e.retries + 1 \in 0 .. MAX_RETRIES /\ lag \in 0 .. MaxAge
    <3>1. e.retries \in 0 .. MAX_RETRIES /\ lag \in 0 .. MaxLag
      BY <2>1 DEF Entry, TypeOK
    <3>2. ~(e.retries >= MAX_RETRIES)
      BY DEF MgrResend, Done
    <3> QED BY <3>1, <3>2, PendingAssumption DEF MaxAge
  <2>3. /\ g \in Entry /\ g.id = e.id /\ g.fd = e.fd
        /\ g.retries = e.retries + 1 /\ g.acked = e.acked
    BY <2>1, <2>2 DEF Entry
  <2>4. /\ pending' = (pending \ {e}) \cup {g}
        /\ left' = left \ {e.id}
        /\ sent' = [sent EXCEPT ![e.id] = sent[e.id] + 1]
        /\ queued' = queued + 1 /\ queued < SendCap
        /\ UNCHANGED <<mgr, rested, lag, ackq, task, adds, latest, silenced>>
    BY DEF MgrResend
  <2> HIDE DEF g
  <2>5. e.id \in Ids
    BY <2>1 DEF Entry
  <2>6. sent[e.id] + 1 \in Nat /\ sent[e.id] + 1 <= MAX_RETRIES
    BY <2>2, <2>5 DEF ListInv, TypeOK
  <2>7. TypeOK'
    <3>1. pending' \subseteq Entry /\ left' \subseteq Ids
      BY <2>3, <2>4 DEF TypeOK
    <3>2. queued' \in 0 .. SendCap
      BY <2>4, PendingAssumption DEF TypeOK
    <3>3. sent' \in [Ids -> Nat]
      BY <2>4, <2>6 DEF TypeOK
    <3> QED BY <2>4, <3>1, <3>2, <3>3 DEF TypeOK
  <2>8. ListInv'
    <3>1. \A x \in pending' :
              /\ x.id <= adds'
              /\ latest'[x.fd] = x.id
              /\ sent'[x.id] = x.retries
              /\ x.id \in silenced' => x.acked
      BY <2>3, <2>4, <2>5 DEF ListInv, TypeOK, Entry
    <3>2. \A i \in Ids : i > adds' => sent'[i] = 0
      <4> SUFFICES ASSUME NEW i \in Ids, i > adds PROVE sent'[i] = 0
        BY <2>4
      <4>1. i # e.id
        BY <2>5 DEF ListInv, TypeOK, Ids
      <4> QED BY <4>1, <2>4, <2>5 DEF ListInv, TypeOK
    <3> QED BY <3>1, <3>2, <2>3, <2>4, Replace DEF ListInv
  <2>9. OnePendingPerClient' /\ ScanSeesList'
    BY <2>3, <2>4, Replace DEF ScanSeesList
  <2>10. ResendBudget'
    BY <2>4, <2>5, <2>6 DEF ResendBudget, TypeOK
  <2> QED BY <2>7, <2>8, <2>9, <2>10
<1> QED BY <1>1, <1>2, <1>3, <1>4 DEF MgrStep

\* The clock ages the entries and changes nothing else of them.
LEMMA InvTick ==
    ASSUME PendingInv, Tick
    PROVE  PendingInv'
<1> USE DEF PendingInv
<1>1. /\ pending' = {Older(e) : e \in pending}
      /\ UNCHANGED <<mgr, left, ackq, task, queued, adds, sent, latest, silenced>>
  BY DEF Tick
<1>2. ASSUME NEW e \in pending
      PROVE  /\ Older(e) \in Entry /\ Older(e).id = e.id /\ Older(e).fd = e.fd
             /\ Older(e).retries = e.retries /\ Older(e).acked = e.acked
  <2> DEFINE a == IF e.age < MaxAge THEN e.age + 1 ELSE MaxAge
  <2>1. e \in Entry
    BY DEF TypeOK
  <2>2. MaxAge \in Nat /\ e.age \in 0 .. MaxAge
    BY <2>1, PendingAssumption DEF Entry, MaxAge
  <2>3. a \in 0 .. MaxAge
    BY <2>2
  <2>4. Older(e) = [e EXCEPT !.age = a]
    BY DEF Older
  <2> HIDE DEF a
  <2> QED BY <2>1, <2>3, <2>4 DEF Entry
<1>3. TypeOK'
  BY <1>1, <1>2, PendingAssumption DEF TypeOK, Tick
<1>4. OnePendingPerClient'
  BY <1>1, <1>2 DEF OnePendingPerClient
<1>5. ListInv'
  <2>1. \A x, y \in pending' : x.id = y.id => x = y
    BY <1>1, <1>2 DEF ListInv
  <2>2. \A x \in pending' :
              /\ x.id <= adds'
              /\ latest'[x.fd] = x.id
              /\ sent'[x.id] = x.retries
              /\ x.id \in silenced' => x.acked
    BY <1>1, <1>2 DEF ListInv
  <2> QED BY <1>1, <2>1, <2>2 DEF ListInv
<1>6. ResendBudget' /\ ScanSeesList'
  BY <1>1, <1>2 DEF ResendBudget, ScanSeesList
<1> QED BY <1>3, <1>4, <1>5, <1>6

\* Every step preserves the invariant.
LEMMA InvStep ==
    ASSUME PendingInv, [Next]_vars
    PROVE  PendingInv'
<1>1. CASE SendTakes \/ OtherSend \/ UNCHANGED vars
  BY <1>1, PendingAssumption DEF SendTakes, OtherSend, vars, PendingInv, TypeOK, ListInv,
     OnePendingPerClient, ResendBudget, ScanSeesList
<1>2. CASE ProcessDies
  <2>1. 0 \in 0 .. MaxLag /\ 0 \in 0 .. SendCap /\ <<>> \in Seq(Ack)
    BY PendingAssumption
  <2>2. TypeOK'
    BY <1>2, <2>1 DEF ProcessDies, PendingInv, TypeOK
  <2> QED BY <1>2, <2>2 DEF ProcessDies, PendingInv, ListInv, OnePendingPerClient,
                            ResendBudget, ScanSeesList
<1> QED BY <1>1, <1>2, InvAdd, InvAck, InvMgr, InvTick DEF Next, ListStep

\* One entry per client in pending_head, and a scan of ack_manager that stays
\* inside the list: for every timing of lifts, acknowledgements, clock and
\* blocked sends.
THEOREM PendingInvariant == Spec => []PendingInv
<1>1. PendingInv /\ [Next]_vars => PendingInv'
  BY InvStep
<1> QED BY InvInit, <1>1, PTL DEF Spec

\* ack_manager sends a lift at most MAX_RETRIES times again.
THEOREM ResendsAreBounded == Spec => []ResendBudget
<1>1. PendingInv => ResendBudget
  BY DEF PendingInv
<1> QED BY PendingInvariant, <1>1, PTL

\* Only ack_manager's resend counts up, and only for an entry of the list.
LEMMA ResendStep ==
    ASSUME PendingInv, Next
    PROVE  \A i \in Ids : sent'[i] > sent[i] =>
              i \notin silenced /\ \E c \in Clients : latest[c] = i
<1> SUFFICES ASSUME NEW i \in Ids, sent'[i] > sent[i]
             PROVE  i \notin silenced /\ \E c \in Clients : latest[c] = i
  OBVIOUS
<1>0. sent[i] \in Nat
  BY DEF PendingInv, TypeOK
<1>1. CASE sent' = sent
  BY <1>0, <1>1
<1>2. CASE \E e \in pending : MgrResend(e)
  <2> PICK e \in pending : MgrResend(e)
    BY <1>2
  <2>1. e \in Entry /\ ~e.acked
    BY DEF PendingInv, TypeOK, MgrResend, Done
  <2>2. i = e.id
    BY <1>0 DEF MgrResend, PendingInv, TypeOK
  <2> QED BY <2>1, <2>2 DEF PendingInv, ListInv, Entry
<1>3. sent' = sent \/ \E e \in pending : MgrResend(e)
  BY DEF Next, ListStep, MgrStep, add_pending, AckArrives, AckPop, AckMark, MgrWake,
         MgrLock, MgrDrop, MgrSkip, MgrUnlock, Tick, SendTakes, OtherSend,
         ProcessDies
<1> QED BY <1>1, <1>2, <1>3

\* What is resent is the client's latest lift and is not acknowledged.
THEOREM ResendsAreCurrent == Spec => NoStaleResend
<1>1. PendingInv /\ [Next]_vars => PendingInv'
  BY InvStep
<1>2. PendingInv /\ [Next]_vars =>
        [\A i \in Ids : sent'[i] > sent[i] =>
            i \notin silenced /\ \E c \in Clients : latest[c] = i]_vars
  BY ResendStep
<1> QED BY InvInit, <1>1, <1>2, PTL DEF Spec, NoStaleResend

=============================================================================
