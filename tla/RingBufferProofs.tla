-------------------------- MODULE RingBufferProofs --------------------------
(***************************************************************************)
(* Proofs about RingBuffer for every capacity, item set and set of         *)
(* threads.                                                                *)
(***************************************************************************)
EXTENDS RingBuffer, FiniteSetTheorems, TLAPS

\* Advancing an index by less than Cap wraps round at most once.
LEMMA WrapOnce ==
    ASSUME NEW x \in Nat, x < 2 * Cap
    PROVE  x % Cap = IF x < Cap THEN x ELSE x - Cap
<1>1. Cap \in Nat /\ Cap > 0
  BY RingAssumption
<1> DEFINE q == x \div Cap
           m == x % Cap
<1>2. q \in Int /\ m \in 0 .. Cap-1 /\ x = Cap * q + m
  BY <1>1
<1>3. q = 0 \/ q = 1
  BY <1>1, <1>2
<1>4. QED
  BY <1>1, <1>2, <1>3


\* The slot i places behind h: head or tail wraps round once at most.
LEMMA WrapSum ==
    ASSUME NEW h \in 0 .. Cap-1, NEW i \in 0 .. Cap
    PROVE  /\ (h + i) % Cap = IF h + i < Cap THEN h + i ELSE h + i - Cap
           /\ (h + i) % Cap \in 0 .. Cap-1
<1>1. Cap \in Nat /\ Cap > 0
  BY RingAssumption
<1> DEFINE x == h + i
<1>2. x \in Nat /\ x < 2 * Cap
  BY <1>1
<1>3. x % Cap = IF x < Cap THEN x ELSE x - Cap
  <2> HIDE DEF x
  <2>1. QED
    BY <1>2, WrapOnce
<1>4. QED
  BY <1>1, <1>3

\* Sequences of one length with the same entries are equal.
LEMMA SeqEq ==
    ASSUME NEW S, NEW a \in Seq(S), NEW b \in Seq(S), Len(a) = Len(b),
           \A i \in 1 .. Len(a) : a[i] = b[i]
    PROVE  a = b
<1>1. a = [i \in 1 .. Len(a) |-> a[i]] /\ b = [i \in 1 .. Len(b) |-> b[i]]
  OBVIOUS
<1>2. QED
  BY <1>1

-----------------------------------------------------------------------------
(* Safety of one step.                                                     *)

\* pthread_cond_signal only ever moves a waiter of S to "awake".
LEMMA SignalEffect ==
    ASSUME NEW S \in SUBSET Threads,
           NEW p \in [Threads -> Places],
           NEW p2 \in Signal(p, S)
    PROVE  /\ p2 \in [Threads -> Places]
           /\ \A t \in Threads :
                 p2[t] = p[t] \/ (t \in Waiting(S) /\ p2[t] = "awake")
  BY DEF Signal, Waiting, Places

\* A queue as rb_create leaves it satisfies the invariant.
LEMMA InitInv == Init => RingInv
<1> SUFFICES ASSUME Init PROVE RingInv
  OBVIOUS
<1>1. TypeOK
  BY RingAssumption DEF Init, TypeOK, Places
<1>2. IndicesAgree
  BY RingAssumption, WrapOnce DEF Init, IndicesAgree
<1>3. CallsAgree /\ ExpiredAreTimed
  BY DEF Init, CallsAgree, ExpiredAreTimed, Threads
<1>4. QED
  BY <1>1, <1>2, <1>3 DEF RingInv

\* The part of rb_push after its loop fills the slot at tail and nothing else.
LEMMA PushInv ==
    ASSUME RingInv, NEW s \in Senders, Push(s)
    PROVE  RingInv'
<1> DEFINE p == [pc EXCEPT ![s] = "idle"]
<1>1. /\ pc' \in [Threads -> Places]
      /\ \A t \in Threads : \/ pc'[t] = p[t]
                            \/ t \in Waiting(Receivers) /\ pc'[t] = "awake"
  <2>1. p \in [Threads -> Places] /\ pc' \in Signal(p, Receivers)
    BY DEF RingInv, TypeOK, Push, Threads, Places
  <2>2. Receivers \in SUBSET Threads
    BY DEF Threads
  <2> HIDE DEF p
  <2>3. QED
    BY <2>1, <2>2, SignalEffect
<1>2. arg[s] \in Items
  BY DEF RingInv, CallsAgree, Push
<1>3. head' = head /\ cnt' = cnt + 1 /\ cnt' \in 1 .. Cap /\ cnt \in 0 .. Cap-1
  BY RingAssumption DEF RingInv, TypeOK, Push
<1>t. /\ tail' = IF tail + 1 < Cap THEN tail + 1 ELSE tail + 1 - Cap
      /\ tail' \in 0 .. Cap-1
  BY WrapSum, RingAssumption DEF RingInv, TypeOK, Push
<1>4. TypeOK'
  BY <1>1, <1>2, <1>3, <1>t DEF RingInv, TypeOK, Push, Senders
<1>5. IndicesAgree'
  <2>1. tail = IF head + cnt < Cap THEN head + cnt ELSE head + cnt - Cap
    BY WrapSum DEF RingInv, TypeOK, IndicesAgree
  <2>2. tail' = (head' + cnt') % Cap
    <3>1. /\ head \in 0 .. Cap-1 /\ cnt + 1 \in 0 .. Cap
          /\ Cap \in Nat
      BY <1>3, RingAssumption DEF RingInv, TypeOK
    <3>2. (head + (cnt + 1)) % Cap =
              IF head + (cnt + 1) < Cap THEN head + (cnt + 1) ELSE head + (cnt + 1) - Cap
      BY <3>1, WrapSum
    <3>3. QED
      BY <3>1, <3>2, <2>1, <1>3, <1>t
  <2>3. ASSUME NEW i \in 0 .. cnt'-1
        PROVE  buf'[(head' + i) % Cap] \in Items
    <3>1. CASE i = cnt
      BY <3>1, <1>2, <1>3 DEF RingInv, TypeOK, IndicesAgree, Push
    <3>2. CASE i # cnt
      <4>1. i \in 0 .. cnt-1 /\ (head + i) % Cap # tail /\ (head + i) % Cap \in 0 .. Cap-1
        <5>1. /\ i \in 0 .. cnt-1 /\ head \in 0 .. Cap-1
              /\ i \in 0 .. Cap /\ cnt \in 0 .. Cap-1 /\ Cap \in Nat
          BY <3>2, <1>3, RingAssumption DEF RingInv, TypeOK
        <5>2. /\ (head + i) % Cap = IF head + i < Cap THEN head + i ELSE head + i - Cap
              /\ (head + i) % Cap \in 0 .. Cap-1
          BY <5>1, WrapSum
        <5>3. QED
          BY <5>1, <5>2, <2>1
      <4>2. QED
        BY <4>1, <1>3 DEF RingInv, TypeOK, IndicesAgree, Push
    <3>3. QED
      BY <3>1, <3>2
  <2>4. QED
    BY <2>2, <2>3 DEF IndicesAgree
<1>6. CallsAgree' /\ ExpiredAreTimed'
  BY <1>1, RingAssumption DEF RingInv, TypeOK, CallsAgree, ExpiredAreTimed, Push, Waiting, Threads
<1>7. QED
  BY <1>4, <1>5, <1>6 DEF RingInv

\* The part of rb_pop after its loop empties the slot at head and nothing else.
LEMMA PopInv ==
    ASSUME RingInv, NEW r \in Receivers, Pop(r)
    PROVE  RingInv'
<1> DEFINE p == [pc EXCEPT ![r] = "idle"]
<1>1. /\ pc' \in [Threads -> Places]
      /\ \A t \in Threads : \/ pc'[t] = p[t]
                            \/ t \in Waiting(Senders) /\ pc'[t] = "awake"
  <2>1. p \in [Threads -> Places] /\ pc' \in Signal(p, Senders)
    BY DEF RingInv, TypeOK, Pop, Threads, Places
  <2>2. Senders \in SUBSET Threads
    BY DEF Threads
  <2> HIDE DEF p
  <2>3. QED
    BY <2>1, <2>2, SignalEffect
<1>2. tail' = tail /\ cnt' = cnt - 1 /\ cnt' \in 0 .. Cap-1 /\ head \in 0 .. Cap-1
  BY RingAssumption DEF RingInv, TypeOK, Pop
<1>h. /\ head' = IF head + 1 < Cap THEN head + 1 ELSE head + 1 - Cap
      /\ head' \in 0 .. Cap-1
  BY <1>2, WrapSum, RingAssumption DEF Pop
<1>3. buf[head] \in Items
  <2>1. (head + 0) % Cap = head
    <3>1. 0 \in 0 .. Cap /\ Cap \in Nat
      BY RingAssumption
    <3>2. (head + 0) % Cap = IF head + 0 < Cap THEN head + 0 ELSE head + 0 - Cap
      BY <3>1, <1>2, WrapSum
    <3>3. QED
      BY <3>1, <3>2, <1>2
  <2>2. 0 \in 0 .. cnt-1
    BY DEF RingInv, TypeOK, Pop
  <2>3. QED
    BY <2>1, <2>2 DEF RingInv, IndicesAgree
<1>4. TypeOK'
  <2>1. /\ buf' \in [0 .. Cap-1 -> Items \cup {NoItem}]
        /\ arg' \in [Senders -> Items \cup {NoItem}]
        /\ got' \in [Receivers -> Items \cup {NoItem}]
    BY <1>3 DEF RingInv, TypeOK, Pop
  <2>2. cnt' \in 0 .. Cap /\ tail' \in 0 .. Cap-1
    BY <1>2, RingAssumption DEF RingInv, TypeOK
  <2>3. QED
    BY <1>1, <1>h, <2>1, <2>2 DEF TypeOK
<1>5. \A i \in 0 .. cnt' : (head' + i) % Cap = (head + (i + 1)) % Cap
  <2> SUFFICES ASSUME NEW i \in 0 .. cnt'
               PROVE  (head' + i) % Cap = (head + (i + 1)) % Cap
    OBVIOUS
  <2>1. i \in 0 .. Cap /\ i + 1 \in 0 .. Cap /\ Cap \in Nat
    BY <1>2, RingAssumption
  <2>2. (head' + i) % Cap = IF head' + i < Cap THEN head' + i ELSE head' + i - Cap
    BY <2>1, <1>h, WrapSum
  <2>3. (head + (i + 1)) % Cap =
            IF head + (i + 1) < Cap THEN head + (i + 1) ELSE head + (i + 1) - Cap
    BY <2>1, <1>2, WrapSum
  <2>4. QED
    BY <2>1, <2>2, <2>3, <1>2, <1>h
<1>6. IndicesAgree'
  <2>1. tail' = (head' + cnt') % Cap
    BY <1>2, <1>5 DEF RingInv, TypeOK, IndicesAgree
  <2>2. ASSUME NEW i \in 0 .. cnt'-1
        PROVE  buf'[(head' + i) % Cap] \in Items
    <3>1. i + 1 \in 0 .. cnt-1 /\ (head' + i) % Cap = (head + (i + 1)) % Cap
      BY <1>2, <1>5 DEF RingInv, TypeOK
    <3>2. QED
      BY <3>1 DEF RingInv, IndicesAgree, Pop
  <2>3. QED
    BY <2>1, <2>2 DEF IndicesAgree
<1>7. CallsAgree' /\ ExpiredAreTimed'
  BY <1>1, RingAssumption DEF RingInv, TypeOK, CallsAgree, ExpiredAreTimed, Pop, Waiting, Threads
<1>8. QED
  BY <1>4, <1>6, <1>7 DEF RingInv

\* Every other step leaves the ring alone.
LEMMA CallInv ==
    ASSUME RingInv, UNCHANGED ring,
           \/ \E s \in Senders : \/ \E v \in Items : PushCall(s, v)
                                 \/ PushWait(s) \/ PushTimeout(s)
           \/ \E r \in Receivers : PopCall(r) \/ PopWait(r) \/ PopTimeout(r)
           \/ \E t \in Threads : SpuriousWakeup(t) \/ Expire(t)
    PROVE  RingInv'
<1>1. IndicesAgree'
  BY DEF RingInv, IndicesAgree, ring
<1>2. TypeOK' /\ CallsAgree' /\ ExpiredAreTimed'
  <2>1. ASSUME NEW s \in Senders, NEW v \in Items, PushCall(s, v)
        PROVE  TypeOK' /\ CallsAgree' /\ ExpiredAreTimed'
    BY <2>1, RingAssumption DEF RingInv, TypeOK, CallsAgree, ExpiredAreTimed, PushCall, Threads, Places
  <2>2. ASSUME NEW s \in Senders, PushWait(s) PROVE TypeOK' /\ CallsAgree' /\ ExpiredAreTimed'
    BY <2>2, RingAssumption DEF RingInv, TypeOK, CallsAgree, ExpiredAreTimed, PushWait, Threads, Places
  <2>3. ASSUME NEW s \in Senders, PushTimeout(s) PROVE TypeOK' /\ CallsAgree' /\ ExpiredAreTimed'
    BY <2>3, RingAssumption DEF RingInv, TypeOK, CallsAgree, ExpiredAreTimed, PushTimeout, Threads, Places
  <2>4. ASSUME NEW r \in Receivers, PopCall(r) PROVE TypeOK' /\ CallsAgree' /\ ExpiredAreTimed'
    BY <2>4, RingAssumption DEF RingInv, TypeOK, CallsAgree, ExpiredAreTimed, PopCall, Threads, Places
  <2>5. ASSUME NEW r \in Receivers, PopWait(r) PROVE TypeOK' /\ CallsAgree' /\ ExpiredAreTimed'
    BY <2>5, RingAssumption DEF RingInv, TypeOK, CallsAgree, ExpiredAreTimed, PopWait, Threads, Places
  <2>6. ASSUME NEW r \in Receivers, PopTimeout(r) PROVE TypeOK' /\ CallsAgree' /\ ExpiredAreTimed'
    BY <2>6, RingAssumption DEF RingInv, TypeOK, CallsAgree, ExpiredAreTimed, PopTimeout, Threads, Places
  <2>7. ASSUME NEW t \in Threads, SpuriousWakeup(t) PROVE TypeOK' /\ CallsAgree' /\ ExpiredAreTimed'
    BY <2>7, RingAssumption DEF RingInv, TypeOK, CallsAgree, ExpiredAreTimed, SpuriousWakeup, Threads, Places
  <2>8. ASSUME NEW t \in Threads, Expire(t) PROVE TypeOK' /\ CallsAgree' /\ ExpiredAreTimed'
    BY <2>8, RingAssumption DEF RingInv, TypeOK, CallsAgree, ExpiredAreTimed, Expire, Threads, Places
  <2>9. QED
    BY <2>1, <2>2, <2>3, <2>4, <2>5, <2>6, <2>7, <2>8
<1>3. QED
  BY <1>1, <1>2 DEF RingInv

\* Every step of every thread keeps the invariant; waits leave the ring alone.
LEMMA StepInv == RingInv /\ [Next]_vars => RingInv'
<1> SUFFICES ASSUME RingInv, [Next]_vars PROVE RingInv'
  OBVIOUS
<1>1. ASSUME NEW s \in Senders, Push(s) PROVE RingInv'
  BY <1>1, PushInv
<1>2. ASSUME NEW r \in Receivers, Pop(r) PROVE RingInv'
  BY <1>2, PopInv
<1>3. CASE UNCHANGED vars
  BY <1>3 DEF vars, RingInv, TypeOK, IndicesAgree, CallsAgree, ExpiredAreTimed
<1>4. ASSUME NEW s \in Senders,
             (\E v \in Items : PushCall(s, v)) \/ PushWait(s) \/ PushTimeout(s)
      PROVE  RingInv'
  <2>1. UNCHANGED ring
    BY <1>4 DEF PushCall, PushWait, PushTimeout, ring
  <2>2. QED
    BY <1>4, <2>1, CallInv
<1>5. ASSUME NEW r \in Receivers, PopCall(r) \/ PopWait(r) \/ PopTimeout(r)
      PROVE  RingInv'
  <2>1. UNCHANGED ring
    BY <1>5 DEF PopCall, PopWait, PopTimeout, ring
  <2>2. QED
    BY <1>5, <2>1, CallInv
<1>6. ASSUME NEW t \in Threads, SpuriousWakeup(t) \/ Expire(t)
      PROVE  RingInv'
  <2>1. UNCHANGED ring
    BY <1>6 DEF SpuriousWakeup, Expire, ring
  <2>2. QED
    BY <1>6, <2>1, CallInv
<1>7. QED
  BY <1>1, <1>2, <1>3, <1>4, <1>5, <1>6 DEF Next, SenderStep, ReceiverStep

\* head, tail and cnt always agree and the occupied slots hold pushed items.
THEOREM RingInvariant == Spec => []RingInv
  BY InitInv, StepInv, PTL DEF Spec

-----------------------------------------------------------------------------
(* Refinement: RingBuffer implements BoundedQueue.                         *)

\* The represented queue has cnt items, each in its slot.
ContentsOK ==
    /\ Contents \in Seq(Items)
    /\ Len(Contents) = cnt
    /\ \A i \in 1 .. cnt : Contents[i] = buf[(head + i - 1) % Cap]

\* The queue the ring stands for has cnt items, slot by slot from head.
LEMMA ContentsType == RingInv => ContentsOK
<1> SUFFICES ASSUME RingInv PROVE ContentsOK
  OBVIOUS
<1>1. cnt \in Nat
  BY DEF RingInv, TypeOK
<1>2. \A i \in 1 .. cnt : buf[(head + i - 1) % Cap] \in Items
  <2> SUFFICES ASSUME NEW i \in 1 .. cnt
               PROVE  buf[(head + i - 1) % Cap] \in Items
    OBVIOUS
  <2>1. i - 1 \in 0 .. cnt-1 /\ head + (i - 1) = head + i - 1
    BY <1>1 DEF RingInv, TypeOK
  <2>2. buf[(head + (i - 1)) % Cap] \in Items
    BY <2>1 DEF RingInv, IndicesAgree
  <2>3. QED
    BY <2>1, <2>2
<1>3. QED
  BY <1>1, <1>2 DEF Contents, ContentsOK

\* A push appends its item to the represented queue.
LEMMA PushAppends ==
    ASSUME RingInv, RingInv', NEW s \in Senders, Push(s)
    PROVE  Contents' = Append(Contents, arg[s])
<1>c. ContentsOK /\ ContentsOK'
  BY ContentsType, PTL
<1>1. /\ cnt' = cnt + 1 /\ cnt \in 0 .. Cap-1 /\ head' = head
      /\ head \in 0 .. Cap-1 /\ Cap \in Nat /\ tail \in 0 .. Cap-1
  BY RingAssumption DEF RingInv, TypeOK, Push
<1>2. arg[s] \in Items
  BY DEF RingInv, CallsAgree, Push
<1>3. /\ Contents' \in Seq(Items) /\ Len(Contents') = cnt + 1
      /\ Contents \in Seq(Items) /\ Len(Contents) = cnt
  BY <1>1, <1>c DEF ContentsOK
<1>4. ASSUME NEW i \in 1 .. cnt+1
      PROVE  Contents'[i] = Append(Contents, arg[s])[i]
  <2>1. Contents'[i] = buf'[(head + i - 1) % Cap]
    BY <1>1, <1>c DEF ContentsOK
  <2>2. CASE i = cnt + 1
    <3>1. (head + i - 1) % Cap = tail
      <4>1. head + i - 1 = head + cnt
        BY <1>1, <2>2
      <4>2. QED
        BY <4>1 DEF RingInv, IndicesAgree
    <3>2. buf'[tail] = arg[s]
      BY <1>1 DEF RingInv, TypeOK, Push
    <3>3. QED
      BY <2>1, <2>2, <3>1, <3>2, <1>1, <1>2, <1>3
  <2>3. CASE i # cnt + 1
    <3>1. i \in 1 .. cnt /\ i - 1 \in 0 .. Cap /\ head + i - 1 = head + (i - 1)
      BY <1>1, <2>3
    <3>2. /\ (head + (i - 1)) % Cap =
                 IF head + (i - 1) < Cap THEN head + (i - 1) ELSE head + (i - 1) - Cap
          /\ (head + (i - 1)) % Cap \in 0 .. Cap-1
      BY <1>1, <3>1, WrapSum
    <3>3. tail = IF head + cnt < Cap THEN head + cnt ELSE head + cnt - Cap
      BY <1>1, WrapSum DEF RingInv, TypeOK, IndicesAgree
    <3>4. (head + (i - 1)) % Cap # tail
      BY <1>1, <3>1, <3>2, <3>3
    <3>5. buf'[(head + i - 1) % Cap] = buf[(head + i - 1) % Cap]
      BY <3>1, <3>2, <3>4 DEF RingInv, TypeOK, Push
    <3>6. Contents[i] = buf[(head + i - 1) % Cap]
      BY <3>1, <1>c DEF ContentsOK
    <3>7. Append(Contents, arg[s])[i] = Contents[i]
      BY <3>1, <1>1, <1>2, <1>3
    <3>8. QED
      BY <2>1, <3>5, <3>6, <3>7
  <2>4. QED
    BY <2>2, <2>3
<1>5. Append(Contents, arg[s]) \in Seq(Items) /\ Len(Append(Contents, arg[s])) = cnt + 1
  BY <1>2, <1>3
<1>6. QED
  BY <1>1, <1>3, <1>4, <1>5, SeqEq

\* A pop takes the head of the represented queue.
LEMMA PopTakesHead ==
    ASSUME RingInv, RingInv', NEW r \in Receivers, Pop(r)
    PROVE  /\ Contents # <<>>
           /\ got'[r] = Head(Contents)
           /\ Contents' = Tail(Contents)
<1>c. ContentsOK /\ ContentsOK'
  BY ContentsType, PTL
<1>1. /\ cnt' = cnt - 1 /\ cnt \in 1 .. Cap /\ buf' = buf
      /\ head \in 0 .. Cap-1 /\ head' \in 0 .. Cap-1 /\ Cap \in Nat
  BY RingAssumption DEF RingInv, TypeOK, Pop
<1>2. /\ Contents' \in Seq(Items) /\ Len(Contents') = cnt - 1
      /\ Contents \in Seq(Items) /\ Len(Contents) = cnt
  BY <1>1, <1>c DEF ContentsOK
<1>3. Contents # <<>> /\ Head(Contents) = Contents[1]
  BY <1>1, <1>2
<1>4. got'[r] = Contents[1]
  <2>1. (head + 1 - 1) % Cap = head
    <3>1. 0 \in 0 .. Cap /\ head + 1 - 1 = head + 0
      BY <1>1
    <3>2. (head + 0) % Cap = IF head + 0 < Cap THEN head + 0 ELSE head + 0 - Cap
      BY <1>1, <3>1, WrapSum
    <3>3. QED
      BY <1>1, <3>1, <3>2
  <2>2. Contents[1] = buf[(head + 1 - 1) % Cap]
    BY <1>1, <1>c DEF ContentsOK
  <2>3. QED
    BY <2>1, <2>2 DEF RingInv, TypeOK, Pop
<1>5. ASSUME NEW i \in 1 .. cnt-1
      PROVE  Contents'[i] = Contents[i + 1]
  <2>1. /\ i - 1 \in 0 .. Cap /\ i \in 0 .. Cap /\ i + 1 \in 1 .. cnt /\ 1 \in 0 .. Cap
        /\ head' + i - 1 = head' + (i - 1) /\ head + (i + 1) - 1 = head + i
    BY <1>1
  <2>2. Contents'[i] = buf[(head' + (i - 1)) % Cap]
    BY <1>1, <1>c, <2>1 DEF ContentsOK
  <2>3. Contents[i + 1] = buf[(head + i) % Cap]
    BY <1>1, <1>c, <2>1 DEF ContentsOK
  <2>4. head' = IF head + 1 < Cap THEN head + 1 ELSE head + 1 - Cap
    BY <1>1, <2>1, WrapSum DEF Pop
  <2>5. (head' + (i - 1)) % Cap =
            IF head' + (i - 1) < Cap THEN head' + (i - 1) ELSE head' + (i - 1) - Cap
    BY <1>1, <2>1, WrapSum
  <2>6. (head + i) % Cap = IF head + i < Cap THEN head + i ELSE head + i - Cap
    BY <1>1, <2>1, WrapSum
  <2>7. (head' + (i - 1)) % Cap = (head + i) % Cap
    BY <1>1, <2>1, <2>4, <2>5, <2>6
  <2>8. QED
    BY <2>2, <2>3, <2>7
<1>6. /\ Tail(Contents) \in Seq(Items) /\ Len(Tail(Contents)) = cnt - 1
      /\ \A i \in 1 .. cnt-1 : Tail(Contents)[i] = Contents[i + 1]
  BY <1>1, <1>2, <1>3
<1>7. Contents' = Tail(Contents)
  BY <1>1, <1>2, <1>5, <1>6, SeqEq
<1>8. QED
  BY <1>3, <1>4, <1>7

\* Every step is a step of the abstract queue or leaves it unchanged.
LEMMA StepRefines ==
    RingInv /\ RingInv' /\ [Next]_vars => [Abstract!Next]_(Abstract!vars)
<1> SUFFICES ASSUME RingInv, RingInv', [Next]_vars
             PROVE  [Abstract!Next]_(Abstract!vars)
  OBVIOUS
<1> USE DEF Abstract!Senders, Abstract!Receivers, Abstract!vars, Abstract!Next
<1>1. ASSUME NEW s \in Senders, NEW v \in Items, PushCall(s, v)
      PROVE  Abstract!Offer(s, v)
  BY <1>1 DEF PushCall, Abstract!Offer, RingInv, CallsAgree, Contents
<1>2. ASSUME NEW s \in Senders, Push(s)
      PROVE  Abstract!Put(s)
  <2>1. Contents' = Append(Contents, arg[s])
    BY <1>2, PushAppends
  <2>2. Len(Contents) = cnt /\ cnt < Cap
    BY <1>2, ContentsType, RingAssumption DEF ContentsOK, RingInv, TypeOK, Push
  <2>3. arg[s] # NoItem
    BY <1>2, RingAssumption DEF RingInv, CallsAgree, Push
  <2>4. QED
    BY <1>2, <2>1, <2>2, <2>3 DEF Push, Abstract!Put
<1>3. ASSUME NEW s \in Senders, PushTimeout(s)
      PROVE  Abstract!Refuse(s)
  <2>1. s \in TimedPushers
    BY <1>3, RingAssumption
       DEF PushTimeout, RingInv, ExpiredAreTimed, Threads, Timed, Senders, Receivers
  <2>2. arg[s] # NoItem
    BY <1>3, RingAssumption DEF PushTimeout, RingInv, CallsAgree
  <2>3. QED
    BY <1>3, <2>1, <2>2 DEF PushTimeout, Abstract!Refuse, Contents
<1>4. ASSUME NEW r \in Receivers, PopCall(r)
      PROVE  Abstract!Ask(r)
  BY <1>4 DEF PopCall, Abstract!Ask, Contents
<1>5. ASSUME NEW r \in Receivers, Pop(r)
      PROVE  Abstract!Take(r)
  <2>1. /\ Contents # <<>> /\ got'[r] = Head(Contents)
        /\ Contents' = Tail(Contents)
    BY <1>5, PopTakesHead
  <2>2. got[r] = NoItem
    BY <1>5 DEF RingInv, CallsAgree, Pop
  <2>3. got' = [got EXCEPT ![r] = Head(Contents)]
    BY <1>5, <2>1 DEF RingInv, TypeOK, Pop
  <2>4. QED
    BY <1>5, <2>1, <2>2, <2>3 DEF Pop, Abstract!Take
<1>6. ASSUME UNCHANGED <<buf, head, tail, cnt, arg, got>>
      PROVE  UNCHANGED Abstract!vars
  BY <1>6 DEF Contents
<1>7. ASSUME NEW s \in Senders, PushWait(s) PROVE UNCHANGED Abstract!vars
  BY <1>7, <1>6 DEF PushWait
<1>8. ASSUME NEW r \in Receivers, PopWait(r) \/ PopTimeout(r)
      PROVE  UNCHANGED Abstract!vars
  BY <1>8, <1>6 DEF PopWait, PopTimeout
<1>9. ASSUME NEW t \in Threads, SpuriousWakeup(t) \/ Expire(t)
      PROVE  UNCHANGED Abstract!vars
  BY <1>9, <1>6 DEF SpuriousWakeup, Expire
<1>10. CASE UNCHANGED vars
  BY <1>10, <1>6 DEF vars
<1>11. QED
  BY <1>1, <1>2, <1>3, <1>4, <1>5, <1>7, <1>8, <1>9, <1>10
     DEF Next, SenderStep, ReceiverStep, Senders, Receivers

\* The ring buffer is a FIFO queue: no item is lost, duplicated, reordered or
\* invented, for every capacity and every set of threads.
THEOREM RingImplementsQueue == Spec => ImplementsQueue
<1>1. Init => Abstract!Init
  BY DEF Init, Abstract!Init, Contents, Abstract!Senders, Abstract!Receivers,
         Senders, Receivers
<1>2. QED
  BY <1>1, InitInv, StepInv, StepRefines, PTL DEF Spec, ImplementsQueue, Abstract!Spec

-----------------------------------------------------------------------------
(* No lost wake-ups.                                                       *)

\* Losing at most one element costs at most one in cardinality.
LEMMA DropOne ==
    ASSUME NEW A, NEW B, NEW x, IsFiniteSet(A), IsFiniteSet(B), A \ {x} \subseteq B
    PROVE  Cardinality(A) - 1 <= Cardinality(B)
<1>1. /\ IsFiniteSet(A \ {x})
      /\ Cardinality(A \ {x}) = IF x \in A THEN Cardinality(A) - 1 ELSE Cardinality(A)
  BY FS_RemoveElement
<1>2. Cardinality(A \ {x}) <= Cardinality(B)
  BY FS_Subset
<1>3. Cardinality(A) \in Nat /\ Cardinality(B) \in Nat
  BY FS_CardinalityType
<1>4. QED
  BY <1>1, <1>2, <1>3

\* NotFullWakeups needs no help from the other half of the threads: the invariant is
\* inductive on top of RingInv.
LEMMA NotFullWakeupsStep ==
    TimedPushers = {} /\ RingInv /\ NotFullWakeups /\ [Next]_vars => NotFullWakeups'
<1> SUFFICES ASSUME TimedPushers = {}, RingInv, NotFullWakeups, [Next]_vars
             PROVE  NotFullWakeups'
  OBVIOUS
<1> DEFINE Awake == {t \in Senders : pc[t] = "awake"}
<1>f. /\ IsFiniteSet(Awake) /\ IsFiniteSet(Awake') /\ Cardinality(Awake) \in Nat
      /\ Cardinality(Awake') \in Nat
  <2>1. Awake \in SUBSET Threads /\ Awake' \in SUBSET Threads
    BY DEF Threads
  <2>2. QED
    BY <2>1, RingAssumption, FS_Subset, FS_CardinalityType
<1>t. Senders \cap Timed = {} /\ Senders \cap Receivers = {} /\ Senders \subseteq Threads /\ Receivers \subseteq Threads
  BY RingAssumption DEF Timed, Senders, Receivers, Threads
<1>n. Cap \in Nat /\ cnt \in 0 .. Cap /\ pc \in [Threads -> Places]
  BY RingAssumption DEF RingInv, TypeOK
<1>m. ASSUME Awake \subseteq Awake' PROVE Cardinality(Awake) <= Cardinality(Awake')
  BY <1>m, <1>f, FS_Subset
\* Steps that leave cnt alone and add no waiter.
<1>1. ASSUME cnt' = cnt, Waiting(Senders)' \subseteq Waiting(Senders), Awake \subseteq Awake'
      PROVE  NotFullWakeups'
  BY <1>1, <1>m, <1>n, <1>f DEF NotFullWakeups
<1>2. ASSUME NEW x \in Senders, \E v \in Items : PushCall(x, v)
      PROVE  NotFullWakeups'
  BY <1>2, <1>1, <1>n, <1>t DEF PushCall, Waiting
<1>3. ASSUME NEW x \in Senders, PushWait(x) PROVE NotFullWakeups'
  BY <1>3, <1>f, <1>n DEF PushWait, NotFullWakeups
<1>4. ASSUME NEW x \in Senders, PushTimeout(x) PROVE NotFullWakeups'
  BY <1>4, <1>t DEF PushTimeout, RingInv, ExpiredAreTimed
<1>5. ASSUME NEW x \in Senders, Push(x) PROVE NotFullWakeups'
  <2> DEFINE p == [pc EXCEPT ![x] = "idle"]
  <2>1. p \in [Threads -> Places] /\ pc' \in Signal(p, Receivers)
    BY <1>5, <1>n, <1>t DEF Push, Places
  <2>2. \A t \in Threads : pc'[t] = p[t] \/ (t \in Waiting(Receivers) /\ pc'[t] = "awake")
    <3> HIDE DEF p
    <3>1. QED
      BY <2>1, <1>t, SignalEffect
  <2>3. Awake \ {x} \subseteq Awake'
    BY <2>2, <1>n, <1>t DEF Waiting
  <2>4. Waiting(Senders)' \subseteq Waiting(Senders)
    BY <2>2, <1>n, <1>t DEF Waiting
  <2>5. Cardinality(Awake) - 1 <= Cardinality(Awake')
    <3> HIDE DEF Awake
    <3>1. QED
      BY <2>3, <1>f, DropOne
  <2>6. cnt' = cnt + 1
    BY <1>5 DEF Push
  <2>7. QED
    BY <2>4, <2>5, <2>6, <1>f, <1>n DEF NotFullWakeups
<1>6. ASSUME NEW x \in Receivers, Pop(x) PROVE NotFullWakeups'
  <2> DEFINE p == [pc EXCEPT ![x] = "idle"]
  <2>1. p \in [Threads -> Places] /\ pc' \in Signal(p, Senders) /\ cnt' = cnt - 1
    BY <1>6, <1>n, <1>t DEF Pop, Places
  <2>2. \A t \in Senders : p[t] = pc[t]
    BY <1>n, <1>t
  <2>3. CASE Waiting(Senders) = {}
    <3>1. pc' = p
      BY <2>1, <2>3 DEF Signal
    <3>2. Waiting(Senders)' = {}
      BY <3>1, <2>2, <2>3 DEF Waiting
    <3>3. QED
      BY <3>2 DEF NotFullWakeups
  <2>4. CASE Waiting(Senders) # {}
    <3> HIDE DEF p
    <3>1. PICK w \in Waiting(Senders) : pc' = [p EXCEPT ![w] = "awake"]
      BY <2>1, <2>4 DEF Signal
    <3>2. w \in Senders /\ w \in Threads /\ w \notin Awake
      BY <1>t DEF Waiting
    <3>3. Awake' = Awake \cup {w}
      BY <3>1, <3>2, <2>1, <2>2, <1>t
    <3>4. Cardinality(Awake') = Cardinality(Awake) + 1
      BY <3>2, <3>3, <1>f, FS_AddElement
    <3>5. QED
      BY <3>4, <2>1, <2>4, <1>f, <1>n DEF NotFullWakeups
  <2>5. QED
    BY <2>3, <2>4
<1>7. ASSUME NEW x \in Receivers,
             PopCall(x) \/ PopWait(x) \/ PopTimeout(x)
      PROVE  NotFullWakeups'
  BY <1>7, <1>1, <1>n, <1>t DEF PopCall, PopWait, PopTimeout, Waiting
<1>8. ASSUME NEW t \in Threads, SpuriousWakeup(t) PROVE NotFullWakeups'
  BY <1>8, <1>1, <1>n, <1>t DEF SpuriousWakeup, Waiting
<1>9. ASSUME NEW t \in Threads, Expire(t) PROVE NotFullWakeups'
  BY <1>9, <1>1, <1>n, <1>t DEF Expire, Waiting
<1>10. CASE UNCHANGED vars
  BY <1>10 DEF vars, NotFullWakeups, Waiting
<1>11. QED
  BY <1>2, <1>3, <1>4, <1>5, <1>6, <1>7, <1>8, <1>9, <1>10
     DEF Next, SenderStep, ReceiverStep

\* In a queue that is only filled with rb_push (send_q, recv_q), a free slot
\* never goes unnoticed by the senders asleep on not_full.
THEOREM NoLostNotFull == ASSUME TimedPushers = {} PROVE Spec => []NotFullWakeups
<1>1. Init => NotFullWakeups
  BY DEF Init, NotFullWakeups, Waiting, Threads
<1>2. RingInv /\ NotFullWakeups /\ [Next]_vars => NotFullWakeups'
  BY NotFullWakeupsStep
<1>3. QED
  BY <1>1, <1>2, InitInv, StepInv, PTL DEF Spec

\* NotEmptyWakeups needs no help from the other half of the threads: the invariant is
\* inductive on top of RingInv.
LEMMA NotEmptyWakeupsStep ==
    TimedPoppers = {} /\ RingInv /\ NotEmptyWakeups /\ [Next]_vars => NotEmptyWakeups'
<1> SUFFICES ASSUME TimedPoppers = {}, RingInv, NotEmptyWakeups, [Next]_vars
             PROVE  NotEmptyWakeups'
  OBVIOUS
<1> DEFINE Awake == {t \in Receivers : pc[t] = "awake"}
<1>f. /\ IsFiniteSet(Awake) /\ IsFiniteSet(Awake') /\ Cardinality(Awake) \in Nat
      /\ Cardinality(Awake') \in Nat
  <2>1. Awake \in SUBSET Threads /\ Awake' \in SUBSET Threads
    BY DEF Threads
  <2>2. QED
    BY <2>1, RingAssumption, FS_Subset, FS_CardinalityType
<1>t. Receivers \cap Timed = {} /\ Receivers \cap Senders = {} /\ Receivers \subseteq Threads /\ Senders \subseteq Threads
  BY RingAssumption DEF Timed, Senders, Receivers, Threads
<1>n. Cap \in Nat /\ cnt \in 0 .. Cap /\ pc \in [Threads -> Places]
  BY RingAssumption DEF RingInv, TypeOK
<1>m. ASSUME Awake \subseteq Awake' PROVE Cardinality(Awake) <= Cardinality(Awake')
  BY <1>m, <1>f, FS_Subset
\* Steps that leave cnt alone and add no waiter.
<1>1. ASSUME cnt' = cnt, Waiting(Receivers)' \subseteq Waiting(Receivers), Awake \subseteq Awake'
      PROVE  NotEmptyWakeups'
  BY <1>1, <1>m, <1>n, <1>f DEF NotEmptyWakeups
<1>2. ASSUME NEW x \in Receivers, PopCall(x)
      PROVE  NotEmptyWakeups'
  BY <1>2, <1>1, <1>n, <1>t DEF PopCall, Waiting
<1>3. ASSUME NEW x \in Receivers, PopWait(x) PROVE NotEmptyWakeups'
  BY <1>3, <1>f, <1>n DEF PopWait, NotEmptyWakeups
<1>4. ASSUME NEW x \in Receivers, PopTimeout(x) PROVE NotEmptyWakeups'
  BY <1>4, <1>t DEF PopTimeout, RingInv, ExpiredAreTimed
<1>5. ASSUME NEW x \in Receivers, Pop(x) PROVE NotEmptyWakeups'
  <2> DEFINE p == [pc EXCEPT ![x] = "idle"]
  <2>1. p \in [Threads -> Places] /\ pc' \in Signal(p, Senders)
    BY <1>5, <1>n, <1>t DEF Pop, Places
  <2>2. \A t \in Threads : pc'[t] = p[t] \/ (t \in Waiting(Senders) /\ pc'[t] = "awake")
    <3> HIDE DEF p
    <3>1. QED
      BY <2>1, <1>t, SignalEffect
  <2>3. Awake \ {x} \subseteq Awake'
    BY <2>2, <1>n, <1>t DEF Waiting
  <2>4. Waiting(Receivers)' \subseteq Waiting(Receivers)
    BY <2>2, <1>n, <1>t DEF Waiting
  <2>5. Cardinality(Awake) - 1 <= Cardinality(Awake')
    <3> HIDE DEF Awake
    <3>1. QED
      BY <2>3, <1>f, DropOne
  <2>6. cnt' = cnt - 1
    BY <1>5 DEF Pop
  <2>7. QED
    BY <2>4, <2>5, <2>6, <1>f, <1>n DEF NotEmptyWakeups
<1>6. ASSUME NEW x \in Senders, Push(x) PROVE NotEmptyWakeups'
  <2> DEFINE p == [pc EXCEPT ![x] = "idle"]
  <2>1. p \in [Threads -> Places] /\ pc' \in Signal(p, Receivers) /\ cnt' = cnt + 1
    BY <1>6, <1>n, <1>t DEF Push, Places
  <2>2. \A t \in Receivers : p[t] = pc[t]
    BY <1>n, <1>t
  <2>3. CASE Waiting(Receivers) = {}
    <3>1. pc' = p
      BY <2>1, <2>3 DEF Signal
    <3>2. Waiting(Receivers)' = {}
      BY <3>1, <2>2, <2>3 DEF Waiting
    <3>3. QED
      BY <3>2 DEF NotEmptyWakeups
  <2>4. CASE Waiting(Receivers) # {}
    <3> HIDE DEF p
    <3>1. PICK w \in Waiting(Receivers) : pc' = [p EXCEPT ![w] = "awake"]
      BY <2>1, <2>4 DEF Signal
    <3>2. w \in Receivers /\ w \in Threads /\ w \notin Awake
      BY <1>t DEF Waiting
    <3>3. Awake' = Awake \cup {w}
      BY <3>1, <3>2, <2>1, <2>2, <1>t
    <3>4. Cardinality(Awake') = Cardinality(Awake) + 1
      BY <3>2, <3>3, <1>f, FS_AddElement
    <3>5. QED
      BY <3>4, <2>1, <2>4, <1>f, <1>n DEF NotEmptyWakeups
  <2>5. QED
    BY <2>3, <2>4
<1>7. ASSUME NEW x \in Senders,
             (\E v \in Items : PushCall(x, v)) \/ PushWait(x) \/ PushTimeout(x)
      PROVE  NotEmptyWakeups'
  BY <1>7, <1>1, <1>n, <1>t DEF PushCall, PushWait, PushTimeout, Waiting
<1>8. ASSUME NEW t \in Threads, SpuriousWakeup(t) PROVE NotEmptyWakeups'
  BY <1>8, <1>1, <1>n, <1>t DEF SpuriousWakeup, Waiting
<1>9. ASSUME NEW t \in Threads, Expire(t) PROVE NotEmptyWakeups'
  BY <1>9, <1>1, <1>n, <1>t DEF Expire, Waiting
<1>10. CASE UNCHANGED vars
  BY <1>10 DEF vars, NotEmptyWakeups, Waiting
<1>11. QED
  BY <1>2, <1>3, <1>4, <1>5, <1>6, <1>7, <1>8, <1>9, <1>10
     DEF Next, SenderStep, ReceiverStep

\* In a queue that is only emptied with rb_pop, no item is left lying while
\* all receivers sleep on not_empty.
THEOREM NoLostNotEmpty == ASSUME TimedPoppers = {} PROVE Spec => []NotEmptyWakeups
<1>1. Init => NotEmptyWakeups
  BY DEF Init, NotEmptyWakeups, Waiting, Threads
<1>2. RingInv /\ NotEmptyWakeups /\ [Next]_vars => NotEmptyWakeups'
  BY NotEmptyWakeupsStep
<1>3. QED
  BY <1>1, <1>2, InitInv, StepInv, PTL DEF Spec

=============================================================================
