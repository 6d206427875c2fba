-------------------------- MODULE TcpServerProofs ---------------------------
(***************************************************************************)
(* Proofs about the TCP server for any connections, descriptors, queue     *)
(* capacities, broadcasts and failures of accept, with a kernel that gives *)
(* a closed number out again at once.                                      *)
(*                                                                         *)
(* The array of clients (ArrayInv) is followed number by number: what      *)
(* happens to the numbers in raced does not disturb the others.  Messages  *)
(* (MessageInv) are followed connection by connection: a connection has    *)
(* one number as long as it is open, so a message can lose its connection  *)
(* but not meet it under another number.                                   *)
(***************************************************************************)
EXTENDS TcpServer, SequenceTheorems, WellFoundedInduction, TLAPS

\* What a thread has in hand fits what it is about to do.
InHand ==
    /\ io.at = "push" => io.fd \in Fds /\ io.from \in Conns
    /\ io.at = "remove" => io.fd \in Fds

TypeInv == TypeOK /\ InHand

\* f is at one place of the sequence s at most.
Once(f, s) == \A i, j \in DOMAIN s : s[i] = f /\ s[j] = f => i = j

Registering(f) == io.at = "register" /\ io.fd = f
Removing(f) ==
    \/ io.at = "remove" /\ io.fd = f
    \/ snd.at = "remove" /\ snd.fd = f

\* A number that is registered is open, not in the array, and not send_loop's.
RegistersNew ==
    \A f \in Fds \ raced : Registering(f) =>
        table[f] # NoConn /\ f \notin Range(clients) /\ snd.fd # f

\* What a thread is about to take out of the array is closed.
RemovesClosed == \A f \in Fds \ raced : Removing(f) => table[f] = NoConn

\* The array has what is open, once, and nothing else that nobody removes.
ArrayIsRight ==
    \A f \in Fds \ raced :
        /\ table[f] # NoConn => f \in Range(clients) \/ Registering(f)
        /\ f \in Range(clients) => table[f] # NoConn \/ Removing(f)
        /\ Once(f, clients)

\* The last conjunct is about all numbers: a number io_loop has closed stays
\* closed, since io_loop itself gets the numbers from accept.
ArrayInv ==
    /\ RegistersNew
    /\ RemovesClosed
    /\ ArrayIsRight
    /\ io.at = "remove" => table[io.fd] = NoConn

\* Somebody has the number f in hand for the connection c.
Holds(f, c) ==
    \/ io.at = "push" /\ io.fd = f /\ io.from = c
    \/ \E r \in asked \cup Range(recvq) : r.fd = f /\ r.from = c
    \/ \E a \in Range(sendq) : a.fd = f /\ a.to = c

\* A connection is not made yet, in the backlog, or open under one number.
ConnsAreOnce ==
    /\ fresh \cap backlog = {}
    /\ \A f \in Fds : table[f] \notin fresh \cup backlog
    /\ \A f, g \in Fds : table[f] = table[g] /\ table[f] # NoConn => f = g

\* A number held for a connection is the only one the connection ever had.
HeldIsOwn ==
    \A f \in AnyFd, c \in Conns : Holds(f, c) =>
        /\ c \notin fresh \cup backlog
        /\ \A g \in Fds : table[g] = c => g = f

MessageInv == ConnsAreOnce /\ HeldIsOwn

ServerInv == TypeInv /\ ArrayInv /\ MessageInv

-----------------------------------------------------------------------------
(* Sequences                                                               *)

\* What rb_push and the registration of a client do to a sequence and its members.
LEMMA RangeOfAppend ==
    ASSUME NEW S, NEW s \in Seq(S), NEW e \in S
    PROVE  /\ Append(s, e) \in Seq(S)
           /\ Len(Append(s, e)) = Len(s) + 1
           /\ \A i \in 1 .. Len(s) : Append(s, e)[i] = s[i]
           /\ Append(s, e)[Len(s) + 1] = e
           /\ Range(Append(s, e)) = Range(s) \cup {e}
<1>1. /\ Append(s, e) \in Seq(S)
      /\ Len(Append(s, e)) = Len(s) + 1
      /\ \A i \in 1 .. Len(s) : Append(s, e)[i] = s[i]
      /\ Append(s, e)[Len(s) + 1] = e
  OBVIOUS
<1>2. /\ DOMAIN s = 1 .. Len(s) /\ Len(s) \in Nat
      /\ DOMAIN Append(s, e) = 1 .. Len(s) + 1
  BY <1>1, LenProperties
<1>3. Range(Append(s, e)) = Range(s) \cup {e}
  BY <1>1, <1>2 DEF Range
<1> QED BY <1>1, <1>3

\* What rb_pop does to a queue and to its members.
LEMMA RangeOfTail ==
    ASSUME NEW S, NEW s \in Seq(S), s # <<>>
    PROVE  /\ Head(s) \in Range(s)
           /\ Head(s) \in S
           /\ Tail(s) \in Seq(S)
           /\ Len(Tail(s)) = Len(s) - 1
           /\ Range(Tail(s)) \subseteq Range(s)
<1>1. /\ Head(s) \in S
      /\ Tail(s) \in Seq(S)
      /\ Len(Tail(s)) = Len(s) - 1
      /\ \A i \in 1 .. Len(Tail(s)) : Tail(s)[i] = s[i+1]
  BY HeadTailProperties
<1>2. /\ Len(s) \in Nat \ {0}
      /\ DOMAIN s = 1 .. Len(s)
      /\ DOMAIN Tail(s) = 1 .. Len(s) - 1
  BY <1>1, LenProperties, EmptySeq
<1>3. Head(s) = s[1]
  OBVIOUS
<1> QED BY <1>1, <1>2, <1>3 DEF Range

\* The members of a sequence have the type of its elements.
LEMMA RangeInType ==
    ASSUME NEW S, NEW s \in Seq(S)
    PROVE  Range(s) \subseteq S
BY LenProperties, ElementOfSeq DEF Range

\* A set of naturals has a least member.
LEMMA LeastNatural ==
    ASSUME NEW T \in SUBSET Nat, T # {}
    PROVE  \E x \in T : \A y \in T : x <= y
<1>1. PICK x \in T : \A y \in T : <<y, x>> \notin OpToRel(<, Nat)
  BY NatLessThanWellFounded, WFMin
<1>2. ASSUME NEW y \in T, y < x
      PROVE  <<y, x>> \in OpToRel(<, Nat)
  BY <1>2 DEF OpToRel
<1>3. \A y \in T : ~(y < x)
  BY <1>1, <1>2
<1> QED BY <1>3

\* RemoveFirst takes out the first occurrence and puts the last element there.
LEMMA RemoveFirstProperties ==
    ASSUME NEW S, NEW s \in Seq(S), NEW fd \in Range(s)
    PROVE  /\ RemoveFirst(s, fd) \in Seq(S)
           /\ Len(RemoveFirst(s, fd)) = Len(s) - 1
           /\ \E i \in 1 .. Len(s) :
                 /\ s[i] = fd
                 /\ \A j \in 1 .. Len(s) - 1 :
                       RemoveFirst(s, fd)[j] = IF j = i THEN s[Len(s)] ELSE s[j]
<1> DEFINE First(i) == s[i] = fd /\ \A j \in 1 .. i-1 : s[j] # fd
<1>1. DOMAIN s = 1 .. Len(s) /\ Len(s) \in Nat
  BY LenProperties
<1>2. \E i \in DOMAIN s : First(i)
  <2> DEFINE At == {n \in 1 .. Len(s) : s[n] = fd}
  <2>1. At \in SUBSET Nat /\ At # {}
    BY <1>1 DEF Range
  <2>2. \E i \in At : \A j \in At : i <= j
    <3> HIDE DEF At
    <3> QED BY <2>1, LeastNatural
  <2>3. PICK i \in At : \A j \in At : i <= j
    BY <2>2
  <2>4. \A j \in 1 .. i-1 : s[j] # fd
    BY <2>3, <1>1
  <2> QED BY <2>3, <2>4, <1>1
<1> DEFINE i == CHOOSE n \in DOMAIN s : First(n)
           t == [s EXCEPT ![i] = s[Len(s)]]
<1>3. i \in DOMAIN s /\ First(i)
  BY <1>2
<1>4. RemoveFirst(s, fd) = SubSeq(t, 1, Len(s) - 1)
  BY <1>3 DEF RemoveFirst
<1> HIDE DEF i
<1>5. /\ t \in Seq(S) /\ Len(t) = Len(s)
      /\ \A j \in 1 .. Len(s) : t[j] = IF j = i THEN s[Len(s)] ELSE s[j]
  <2>1. s[Len(s)] \in S
    BY <1>1, <1>3, ElementOfSeq
  <2> QED BY <1>1, <1>3, <2>1, ExceptSeq
<1>6. \A j \in 1 .. Len(s) - 1 : t[j] \in S
  BY <1>1, <1>5, ElementOfSeq
<1> HIDE DEF t
<1>7. /\ SubSeq(t, 1, Len(s) - 1) \in Seq(S)
      /\ Len(SubSeq(t, 1, Len(s) - 1)) = Len(s) - 1
      /\ \A j \in 1 .. Len(s) - 1 : SubSeq(t, 1, Len(s) - 1)[j] = t[j]
  <2> DEFINE n == Len(s) - 1
  <2>1. n \in Nat
    BY <1>1, <1>3
  <2> HIDE DEF n
  <2>2. \A j \in 1 .. n : t[j] \in S
    BY <1>6 DEF n
  <2>3. /\ SubSeq(t, 1, n) \in Seq(S)
        /\ Len(SubSeq(t, 1, n)) = IF 1 <= n THEN n - 1 + 1 ELSE 0
        /\ \A j \in 1 .. n - 1 + 1 : SubSeq(t, 1, n)[j] = t[1 + j - 1]
    BY <2>1, <2>2, SubSeqProperties
  <2>4. /\ SubSeq(t, 1, n) \in Seq(S)
        /\ Len(SubSeq(t, 1, n)) = n
        /\ \A j \in 1 .. n : SubSeq(t, 1, n)[j] = t[j]
    BY <2>1, <2>3
  <2> QED BY <2>4 DEF n
<1> QED BY <1>1, <1>3, <1>4, <1>5, <1>7

\* After it the array has the other numbers still, and each as often as before.
LEMMA RemoveFirstKeeps ==
    ASSUME NEW s \in Seq(AnyFd), NEW fd \in AnyFd
    PROVE  /\ RemoveFirst(s, fd) \in Seq(AnyFd)
           /\ Range(RemoveFirst(s, fd)) \subseteq Range(s)
           /\ \A f \in Range(s) : f # fd => f \in Range(RemoveFirst(s, fd))
           /\ \A f : f # fd /\ Once(f, s) => Once(f, RemoveFirst(s, fd))
           /\ Once(fd, s) => fd \notin Range(RemoveFirst(s, fd))
<1> DEFINE r == RemoveFirst(s, fd)
<1>1. DOMAIN s = 1 .. Len(s) /\ Len(s) \in Nat
  BY LenProperties
<1>2. CASE fd \notin Range(s)
  <2>1. r = s
    BY <1>2 DEF RemoveFirst, Range
  <2> QED BY <2>1, <1>2
<1>3. CASE fd \in Range(s)
  <2>1. /\ r \in Seq(AnyFd) /\ Len(r) = Len(s) - 1
        /\ \E i \in 1 .. Len(s) :
              /\ s[i] = fd
              /\ \A j \in 1 .. Len(s) - 1 : r[j] = IF j = i THEN s[Len(s)] ELSE s[j]
    BY <1>3, RemoveFirstProperties
  <2> HIDE DEF r
  <2>2. PICK i \in 1 .. Len(s) :
            /\ s[i] = fd
            /\ \A j \in 1 .. Len(s) - 1 : r[j] = IF j = i THEN s[Len(s)] ELSE s[j]
    BY <2>1
  <2>3. DOMAIN r = 1 .. Len(s) - 1
    BY <2>1, LenProperties
  <2>4. ASSUME NEW f, f # fd, Once(f, s)
        PROVE  Once(f, r)
    BY <1>1, <2>2, <2>3, <2>4 DEF Once
  <2>5. Range(r) \subseteq Range(s)
    BY <1>1, <2>2, <2>3 DEF Range
  <2>6. ASSUME NEW f \in Range(s), f # fd
        PROVE  f \in Range(r)
    <3>1. PICK k \in 1 .. Len(s) : s[k] = f
      BY <1>1 DEF Range
    <3>2. CASE k < Len(s)
      BY <3>1, <3>2, <2>2, <2>3, <2>6, <1>1 DEF Range
    <3>3. CASE k = Len(s)
      <4>1. i \in 1 .. Len(s) - 1 /\ r[i] = f
        BY <3>1, <3>3, <2>2, <2>6, <1>1
      <4> QED BY <4>1, <2>3 DEF Range
    <3>4. k \in Int /\ k <= Len(s) /\ Len(s) \in Int
      BY <1>1
    <3>5. k < Len(s) \/ k = Len(s)
      BY <3>4
    <3> QED BY <3>2, <3>3, <3>5
  <2>7. ASSUME Once(fd, s), NEW k \in 1 .. Len(s) - 1
        PROVE  r[k] # fd
    BY <1>1, <2>2, <2>7 DEF Once
  <2>8. Once(fd, s) => fd \notin Range(r)
    BY <2>3, <2>7 DEF Range
  <2> QED BY <2>1, <2>4, <2>5, <2>6, <2>8 DEF r
<1> QED BY <1>2, <1>3

-----------------------------------------------------------------------------
(* Types                                                                   *)

\* Types: connecting, asking and leaving clients.
LEMMA TypesOfClients ==
    ASSUME TypeInv, NEW c \in Conns, Connect(c) \/ Ask(c) \/ Leave(c)
    PROVE  TypeInv'
BY DEF TypeInv, TypeOK, InHand, Connect, Ask, Leave

\* What epoll_wait may report is an event.
LEMMA ReadyAreEvents ==
    ASSUME TypeInv
    PROVE  Ready \subseteq Event
BY DEF TypeInv, TypeOK, Ready, Event

\* A close empties one entry of the kernel's table, if the number is one.
LEMMA TypesOfClose ==
    ASSUME TypeInv, NEW fd \in AnyFd, Close(fd)
    PROVE  /\ table' \in [Fds -> AnyConn]
           /\ data' \subseteq Conns
           /\ \A f \in Fds : table'[f] = IF f = fd THEN NoConn ELSE table[f]
BY TcpAssumption DEF TypeInv, TypeOK, Close, AnyConn, AnyFd

\* Types: every step of io_loop.
LEMMA TypesOfIo ==
    ASSUME TypeInv, IoStep
    PROVE  TypeInv'
<1> USE DEF TypeInv, InHand
<1>1. CASE EpollWait
  BY <1>1, ReadyAreEvents DEF EpollWait, TypeOK, kernel
<1>2. ASSUME NEW e \in evs, NEW c \in Conns, NEW f \in Fds, IoAccept(e, c, f)
      PROVE  TypeInv'
  BY <1>2 DEF IoAccept, Handling, TypeOK, AnyFd, AnyConn
<1>3. ASSUME NEW e \in evs, IoAcceptFails(e)
      PROVE  TypeInv'
  BY <1>3, TcpAssumption DEF IoAcceptFails, Handling, TypeOK, AnyFd, AnyConn
<1>4. ASSUME NEW e \in evs, IoRead(e)
      PROVE  TypeInv'
  <2>1. e.fd \in Fds
    BY <1>4 DEF IoRead, TypeOK, Event
  <2>2. table[e.fd] \in Conns
    BY <1>4 DEF IoRead, TypeOK
  <2> QED BY <1>4, <2>1, <2>2 DEF IoRead, Handling, TypeOK, AnyFd, AnyConn
<1>5. ASSUME NEW e \in evs, IoClose(e)
      PROVE  TypeInv'
  <2>1. e.fd \in Fds
    BY <1>5 DEF IoClose, TypeOK, Event
  <2>2. table' \in [Fds -> AnyConn] /\ data' \subseteq Conns
    BY <1>5, <2>1, TypesOfClose DEF IoClose, AnyFd
  <2> QED BY <1>5, <2>1, <2>2 DEF IoClose, Handling, TypeOK, AnyFd, AnyConn
<1>6. CASE IoRegister
  <2>1. clients' \in Seq(AnyFd)
    BY <1>6, RangeOfAppend DEF IoRegister, TypeOK
  <2> QED BY <1>6, <2>1 DEF IoRegister, Looping, TypeOK, kernel, AnyFd, AnyConn
<1>7. CASE IoPush
  <2>1. [fd |-> io.fd, from |-> io.from] \in Request
    BY <1>7 DEF IoPush, Request
  <2>2. recvq' \in Seq(Request) /\ Len(recvq') <= RecvCap
    BY <1>7, <2>1, TcpAssumption, LenProperties DEF IoPush, TypeOK
  <2> QED BY <1>7, <2>2 DEF IoPush, Looping, TypeOK, kernel, AnyFd, AnyConn
<1>8. CASE IoRemove
  <2>1. clients' \in Seq(AnyFd)
    <3>1. CASE io.fd \in Range(clients)
      BY <1>8, <3>1, RemoveFirstProperties DEF IoRemove, TypeOK
    <3>2. CASE io.fd \notin Range(clients)
      BY <1>8, <3>2 DEF IoRemove, RemoveFirst, Range, TypeOK
    <3> QED BY <3>1, <3>2
  <2> QED BY <1>8, <2>1 DEF IoRemove, Looping, TypeOK, kernel, AnyFd, AnyConn
<1> QED BY <1>1, <1>2, <1>3, <1>4, <1>5, <1>6, <1>7, <1>8 DEF IoStep

\* Types: the worker, the answers and the broadcasts.
LEMMA TypesOfAnswers ==
    ASSUME TypeInv,
           \/ WorkerTakes
           \/ \E r \in asked : SgTcpServer_send(r)
           \/ BroadcastLock \/ BroadcastPush \/ BroadcastUnlock
    PROVE  TypeInv'
<1> USE DEF TypeInv, InHand, kernel
<1>1. CASE WorkerTakes
  <2>1. /\ Head(recvq) \in Request /\ Tail(recvq) \in Seq(Request)
        /\ Len(Tail(recvq)) = Len(recvq) - 1 /\ Len(recvq) \in Nat
    BY <1>1, HeadTailProperties, LenProperties DEF WorkerTakes, TypeOK
  <2> QED BY <1>1, <2>1, TcpAssumption DEF WorkerTakes, TypeOK
<1>2. ASSUME NEW r \in asked, SgTcpServer_send(r)
      PROVE  TypeInv'
  <2>1. [fd |-> r.fd, to |-> r.from] \in Answer
    BY DEF TypeOK, Request, Answer, AnyFd, AnyConn
  <2>2. sendq' \in Seq(Answer) /\ Len(sendq') <= SendCap
    BY <1>2, <2>1, TcpAssumption, LenProperties DEF SgTcpServer_send, TypeOK
  <2> QED BY <1>2, <2>2 DEF SgTcpServer_send, TypeOK
<1>3. CASE BroadcastLock
  BY <1>3, TcpAssumption DEF BroadcastLock, TypeOK
<1>4. CASE BroadcastPush
  <2>1. clients[bc] \in AnyFd
    BY <1>4, ElementOfSeq DEF BroadcastPush, TypeOK
  <2>2. [fd |-> clients[bc], to |-> Meant(clients[bc])] \in Answer
    BY <2>1 DEF TypeOK, Answer, Meant, AnyConn
  <2>3. sendq' \in Seq(Answer) /\ Len(sendq') <= SendCap
    BY <1>4, <2>2, TcpAssumption, LenProperties DEF BroadcastPush, TypeOK
  <2> QED BY <1>4, <2>3 DEF BroadcastPush, TypeOK
<1>5. CASE BroadcastUnlock
  BY <1>5 DEF BroadcastUnlock, TypeOK
<1> QED BY <1>1, <1>2, <1>3, <1>4, <1>5

\* Types: every step of send_loop.
LEMMA TypesOfSend ==
    ASSUME TypeInv, SendStep
    PROVE  TypeInv'
<1> USE DEF TypeInv, InHand
<1>1. CASE SendOk \/ SendFails
  <2>1. /\ Head(sendq) \in Answer /\ Tail(sendq) \in Seq(Answer)
        /\ Len(Tail(sendq)) = Len(sendq) - 1 /\ Len(sendq) \in Nat
    BY <1>1, HeadTailProperties, LenProperties DEF SendOk, SendFails, SendReady, TypeOK
  <2>2. Head(sendq).fd \in AnyFd
    BY <2>1 DEF Answer
  <2>3. CASE SendOk
    BY <2>1, <2>3, TcpAssumption DEF SendOk, TypeOK, kernel
  <2>4. CASE SendFails
    <3>1. snd' \in [at : {"pop", "close", "remove"}, fd : AnyFd]
      BY <2>2, <2>4 DEF SendFails
    <3>2. sendq' \in Seq(Answer) /\ Len(sendq') <= SendCap
      BY <2>1, <2>4, TcpAssumption DEF SendFails, TypeOK
    <3> QED BY <2>4, <3>1, <3>2 DEF SendFails, TypeOK, kernel
  <2> QED BY <1>1, <2>3, <2>4
<1>2. CASE SendClose
  <2>1. table' \in [Fds -> AnyConn] /\ data' \subseteq Conns
    BY <1>2, TypesOfClose DEF SendClose, TypeOK
  <2> QED BY <1>2, <2>1 DEF SendClose, TypeOK
<1>3. CASE SendRemove
  <2>1. clients' \in Seq(AnyFd)
    <3>1. CASE snd.fd \in Range(clients)
      BY <1>3, <3>1, RemoveFirstProperties DEF SendRemove, TypeOK
    <3>2. CASE snd.fd \notin Range(clients)
      BY <1>3, <3>2 DEF SendRemove, RemoveFirst, Range, TypeOK
    <3> QED BY <3>1, <3>2
  <2> QED BY <1>3, <2>1 DEF SendRemove, Popping, TypeOK, kernel, AnyFd
<1> QED BY <1>1, <1>2, <1>3 DEF SendStep

\* Types: the start.
LEMMA TypesInit == Init => TypeInv
BY TcpAssumption, EmptySeq
   DEF Init, TypeInv, TypeOK, InHand, Looping, Popping, AnyFd, AnyConn

\* Types: every step keeps them.
LEMMA TypesStep == TypeInv /\ [Next]_vars => TypeInv'
<1> SUFFICES ASSUME TypeInv, [Next]_vars PROVE TypeInv'
  OBVIOUS
<1>1. CASE UNCHANGED vars
  BY <1>1 DEF vars, TypeInv, TypeOK, InHand
<1> QED BY <1>1, TypesOfClients, TypesOfIo, TypesOfAnswers, TypesOfSend DEF Next

\* Queues stay within their capacities and every thread has in hand what its
\* next step needs, for any clients and even if numbers are used again.
THEOREM TypesHold == Spec => []TypeInv
BY TypesInit, TypesStep, PTL DEF Spec

-----------------------------------------------------------------------------
(* The array                                                               *)

\* Between accepts connections are only closed.
OnlyCloses == \A f \in Fds : table'[f] \in {table[f], NoConn}

\* A step that only closes and leaves the array alone keeps it right, if
\* whoever closes a number goes on to take it out, and nobody starts to
\* remove an open number or to clean up one that is being registered.
LEMMA ArrayKept ==
    ASSUME TypeInv, TypeInv', ArrayInv, OnlyCloses,
           clients' = clients, raced \subseteq raced',
           io.at \in {"register", "remove"} => io' = io,
           snd.at = "remove" => snd' = snd,
           io'.at = "remove" => io' = io \/ table'[io'.fd] = NoConn,
           snd'.at = "remove" => snd' = snd \/ (snd'.fd \in Fds => table'[snd'.fd] = NoConn),
           \A f \in Fds \ raced' : io'.at = "register" /\ io'.fd = f =>
              io' = io /\ table'[f] = table[f] /\ snd'.fd # f,
           \A f \in Fds : table'[f] # table[f] =>
              \/ io'.at = "remove" /\ io'.fd = f
              \/ snd'.at = "remove" /\ snd'.fd = f
    PROVE  ArrayInv'
<1>1. \A f \in Fds \ raced' : f \in Fds \ raced
  OBVIOUS
<1>2. \A f \in Fds : Registering(f) => Registering(f)'
  BY DEF Registering
<1>3. \A f \in Fds : Removing(f) => Removing(f)'
  BY DEF Removing
<1>4. \A f \in Fds \ raced' : Registering(f)' => Registering(f) /\ table'[f] = table[f] /\ snd'.fd # f
  BY DEF Registering
<1>5. RegistersNew'
  BY <1>1, <1>4 DEF ArrayInv, RegistersNew
<1>6. io'.at = "remove" => table'[io'.fd] = NoConn
  BY DEF ArrayInv, OnlyCloses, TypeInv, InHand
<1>7. RemovesClosed'
  <2>1. ASSUME NEW f \in Fds \ raced', snd'.at = "remove", snd'.fd = f
        PROVE  table'[f] = NoConn
    BY <1>1, <2>1 DEF ArrayInv, RemovesClosed, Removing, OnlyCloses
  <2> QED BY <1>6, <2>1 DEF RemovesClosed, Removing
<1>8. ArrayIsRight'
  <2> SUFFICES ASSUME NEW f \in Fds \ raced'
               PROVE  /\ table'[f] # NoConn => f \in Range(clients) \/ Registering(f)'
                      /\ f \in Range(clients) => table'[f] # NoConn \/ Removing(f)'
                      /\ Once(f, clients)
    BY DEF ArrayIsRight
  <2>1. /\ table[f] # NoConn => f \in Range(clients) \/ Registering(f)
        /\ f \in Range(clients) => table[f] # NoConn \/ Removing(f)
        /\ Once(f, clients)
    BY <1>1 DEF ArrayInv, ArrayIsRight
  <2>2. table'[f] # NoConn => table[f] = table'[f]
    BY DEF OnlyCloses
  <2>3. table'[f] # table[f] => Removing(f)'
    BY DEF Removing
  <2> QED BY <1>2, <1>3, <2>1, <2>2, <2>3
<1> QED BY <1>5, <1>6, <1>7, <1>8 DEF ArrayInv

\* Clients, requests, answers and broadcasts leave the array and the threads'
\* clean-ups alone.
LEMMA ArrayOtherSteps ==
    ASSUME TypeInv, TypeInv', ArrayInv,
           \/ \E c \in Conns : Connect(c) \/ Ask(c) \/ Leave(c)
           \/ WorkerTakes
           \/ \E r \in asked : SgTcpServer_send(r)
           \/ BroadcastLock \/ BroadcastPush \/ BroadcastUnlock
           \/ SendOk
    PROVE  ArrayInv'
<1>1. UNCHANGED <<table, clients, io, snd, raced>>
  BY DEF Connect, Ask, Leave, WorkerTakes, SgTcpServer_send, BroadcastLock,
         BroadcastPush, BroadcastUnlock, SendOk, kernel
<1>2. OnlyCloses
  BY <1>1 DEF OnlyCloses
<1>3. \A f \in Fds \ raced' : io'.at = "register" /\ io'.fd = f => snd'.fd # f
  BY <1>1 DEF ArrayInv, RegistersNew, Registering
<1> QED BY <1>1, <1>2, <1>3, ArrayKept

\* Steps of io_loop and send_loop that neither register nor remove: send_loop
\* that takes up a number io_loop is registering makes that number raced.
LEMMA ArrayHandSteps ==
    ASSUME TypeInv, TypeInv', ArrayInv,
           \/ EpollWait
           \/ \E e \in evs : IoAcceptFails(e) \/ IoRead(e) \/ IoClose(e)
           \/ IoPush
           \/ SendFails \/ SendClose
    PROVE  ArrayInv'
<1>1. CASE EpollWait \/ IoPush
  <2>1. UNCHANGED <<table, clients, snd, raced>>
    BY <1>1 DEF EpollWait, IoPush, kernel
  <2>2. io.at \notin {"register", "remove"} /\ io'.at \notin {"register", "remove"}
    BY <1>1 DEF EpollWait, IoPush, Looping
  <2>3. OnlyCloses
    BY <2>1 DEF OnlyCloses
  <2> QED BY <2>1, <2>2, <2>3, ArrayKept
<1>2. ASSUME NEW e \in evs, IoAcceptFails(e) \/ IoRead(e)
      PROVE  ArrayInv'
  <2>1. UNCHANGED <<table, clients, snd, raced>> /\ io.at = "loop"
    BY <1>2 DEF IoAcceptFails, IoRead, Handling
  <2>2. io'.at # "remove" /\ (io'.at = "register" => io'.fd = BadFd)
    BY <1>2 DEF IoAcceptFails, IoRead
  <2>3. OnlyCloses
    BY <2>1 DEF OnlyCloses
  <2> QED BY <2>1, <2>2, <2>3, TcpAssumption, ArrayKept
<1>3. ASSUME NEW e \in evs, IoClose(e)
      PROVE  ArrayInv'
  <2>1. UNCHANGED <<clients, snd, raced>> /\ io.at = "loop"
    BY <1>3 DEF IoClose, Handling
  <2>2. e.fd \in Fds /\ io' = [at |-> "remove", fd |-> e.fd, from |-> NoConn]
    BY <1>3 DEF IoClose, TypeInv, TypeOK, Event
  <2>3. \A f \in Fds : table'[f] = IF f = e.fd THEN NoConn ELSE table[f]
    BY <1>3, <2>2, TypesOfClose DEF IoClose, AnyFd
  <2>4. OnlyCloses
    BY <2>3 DEF OnlyCloses
  <2> QED BY <2>1, <2>2, <2>3, <2>4, ArrayKept
<1>4. CASE SendFails
  <2>1. UNCHANGED <<table, clients, io>> /\ raced \subseteq raced' /\ snd.at = "pop"
    BY <1>4 DEF SendFails, SendReady, kernel
  <2>2. snd'.at = "close"
    BY <1>4 DEF SendFails
  <2>3. \A f \in Fds \ raced' : io.at = "register" /\ io.fd = f => snd'.fd # f
    BY <1>4 DEF SendFails
  <2>4. OnlyCloses
    BY <2>1 DEF OnlyCloses
  <2> QED BY <2>1, <2>2, <2>3, <2>4, ArrayKept
<1>5. CASE SendClose
  <2>1. UNCHANGED <<clients, io, raced>> /\ snd.at = "close"
    BY <1>5 DEF SendClose
  <2>2. snd'.at = "remove" /\ snd'.fd = snd.fd /\ snd.fd \in AnyFd
    BY <1>5 DEF SendClose, TypeInv, TypeOK
  <2>3. \A f \in Fds : table'[f] = IF f = snd.fd THEN NoConn ELSE table[f]
    BY <1>5, <2>2, TypesOfClose DEF SendClose
  <2>4. OnlyCloses
    BY <2>3 DEF OnlyCloses
  <2>5. \A f \in Fds \ raced' : io'.at = "register" /\ io'.fd = f =>
           table'[f] = table[f] /\ snd'.fd # f
    BY <2>1, <2>2, <2>3 DEF ArrayInv, RegistersNew, Registering
  <2> QED BY <2>1, <2>2, <2>3, <2>4, <2>5, ArrayKept
<1> QED BY <1>1, <1>2, <1>3, <1>4, <1>5

\* A number that is accepted is not in the array, if send_loop does not have it.
LEMMA ArrayAccept ==
    ASSUME TypeInv, TypeInv', ArrayInv,
           NEW e \in evs, NEW c \in Conns, NEW f \in Fds, IoAccept(e, c, f)
    PROVE  ArrayInv'
<1>1. /\ UNCHANGED <<clients, snd>> /\ io.at = "loop" /\ table[f] = NoConn
      /\ io' = [at |-> "register", fd |-> f, from |-> c]
      /\ raced' = raced \cup ({f} \cap {snd.fd})
  BY DEF IoAccept, Handling
<1>2. \A g \in Fds : table'[g] = IF g = f THEN c ELSE table[g]
  BY DEF IoAccept, TypeInv, TypeOK
<1>3. f \notin raced' => f \notin raced /\ snd.fd # f
  BY <1>1
<1>4. c # NoConn
  BY TcpAssumption
<1>5. f \notin raced' => f \notin Range(clients)
  BY <1>1, <1>3 DEF ArrayInv, ArrayIsRight, Removing
<1>6. RegistersNew'
  BY <1>1, <1>2, <1>3, <1>4, <1>5 DEF RegistersNew, Registering
<1>7. RemovesClosed'
  BY <1>1, <1>2, <1>3 DEF ArrayInv, RemovesClosed, Removing
<1>8. ArrayIsRight'
  <2> SUFFICES ASSUME NEW g \in Fds \ raced'
               PROVE  /\ table'[g] # NoConn => g \in Range(clients) \/ Registering(g)'
                      /\ g \in Range(clients) => table'[g] # NoConn \/ Removing(g)'
                      /\ Once(g, clients)
    BY <1>1 DEF ArrayIsRight
  <2>1. /\ table[g] # NoConn => g \in Range(clients)
        /\ g \in Range(clients) => table[g] # NoConn \/ Removing(g)
        /\ Once(g, clients)
    BY <1>1 DEF ArrayInv, ArrayIsRight, Registering
  <2>2. Removing(g) => Removing(g)'
    BY <1>1 DEF Removing
  <2>3. Registering(f)'
    BY <1>1 DEF Registering
  <2> QED BY <1>2, <1>4, <2>1, <2>2, <2>3
<1> QED BY <1>1, <1>6, <1>7, <1>8 DEF ArrayInv

\* The new number, which was not in the array, is put at its end.
LEMMA ArrayRegister ==
    ASSUME TypeInv, TypeInv', ArrayInv, IoRegister
    PROVE  ArrayInv'
<1>1. /\ UNCHANGED <<table, snd, raced>>
      /\ io.at = "register" /\ io' = Looping
      /\ clients' = Append(clients, io.fd)
  BY DEF IoRegister, kernel
<1>2. clients \in Seq(AnyFd) /\ io.fd \in AnyFd
  BY DEF TypeInv, TypeOK
<1>3. /\ Len(clients') = Len(clients) + 1
      /\ \A i \in 1 .. Len(clients) : clients'[i] = clients[i]
      /\ clients'[Len(clients) + 1] = io.fd
      /\ Range(clients') = Range(clients) \cup {io.fd}
  BY <1>1, <1>2, RangeOfAppend
<1>4. /\ DOMAIN clients = 1 .. Len(clients) /\ Len(clients) \in Nat
      /\ DOMAIN clients' = 1 .. Len(clients) + 1
  BY <1>2, <1>3, LenProperties DEF TypeInv, TypeOK
<1>5. RegistersNew' /\ (io'.at = "remove" => table'[io'.fd] = NoConn)
  BY <1>1 DEF RegistersNew, Registering, Looping
<1>6. RemovesClosed'
  BY <1>1 DEF ArrayInv, RemovesClosed, Removing, Looping
<1>7. ASSUME NEW f \in Fds \ raced
      PROVE  Once(f, clients')
  <2>1. Once(f, clients)
    BY DEF ArrayInv, ArrayIsRight
  <2>2. io.fd = f => \A i \in 1 .. Len(clients) : clients[i] # f
    BY <1>1, <1>4 DEF ArrayInv, RegistersNew, Registering, Range
  <2> QED BY <1>3, <1>4, <2>1, <2>2 DEF Once
<1>8. ArrayIsRight'
  <2> SUFFICES ASSUME NEW f \in Fds \ raced
               PROVE  /\ table[f] # NoConn => f \in Range(clients')
                      /\ f \in Range(clients') => table[f] # NoConn \/ Removing(f)'
    BY <1>1, <1>7 DEF ArrayIsRight
  <2>1. Removing(f) => Removing(f)'
    BY <1>1 DEF Removing
  <2>2. /\ table[f] # NoConn => f \in Range(clients) \/ io.fd = f
        /\ f \in Range(clients) => table[f] # NoConn \/ Removing(f)
        /\ io.fd = f => table[f] # NoConn
    BY <1>1 DEF ArrayInv, ArrayIsRight, RegistersNew, Registering
  <2> QED BY <1>3, <2>1, <2>2
<1> QED BY <1>5, <1>6, <1>8 DEF ArrayInv

\* Taking a closed number out of the array leaves the others in it.
LEMMA ArrayRemove ==
    ASSUME TypeInv, TypeInv', ArrayInv, IoRemove \/ SendRemove
    PROVE  ArrayInv'
<1> DEFINE fd == IF IoRemove THEN io.fd ELSE snd.fd
<1>1. /\ UNCHANGED <<table, raced>>
      /\ clients' = RemoveFirst(clients, fd)
      /\ \/ io.at = "remove" /\ fd = io.fd /\ io' = Looping /\ snd' = snd
         \/ snd.at = "remove" /\ fd = snd.fd /\ snd' = Popping /\ io' = io
  BY DEF IoRemove, SendRemove, kernel
<1>2. fd \in AnyFd
  BY DEF TypeInv, TypeOK
<1> HIDE DEF fd
<1>3. fd \in Fds \ raced => table[fd] = NoConn /\ Once(fd, clients)
  BY <1>1 DEF ArrayInv, RemovesClosed, Removing, ArrayIsRight
<1>4. /\ Range(clients') \subseteq Range(clients)
      /\ \A f \in Range(clients) : f # fd => f \in Range(clients')
      /\ \A f : f # fd /\ Once(f, clients) => Once(f, clients')
      /\ Once(fd, clients) => fd \notin Range(clients')
  BY <1>1, <1>2, RemoveFirstKeeps DEF TypeInv, TypeOK
<1>5. RegistersNew' /\ (io'.at = "remove" => table'[io'.fd] = NoConn)
  <2>1. \A f \in Fds : Registering(f)' => Registering(f)
    BY <1>1 DEF Registering, Looping
  <2>2. \A f \in Fds : snd'.fd = f => snd.fd = f
    BY <1>1, TcpAssumption DEF Popping
  <2> QED BY <1>1, <1>4, <2>1, <2>2 DEF ArrayInv, RegistersNew, Looping
<1>6. \A f \in Fds : Removing(f)' => Removing(f)
  BY <1>1 DEF Removing, Looping, Popping
<1>7. RemovesClosed'
  BY <1>1, <1>6 DEF ArrayInv, RemovesClosed
<1>8. ArrayIsRight'
  <2> SUFFICES ASSUME NEW f \in Fds \ raced
               PROVE  /\ table[f] # NoConn => f \in Range(clients') \/ Registering(f)'
                      /\ f \in Range(clients') => table[f] # NoConn \/ Removing(f)'
                      /\ Once(f, clients')
    BY <1>1 DEF ArrayIsRight
  <2>1. /\ table[f] # NoConn => f \in Range(clients) \/ Registering(f)
        /\ f \in Range(clients) => table[f] # NoConn \/ Removing(f)
        /\ Once(f, clients)
    BY DEF ArrayInv, ArrayIsRight
  <2>2. CASE f = fd
    <3>1. table[f] = NoConn /\ f \notin Range(clients')
      BY <2>1, <2>2, <1>3, <1>4
    <3>2. Once(f, clients')
      BY <3>1 DEF Once, Range
    <3> QED BY <3>1, <3>2
  <2>3. CASE f # fd
    <3>1. Removing(f) => Removing(f)'
      BY <1>1, <2>3 DEF Removing
    <3>2. Registering(f) => Registering(f)'
      BY <1>1 DEF Registering
    <3> QED BY <2>1, <2>3, <1>4, <3>1, <3>2
  <2> QED BY <2>2, <2>3
<1> QED BY <1>5, <1>7, <1>8 DEF ArrayInv

-----------------------------------------------------------------------------
(* Messages                                                                *)

\* The sets that Holds speaks of have proper members.
LEMMA Elements ==
    ASSUME TypeInv
    PROVE  /\ asked \cup Range(recvq) \subseteq Request
           /\ Range(sendq) \subseteq Answer
           /\ \A i \in 1 .. Len(clients) : clients[i] \in AnyFd
<1>1. recvq \in Seq(Request) /\ sendq \in Seq(Answer) /\ clients \in Seq(AnyFd)
  BY DEF TypeInv, TypeOK
<1> QED BY <1>1, RangeInType, ElementOfSeq DEF TypeInv, TypeOK

\* A step that makes no connection open keeps both parts, if a number it hands
\* to somebody for a connection was in hand for it before, or is open for it.
LEMMA MessagesKept ==
    ASSUME TypeInv, MessageInv, OnlyCloses,
           \/ UNCHANGED <<fresh, backlog>>
           \/ fresh' = fresh /\ backlog' \subseteq backlog
           \/ \E c \in fresh : fresh' = fresh \ {c} /\ backlog' = backlog \cup {c},
           \A f \in AnyFd, c \in Conns : Holds(f, c)' =>
              Holds(f, c) \/ (f \in Fds /\ table[f] = c)
    PROVE  MessageInv'
<1>1. /\ fresh' \cap backlog' = {}
      /\ fresh' \cup backlog' \subseteq fresh \cup backlog
  BY DEF MessageInv, ConnsAreOnce
<1>2. NoConn \notin fresh \cup backlog
  BY TcpAssumption DEF TypeInv, TypeOK
<1>3. ConnsAreOnce'
  <2>1. \A f \in Fds : table'[f] \notin fresh' \cup backlog'
    BY <1>1, <1>2 DEF MessageInv, ConnsAreOnce, OnlyCloses
  <2>2. \A f, g \in Fds : table'[f] = table'[g] /\ table'[f] # NoConn => f = g
    BY DEF MessageInv, ConnsAreOnce, OnlyCloses
  <2> QED BY <1>1, <2>1, <2>2 DEF ConnsAreOnce
<1>4. HeldIsOwn'
  <2> SUFFICES ASSUME NEW f \in AnyFd, NEW c \in Conns, Holds(f, c)'
               PROVE  /\ c \notin fresh' \cup backlog'
                      /\ \A g \in Fds : table'[g] = c => g = f
    BY DEF HeldIsOwn
  <2>1. c # NoConn
    BY TcpAssumption
  <2>2. \A g \in Fds : table'[g] = c => table[g] = c
    BY <2>1 DEF OnlyCloses
  <2>3. CASE Holds(f, c)
    BY <1>1, <2>2, <2>3 DEF MessageInv, HeldIsOwn
  <2>4. CASE f \in Fds /\ table[f] = c
    BY <1>1, <2>1, <2>2, <2>4 DEF MessageInv, ConnsAreOnce
  <2> QED BY <2>3, <2>4
<1> QED BY <1>3, <1>4 DEF MessageInv

\* A connection leaves the backlog when it gets its number; nobody holds
\* anything for it yet.
LEMMA MessagesAccept ==
    ASSUME TypeInv, MessageInv,
           NEW e \in evs, NEW c \in Conns, NEW f \in Fds, IoAccept(e, c, f)
    PROVE  MessageInv'
<1>1. /\ UNCHANGED <<fresh, asked, recvq, sendq>>
      /\ c \in backlog /\ backlog' = backlog \ {c}
      /\ io' = [at |-> "register", fd |-> f, from |-> c]
      /\ \A g \in Fds : table'[g] = IF g = f THEN c ELSE table[g]
  BY DEF IoAccept, TypeInv, TypeOK
<1>2. \A g, d : Holds(g, d)' => Holds(g, d)
  BY <1>1 DEF Holds
<1>3. ConnsAreOnce'
  BY <1>1 DEF MessageInv, ConnsAreOnce
<1>4. HeldIsOwn'
  BY <1>1, <1>2 DEF MessageInv, HeldIsOwn
<1> QED BY <1>3, <1>4 DEF MessageInv

\* Steps that touch neither the connections' numbers nor a message.
LEMMA MessagesOtherSteps ==
    ASSUME TypeInv, MessageInv,
           \/ \E c \in Conns : Connect(c) \/ Ask(c) \/ Leave(c)
           \/ EpollWait
           \/ \E e \in evs : IoAcceptFails(e) \/ IoClose(e)
           \/ IoRegister \/ IoRemove
           \/ BroadcastLock \/ BroadcastUnlock
           \/ SendClose \/ SendRemove
    PROVE  MessageInv'
<1>1. UNCHANGED <<asked, recvq, sendq>>
  BY DEF Connect, Ask, Leave, EpollWait, IoAcceptFails, IoClose, IoRegister, IoRemove,
         BroadcastLock, BroadcastUnlock, SendClose, SendRemove
<1>2. io'.at = "push" => io' = io
  BY DEF Connect, Ask, Leave, EpollWait, IoAcceptFails, IoClose, IoRegister, IoRemove,
         BroadcastLock, BroadcastUnlock, SendClose, SendRemove, Looping
<1>3. \A f, c : Holds(f, c)' => Holds(f, c)
  BY <1>1, <1>2 DEF Holds
<1>4. OnlyCloses
  <2>1. CASE (\E e \in evs : IoClose(e)) \/ SendClose
    <3>1. \E fd \in AnyFd : Close(fd)
      BY <2>1 DEF IoClose, SendClose, TypeInv, TypeOK, Event, AnyFd
    <3> QED BY <3>1, TypesOfClose DEF OnlyCloses
  <2>2. CASE ~((\E e \in evs : IoClose(e)) \/ SendClose)
    BY <2>2 DEF Connect, Ask, Leave, EpollWait, IoAcceptFails, IoRegister, IoRemove,
                BroadcastLock, BroadcastUnlock, SendRemove, kernel, OnlyCloses
  <2> QED BY <2>1, <2>2
<1>5. \/ UNCHANGED <<fresh, backlog>>
      \/ fresh' = fresh /\ backlog' \subseteq backlog
      \/ \E c \in fresh : fresh' = fresh \ {c} /\ backlog' = backlog \cup {c}
  BY DEF Connect, Ask, Leave, EpollWait, IoAcceptFails, IoClose, IoRegister, IoRemove,
         BroadcastLock, BroadcastUnlock, SendClose, SendRemove, kernel
<1> QED BY <1>3, <1>4, <1>5, MessagesKept

\* A message is read from an open connection, handed on with the connection it
\* came from, or made for a connection that is open.
LEMMA MessagesMove ==
    ASSUME TypeInv, MessageInv,
           \/ \E e \in evs : IoRead(e)
           \/ IoPush
           \/ WorkerTakes
           \/ \E r \in asked : SgTcpServer_send(r)
           \/ BroadcastPush
           \/ SendOk \/ SendFails
    PROVE  MessageInv'
<1>1. UNCHANGED <<table, fresh, backlog>>
  BY DEF IoRead, IoPush, WorkerTakes, SgTcpServer_send, BroadcastPush, SendOk, SendFails, kernel
<1>2. OnlyCloses
  BY <1>1 DEF OnlyCloses
<1> SUFFICES ASSUME NEW f \in AnyFd, NEW c \in Conns, Holds(f, c)'
             PROVE  Holds(f, c) \/ (f \in Fds /\ table[f] = c)
  BY <1>1, <1>2, MessagesKept
<1>3. recvq \in Seq(Request) /\ sendq \in Seq(Answer)
  BY DEF TypeInv, TypeOK
<1>4. ASSUME NEW e \in evs, IoRead(e)
      PROVE  Holds(f, c) \/ (f \in Fds /\ table[f] = c)
  <2>1. e.fd \in Fds
    BY <1>4 DEF IoRead, TypeInv, TypeOK, Event
  <2> QED BY <1>4, <2>1 DEF IoRead, Holds
<1>5. CASE IoPush
  <2>1. [fd |-> io.fd, from |-> io.from] \in Request
    BY <1>5 DEF IoPush, Request, TypeInv, InHand
  <2>2. Range(recvq') = Range(recvq) \cup {[fd |-> io.fd, from |-> io.from]}
    BY <1>3, <1>5, <2>1, RangeOfAppend DEF IoPush
  <2>3. UNCHANGED <<asked, sendq>> /\ io.at = "push" /\ io'.at = "loop"
    BY <1>5 DEF IoPush, Looping
  <2> QED BY <2>2, <2>3 DEF Holds
<1>6. CASE WorkerTakes
  <2>1. Head(recvq) \in Range(recvq) /\ Range(recvq') \subseteq Range(recvq)
    BY <1>3, <1>6, RangeOfTail DEF WorkerTakes
  <2>2. UNCHANGED <<io, sendq>> /\ asked' = asked \cup {Head(recvq)}
    BY <1>6 DEF WorkerTakes
  <2>3. asked' \cup Range(recvq') \subseteq asked \cup Range(recvq)
    BY <2>1, <2>2
  <2> QED BY <2>2, <2>3 DEF Holds
<1>7. ASSUME NEW r \in asked, SgTcpServer_send(r)
      PROVE  Holds(f, c)
  <2>1. [fd |-> r.fd, to |-> r.from] \in Answer
    BY Elements DEF Request, Answer, AnyFd, AnyConn
  <2>2. Range(sendq') = Range(sendq) \cup {[fd |-> r.fd, to |-> r.from]}
    BY <1>3, <1>7, <2>1, RangeOfAppend DEF SgTcpServer_send
  <2>3. UNCHANGED <<io, recvq>> /\ asked' \subseteq asked
    BY <1>7 DEF SgTcpServer_send
  <2> QED BY <2>2, <2>3 DEF Holds
<1>8. CASE BroadcastPush
  <2> DEFINE m == [fd |-> clients[bc], to |-> Meant(clients[bc])]
  <2>1. clients[bc] \in AnyFd
    BY <1>8, Elements DEF BroadcastPush
  <2>2. m \in Answer
    BY <2>1 DEF TypeInv, TypeOK, Answer, Meant, AnyConn
  <2>3. Range(sendq') = Range(sendq) \cup {m}
    BY <1>3, <1>8, <2>2, RangeOfAppend DEF BroadcastPush
  <2>4. UNCHANGED <<io, recvq, asked>>
    BY <1>8 DEF BroadcastPush
  <2>5. m.fd = f /\ m.to = c => f \in Fds /\ table[f] = c
    BY TcpAssumption DEF Meant
  <2> HIDE DEF m
  <2> QED BY <2>3, <2>4, <2>5 DEF Holds
<1>9. CASE SendOk \/ SendFails
  <2>1. Range(sendq') \subseteq Range(sendq)
    BY <1>3, <1>9, RangeOfTail DEF SendOk, SendFails, SendReady
  <2>2. UNCHANGED <<io, recvq, asked>>
    BY <1>9 DEF SendOk, SendFails
  <2> QED BY <2>1, <2>2 DEF Holds
<1> QED BY <1>4, <1>5, <1>6, <1>7, <1>8, <1>9

-----------------------------------------------------------------------------
(* The theorems                                                            *)

\* A server without connections satisfies the invariant.
LEMMA ServerInvInit == Init => ServerInv
<1> SUFFICES ASSUME Init PROVE ServerInv
  OBVIOUS
<1>1. Range(clients) = {} /\ Range(recvq) = {} /\ Range(sendq) = {}
  BY DEF Init, Range
<1>2. TypeInv
  BY TypesInit
<1>3. RegistersNew /\ RemovesClosed /\ ArrayIsRight
  BY <1>1 DEF Init, Looping, Popping, RegistersNew, RemovesClosed, ArrayIsRight,
              Registering, Removing, Once
<1>4. ArrayInv
  BY <1>3 DEF ArrayInv, Init, Looping
<1>5. MessageInv
  BY <1>1, TcpAssumption
     DEF Init, Looping, MessageInv, ConnsAreOnce, HeldIsOwn, Holds
<1> QED BY <1>2, <1>4, <1>5 DEF ServerInv

\* Every step keeps the invariant.
LEMMA ServerInvStep == ServerInv /\ [Next]_vars => ServerInv'
<1> SUFFICES ASSUME ServerInv, [Next]_vars PROVE ServerInv'
  OBVIOUS
<1>1. TypeInv /\ ArrayInv /\ MessageInv /\ TypeInv'
  BY TypesStep DEF ServerInv
<1>2. CASE UNCHANGED vars
  <2>1. \A f, c : Holds(f, c)' <=> Holds(f, c)
    BY <1>2 DEF vars, Holds
  <2>2. ArrayInv'
    BY <1>1, <1>2 DEF vars, ArrayInv, RegistersNew, RemovesClosed, ArrayIsRight,
                      Registering, Removing, Once
  <2>3. MessageInv'
    BY <1>1, <1>2, <2>1 DEF vars, MessageInv, ConnsAreOnce, HeldIsOwn
  <2> QED BY <1>1, <2>2, <2>3 DEF ServerInv
<1>3. CASE IoStep
  <2>1. ArrayInv'
    BY <1>1, <1>3, ArrayHandSteps, ArrayAccept, ArrayRegister, ArrayRemove DEF IoStep
  <2>2. MessageInv'
    BY <1>1, <1>3, MessagesAccept, MessagesOtherSteps, MessagesMove DEF IoStep
  <2> QED BY <1>1, <2>1, <2>2 DEF ServerInv
<1>4. CASE SendStep
  <2>1. ArrayInv'
    BY <1>1, <1>4, ArrayOtherSteps, ArrayHandSteps, ArrayRemove DEF SendStep
  <2>2. MessageInv'
    BY <1>1, <1>4, MessagesOtherSteps, MessagesMove DEF SendStep
  <2> QED BY <1>1, <2>1, <2>2 DEF ServerInv
<1>5. CASE \/ \E c \in Conns : Connect(c) \/ Ask(c) \/ Leave(c)
           \/ WorkerTakes
           \/ \E r \in asked : SgTcpServer_send(r)
           \/ BroadcastLock \/ BroadcastPush \/ BroadcastUnlock
  <2>1. ArrayInv'
    BY <1>1, <1>5, ArrayOtherSteps
  <2>2. MessageInv'
    BY <1>1, <1>5, MessagesOtherSteps, MessagesMove
  <2> QED BY <1>1, <2>1, <2>2 DEF ServerInv
<1> QED BY <1>2, <1>3, <1>4, <1>5 DEF Next

\* The array of clients agrees with the kernel and the threads on every number
\* that is not raced, and what is in the queues belongs to connections that
\* have kept their numbers; no assumption on which numbers the kernel gives.
THEOREM ServerInvariant == Spec => []ServerInv
BY ServerInvInit, ServerInvStep, PTL DEF Spec

\* Every open connection is in the array, so that broadcasts reach it, unless
\* send_loop was cleaning up the number that accept gave it.
THEOREM OpenAreListed == Spec => []ListedUnlessRaced
<1>1. ServerInv => ListedUnlessRaced
  BY DEF ServerInv, ArrayInv, ArrayIsRight, ListedUnlessRaced, Listed, Registering, Range
<1> QED BY <1>1, ServerInvariant, PTL

\* The array has each such number once and no closed one that nobody is about
\* to take out, although io_loop and send_loop may both clean up a number.
THEOREM ListedAreOpen == Spec => []NoGhosts
<1>1. ServerInv => NoGhosts
  BY DEF ServerInv, ArrayInv, ArrayIsRight, NoGhosts, Removing, Once, Range
<1> QED BY <1>1, ServerInvariant, PTL

\* While its client is connected no message goes to another one, however long
\* the request, its answer or a broadcast has waited and whatever numbers the
\* kernel has given out meanwhile.  (Of a client that is gone another one may
\* get the message: RightRecipient does not hold.)
THEOREM OnlineGetTheirs == Spec => OnlyClosedGoAstray
<1>1. ServerInv /\ [Next]_vars
        => [SendOk => \/ Head(sendq).to \in {NoConn, Meant(Head(sendq).fd)}
                      \/ ~Online(Head(sendq).to)]_vars
  <2> SUFFICES ASSUME ServerInv, SendOk, Head(sendq).to # NoConn, Online(Head(sendq).to)
               PROVE  Head(sendq).to = Meant(Head(sendq).fd)
    OBVIOUS
  <2> DEFINE m == Head(sendq)
  <2>1. m \in Range(sendq) /\ m \in Answer
    BY RangeOfTail DEF SendOk, SendReady, ServerInv, TypeInv, TypeOK
  <2>2. PICK g \in Fds : table[g] = m.to
    BY DEF Online
  <2>3. m.fd \in AnyFd /\ m.to \in Conns /\ Holds(m.fd, m.to)
    BY <2>1 DEF Answer, AnyConn, Holds
  <2>4. g = m.fd
    BY <2>2, <2>3 DEF ServerInv, MessageInv, HeldIsOwn
  <2> QED BY <2>2, <2>4 DEF Meant
<1> QED BY <1>1, ServerInvariant, PTL DEF Spec, OnlyClosedGoAstray

=============================================================================
