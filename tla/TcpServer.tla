----------------------------- MODULE TcpServer ------------------------------
(***************************************************************************)
(* sg-tcp.c: a TCP server with three threads (io_loop, worker_loop,        *)
(* send_loop), the queues recv_q and send_q, and the array clients guarded *)
(* by clients_mtx; callers outside broadcast and send.                     *)
(*                                                                         *)
(* A connection (Conns) is a client's connection from connect to close; a  *)
(* descriptor (Fds) is the number the kernel gives it, which it may give   *)
(* out again as soon as it is closed.  sg-tcp.c knows only the numbers.    *)
(*                                                                         *)
(* Both io_loop and send_loop run cleanup_connection: they close the       *)
(* descriptor and then, with clients_mtx, take it out of the array.        *)
(* SgTcpServer_broadcast holds clients_mtx while it waits for room in      *)
(* send_q; if send_loop waits for the mutex then, both wait for ever       *)
(* (SendStuck).  No other critical section contains a wait, so each of     *)
(* them is one step.  A send on a connection the peer has reset may also   *)
(* raise SIGPIPE and end the process: that is Crash in BinCount.  Stopping *)
(* the server is not part of this module.                                  *)
(***************************************************************************)
EXTENDS Integers, Sequences

CONSTANTS Conns,       \* connections that clients make, one after the other
          NoConn,      \* an unused descriptor's connection
          Fds,         \* descriptors the kernel may give to connections
          BadFd,       \* -1
          SendCap,     \* capacity of send_q (128 in the code)
          RecvCap,     \* capacity of recv_q (128 in the code)
          MaxBcasts,   \* bound: calls of SgTcpServer_broadcast
          MaxFails     \* bound: calls of accept that fail

ASSUME TcpAssumption ==
    /\ NoConn \notin Conns
    /\ BadFd \notin Fds
    /\ SendCap \in Nat \ {0}
    /\ RecvCap \in Nat \ {0}
    /\ MaxBcasts \in Nat
    /\ MaxFails \in Nat

VARIABLES table,    \* table[f]: the connection descriptor f refers to
          fresh,    \* connections not made yet
          backlog,  \* connections waiting for accept
          left,     \* connections that the peer has closed or reset
          data,     \* connections with unread data
          spoke,    \* connections whose client has made its request
          clients,  \* the array, 1 .. clients_cnt
          holder,   \* clients_mtx: "broadcast" or "none"
          evs,      \* events of io_loop's current epoll_wait still to handle
          io,       \* io_loop: where it is and what it has in hand
          snd,      \* send_loop: likewise
          bc,       \* the broadcast under way: next index, 0 if none
          asked,    \* requests taken by worker_loop, to be answered
          recvq, sendq,
          bcasts,   \* broadcasts begun
          fails,    \* calls of accept that have failed
          raced     \* (history) numbers that io_loop had to register while
                    \* send_loop was cleaning up the same number

kernel == <<table, fresh, backlog, left, data, spoke, fails>>
vars   == <<table, fresh, backlog, left, data, spoke, clients, holder, evs, io,
            snd, bc, asked, recvq, sendq, bcasts, fails, raced>>

AnyFd   == Fds \cup {BadFd}
AnyConn == Conns \cup {NoConn}
Event   == [fd : Fds, kind : {"in", "hup"}] \cup [fd : {BadFd}, kind : {"listen"}]
Request == [fd : Fds, from : Conns]
Answer  == [fd : AnyFd, to : AnyConn]   \* to (history): whom the caller meant

TypeOK ==
    /\ table \in [Fds -> AnyConn]
    /\ \A S \in {fresh, backlog, left, data, spoke} : S \subseteq Conns
    /\ clients \in Seq(AnyFd)
    /\ holder \in {"none", "broadcast"}
    /\ evs \subseteq Event
    /\ io \in [at : {"loop", "register", "push", "remove"}, fd : AnyFd, from : AnyConn]
    /\ snd \in [at : {"pop", "close", "remove"}, fd : AnyFd]
    /\ bc \in Nat
    /\ asked \subseteq Request
    /\ recvq \in Seq(Request) /\ Len(recvq) <= RecvCap
    /\ sendq \in Seq(Answer) /\ Len(sendq) <= SendCap
    /\ bcasts \in 0 .. MaxBcasts
    /\ fails \in 0 .. MaxFails
    /\ raced \subseteq Fds

Looping == [at |-> "loop", fd |-> BadFd, from |-> NoConn]
Popping == [at |-> "pop", fd |-> BadFd]

\* SgTcpServer_new and SgTcpServer_start
Init ==
    /\ table = [f \in Fds |-> NoConn]
    /\ fresh = Conns
    /\ backlog = {}
    /\ left = {}
    /\ data = {}
    /\ spoke = {}
    /\ clients = <<>>
    /\ holder = "none"
    /\ evs = {}
    /\ io = Looping
    /\ snd = Popping
    /\ bc = 0
    /\ asked = {}
    /\ recvq = <<>>
    /\ sendq = <<>>
    /\ bcasts = 0
    /\ fails = 0
    /\ raced = {}

MutexFree == holder = "none"

Online(c) == c \in {table[f] : f \in Fds}

-----------------------------------------------------------------------------
(* The clients                                                             *)

Connect(c) ==
    /\ c \in fresh
    /\ fresh' = fresh \ {c}
    /\ backlog' = backlog \cup {c}
    /\ UNCHANGED <<table, left, data, spoke, clients, holder, evs, io, snd, bc,
                   asked, recvq, sendq, bcasts, fails, raced>>

Ask(c) ==
    /\ Online(c)
    /\ c \notin left \cup spoke
    /\ spoke' = spoke \cup {c}
    /\ data' = data \cup {c}
    /\ UNCHANGED <<table, fresh, backlog, left, clients, holder, evs, io, snd,
                   bc, asked, recvq, sendq, bcasts, fails, raced>>

Leave(c) ==
    /\ Online(c)
    /\ c \notin left
    /\ left' = left \cup {c}
    /\ UNCHANGED <<table, fresh, backlog, data, spoke, clients, holder, evs, io,
                   snd, bc, asked, recvq, sendq, bcasts, fails, raced>>

-----------------------------------------------------------------------------
(* cleanup_connection.  Closing a descriptor that is not open does         *)
(* nothing.                                                                *)

Close(fd) ==
    /\ table' = IF fd \in Fds THEN [table EXCEPT ![fd] = NoConn] ELSE table
    /\ data' = IF fd \in Fds THEN data \ {table[fd]} ELSE data

\* The first element equal to fd is overwritten by the last one.
RemoveFirst(s, fd) ==
    IF \A i \in DOMAIN s : s[i] # fd THEN s
    ELSE LET i == CHOOSE i \in DOMAIN s :
                     s[i] = fd /\ \A j \in 1 .. i-1 : s[j] # fd
         IN  SubSeq([s EXCEPT ![i] = s[Len(s)]], 1, Len(s) - 1)

-----------------------------------------------------------------------------
(* io_loop                                                                 *)

Ready ==
    [fd : {f \in Fds : table[f] \in left}, kind : {"in", "hup"}]
        \cup [fd : {f \in Fds : table[f] \in data}, kind : {"in"}]
        \cup [fd : {BadFd}, kind : {"listen" : c \in backlog}]

\* epoll_wait: a batch of ready descriptors, each with one event word.
EpollWait ==
    /\ io.at = "loop"
    /\ evs = {}
    /\ evs' \in SUBSET Ready \ {{}}
    /\ \A e, f \in evs' : e.fd = f.fd => e = f
    /\ UNCHANGED <<kernel, clients, holder, io, snd, bc, asked, recvq, sendq,
                   bcasts, raced>>

Handling(e) ==
    /\ io.at = "loop"
    /\ e \in evs
    /\ evs' = evs \ {e}

\* accept and epoll_ctl
IoAccept(e, c, f) ==
    /\ Handling(e)
    /\ e.kind = "listen"
    /\ c \in backlog
    /\ table[f] = NoConn
    /\ backlog' = backlog \ {c}
    /\ table' = [table EXCEPT ![f] = c]
    /\ io' = [at |-> "register", fd |-> f, from |-> c]
    /\ raced' = raced \cup ({f} \cap {snd.fd})
    /\ UNCHANGED <<fresh, left, data, spoke, clients, holder, snd, bc, asked,
                   recvq, sendq, bcasts, fails>>

\* accept returns -1, which nobody checks: it is registered like a descriptor.
\* With no descriptors (EMFILE, ENFILE) the connection stays in the backlog and
\* the next epoll_wait reports it again; an aborted one has left the backlog.
IoAcceptFails(e) ==
    /\ fails < MaxFails
    /\ Handling(e)
    /\ e.kind = "listen"
    /\ fails' = fails + 1
    /\ \/ UNCHANGED <<backlog, left>>
       \/ \E c \in backlog : backlog' = backlog \ {c} /\ left' = left \cup {c}
    /\ io' = [at |-> "register", fd |-> BadFd, from |-> NoConn]
    /\ UNCHANGED <<table, fresh, data, spoke, clients, holder, snd, bc, asked,
                   recvq, sendq, bcasts, raced>>

\* Fault: the slot of the last client is used again (clients_cnt not advanced).
RegisterOverwrites ==
    /\ io.at = "register"
    /\ MutexFree
    /\ clients' = IF clients = <<>> THEN <<io.fd>>
                  ELSE [clients EXCEPT ![Len(clients)] = io.fd]
    /\ io' = Looping
    /\ UNCHANGED <<kernel, holder, evs, snd, bc, asked, recvq, sendq, bcasts, raced>>

IoRegister ==
    /\ io.at = "register"
    /\ MutexFree
    /\ clients' = Append(clients, io.fd)
    /\ io' = Looping
    /\ UNCHANGED <<kernel, holder, evs, snd, bc, asked, recvq, sendq, bcasts, raced>>

IoRead(e) ==
    /\ Handling(e)
    /\ e.kind = "in"
    /\ table[e.fd] \in data
    /\ data' = data \ {table[e.fd]}
    /\ io' = [at |-> "push", fd |-> e.fd, from |-> table[e.fd]]
    /\ UNCHANGED <<table, fresh, backlog, left, spoke, clients, holder, snd, bc,
                   asked, recvq, sendq, bcasts, fails, raced>>

\* rb_push on recv_q
IoPush ==
    /\ io.at = "push"
    /\ Len(recvq) < RecvCap
    /\ recvq' = Append(recvq, [fd |-> io.fd, from |-> io.from])
    /\ io' = Looping
    /\ UNCHANGED <<kernel, clients, holder, evs, snd, bc, asked, sendq, bcasts, raced>>

\* EPOLLHUP or EPOLLERR, or a read that returns 0 (end of stream) or -1
\* (EAGAIN, or closed meanwhile by send_loop): cleanup_connection, close.
IoClose(e) ==
    /\ Handling(e)
    /\ \/ e.kind = "hup"
       \/ e.kind = "in" /\ table[e.fd] \notin data
    /\ Close(e.fd)
    /\ io' = [at |-> "remove", fd |-> e.fd, from |-> NoConn]
    /\ UNCHANGED <<fresh, backlog, left, spoke, clients, holder, snd, bc, asked,
                   recvq, sendq, bcasts, fails, raced>>

IoRemove ==
    /\ io.at = "remove"
    /\ MutexFree
    /\ clients' = RemoveFirst(clients, io.fd)
    /\ io' = Looping
    /\ UNCHANGED <<kernel, holder, evs, snd, bc, asked, recvq, sendq, bcasts, raced>>

IoStep ==
    \/ EpollWait
    \/ \E e \in evs :
          \/ \E c \in Conns, f \in Fds : IoAccept(e, c, f)
          \/ IoAcceptFails(e)
          \/ IoRead(e)
          \/ IoClose(e)
    \/ IoRegister
    \/ IoPush
    \/ IoRemove

-----------------------------------------------------------------------------
(* worker_loop, and the request handler that answers                       *)

WorkerTakes ==
    /\ recvq # <<>>
    /\ asked' = asked \cup {Head(recvq)}
    /\ recvq' = Tail(recvq)
    /\ UNCHANGED <<kernel, clients, holder, evs, io, snd, bc, sendq, bcasts, raced>>

\* Fault: the answer goes to the client that connected last.
AnswersLastClient(r) ==
    /\ r \in asked
    /\ Len(sendq) < SendCap
    /\ asked' = asked \ {r}
    /\ clients # <<>>
    /\ sendq' = Append(sendq, [fd |-> clients[Len(clients)], to |-> r.from])
    /\ UNCHANGED <<kernel, clients, holder, evs, io, snd, bc, recvq, bcasts, raced>>

\* SgTcpServer_send to the descriptor the request came from.
SgTcpServer_send(r) ==
    /\ r \in asked
    /\ Len(sendq) < SendCap
    /\ asked' = asked \ {r}
    /\ sendq' = Append(sendq, [fd |-> r.fd, to |-> r.from])
    /\ UNCHANGED <<kernel, clients, holder, evs, io, snd, bc, recvq, bcasts, raced>>

-----------------------------------------------------------------------------
(* SgTcpServer_broadcast                                                   *)

BroadcastLock ==
    /\ bc = 0
    /\ MutexFree
    /\ bcasts < MaxBcasts
    /\ bcasts' = bcasts + 1
    /\ holder' = "broadcast"
    /\ bc' = 1
    /\ UNCHANGED <<kernel, clients, evs, io, snd, asked, recvq, sendq, raced>>

Meant(fd) == IF fd \in Fds THEN table[fd] ELSE NoConn

\* Fault: the index is not advanced.
BroadcastRepeats ==
    /\ bc \in 1 .. Len(clients)
    /\ Len(sendq) < SendCap
    /\ sendq' = Append(sendq, [fd |-> clients[bc], to |-> Meant(clients[bc])])
    /\ UNCHANGED <<kernel, clients, holder, evs, io, snd, bc, asked, recvq, bcasts,
                   raced>>

\* SgTcpServer_send(clients[i]) blocks, clients_mtx held, while send_q is full.
BroadcastPush ==
    /\ bc \in 1 .. Len(clients)
    /\ Len(sendq) < SendCap
    /\ sendq' = Append(sendq, [fd |-> clients[bc], to |-> Meant(clients[bc])])
    /\ bc' = bc + 1
    /\ UNCHANGED <<kernel, clients, holder, evs, io, snd, asked, recvq, bcasts, raced>>

\* Fault: the mutex is not released.
BroadcastKeepsLock ==
    /\ bc > Len(clients)
    /\ bc' = 0
    /\ UNCHANGED <<kernel, clients, holder, evs, io, snd, asked, recvq, sendq, bcasts,
                   raced>>

BroadcastUnlock ==
    /\ bc > Len(clients)
    /\ holder' = "none"
    /\ bc' = 0
    /\ UNCHANGED <<kernel, clients, evs, io, snd, asked, recvq, sendq, bcasts, raced>>

-----------------------------------------------------------------------------
(* send_loop                                                               *)

SendReady == snd.at = "pop" /\ sendq # <<>>

\* send() accepts the data; if the peer has left they are lost.
SendOk ==
    /\ SendReady
    /\ Meant(Head(sendq).fd) # NoConn
    /\ sendq' = Tail(sendq)
    /\ UNCHANGED <<kernel, clients, holder, evs, io, snd, bc, asked, recvq, bcasts,
                   raced>>

\* send() returns -1: not open, reset by the peer, or EAGAIN because the
\* client does not read fast enough.
SendFails ==
    /\ SendReady
    /\ sendq' = Tail(sendq)
    /\ snd' = [at |-> "close", fd |-> Head(sendq).fd]
    /\ raced' = IF io.at = "register"
                THEN raced \cup ({io.fd} \cap {Head(sendq).fd} \cap Fds)
                ELSE raced
    /\ UNCHANGED <<kernel, clients, holder, evs, io, bc, asked, recvq, bcasts>>

\* Fault: the descriptor is closed but stays in the array.
SendCloseOnly ==
    /\ snd.at = "close"
    /\ Close(snd.fd)
    /\ snd' = Popping
    /\ UNCHANGED <<fresh, backlog, left, spoke, clients, holder, evs, io, bc,
                   asked, recvq, sendq, bcasts, fails, raced>>

SendClose ==
    /\ snd.at = "close"
    /\ Close(snd.fd)
    /\ snd' = [snd EXCEPT !.at = "remove"]
    /\ UNCHANGED <<fresh, backlog, left, spoke, clients, holder, evs, io, bc,
                   asked, recvq, sendq, bcasts, fails, raced>>

SendRemove ==
    /\ snd.at = "remove"
    /\ MutexFree
    /\ clients' = RemoveFirst(clients, snd.fd)
    /\ snd' = Popping
    /\ UNCHANGED <<kernel, holder, evs, io, bc, asked, recvq, sendq, bcasts, raced>>

SendStep == SendOk \/ SendFails \/ SendClose \/ SendRemove

-----------------------------------------------------------------------------
Next ==
    \/ \E c \in Conns : Connect(c) \/ Ask(c) \/ Leave(c)
    \/ IoStep
    \/ WorkerTakes
    \/ \E r \in asked : SgTcpServer_send(r)
    \/ BroadcastLock \/ BroadcastPush \/ BroadcastUnlock
    \/ SendStep

Spec == Init /\ [][Next]_vars

\* The threads keep running and a broadcast that is under way goes on when it
\* can; nothing makes a client connect, ask or leave, or a broadcast begin.
Fairness ==
    /\ WF_vars(IoStep)
    /\ WF_vars(WorkerTakes)
    /\ \A r \in Request : WF_vars(SgTcpServer_send(r))
    /\ WF_vars(BroadcastPush \/ BroadcastUnlock)
    /\ WF_vars(SendStep)

FairSpec == Spec /\ Fairness

-----------------------------------------------------------------------------
(* Properties                                                              *)

Listed(fd) == \E i \in DOMAIN clients : clients[i] = fd

\* "All clients online" (sg-tcp.h:36, :38): a connection that is open and
\* whose registration is complete is in the array, so broadcasts reach it.
OnlineListed ==
    \A f \in Fds : table[f] # NoConn =>
        Listed(f) \/ (io.at = "register" /\ io.fd = f)

\* The one way to lose a client: send_loop was cleaning up the number that
\* io_loop got from accept.  Any other number that is open is in the array,
\* however the threads' clean-ups and the kernel's reuse of numbers interleave.
ListedUnlessRaced ==
    \A f \in Fds \ raced : table[f] # NoConn =>
        Listed(f) \/ (io.at = "register" /\ io.fd = f)

\* The array holds such a number once, and only while it is open or a thread is
\* between closing and removing it, although both threads may clean it up.
\* (The -1 of a failed accept stays until a send to it fails.)
NoGhosts ==
    \A i \in DOMAIN clients : clients[i] \in Fds \ raced =>
        /\ \A j \in DOMAIN clients : clients[j] = clients[i] => j = i
        /\ \/ table[clients[i]] # NoConn
           \/ io.at = "remove" /\ io.fd = clients[i]
           \/ snd.at = "remove" /\ snd.fd = clients[i]

\* "Send data to a single client" (sg-tcp.h:34): what was meant for one
\* connection is not sent to another.
RightRecipient ==
    [][SendOk => Head(sendq).to \in {NoConn, Meant(Head(sendq).fd)}]_vars

\* A message goes to another connection only when its own is gone: while the
\* client is connected nobody else gets what it asked for or was broadcast,
\* whatever numbers the kernel reuses meanwhile.
OnlyClosedGoAstray ==
    [][SendOk => \/ Head(sendq).to \in {NoConn, Meant(Head(sendq).fd)}
                 \/ ~Online(Head(sendq).to)]_vars

\* The deadlock of a broadcast that waits for room in send_q with clients_mtx
\* and of send_loop, which waits for clients_mtx and makes no room.
SendStuck ==
    /\ holder = "broadcast"
    /\ bc \in 1 .. Len(clients)
    /\ Len(sendq) = SendCap
    /\ snd.at = "remove"

\* A broadcast comes to its end ("broadcast to all clients online",
\* sg-tcp.h:36), even if clients leave or stop reading while it runs.
BroadcastReturns == (bc # 0) ~> (bc = 0)

\* A broadcast comes to its end in all cases but that one.
BroadcastEnds == (bc # 0) ~> (bc = 0 \/ SendStuck)

\* A connection that waits is accepted, if accept does not fail for ever and
\* the peer does not give up, in all cases but that one: no other interplay of
\* clients, broadcasts, failed accepts and the send thread holds io_loop up.
ConnectsServed ==
    \A c \in Conns : (c \in backlog) ~> (Online(c) \/ c \in left \/ SendStuck)

=============================================================================
