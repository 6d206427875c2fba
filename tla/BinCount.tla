------------------------------ MODULE BinCount ------------------------------
(***************************************************************************)
(* The bin counter: the global bincount of main.c, its copy in the file    *)
(* binrecord.bin, bincount_mutex, and the three threads that use them:     *)
(*   "gpio"   gpio_change_callback, run by the GPIO monitor on a bin lift, *)
(*   "clr"    bin_clr_handler, on a client's {CLR?;},                      *)
(*   "query"  bin_query_handler, on a client's {BIN?;}.                    *)
(* A thread holds the mutex from its "lock" step to its format step; what  *)
(* it does afterwards (broadcast, pending list) it does unlocked.  The     *)
(* process may be killed between any two steps (killall, SIGPIPE, a        *)
(* watchdog) and booted again; the file survives.                          *)
(*                                                                         *)
(* Abstracted: the text of the messages (a message is the count it         *)
(* carries), and SgTcpServer_get_clients (any set of clients, see          *)
(* TcpServer).  The int's overflow at 2^31 lifts is out of reach.          *)
(***************************************************************************)
EXTENDS Integers

CONSTANTS Clients,   \* client file descriptors
          MaxBin,    \* bound on bincount, for TLC
          Faults     \* the file operations that may fail: "read", "write"

NoFile  == -1        \* the file is missing or too short to hold an int

ASSUME BinAssumption ==
    /\ MaxBin \in Nat
    /\ Faults \subseteq {"read", "write"}

Actors == {"gpio", "clr", "query"}

VARIABLES up,        \* the process is running
          bincount,  \* the counter in memory
          file,      \* the counter in binrecord.bin, or NoFile
          mutex,     \* the thread that holds bincount_mutex, or "none"
          pc,        \* pc[t]: where thread t is
          msg,       \* msg[t]: the count in the message t has assembled
          todo,      \* clients for which the callback must still add_pending
          issued,    \* history: lift ids assembled since the last clear
          failed     \* history: kinds of file operations that have failed

vars == <<up, bincount, file, mutex, pc, msg, todo, issued, failed>>

Count == 0 .. MaxBin

TypeOK ==
    /\ up \in BOOLEAN
    /\ bincount \in Nat
    /\ file \in Nat \cup {NoFile}
    /\ mutex \in Actors \cup {"none"}
    /\ pc \in [Actors -> {"idle", "inc", "zero", "write", "read", "format",
                          "bcast", "list", "pend"}]
    /\ msg \in [Actors -> Nat]
    /\ todo \subseteq Clients
    /\ issued \subseteq Nat
    /\ failed \subseteq Faults

\* The device is switched on for the first time, or with the file an earlier
\* installation left.
Init ==
    /\ up = FALSE
    /\ bincount = 0
    /\ file \in Count \cup {NoFile}
    /\ mutex = "none"
    /\ pc = [t \in Actors |-> "idle"]
    /\ msg = [t \in Actors |-> 0]
    /\ todo = {}
    /\ issued = {}
    /\ failed = {}

-----------------------------------------------------------------------------
(* write_bincount_to_file and read_bincount_from_file.  The write is one   *)
(* 4-byte write at fclose.  A failed write leaves the file as it was, or   *)
(* empty when opening with "rb+" has failed too, since "wb+" truncates it; *)
(* it may not even be reported (fclose is unchecked).  A failed read       *)
(* leaves the caller's variable as it was.                                 *)

\* before: the failures recorded before this write.
write_bincount_to_file(v, before) ==
    \/ file' = v /\ failed' = before
    \/ /\ "write" \in Faults
       /\ file' \in {file, NoFile}
       /\ failed' = before \cup {"write"}

read_bincount_from_file ==
    \/ bincount' = (IF file = NoFile THEN bincount ELSE file) /\ UNCHANGED failed
    \/ "read" \in Faults /\ UNCHANGED bincount /\ failed' = failed \cup {"read"}

Goto(t, place) == pc' = [pc EXCEPT ![t] = place]

Acquire(t, place) ==
    /\ up
    /\ pc[t] = "idle"
    /\ mutex = "none"
    /\ mutex' = t
    /\ Goto(t, place)

\* main, lines 84-87: the counter is read, or the file created with 0.
Boot ==
    /\ ~up
    /\ up' = TRUE
    /\ \/ file # NoFile /\ bincount' = file /\ UNCHANGED <<file, failed>>
       \/ file = NoFile /\ bincount' = 0 /\ write_bincount_to_file(0, failed)
       \/ /\ "read" \in Faults
          /\ bincount' = 0
          /\ write_bincount_to_file(0, failed \cup {"read"})
    /\ UNCHANGED <<mutex, pc, msg, todo, issued>>

\* The process dies: its memory, its threads and its connections are gone.
Crash ==
    /\ up
    /\ up' = FALSE
    /\ bincount' = 0
    /\ mutex' = "none"
    /\ pc' = [t \in Actors |-> "idle"]
    /\ msg' = [t \in Actors |-> 0]
    /\ todo' = {}
    /\ UNCHANGED <<file, issued, failed>>

-----------------------------------------------------------------------------
(* gpio_change_callback, the bin-lift branch                               *)

GpioLock ==
    /\ bincount < MaxBin
    /\ Acquire("gpio", "inc")
    /\ UNCHANGED <<up, bincount, file, msg, todo, issued, failed>>

GpioInc ==
    /\ pc["gpio"] = "inc"
    /\ bincount' = bincount + 1
    /\ Goto("gpio", "write")
    /\ UNCHANGED <<up, file, mutex, msg, todo, issued, failed>>

\* Fault: the callback does not save the new count.
GpioWriteSkipped ==
    /\ pc["gpio"] = "write"
    /\ Goto("gpio", "format")
    /\ UNCHANGED <<up, bincount, file, mutex, msg, todo, issued, failed>>

GpioWrite ==
    /\ pc["gpio"] = "write"
    /\ write_bincount_to_file(bincount, failed)
    /\ Goto("gpio", "format")
    /\ UNCHANGED <<up, bincount, mutex, msg, todo, issued>>

\* assemble_binlift_message, then unlock.
GpioFormat ==
    /\ pc["gpio"] = "format"
    /\ msg' = [msg EXCEPT !["gpio"] = bincount]
    /\ issued' = issued \cup {bincount}
    /\ mutex' = "none"
    /\ Goto("gpio", "bcast")
    /\ UNCHANGED <<up, bincount, file, todo, failed>>

\* SgTcpServer_broadcast returns.  It may wait long or for ever before (SgComm
\* says when it goes on); nothing here is held meanwhile.
GpioBroadcast ==
    /\ pc["gpio"] = "bcast"
    /\ Goto("gpio", "list")
    /\ UNCHANGED <<up, bincount, file, mutex, msg, todo, issued, failed>>

\* The callback goes on with the clients left; after the last one it frees
\* its message and returns.
Remaining(left) ==
    /\ todo' = left
    /\ Goto("gpio", IF left = {} THEN "idle" ELSE "pend")
    /\ msg' = IF left = {} THEN [msg EXCEPT !["gpio"] = 0] ELSE msg

\* SgTcpServer_get_clients
GpioList ==
    /\ pc["gpio"] = "list"
    /\ \E listed \in SUBSET Clients : Remaining(listed)
    /\ UNCHANGED <<up, bincount, file, mutex, issued, failed>>

\* One round of the loop over the clients: add_pending(c, msg, bincount).
GpioPend(c) ==
    /\ pc["gpio"] = "pend"
    /\ c \in todo
    /\ Remaining(todo \ {c})
    /\ UNCHANGED <<up, bincount, file, mutex, issued, failed>>

-----------------------------------------------------------------------------
(* bin_clr_handler                                                         *)

\* Fault: the handler does not take bincount_mutex.
ClrLockSkipped ==
    /\ up
    /\ pc["clr"] = "idle"
    /\ Goto("clr", "zero")
    /\ UNCHANGED <<up, bincount, file, mutex, msg, todo, issued, failed>>

ClrLock ==
    /\ Acquire("clr", "zero")
    /\ UNCHANGED <<up, bincount, file, msg, todo, issued, failed>>

ClrZero ==
    /\ pc["clr"] = "zero"
    /\ bincount' = 0
    /\ Goto("clr", "write")
    /\ UNCHANGED <<up, file, mutex, msg, todo, issued, failed>>

\* The clear takes effect once the file says 0.
ClrWrite ==
    /\ pc["clr"] = "write"
    /\ write_bincount_to_file(bincount, failed)
    /\ issued' = IF file' = 0 THEN {} ELSE issued
    /\ Goto("clr", "read")
    /\ UNCHANGED <<up, bincount, mutex, msg, todo>>

\* Fault: the count is not read back from the file.
ClrReadSkipped ==
    /\ pc["clr"] = "read"
    /\ Goto("clr", "format")
    /\ UNCHANGED <<up, bincount, file, mutex, msg, todo, issued, failed>>

ClrRead ==
    /\ pc["clr"] = "read"
    /\ read_bincount_from_file
    /\ Goto("clr", "format")
    /\ UNCHANGED <<up, file, mutex, msg, todo, issued>>

ClrFormat ==
    /\ pc["clr"] = "format"
    /\ msg' = [msg EXCEPT !["clr"] = bincount]
    /\ mutex' = "none"
    /\ Goto("clr", "bcast")
    /\ UNCHANGED <<up, bincount, file, todo, issued, failed>>

\* SgTcpServer_broadcast returns, as in GpioBroadcast.
ClrBroadcast ==
    /\ pc["clr"] = "bcast"
    /\ msg' = [msg EXCEPT !["clr"] = 0]
    /\ Goto("clr", "idle")
    /\ UNCHANGED <<up, bincount, file, mutex, todo, issued, failed>>

-----------------------------------------------------------------------------
(* bin_query_handler                                                       *)

QueryLock ==
    /\ Acquire("query", "format")
    /\ UNCHANGED <<up, bincount, file, msg, todo, issued, failed>>

QueryFormat ==
    /\ pc["query"] = "format"
    /\ msg' = [msg EXCEPT !["query"] = bincount]
    /\ mutex' = "none"
    /\ Goto("query", "bcast")
    /\ UNCHANGED <<up, bincount, file, todo, issued, failed>>

\* SgTcpServer_send to the client that asked.
QuerySend ==
    /\ pc["query"] = "bcast"
    /\ msg' = [msg EXCEPT !["query"] = 0]
    /\ Goto("query", "idle")
    /\ UNCHANGED <<up, bincount, file, mutex, todo, issued, failed>>

-----------------------------------------------------------------------------
\* The steps that concern the counter alone (all but add_pending and Crash).
CounterStep ==
    \/ Boot
    \/ GpioLock \/ GpioInc \/ GpioWrite \/ GpioFormat \/ GpioBroadcast \/ GpioList
    \/ ClrLock \/ ClrZero \/ ClrWrite \/ ClrRead \/ ClrFormat \/ ClrBroadcast
    \/ QueryLock \/ QueryFormat \/ QuerySend

Next ==
    \/ CounterStep
    \/ \E c \in Clients : GpioPend(c)
    \/ Crash

Spec == Init /\ [][Next]_vars

-----------------------------------------------------------------------------
(* Properties                                                              *)

\* Durable before visible: a lift id leaves the critical section only when it
\* is in the file, so after a crash at any point the counter is not behind an
\* id that may have reached a client.
VisibleIsDurable == failed = {} => \A n \in issued : n <= file

\* No lift id is given out twice before the next clear, crashes and restarts
\* included: the ids are what the clients acknowledge and deduplicate by
\* ("refid", "liftid").
LiftIdsFresh ==
    [][failed = {} /\ pc["gpio"] = "format" /\ pc'["gpio"] = "bcast"
           => bincount \notin issued]_vars

\* The inductive invariant behind the three: who holds the mutex, and, while
\* the file operations succeed, how far apart file and memory are at each
\* place inside the critical section.
InSection(t) == pc[t] \in {"inc", "zero", "write", "read", "format"}

FileInv ==
    /\ up => file # NoFile
    /\ up /\ mutex \in {"none", "query"} => bincount = file
    /\ pc["gpio"] = "inc"    => bincount = file
    /\ pc["gpio"] = "write"  => bincount = file + 1
    /\ pc["gpio"] = "format" => bincount = file /\ bincount \notin issued
    /\ pc["clr"] = "zero"    => bincount = file
    /\ pc["clr"] = "write"   => bincount = 0
    /\ pc["clr"] \in {"read", "format"} => bincount = 0 /\ file = 0

SectionInv ==
    /\ \A t \in Actors : InSection(t) <=> mutex = t
    /\ ~up => \A t \in Actors : pc[t] = "idle"
    /\ pc["query"] \in {"idle", "format", "bcast"}
    /\ pc["gpio"] \notin {"zero", "read"}
    /\ pc["clr"] # "inc"
    /\ failed = {} => FileInv

\* In any interleaving of lifts, clears, queries, deaths and restarts.
CountInv == TypeOK /\ SectionInv /\ VisibleIsDurable

\* The count a restart would resume from.
Resumed == IF file = NoFile THEN 0 ELSE file

\* A clear is all or nothing even when writes fail, which no caller of
\* write_bincount_to_file notices: the count announced afterwards is the one a
\* restart would resume from, since bin_clr_handler reads it back.  (Only a
\* failing read-back is not survived.)
ClearAgrees ==
    [][pc["clr"] = "format" /\ pc'["clr"] = "bcast" /\ "read" \notin failed
           => msg'["clr"] = Resumed]_vars


\* The inductive invariant behind it: what the clear has in hand.
ClearInv ==
    /\ pc["clr"] \in {"write", "read"} => bincount = 0
    /\ pc["clr"] = "format" /\ "read" \notin failed => bincount = Resumed

=============================================================================
