--------------------------- MODULE BinCountProofs ---------------------------
(***************************************************************************)
(* Proofs about BinCount for every set of clients, every bound and every   *)
(* kind of file fault: the inductive invariant is TypeOK, SectionInv and   *)
(* VisibleIsDurable together.  It says who is in the critical section in   *)
(* any case, and what the file holds as long as no operation has failed.   *)
(***************************************************************************)
EXTENDS BinCount, TLAPS

\* A write that does not fail takes effect, and failures are never forgotten.
LEMMA WriteFacts ==
    ASSUME NEW v \in Nat, NEW before \in SUBSET Faults, TypeOK,
           write_bincount_to_file(v, before)
    PROVE  /\ failed' \in SUBSET Faults
           /\ file' \in Nat \cup {NoFile}
           /\ failed' = {} => file' = v /\ before = {}
BY DEF write_bincount_to_file, TypeOK, NoFile

\* A read that does not fail returns the file, if there is one.
LEMMA ReadFacts ==
    ASSUME TypeOK, read_bincount_from_file
    PROVE  /\ failed' \in SUBSET Faults
           /\ bincount' \in Nat
           /\ failed' = {} => failed = {} /\ (file # NoFile => bincount' = file)
BY DEF read_bincount_from_file, TypeOK, NoFile

\* The initial states satisfy the invariant.
LEMMA InvInit == Init => CountInv
<1> SUFFICES ASSUME Init PROVE CountInv
  OBVIOUS
<1>1. TypeOK
  <2>1. file \in Nat \cup {NoFile}
    BY BinAssumption DEF Init, Count
  <2>2. issued \subseteq Nat /\ todo \subseteq Clients /\ failed \subseteq Faults
    BY DEF Init
  <2> QED BY <2>1, <2>2 DEF Init, TypeOK, Actors
<1>2. SectionInv
  BY DEF Init, SectionInv, FileInv, InSection, Actors
<1> QED BY <1>1, <1>2 DEF Init, CountInv, VisibleIsDurable

\* Booting and dying: only the file survives, and it is never behind an
\* issued lift id.
LEMMA InvBootCrash ==
    ASSUME CountInv, Boot \/ Crash
    PROVE  CountInv'
<1> USE DEF CountInv, TypeOK, SectionInv, FileInv, VisibleIsDurable, InSection, Actors, NoFile
<1>1. CASE Boot
  <2>1. 0 \in Nat /\ failed \in SUBSET Faults
    OBVIOUS
  <2>2. CASE file # NoFile /\ bincount' = file /\ UNCHANGED <<file, failed>>
    BY <1>1, <2>2 DEF Boot
  <2>3. CASE file = NoFile /\ bincount' = 0 /\ write_bincount_to_file(0, failed)
    BY <1>1, <2>1, <2>3, WriteFacts DEF Boot
  <2>4. CASE /\ "read" \in Faults
             /\ bincount' = 0
             /\ write_bincount_to_file(0, failed \cup {"read"})
    <3>1. /\ failed' \in SUBSET Faults
          /\ file' \in Nat \cup {NoFile}
          /\ failed' # {}
      BY <2>1, <2>4, WriteFacts
    <3> QED BY <1>1, <2>4, <3>1 DEF Boot
  <2> QED BY <1>1, <2>2, <2>3, <2>4 DEF Boot
<1>2. CASE Crash
  BY <1>2 DEF Crash
<1> QED BY <1>1, <1>2

\* The bin-lift branch of gpio_change_callback.
LEMMA InvGpio ==
    ASSUME CountInv,
           \/ GpioLock \/ GpioInc \/ GpioWrite \/ GpioFormat
           \/ GpioBroadcast \/ GpioList \/ \E c \in Clients : GpioPend(c)
    PROVE  CountInv'
<1> USE DEF CountInv, TypeOK, SectionInv, FileInv, VisibleIsDurable, InSection, Actors, NoFile, Goto
<1>1. CASE GpioLock
  BY <1>1 DEF GpioLock, Acquire
<1>2. CASE GpioInc
  BY <1>2 DEF GpioInc
<1>3. CASE GpioWrite
  BY <1>3, WriteFacts DEF GpioWrite
<1>4. CASE GpioFormat
  BY <1>4 DEF GpioFormat
<1>5. CASE GpioBroadcast
  BY <1>5 DEF GpioBroadcast
<1>6. CASE GpioList
  BY <1>6 DEF GpioList, Remaining
<1>7. CASE \E c \in Clients : GpioPend(c)
  BY <1>7 DEF GpioPend, Remaining
<1> QED BY <1>1, <1>2, <1>3, <1>4, <1>5, <1>6, <1>7

\* bin_clr_handler.
LEMMA InvClr ==
    ASSUME CountInv,
           ClrLock \/ ClrZero \/ ClrWrite \/ ClrRead \/ ClrFormat \/ ClrBroadcast
    PROVE  CountInv'
<1> USE DEF CountInv, TypeOK, SectionInv, FileInv, VisibleIsDurable, InSection, Actors, NoFile, Goto
<1>1. CASE ClrLock
  BY <1>1 DEF ClrLock, Acquire
<1>2. CASE ClrZero
  BY <1>2 DEF ClrZero
<1>3. CASE ClrWrite
  <2>1. /\ failed' \in SUBSET Faults
        /\ file' \in Nat \cup {NoFile}
        /\ failed' = {} => file' = bincount /\ failed = {}
    BY <1>3, WriteFacts DEF ClrWrite
  <2>2. pc'["clr"] = "read" /\ \A t \in Actors \ {"clr"} : pc'[t] = pc[t]
    BY <1>3 DEF ClrWrite
  <2>3. TypeOK'
    BY <1>3, <2>1 DEF ClrWrite
  <2>4. SectionInv'
    <3>1. /\ up /\ UNCHANGED <<up, mutex, bincount>>
          /\ mutex = "clr"
          /\ pc["gpio"] \notin {"inc", "write", "format"}
          /\ pc["query"] # "format"
      BY <1>3 DEF ClrWrite
    <3>2. failed' = {} => file' = 0 /\ bincount' = 0
      BY <1>3, <2>1, <3>1 DEF ClrWrite
    <3>3. (failed = {} => FileInv)'
      BY <2>2, <3>1, <3>2
    <3>4. (\A t \in Actors : InSection(t) <=> mutex = t)'
      BY <1>3, <2>2, <3>1 DEF ClrWrite
    <3> QED BY <1>3, <2>2, <3>1, <3>3, <3>4 DEF ClrWrite
  <2>5. VisibleIsDurable'
    BY <1>3, <2>1 DEF ClrWrite
  <2> QED BY <2>3, <2>4, <2>5
<1>4. CASE ClrRead
  BY <1>4, ReadFacts DEF ClrRead
<1>5. CASE ClrFormat
  BY <1>5 DEF ClrFormat
<1>6. CASE ClrBroadcast
  BY <1>6 DEF ClrBroadcast
<1> QED BY <1>1, <1>2, <1>3, <1>4, <1>5, <1>6

\* bin_query_handler.
LEMMA InvQuery ==
    ASSUME CountInv, QueryLock \/ QueryFormat \/ QuerySend
    PROVE  CountInv'
<1> USE DEF CountInv, TypeOK, SectionInv, FileInv, VisibleIsDurable, InSection, Actors, NoFile, Goto
<1>1. CASE QueryLock
  BY <1>1 DEF QueryLock, Acquire
<1>2. CASE QueryFormat
  BY <1>2 DEF QueryFormat
<1>3. CASE QuerySend
  BY <1>3 DEF QuerySend
<1> QED BY <1>1, <1>2, <1>3

\* Every step preserves the invariant.
LEMMA InvStep ==
    ASSUME CountInv, [Next]_vars
    PROVE  CountInv'
<1>1. CASE Next
  BY <1>1, InvBootCrash, InvGpio, InvClr, InvQuery DEF Next, CounterStep
<1>2. CASE UNCHANGED vars
  BY <1>2 DEF vars, CountInv, TypeOK, SectionInv, FileInv, VisibleIsDurable, InSection
<1> QED BY <1>1, <1>2

\* At most one thread is between lock and unlock of bincount_mutex, and while
\* no file operation fails the file holds the count whenever the mutex is free.
THEOREM CountInvariant == Spec => []CountInv
<1>1. CountInv /\ [Next]_vars => CountInv'
  BY InvStep
<1> QED BY InvInit, <1>1, PTL DEF Spec

\* While no file operation fails a lift id is in the file before it leaves the
\* critical section: whatever the interleaving of the GPIO callback and the
\* request handlers, and wherever the process is killed.
THEOREM CountIsDurable == Spec => []VisibleIsDurable
<1>1. CountInv => VisibleIsDurable
  BY DEF CountInv
<1> QED BY CountInvariant, <1>1, PTL

\* gpio_change_callback never assembles a message with a lift id it has given
\* out since the last clear, restarts included.
THEOREM LiftIdsAreFresh == Spec => LiftIdsFresh
<1>1. CountInv /\ [Next]_vars => CountInv'
  BY InvStep
<1>2. CountInv /\ [Next]_vars
        => [failed = {} /\ pc["gpio"] = "format" /\ pc'["gpio"] = "bcast"
              => bincount \notin issued]_vars
  BY DEF CountInv, SectionInv, FileInv
<1> QED BY InvInit, <1>1, <1>2, PTL DEF Spec, LiftIdsFresh

-----------------------------------------------------------------------------
\* Only the clear changes the counter or the file while it is in its section.
LEMMA ClearAlone ==
    ASSUME CountInv, [Next]_vars, pc["clr"] \in {"write", "read", "format"}, up'
    PROVE  \/ ClrWrite \/ ClrRead \/ ClrFormat
           \/ pc'["clr"] = pc["clr"] /\ UNCHANGED <<bincount, file, failed>>
<1> USE DEF CountInv, TypeOK, SectionInv, InSection, Actors, Goto
<1>1. up /\ mutex = "clr" /\ pc["gpio"] \notin {"inc", "write", "format"}
         /\ pc["query"] # "format"
  OBVIOUS
<1>2. CASE UNCHANGED vars
  BY <1>2 DEF vars
<1>3. CASE CounterStep
  <2>1. ~Boot /\ ~GpioLock /\ ~GpioInc /\ ~GpioWrite /\ ~GpioFormat
    BY <1>1 DEF Boot, GpioLock, GpioInc, GpioWrite, GpioFormat, Acquire
  <2>2. ~ClrLock /\ ~ClrZero /\ ~ClrBroadcast /\ ~QueryLock /\ ~QueryFormat
    BY <1>1 DEF ClrLock, ClrZero, ClrBroadcast, QueryLock, QueryFormat, Acquire
  <2>3. CASE GpioBroadcast \/ QuerySend
    BY <2>3 DEF GpioBroadcast, QuerySend
  <2>4. CASE GpioList
    BY <2>4 DEF GpioList, Remaining
  <2> QED BY <1>3, <2>1, <2>2, <2>3, <2>4 DEF CounterStep
<1>4. CASE \E c \in Clients : GpioPend(c)
  BY <1>4 DEF GpioPend, Remaining
<1>5. CASE Crash
  BY <1>5 DEF Crash
<1> QED BY <1>2, <1>3, <1>4, <1>5 DEF Next

\* What the clear has in hand is preserved, whichever file operation fails.
LEMMA ClearInvStep ==
    ASSUME CountInv, ClearInv, [Next]_vars
    PROVE  ClearInv'
<1>1. CASE pc["clr"] \in {"write", "read", "format"} /\ up'
  <2>1. CASE ClrWrite
    BY <1>1, <2>1 DEF CountInv, TypeOK, ClearInv, ClrWrite, Goto, Actors
  <2>2. CASE ClrRead
    BY <1>1, <2>2 DEF CountInv, TypeOK, ClearInv, ClrRead, Goto, Actors, Resumed,
                      read_bincount_from_file
  <2>3. CASE ClrFormat
    BY <1>1, <2>3 DEF CountInv, TypeOK, ClearInv, ClrFormat, Goto, Actors
  <2>4. CASE pc'["clr"] = pc["clr"] /\ UNCHANGED <<bincount, file, failed>>
    BY <2>4 DEF ClearInv, Resumed
  <2> QED BY <1>1, <2>1, <2>2, <2>3, <2>4, ClearAlone
<1>2. CASE pc["clr"] = "zero" /\ up' /\ ClrZero
  BY <1>2 DEF CountInv, TypeOK, ClearInv, ClrZero, Goto, Actors
<1>3. CASE pc["clr"] \notin {"write", "read", "format"} /\ ~ClrZero
  <2>1. pc'["clr"] \notin {"write", "read", "format"}
    BY <1>3 DEF CountInv, TypeOK, Actors, Next, CounterStep, vars, Goto, Acquire, Remaining,
      Boot, Crash, GpioLock, GpioInc, GpioWrite, GpioFormat, GpioBroadcast, GpioList,
      GpioPend, ClrLock, ClrWrite, ClrRead, ClrFormat, ClrBroadcast,
      QueryLock, QueryFormat, QuerySend
  <2> QED BY <2>1 DEF ClearInv
<1>4. CASE ~up'
  <2>1. pc'["clr"] = "idle"
    BY <1>4, InvStep DEF CountInv, SectionInv, Actors
  <2> QED BY <2>1 DEF ClearInv
<1> QED BY <1>1, <1>2, <1>3, <1>4 DEF ClrZero

\* The count a clear announces is the one a restart resumes from, also when
\* writes of binrecord.bin fail.
THEOREM ClearsAgree == Spec => ClearAgrees
<1>1. Init => ClearInv
  BY DEF Init, ClearInv, Actors
<1>2. CountInv /\ [Next]_vars => CountInv'
  BY InvStep
<1>3. CountInv /\ ClearInv /\ [Next]_vars => ClearInv'
  BY ClearInvStep
<1>4. CountInv /\ ClearInv /\ [Next]_vars
        => [pc["clr"] = "format" /\ pc'["clr"] = "bcast" /\ "read" \notin failed
              => msg'["clr"] = Resumed]_vars
  <2> SUFFICES ASSUME CountInv, ClearInv, [Next]_vars,
                      pc["clr"] = "format", pc'["clr"] = "bcast", "read" \notin failed
               PROVE  msg'["clr"] = Resumed
    OBVIOUS
  <2>1. up'
    BY InvStep DEF CountInv, SectionInv, Actors
  <2>2. ClrFormat
    BY <2>1, ClearAlone DEF ClrWrite, ClrRead
  <2> QED BY <2>2 DEF ClrFormat, ClearInv, CountInv, TypeOK, Actors
<1> QED BY InvInit, <1>1, <1>2, <1>3, <1>4, PTL DEF Spec, ClearAgrees

-----------------------------------------------------------------------------
\* The count in memory and the one in the file are counts up to the bound; the
\* callback only starts to count up below it, and nobody counts meanwhile.
InBounds ==
    /\ bincount \in Count
    /\ file \in Count \cup {NoFile}
    /\ pc["gpio"] = "inc" => bincount < MaxBin

\* Counting up needs the mutex, so the count is still below the bound.
LEMMA BoundsStep ==
    ASSUME CountInv, InBounds, [Next]_vars
    PROVE  InBounds'
<1>1. /\ 0 \in Count /\ MaxBin \in Nat
      /\ \A n \in Count : n < MaxBin => n + 1 \in Count
  BY BinAssumption DEF Count
<1>2. pc \in [Actors -> {"idle", "inc", "zero", "write", "read", "format", "bcast", "list", "pend"}]
  BY DEF CountInv, TypeOK
<1>3. /\ "gpio" \in Actors /\ "clr" \in Actors /\ "query" \in Actors
      /\ \A t \in Actors : InSection(t) <=> mutex = t
  BY DEF Actors, CountInv, SectionInv
<1>4. CASE Boot
  <2>1. pc' = pc /\ pc["gpio"] = "idle"
    BY <1>3, <1>4 DEF Boot, CountInv, SectionInv
  <2>2. bincount' \in Count /\ file' \in Count \cup {NoFile}
    BY <1>1, <1>4 DEF Boot, InBounds, write_bincount_to_file
  <2> QED BY <2>1, <2>2 DEF InBounds
<1>5. CASE Crash
  BY <1>1, <1>3, <1>5 DEF Crash, InBounds
<1>6. CASE GpioLock
  BY <1>2, <1>3, <1>6 DEF GpioLock, Acquire, Goto, InBounds
<1>7. CASE GpioInc
  BY <1>1, <1>2, <1>3, <1>7 DEF GpioInc, Goto, InBounds
<1>8. CASE GpioWrite
  BY <1>2, <1>3, <1>8 DEF GpioWrite, Goto, InBounds, write_bincount_to_file
<1>9. CASE GpioFormat \/ GpioBroadcast \/ GpioList \/ \E c \in Clients : GpioPend(c)
  BY <1>2, <1>3, <1>9 DEF GpioFormat, GpioBroadcast, GpioList, GpioPend, Remaining, Goto, InBounds
<1>10. CASE ClrLock \/ ClrFormat \/ ClrBroadcast \/ QueryLock \/ QueryFormat \/ QuerySend
  BY <1>2, <1>3, <1>10 DEF ClrLock, ClrFormat, ClrBroadcast, QueryLock, QueryFormat, QuerySend,
     Acquire, Goto, InBounds
<1>11. CASE ClrZero \/ ClrWrite \/ ClrRead
  <2>1. pc["gpio"] # "inc" /\ pc'["gpio"] = pc["gpio"]
    BY <1>2, <1>3, <1>11 DEF ClrZero, ClrWrite, ClrRead, Goto, InSection
  <2>2. bincount' \in Count /\ file' \in Count \cup {NoFile}
    BY <1>1, <1>11 DEF ClrZero, ClrWrite, ClrRead, InBounds, write_bincount_to_file,
       read_bincount_from_file
  <2> QED BY <2>1, <2>2 DEF InBounds
<1>12. CASE UNCHANGED vars
  BY <1>12 DEF vars, InBounds
<1> QED BY <1>4, <1>5, <1>6, <1>7, <1>8, <1>9, <1>10, <1>11, <1>12 DEF Next, CounterStep

\* The count is within its bound at every point, also where the callback reads it
\* for add_pending without the mutex.
THEOREM CountStaysInBounds == Spec => []InBounds
<1>1. Init => InBounds
  BY BinAssumption DEF Init, InBounds, Count, Actors
<1>2. CountInv /\ InBounds /\ [Next]_vars => InBounds'
  BY BoundsStep
<1> QED BY <1>1, <1>2, CountInvariant, PTL DEF Spec

=============================================================================
