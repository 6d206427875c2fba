--------------------------- MODULE LifecycleProofs ---------------------------
(***************************************************************************)
(* Proofs about what main runs beside the server: the log, the shutdown,   *)
(* the boot and the GPIO monitor, for any threads, sizes and channels.     *)
(* Each part has an inductive invariant of its own: what the holder of     *)
(* log_mutex has found and printed, which objects a stage of the shutdown  *)
(* has freed and which threads it has joined, what a boot has read at each *)
(* of its steps, and what the change record of the monitor means.          *)
(***************************************************************************)
EXTENDS MCLifecycle, GpioMonitor, SequenceTheorems, TLAPS

-----------------------------------------------------------------------------
(* The log                                                                 *)

Piece   == (Loggers \cup {Nobody}) \X (1 .. Pieces)
AtPrint == {Steps[i] : i \in 1 .. 4}   \* including fflush

LogTypeOK ==
    /\ alive \in BOOLEAN
    /\ log_fp \in {"open", "NULL"}
    /\ log_file \in Seq(Piece)
    /\ linked \in BOOLEAN
    /\ buffer \in Seq(Piece)
    /\ mutex \in Loggers \cup {Nobody}
    /\ step \in [Loggers -> AtPrint \cup {"idle", "lock", "rotate", "unlock"}]

\* Only the holder of log_mutex is past the lock.
OneWriter ==
    \A t \in Loggers : step[t] \in AtPrint \cup {"rotate", "unlock"} => mutex = t

\* The buffer has what the writer has printed so far of its record.
BufferIsPrefix ==
    /\ \A t \in Loggers : \A i \in 1 .. 4 :
          step[t] = Steps[i] => /\ buffer = [k \in 1 .. i-1 |-> <<t, k>>]
                                /\ i > 1 => log_fp = "open"
    /\ (\A t \in Loggers : step[t] \notin AtPrint) => buffer = <<>>

\* What the writer has found of the size still holds when it prints.
SizeTested ==
    \A t \in Loggers :
        step[t] \in AtPrint /\ log_fp = "open" /\ linked => Len(log_file) < MaxSize

\* A process that has died has left log_write.
DeadAreIdle == ~alive => \A t \in Loggers : step[t] = "idle"

LogInv == LogTypeOK /\ OneWriter /\ BufferIsPrefix /\ SizeTested /\ DeadAreIdle
              /\ LogIsBounded /\ RecordsAreWhole

\* The order of the writes of log_write: three fprintf, then fflush.
LEMMA StepsAre ==
    /\ Steps[1] = "print1" /\ Steps[2] = "print2"
    /\ Steps[3] = "print3" /\ Steps[4] = "fflush"
    /\ AtPrint = {"print1", "print2", "print3", "fflush"}
BY DEF Steps, AtPrint

\* A new log satisfies the invariant, whatever file it finds.
LEMMA LogInvInit == LogInit => LogInv
<1> SUFFICES ASSUME LogInit PROVE LogInv
  OBVIOUS
<1>1. PICK n \in OldSizes : log_file = [i \in 1 .. n |-> Old]
  BY DEF LogInit
<1>2. n \in Nat /\ n <= MaxSize /\ MaxSize \in Nat
  BY LogAssumption
<1>3. Old \in Piece
  BY DEF Old, Piece, Pieces
<1>4. log_file \in Seq(Piece) /\ Len(log_file) = n
  BY <1>1, <1>2, <1>3
<1>5. LogTypeOK
  BY <1>4 DEF LogInit, LogTypeOK
<1>6. OneWriter /\ BufferIsPrefix /\ SizeTested /\ DeadAreIdle
  BY StepsAre DEF LogInit, OneWriter, BufferIsPrefix, SizeTested, DeadAreIdle
<1>7. LogIsBounded
  BY <1>2, <1>4 DEF LogIsBounded, Pieces
<1>8. RecordsAreWhole
  <2>1. \A i \in DOMAIN log_file : log_file[i] = Old
    BY <1>1
  <2>2. log_file # <<>> => Len(log_file) \in DOMAIN log_file
    BY <1>4, EmptySeq
  <2> QED BY <2>1, <2>2 DEF RecordsAreWhole, Old, Last
<1> QED BY <1>5, <1>6, <1>7, <1>8 DEF LogInv

\* What a step leaves of the file decides the two properties.
LEMMA FileUnchanged ==
    ASSUME LogInv, UNCHANGED <<log_file, linked>>
    PROVE  LogIsBounded' /\ RecordsAreWhole'
BY DEF LogInv, LogIsBounded, RecordsAreWhole

\* A file just emptied, by the rotation or by its removal, is bounded and whole.
LEMMA FileEmptied ==
    ASSUME log_file' = <<>>
    PROVE  LogIsBounded' /\ RecordsAreWhole'
BY LogAssumption DEF LogIsBounded, RecordsAreWhole, Pieces

\* No step outside the three prints and the flush fills the buffer.
LEMMA BufferEmpty ==
    ASSUME LogInv, NEW t \in Loggers,
           step[t] \in {"rotate", "unlock", "print1"} \/ mutex = Nobody
    PROVE  buffer = <<>>
<1>1. CASE step[t] = "print1"
  <2>1. buffer = [k \in 1 .. 0 |-> <<t, k>>]
    BY <1>1, StepsAre DEF LogInv, BufferIsPrefix
  <2> QED BY <2>1
<1>2. CASE step[t] \in {"rotate", "unlock"} \/ mutex = Nobody
  <2>1. \A u \in Loggers : step[u] \notin AtPrint
    BY <1>2, StepsAre, LogAssumption DEF LogInv, OneWriter
  <2> QED BY <2>1 DEF LogInv, BufferIsPrefix
<1> QED BY <1>1, <1>2

\* The mutex is taken, the size is not tested yet.
LEMMA LogInvCallLock ==
    ASSUME LogInv, NEW t \in Loggers, Call(t) \/ Lock(t)
    PROVE  LogInv'
<1> USE DEF LogInv
<1>1. LogTypeOK'
  BY DEF LogTypeOK, Call, Lock, Moves
<1>2. OneWriter'
  BY StepsAre, LogAssumption DEF LogTypeOK, OneWriter, Call, Lock, Moves
<1>3. \A u \in Loggers : step'[u] \in AtPrint <=> step[u] \in AtPrint
  BY StepsAre DEF LogTypeOK, Call, Lock, Moves
<1>4. \A u \in Loggers : step'[u] \in AtPrint => step'[u] = step[u]
  BY StepsAre DEF LogTypeOK, Call, Lock, Moves
<1>5. BufferIsPrefix'
  BY <1>3, <1>4 DEF BufferIsPrefix, AtPrint, Call, Lock
<1>6. SizeTested'
  BY <1>3 DEF SizeTested, Call, Lock
<1>7. LogIsBounded' /\ RecordsAreWhole'
  BY FileUnchanged DEF Call, Lock
<1>8. DeadAreIdle'
  BY DEF DeadAreIdle, Call, Lock, Moves
<1> QED BY <1>1, <1>2, <1>5, <1>6, <1>7, <1>8

\* When t has the mutex no other thread is past the lock.
LEMMA OthersOutside ==
    ASSUME LogInv, NEW t \in Loggers, step[t] \in AtPrint \cup {"rotate", "unlock"}
    PROVE  /\ mutex = t
           /\ \A u \in Loggers \ {t} : step[u] \in {"idle", "lock"}
BY DEF LogInv, LogTypeOK, OneWriter

\* The size is tested: the file is below the limit, or is begun anew, or
\* log_fp is NULL.
LEMMA LogInvRotation ==
    ASSUME LogInv, NEW t \in Loggers, NoRotation(t) \/ Rotate(t) \/ RotateFails(t)
    PROVE  LogInv'
<1>1. step[t] = "rotate" /\ step' = [step EXCEPT ![t] = "print1"]
  BY StepsAre DEF NoRotation, Rotate, RotateFails, Moves
<1>2. mutex = t /\ \A u \in Loggers \ {t} : step[u] \in {"idle", "lock"}
  BY <1>1, OthersOutside
<1>3. step'[t] = "print1" /\ \A u \in Loggers \ {t} : step'[u] \in {"idle", "lock"}
  BY <1>1, <1>2 DEF LogInv, LogTypeOK
<1>4. buffer = <<>>
  BY <1>1, BufferEmpty
<1>5. /\ buffer' = <<>> /\ mutex' = mutex /\ linked' = linked /\ alive' = alive
      /\ log_file' \in {log_file, <<>>}
      /\ log_fp' \in {log_fp, "NULL"}
  BY <1>4 DEF NoRotation, Rotate, RotateFails, Moves, LogInv, LogTypeOK
<1>6. log_file' = log_file \/ log_file' = <<>>
  BY <1>5
<1>7. LogTypeOK'
  <2>1. log_file' \in Seq(Piece) /\ buffer' \in Seq(Piece)
    BY <1>5, <1>6, EmptySeq DEF LogInv, LogTypeOK
  <2>2. step' \in [Loggers -> AtPrint \cup {"idle", "lock", "rotate", "unlock"}]
    BY <1>1, StepsAre DEF LogInv, LogTypeOK
  <2> QED BY <1>5, <2>1, <2>2 DEF LogInv, LogTypeOK
<1>8. OneWriter'
  BY <1>2, <1>3, <1>5, StepsAre DEF OneWriter
<1>9. BufferIsPrefix'
  <2>1. [k \in 1 .. 0 |-> <<t, k>>] = <<>>
    OBVIOUS
  <2>2. \A u \in Loggers, i \in 1 .. 4 : step'[u] = Steps[i] => u = t /\ i = 1
    BY <1>3, StepsAre
  <2> QED BY <2>1, <2>2, <1>5 DEF BufferIsPrefix
<1>10. log_fp' = "open" /\ linked => Len(log_file') < MaxSize
  <2>1. CASE NoRotation(t)
    BY <2>1, LogAssumption DEF NoRotation, Full, LogInv, LogTypeOK
  <2>2. CASE Rotate(t)
    BY <2>2, LogAssumption DEF Rotate
  <2>3. CASE RotateFails(t)
    BY <2>3 DEF RotateFails
  <2> QED BY <2>1, <2>2, <2>3
<1>11. SizeTested'
  BY <1>3, <1>5, <1>10, StepsAre DEF SizeTested
<1>12. LogIsBounded' /\ RecordsAreWhole'
  BY <1>5, <1>6, FileUnchanged, FileEmptied
<1>13. DeadAreIdle'
  BY DEF DeadAreIdle, NoRotation, Rotate, RotateFails, Moves
<1> QED BY <1>7, <1>8, <1>9, <1>11, <1>12, <1>13 DEF LogInv

\* Each print adds the next piece to the buffer.
LEMMA LogInvPrint ==
    ASSUME LogInv, NEW t \in Loggers, NEW i \in 1 .. Pieces, fprintf(t, i)
    PROVE  LogInv'
<1>1. i \in 1 .. 3 /\ step[t] = Steps[i] /\ step' = [step EXCEPT ![t] = Steps[i+1]]
  BY DEF fprintf, Moves, Pieces
<1>2. step[t] \in AtPrint /\ Steps[i+1] \in AtPrint
  BY <1>1, StepsAre
<1>3. /\ mutex = t
      /\ step'[t] = Steps[i+1]
      /\ \A u \in Loggers \ {t} : step'[u] = step[u] /\ step[u] \in {"idle", "lock"}
  BY <1>1, <1>2, OthersOutside DEF LogInv, LogTypeOK
<1>4. buffer = [k \in 1 .. i-1 |-> <<t, k>>]
  <2>1. i \in 1 .. 4
    BY <1>1
  <2> QED BY <1>1, <2>1, Zenon DEF LogInv, BufferIsPrefix
<1>5. buffer' = [k \in 1 .. i |-> <<t, k>>]
  <2>1. Len(buffer) = i - 1
    BY <1>1, <1>4
  <2>2. buffer' = Append(buffer, <<t, i>>)
    BY DEF fprintf
  <2>3. Append(buffer, <<t, i>>) = [k \in 1 .. i |-> IF k = i THEN <<t, i>> ELSE buffer[k]]
    BY <2>1, <1>1, <1>4
  <2> QED BY <2>2, <2>3, <1>1, <1>4
<1>6. LogTypeOK'
  <2>1. <<t, i>> \in Piece
    BY DEF Piece
  <2>2. buffer' \in Seq(Piece)
    BY <2>1 DEF fprintf, LogInv, LogTypeOK
  <2> QED BY <2>2, <1>1, <1>2 DEF fprintf, LogInv, LogTypeOK, Moves
<1>7. OneWriter'
  BY <1>3, StepsAre DEF OneWriter, fprintf
<1>8. BufferIsPrefix'
  <2>1. \A u \in Loggers, j \in 1 .. 4 : step'[u] = Steps[j] => u = t /\ j = i + 1
    BY <1>1, <1>3, StepsAre
  <2>2. step'[t] \in AtPrint
    BY <1>2, <1>3
  <2>3. ASSUME NEW u \in Loggers, NEW j \in 1 .. 4, step'[u] = Steps[j]
        PROVE  buffer' = [k \in 1 .. j-1 |-> <<u, k>>] /\ log_fp' = "open"
    <3>1. u = t /\ j - 1 = i
      BY <2>1, <2>3, <1>1
    <3> QED BY <3>1, <1>5 DEF fprintf
  <2>4. ~ \A u \in Loggers : step'[u] \notin AtPrint
    BY <2>2
  <2> QED BY <2>3, <2>4 DEF BufferIsPrefix
<1>9. SizeTested'
  BY <1>2, <1>3, StepsAre DEF SizeTested, fprintf, LogInv
<1>10. LogIsBounded' /\ RecordsAreWhole'
  BY FileUnchanged DEF fprintf
<1>11. DeadAreIdle'
  BY DEF DeadAreIdle, fprintf, Moves
<1> QED BY <1>6, <1>7, <1>8, <1>9, <1>10, <1>11 DEF LogInv

\* A whole record goes into the file, after whole records.
LEMMA LogInvFlush ==
    ASSUME LogInv, NEW t \in Loggers, fflush(t)
    PROVE  LogInv'
<1>1. step[t] = Steps[4] /\ step' = [step EXCEPT ![t] = "unlock"]
  BY StepsAre DEF fflush, Moves
<1>2. /\ mutex = t
      /\ step'[t] = "unlock"
      /\ \A u \in Loggers \ {t} : step'[u] \in {"idle", "lock"}
  BY <1>1, StepsAre, OthersOutside DEF LogInv, LogTypeOK
<1>3. log_fp = "open" /\ buffer = [k \in 1 .. 3 |-> <<t, k>>]
  BY <1>1 DEF LogInv, BufferIsPrefix
<1>4. /\ Len(buffer) = 3
      /\ buffer[1] = <<t, 1>> /\ buffer[2] = <<t, 2>> /\ buffer[3] = <<t, 3>>
  BY <1>3
<1>5. buffer \in Seq(Piece) /\ log_file \in Seq(Piece)
  BY DEF LogInv, LogTypeOK
<1>6. /\ log_file' \in Seq(Piece)
      /\ Len(log_file') = Len(log_file) + 3
      /\ \A i \in 1 .. Len(log_file') :
            log_file'[i] = IF i <= Len(log_file) THEN log_file[i] ELSE buffer[i - Len(log_file)]
  <2>1. log_file' = log_file \o buffer
    BY DEF fflush
  <2>2. Len(log_file \o buffer) = Len(log_file) + Len(buffer)
    BY <1>5, ConcatProperties
  <2> QED BY <1>4, <1>5, <2>1, <2>2, ConcatProperties
<1>7. DOMAIN log_file = 1 .. Len(log_file) /\ DOMAIN log_file' = 1 .. Len(log_file')
      /\ Len(log_file) \in Nat
  BY <1>5, <1>6, LenProperties
<1>8. LogTypeOK'
  BY <1>1, <1>6, EmptySeq DEF fflush, LogInv, LogTypeOK, Moves
<1>9. OneWriter'
  BY <1>2, StepsAre DEF OneWriter, fflush
<1>10. BufferIsPrefix' /\ SizeTested'
  BY <1>2, StepsAre DEF BufferIsPrefix, SizeTested, fflush
<1>13. DeadAreIdle'
  BY DEF DeadAreIdle, fflush, Moves
<1>11. LogIsBounded'
  <2>1. linked => Len(log_file) < MaxSize
    BY <1>1, <1>3, StepsAre DEF LogInv, SizeTested
  <2> QED BY <2>1, <1>6, <1>7, LogAssumption DEF LogIsBounded, Pieces, fflush
<1>12. RecordsAreWhole'
  <2>1. log_file # <<>> => log_file[Len(log_file)][2] = 3
    BY DEF LogInv, RecordsAreWhole, Last, Pieces
  <2>2. log_file'[Len(log_file')] = <<t, 3>>
    BY <1>4, <1>6, <1>7
  <2>3. ASSUME NEW i \in 1 .. Len(log_file'), log_file'[i] # Old
        PROVE  IF log_file'[i][2] = 1 THEN i = 1 \/ log_file'[i-1][2] = 3
               ELSE i > 1 /\ log_file'[i-1] = <<log_file'[i][1], log_file'[i][2] - 1>>
    <3>1. CASE i <= Len(log_file)
      <4>1. i \in DOMAIN log_file /\ log_file[i] # Old
        BY <3>1, <2>3, <1>6, <1>7
      <4>2. IF log_file[i][2] = 1 THEN i = 1 \/ log_file[i-1][2] = 3
            ELSE i > 1 /\ log_file[i-1] = <<log_file[i][1], log_file[i][2] - 1>>
        BY <4>1 DEF LogInv, RecordsAreWhole, Pieces
      <4>3. log_file'[i] = log_file[i] /\ (i > 1 => log_file'[i-1] = log_file[i-1])
        BY <3>1, <1>6, <1>7
      <4> QED BY <4>2, <4>3, <1>7
    <3>2. CASE i = Len(log_file) + 1
      <4>1. log_file'[i] = <<t, 1>>
        BY <3>2, <1>4, <1>6, <1>7
      <4>2. i = 1 \/ log_file'[i-1][2] = 3
        <5>1. CASE log_file = <<>>
          BY <5>1, <3>2
        <5>2. CASE log_file # <<>>
          <6>1. Len(log_file) \in 1 .. Len(log_file') /\ i - 1 = Len(log_file)
            BY <5>2, <3>2, <1>5, <1>6, <1>7, EmptySeq
          <6>2. log_file'[i-1] = log_file[Len(log_file)]
            BY <6>1, <1>6, <1>7
          <6> QED BY <6>2, <5>2, <2>1
        <5> QED BY <5>1, <5>2
      <4> QED BY <4>1, <4>2
    <3>3. CASE i = Len(log_file) + 2
      <4>1. log_file'[i] = <<t, 2>> /\ log_file'[i-1] = <<t, 1>> /\ i > 1
        BY <3>3, <1>4, <1>6, <1>7
      <4> QED BY <4>1
    <3>4. CASE i = Len(log_file) + 3
      <4>1. i > 1 /\ i - 1 \in 1 .. Len(log_file') /\ ~(i - 1 <= Len(log_file))
            /\ i - 1 - Len(log_file) = 2 /\ i - Len(log_file) = 3
        BY <3>4, <1>6, <1>7
      <4>2. log_file'[i-1] = buffer[(i-1) - Len(log_file)]
        BY <4>1, <1>6
      <4>3. log_file'[i] = buffer[i - Len(log_file)]
        BY <3>4, <1>6, <1>7
      <4>4. log_file'[i] = <<t, 3>> /\ log_file'[i-1] = <<t, 2>>
        BY <4>1, <4>2, <4>3, <1>4
      <4> QED BY <4>1, <4>4
    <3> QED BY <3>1, <3>2, <3>3, <3>4, <1>6, <1>7
  <2>4. Last(log_file')[2] = Pieces
    BY <2>2 DEF Last, Pieces
  <2> QED BY <2>3, <2>4, <1>7 DEF RecordsAreWhole, Pieces
<1> QED BY <1>8, <1>9, <1>10, <1>11, <1>12, <1>13 DEF LogInv

\* The writer leaves; its record is in the file.
LEMMA LogInvUnlock ==
    ASSUME LogInv, NEW t \in Loggers, Unlock(t)
    PROVE  LogInv'
<1>1. step[t] = "unlock" /\ step' = [step EXCEPT ![t] = "idle"]
  BY DEF Unlock, Moves
<1>2. buffer = <<>>
  BY <1>1, BufferEmpty
<1>3. \A u \in Loggers : step'[u] \in {"idle", "lock"}
  BY <1>1, OthersOutside DEF LogInv, LogTypeOK
<1>4. LogTypeOK'
  BY <1>1 DEF LogInv, LogTypeOK, Unlock, Moves
<1>5. OneWriter' /\ BufferIsPrefix' /\ SizeTested' /\ DeadAreIdle'
  BY <1>2, <1>3, StepsAre DEF OneWriter, BufferIsPrefix, SizeTested, DeadAreIdle, Unlock, Moves
<1>6. LogIsBounded' /\ RecordsAreWhole'
  BY FileUnchanged DEF Unlock
<1> QED BY <1>4, <1>5, <1>6 DEF LogInv

\* A death empties the buffer: no part of a record gets into the file.
LEMMA LogInvEnds ==
    ASSUME LogInv, Ends
    PROVE  LogInv'
<1>1. \A u \in Loggers : step'[u] = "idle"
  BY DEF Ends
<1>2. LogTypeOK'
  BY EmptySeq DEF Ends, LogInv, LogTypeOK
<1>3. OneWriter' /\ BufferIsPrefix' /\ SizeTested' /\ DeadAreIdle'
  BY <1>1, StepsAre DEF OneWriter, BufferIsPrefix, SizeTested, DeadAreIdle, Ends
<1>4. LogIsBounded' /\ RecordsAreWhole'
  BY FileUnchanged DEF Ends
<1> QED BY <1>2, <1>3, <1>4 DEF LogInv

\* The next process finds the file as the last one has left it.
LEMMA LogInvRestart ==
    ASSUME LogInv, log_init
    PROVE  LogInv'
<1>1. \A u \in Loggers : step'[u] = "idle"
  BY DEF log_init, LogInv, DeadAreIdle
<1>2. buffer' = <<>>
  BY <1>1, StepsAre DEF log_init, LogInv, BufferIsPrefix
<1>3. log_file' = <<>> \/ UNCHANGED <<log_file, linked>>
  BY DEF log_init, LogInv, LogTypeOK
<1>4. LogTypeOK'
  BY <1>3, EmptySeq DEF log_init, LogInv, LogTypeOK
<1>5. OneWriter' /\ BufferIsPrefix' /\ SizeTested' /\ DeadAreIdle'
  BY <1>1, <1>2, StepsAre DEF OneWriter, BufferIsPrefix, SizeTested, DeadAreIdle
<1>6. LogIsBounded' /\ RecordsAreWhole'
  BY <1>3, FileUnchanged, FileEmptied
<1> QED BY <1>4, <1>5, <1>6 DEF LogInv

\* Without its name the file is not bounded any more.
LEMMA LogInvUnlink ==
    ASSUME LogInv, Unlink
    PROVE  LogInv'
<1>1. /\ linked' = FALSE
      /\ UNCHANGED <<alive, log_fp, log_file, buffer, mutex, step>>
  BY DEF Unlink
<1>2. LogTypeOK' /\ OneWriter' /\ BufferIsPrefix' /\ DeadAreIdle'
  BY <1>1 DEF LogInv, LogTypeOK, OneWriter, BufferIsPrefix, DeadAreIdle
<1>3. SizeTested' /\ LogIsBounded'
  BY <1>1 DEF SizeTested, LogIsBounded
<1>4. RecordsAreWhole'
  BY <1>1 DEF LogInv, RecordsAreWhole
<1> QED BY <1>2, <1>3, <1>4 DEF LogInv

\* The writer of the log is alone, and the file is below its limit when it
\* prints: the invariant of log_write for any number of threads and restarts.
THEOREM LogInvariant == LogSpec => []LogInv
<1>1. LogInit => LogInv
  BY LogInvInit
<1>2. LogInv /\ [LogNext]_logVars => LogInv'
  <2> SUFFICES ASSUME LogInv, [LogNext]_logVars PROVE LogInv'
    OBVIOUS
  <2>1. ASSUME NEW t \in Loggers, Call(t) \/ Lock(t)
        PROVE  LogInv'
    BY <2>1, LogInvCallLock
  <2>2. ASSUME NEW t \in Loggers, NoRotation(t) \/ Rotate(t) \/ RotateFails(t)
        PROVE  LogInv'
    BY <2>2, LogInvRotation
  <2>3. ASSUME NEW t \in Loggers, NEW i \in 1 .. Pieces, fprintf(t, i)
        PROVE  LogInv'
    BY <2>3, LogInvPrint
  <2>4. ASSUME NEW t \in Loggers, fflush(t) \/ Unlock(t)
        PROVE  LogInv'
    BY <2>4, LogInvFlush, LogInvUnlock
  <2>5. ASSUME NEW t \in Loggers, PrintToNull(t)
        PROVE  LogInv'
    BY <2>5, LogInvEnds DEF PrintToNull
  <2>6. CASE Killed
    BY <2>6, LogInvEnds DEF Killed
  <2>7. CASE log_init \/ Unlink
    BY <2>7, LogInvRestart, LogInvUnlink
  <2>8. CASE UNCHANGED logVars
    BY <2>8 DEF logVars, LogInv, LogTypeOK, OneWriter, BufferIsPrefix, SizeTested,
                DeadAreIdle, LogIsBounded, RecordsAreWhole
  <2> QED BY <2>1, <2>2, <2>3, <2>4, <2>5, <2>6, <2>7, <2>8 DEF LogNext
<1> QED BY <1>1, <1>2, PTL DEF LogSpec

\* The log is bounded, since the size is tested and the record written under
\* one mutex: a rotation comes before the record that would pass the limit.
THEOREM LogStaysBounded == LogSpec => []LogIsBounded
<1>1. LogInv => LogIsBounded
  BY DEF LogInv
<1> QED BY <1>1, LogInvariant, PTL

\* Records are whole in the file, whichever threads log and wherever the
\* process is killed.
THEOREM RecordsStayWhole == LogSpec => []RecordsAreWhole
<1>1. LogInv => RecordsAreWhole
  BY DEF LogInv
<1> QED BY <1>1, LogInvariant, PTL

-----------------------------------------------------------------------------
(* The shutdown                                                            *)

\* Which objects are freed follows from main's stage ...
FreedByStage ==
    /\ freed \subseteq {"tasks", "server", "bincount_mutex", "gpio", "log"}
    /\ "tasks" \in freed => stage >= 5
    /\ "server" \in freed => stage >= 10
    /\ "bincount_mutex" \in freed => stage >= 11
    /\ "gpio" \in freed => stage >= 12
    /\ "log" \in freed => stage >= 13

\* ... and which threads are done.
DoneByStage ==
    /\ stage >= 3 => pc["monitor"] = "done"
    /\ stage >= 4 => \A t \in TaskThreads : pc[t] = "done"
    /\ stage >= 7 => pc["io"] = "done"
    /\ stage >= 8 => pc["worker"] = "done"
    /\ stage >= 9 => pc["send"] = "done"

Places == {"test", "wait", "push", "use", "lift", "tell", "list", "clean", "enter", "done"}

ShutdownInv ==
    /\ stage \in 0 .. 13
    /\ pc \in [Threads -> Places]
    /\ FreedByStage
    /\ DoneByStage

\* The four named threads and the task threads are different threads, and all.
LEMMA ThreadsAre ==
    /\ {"monitor", "io", "worker", "send"} \subseteq Threads
    /\ TaskThreads \subseteq Threads
    /\ \A t \in Threads \ {"monitor", "io", "worker", "send"} : t \in TaskThreads
    /\ \A t \in TaskThreads : t \notin {"monitor", "io", "worker", "send"}
BY ShutdownAssumption DEF Threads, TaskThreads, ServerThreads

\* Main: what a stage frees and whom it has waited for.
LEMMA MainKeeps ==
    ASSUME ShutdownInv, StopRequested \/ Stopping
    PROVE  ShutdownInv'
<1> USE DEF ShutdownInv, Main
<1>1. (stage \in 0 .. 13 /\ pc \in [Threads -> Places])'
  BY DEF StopRequested, Stopping, StopMonitor, JoinMonitor, JoinTasks, FreeTasks,
         SgTcpServer_stop, JoinIo, JoinWorker, JoinSend, SgTcpServer_free,
         DestroyMutex, gpio_deinit, log_close
<1>2. FreedByStage'
  <2>1. CASE FreeTasks
    BY <2>1 DEF FreedByStage, FreeTasks
  <2>2. CASE SgTcpServer_free
    BY <2>2 DEF FreedByStage, SgTcpServer_free
  <2>3. CASE DestroyMutex
    BY <2>3 DEF FreedByStage, DestroyMutex
  <2>4. CASE gpio_deinit
    BY <2>4 DEF FreedByStage, gpio_deinit
  <2>5. CASE log_close
    BY <2>5 DEF FreedByStage, log_close
  <2>6. CASE StopRequested \/ StopMonitor \/ JoinMonitor \/ JoinTasks
                \/ SgTcpServer_stop \/ JoinIo \/ JoinWorker \/ JoinSend
    <3>1. freed' = freed /\ stage' >= stage
      BY <2>6 DEF StopRequested, StopMonitor, JoinMonitor, JoinTasks, SgTcpServer_stop,
                  JoinIo, JoinWorker, JoinSend
    <3> QED BY <3>1, <1>1 DEF FreedByStage
  <2> QED BY <2>1, <2>2, <2>3, <2>4, <2>5, <2>6 DEF Stopping
<1>3. DoneByStage'
  BY DEF DoneByStage, Joined, StopRequested, Stopping, StopMonitor, JoinMonitor,
         JoinTasks, FreeTasks, SgTcpServer_stop, JoinIo, JoinWorker, JoinSend,
         SgTcpServer_free, DestroyMutex, gpio_deinit, log_close
<1> QED BY <1>1, <1>2, <1>3

\* A thread that is done makes no step, and no thread's step frees anything.
LEMMA ThreadKeeps ==
    ASSUME ShutdownInv, ClientEvent \/ \E t \in Threads : Step(t)
    PROVE  ShutdownInv'
<1>1. PICK t \in Threads :
          /\ pc[t] # "done"
          /\ pc' = pc \/ \E s \in Places : pc' = [pc EXCEPT ![t] = s]
          /\ UNCHANGED <<stage, freed>>
  <2>1. CASE ClientEvent
    BY <2>1, ThreadsAre DEF ClientEvent, Bytes, ComesOrGoes, Reaches, Places
  <2>2. ASSUME NEW t \in Threads, Step(t)
        PROVE  /\ pc[t] # "done"
               /\ pc' = pc \/ \E s \in Places : pc' = [pc EXCEPT ![t] = s]
               /\ UNCHANGED <<stage, freed>>
    <3>1. CASE Test(t) \/ Nothing(t) \/ Something(t) \/ Push(t)
      BY <3>1 DEF Test, Nothing, Something, Push, Reaches, Places
    <3>2. CASE BeginBroadcast(t) \/ BroadcastPush(t) \/ EndBroadcast(t)
      BY <3>2 DEF BeginBroadcast, BroadcastPush, EndBroadcast, Reaches, Places
    <3>3. CASE \/ t = "monitor" /\ ListClients
               \/ t = "send" /\ (SendTakes \/ SendCleans)
               \/ t = "worker" /\ (WorkerTakes \/ WorkerReturns)
               \/ t = "io" /\ (ExitEvent \/ IoPush \/ IoEnters)
      BY <3>3 DEF ListClients, SendTakes, SendCleans, GetsMutex, WorkerTakes,
         WorkerReturns, ExitEvent, Bytes, IoPush, IoEnters, Reaches, Places
    <3> QED BY <2>2, <3>1, <3>2, <3>3 DEF Step
  <2> QED BY <2>1, <2>2
<1>2. pc' \in [Threads -> Places]
  BY <1>1 DEF ShutdownInv
<1>3. \A u \in Threads : pc[u] = "done" => pc'[u] = "done"
  BY <1>1 DEF ShutdownInv
<1>4. FreedByStage'
  BY <1>1 DEF ShutdownInv, FreedByStage
<1>5. DoneByStage'
  BY <1>1, <1>3, ThreadsAre DEF ShutdownInv, DoneByStage
<1> QED BY <1>1, <1>2, <1>4, <1>5 DEF ShutdownInv

\* A process that dies leaves neither threads nor objects.
LEMMA GoneKeeps ==
    ASSUME stage' = 0, pc' = [t \in Threads |-> "test"], freed' = {}
    PROVE  ShutdownInv'
BY DEF ShutdownInv, FreedByStage, DoneByStage, Places

\* The stages of main keep their order for any handlers and capacities.
THEOREM ShutdownInvariant == ShutdownSpec => []ShutdownInv
<1>1. ShutdownInit => ShutdownInv
  BY DEF ShutdownInit, ShutdownInv, FreedByStage, DoneByStage, Places
<1>2. ShutdownInv /\ [ShutdownNext \/ ThreadsGone]_shutdownVars => ShutdownInv'
  <2> SUFFICES ASSUME ShutdownInv, [ShutdownNext \/ ThreadsGone]_shutdownVars
               PROVE  ShutdownInv'
    OBVIOUS
  <2>1. CASE StopRequested \/ Stopping
    BY <2>1, MainKeeps
  <2>2. CASE ClientEvent \/ \E t \in Threads : Step(t)
    BY <2>2, ThreadKeeps
  <2>3. CASE ThreadsGone
    BY <2>3, GoneKeeps DEF ThreadsGone
  <2>4. CASE UNCHANGED shutdownVars
    BY <2>4 DEF shutdownVars, ShutdownInv, FreedByStage, DoneByStage
  <2> QED BY <2>1, <2>2, <2>3, <2>4 DEF ShutdownNext
<1> QED BY <1>1, <1>2, PTL DEF ShutdownSpec

\* Nothing is freed under a thread that may still use it, but for the task
\* queues under worker_loop: each object is freed after the join of the last
\* thread that uses it.
THEOREM ObjectsStay == ShutdownSpec => []ObjectsOutliveUsers
<1>1. ShutdownInv => ObjectsOutliveUsers
  <2> SUFFICES ASSUME ShutdownInv, NEW t \in Threads, pc[t] # "done"
               PROVE  Uses(t) \cap freed \subseteq (IF t = "worker" THEN {"tasks"} ELSE {})
    BY DEF ObjectsOutliveUsers
  <2> USE DEF ShutdownInv, FreedByStage, DoneByStage
  <2>1. CASE t = "monitor"
    BY <2>1 DEF Uses
  <2>2. CASE t \in TaskThreads
    <3>1. freed = {}
      BY <2>2
    <3> QED BY <3>1, <2>2, ThreadsAre
  <2>3. CASE t = "io"
    BY <2>3 DEF Uses
  <2>4. CASE t = "worker"
    BY <2>4 DEF Uses
  <2>5. CASE t = "send"
    BY <2>5 DEF Uses
  <2> QED BY <2>1, <2>2, <2>3, <2>4, <2>5, ThreadsAre
<1> QED BY <1>1, ShutdownInvariant, PTL

-----------------------------------------------------------------------------
(* The boot                                                                *)

\* A process that has read and applied file.conf, as BiasAgrees has it.
HasApplied ==
    /\ applied = {file.conf} /\ file.state = "good"
    /\ gpio_bias = Applied(file.conf)
    /\ "msgsnd" \in failed \/ \A c \in Masked : hardware[c] = gpio_bias[c].bias

HasNothing == applied = {} /\ gpio_bias = Zero

\* What main has read when it is about to make each of its steps.
BootInv ==
    /\ at \in {"down", "log_init", "read_esn", "gpio_init", "config", "defaults",
               "write", "start_server", "running"}
    /\ at \notin {"start_server", "running"} => HasNothing
    /\ at \in {"start_server", "running"} => HasNothing \/ HasApplied
    /\ at = "defaults" /\ file.state \in {"good", "bad", "part"} => "read" \in failed
    /\ at = "write" => file.state = "part"

\* The configuration is applied, to the levels and to the hardware, in one step.
LEMMA ReadConfigKeeps ==
    ASSUME BootInv, ReadConfig
    PROVE  BootInv'
<1>1. at' = "start_server" /\ file' = file /\ file.state = "good"
  BY DEF ReadConfig, Goes
<1>2. applied' = {file.conf} /\ gpio_bias' = Applied(file.conf)
  BY DEF ReadConfig
<1>3. "msgsnd" \in failed' \/ \A c \in Masked : hardware'[c] = gpio_bias'[c].bias
  BY <1>2 DEF ReadConfig, gpio_set_inputbias
<1>4. HasApplied'
  BY <1>1, <1>2, <1>3 DEF HasApplied
<1> QED BY <1>1, <1>4 DEF BootInv

\* What every step does to BootInv.
LEMMA BootKeeps ==
    ASSUME BootInv, [BootNext]_bootVars
    PROVE  BootInv'
<1>1. CASE (\E c \in Config : OperatorWrites(File("good", c)))
             \/ (\E s \in {"bad", "big", "absent"} : OperatorWrites(File(s, NoConfig)))
  <2>1. at = "down" /\ UNCHANGED <<at, gpio_bias, hardware, applied, failed>>
    BY <1>1 DEF OperatorWrites
  <2> QED BY <2>1 DEF BootInv, HasNothing
<1>2. CASE Exec \/ OpenLog \/ read_esn_from_file \/ gpio_init
  BY <1>2 DEF Exec, OpenLog, read_esn_from_file, gpio_init, Goes, BootInv, HasNothing
<1>3. CASE Die
  BY <1>3 DEF Die, BootInv, HasNothing
<1>4. CASE ReadConfig
  BY <1>4, ReadConfigKeeps
<1>5. CASE ReadBadConfig \/ ReadFails
  BY <1>5 DEF ReadBadConfig, ReadFails, Goes, BootInv, HasNothing
<1>6. CASE OpenDefaults \/ WriteDefaults \/ DefaultsNotOpened
  BY <1>6 DEF OpenDefaults, WriteDefaults, DefaultsNotOpened, Goes, File, BootInv,
              HasNothing
<1>7. CASE start_sg_server
  BY <1>7 DEF start_sg_server, Goes, BootInv, HasNothing, HasApplied
<1>8. CASE UNCHANGED bootVars
  BY <1>8 DEF bootVars, BootInv, HasNothing, HasApplied
<1> QED BY <1>1, <1>2, <1>3, <1>4, <1>5, <1>6, <1>7, <1>8 DEF BootNext

\* Where main stands says what it has read, for any channels, through any
\* number of restarts and of changes to config.json.
THEOREM BootInvariant == BootSpec => []BootInv
<1>1. BootInit => BootInv
  BY DEF BootInit, BootInv, HasNothing
<1>2. BootInv /\ [BootNext]_bootVars => BootInv'
  BY BootKeeps
<1> QED BY <1>1, <1>2, PTL DEF BootSpec

\* A running process has the whole of config.json, in its levels and in the
\* hardware, or nothing of it.
THEOREM BiasAlwaysAgrees == BootSpec => []BiasAgrees
<1>1. BootInv => BiasAgrees
  BY DEF BootInv, BiasAgrees, HasNothing, HasApplied
<1> QED BY <1>1, BootInvariant, PTL

\* No boot replaces a configuration that it could read.
THEOREM ConfigSurvives == BootSpec => OperatorConfigKept
<1>1. BootInv /\ [BootNext]_bootVars
        => [(at # "down" /\ file.state \in {"good", "bad"} /\ file' # file)
              => "read" \in failed]_bootVars
  <2> SUFFICES ASSUME BootInv, BootNext, at # "down", file' # file,
                      file.state \in {"good", "bad"}
               PROVE  "read" \in failed
    OBVIOUS
  <2>1. OpenDefaults \/ WriteDefaults
    BY DEF BootNext, OperatorWrites, Exec, Die, OpenLog, read_esn_from_file, gpio_init,
           ReadConfig, ReadBadConfig, ReadFails, DefaultsNotOpened, start_sg_server
  <2> QED BY <2>1 DEF BootInv, OpenDefaults, WriteDefaults, Goes
<1> QED BY <1>1, BootInvariant, PTL DEF BootSpec, OperatorConfigKept

-----------------------------------------------------------------------------
(* The GPIO monitor                                                        *)
(* The monitor and the callback count every lift exactly once, for any     *)
(* number of lifts and either polarity, when levels last until they are    *)
(* sampled, and an uninitialised info adds one lift at most.  The          *)
(* inductive invariant adds to the property what info and seen mean        *)
(* (InfoInv).                                                              *)

\* Types, whether levels last or not.
LEMMA MonitorTypes == MonitorTypeOK /\ [MonitorNext]_monitorVars => MonitorTypeOK'
<1> SUFFICES ASSUME MonitorTypeOK, [MonitorNext]_monitorVars PROVE MonitorTypeOK'
  OBVIOUS
<1>1. ASSUME NEW p \in Ports, Toggle(p)
      PROVE  MonitorTypeOK'
  BY <1>1, GpioAssumption DEF Toggle, MonitorTypeOK, Levels, Level, Ports
<1>2. CASE Sample
  <2>1. ASSUME NEW p \in Ports
        PROVE  [changed |-> TRUE, rising |-> input[p]] \in Change /\ info[p] \in Change
    BY DEF MonitorTypeOK, Levels, Change
  <2>2. info' \in [Ports -> Change]
    BY <1>2, <2>1 DEF Sample
  <2> QED BY <1>2, <2>2 DEF Sample, MonitorTypeOK
<1>3. CASE ReverseBranch
  <2>1. ASSUME NEW p \in Ports
        PROVE  [changed |-> FALSE, rising |-> info[p].rising] \in Change
    BY DEF MonitorTypeOK, Change
  <2>2. info' \in [Ports -> Change]
    BY <1>3, <2>1 DEF ReverseBranch, ChangesReset
  <2>3. reverse' \in Level \cup {NoReverse}
    BY <1>3 DEF ReverseBranch, ReverseMessage, MonitorTypeOK, Level, assemble_reverse_message
  <2> QED BY <1>3, <2>2, <2>3 DEF ReverseBranch, MonitorTypeOK
<1>4. CASE Start \/ SampleSame \/ LiftBranch
  BY <1>4 DEF Start, SampleSame, LiftBranch, MonitorTypeOK
<1>5. CASE UNCHANGED monitorVars
  BY <1>5 DEF monitorVars, MonitorTypeOK
<1> QED BY <1>1, <1>2, <1>3, <1>4, <1>5 DEF MonitorNext

\* The initial states satisfy the invariant, whatever info holds.
LEMMA MonitorInvInit == MonitorInit => MonitorInv
<1> SUFFICES ASSUME MonitorInit PROVE MonitorInv
  OBVIOUS
<1>1. enable \in Levels
  BY GpioAssumption DEF MonitorInit, Levels, Level
<1>2. MonitorTypeOK
  BY <1>1, GpioAssumption DEF MonitorInit, MonitorTypeOK, Levels, Level
<1>3. leftover # "there" => ~info["binlift"].changed
  BY DEF MonitorInit, Ports
<1> QED BY <1>2, <1>3 DEF MonitorInit, MonitorInv, InfoInv, EveryLiftCounted

\* An input changes: an active edge is counted now or unsampled afterwards.
LEMMA MonitorInvToggle ==
    ASSUME Hold, MonitorInv, NEW p \in Ports, Toggle(p)
    PROVE  MonitorInv'
<1> USE DEF MonitorInv
<1>1. MonitorTypeOK'
  BY MonitorTypes DEF MonitorNext
<1>2. mon # "off" => Excess' = Excess
  BY DEF Toggle, MonitorTypeOK, InfoInv, Levels, Level, Ports, Active, Sampled, Unprocessed,
         Unsampled, Excess
<1>3. (mon # "off" => \A q \in seen : input[q] = Sampled[q])'
  BY DEF Toggle, MonitorTypeOK, InfoInv, Levels, Sampled
<1>4. InfoInv'
  BY <1>2, <1>3 DEF Toggle, InfoInv
<1>5. EveryLiftCounted'
  BY <1>2 DEF Toggle, EveryLiftCounted
<1> QED BY <1>1, <1>4, <1>5

\* A sample moves an edge from unsampled to unprocessed.
LEMMA MonitorInvSample ==
    ASSUME MonitorInv, Sample \/ SampleSame \/ Start
    PROVE  MonitorInv'
<1> USE DEF MonitorInv
<1>1. CASE Sample
  <2>1. MonitorTypeOK'
    BY <1>1, MonitorTypes DEF MonitorNext
  <2>2. "binlift" \in Ports
    BY DEF Ports
  <2>3. /\ "binlift" \in Changed =>
              info'["binlift"].changed = TRUE /\ info'["binlift"].rising = input["binlift"]
        /\ "binlift" \notin Changed => info'["binlift"].changed = info["binlift"].changed
    BY <1>1, <2>2 DEF Sample
  <2>4. "binlift" \in Changed <=> last["binlift"] # input["binlift"]
    BY <2>2 DEF Changed
  <2>5. Excess' = Excess
    BY <1>1 DEF Sample, MonitorTypeOK, Active, Sampled, Unprocessed, Unsampled, Excess
  <2>6. InfoInv'
    BY <1>1, <2>3, <2>4, <2>5 DEF Sample, InfoInv, Sampled
  <2>7. EveryLiftCounted'
    BY <1>1, <2>5 DEF Sample, EveryLiftCounted
  <2> QED BY <2>1, <2>6, <2>7
<1>2. CASE SampleSame
  <2>1. MonitorTypeOK' /\ Excess' = Excess
    BY <1>2 DEF SampleSame, MonitorTypeOK, Active, Sampled, Unprocessed, Unsampled, Excess
  <2>2. InfoInv' /\ EveryLiftCounted'
    BY <1>2, <2>1 DEF SampleSame, InfoInv, EveryLiftCounted, Sampled, Changed
  <2> QED BY <2>1, <2>2
<1>3. CASE Start
  <2>1. MonitorTypeOK'
    BY <1>3 DEF Start, MonitorTypeOK
  <2>2. Excess' = 0
    BY <1>3 DEF Start, InfoInv, Active, Sampled, Unprocessed, Unsampled, Excess
  <2>3. InfoInv' /\ EveryLiftCounted'
    BY <1>3, <2>2 DEF Start, InfoInv, EveryLiftCounted, Sampled
  <2> QED BY <2>1, <2>3
<1> QED BY <1>1, <1>2, <1>3

\* The callback counts the unprocessed edge, if there is one.  Only while info
\* holds what the stack held does it count an edge that is none.
LEMMA MonitorInvCallback ==
    ASSUME MonitorInv, LiftBranch \/ ReverseBranch
    PROVE  MonitorInv'
<1> USE DEF MonitorInv
<1>1. CASE LiftBranch
  <2>1. MonitorTypeOK'
    BY <1>1 DEF LiftBranch, MonitorTypeOK
  <2>2. /\ cur["binlift"] \in Level /\ last["binlift"] \in Level
        /\ enable["binlift"] \in Level
    BY DEF MonitorTypeOK, Levels, Ports
  <2>3. Excess' = Excess \/ (leftover = "there" /\ Excess' = Excess + 1)
    BY <1>1, <2>2 DEF LiftBranch, MonitorTypeOK, InfoInv, Level, Active, Sampled,
                      Unprocessed, Unsampled, Excess
  <2>4. InfoInv'
    BY <1>1 DEF LiftBranch, InfoInv, Sampled
  <2>5. EveryLiftCounted'
    BY <1>1, <2>3 DEF LiftBranch, InfoInv, EveryLiftCounted
  <2> QED BY <2>1, <2>4, <2>5
<1>2. CASE ReverseBranch
  <2>1. MonitorTypeOK'
    BY <1>2, MonitorTypes DEF MonitorNext
  <2>2. ~info'["binlift"].changed
    BY <1>2 DEF ReverseBranch, ChangesReset, Ports
  <2>3. InfoInv'
    BY <1>2, <2>2 DEF ReverseBranch, InfoInv, Sampled
  <2>4. EveryLiftCounted'
    BY <1>2 DEF ReverseBranch, MonitorTypeOK, EveryLiftCounted, Active, Sampled,
                Unprocessed, Unsampled, Excess
  <2> QED BY <2>1, <2>3, <2>4
<1> QED BY <1>1, <1>2

\* What the monitor knows of the inputs and what the callback has made of it
\* agree, for every polarity and every leftover in the change record.
THEOREM MonitorInvariant ==
    ASSUME Hold
    PROVE  MonitorSpec => []MonitorInv
<1>1. MonitorInv /\ [MonitorNext]_monitorVars => MonitorInv'
  <2> SUFFICES ASSUME MonitorInv, [MonitorNext]_monitorVars PROVE MonitorInv'
    OBVIOUS
  <2>1. CASE UNCHANGED monitorVars
    BY <2>1 DEF monitorVars, MonitorInv, MonitorTypeOK, InfoInv, EveryLiftCounted, Active, Sampled,
                Unprocessed, Unsampled, Excess
  <2> QED BY <2>1, MonitorInvToggle, MonitorInvSample, MonitorInvCallback DEF MonitorNext
<1> QED BY MonitorInvInit, <1>1, PTL DEF MonitorSpec

\* Every bin lift is counted exactly once, whatever happens to the input while
\* the callback runs, except for one lift that an uninitialised info may add.
THEOREM LiftsCountedOnce ==
    ASSUME Hold
    PROVE  MonitorSpec => []EveryLiftCounted
<1>1. MonitorInv => EveryLiftCounted
  BY DEF MonitorInv
<1> QED BY MonitorInvariant, <1>1, PTL

-----------------------------------------------------------------------------
(* The reverse message of the monitor.  It speaks of samples only and      *)
(* needs no Hold.                                                          *)

\* With no leftover in it the record of the reverse input says how the last
\* two samples differ, and the last message agrees with the older one until
\* the callback has sent the next.
ReverseInv ==
    /\ MonitorTypeOK
    /\ leftover = "none" =>
          /\ info["reverse"].changed <=>
                mon \in {"lift", "reverse"} /\ last["reverse"] # cur["reverse"]
          /\ info["reverse"].changed => info["reverse"].rising = cur["reverse"]
          /\ mon = "off" => reverse = NoReverse
          /\ enable["reverse"] = 1 /\ reverse # NoReverse =>
                (reverse = 1 <=> Active(last, "reverse"))

\* Every step keeps it: only the reverse branch of the callback changes both the
\* last sample and what was told.
LEMMA ReverseStep == ReverseInv /\ [MonitorNext]_monitorVars => ReverseInv'
<1> SUFFICES ASSUME ReverseInv, [MonitorNext]_monitorVars PROVE ReverseInv'
  OBVIOUS
<1> USE DEF ReverseInv
<1>1. MonitorTypeOK'
  BY MonitorTypes
<1>2. CASE \/ \E p \in Ports : Toggle(p)
           \/ SampleSame \/ LiftBranch \/ UNCHANGED monitorVars
  <2>1. UNCHANGED <<enable, last, cur, info, leftover, reverse>>
    BY <1>2 DEF Toggle, SampleSame, LiftBranch, monitorVars
  <2>2. mon' = mon \/ (mon = "lift" /\ mon' = "reverse")
    BY <1>2 DEF Toggle, SampleSame, LiftBranch, monitorVars
  <2> QED BY <1>1, <2>1, <2>2 DEF Active
<1>3. CASE Start
  BY <1>1, <1>3 DEF Start
<1>4. CASE Sample
  <2>1. IF last["reverse"] # input["reverse"]
        THEN info'["reverse"] = [changed |-> TRUE, rising |-> input["reverse"]]
        ELSE info'["reverse"] = info["reverse"]
    BY <1>4 DEF Sample, Changed, Ports
  <2> QED BY <1>1, <1>4, <2>1 DEF Sample, Active
<1>5. CASE ReverseBranch
  <2>1. ~info'["reverse"].changed
    BY <1>5 DEF ReverseBranch, ChangesReset, Ports
  <2>2. cur["reverse"] \in Level /\ last["reverse"] \in Level
    BY DEF MonitorTypeOK, Levels, Ports
  <2>3. enable' = enable /\ last' = cur /\ mon' = "loop" /\ reverse' = ReverseMessage
    BY <1>5 DEF ReverseBranch
  <2>4. leftover' = "none" => leftover = "none"
    BY <1>5 DEF ReverseBranch
  <2>5. leftover = "none" /\ enable["reverse"] = 1 /\ reverse' # NoReverse =>
            (reverse' = 1 <=> cur["reverse"] = 1)
    BY <1>5, <2>2, <2>3
       DEF ReverseBranch, ReverseMessage, assemble_reverse_message, Active, Level
  <2> QED BY <1>1, <2>1, <2>3, <2>4, <2>5 DEF Active
<1> QED BY <1>2, <1>3, <1>4, <1>5 DEF MonitorNext

\* The last reverse message agrees with the last sample of an active-high
\* reverse input, for any sequence of changes, sampled or missed.
THEOREM ReverseIsTold == MonitorSpec => []ReverseFollowsInput
<1>1. MonitorInit => ReverseInv
  <2> SUFFICES ASSUME MonitorInit PROVE ReverseInv
    OBVIOUS
  <2>1. MonitorTypeOK
    BY MonitorInvInit DEF MonitorInv
  <2>2. leftover = "none" => ~info["reverse"].changed
    BY DEF MonitorInit, Ports
  <2>3. mon = "off" /\ reverse = NoReverse
    BY DEF MonitorInit
  <2> QED BY <2>1, <2>2, <2>3 DEF ReverseInv
<1>2. ReverseInv => ReverseFollowsInput
  BY DEF ReverseInv, ReverseFollowsInput
<1> QED BY <1>1, <1>2, ReverseStep, PTL DEF MonitorSpec

-----------------------------------------------------------------------------
(* The composition                                                         *)

\* The behaviours of MCLifecycle are behaviours of the three parts: what is
\* proved of a part holds in the composition that TLC explores.
THEOREM LifecycleHasParts == Spec => BootSpec /\ ShutdownSpec /\ LogSpec
<1>1. Init => BootInit /\ ShutdownInit /\ LogInit
  BY DEF Init
<1>2. [Next]_vars => /\ [BootNext]_bootVars
                     /\ [ShutdownNext \/ ThreadsGone]_shutdownVars
                     /\ [LogNext]_logVars
  BY DEF Next, vars, bootVars, shutdownVars, logVars
<1> QED BY <1>1, <1>2, PTL DEF Spec, BootSpec, ShutdownSpec, LogSpec

=============================================================================
