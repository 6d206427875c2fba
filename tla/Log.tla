-------------------------------- MODULE Log --------------------------------
(***************************************************************************)
(* The log of sg-log.c: all threads write to one file under log_mutex.  A  *)
(* record is three fprintf calls into the buffer of log_fp and one fflush; *)
(* before it, a file that has reached log_max_size is truncated by opening *)
(* it anew.  log_fp is tested before the mutex is taken; after a rotation  *)
(* that failed it is NULL and the fprintf that follows ends the process.   *)
(*                                                                         *)
(* Abstracted: what is written.  Each fprintf is a piece of one byte,      *)
(* <<thread, 1 .. 3>>; a record fits the buffer of stdio.  log_close is    *)
(* the last step of Shutdown.                                              *)
(***************************************************************************)
EXTENDS Integers, SequencesExt

CONSTANTS Loggers,  \* threads that log
          MaxSize,  \* log_max_size, in pieces
          OldSizes, \* sizes of the files another process may have left
          MaxLost   \* bound: no call is made when the file is larger, which
                    \* only one that is not rotated can be

Pieces == 3
Steps  == <<"print1", "print2", "print3", "fflush">>
Nobody == "nobody"
Old    == <<Nobody, Pieces>>

ASSUME LogAssumption ==
    /\ Nobody \notin Loggers
    /\ MaxSize \in Nat \ {0} /\ MaxLost \in Nat /\ OldSizes \subseteq 0 .. MaxSize

VARIABLES alive,    \* the process runs
          log_fp,   \* "open" or "NULL"
          log_file, \* the pieces in the file
          linked,   \* the file has still its name
          buffer,   \* pieces that stdio has and the file has not
          mutex,    \* holder of log_mutex
          step      \* step[t]: the next step of t in log_write, "idle" outside

logVars == <<alive, log_fp, log_file, linked, buffer, mutex, step>>

LogInit ==
    /\ alive = TRUE
    /\ log_fp = "open"
    /\ \E n \in OldSizes : log_file = [i \in 1 .. n |-> Old]
    /\ linked = TRUE
    /\ buffer = <<>>
    /\ mutex = Nobody
    /\ step = [t \in Loggers |-> "idle"]

-----------------------------------------------------------------------------
(* log_write                                                               *)

Moves(t, from, to) == alive /\ step[t] = from /\ step' = [step EXCEPT ![t] = to]

\* Without a log_fp the call returns at once.
Call(t) ==
    /\ log_fp = "open"
    /\ Len(log_file) <= MaxLost
    /\ Moves(t, "idle", "lock")
    /\ UNCHANGED <<alive, log_fp, log_file, linked, buffer, mutex>>

Lock(t) ==
    /\ mutex = Nobody
    /\ Moves(t, "lock", "rotate")
    /\ mutex' = t
    /\ UNCHANGED <<alive, log_fp, log_file, linked, buffer>>

\* Fault: a file of exactly the largest size is not rotated.
Full_over == linked /\ Len(log_file) > MaxSize

\* stat fails if the name is gone; then the file is not rotated.
Full == linked /\ Len(log_file) >= MaxSize

NoRotation(t) ==
    /\ ~Full
    /\ Moves(t, "rotate", Steps[1])
    /\ UNCHANGED <<alive, log_fp, log_file, linked, buffer, mutex>>

\* fclose, and fopen with "w".
Rotate(t) ==
    /\ Full
    /\ Moves(t, "rotate", Steps[1])
    /\ log_file' = <<>>
    /\ buffer' = <<>>
    /\ UNCHANGED <<alive, log_fp, linked, mutex>>

RotateFails(t) ==
    /\ Full
    /\ Moves(t, "rotate", Steps[1])
    /\ log_file' = log_file \o buffer
    /\ buffer' = <<>>
    /\ log_fp' = "NULL"
    /\ UNCHANGED <<alive, linked, mutex>>

\* Fault: log_fp is not buffered, each piece is in the file at once.
fprintf_unbuffered(t, i) ==
    /\ log_fp = "open"
    /\ Moves(t, Steps[i], Steps[i+1])
    /\ log_file' = Append(log_file, <<t, i>>)
    /\ UNCHANGED <<alive, log_fp, linked, buffer, mutex>>

fprintf(t, i) ==
    /\ log_fp = "open"
    /\ Moves(t, Steps[i], Steps[i+1])
    /\ buffer' = Append(buffer, <<t, i>>)
    /\ UNCHANGED <<alive, log_fp, log_file, linked, mutex>>

fflush(t) ==
    /\ Moves(t, "fflush", "unlock")
    /\ log_file' = log_file \o buffer
    /\ buffer' = <<>>
    /\ UNCHANGED <<alive, log_fp, linked, mutex>>

Unlock(t) ==
    /\ Moves(t, "unlock", "idle")
    /\ mutex' = Nobody
    /\ UNCHANGED <<alive, log_fp, log_file, linked, buffer>>

-----------------------------------------------------------------------------
(* The process and its surroundings                                        *)

Ends ==
    /\ alive' = FALSE
    /\ log_fp' = "NULL"
    /\ buffer' = <<>>
    /\ mutex' = Nobody
    /\ step' = [t \in Loggers |-> "idle"]
    /\ UNCHANGED <<log_file, linked>>

\* fprintf of a NULL stream.
PrintToNull(t) == alive /\ log_fp = "NULL" /\ step[t] \in ToSet(Steps) /\ Ends

Killed == alive /\ Ends

\* The next process; a file without a name is gone with the last one.
log_init ==
    /\ ~alive
    /\ alive' = TRUE
    /\ log_fp' = "open"
    /\ log_file' = IF linked THEN log_file ELSE <<>>
    /\ linked' = TRUE
    /\ UNCHANGED <<buffer, mutex, step>>

\* The file, which is in /tmp, is removed.
Unlink ==
    /\ linked
    /\ linked' = FALSE
    /\ UNCHANGED <<alive, log_fp, log_file, buffer, mutex, step>>

LogNext ==
    \/ \E t \in Loggers :
          \/ Call(t) \/ Lock(t) \/ NoRotation(t) \/ Rotate(t) \/ RotateFails(t)
          \/ \E i \in 1 .. Pieces : fprintf(t, i)
          \/ fflush(t) \/ Unlock(t) \/ PrintToNull(t)
    \/ Killed \/ log_init \/ Unlink

LogSpec == LogInit /\ [][LogNext]_logVars

-----------------------------------------------------------------------------
(* Properties                                                              *)

\* The file is bounded over all restarts: the size is tested and the record
\* written in one critical section, so that one record at most goes past
\* log_max_size, whatever the number of threads.  A file that was removed is
\* not found by stat and grows.
LogIsBounded == linked => Len(log_file) < MaxSize + Pieces

\* Records are whole and not mixed, and no death leaves half of one: each
\* piece follows the piece of the same thread before it.
RecordsAreWhole ==
    /\ log_file # <<>> => Last(log_file)[2] = Pieces
    /\ \A i \in DOMAIN log_file :
          log_file[i] # Old =>
             IF log_file[i][2] = 1 THEN i = 1 \/ log_file[i-1][2] = Pieces
             ELSE i > 1 /\ log_file[i-1] = <<log_file[i][1], log_file[i][2] - 1>>

=============================================================================
