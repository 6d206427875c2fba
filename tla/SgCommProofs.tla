---------------------------- MODULE SgCommProofs ----------------------------
(***************************************************************************)
(* Proofs about SgComm: the counter and the pending list do in it, whatever*)
(* the other does, only what BinCount and PendingAck say they do, so what  *)
(* is proved of each alone holds of the two in one process.  That the list *)
(* is only ever given lift ids rests on who holds bincount_mutex, a fact   *)
(* proved of the counter.                                                  *)
(***************************************************************************)
EXTENDS SgComm, TLAPS

CP == INSTANCE BinCountProofs
LP == INSTANCE PendingAckProofs

\* The constants are such as the counter assumes.
LEMMA CounterAssumes == CP!BinAssumption
BY CommAssumption DEF CP!BinAssumption

\* So are those of the list.
LEMMA ListAssumes == LP!PendingAssumption
BY CommAssumption DEF LP!PendingAssumption

-----------------------------------------------------------------------------
(* The counter                                                             *)

\* What SgComm calls a step of the counter is one in BinCountProofs' copy of
\* BinCount, one action at a time.
LEMMA SameCounterSteps ==
    ASSUME CounterAlone
    PROVE  CP!CounterStep
<1>1. Counter!Boot => CP!Boot
  BY DEF Counter!Boot, CP!Boot, Counter!write_bincount_to_file, CP!write_bincount_to_file, Counter!NoFile, CP!NoFile
<1>2. Counter!GpioInc => CP!GpioInc
  BY DEF Counter!GpioInc, CP!GpioInc, Counter!Goto, CP!Goto
<1>3. Counter!GpioWrite => CP!GpioWrite
  BY DEF Counter!GpioWrite, CP!GpioWrite, Counter!Goto, CP!Goto, Counter!write_bincount_to_file,
         CP!write_bincount_to_file, Counter!NoFile, CP!NoFile
<1>4. Counter!GpioFormat => CP!GpioFormat
  BY DEF Counter!GpioFormat, CP!GpioFormat, Counter!Goto, CP!Goto
<1>5. Counter!ClrLock => CP!ClrLock
  BY DEF Counter!ClrLock, CP!ClrLock, Counter!Acquire, CP!Acquire, Counter!Goto, CP!Goto
<1>6. Counter!ClrZero => CP!ClrZero
  BY DEF Counter!ClrZero, CP!ClrZero, Counter!Goto, CP!Goto
<1>7. Counter!ClrWrite => CP!ClrWrite
  BY DEF Counter!ClrWrite, CP!ClrWrite, Counter!Goto, CP!Goto, Counter!write_bincount_to_file,
         CP!write_bincount_to_file, Counter!NoFile, CP!NoFile
<1>8. Counter!ClrRead => CP!ClrRead
  BY DEF Counter!ClrRead, CP!ClrRead, Counter!Goto, CP!Goto, Counter!read_bincount_from_file, CP!read_bincount_from_file, Counter!NoFile, CP!NoFile
<1>9. Counter!ClrFormat => CP!ClrFormat
  BY DEF Counter!ClrFormat, CP!ClrFormat, Counter!Goto, CP!Goto
<1> QED BY <1>1, <1>2, <1>3, <1>4, <1>5, <1>6, <1>7, <1>8, <1>9 DEF CounterAlone, CP!CounterStep

\* An add_pending call is for a client.
CallsAreClients == \A a \in call : a.fd \in Clients

\* Every step is a step of the counter, or none of its variables changes.
LEMMA CounterStepMaps ==
    ASSUME CallsAreClients, [Next]_vars
    PROVE  [CP!Next]_(CP!vars)
<1>1. UNCHANGED counterVars => UNCHANGED CP!vars
  BY DEF counterVars, CP!vars
<1>2. CASE Lift
  <2>1. Counter!GpioLock => CP!GpioLock
    BY DEF Counter!GpioLock, CP!GpioLock, Counter!Acquire, CP!Acquire, Counter!Goto, CP!Goto
  <2> QED BY <1>2, <2>1 DEF Lift, CP!Next, CP!CounterStep
<1>3. CASE CounterAlone
  BY <1>3, SameCounterSteps DEF CP!Next
<1>4. ASSUME NEW t \in {"gpio", "clr"}, EndBroadcast(t)
      PROVE  [CP!Next]_(CP!vars)
  <2>1. Counter!GpioBroadcast => CP!GpioBroadcast
    BY DEF Counter!GpioBroadcast, CP!GpioBroadcast, Counter!Goto, CP!Goto
  <2>2. Counter!ClrBroadcast => CP!ClrBroadcast
    BY DEF Counter!ClrBroadcast, CP!ClrBroadcast, Counter!Goto, CP!Goto
  <2> QED BY <1>1, <1>4, <2>1, <2>2 DEF EndBroadcast, CP!Next, CP!CounterStep
<1>5. CASE ListClients
  <2>1. Counter!GpioList => CP!GpioList
    BY DEF Counter!GpioList, CP!GpioList, Counter!Remaining, CP!Remaining, Counter!Goto, CP!Goto
  <2> QED BY <1>5, <2>1 DEF ListClients, CP!Next, CP!CounterStep
<1>6. CASE \/ \E c \in Clients : CallAddPending(c)
           \/ \E t \in {"gpio", "clr"} : BeginBroadcast(t) \/ BroadcastPush(t)
           \/ SendTakes \/ SendCleans \/ Answer
  BY <1>1, <1>6 DEF CallAddPending, BeginBroadcast, BroadcastPush, SendTakes, SendCleans,
                    Answer
<1>7. ASSUME NEW a \in call, AddPending(a)
      PROVE  CP!Next
  <2>1. Counter!GpioPend(a.fd)
    BY <1>7 DEF AddPending
  <2>2. CP!GpioPend(a.fd)
    BY <2>1 DEF Counter!GpioPend, CP!GpioPend, Counter!Remaining, CP!Remaining,
                Counter!Goto, CP!Goto
  <2> QED BY <2>2 DEF CP!Next, CallsAreClients
<1>8. ASSUME NEW c \in Clients, NEW k \in Keys, ClientAcks(c, k)
      PROVE  UNCHANGED CP!vars
  BY <1>1, <1>8 DEF ClientAcks
<1>9. CASE ListAlone
  BY <1>1, <1>9 DEF ListAlone
<1>10. CASE Crash
  <2>1. Counter!Crash => CP!Crash
    BY DEF Counter!Crash, CP!Crash, Counter!Actors, CP!Actors
  <2> QED BY <1>10, <2>1 DEF Crash, CP!Next
<1>11. CASE UNCHANGED vars
  BY <1>1, <1>11 DEF vars
<1> QED BY <1>2, <1>3, <1>4, <1>5, <1>7, <1>8, <1>9, <1>10, <1>11, <1>6 DEF Next

\* Only CallAddPending makes a call, for one of the clients.
LEMMA CallsStep ==
    ASSUME CallsAreClients, [Next]_vars
    PROVE  CallsAreClients'
<1>1. CASE call' = call \/ call' = {}
  BY <1>1 DEF CallsAreClients
<1>2. CASE \E c \in Clients : CallAddPending(c)
  BY <1>2 DEF CallAddPending, CallsAreClients
<1>3. \/ call' = call \/ call' = {}
      \/ \E c \in Clients : CallAddPending(c)
  BY DEF Next, vars, glue, Lift, CounterAlone, BeginBroadcast, BroadcastPush, EndBroadcast,
         ListClients, SendTakes, SendCleans, Answer, AddPending, ClientAcks, ListAlone, Crash
<1> QED BY <1>1, <1>2, <1>3

\* In sg-comm.c the counter does nothing but what BinCount says, whatever the
\* pending list, its threads and its mutex do in the same process.
THEOREM CounterRuns == Spec => CP!Spec
<1>1. Init => CP!Init /\ CallsAreClients
  BY DEF Init, Counter!Init, CP!Init, CallsAreClients, Counter!Count, CP!Count,
         Counter!NoFile, CP!NoFile, Counter!Actors, CP!Actors
<1>2. CallsAreClients /\ [Next]_vars => CallsAreClients'
  BY CallsStep
<1>3. CallsAreClients /\ [Next]_vars => [CP!Next]_(CP!vars)
  BY CounterStepMaps
<1> QED BY <1>1, <1>2, <1>3, PTL DEF Spec, CP!Spec

\* A lift id is in the file before it leaves the critical section, with the
\* pending list at work in the same process.
THEOREM CountIsDurable == Spec => []CP!VisibleIsDurable
BY CounterRuns, CounterAssumes, CP!CountIsDurable, PTL

\* No lift id is given out twice before the next clear, with the pending list at
\* work in the same process.
THEOREM LiftIdsAreFresh == Spec => CP!LiftIdsFresh
BY CounterRuns, CounterAssumes, CP!LiftIdsAreFresh, PTL

\* A clear announces the count a restart would resume from, with the pending list
\* at work in the same process.
THEOREM ClearsAgree == Spec => CP!ClearAgrees
BY CounterRuns, CounterAssumes, CP!ClearsAgree, PTL

-----------------------------------------------------------------------------
(* The pending list                                                        *)

\* A step of one part of the list is one in PendingAckProofs' copy of PendingAck.
LEMMA SameListSteps ==
    /\ \A c \in Clients, k \in Keys : List!AckArrives(c, k) => LP!AckArrives(c, k)
    /\ \A c \in Clients, k \in Keys : List!add_pending(c, k) => LP!add_pending(c, k)
    /\ List!AckPop => LP!AckPop
    /\ \A t \in task : List!AckMark(t) => LP!AckMark(t)
    /\ List!MgrStep => LP!MgrStep
    /\ List!Tick => LP!Tick
    /\ List!SendTakes => LP!SendTakes
    /\ List!OtherSend => LP!OtherSend
    /\ List!ProcessDies => LP!ProcessDies
<1>1. \A c \in Clients, k \in Keys : List!AckArrives(c, k) => LP!AckArrives(c, k)
  BY DEF List!AckArrives, LP!AckArrives
<1>2. \A c \in Clients, k \in Keys : List!add_pending(c, k) => LP!add_pending(c, k)
  BY DEF List!add_pending, LP!add_pending, List!MutexFree, LP!MutexFree, List!NewEntry, LP!NewEntry
<1>3. List!AckPop => LP!AckPop
  BY DEF List!AckPop, LP!AckPop
<1>4. \A t \in task : List!AckMark(t) => LP!AckMark(t)
  BY DEF List!AckMark, LP!AckMark, List!MutexFree, LP!MutexFree, List!Matches, LP!Matches, List!First, LP!First
<1>5. List!MgrStep => LP!MgrStep
  <2>1. /\ List!MgrWake => LP!MgrWake
        /\ List!MgrLock => LP!MgrLock
        /\ List!MgrUnlock => LP!MgrUnlock
    BY DEF List!MgrWake, LP!MgrWake, List!MgrLock, LP!MgrLock, List!MgrUnlock, LP!MgrUnlock
  <2>2. \A e \in pending : List!MgrDrop(e) => LP!MgrDrop(e)
    BY DEF List!MgrDrop, LP!MgrDrop, List!At, LP!At, List!Done, LP!Done
  <2>3. \A e \in pending : List!MgrSkip(e) => LP!MgrSkip(e)
    BY DEF List!MgrSkip, LP!MgrSkip, List!At, LP!At, List!Done, LP!Done, List!Expired, LP!Expired
  <2>4. \A e \in pending : List!MgrResend(e) => LP!MgrResend(e)
    BY DEF List!MgrResend, LP!MgrResend, List!At, LP!At, List!Done, LP!Done, List!Expired, LP!Expired
  <2> QED BY <2>1, <2>2, <2>3, <2>4 DEF List!MgrStep, LP!MgrStep
<1>6. List!Tick => LP!Tick
  BY DEF List!Tick, LP!Tick, List!Older, LP!Older, List!MaxAge, LP!MaxAge
<1>7. List!SendTakes => LP!SendTakes
  BY DEF List!SendTakes, LP!SendTakes
<1>8. List!OtherSend => LP!OtherSend
  BY DEF List!OtherSend, LP!OtherSend
<1>9. List!ProcessDies => LP!ProcessDies
  BY DEF List!ProcessDies, LP!ProcessDies
<1> QED BY <1>1, <1>2, <1>3, <1>4, <1>5, <1>6, <1>7, <1>8, <1>9

\* An add_pending call is for a client and for a lift id.
CallsAreLifts == \A a \in call : a.fd \in Clients /\ a.key \in Keys

\* The callback reads bincount without the mutex, but what it reads is a count.
LEMMA LiftsStep ==
    ASSUME CallsAreLifts, CP!InBounds, [Next]_vars
    PROVE  CallsAreLifts'
<1>1. CASE call' = call \/ call' = {}
  BY <1>1 DEF CallsAreLifts
<1>2. CASE \E c \in Clients : CallAddPending(c)
  BY <1>2 DEF CallAddPending, CallsAreLifts, CP!InBounds, CP!Count, Keys
<1>3. \/ call' = call \/ call' = {}
      \/ \E c \in Clients : CallAddPending(c)
  BY DEF Next, vars, glue, Lift, CounterAlone, BeginBroadcast, BroadcastPush, EndBroadcast,
         ListClients, SendTakes, SendCleans, Answer, AddPending, ClientAcks, ListAlone, Crash
<1> QED BY <1>1, <1>2, <1>3

\* Every step is a step of the list, or none of its variables changes.
LEMMA ListStepMaps ==
    ASSUME CallsAreLifts, [Next]_vars
    PROVE  [LP!Next]_(LP!vars)
<1>1. UNCHANGED listVars => UNCHANGED LP!vars
  BY DEF listVars, LP!vars
<1>2. CASE \/ Lift \/ CounterAlone \/ ListClients \/ SendCleans
           \/ \E t \in {"gpio", "clr"} : BeginBroadcast(t) \/ EndBroadcast(t)
           \/ \E c \in Clients : CallAddPending(c)
  BY <1>1, <1>2 DEF Lift, CounterAlone, ListClients, SendCleans, BeginBroadcast,
                    EndBroadcast, CallAddPending
<1>3. CASE (\E t \in {"gpio", "clr"} : BroadcastPush(t)) \/ SendTakes \/ Answer
  BY <1>3, SameListSteps DEF BroadcastPush, SendTakes, Answer, LP!Next, LP!ListStep
<1>4. ASSUME NEW a \in call, AddPending(a)
      PROVE  LP!Next
  BY <1>4, SameListSteps DEF AddPending, CallsAreLifts, LP!Next
<1>5. ASSUME NEW c \in Clients, NEW k \in Keys, ClientAcks(c, k)
      PROVE  LP!Next
  BY <1>5, SameListSteps DEF ClientAcks, LP!Next, LP!ListStep
<1>6. CASE ListAlone
  BY <1>6, SameListSteps DEF ListAlone, LP!Next, LP!ListStep
<1>7. CASE Crash
  BY <1>7, SameListSteps DEF Crash, LP!Next
<1>8. CASE UNCHANGED vars
  BY <1>1, <1>8 DEF vars
<1> QED BY <1>2, <1>4, <1>5, <1>6, <1>7, <1>8, <1>3 DEF Next

\* The pending list does nothing in sg-comm.c but what PendingAck says, and all
\* that is added to it are lift ids for clients.
THEOREM ListRuns == Spec => LP!Spec
<1>1. Init => LP!Init /\ CallsAreLifts
  BY DEF Init, List!Init, LP!Init, CallsAreLifts, List!Ids, LP!Ids
<1>2. CallsAreLifts /\ CP!InBounds /\ [Next]_vars => CallsAreLifts'
  BY LiftsStep
<1>3. CallsAreLifts /\ [Next]_vars => [LP!Next]_(LP!vars)
  BY ListStepMaps
<1>4. Spec => []CP!InBounds
  BY CounterRuns, CounterAssumes, CP!CountStaysInBounds, PTL
<1> QED BY <1>1, <1>2, <1>3, <1>4, PTL DEF Spec, LP!Spec

\* At most one entry per client, a scan that stays inside the list, and no lift
\* sent again more than MAX_RETRIES times, when the entries are added by the
\* callback and the acknowledgements are of ids told.
THEOREM ListIsSound == Spec => [](LP!PendingInv /\ LP!ResendBudget)
BY ListRuns, ListAssumes, LP!PendingInvariant, LP!ResendsAreBounded, PTL

\* Only a client's latest lift is sent again, and not after its acknowledgement
\* was processed, whatever clears and restarts do to the count meanwhile.
THEOREM ResendsAreCurrent == Spec => LP!NoStaleResend
BY ListRuns, ListAssumes, LP!ResendsAreCurrent, PTL

=============================================================================
