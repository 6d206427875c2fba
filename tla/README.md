# SG-Muni-Gen1: a TLA+ verification of the bin-lift server

The program runs on a vehicle gateway of a waste-collection truck. It watches
digital inputs, counts bin lifts, keeps the count in a file and tells it to TCP
clients, which acknowledge each lift. This directory holds TLA+ modules that
model it, TLC configurations that check them on small instances and TLAPS proofs
for every value of the parameters. Line numbers refer to the C files in
`src/src`; `PROJECT.json` maps every definition to the lines it models.

## 1. Inventory

### Threads

| thread | code | waits for |
|---|---|---|
| main | `main` | at boot nobody; at the end the joins |
| GPIO monitor | `gpio_monitor_task`, runs `gpio_change_callback` | 5 ms; inside the callback `bincount_mutex`, `clients_mtx`, `send_q`, `pending_mtx` |
| io | `io_loop` | epoll, `clients_mtx`, `recv_q` |
| worker | `worker_loop`, runs `on_message` | `recv_q` (500 ms), task queues (100 ms) |
| send | `send_loop` | `send_q` (500 ms), `clients_mtx` |
| query, clear, ack | `bin_query_handler`, `bin_clr_handler`, `bin_ack_handler` | their task queue (500 ms), `bincount_mutex` or `pending_mtx`, `send_q` |
| manager | `ack_manager` | 1 s, `pending_mtx`, then `send_q` with `pending_mtx` held |

All of them also wait for `log_mutex`, for the time of a write.

### Components

| component | state | operations | what makes it correct |
|---|---|---|---|
| ring buffer (`sg-ringbuffer.c`) | `buf`, `head`, `tail`, `cnt`, a mutex, two condition variables | `rb_create`, `rb_push`, `rb_timed_push`, `rb_pop`, `rb_timed_pop`, `rb_destroy` | a FIFO queue for any number of callers; no lost wake-up; timeouts lose and duplicate nothing |
| bin counter (`main.c`, `sg-comm.c`) | `bincount`, `binrecord.bin`, `bincount_mutex` | lift, clear, query, boot | file and memory agree between operations; no lift id given out twice, restarts included |
| pending list (`sg-comm.c`) | `pending_head`, `pending_mtx`, `bin_ack_tasks` | `add_pending`, `bin_ack_handler`, `ack_manager` | one entry per client; bounded resends; nothing superseded or acknowledged is resent; the list drains |
| message handling (`sg-comm.c`) | the two above, the three task queues | `gpio_change_callback`, `on_message` | the callback returns; no task is lost or freed twice; a stuck handler stops nobody else |
| request parser (`sg-comm.c`) | none | `parse_client_request` | a request that arrived whole is understood, whatever is behind it |
| TCP server (`sg-tcp.c`) | client array, `clients_mtx`, `recv_q`, `send_q`, kernel descriptors | accept, read, clean up, send, broadcast, stop | the array is the set of open connections; messages reach the right client; nobody waits for ever |
| GPIO monitor (`sg-gpio-monitor.c`) | last and current sample, the change record | sample, callback, start, stop | every lift counted once; the reverse message follows the input |
| start-up and shutdown (`main.c`, `sg-comm.c`, `sg-tcp.c`) | threads, queues | `start_sg_server`, `stop_sg_server`, `SgTcpServer_stop`, `SgTcpServer_free` | all threads joined before what they use is freed; the stop ends |
| configuration (`main.c`) | `config.json`, `gpio_bias`, the bias in the hardware, serial number | read, write defaults | the levels used are the levels in the file; an operator's file is not lost |
| log (`sg-log.c`) | `log_fp`, its buffer, the file, `log_mutex` | `log_init`, `log_write`, rotation, `log_close` | bounded size; whole records |
| cJSON (vendored) | trees on the heap, print and parse buffers | create, add, insert, detach, replace, duplicate, delete, print, parse, compare | lists stay linked; nothing leaks; print and parse are inverse; no write past a buffer |
| GPIO access (`sg-gpio.c`) | shared memory, a message queue | read inputs, set bias | (steps of the boot and of the monitor) |

### What is hard

* Interleavings: five threads push to `send_q`; two threads clean up the same
  connection; a clear or an acknowledgement runs between the broadcast of a lift
  and its entry in the pending list; three threads log while the file is rotated.
* Waiting with a mutex held: `SgTcpServer_broadcast` holds `clients_mtx` and
  `ack_manager` holds `pending_mtx` while `rb_push` waits for room in `send_q`;
  `send_loop`, which makes that room, wants `clients_mtx` after a send that failed.
* Stale values: `now` in `ack_manager` is read before the mutex; `bincount` is
  read without its mutex at `sg-comm.c:319`; queued messages name clients by
  descriptor numbers that the kernel reuses; the read buffer keeps what `malloc`
  left behind the bytes of a request.
* Ownership: a task is freed by whoever holds it last; queues are freed while a
  thread that pushes to them still runs.
* Crashes: the process can be killed (`killall` in the installation, SIGPIPE from
  `send`, a write to a NULL log) between counting, saving and announcing a lift,
  in the middle of writing `config.json`, or of a log record.
* Failures of one step of several: `accept`, `read`/`write` of the count, `send`,
  `msgsnd` of the bias, the rotation of the log, `malloc` in a nested parse.

`PROJECT.json` lists the hazards with their lines and the properties that cover
them.

## 2. Modules

```
BoundedQueue <--implements-- RingBuffer  <-- RingBufferProofs
BinCount    <-- BinCountProofs
PendingAck  <-- PendingAckProofs
BinCount + PendingAck --INSTANCE--> SgComm <-- SgCommProofs
    (SgCommProofs instantiates BinCountProofs and PendingAckProofs)
Requests    <-- RequestsProofs   (stream, parser, task queues; queues as
                                  BoundedQueue promises)
TcpServer   <-- TcpServerProofs
Boot + Shutdown + Log --EXTENDS--> MCLifecycle
MCLifecycle, GpioMonitor <-- LifecycleProofs
JsonSeq <--implements-- JsonList <-- JsonListProofs
BinCount + GpioMonitor + JsonList + JsonText --EXTENDS--> MCParts
    (parts without common state, each explored alone)
```

`MC...` modules extend a specification for TLC and add symmetry sets and sample
data where a run uses them. Operators introduced with a comment "Fault: ..." are
not part of any specification: each is a plausible wrong version of the definition
after it, used to confirm that a property tells the two apart.

**RingBuffer** models every caller thread with a place (outside, at the mutex,
asleep on the condition variable, woken, timed out). All shared fields are
touched only under the mutex, which is given up only inside a wait, so the code
between two such points is one action: `Push` is the whole of `rb_push` and
`rb_timed_push` after the loop, the signal included. A signal wakes any one
waiter or, without one, is lost; waits may end spuriously. **BoundedQueue** is
the promise: a FIFO queue, with `Refuse` for a timed push that gives up.

**BinCount** has one action per statement that touches the counter or its file in
`gpio_change_callback`, `bin_clr_handler` and `bin_query_handler`, the boot of
`main`, and `Crash` at any point. `Faults` says which file operations may fail; a
failed read leaves the variable. A failed write leaves the file as it was or
empty: when `fopen` fails with `rb+` for a passing reason, `wb+` empties the file
before the write fails. A broadcast is the step in which the call returns; when
the server lets it return is in SgComm. Two history variables
carry the properties: `issued`, the lift ids assembled since the last clear that
reached the file, and `failed`, the kinds of file operation that have failed so
far. What the file promises is stated for behaviours with `failed = {}`;
`ClearAgrees` also covers failed writes.

**PendingAck** models the list as a set of entries whose ids give the order
(`add_pending` inserts at the head), `ack_manager` entry by entry, since it
may block in the middle of a scan, and `bin_ack_handler` with its queue. Time is
relative (`age`, `lag`) and advances by `Tick`; `MaxLag` bounds how long a clock
reading lies unused. Entries older than `TIMEOUT_SEC + MaxLag` need not be told
apart: they are due in every scan. Other threads fill `send_q` at will (`OtherSend`).

**SgComm** instantiates both with shared variables. The two meet in the loop of
`gpio_change_callback`: `CallAddPending` evaluates the arguments (an unlocked
read of `bincount`), `AddPending` is the call once it has the mutex.
Clients acknowledge any id they may ever have been told, so acknowledgements can
be early, late, duplicated, or from before a clear or a restart.
They meet again in the server: `caster` holds `clients_mtx` for a broadcast (a
lift, a reverse input or a clear), `BroadcastPush` is one `rb_push` of its loop,
which waits while `send_q` is full, `EndBroadcast` gives the mutex back, and
`ListClients` (`SgTcpServer_get_clients`) needs it too. `SendTakes` may fail and
`send_loop` then waits for the mutex (`SendCleans`). The array is only a number of
clients here. `MCSgComm` gives TLC a view that leaves out the histories, which
its two properties do not read.

**Requests** follows a request from the socket to its handler. A stream is a
sequence of pieces (`{BIN`, `?;}`, `=`, digits, `;}`); `Read` takes any number of
them, may cut the last one, and leaves anything of `Stale` behind it, since
nothing terminates the buffer. `parse_client_request` is an operator on that
text, with an int that wraps round. `WorkerPush`, `WorkerWaits` and `WorkerDrop` are the
timed push: it waits if it finds the queue full, and when the time is over it gives
up without looking at the queue again. `live` is the set of allocated tasks.

**TcpServer** distinguishes connections from descriptor numbers; `sg-tcp.c` sees
only numbers. `cleanup_connection` is two steps (close, then remove under the
mutex) in two threads. `evs` is the batch of events of one `epoll_wait`. The
kernel may give a number out again as soon as it is closed. A failed `accept`
leaves the connection in the backlog (`EMFILE`, to be reported again) or has lost
it (aborted), and -1 goes into the array either way; `MaxFails` bounds them. A
broadcast holds the mutex over all its pushes (`holder`). The history
variable `raced` collects the numbers that `accept` returned while `send_loop`
was cleaning up the same number: about those nothing is promised.

**GpioMonitor** has the sampling loop and the two branches of the callback.
`info` is uninitialised in the code, so it starts with any contents, keeps them
until a callback has run, and is reset after each callback; the history variable
`leftover` remembers what the stack held. `Hold = TRUE` restricts
the world to inputs that keep a level until it has been sampled. A failing
`gpio_read_inputs` in the loop is a round without a sample and so a stuttering
step; one before the loop ends the thread and is not modelled.

**Boot** is `main` from `log_init` to `start_sg_server`, over restarts. The file is
`good`, `bad` (does not parse), `part` (a write cut off), `big` (fills the 512
bytes of the buffer) or `absent`; the operator writes it while the process is
down; `hardware` keeps its bias when the process dies. `failed` remembers which
reads and `msgsnd`s failed though they need not have. Every early return of
`main` is `Die`.

**Shutdown** is `stop_sg_server` and the end of `main` against all threads.
`stage` counts the statements of main, each thread is at the test of its loop,
waiting, in a push, or done; `Uses(t)` says which objects a thread may still touch,
`freed` which are gone. `clients_mtx` is modelled with those who want it: the two
broadcasters, `SgTcpServer_get_clients`, `cleanup_connection` of either thread and
the registration of a connection. `bincount_mutex` and `pending_mtx` are left out: whoever has
the first waits for nothing, and whoever has the second waits for room in
`send_q` at most, which is modelled. Nothing of this program starts the stop: `running` is cleared
only by `handle_sigint`, which is installed by nothing. It is modelled from the
moment `running` is cleared.

**Log** has one action per step of `log_write` (lock, test of the size, rotation,
three `fprintf`, `fflush`, unlock), a failing rotation, the death and restart of
the process, and the removal of the file by others (it is in `/tmp`).

**JsonList** is the heap of cJSON items with `next`, `prev` and `child`, one
action per call of the list interface, written pointer by pointer. What
`cJSON_Delete` and `cJSON_Duplicate` reach by recursion is the least set closed
under the pointers they follow (`Reached`); a new item has the lowest free
address, and the copies of a tree have any free ones. When there is no memory for
the new name, a replacement loses its old one (`ReplaceLosesName`). **JsonSeq** is
what the header promises: a sequence of children for each item. **JsonText** has
the print buffer with its doubling, the printers, the storing of a text of which
any part may be lost, and the parsers with a `malloc` that fails after any number
of allocations. Numbers are the ints of this program, of which the relative
tolerance of `cJSON_Compare` tells any two apart, and names are compared as they
are (`case_sensitive`). Texts are sequences of tokens with their width in bytes, so that
buffer sizes are exact while spelling is left out.

## 3. Runs

Passing runs:

| run | instance | checks |
|---|---|---|
| `ring_mpmc` | 2 pushers, 2 poppers, capacity 2, 2 items | the inductive invariant (indices, count and slots agree), no lost wake-up on either side, `FullDrains` |
| `ring_task` | one blocking and one timed caller on each side, capacity 2 | the ring buffer implements the FIFO queue, timeouts included; timed calls return |
| `parts` | counter: one client, count up to 3, reads and writes may fail, deaths at any point. Monitor: 3 lifts, either polarity, any leftover in `info`. cJSON: 4 items, all calls; 14 trees, buffers of all interesting sizes, memory that ends anywhere, texts cut anywhere | the counter's inductive invariant, durability and fresh ids while nothing failed, clears that agree with a restart though writes fail; the monitor's, lifts counted once, the reverse message after the last sample; lists linked and equal to sequences of children, deletes free all, prints exact, round trip, parts never parse, failed parses leak nothing, compare is equality |
| `pending_safety` | 2 clients, 3 lifts, 2 retries, timeout 1 s, lag 1 s, `send_q` of 1 | one entry per client and a scan inside the list (`PendingInv`), resend budget, no stale resend |
| `comm` | one client, one lift between clears, one retry, `send_q` of 1, sends that fail, broadcasts of lifts, clears and reverse inputs | the callback returns and the list drains, with no acknowledgement promised, in all cases but the deadlock `SendStuck` |
| `tcp_server` | 2 connections, 2 descriptors given out again at once, `send_q` and `recv_q` of 1, one broadcast, one failing `accept` | the array is exact but for a raced number; only messages of connections that are gone go astray; a broadcast ends and connections are accepted in all cases but `SendStuck` |
| `requests` | one client, 3 requests of all kinds, cut anywhere, 3 leftovers, queues of 1 | whole requests are understood; each task has one owner; `on_message` returns though handlers are stuck |
| `lifecycle` | 2 channels, any configuration, restarts; 7 threads (`bin_clr_handler`, which broadcasts, and `bin_ack_handler`, which sends nothing; `ack_manager` sends to one client as `bin_query_handler` does), up to 2 listed clients, `recv_q` and `send_q` of 1; 3 threads that log, size limit 4 | levels and hardware agree; operator's file kept; objects outlive their users; the stop ends in all cases but `IoStuck` and `SendStuck`; the log is bounded and its records whole |

Runs in which TLC finds a comment or header of the repository contradicted by the
code (quoted in `PROJECT.json`, `findings`):

| run | what happens |
|---|---|
| `tcp_lost_client` | both threads clean up one connection, its number is reused in between, and the new connection is dropped from the array |
| `tcp_wrong_client` | an answer waits in `send_q` while its client leaves and another gets the number: the other client receives it |
| `tcp_deadlock` | a broadcast waits for room in `send_q` with `clients_mtx` held, and `send_loop`, the only thread that makes room, waits for `clients_mtx` |
| `requests_touch` | `on_message` logs a field of the task it has pushed; the handler may have freed it |

Why the bounds are enough. Every interesting situation of the ring buffer (wrap
round, full, empty, more waiters than slots, a stolen slot) occurs with two slots
and four threads. The counter needs a lift, a clear and a crash in each other's
critical sections and a restart, hence a count of three. The list needs a client
whose entry is replaced while another's is scanned and a second replacement, hence
two clients and three lifts; the code's 3 retries are 2 there, which tells a first
resend from a last one, and its 5 s are 1 s, which tells a due entry from one that
is not. `send_q` of 1 is full as soon as anything is queued. In `tcp_server` two
connections suffice for a swap-with-last removal and for a number's second owner;
with one slot a broadcast to two clients waits in the middle whatever else is
queued, and the deadlock is reached. `comm` and `lifecycle` have one slot for the
same reason. In `comm` the clock reading is fresh (`MaxLag` 0): an older one, which `pending_safety` has, makes
the manager find an entry due in a later scan and does not keep it from finding it. In `requests` two requests in the stream give
every joined or split read, and a third finds a full queue behind a busy handler. `INT_MAX` is 15 there, so
that one of the two-digit numbers overflows and one does not. In `lifecycle` one
channel in the bias mask and one outside it are the two classes of channels;
`recv_q` of 1 can be filled after the worker's last pop; a limit of 4 pieces
lies inside a record of 3, so that a file can be one piece short of it, at it and
past it. Four items in `parts` allow a container with three children, and so a
first, middle and last one, or a nested one.

Deadlock checking is off in the runs of TcpServer, Requests and the parts, where the
number of connections, requests or allocations is bounded, and in `lifecycle`, where the
process comes to its end.

### What the code does that the properties step around

The models have these behaviours; the properties say where they stop, and
`PROJECT.json` lists them as hazards:

* a broadcast that holds `clients_mtx` waits for room in `send_q`, and the send
  thread, cleaning up, waits for `clients_mtx`: both stop for ever, with any number
  of slots (128 in the code), once answers or earlier broadcasts have filled them
  (`sg-tcp.c:237`). `tcp_deadlock` finds it. `BroadcastEnds`, `ConnectsServed`,
  `CallbackReturns`, `ListDrains` and `ShutdownEnds` name it (`SendStuck`) as the
  state in which what they promise does not come, and claim that it is the only
  one (with `IoStuck` for the last);
* messages are handed over after `bincount_mutex` is released, so clients can be
  left with an older count (`sg-comm.c:315`);
* an acknowledgement handled before its entry is listed is forgotten
  (`sg-comm.c:284`), and a clear before `add_pending` files an entry under 0
  (`sg-comm.c:319`): both entries leave the list by their retries only;
* lift ids repeat after a clear, so a late acknowledgement can mark a new lift of
  the same id (`sg-comm.c:285`);
* an answer to a client that has left goes to the next owner of its number
  (`sg-tcp.c:137`): `tcp_wrong_client` finds it, and `OnlyClosedGoAstray` says that
  nobody else gets a client's messages while it is connected;
* the clean-up of one connection takes the next owner of its number out of the
  array (`sg-tcp.c:46`): `tcp_lost_client` finds it, and `ListedUnlessRaced` and
  `NoGhosts` are about the numbers to which that did not happen;
* a failing `accept` registers -1 (`sg-tcp.c:79`), again and again while
  descriptors are short: `NoGhosts` excepts -1, and the runs have one failure;
* of several requests in one read only the first is handled, and the rest of a
  cut one is taken for a request of its own or dropped; leftovers in the buffer
  can complete a cut request (`sg-tcp.c:95`);
* with an active-low reverse input `REVERSE=1` is never sent (`sg-comm.c:368`):
  `ReverseFollowsInput` is about active-high inputs;
* an acknowledged number beyond `INT_MAX` wraps round (`sg-comm.c:194`):
  `WholeRequestUnderstood` is about the others;
* the uninitialised record can make a change of another input count as a lift,
  once (`sg-gpio-monitor.c:35`): `EveryLiftCounted` allows that one lift;
* a failed read of the count at boot starts it at 0 (`main.c:85`);
* a `config.json` that cannot be read, or of 512 bytes or more, is replaced with
  the defaults (`main.c:143`, `:292`), and the first run uses zeros, not the
  defaults it has written (`main.c:127`); one that does not parse is logged with
  a `%s` that has no argument (`main.c:102`);
* the stop frees the task queues before the worker is joined (`sg-comm.c:420`):
  `ObjectsOutliveUsers` excepts that pair; and `io_loop` may be left on a full
  `recv_q` whose consumer has gone (`sg-tcp.c:204`): `ShutdownEnds` names that
  state (`IoStuck`), which is reachable;
* a log that fails to reopen ends the process at the next `fprintf`, and one whose
  name was removed grows without bound (`sg-log.c:24`).

## 4. Fairness

* Ring buffer: a thread inside a function keeps running (scheduler), timers
  expire, and receivers pop again and again, as the thread loops do. Nothing
  makes senders call, and the mutex is not assumed fair.
* SgComm: weak fairness of the clock; strong fairness of the callback's own steps,
  of the pushes and the end of a clear's broadcast, of the send thread and of the
  manager, each of which takes a mutex or a slot of `send_q` that others take too.
  The manager takes `pending_mtx` once a second and sleeps in between, `clients_mtx`
  is free between broadcasts, which come one per lift, clear or reverse, and the
  send thread frees slots, each of which wakes one waiter: a thread that never got
  what it waits for would have to lose every one of infinitely many such windows.
  None of this is assumed to come: in `SendStuck` the mutex is never free again and
  no slot is either, so the assumption asks nothing. Nothing is assumed of lifts,
  clients, queries or the begin of a clear. Crashes are allowed.
* TCP server: weak fairness of `io_loop`, of `worker_loop`, of each answer, of the
  broadcast under way and of `send_loop`; no fairness for clients or the begin of
  a broadcast. Weak fairness is enough for the mutex as broadcasts and connections
  are bounded in the run, so that it is contended finitely often.
* Requests: weak fairness of the worker thread. Nothing is asked of the handlers,
  which may be stuck: that is the question.
* Lifecycle: weak fairness of main once the stop is requested and of each
  thread's own steps (`Step`, in which a wait ends by its timeout or by what it
  waits for). Clients need not send anything. Weak fairness is enough: after the
  stop every thread goes through its loop once more at most, so mutex and slots
  are contended finitely often.

## 5. Proofs

All proofs are for arbitrary constants and check with no unproved leaf.

| theorem | assumes | argument |
|---|---|---|
| `RingInvariant` | capacity > 0, finitely many threads, no thread both pushes and pops | `RingInv`: types, indices and the facts about who holds an argument; modular arithmetic lemmas for the wrap round |
| `RingImplementsQueue` | the same | each step maps to a step of `BoundedQueue` or a stutter; lemmas say that `Push` appends to `Contents` and `Pop` takes its tail |
| `NoLostNotFull`, `NoLostNotEmpty` | no timed pushers (poppers) | counting: a pop frees one slot and wakes one sender; who takes a slot was woken or the slot was already not needed. Cardinality lemmas for adding and removing one thread |
| `CountInvariant`, `CountIsDurable`, `LiftIdsAreFresh` | nothing (they speak of behaviours in which no file operation failed) | `SectionInv`: the mutex holder is the thread inside, and how far apart file and memory are at each place. Durability alone is not inductive: it says nothing inside the section |
| `ClearsAgree` | nothing; writes may fail, reads not | `ClearInv`: a clear keeps memory at 0 until it reads the file back, and then has what a boot would resume from |
| `PendingInvariant`, `ResendsAreBounded`, `ResendsAreCurrent` | retries, timeout and capacities positive | `ListInv`: ids are unique, an entry is its client's latest, its retries equal the resends in the history, and it is marked if its acknowledgement was processed |
| `CountStaysInBounds` | nothing | `InBounds`: count and file up to `MaxBin`, and an increment only below it |
| `MonitorInvariant`, `LiftsCountedOnce` | `Hold` | `InfoInv`: what the change record says while the callback runs, that only the first one can hold a leftover, and that a sampled level is still the input's |
| `ReverseIsTold` | nothing (it speaks of active-high inputs and no leftover) | `ReverseInv`: the reverse input is recorded as changed exactly while its two samples differ, and the last message agrees with the older one. Inputs need not be held: a change that is not sampled is not told and need not be |
| `TypesHold` | the constants' assumptions | queues within their capacities, and what each thread has in hand |
| `ServerInvariant`, `OpenAreListed`, `ListedAreOpen`, `OnlineGetTheirs` | the same; nothing of the kernel but that it gives no number to two open connections | `ServerInv`. `ArrayInv` follows each number that is not in `raced`: one being registered is open, not listed and not in `send_loop`'s hand, one about to be removed is closed. `MessageInv` follows each connection: it has one number as long as it is open, so a message can lose its connection but not meet it under another number |
| `RequestsInvariant`, `RequestsAreUnderstood`, `TasksAreOwnedOnce` | acknowledged numbers are not empty, leftovers are texts, capacities positive | `RequestsInv`: messages begin with the request they record, and the tasks in the worker's hand, the queues and the handlers are pairwise different and together are `live` |
| `LogInvariant`, `LogStaysBounded`, `RecordsStayWhole` | a positive limit; files found at the start within it | `LogInv`: only the holder of `log_mutex` is inside, the buffer is the part of its record it has printed, and from the test to the flush the file is below the limit |
| `ShutdownInvariant`, `ObjectsStay` | the handlers are among the three | `ShutdownInv`: main's stage says which threads are done and which objects are freed |
| `BootInvariant`, `BiasAlwaysAgrees`, `ConfigSurvives` | the channels in the bias mask are channels | `BootInv`: a process has applied the whole of the file or nothing; the defaults are reached from a file that could be read only if the reading failed |
| `TreeInvariant`, `ListsStayLinked`, `DeletesFreeAll` | finitely many items (any number), whose addresses are not NULL | `TreeInv`: the pointers are those of a forest of sequences (no item in two places, no set of items all below itself), free items are blank, and the program holds exactly what is in no list |
| `CallsAreOnSequences` | the same | each call is described by the fields it changes (`IsPut`, `IsTaken`, `IsCopied`), the pointers that result are those of the changed sequences, and `Children` reads these sequences from them: JsonList implements JsonSeq call by call |
| `LifecycleHasParts` | nothing | every step of the composition is a step of one part and leaves the variables of the others |
| `CounterRuns`, and of SgComm `CountIsDurable`, `LiftIdsAreFresh`, `ClearsAgree` | `CommAssumption` | SgComm implements BinCount: every step is a step of the counter or leaves it alone; then the theorems of BinCountProofs, instantiated, apply |
| `ListRuns`, and of SgComm `ListIsSound`, `ResendsAreCurrent` | `CommAssumption` | SgComm implements PendingAck. That `add_pending` is given a lift id although its argument is read without the mutex needs `CountStaysInBounds` of the counter |

`NoLostNotFull` is about `send_q` and `recv_q`, whose pushers all block;
`NoLostNotEmpty` about the `rb_pop` of the API, since the loops of this program
use `rb_timed_pop`. The task queues have timed callers, which may swallow a
signal and give up: for them the properties are order, no loss, and that calls
return.

About descriptor numbers. `sg-tcp.c` knows a connection by its number only, and
POSIX gives the lowest closed number out at once. The one way in which the array
goes wrong is an `accept` that returns a number while `send_loop` is between a
failed send to it and removing it; `raced` records that moment (`IoAccept`), and the theorems
hold of every number to which it has not happened, however often it is reused.
`io_loop` needs no such exception: it cleans up and accepts in one thread.

The proofs about requests read two recursive functions, `Number` and the one in
the library's `FlattenSeq`, and those about trees a third, in `Children`. That
such a function exists, and what its values are,
is proved for each from the least argument that would contradict it
(`NumberExists`, `JoinExists`, `ChildrenAre`); the library's induction theorems take the
predicate as a parameter, which the provers cannot instantiate. That the parser
reads a whole request (`WholeRequestParsed`) is then shown piece by piece.
`INT_MAX` is any positive number there, so the theorem covers the numbers that
fit and says nothing of those that wrap round.

About the trees. `ListsAreLinked` is not inductive: a list can be linked and yet
share items with another, or lead back into itself, and the next append or delete
then breaks it. `Once` and `Rooted` exclude both. `Rooted` is stated without a
path or a rank: every non-empty set of items has one that is no child of a member,
which a put preserves because it puts nothing below itself (`RootedGrows`; the
proof needs no induction). What a delete or a duplicate reaches is likewise
a least set (`Below`), so that it can be reasoned about by giving a set that
is closed. Replacing is shown to be a detach, a put at the same place and a
delete.

Each inductive invariant includes the types of the variables and the properties the
theorem is about. `RingInv`, `CountInv`, `PendingInv` and `MonitorInv` are checked by
runs too; the others (`ServerInv`, `RequestsInv`, `LogInv`, `ShutdownInv`,
`BootInv`, `ReverseInv`, `TreeInv`) are defined beside the proofs, and the runs check the
properties they imply.

Only model-checked:

* all liveness (`FullDrains`, `TimedCallsReturn`, `CallbackReturns`, `ListDrains`,
  `BroadcastEnds`, `ConnectsServed`, `WorkerReturns`, `ShutdownEnds`), which is
  outside the prover's reach;
* JsonText: printing and parsing recurse over trees and texts with `RECURSIVE`
  operators; what they compute for every tree is an induction over data, beyond
  the provers.

## 6. Not modelled

* The int's overflow after 2^31 lifts (`bincount`).
* `handle_sigint`, which nothing installs, and which would run the stop twice;
  a `start_sg_server` of which only some threads could be created.
* The format of the serial-number file: reading it succeeds or ends the process.
* `gpio_set_outputs`, `gpio_read_adc`, `gpio_get_status`: called by nothing.
* In cJSON: the spelling of numbers and strings (`parse_number`, `parse_string`,
  UTF-16 escapes), references, `cJSON_Minify`, the constructors from C arrays.
* In `sg-tcp.c`: failures of `SgTcpServer_new` (no result is looked at) and
  partial sends.
* Message texts, the wording of the log, makefiles and packaging.

## 7. Plan

Everything the inventory names is modelled or listed above, and every safety
property outside JsonText is proved. What is left:

1. JsonText: the doubling of the print buffer (`ensure`) as a lemma of its own, in
   a module without recursive operators; `PrintIsExact` for every tree needs an
   induction over trees.
2. The hazards without a property: a count lost at a boot (`main.c:85`), messages
   out of order (`sg-comm.c:315`), lift ids that repeat (`:285`), active-low reverse
   inputs (`:368`), numbers that overflow (`:194`), and a process on zeros or with
   its file replaced for its size (`main.c:127`, `:292`). The models have these
   behaviours; a property needs a decision of the code's owners on what is promised.
3. The task queues freed under the worker (`sg-comm.c:420`) contradict a comment of
   the code (`sg-comm.c:21`): a run of Shutdown expected to violate it, as soon as
   something clears `running`.
