# A TLA+ model of fred-linux

fred-linux is the server of FRED, a framework that lets several Linux processes share an FPGA
by reconfiguring parts of it on demand. Processes ("sw-tasks") connect to the server over a Unix
socket, bind the hardware accelerators ("hw-tasks") they need, and ask for executions; the
server decides in which slot of the FPGA and in which order those run, programs the slots,
watches over them with timers, and answers.

These modules model the server's control: the scheduler with its queues, slots, watchdogs and
reconfiguration device; under it the drivers and their registers; around it the event loop, the
client protocol and the buffers; the two test modes with their own scheduler and client; and
start-up and shutdown, from the lines of the configuration files to the last descriptor closed.
TLC checks them on small instances; TLAPS proves the safety properties of the scheduler, of its
drivers and of the server, and that each implements the service it is there for, for all values
of their constants. Paths and line numbers below refer to the repository's root (`src/`).

Run a check with `tlc -config MCFredScheduler_wide.cfg MCFredScheduler`, a proof with
`tlapm FredSchedulerProofs.tla`. `PROJECT.json` lists the runs, the source lines behind every
definition (`map`), one mutation per property that TLC must notice (`mutants`), what is hard to
test in this code (`hazards`) and where code and comments disagree (`findings`).

## 1. Inventory of the system

The server is **one thread**. An epoll loop calls one event handler at a time; a handler runs
to its end. The concurrency is between that thread, the FPGA (accelerators, FPGA manager), the
kernel's timers, and the client processes.

| Part | State | Operations | Talks to |
|---|---|---|---|
| Scheduler `srv_core/scheduler_fred.c` | one FIFO per partition, the FRI queue ordered by arrival time | `sched_fred_push_accel_req_`, `sched_fred_rcfg_complete_`, `sched_fred_slot_complete_`, `sched_fred_slot_timeout_`, and the mutually recursive `start_rcfg_` / `start_slot_after_rcfg_` | everything below; called by clients, slots, timers and the device |
| Slot `slot.[ch]`, drivers `slot_drv_master.c`, `decoup_drv_xil.c` | state BLANK/RSRV/RCFG/READY/EXEC/IDLE, the configured hw-task, `exec_req`; `AP_CTRL.start`, the UIO interrupt, the decoupler | reserve, prepare, start, clear after compute, disable after timeout | accelerator through UIO; scheduler on its interrupt |
| Watchdog `slot_timer.[ch]`, `fd_timer.c` | armed or not, `exec_req`, a timerfd | arm, disarm, expiry | scheduler |
| Reconfiguration device `devcfg.c`, `devcfg_drv_fpga_mgr.c` | IDLE/PROG, `current_rcfg_req` | start, completion read | FPGA manager; scheduler |
| Request `accel_req.[ch]` | hw-task, slot, `skip_rcfg`, time stamp, links of the scheduler's lists; **embedded** in the client object | bind, stamp, unbind, notify | scheduler and client |
| Client `sw_task_client.c`, `fred_msg.h` | EMPTY/READY, bound hw-tasks and their buffers | INIT, BIND, RUN, anything else; hang-up; notification | socket, scheduler, buffctl |
| Listener `sw_tasks_listener.c` | the listening socket | accept, register a client | reactor |
| Reactor `reactor_epoll.c`, `event_handler.h` | the table of sources, the batch returned by `epoll_wait` | poll, dispatch, detach (> 0), leave the loop (< 0), free owned handlers | every handler |
| Signal receiver `signals_recv.c` | a signalfd | leave the loop | reactor |
| Buffers `buffctl.c`, `user_buff.c` | contiguous kernel buffers | allocate, free | client |
| Layout `sys_layout.c`, `partition.c`, `hw_task.c` | partitions, slots, hw-tasks, limits | build from two text files, free | start-up |
| Start-up `fred_sys.c`, `main.c` | who owns which object | three init modes with error chains, free | everything |
| Parser `parser.c` | a table of tokens | read a file, fetch a token, free | layout |
| Test modes `srv_core_mocks/` | random scheduler (the same queues), cyclic client: one request, a socket pair that carries its next trigger, the next hw-task | as the scheduler, any free slot, never skipping; consume a byte and push, write a byte on notification | reactor |
| Null driver `slot_drv_null.c` | a socket pair in place of an accelerator | start writes a byte, completion reads it | scheduler, in the reconfiguration test |
| UIO `uio_drv.c` | a mapping and a descriptor per device | find, open, map; wait for an interrupt, re-enable it | slot and decoupler drivers |
| `reactor_poll.c` | an alternative that is not built | | |
| `gpio_probes.c`, `logger.c`, `fd_utils.c` | | I/O and instrumentation | |

What is hard in it:

- **Two events of one execution.** The interrupt and the watchdog of an execution are two
  descriptors; both may be pending at once, and `slot->exec_req` and the slot's state may mean
  something else by the time the second is handled.
- **Lists through embedded nodes.** A request lives inside its client, and is linked into a
  partition queue or the FRI queue. Being inserted twice, or freed while linked, corrupts memory.
- **Nobody looks again.** A handler that frees a slot, or finds the device idle, must serve the
  queues itself. A forgotten path means a request waits for ever.
- **`skip_rcfg` is decided early and used late**, when other requests have come and gone.
- **A handler starts several things**: `start_rcfg_` and `start_slot_after_rcfg_` call each other
  through every request that needs no reconfiguration.
- **Batches.** Handlers of one batch run without asking epoll again, and slot reads block.
- **Failure.** Almost every failing call makes a handler return -1, which ends the server for all
  clients; a failed `assert` does so without any cleanup.
- **Acknowledgements in three places.** A completion is acknowledged at the UIO device, at the
  accelerator and at the interrupt controller; a module must be coupled before its registers are
  touched; a sysfs attribute polls until it is read. One in the wrong order gives an event too
  many, which is charged to a later execution, or one too few, which is waited for for ever.
- **Fifteen ways to fail at start-up**, each with a label from which to free what exists by then,
  constructors that each undo their own half-done work by hand, and a reactor that frees some of
  the same objects itself.

What each part must guarantee: the *scheduler* neither loses nor duplicates a request, neither
leaks nor shares a slot, serves in arrival order, and neither the device nor a slot idles on
waiting work; *slots and drivers* run the module that was asked for and skip reconfiguration only
when it is in place; *drivers* show the scheduler exactly the completions that happen; *watchdogs*
run exactly with their execution; *requests* are answered exactly once; *clients* get one reply
per message and own the buffers of what they bound; the *reactor* never calls a handler for an
event that is gone, but for the watchdog of an execution that has just completed; the *server*
stays up whatever clients do; the *test modes* keep testing every hw-task; *start-up* configures
what the files say or frees everything it made.

## 2. Modules

```
AccelService            what a client can rely on (abstract)
FredScheduler           the scheduler, slots, watchdogs, device, fabric
  FredSchedulerInv      its properties, and the refinement of AccelService
    MCFredScheduler     small instances for TLC (4 configurations)
    FredSchedulerProofs proofs: types and pointers, the device, ALWAYS_RCFG
      FredSchedulerOwned    proofs: who owns slots and requests
        FredSchedulerService  proofs: who is served first, and AccelService implemented
    FredServer          reactor, listener, clients, signals, buffers around the scheduler
      FredServerInv     its properties, and the refinement of FredScheduler
        MCFredServer    small instances for TLC (4 configurations)
        FredServerProofs proofs (also extends FredSchedulerService)
  FredDrivers           the drivers, registers, UIO and sysfs under the scheduler
    FredDriversInv      its properties
      MCFredDrivers     a small instance for TLC
      FredDriversProofs proofs (also extends FredSchedulerService)
    FredTestModes       random scheduler and cyclic client over the drivers
      FredTestModesInv  its properties
        MCFredTestModes a small instance for TLC
        FredTestModesProofs proofs (also extends FredDriversProofs)
FredStartup             start-up, error chains, shutdown: the life of every object
  FredStartupInv        its properties
    MCFredStartup       small instances for TLC (2 configurations)
    FredStartupProofs   proofs: the server while it starts and runs
      FredStartupFrees  proofs: the server while it goes down
```

### FredScheduler

A handler is one action, because handlers do not interleave; between handlers the hardware and
the timers move.

| Variable | Code |
|---|---|
| `slot` | `struct slot`: `state`, `hw_task`, `exec_req`. READY is set and left inside one handler |
| `timer` | `struct slot_timer` and its timerfd: off, armed, expired-and-unread; `exec_req` |
| `hw` | the region behind a slot: `busy` is `AP_CTRL.start`, `irq` the unread UIO event, `coupled` the decoupler, `fabric` the module really loaded (NULL while a bitstream is being loaded) |
| `devcfg` | `struct devcfg`; `drv` is the FPGA manager: quiet, loading, done (readable) |
| `req` | `struct accel_req` of every client |
| `part_queues`, `fri_queue` | the scheduler's lists |
| `banned` | hw-tasks whose `banned` flag is set |
| `clock`, `reply`, `status` | CLOCK_MONOTONIC; the last answer to each client, or "wait"; the process |

| Action | Code |
|---|---|
| `Run`, `RunBanned` | FRED_MSG_RUN and `sched_fred_push_accel_req_` |
| `RcfgComplete` | `sched_fred_rcfg_complete_` |
| `SlotComplete` | `sched_fred_slot_complete_` |
| `SlotTimeout` | `sched_fred_slot_timeout_` |
| `AccelDone`, `TimerExpire`, `RcfgDone` | an accelerator, a timerfd, the FPGA manager |
| `Stopped` | the process is gone or blocked |

`Serve` is the recursion of `start_rcfg_` and `start_slot_after_rcfg_` without recursion. In the
requests `run`, in the order the code takes them, the first `n` are started and the next one, if
any, is programmed; `StartCounts` says which `n` the code reaches (a driver that refuses to start
a busy accelerator, a request that needs reconfiguration, or the end of the queue stop it).
`PushFri` and `Pull` are `push_req_fri_queue_` and `pull_req_partition_queue_`.

Choices worth knowing:

- A failed `assert` ends the process. `Abort` does not show what the handler did before it:
  nothing but the process's death can be observed afterwards.
- "blocked" is what happens when a slot's handler reads a UIO device that has no event: the
  read blocks the only thread. Nothing in the model ends it, although a later interrupt of that
  slot would.
- `Faults` names what may fail: starting a reconfiguration, reading its completion, writing to
  a client.
- `RaceFree` is an assumption about the **environment**: an accelerator does not finish between
  the expiry of its watchdog and the server's handling of it, and a watchdog does not expire
  between an interrupt and its handling. The code does not ensure this. With
  `RaceFree = FALSE` the run `race` shows the assert that ends the server. On two slots the
  damage may also be silent: the late interrupt is charged to whatever request `exec_req` names
  and to the slot *that request holds now*, so a request can be reported DONE while it computes,
  or be lost. All runs with two or more slots therefore state their properties under the
  assumption, and so do the theorems about ownership and what rests on it; `race` and
  `server_faults` drop it, and so do the theorems of `FredSchedulerProofs`.

### FredDrivers

`FredScheduler` knows the fabric through one record per slot (`hw`) and the device through
`devcfg.drv`. `FredDrivers` puts the drivers in between: each handler of the scheduler is taken
together with the driver calls it makes, in their order, and runs when the *driver's descriptor*
is ready.

| Variable | Code |
|---|---|
| `driver` | the slot driver of `sys_hw_config`: master or null |
| `dev` | per slot: AP_CTRL.start, IER, GIE and ISR of the accelerator, the decoupler's register, whether the UIO device (or the null driver's socket) is readable, whether the kernel holds the interrupt off, whether the region holds a module; `fault` records an access nothing could answer |
| `mgr` | the sysfs attributes of the FPGA manager: address, size, loading, changed |

`MasterStart`, `MasterAfterRcfg`, `MasterAfterCompute`, `NullStart`, `NullAfterCompute`,
`DecoupleReg`, `CoupleReg`, `StartRcfg` and `ReadRcfgDone` are the driver functions;
`HandleRun`, `HandleRcfgComplete`, `HandleSlotComplete` and `HandleSlotTimeout` the handlers with
them. The kernel and the IP cores (`Settle`, `Access`, `Finish`, `Loaded`, `Opened`) are external:
a level interrupt that the UIO driver masks and counts; registers reset by a reconfiguration and
out of reach behind a closed decoupler; a sysfs attribute that polls as changed until it is read.
An accelerator that timed out may still finish behind its decoupler (`RunawayDone`).

`DriversAgree` says that registers and records describe the same fabric. The conjunction in the
handlers makes every step one of `FredScheduler` too, so what holds there holds here; what is to
be shown, by TLC and by `FredDriversProofs`, is that the descriptors are ready when the
scheduler's model says so, which is why liveness and the refinement of `AccelService` are checked
on this module.

### FredTestModes

The reconfiguration test and the hw-tasks test have no sw-tasks but a cyclic client that runs every
hw-task in turn, and the random scheduler. `CyclicHandleEvent` is the client's handler with
`sched_fred_rand_push_accel_req_`: any free slot, never skipping. Lines 31 to 211 of
`scheduler_fred_rand.c` and its three completion handlers repeat `scheduler_fred.c` line by line, so
they are `FredDrivers`' handlers followed by `NotifyClient`, the byte that triggers the next
request. `client` is that byte and `next_hw_task`. Every step but the client's is one of
`FredDrivers`, but the push is another, so what is proved of the FRED scheduler does not carry over
by itself; `FredTestModesProofs` shows that it holds all the same.

### FredServer

`FredServer` adds, per client, the connection, the socket's two directions and
`struct sw_task_client`; the listen backlog; and `batch`, the sources the loop has still to
handle. `Poll` is `epoll_wait`; every `Handle...` action takes one source of the batch, in any
order (epoll promises none). A handler's return value is its effect: 0 goes on, 1 detaches and
frees the client (`Detach`), -1 sets `status` to "down", and `AfterHandler` then frees every client,
as the reactor does with the handlers it owns.

- Messages are records `[head, task]`; a task of NULL is an id the layout does not have.
- `owed` counts messages sent and unanswered, `pushed` how often the embedded request is in the
  scheduler; they are bookkeeping of the model, as is `peer` (the other end of the socket).
- The kernel's answer to a closed socket is modelled: a socket closed with an unread reply gives
  EPOLLERR / ECONNRESET, which leaves the whole loop; a write to a closed peer raises SIGPIPE,
  which nothing ignores, and counts as "down".
- The timerfd is non-blocking: `HandleTimer` for a timer that an earlier handler of the batch
  disarmed fails its read and returns -1.
- `Corrupt` marks states after which the C program's behaviour is undefined: a request freed
  while the scheduler holds it, or inserted twice. The model stops there (`Ended`), and
  properties are stated for `Running` states.
- The client's socket is non-blocking too, and may be full of replies (`Full`). Only a client that
  sends on without reading gets there (`"pipelining"`). A reply that is not written is an error of
  that client, which is detached (`Unwritten`); a notification that is not written (`Deliveries`)
  makes the slot's or timer's handler return -1, which ends the server.
- EPOLLRDHUP is not in the interest mask, so that branch of the reactor is never taken.

Operators named `Slip...` are variants of a definition with a mistake a maintainer could make.
The specifications do not use them; `PROJECT.json` pairs each with the property that catches it.

### FredStartup

`FredStartup` is another cut through the same program: not what the handlers do but which objects
exist. `mem` holds the state of every object; `step` is the object start-up creates next (or
"arch", "hw_tasks", "config", "register", "running", "freeing", "exited", "aborted", "crashed").
Every call that may fail is an action with a failing disjunct; a failure computes `chain`, the
frees of the constructor's own error path and of the label its caller jumps to (`BaseErrorChain`
for `init_base_sys_`, `ErrorChain` for the mode), and `FreeNext` makes them one by one, passing over
NULL pointers and recording in `misuse` what was already gone.

| Variable | Code |
|---|---|
| `mode` | normal, reconfiguration test, hw-tasks test |
| `arch`, `tasks` | the lines of the two files, each a sequence of tokens |
| `slots_count`, `task_partition` | the fields of `struct partition` and `struct hw_task` |
| `task_config` | a hw-task's timeout, the count and the sizes of its data buffers |
| `partition` | the local of `build_hw_tasks_`, which keeps its value from one line to the next |
| `sources` | the reactor's table: handler and ownership; an entry is marked before epoll is asked |

*Constructors.* `Acquired(x)` lists what the constructor of x acquires, in order: the object, its
driver, the driver's UIO device, that one's descriptor, and so on; `Frees(x)` what the destructor
gives back. A constructor may fail after any of its acquisitions (`Constructs`), and then takes one
of its `ErrorPaths`. Most undo in reverse what they had; the exceptions are the code's: a null
driver and the front ends (listener, cyclic client) lose sockets and buffers, and a failing
`timerfd_create` frees memory that was never allocated (`TimerfdFails`).

*Files.* `Parsed` drops blank lines and comments, `Token` returns NULL beyond the last token, and
the layout treats the NULL as the code does: a missing number is 0, a missing partition name is
read (`CrashOnTask`), a missing path names no file. Numbers are cut to `Word` values, 2^32 in the
program (`Number`): a buffer size is kept in an `unsigned int`, a timeout is cut in milliseconds,
compared with 0 and then multiplied in 32 bits (`TimeoutUs`), and a number of slots is an `int`, so
that the upper half of the values is negative and gives no slot (`SlotCount`). `ConfigureTask` adds
buffers without looking at the index. `LoadBits` loses what `load_bit_buffer_dev_` loses
(`FailedLoads`): the open file when there is no buffer, the mapping and its descriptor when the file
is short.

*Modes.* They differ in the slot driver and in what stands in front: the listener, or the cyclic
client with its data buffers. In normal mode clients connect and leave until a signal, a refused
registration or a full table ends the loop.

Two kinds of undefined behaviour occur. `hw_task_free` reads the slot count of a freed partition:
the model lets it read the value it had, because the allocator of the build overwrites only the
first words of a freed object, which here are its name. A second free is recorded and the chain
goes on, which is more than the process may live to do.

### AccelService

What a client relies on, without queues, time stamps, device or watchdogs: an accepted request
runs at most once, in a slot of its partition that it has for itself, and is answered once, DONE
after its accelerator finished or OVERRUN while it had not, which bans the hw-task.
`FredSchedulerInv!ImplementsService` is the refinement: a request's phase is read off the slot
states, and its computation counts as finished once the interrupt is pending. One step of the
scheduler may start several requests, so may one of the service (`MayStart`).

## 3. Runs

| Run | Instance | Asks |
|---|---|---|
| `core_wide` | 3 clients; hw-tasks ta, tb in a partition of 2 slots, tc in one of 1; clock to 2 (478 k states) | `TypeOK`, `SlotsOwned`, `ExecutionSound`, `SkipSound`, `StaysUp`, `DevcfgNotIdle`, `WorkConserving` |
| `core_always` | 4 clients, one hw-task per partition, 2+1 slots; ALWAYS_RCFG mode, all faults; clock to 1 (93 k) | `OnePlace`, `FriOrdered`, `PartitionFifo`, `FailsCleanly`, `AlwaysReconfigured` |
| `drivers_live` | 3 clients, 1+1 slots, 2 hw-tasks, master drivers, fairness (49 k) | `DriversAgree`, `CompletionVisible`, `AccessOnlyCoupled`, `EveryRequestAnswered`, `ImplementsService` |
| `test_modes` | the cyclic client, 3 hw-tasks, 2+1 slots, both drivers, fairness (8 k) | `TokenConserved`, `NeverQueued`, `DriversAgree`, `InTurnAndFresh`, `EveryTaskTested` |
| `server_sync` | 2 synchronous clients, 2 partitions, 2 hw-tasks of 1 and 2 buffers, fairness (115 k states) | `ServerTypeOK`, `OneReplyPerMessage`, `FreedNotReferenced`, `BuffersOwned`, `ServerStaysUp`, `RefinesScheduler`, `EveryMessageAnswered` |
| `server_faults` | 2 clients on one slot; pipelining, full sockets, crashes, failing allocations and reconfigurations, signals, the completion/watchdog race (783 k) | `OneReplyPerMessage`, `BatchFresh` |
| `startup_lifetimes` | 7 architecture files, 9 hw-task files, 3 modes, 3 clients, a table of 9 sources; every call and every acquisition may fail (190 k) | `StartupTypeOK`, `RunningComplete`, `SourcesLive`, `NothingLeft`, `FreesAreSafe`, `ConfigRead` |
| `race` | no `RaceFree` | `AssertsHold` is **violated** |
| `banned` | 3 clients on tight slots | `BannedNeverStarts` is **violated** |
| `pipelining` | clients that do not wait | `OneRequestAtATime` is **violated** |
| `crash` | clients that die at any time | `SingleClientFailure` is **violated** |
| `startup_twice` | normal mode, same files | `FreedOnce` is **violated** |

What the passing runs show: under the environment assumption no request is lost, duplicated or
overtaken in its partition; slots are neither leaked nor shared; what executes is what was asked
for, with its watchdog; the driver never refuses a start although slots freed by a timeout may
still compute; no `assert` fires; nothing waits for ever; clients that follow the protocol,
whatever they ask for and whenever they leave between requests, cannot bring the server down,
leak a buffer or get a wrong number of replies. With failing drivers or peers the server stops,
but not by an assert or a blocked read. Under the drivers' order of calls no completion is lost at a
register and none is seen twice. The test modes keep going round although every accelerator may
compute for ever. Start-up, however it ends, loses only what section 5 lists.

`RefinesScheduler` ties the two levels: `FredScheduler` lets handlers run in any order as soon as
their event is pending, `FredServer` has batches and sessions, and TLC checks that every step of
the server is a step of `FredScheduler`. What holds there therefore holds in the server.

**Bounds, and why they are enough.**
- *Clients*: three let one execute, one wait in the FRI queue or be programmed, and one wait for
  a slot; four let both queues hold two. Each has one request at a time (the run `pipelining` shows
  the contrary).
- *Slots*: two in a partition make the slot search choose, and skip on the second slot; one
  slot in a second partition makes both partitions compete for the one device; one slot each
  ("tight") fills the partition queues.
- *Clock* (`MaxClock`): requests may carry equal or different time stamps. Two readings already
  give a late pull something to be inserted before and after, three give it a middle. A client
  cannot push once the bound is passed, so the bound ends nothing else: at the last reading
  requests keep arriving, with ties.
- *Drivers*: one slot per partition. A slot's registers depend on the order of the calls on that
  slot only, and executions, overruns and reconfigurations of a slot follow each other in every
  order; a second slot in a partition comes with `test_modes`, where there is one client.
- *Files*: a line of each kind the code tells apart (empty, comment, short by one token, by two,
  one size too many, numbers that 32 bits cut), in first and in second place. `Word` is 4096: 4097
  slots are one, 4095 a negative number; a size of 4103 is kept as 7; a timeout of 4096 ms is 0,
  and so the default, 512 ms wrap to 0 µs and 5 ms to 904 µs, as 2^32 ms, 2^32 µs and 72 minutes
  do. Files stay within `MAX_LINES` and `MAX_TOKENS` (section 5), and a bitstream file is not
  empty.
- *Start-up*: three is the limit of partitions, hw-tasks and slots, so two fit and three are refused
  or, for slots, dropped; nine table entries are exactly filled by one architecture, exceeded at
  start-up by another, and by clients on a third (`MaxClients`).
- *Inbox* (`MaxInbox`), *bound hw-tasks* (`MaxBind`): 1, or 2 unread messages when pipelining.

**Symmetry** is used on clients, in runs without liveness and refinement of fair specifications.
**Views** leave out what nothing reads: the record of a request whose client is not waiting is
rewritten by `Run` before anything reads it, as is `exec_req` of a slot that does not execute and
of a timer that is off. That is so only when completions do not race their watchdog, so the racing
server run keeps all of it and only folds stopped states into one. In the server, unread messages
that are answered without any other effect count as the same.

**Fairness.** Weak fairness of the event handlers (epoll is level-triggered: a ready source stays
ready and the loop does nothing else), of the expiry of an armed timer, and of the FPGA manager
ending a reconfiguration. An accelerator is *not* assumed to finish: the watchdog is what makes
the answer come. In the reconfiguration test a null driver's accelerator is a byte that is there
at once, so there its end is fair; and the cyclic client is a source like any other. In the
server, fairness is per source, which `Poll` and the finite batch give.

## 4. Proofs

Eight modules hold theorems. Those on the scheduler and what is built around it rest on
`ConstantsOK`: any sets of requests, hw-tasks and partitions, any `MaxClock`, and any finite set
of slots (the code keeps them in arrays of `MAX_SLOTS` entries). `FredTestModesProofs` rests on
`TestModesOK` too: the client has one request and a non-empty list of hw-tasks. The two modules on
start-up rest on `StartupConstantsOK`, any limits, of which those of slots, of the reactor's
table, of the default timeout and of the word are not 0, and at most one buffer size too many on a
line; and on `FilesOK`: any files, of any length, whose lines are sequences of tokens, with
natural numbers, of any size, where the program converts one: what `strtol` makes of the token, as
a `size_t`.

| Theorem | Statement | under |
|---|---|---|
| **FredSchedulerProofs** | | |
| `Invariance` | `Spec => []IInv` | |
| `TypeCorrect` | `Spec => []TypeOK` | |
| `DeviceNeverIdlesOnWork` | `Spec => []DevcfgNotIdle` | |
| `AlwaysReconfiguredFirst` | `Spec => AlwaysReconfigured` | |
| **FredSchedulerOwned** | | |
| `Ownership` | `Spec => []Owned` | R |
| `SlotsNeverShared` | `Spec => []SlotsOwned` | R |
| `RequestsInOnePlace` | `Spec => []OnePlace` | R |
| `ExecutionIsSound` | `Spec => []ExecutionSound` | R |
| `SkippingIsSound` | `Spec => []SkipSound` | R |
| `NoSlotWasted` | `Spec => []WorkConserving` | R |
| `SchedulerFailsCleanly` | `Spec => []FailsCleanly` | R |
| `SchedulerStaysUp` | `Spec => []StaysUp` | R, F |
| **FredSchedulerService** | | |
| `Ordering` | `Spec => []InOrder` | R |
| `FriIsOrdered` | `Spec => []FriOrdered` | R |
| `PartitionsAreFifo` | `Spec => []PartitionFifo` | R |
| `ServiceImplemented` | `Spec => ImplementsService` | R, F |
| **FredDriversProofs** | | |
| `DevicesInvariant` | `DriversSpec => []DriversOwned` | R |
| `RegistersAgree` | `DriversSpec => []DriversAgree` | R |
| `CompletionsAreSeen` | `DriversSpec => []CompletionVisible` | R |
| `NoBusFault` | `DriversSpec => []AccessOnlyCoupled` | R |
| `DriversServe` | `DriversSpec => ImplementsService` | R, F |
| **FredTestModesProofs** | | |
| `TestInvariant` | `TestSpec => []TestOwned` | R |
| `TokenNeverLost` | `TestSpec => []TokenConserved` | R |
| `TestedInTurn` | `TestSpec => InTurnAndFresh` | R |
| `SlotAlwaysFree` | `TestSpec => []NeverQueued` | R, L |
| `TestRegistersAgree` | `TestSpec => []DriversAgree` | R |
| **FredServerProofs** | | |
| `ServerInvariant` | `ServerSpec => []ServerOwned` | R |
| `ServerTypes` | `ServerSpec => []ServerTypeOK` | R |
| `AnsweredOnce` | `ServerSpec => []OneReplyPerMessage` | R |
| `NoBufferLeaks` | `ServerSpec => []BuffersOwned` | R, A |
| `ProtocolKeepsServerUp` | `ServerSpec => []ServerStaysUp` | C |
| `NoUseAfterFree` | `ServerSpec => []FreedNotReferenced` | C |
| `ServerImplementsScheduler` | `ServerSpec => RefinesScheduler` | C |
| `ServerServes` | `ServerSpec => ImplementsService` | C |
| **FredStartupProofs** | | |
| `StartsInvariant` | `StartupSpec => []StartInv` | |
| `SourcesStayLive` | `StartupSpec => []SourcesLive` | |
| `RunningIsComplete` | `StartupSpec => []RunningComplete` | |
| `ConfigIsReadRight` | `StartupSpec => []ConfigRead` | |
| **FredStartupFrees** | | |
| `DownInvariant` | `StartupSpec => []DownInv` | |
| `StartupTypes` | `StartupSpec => []StartupTypeOK` | |
| `FreesStaySafe` | `StartupSpec => []FreesAreSafe` | |
| `NothingIsLeft` | `StartupSpec => []NothingLeft` | |

The hypotheses say what the environment does and what the layout file says, never what the code
does:

- **R**, `RaceFree`: the completion and the expiry of one execution are never both pending. It is
  not to be had for less: run `race` shows what happens without it, and `Owned` is then not an
  invariant.
- **F**, `Faults = {}`: no driver call fails and every client can be written to. A failing one
  makes the handler return -1, so `StaysUp` says nothing else; and `ImplementsService` needs it
  because a notification that fails leaves a slot freed and its request without an answer.
- **A**, `BindsSucceed`: no allocation fails and no socket is full (`"alloc" \notin ServerFaults`,
  `"pipelining" \notin ClientFaults`). Otherwise a bind may stop half way: a client is detached
  after buffers were allocated for a hw-task that is not counted yet, and those are lost.
- **L**: every hw-task's partition has a slot. A layout file may give a partition none
  (`sys_layout.c:85`), and then a request for it waits for ever.
- **C**, `Cooperative`: R and F; `ClientFaults = {}`, so that clients wait for each reply and
  leave only between requests, whatever they send, which keeps their sockets from filling up; and
  no failure of the server's own but allocations, in particular no signal that ends it. Without it
  the runs `pipelining` and `crash` are counterexamples.

Where a theorem has no F, A or C it covers the faults, peers and signals the model has.

*Types and pointers* (`IInv`). `TypeOK` alone is not inductive. A handler follows a pointer
(`slot->exec_req`, `timer->exec_req`, `current_rcfg_req`, the head of a queue) to a request, then
the request's hw-task to a partition, and indexes the queues with it. So `IInv` adds `Pointers`:
whatever can raise an event, and whatever sits in a queue, names a request that was bound to a
hw-task. The argument has three layers: lemmas about `Serve`, `PushFri` and `Pull` on *arbitrary*
slot, timer and fabric records (`ServeTyped`, `PushFriTyped`, `PullTyped`), one lemma per action
(`RunKeepsIInv`, `RcfgCompleteKeepsIInv`, ...), and `NextKeepsIInv` by cases on `Next`.
`DevcfgNotIdle` is inductive relative to `IInv`: a run ends with a request programmed or the queue
empty, unless the server stops (`ServeKeepsBusy`). `AlwaysReconfigured` uses that in this mode no
request ever has `skip_rcfg` set, so a handler starts at most the request it begins with
(`ServeStarts`), and only `RcfgComplete` begins with one.

*Ownership* (`Owned`). None of `OnePlace`, `SlotsOwned`, `ExecutionSound` and `SkipSound` is
inductive; each needs the others. `Owned` joins them in three parts. `Placed`: a waiting request
is where its record says (`InItsPlace`: no slot, then in its partition's queue; a RSRV slot, then
in the FRI queue; RCFG, at the device; EXEC, its `exec_req`), requests and taken slots match one
to one, and the queues and the device hold nothing else. `Agreed`: per slot, state, watchdog and
fabric agree, and a request that may skip reconfiguration finds its module. `Conserving`: no slot
is free while its partition's queue is not empty. These are predicates on *values*, not on the
variables, because a handler passes through configurations no state shows: `SlotComplete` frees a
slot, answers its request, pulls the next and serves the queue, each with a lemma of its own
(`FreedKeepsOwned`, `PullKeepsOwned`, `PushKeepsOwned`, `ServeKeepsOwned`) that takes the
intermediate values to the next. `Serve` starts several requests at once; `ServeBySlot` turns that
into what happens to each slot, so no induction on their number is needed. That no assert fires
and no start is refused then follows (`ServeServable`): `ServeAsserts` holds and `StartFails` does
not where the requests are `Placed` and the slots `Agreed`.

*Order* (`InOrder`). `FriOrdered` is preserved by an insertion at the place `InsertPositions`
finds whatever the time stamp, so it needs only that removing a prefix keeps an ordered queue
ordered. `PartitionFifo` needs more: a request that gets a slot at once must not overtake one that
waits, which is `Conserving`, and a new request is not older than the others, which is
`StampsPast`.

*The service*. The mapping reads a request's phase off `Executing` and `hw.irq`. `Moves` says what
a handler does to the slots, timers and device in service terms: each slot is started, programmed
or left alone, and only one of a waiting request is started. From it, per handler, the step of
`AccelService` is exhibited (`Submit`, `Compute`, `AnswerDone`, `AnswerOverrun`, `Start`, `Refuse`
or none), together with the requests that start in it. `Owned` supplies that the `CHOOSE` of
`place` has one candidate.

*Drivers* (`DriversOwned`). That every step of `FredDrivers` is one of the scheduler is a lemma
and holds by the way the handlers are composed (`DriversRefineScheduler`); the invariant is about
the registers. `DriversAgree` is not inductive: what the next completion does depends on registers
that show nothing now. `MasterAgrees` adds that an interrupt is masked at the controller exactly
while its event is pending and that a coupled module has both its enables set; `Detached` that the
slot being programmed is decoupled and its new module fresh; `NoNullTimeout` that the null driver,
whose completion is there at once, never sees a watchdog expire. Nothing is claimed about a
decoupled accelerator, which may still run.

*The test modes* (`TestOwned`). The invariants of the scheduler and of its drivers, that no
request skips its reconfiguration, and `ClientOwned`: the byte is in the socket pair exactly while
the request is not waiting, and a request under way is for the hw-task `next_hw_task` has just
moved past. The random push is the only step that is not one of `FredDrivers` (`ReactsAsDrivers`);
it is taken apart by `CyclicPush` into queueing and reserving *some* free slot, and the lemmas the
FRED scheduler's push rests on (`PushFriTyped`, `PushKeepsOwned`, `EnqueuedPlaced`, `PushMoves`)
ask no more of the slot than that it is free. `TestedInTurn` is the action property: a slot that
starts was in RCFG (`HandlersReconfigure`), `Placed` says the device's request is the one that
owns it, `DeviceHolds` what was programmed, `ClientOwned` that it was its turn. `SlotAlwaysFree`
follows because one request cannot both wait in a queue and hold the slot that makes it wait.

*The server* (`ServerOwned`). While it runs uncorrupted: `IInv` and `Owned` of the scheduler
inside, every source of the batch ready, and for each client the account of messages, pushes,
buffers and bindings (`Accounted`). Its two hard steps: a handler leaves the rest of the batch
ready because it takes only its own event (`Untouched`), and the two events of one execution are
never both in it (`OneEventPerSlot`, which is where `RaceFree` comes in, and which would not be
true without it); and a client whose request the scheduler holds is open. Under `Cooperative`,
`RunningStays` shows that the server never leaves `Running`, and every handler is then a step of
`FredScheduler` (`ServerStep`).

*Start-up* (`StartInv`). None of `SourcesLive` and `RunningComplete` is inductive, and what makes
them true is that start-up is one straight line: `step` determines everything. `Made(st, x)` says
which objects exist when step `st` is about to be made, from the order of the steps (`Phase`) and,
within partitions and hw-tasks, from the indices in the step; `MemoryNow` that exactly those are
live, each with all its parts; `CountedNow` and `PlacedNow` that the layout counts slots and
places hw-tasks up to there; `ConfigsNow` that each configuration comes from its line; `TableNow`
that the reactor's table holds the first so many of `Registrations`, in order, and clients behind
them. When a step fails or the server stops, what remains is `TypesOK`, `StepOK` and what never
changes any more (`EndsHere`). Each step has a lemma that it adds the right objects
(`PartitionStepMakes`, `TaskStepMakes`, ..., then `MemoryNext`) and one that it keeps the
invariant (`CreateSlotKeeps`, `RegisterKeeps`, `ConnectKeeps`, ...). `CreateTask` and
`CreateTimer` are the hard ones, because what is made depends on the slot counts and placements
they change. For a running server `ClientsKept` adds that a client is live exactly while it has
its entry. `RegistrationsAre` shows that no handler is registered twice, on the concatenation of
what all partitions register; and `ParsedRanked`, that the i-th parsed line is the i-th written
one. Both are about `FlattenSeq`, a recursive function; since the library's induction is out of
reach they go by the least counterexample (`LeastNatural`, `UpTo`), on the sequence of its partial
results (`Flattens`, `FlattenDefined`).

*The ways down* (`DownInv`). `NothingLeft` and `FreesAreSafe` speak of the end, or of what is
past; the invariant speaks of `chain`, the frees still to come. `WayDown` says that every live
object is in the chain or `Excused`, that the chain is pairwise in `OrderIn` (freeing the one
first takes nothing the other reads or frees), and that what is freed already is so with respect
to all of the chain. That `FreeNext` keeps it is then short (`FreeNextDown`). The work is that
every chain begins so. Objects are grouped in families, a root with the parts its constructor
acquires (`Family`); `SlotLists`, `DevcfgLists`, `FrontLists` and the others show that a
constructor's own lists are in order, and `RootBefore` compares roots only, so that chains are
joined from segments (`JoinedWays`, `FlattenWays`): what the layout frees (`LayoutWay`), what the
reactor frees (`OwnedWay`), the head. `ErrorWay` and `ShutdownWay` give the two chains with the
roots they cover, `MadeCovered` and `RunningCovered` show that this is everything that is made but
what is excused, and `FailsWay` adds the frees of the failing constructor in front. The one case
that is about numbers is a full table: `NothingLeft` claims that only the last client may be lost
to it, and `FullTable` shows by the pigeonhole principle that when no entry is inactive the
clients fill all the entries that registration left.

*Only model-checked.*
- Liveness (`EveryRequestAnswered`, `EveryMessageAnswered`, `EveryTaskTested`): out of the
  prover's reach, which has no rule for fairness that needs ENABLED.
- `OneReplyPerMessage` and `BatchFresh` in spite of the race (run `server_faults`, on one slot):
  no invariant on slots is left to prove them from, and on two slots the first is not true.

## 5. Where code and comments disagree

1. (`race`) `slot.h:187` and `slot.h:200` assert that the slot is in SLOT_EXEC; a completion and an
   expiry in the same batch break that.
2. (`banned`) `scheduler_fred.c:406` "Permanently disabling offending hw-task": requests already
   queued for the hw-task still run.
3. (`pipelining`) `sw_task_client.h:49` "Max \*one\* request at time": not enforced.
4. (`startup_twice`) `sw_tasks_listener.c:74` "Cannot be deallocated through the handler by the
   reactor": it is registered as owned by the reactor, which frees it a second time when its own
   registration fails.
5. (`crash`) `event_handler.h:24` and `sw_task_client.c:259`: a failing client is to be detached; it
   ends the server.

Read or met in a model, but not the subject of a run:

- *Teardown*: `sys_layout_free` frees partitions before the hw-tasks that still read them
  (`FreesAreSafe` names the exception).
- *Lost on the way down* (`NothingLeft` names each): the tokens of a file that was read to its end
  or could not be read; slots beyond `MAX_SLOTS - 1`, dropped silently; a slot whose timer failed;
  the open file of a bitstream for which there is no buffer (`hw_task.c:124`) and the mapping and
  descriptor of one whose file is short (`hw_task.c:141`); the sockets of a null driver or of a
  front end that could not be configured, and that front end's buffers; a client that meets a full
  table.
- *Dying without cleanup* (the `crashed` steps): a line of `hw_tasks.csv` without a partition
  name; a failing `timerfd_create`, after which `fd_timer_init` (`fd_timer.c:122`) frees a pointer
  into the middle of the `slot_timer`; a bitstream buffer that cannot be mapped and is read into
  all the same.
- *Configuration*: an unknown partition name means the partition of the line before (`Found`); a
  timeout above 71 minutes wraps, and a multiple of 2^32 ms is the default (`TimeoutUs`); a buffer
  size is cut to 32 bits and a negative slot count means none (`Number`, `SlotCount`); a size too
  many overwrites the buffer count (`Buffers`); `MAX_EVENTS_SRCS` counts one source per slot
  although each registers two.
- *Not in a model*: `uio_drv.c:162` compares the result of `mmap` with NULL instead of MAP_FAILED;
  `parser.c:55-62` writes beyond `MAX_LINES` and `MAX_TOKENS`, so a long file may end the server
  too; `buffctl.c:91` leaves an interface with id 0 behind when the kernel refuses a buffer, and
  `hw_task_free` then asks the kernel to free buffer 0.
- *Comments*: the state diagram of `slot.h` draws the timeout going to IDLE where the code goes to
  BLANK (the code is the safe one: `SkipSound` fails with IDLE); `sw_task_client.c:264` speaks of
  notifying all clients with FRED_MSG_CRIT, which is never sent; `sw_task_client.c:180` logs
  "detaching client" where only FRED_MSG_ERROR is sent.

## 6. Not modelled, and the plan

Not modelled: register arguments, buffer addresses and bitstream mangling (data), durations (an
armed timer may expire at any time), the characters of the configuration files, logging, GPIO
probes, a failing `slot_timer_arm` or `slot_timer_disarm` (`scheduler_fred.c:61`, `:356`: a
`timerfd_settime` on a descriptor that is open and a time that is normalised, which the kernel
does not refuse), the kernel's buffer module (not in the repository), a failed `mmap` of a UIO
device, and `reactor_poll.c`, which is not part of the program: with `USE_POLL` it does not
compile, since its `reactor_add_event_handler` has two parameters and `reactor.h` declares four.

Left for later: the layout of a running server shown to establish `ConstantsOK` of the scheduler,
which would join the two halves of the project, and the UIO and buffer failures listed under "Not
in a model" above.
