# A specification of the Libera beam position monitor software

The repository holds the software of the *Libera* digitising instruments and its
connection to the CHAOS control system.  From the hardware up it consists of

* a Linux 2.4/2.6 kernel module for the instrument's FPGA
  (`src/models/Libera/driver/libera-driver-2-04-ebpp/`, *driver* below),
* the CSPI library of the user space and its event daemon
  (`src/models/Libera/cspi/`, *cspi*),
* the CHAOS driver and control unit that use the library
  (`src/models/Libera/*.cpp`),
* and around them LabVIEW panels, test clients and the firmware of a
  microcontroller for fans and temperatures.

The code that is hard to get right is in the first three: interrupt handlers,
tasklets and sleeping processes that share rings without locks; clocks that are
stamped, paired and set by different handlers; reference counts, lists and caches that
threads share; daemons and clients that meet in named pipes; commands that kill each other.
This project models that code in TLA+, checks it with TLC on small instances and
proves the central part of it for every instance with TLAPS.

## 1. Inventory

### SA device: registry of listener pipes — `libera_sa.c:43-160`

*State.* A table `sa_pipe` of `LIBERA_SA_MAX_READERS` pointers, the cached free
slot `next`, the counters `registered`, `readers`, `open_count`, the pointer
`master_filp`, and a `struct sa_local` per open file.
*Operations.* `open()` with its early returns, `release()`, and the two helpers that
register and unregister a pipe.
*Interactions.* All of it under `dev->sem`; the tasklet reads the table without it.
*Hard.* Four redundant descriptions of one fact, changed by different code; a
cached slot; a lock-free reader of a table whose entries are freed.
*Correct when* the cached slot is free while there is room, the counters agree
with the table and the files, each open file has a slot of its own, the table
points to no freed memory, and `-EBUSY` means full.

### SA device: interrupt, tasklet, pipes, read() — `ebpp.c:780-965`, `libera_sa.h`, `libera_sa.c:160-349`

*State.* The FPGA's FIFO and overrun bit; the ring between the top half and the
tasklet; the flag `inputovr`; each file's pipe; each reader's place in `read()`,
task state and pending signal.
*Operations.* The top half, a run of the tasklet, `read()` (blocking or not).
*Interactions.* The interrupt preempts everything, the tasklet every process; the
tasklet writes pipes without the mutex the readers hold.
*Hard.* Wakeups between a test and `schedule()`; atoms copied out of the ring
after their slot was given back; two readers of one file; a tasklet that is
interrupted and scheduled again; overruns.
*Correct when* each file gets the stream of samples once and in order, except for
what arrives while its pipe is full; no wakeup is lost; a read comes to an end; an overrun
is not forgotten.

### Timestamp FIFOs and the current time — `libera_main.c:225-330, 690-1000`, `libera_event.[ch]`

*State.* Two FPGA FIFOs (system clock and machine clock), a timestamp FIFO for
each trigger and clock, two mutexes, each process's place.
*Operations.* The interrupt handler with its SC and MC parts,
`libera_get_CTIME`, the blocking reads of a trigger's stamp with their timeout.
*Hard.* The two halves of a time come from two FIFOs, filled by two handlers and
emptied one after the other; signals and timeouts take a reader away in between.
*Correct when* the halves belong to one trigger, no wakeup is lost, every ioctl returns.

### Triggers: stamps, pairs, setting the time — `libera_main.c:424-1000`, `ebpp.c:391-820`, `libera_event.c:456-800`

*State.* The low bits of the two clocks as the FPGA stamps them, the counts of their
overflows, a ring of paired stamps for each trigger, `TRIGMODE`, the time to be set and
its offsets, the one-shot event generator.
*Operations.* The loop of `libera_interrupt` over SC, MC and help interrupts, the
extension of a stamp to 64 bits, pairing, the set of the time at a trigger, and the
stop and scheduled start of SA around a set of the machine time.
*Hard.* An overflow of the low bits is queued among the triggers; the vector of
interrupts is read before SC is served; `TRIGMODE` is read twice; a start of SA is armed
by whichever of two handlers comes nearest before it.
*Correct when* a stamp is the time of its trigger, the halves of a pair are of one trigger,
the time after a set is what was set, and SA starts again.

### Event device — `libera_event.c`, `libera_event.h:150-240`, `libera_main.c`

*State.* A FIFO of events, a mask, the trigger vectors each file enabled, the master
and the reader and writer counts.
*Operations.* `open`, `release`, `read`, `poll`, sending an event from an interrupt or a
process, flushing, the mask, enabling and disabling of triggers.
*Hard.* `putTo_eventFIFO` is called from interrupt, tasklet and process without
a lock; `release()` works without `dev->sem`; triggers enabled by two files.
*Correct when* a trigger that a file enabled stays enabled while the file is open, there is
a queue exactly while there is a master, and events come in order, once, to whoever waits.

### DD, PM and ADC devices, DMA — `libera_dd.[ch]`, `libera_pm.c`, `ebpp.c:1500-1965`, `libera_main.c:891-1188`

*State.* The history buffer of the FPGA, its fifo towards the processor, the ring that
the DMA engine fills, the interrupt of the buffer and its entries, each file's position
and decimation.
*Operations.* `lseek`, the two ioctls of DD, `read()` with its wait for the asked time, the
start of a block of DMA by process and interrupt, the acquisition of post mortem data.
*Hard.* The size of a block is the least of five quantities; a read may be interrupted by
a signal or an overrun with a block under way; an acquisition takes the interrupt that a
reader waits for.
*Correct when* a read copies the atoms it asked for without a gap, and nobody waits for an
interrupt that is masked.

### CFG, DSC and FA devices — `libera_cfg.c`, `libera_dsc.c`, `libera_fa.c`, `ebpp.c:114-640`

*State.* The array `param[]` that mirrors parameters, registers of the FPGA, one buffer for
each device, each file's modes and position.
*Operations.* `open`, `release`, setting a parameter, `lseek`, `read` and `write` of a block,
the offsets that `dscd` sets.
*Hard.* Thresholds are collected member by member and written with the last; an offset
is the sum of what two devices set; the buffer is one for all files.
*Correct when* the registers hold thresholds of one request, the offset is the sum, and a
block that is copied to a user is what the registers held.

### CSPI environments, connections and event thread — `cspi.c:180-500`, `cspi_events.c`

*State.* One process-wide `Environment` with a mutex, a usage count and the
descriptor of `/dev/libera.cfg`; a doubly linked list of connections; the
event thread with its termination flag.
*Operations.* Allocating and freeing both kinds of handle, connecting and
disconnecting, setting an event handler, the life of the thread and its walk.
*Hard.* Tests and updates in two critical sections; a walk without the mutex; a
join with the mutex held; an early return that keeps it.
*Correct when* the list is whole, the count exact, a held handle has its device,
and every call returns.

### CSPI parameters and cache — `cspi.c`, cspi `ebpp.c`

*State.* The cached parameters positions are computed with, the dirty flag, the mutex.
*Operations.* `cspi_setenvparam`, the hook that an event runs, `cspi_read` with the update
of the cache.
*Hard.* A request is many ioctls; a process may be killed between two; the flag is cleared
before the update; an event arrives late.
*Correct when* the cache agrees with the FPGA whenever nothing says that it may not.

### CSPI and its daemons dscd and lplld — cspi `ebpp.c:215-330, 930-1220`

*State.* The fifo with requests for `dscd`, the fifo of each process with the answers, the
fifos of commands for and reports from `lplld`, the lock of the latter.
*Operations.* Questions and settings, clearing and reading the status fifo, killing of
processes, the daemons' stop and start.
*Hard.* An answer does not say what it answers; reports come late, in three parts; `errno` of
an earlier call decides a loop; a mutex is held while a daemon is waited for.
*Correct when* each gets its own answer and a whole report of its own, and calls return.

### Event daemon and its clients — `eventd.c`, `cspi_events.c`

*State.* The list of listeners (process, connection, mask), the request fifo, the
mask of the events device; each process's own fifo in the file system.
*Operations.* Requests to join and leave, dispatch of an event to the fifos with
removal of listeners that are gone, cleanup at termination.
*Hard.* Requests and events arrive in no fixed order; the request fifo is closed
and opened again; two parties remove a process's fifo; a walk that removes
elements of the list it walks; readers and writers that leave a fifo between two
calls of the other side.
*Correct when* who has joined is a listener with the mask it asked for, the device
delivers what any listener wants, a request returns, and listeners whose process is gone
are removed.

### CHAOS driver and control unit — `LiberaBrillianceCSPIDriver.cpp`, `SCLiberaCU.cpp`, `CmdLibera*.cpp`

*State.* The library's two handles, the operation and mode of the driver, the event
identifier with a condition variable, the published mode and count of acquisitions.
*Operations.* `initIO`, `deinitIO`, the commands *acquire*, *env*, *time* and *default*, `iop`,
`read`, the event callback.
*Hard.* A command may end by its loops, by an error, by its time or by a newer one
that kills it; the condition is signalled without the mutex and waited for without a
predicate; the order in which handles are freed.
*Correct when* the connection is to the device of the mode, an acquisition that ends by its
loops, by an error of `read()` or by a lost trigger leaves no connection open, what it
publishes starts from nothing and comes to as often as it was asked for or once more, and it
does end.

### The rest

`libera_init` and `libera_exit` are a ladder of allocations and its undoing.  `bbfp.c`,
`hbpp.c`, `dpp.c` and `llrf.c` are compiled instead of `ebpp.c` for other instruments.
`RTBPMLibera` is a template whose handlers are empty, `LiberaData` formats atoms.  The
MSP430 firmware, the LabVIEW panels and the test clients have no part in the
protocols above.  `PROJECT.json` lists every component with its status and every
hazard with its line.

## 2. The modules

| Module | Models |
| --- | --- |
| `LiberaSAPipes` | the registry of listener pipes |
| `SAStream` | what `/dev/libera.sa` promises: a stream of atoms with a bounded queue for each open file |
| `LiberaSA` | FPGA, top half, tasklet, pipes and `read()`, on top of `LiberaSAPipes` (EXTENDS) and against `SAStream` (INSTANCE) |
| `LiberaCTIME` | the two timestamp FIFOs, `GET_CTIME` and the blocking trigger reads |
| `LiberaTrigger` | the triggers' stamps and pairs, the set of the time, the restart of SA |
| `LiberaEvent` | the event device: who has it open, the triggers, the mask and the event FIFO |
| `LiberaDD` | the history buffer, DMA, reads of DD and the acquisition of post mortem data |
| `LiberaConfig` | the devices CFG, DSC and FA with the parameters and registers behind them |
| `CspiParams` | the library's parameters, cache and reads, on top of `LiberaConfig` (EXTENDS) |
| `CspiDaemons` | the library's talk with `dscd` and `lplld` |
| `CspiEnv` | environment and connection handles, the list, the event thread |
| `EventDaemon` | the event daemon, the request fifo, and the processes that join, leave and read their fifos |
| `ChaosDriver` | the CHAOS driver and the control unit's commands |
| `LiberaSAProofs`, `LiberaCTIMEProofs`, `LiberaTriggerProofs`, `LiberaEventProofs`, `LiberaDDProofs`, `CspiProofs` (`CspiEnv`, `CspiParams` and `LiberaConfig`), `CspiDaemonsProofs`, `ProgramsProofs` (`EventDaemon` and `ChaosDriver`) | the theorems and their proofs |
| `MCLiberaSA`, `MCLiberaCTIME`, `MCLiberaTrigger`, `MCLiberaEvent`, `MCLiberaDD`, `MCCspiParams`, `MCCspiDaemons`, `MCCspiEnv`, `MCEventDaemon`, `MCChaosDriver` | model values, sets and symmetries for TLC |

### What a step is

*The driver.*  It is built for a uniprocessor without
kernel preemption.  So an interrupt may come at any time, the tasklet runs
between any two steps of a process and runs to its end before a process goes on, and
processes switch where they sleep or return to the user.  Spin locks are nothing on such a
build; `EVENT_SINGLE_WRITER` and `DEBUG_ONLY` are not defined.

* `LiberaSA` and `LiberaCTIME`: between any two statements that touch
  shared state the interrupts and the tasklet may come in.  `read()` is cut into
  lock (`ReadLock`), test (`ReadCheck`), `set_current_state` (`ReadPrepare`), test
  again and unlock (`ReadRecheck`), wake (`ReadWake`), lock again (`ReadRelock`), count
  (`ReadCount`), take one (`ReadTake`) and copy it (`ReadCopy`); the tasklet into its
  start (`TaskletStart`, which tests and clears the overrun flag), one dispatch
  to all pipes (`TaskletDispatch`) and the test of the loop (`TaskletTest`); the interrupt
  handler of `LiberaCTIME` into reading the vector, its SC and its MC part.
  `len_saFIFO` is evaluated twice in `libera_sa.c:309-310`; the model reads once,
  for the only writer, the tasklet, adds atoms and the smaller of the two lengths is
  the bound either way.
* `LiberaEvent`: the variable `cpu` is the process in the kernel, and `open()`,
  `release()`, `read()`, `poll()` and the putting of an event are cut where an interrupt
  changes what they work on.  An interrupt puts its event in one step, for nothing
  interrupts it; it may come between the halves of a process's put.
* `LiberaTrigger`: a handler takes one entry of its FIFO in a step, and the FPGA goes on
  between any two.  An ioctl is cut between the register it writes and the flag it sets.
  Time goes on by ticks of the machine clock.
* `LiberaDD`: a step is the way of a process from one place where it can sleep or be
  interrupted by DMA or FPGA to the next, the interrupt of a finished block, or the
  FPGA's fetching of an atom.
* `LiberaConfig`: an ioctl is one step, for it runs with the kernel's big lock and does not sleep
  once its argument is copied.  A read or write of a block is two, for copying to and from
  the user may sleep.

*CspiEnv.*  POSIX threads may switch anywhere.  A step is what runs under one
locking of the mutex, or between two.  The event thread's walk looks at one
connection in each step.

*CspiParams.*  A step is one ioctl of a call, or one locking or unlocking of the
mutex of the cache; a process may be killed between any two, and `dscd` and other processes
use the devices there.

*CspiDaemons, EventDaemon.*  Processes run side by side and share only what the kernel keeps: the
fifos, their names in the file system, locks, the process table.  A step is one system call on
one of these with the computation around it.  So the event daemon's loop is cut into
`select` with the read of an event (`Select`), one listener at a time (`TryListener` with the
`open`, `SendEvent` with the `write`), the read of a request with its handling
(`handle_request`), and the closing and opening of the request fifo (`EndOfRequests`,
`CloseRequests`, `ReopenRequests`); a registration into `OpenRequests`, `WriteRequest` (or
`WriteFails`) and `CloseRequest`; the making of a process's fifo into `mkfifo`
(`MakeFifo`) and `open` (`create_event_pipe`).  One call is made at a time in each process of
`EventDaemon`, for the environment's mutex is held during it; the threads of a process are the
subject of `CspiEnv`.  The acknowledgement of a post mortem event, which blocks the
daemon until the device has its buffer, is left out, and so are the process's
handlers: what matters here is whether an event can reach it.

*ChaosDriver.*  A step is one call of a handler of a command.  Only the wait for a trigger lets
another thread in: it is cut into the wait and the wakeup.

### Correspondence

The state of each module has the names of the C fields, with a comment on each
`VARIABLE`; an action has the name of the C function where it is the whole of it
(`libera_sa_open`, `libera_sa_handler`, `alloc_env`, `remove_con`, ...) or of
what the function does there (`ReadPrepare`, `Relock`).  `PROJECT.json` maps every
definition to its lines.  Some choices need a word.

* A `struct sa_local` is an address out of `SaLocals`, which `kmalloc` may return again
  after `kfree`; a stale pointer is thus visible.  `pipe` and `sem` are indexed by the address.
* Atoms of `LiberaSA` are numbered modulo `AtomIds`.  With one identity a property about
  lengths and wakeups is checked, with two one about order and loss.  An atom of `LiberaDD`
  is known by its number since the start.
* `SA_LOG` in the code is a power of two and positions are masked; the model takes
  the remainder, which is the same there.  One slot of a ring stays empty.
* A stamp in `LiberaCTIME` is the number of its trigger: halves match when the numbers do.
  The variable `ctime` on the stack of the ioctl, when nobody has written it, is `NULL`.
  `LiberaTrigger` has the arithmetic: the low bits with period `P` (0x4000000 in the code), the
  counts of overflows, and stamps that carry with them, as history, the time they are of.
* An event of `LiberaEvent` is the number of its `libera_send_event`.
* One parameter of `LiberaConfig` stands for those that the code treats alike: X for both
  planes, XLOW for the four limits, `SR_AVERAGE_WINDOW` for those of the spike removal.
* The three parts of a report of `lplld` are of 1, 3 and 2 words in the run, for 1, 14 and 8 in
  the code; a word carries who asked for it and its place.
* The name of a process's fifo leads to nothing, to the fifo its thread reads, or to one without a
  reader: `file`.  A fifo that was unlinked and made anew is thus told from the old one.
* The content of a fifo is lost with its last end (`Drop`), a read of an empty one fails if it has a
  writer (`RequestFails`) and returns 0 if it has not (`EndOfRequests`), an `open` for writing
  waits for a reader, or fails if it may not wait.  `hup` says that a writer has come since
  the fifo was opened; before that `select` does not report its end.
* A mode word of `ChaosDriver` is the set of its bits.
* *World.*  Several modules have a variable that never changes and is set initially to one
  of the CONSTANT `Worlds`: who takes part in this behaviour, and how much of everything there
  is.  One run checks several small instances in this way, which together are much smaller
  than one instance with all of it.
* History variables, which no guard reads: `asked` and `failures` of `EventDaemon`, `unreported` of
  `LiberaSA`, `own` of `LiberaCTIME`, `set` of `LiberaTrigger`, `last` of `LiberaEvent`, `seen` of
  `LiberaConfig`, `failed` of `CspiParams`, `owed` and `stale` of `CspiDaemons`, `hollow`,
  `resent` and `left` of `ChaosDriver`, `got` and `last` of `LiberaDD`.

### What the models assume of the outside

* *FPGA and accelerator.*  `LiberaTrigger`: the handler is late by less than half a period of the
  low bits (`InTime`), in which the FPGA calls for help; the event generator fires once and stays
  armed until then.  `LiberaDD`: atoms are fetched faster than they are acquired, an interrupt is
  served before a lap of the buffer is done (`Prompt`), a block of an aborted request ends
  before the next command, one process asks for post mortem data, a file is used by one process.
  An acquisition of post mortem data begins when the buffer has been full once (the last part of
  `DDAssumption`): before that the offset would lead to atoms that never were.
* *The C library.*  A `pthread_create` that fails has not written the thread's identifier
  (`evaction` of a process in `EventDaemon`).
* *dscd and lplld* are not in the repository.  `lplld` writes a report at once ("raw byte
  stream", `lplld.h`) and drops it if there is no room; `dscd` waits until its client has
  opened the fifo for the answer; either may stop and start again at any point, and
  with a fifo's last end goes what it holds.  Signals do not interrupt `open()`.
* *The CHAOS framework* is not in the repository.  A command's `setHandler` runs once, its
  `acquireHandler` again and again, and a newer command kills an older one between two calls, as
  `test/daqLiberaClient.cpp:199-214` asks for with `SUBMIT_AND_Kill`.

### Bounds

| Module | Constants marked *bound* | In the runs |
| --- | --- | --- |
| `LiberaSA` | `AtomIds`, `Overruns`, `IrqsPerTasklet`, `Signalled`, `MaxCount` | section 3 |
| `LiberaCTIME` | `Signalled`, `MaxTriggers` | one getter, 2 |
| `LiberaTrigger` | `Worlds` | four: 2 triggers in 13 ticks with 2 sets of the time, any time; 3 in 9 with 2, spaced; 3 of two kinds in 6 with 1; 3 post mortem in 6 with 1, spaced |
| `LiberaEvent` | `Worlds` | four: three files and two triggers without events; a master and a reader with 5 events; a master that only writes, a blocking and a nonblocking reader with 3; two that want to be master with 3 |
| `LiberaDD` | `Worlds` | five: two readers; times before, in and after the buffer; the decimations 1 and `DEC`; a buffer that wraps under a reader; a reader and an acquisition |
| `CspiParams` | `Worlds` | seven: two writers of thresholds; two threads of one; offsets and spike removal with `dscd`, or with two readers; readers with `dscd`; users of FA; users of DSC; `g_decimation` is 2 |
| `CspiDaemons` | `Calls`, `Worlds`, `Commands`, `Reports` | pairs of threads: two that ask `dscd`, one each, two that ask `lplld` from two processes; 1 command, 2 reports |
| `CspiEnv` | `MaxCons`, `Active` | 3, one connection |
| `EventDaemon` | `Masks`, `MaxId`, `REQ_ROOM`, `Busy`, `Mortal`, `Faulty`, `Signals`, `MaxStarts` | section 3 |
| `ChaosDriver` | `MaxCount` | 3, more than the loops ever count |

The proofs hold for all values of these.
`IrqsPerTasklet` limits how often one run of the tasklet is interrupted: this
keeps the state space small.  The top half is in addition kept from a full lap of
the ring: it does not look at the tail, and 32 slots at about ten atoms a second
are three seconds during which the tasklet would not have run.

## 3. What is checked

| Run | Instance | Asks |
| --- | --- | --- |
| `LiberaSA_files` | 3 files (one `O_NONBLOCK`), 2 slots, 3 addresses, 1 reader, rings of 2 slots; 1.6 million states | `RegistryConsistent`: types, cached slot, counters, a slot for each file, `-EBUSY` only when full; `NoDanglingPipe`, `ReaderPipeLives`: no freed memory is reached; that the device implements the stream (`ImplementsStream`) |
| `LiberaSA_stream` | 1 thread, pipe of 4 slots, ring of 3, two identities of atoms; 0.9 million states | `ImplementsStream` where both rings hold several atoms and wrap |
| `LiberaSA_live` | 2 threads on 1 file, rings of 2 slots, signals to one, overruns, an interrupt in the tasklet, fairness; 0.24 million states | `NoLostWakeup`, `CountedAtomsPresent`, `OverrunRemembered`, `ReadReturns` |
| `LiberaCTIME` | 2 getters, 1 waiter, signals to one, FIFOs of 2 stamps, 2 triggers, fairness; 45 thousand states | `CtimePairMatches`, `TriggerWakesWaiter`, `IoctlReturns` |
| `LiberaTrigger` | period 4, phase 1, delay 6, rings of 2, four worlds; 2.6 million states | `StampsExact`: a stamp is the time of its trigger; `SpacedTriggersExact`: pairs match and a set time is exact when triggers find the handler at rest; `SAStartsAgain` |
| `LiberaEvent` | up to 3 files, 2 triggers, a FIFO of 4 entries, up to 5 events, four worlds; 2.3 million states | `TriggersOwned`, `QueueHasMaster`, `ReadInOrder` |
| `LiberaDD` | a buffer of 6 atoms, blocks of 2, DMA fifo of 4, OB-fifo of 3, atoms of 4 ticks of LMT and 5 of LST, five worlds; 2.1 million states | `GetsItsAtoms`: in order, without a gap, from the time that was asked for; `DDIrqComes` |
| `CspiEnv` | 2 threads, 3 connections, one of them opened and given a handler, devices that fail, fairness; 0.36 million states | `EnvironmentConsistent`: types, the list, the count of handles; `HandleHasDevice`, `CallReturns` |
| `CspiParams` | seven worlds of two or three processes; 0.43 million states | `OffsetsAdd`, `AtomsOfOneRequest`, `CacheFresh`, `ReadDelivers` |
| `CspiDaemons` | pairs of four threads in two processes, both daemons stopping and starting, killed processes, locks and fifos that fail, fairness; 78 thousand states | `AnswerIsMine`, `StatusIsMine`, `DaemonCallReturns` |
| `EventDaemon` | 1 process that may die at any point and whose event thread may fail to start, 2 connections, masks none and one kind, of which the device has 2, room for 1 request, termination signals, fairness; 0.8 million states | `MaskCoversListeners`, `WalkOnListeners`, `JoinedIsListed`, `RegistrationReturns`, `GhostsRemoved` |
| `ChaosDriver` | nine mode words, endless and one loop, devices that fail, fairness; 0.14 million states | `DeviceOfMode`, `EndDisconnects`; `LoopsServed`: an acquisition that ends by its loops has published as often as it was asked to or once more, whatever the one it replaced had counted; `AcquireEnds` |

*Why these bounds are enough.*  Two slots and three files are the least with which a file
can be refused, a slot in the middle can be freed, and a freed address can come back in
another file.  A pipe of four slots holds three atoms, so that a read of
two leaves one, a ring wraps within a behaviour, and the tasklet writes while a copy is half
done; with two slots every second atom meets a full pipe.  Two readers of a file are the
least that can take an atom from under each other's count; a third adds no new
conflict, for the mutex lets one past at a time.  One interrupt within a run of the
tasklet is enough to schedule it again.  Two triggers are the least with which
the halves of two pairs can be mixed, and FIFOs of two stamps fill up with
them.

A period of four ticks has a tick of overflow, one of help and one between them on either
side; thirteen ticks are three overflows; the phase puts the overflows of the two clocks at
different ticks; a delay of six is more than a period, so that the start of SA is two
overflows away and not armed by the first.  An event FIFO of four entries holds three, and
five events fill it, overflow it and wrap it.  A buffer of six atoms with blocks of two and a fifo
towards the processor of three makes each of the quantities of a block's size the smallest
in some step (but for the atoms still to come, which are no fewer than those in the OB-fifo);
reads of five atoms wrap the DMA fifo of four.

Three connections are the least with which one in the middle of the
list is removed.  Two processes that set thresholds, two threads of one, and a process
together with `dscd` are the pairs that can get into one another's atoms, request and offset.
One try at an empty fifo, instead of five, makes every report late that does not come at
once.  Two connections of one process are the least with which a ghost has a
second listener behind it in the walk, which names the same fifo; the event
daemon tells processes apart only by their identifiers and fifos, and all the races it
meets are between it and one of them.  The races at the end of the request fifo need a writer that
closes and one that opens after it; two calls of one process are enough for that.
The commands of `ChaosDriver` follow each other without end; its mode words are those of
`test/daqLiberaClient.cpp`, the two that select the ADC, and one that is refused.

*Symmetry* is used in two runs, over files with their addresses (`LiberaSA_files`) and over the
two readers of `CspiParams`; neither checks liveness, and `OneThread`, `ThirdFile` and the like
stay fixed by it.

*Deadlock* is checked in seven runs and not in the others.  In `CspiEnv` and `EventDaemon` the
system really may stop, when `CSPI_E_SEQUENCE` has left the mutex locked and the other thread waits
for it, and when the daemon has ended and the processes are dead, or wait in the `open` of the
request fifo; in `ChaosDriver` when `initIO` waits for that mutex.  In
`LiberaTrigger` and `LiberaDD` the ticks of a world run out.

*ImplementsStream and nested interrupts.*  `LiberaSA_files` and `LiberaSA_stream` set
`IrqsPerTasklet` to 0.  With an interrupt in a run of the tasklet the property is false;
this is the first finding below, not an economy of states.

### Fairness

* `LiberaSA`: the FPGA goes on sampling, a pending interrupt is served, a scheduled tasklet
  runs (weak fairness); a process inside `read()` that is runnable again and again gets its
  turn (strong fairness, because the tasklet and the mutex take the step
  away again).  The kernel's mutex has a queue of waiters, so one that is released
  again and again is obtained.
  That a process calls `read()` or closes a file, or that a signal comes, is not assumed.
* `LiberaCTIME`: a fired trigger is stamped by the MC module, the handler goes on,
  a process that is runnable again and again gets its turn, and its timeout expires.
  No trigger need ever come.
* `CspiEnv`: a thread inside the library goes on and gets the mutex in its turn; the event
  thread starts, walks and sees the flag; the handlers it calls return.  No call and no
  event need ever come.
* `CspiDaemons`: a thread inside the library that can go on again and again does (strong
  fairness: mutex, lock and fifos are taken away by others); a daemon that stopped is started
  again, or, for `dscd`, answers; `lplld` takes its commands.  That `lplld` reports is not
  assumed, nor that a daemon never stops; a lock or an `open` may fail, and need not.
* `EventDaemon`: the daemon's loop goes on (weak fairness), and so does an event thread; a process
  inside the library goes on when its call can proceed again and again (strong fairness: the
  daemon closes and opens its fifo, and the fifo is full and has room by turns; the
  kernel wakes the blocked process each time).  No process need call, no event need come, nobody
  need start the daemon.  `GhostsRemoved` says what follows if events of a kind do come.
* `ChaosDriver`: the scheduler of the framework calls the handler of the running command again
  (weak fairness of `acquireHandler`).  No trigger need come, for the wait has a timeout.

`ReadReturns` is as strong as the code allows: of two threads that read one file, one may
find the pipe emptied by the other each time it has the mutex again.  So the property
promises that a read returns or that another thread on the same file is handed an atom.
`DaemonCallReturns` excepts a process whose request `dscd` took with it when it stopped, and
`CallReturns` one that waits for the mutex `CSPI_E_SEQUENCE` has left locked.

### Every property can fail

For each property of each run `PROJECT.json` names a plausible mistake in
the code (a scan that is left out, a count that is not undone, a test one off, a wakeup on the
wrong queue, a mutex kept during sleep) with which TLC refutes it in the same run.  The
mutated forms stand in the modules, marked *Mutant*.

## 4. What is proved

The theorems hold for every number of slots, files, addresses, threads, connections, commands,
for all ring sizes and for every value of the bounds.  They assume what the modules ASSUME of their
constants: at least one slot, rings of at least two, `NULL` and `NoAtom` different from
the values they stand beside, finitely many threads and connections in `CspiEnv` and getters in
`LiberaCTIME` (they are counted there), what `LiberaDD` and `LiberaTrigger` need of their clocks
(below), and nothing about finiteness elsewhere.  Each module of proofs
has one inductive invariant, with a lemma for each action or kind of action.

**`LiberaSAProofs`** — the registry.  `PipesInv`, the conjunction of the type
invariant, `NextSlotIsFree`, `CountersAgree`, `OneSlotPerFile`, `NoDanglingPipe`,
`MasterWhileOpen` and `OpenFilesHavePipes`, is inductive.  None of its parts is
inductive by itself: that `release()` finds its pipe needs `OneSlotPerFile`; that
the slot registered next is free needs the count to equal the number of occupied
slots, or the scan could fail while the count says there is room; and that count
needs the files to be finite and to have each a slot.  `OpenFilesHavePipes` is
the strengthening: the open files are finitely many and none has a null pipe.
Theorems: `RegistryInvariant`, `PipesTypeCorrect`, `RegistryAlwaysConsistent`,
`TableNeverDangles`, and the action property `BusyMeansFull`.

*The device.*  `LiberaSA` extends the registry, and each of its steps takes a step of it or leaves
its variables alone (the lemma `StepMovesPipes`).  So `PipesInv` holds
of the device too, and with it `DeviceInv`: `PipesInv`, the types, every thread in `read()`
holds an open file, a thread that copies has something left to copy, and
`NoLostWakeup`.  The argument for the last one: a reader goes to sleep on an empty
pipe; the pipe of a sleeping reader belongs to an open file and so is in the
table; only the tasklet fills pipes, it fills those in the table, and it makes
their readers runnable in the same step.  Theorems: `DeviceInvariant`,
`DeviceTypeCorrect`, `WakeupNeverLost`, `PipeOutlivesRead`, `OverrunNeverForgotten` and
`PipeOverflowNeverReported` (section 5).

*The copy loop.*  `CopyInv` adds that the one thread between lock and unlock holds the mutex of
its pipe (`MutexHeld`) and that what it counted and has not taken is in the pipe (`CountsHold`);
the tasklet only adds to it.  Theorems: `CopyInvariant`, `CountedAlwaysPresent`.

*The stream.*  `StreamInv` relates the rings to sequences: the part of a ring from its tail to its
head is a window of the array, storing behind it appends to the sequence and going on by one slot
takes its head; the tasklet never stores into the slot a reader copies from.  With it each step
of the device is a step of `SAStream` or a stutter, under the refinement mapping of `LiberaSA`
(`Held`, `InHand`).  The code refutes this without a proviso (section 5), so the theorem is
`DeviceImplementsStream == Spec /\ []NoStaleDispatch => ImplementsStream`, and
`NeverStaleWhenUninterrupted` shows where the proviso is met: when no SA interrupt
comes within a run of the tasklet (`IrqsPerTasklet = 0`).  `UninterruptedImplementsStream` puts them
together.

**`LiberaCTIMEProofs`** — the current time.  `CtimeInv` has the types, the budget of triggers,
and `WakeupComes`: who sleeps over a stamp sleeps while the handler is in the part that
put it there, which ends with the wakeup.  Theorems: `CtimeConsistent`, `CtimeTypeCorrect`,
`TriggerAlwaysWakes`.  `PairInv` has what makes two halves match: in each of the FIFOs, and
from one to the next, stamps are in the order of the triggers; the stamps of the software
triggers on their way in SC and in MC are of the same triggers (`OnTheWay`); and with the
handler at rest each stamp of MC has its stamp of SC, for the handler goes on until SC is
empty.  A getter, that runs only while the handler rests, then takes the oldest of both, and
an older one of SC would have its MC half behind the one it took.  This
breaks when a full FIFO drops one half, so the theorem is
`PairsAlwaysMatch == Spec /\ []Room => []CtimePairMatches`, where `Room` says
that neither FIFO is full.  In the run the triggers just fit the FIFOs; section 5 tells what
more of them do.

**`LiberaTriggerProofs`** — the triggers and the time.  `ClockInv`: from the high part that a handler has
counted, the entries of its FIFO lead to the clock.  Each tells the low bits of its time and
the overflow that came just before it, none is missing, and their times rise (`Exact`).  The entry that is
served next then follows the high part it belongs to.  Theorem: `StampsAlwaysExact`.

`SpacedInv` is about triggers that come one at a time: only the first entry of a FIFO may be of
a trigger; while its entry in SC waits, the one of the same time waits in MC, and the vector of
an interrupt that has begun has both (`Waits`); once the SC handler has served its entry, the
halves it put are of the trigger whose MC entry still waits, and MC is in the vector, so that no ioctl
comes between (`HalfDone`).  Theorem: `SpacedAlwaysExact`.

`LateInv` and `ArmInv` are about the start of SA.  `LateInv`: once the handler of HELPMC has run, what waits
in MC came after the middle of the period, and before that the help is at most half a period old.
`ArmInv`: SA is stopped only before its start, and when the period of the start is counted (for
the second half) or HELPMC of the period before was served (for the first half), the event
generator is armed.  A set of the time puts the start at least a period after its trigger, so it never
comes too late for the one or the other.  This is the assumption `P <= Delay - (D - 1)`: the
delay is `20*1024*D`, two seconds (`libera_main.c:498`), and `P`, 0x4000000 ticks, takes
somewhat more than half a second.  Theorem: `SAAlwaysStartsAgain`.

**`LiberaEventProofs`** — the event device.  `EventInv`: the types, who may be in the kernel
(`CpuRuns`), the count of writers and the master at every step of `open()` and `release()`
(`MasterCounted`), what a flush has emptied (`QueueFlushed`), the triggers of open files
(`TriggersKept`).  Theorems: `EventConsistent`, `TriggersAlwaysOwned`, `QueueAlwaysHasMaster`,
`OneWriter`.  `EventWakeupNeverLost` has an invariant of its own, `NobodyOverslept`.

*The order of the events* needs to be told from `get` on, for an interrupt between the steps of a put
uses the entry that the put is about to fill, and others behind it; the put then stores into an
entry that is queued already, and sets `put` back.  `QueueOrdered` says what stays true: the entries
from `get` to `put` rise and are newer than what was read; the event that a put holds fits at its
place (`Fits`: newer than all entries before that, older than all behind it); and once it is
stored, the entries up to it rise as well, which are those that `put` leaves.  During a flush, between
`get` and `put`, nothing is said, and nothing is read.  Theorems: `QueueAlwaysOrdered` and the
action property `EventsReadInOrder`.

**`LiberaDDProofs`** — the history buffer.  `DDInv` has six parts.  `DDTypes`.  `LockInv`: who is between
lock and unlock is who holds the mutex.  `IrqInv`: the interrupt of the buffer is enabled, or an entry
of it is queued, or the holder of the mutex has taken the entry and will enable it on every way out;
so nobody waits in vain though a read masks it and the acquisition of post mortem data waits for the same
one.  `DmacInv`: the block that is moved goes to free slots of the DMA fifo, in one piece, and is no more than
is to come.  `StreamInv` is the chain of a request: what is copied, what is in the DMA fifo from its read
position on, what is in the OB-fifo and what the FPGA fetches next are consecutive atoms, and their numbers
with those still to come add up to the count of the request.  Each step moves a piece from one link to the
next: a fetch, the end of a block (the interrupt), a copy.  An overrun breaks the
chain behind the OB-fifo; the driver's `Overrun` says so before a block that was spoilt is copied, so
that what the user got is right up to there.

`WaitInv` is about time.  The chain begins in the circular buffer, which goes on being written: when the
command is given, the first atom must have been written, and not yet overwritten.  Who waits was too early an
atom ago; the wait ends within the next one; and the conversion from LST to LMT, whose rates differ, must not
bring the start in front of an atom that exists.  Hence the assumptions on the constants,
all met by the driver's: LMT is not faster than LST (108 to 117.44 MHz against 125 MHz, `libera_dd.h:145-153`);
`d \div 2 < (MARGIN*d*FLMC) \div LSC`, that is, the margin of 64 atoms in LST is more than half an atom in LMT
(rounding is by half an atom); an atom at least is kept safe, and the margin with the atom after it
stays within the buffer (`CIRCBUF` is 2097152 atoms, `ebpp.h:93`, of which a tenth is safe,
`libera_kernel.h:567`).  That the atoms of a post mortem have numbers at all, which the code takes for
granted, is where the proof needs a buffer that has been full.  Theorems: `DDInvariant`, `AtomsAlwaysHis`,
`DDIrqAlwaysComes`, `BlocksAlwaysFit`, and `EndsAlwaysWhole`: a transfer without an overrun ends with all
its atoms and an empty OB-fifo, so the `-EIO` and the `-EFAULT` that the driver comments with "This should
never happen" (`ebpp.c:1608-1630`) are never returned.

**`CspiProofs`** — the library in a process.  *The handles* (`CspiEnv`).  `EnvInv`: the types, `HandlesCounted` (the reference
count is that of the handles held and of the threads half way through an allocation or a
release), `DeviceHeld`, `FreesItsOwn`, `LinksAgree` and `ConnectionsCounted`.  Theorems:
`HandlesConsistent`, `HandlesAlwaysHaveDevice`, `ListAlwaysLinked`.

That the walk from `head` meets every listed connection does not follow from links that agree: a
ring apart from the head would agree as well.  `WholeInv` excludes it with `Ordered`: there is a
ranking of the listed connections that falls along `next`.  An insertion at the head ranks above all, a
removal keeps the ranking.  Then a walk backwards from any connection rises, never comes to the same
one twice, and ends at the head, for the connections are finitely many (`WalkEnds`).
Theorems: `ListAlwaysWhole`, `EnvironmentAlwaysConsistent`.

*The parameters and their cache* (`LiberaConfig` and `CspiParams`).  `ParamsInv`: the mirror of the
registers and the sum of the two offsets (`DevInv`), who has a device open and who is its master
(`AccessInv`), block reads and writes with the semaphore (`BlockInv`), the mutex of the
environment (`ThreadInv`), how far a call that sets several parameters has come, and that what it has
set is in the FPGA still (`SettingInv`: the devices have one master, and it is this call's process), and
what an update of the cache has got from the FPGA, or the signal that tells that it changed
since (`CacheInv`).  Theorems: `ParamsInvariant`, `OffsetsAlwaysAdd`, `AtomsAlwaysOfOneRequest`,
`CacheAlwaysFresh`, `ReadAlwaysDelivers`.

**`CspiDaemonsProofs`** — the talk with the daemons.  `DaemonsInv`: the types, who holds mutex and
lock where (`EnvLocked`, `FifoLocked`), what a call still has to do (`InProgress`), and that a
request or an answer of a process is awaited by the one thread with the mutex
(`RequestsAwaited`, `RequestsApart`, `AnswersAwaited`); a killed process leaves requests behind,
whose answers nobody can mistake for another's.  Theorems: `CallsConsistent`, `AnswerAlwaysMine`.

`StatusInv` is about the status fifo of `lplld`.  One thread has its lock, from the clearing to the
end of the report.  When the clearing really emptied the fifo, what the thread has read together
with what is in the fifo is a sequence of whole reports, of its own query and of those that were
unanswered when it cleared (`owed` tells if there were any); a report is written as a whole or
dropped, and readers that gave up before left the lock first.  Theorems: `ReportsWhole`,
`StatusAlwaysMine`.

**`ProgramsProofs`** — the event daemon.  `EventdInv`: the types; `ListInv`, that the list has a
connection once, the walk's remainder is in it in spite of what the walk removes, and the mask covers
it; `ProcInv`, what a process asks for is for a connection it has, and nothing is asked for
before its event thread is there; `JoinedInv`, that the last request of a connection on its way to the
daemon has the mask the connection last asked for, and with none on its way the daemon has it.
Theorems: `EventdInvariant`, `MaskAlwaysCovers`, `WalkAlwaysOnListeners`, `JoinedAlwaysListed`.

The CHAOS driver.  `ChaosInv`: `Types`, `Agrees` (modes of driver and connection), `EndDisconnects`,
`AcquiringUnitIsUp` and `LoopsAddUp` (what was counted and what is to come).  `EndDisconnects` names the
three endings that do not close the connection (its duration, a command that kills without a
STOP, a data set without a buffer); all others do.
Theorems: `ChaosConsistent`, `DeviceAlwaysOfMode`, `EndAlwaysDisconnects`, `LoopsAlwaysServed`, and
`LoopsAlwaysPlusOne`, which states the finding of section 5 exactly.

*Only model-checked.*  Liveness (`ReadReturns`, `IoctlReturns`, `CallReturns`, `DaemonCallReturns`,
`RegistrationReturns`, `GhostsRemoved`, `AcquireEnds`) and whatever needs ENABLED are beyond the
prover.  Every safety property that
a run checks is the subject of a theorem.

*What the proofs asked of the models.*  `SelectSeq` and sequences that are only enumerated cannot be
reasoned about, so `EventDaemon` removes a listener by its place, `CspiParams` keeps the messages still
to be sent as a set of places, and `owed` of `CspiDaemons` is a truth value.  `SAStartsAgain` showed
that `LiberaTrigger` has to assume `P <= Delay - (D - 1)`, and not `P <= Delay`: the new part of the offset
that the PLL makes up for, up to `D - 1`, is taken from the delay.  `GetsItsAtoms` showed more of `LiberaDD`: with
LMT and LST of one rate, as they once were in the run, a wait in LST and one in LMT are the same.  The
driver waits in the clock of the request, decides by the time it read whether it has to wait at all
(a time that is up to an atom old), and converts from LST with the time it read when the wait was over; the
model now does so too, the run has clocks of different rates, and the post mortem its own decimation (`PMDEC`).
The proof also gave the inequalities between the clocks, the margin and the buffer that are stated above.

## 5. What the checks found

Writing the models showed places where the code does not do what a comment, a document or a
name says.  Where a property is named, it is defined in the module and states what the source
says; TLC refutes it if one puts it in the place of the INVARIANTs (for `CtimeIsCurrent` the
PROPERTY) of the run's cfg, unless other constants are mentioned.  No run is kept for them.
The properties that the runs check hold of the code as it is.

**Driver: SA.**

* *The tasklet dispatches from an empty ring* (`NoStaleDispatch`, with `LiberaSA_live`).  The
  comment at `ebpp.c:908-910` says that the bottom half may be interrupted by the top half and that a
  circular buffer prevents data corruption.  The bottom half is a `do ... while`: if
  the top half interrupts a run, stores an atom and schedules the tasklet again, and the
  run still drains that atom, the next run begins with an empty ring and hands the
  slot at the tail to every reader all the same.  The tail then passes the head and the
  old contents of the ring follow.
* *Overflow of a pipe is never signalled.*  `free_saFIFO` (`libera_sa.h:58`) counts the
  slot that must stay empty, so the test at `ebpp.c:905-906` that is to report a full
  pipe never fires; the atom is dropped in silence.  `PipeOverflowNeverReported` proves it.

**Driver: time and triggers.**

* *A current time that is not current* (`CtimeIsCurrent`).  `libera_get_CTIME`
  fires a trigger and waits.  A signal in that wait makes it leave; the pair of its
  trigger stays in the FIFOs and the next caller, finding an MC stamp, returns that older
  pair as "current LMT & LST pair" (`libera_main.c:257`).
* *A mutex given back twice* (`SemExclusive`, with two waiters).  The timeout of
  `getBlockedFromFIFO...` leaves the loop without the mutex (`libera_event.c:300-306`) and
  unlocks it on the way out (line 327).  Another waiter inside then shares the section, against
  "Get the device semaphore" (line 285).
* *A lost half* (`SCAlreadyThere` and `CtimePairMatches`, both with `FIFO_ROOM` 1, three triggers,
  and signals to both getters).  With a full SC FIFO the SC stamp of a pair is dropped while the MC
  stamp is kept, or becomes the partner of another (`libera_main.c:286-290` against "We can be sure
  SC is already there", 299).  In the code the FIFO holds `TRIG_LOG - 1` stamps, so it takes that many
  callers that signals took away.
* *An unread result.*  `libera_event.c:513` ignores what `libera_get_CTIME` returned and
  copies an uninitialised time to the user (`Garbage` in `LiberaCTIME`).
* *Pairs of two triggers* (`PairsMatch`).  The handler reads the vector of interrupts before it
  serves SC, and the note at `libera_main.c:974-976` and the comments of `libera_event.h:88,95` rely on
  SC coming first.  A trigger that comes between the two parts is found by MC but not by SC,
  and the halves of different triggers meet.  `SpacedTriggersExact` has what holds.
* *A set of the time that is lost.*  An interrupt between `TRIGMODE` and the update flag (a load and a
  store in the ioctl) announces the set without doing it, and the update waits for the next set.
  A second set within the delay leaves the old start armed in the event generator, so that
  SA starts early.  With the default `lgbl.dfa = 0` (`libera_main.c:1502`) the delay is 0.
* *A mask without parentheses.*  `TRIG_ALL_MASK` (`libera_kernel.h:501`) is used in an
  expression at `libera_event.c:68`.

**Driver: event device.**

* *An event that is overwritten* (`NoEventLost`).  "fifo would overflow" is the one reason
  `putTo_eventFIFO` has for not keeping an event (`libera_event.h:207-212`).  It
  reads `put`, writes the entry and then stores `put`; an interrupt in between puts its event in
  the same entry.
* *Triggers refused for ever.*  `release()` clears the trigger bits of files opened for reading only;
  those of a file opened for both stay, and the next `ENABLE_TRIG` gets `-EBUSY`
  (`libera_event.c:177`).
* *A second writer* gets `-EBUSY` and its `event_local` is not freed (`libera_event.c:139`).

**Driver: DD and its relatives.**

* *Reads that do not join* (`ReadsFollow`).  "MT & LMT increment for future read() requests"
  (`ebpp.c:1829-1830`).  The first read takes the atom nearest to the time (`libera_dd.h:89` adds
  half an atom), and converting the incremented machine time back may lead one atom earlier.
* A signal during the wait for the interrupt of the buffer makes `read()` return 0; one during the
  copying leaves the position where it was though atoms were written; `read()` of no bytes after
  `lseek` turns the request into one with a machine time nobody set.
* *Locks that stay.*  An unknown ioctl of DD or PM (`libera_dd.c:238`, `libera_pm.c:219`) and a failing
  copy of ADC (`libera_adc.c:209`) return with `dev->sem` locked.  An `open()` that runs out of
  memory leaves `readers` one too high.
* `libera_pm_read` takes the mutex of PM and the acquisition writes the data under that of DD.

**CSPI.**

* *The walk of the event thread reaches freed connections* (`EventThreadOnLive`).
  `event_thread` walks `environment.head` without the mutex.  A connection that is not the
  last is removed and freed without waiting for the thread, although "each
  connection on the environment can run in its own thread" (`cspi_impl.h:106`).
* *A mutex kept* (`MutexReleased`).  `destroy_env` returns `CSPI_E_SEQUENCE` with the mutex locked
  (`cspi.c:305`), against "the environment and any active connection remain valid"
  (`cspi.h:256-259`).  `ebpp_update_cache` returns with the mutex of the cache locked when one
  of two ioctls fails (cspi `ebpp.c:171,177`).
* *A descriptor left open* (`CfgFdNotLeaked`).  `usage_count` is tested and decremented under two
  lockings (`cspi.c:299`), so two threads may each see the other's handle and neither closes the
  device; `alloc_env` that fails after `open` leaves it open too (`cspi.c:272`);
  against `cspi_impl.h:105`.
* *CSPI_OK with an old cache* (`OkMeansUpdated`).  The result of the update of the cache is dropped, so a
  read returns `CSPI_OK` with positions computed from parameters the FPGA has no more; the comment in
  `libera_dsc_ioctl` relies on the update ("will cause CSPI to update cached parameters").
* *Someone else's report* (`StatusIsMineAlways`).  `ebpp_pll_clearstatus` ends when `errno` is `EAGAIN`,
  which it may have been before: the fifo is then not read "until it is empty" (cspi `ebpp.c:973`), and
  the rest of an orphan report heads the next one.
* A process whose request `dscd` took with it when it stopped waits for ever with the mutex held
  (`Stranded`).  Clearing and reading the status spin while `lplld` is dead.  A request of several
  messages with an invalid one has sent those before it.  `cspi_getconparam` calls
  `custom_setconparam` (`cspi.c:980`).

**Event daemon.**

* *A late farewell cuts a process off* (`RunningThreadIsReached`).  A process that frees its last
  connection writes a request to leave and does not wait for the daemon to read it.  If it makes its
  next handler before that, it creates its fifo anew, and then the daemon reads the request and
  `remove_listener` unlinks the fifo by its name (`eventd.c:609`).  At the next event the new listener
  is taken for a ghost and removed; the process's handlers are never called again, against
  `cspi.h:193-194`.
* *Requests thrown away* (`NoRequestDiscarded`).  A request that is written between the daemon's `read`
  that returned 0 and its `close` is lost with the fifo (`eventd.c:444-449`; the comment speaks of "any
  incomplete request").
* *Two ways to end the daemon.*  A new writer that opens the request fifo after `select` saw its end makes
  `read` fail with `EAGAIN`, which is not excepted, and the daemon exits (`eventd.c:437-438`,
  `RequestFails`).  A process that leaves its fifo between the daemon's `open` and `write`
  has it killed by SIGPIPE, against "assumed that fd == -1" (line 551; `WriteHasReader`).  A daemon
  that is started again knows no listeners, and while there is none the `open` of a registration
  waits with the environment's mutex held.
* *Events delivered twice, farewells not sent.*  Two connections of a process are two listeners
  with one fifo, so each event comes twice and each handler is called twice.  A connection that is
  freed and is not the last sends no request to leave; the last one sends its process id, which is 0 if
  it never had a handler (`cspi.c:445-446`, `remove_con` of `EventDaemon`).

**CHAOS driver.**

* *Errors counted as data* (`CountedIsRead`).  "the number of succesful read items, negative error"
  (`LiberaBrillianceCSPIDriver.h`, of `read`).  The codes of the library are negative and `read()`
  returns them negated, so an error is positive and the command counts it as an acquisition.  In this
  way the two modes of the ADC count on without ever acquiring anything.
* *A driver that is ready without handles* (`ReadyMeansHandles`).  `initIO`, after a failure, returns 0 at
  the second call ("0 if success, error otherwise").
* *A time nobody asked to set* (`SentIsAsked`).  The bits that say which halves of the time to set are
  never cleared, so a later command sets again what an earlier one asked for.
* `deinitIO` frees the environment before the connection: `CSPI_E_SEQUENCE`, the mutex stays locked, and
  the next `initIO` hangs (`LiberaBrillianceCSPIDriver.cpp:430`).  A trigger before the wait is lost and a
  spurious wakeup is taken for one.  The end of its duration leaves an acquisition's connection open,
  and one that is killed leaves `MODE` published.
* *An acquisition without a buffer.*  `setHandler` empties the data sets (`CmdLiberaAcquire.cpp:112`) and
  sizes them again only for a command that gives `samples`.  Without them an acquisition of DD finds no
  buffer, publishes `LIBERA_ERROR_ALLOCATE_DATASET` and ends (lines 227-235), but sends no STOP, as all
  other errors do: the connection stays open and the operation of the driver remains to acquire.
* *One acquisition too many.*  The loops are tested before they are counted down
  (`CmdLiberaAcquire.cpp:315-327`), so an acquisition of *n* loops publishes *n + 1* times, against the
  option "acquires loops" of `test/daqLiberaClient.cpp`.  `LoopsServed`, which the run checks, allows the code
  and its repair; `LoopsPlusOne` says what the code does and is proved, not checked.

## 6. What is not modelled

Of the modelled components:

* the numeric contents of an atom and what is published of it; the conversions of `cordic.c`,
  `pool.c` and of gains and levels, straight-line code that a unit test covers better;
* getting parameters, which changes nothing, and the parameters of a connection;
* of the event device, the ioctls that only move a register or a parameter to or from the user;
* of the waits for a trigger, those with a timeout of `MAX_SCHEDULE_TIMEOUT` (`libera_event.c:430-435`):
  a trigger that never comes makes them wait for ever, as they are meant to;
* of setting the average window, the value `FA_ENABLE` has between two writes of the one ioctl
  (`ebpp.c:452-454`), which no other step sees;
* of DD, decimations other than 1 and `DEC`: the driver takes any that is not 0 (`libera_dd.c:213-215`), and the
  FPGA's filter has these two (`ebpp.c:84`);
* of DD, PM and ADC, transfers without DMA, the `read()` of PM and the ADC device, which
  acquires and copies under one mutex; `pm_entry`, by which an acquisition is refused for a while;
* of the event daemon, its pid file and the check for a second instance, and the acknowledgement
  of a post mortem event; a signal that finds the daemon within a change of its list
  (`eventd.c:339-372`): in the model its cleanup comes between two system calls;
* a `close()` that fails: the devices of the driver have no `flush`, so it does not
  (`cspi_disconnect` of `ChaosDriver`).

Hardware registers appear only where the code reads them to decide something.

Not modelled at all: `libera_init` and `libera_exit`, run once and alone; the other FPGA families
(variants of `ebpp.c` compiled in its place); `RTBPMLibera`, a template; `LiberaData`, which formats; the
MSP430 firmware and its loader; LabVIEW panels and test clients.

## 7. What could come next

1. An abstract specification of the event daemon: a group whose members are those that
   asked to join and did not ask to leave, implemented as long as nothing was thrown away.
2. The composition of `CspiEnv` with `ChaosDriver`, so that the lost mutex is the library's own
   instead of a value of `env`.
3. The ADC device and the reads of PM, with the mutex that an error leaves locked.
