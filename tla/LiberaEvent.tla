------------------------------ MODULE LiberaEvent ------------------------------
(***************************************************************************)
(* The device libera.event: who holds it open, the triggers its users      *)
(* enable and the FIFO of asynchronous events (libera_event.c,             *)
(* libera_event.h, libera_send_event of libera_main.c).                    *)
(*                                                                         *)
(* There is one processor and the kernel does not preempt: a process in    *)
(* the kernel runs until it sleeps or returns, and cpu is that process;    *)
(* interrupts come between any two steps.  Events are numbered as          *)
(* libera_send_event is called.  Stamps and the time are in LiberaCTIME    *)
(* and LiberaTrigger.                                                      *)
(***************************************************************************)
EXTENDS Integers, FiniteSets

CONSTANTS
    Files,      \* the files that processes open, one thread each
    Modes,      \* file -> the modes it may be opened with
    NonBlock,   \* the files with O_NONBLOCK
    Kinds,      \* the kinds of event, which the mask filters
    TRIG_LOG,   \* entries of the event FIFO
    Triggers,   \* the trigger inputs that are not enabled AtLoad
    MaxRead,    \* the most events a read asks for
    Worlds,     \* bound: which files, triggers and how many events go together
    NULL

(* The triggers that libera_init enables on both sides; a user who asks for *)
(* one of them gets -EBUSY.                                                 *)
AtLoad == {"CTIME", "TRIGGER", "POST_MORTEM"}

ASSUME EventAssumption ==
    /\ Modes \in [Files -> SUBSET SUBSET {"r", "w"}]
    /\ NonBlock \subseteq Files
    /\ TRIG_LOG \in Nat \ {0} /\ MaxRead \in Nat \ {0}
    /\ Worlds \subseteq [files : SUBSET Files, triggers : SUBSET Triggers, events : Nat]
    /\ NULL \notin Files /\ AtLoad \cap Triggers = {}

VARIABLES
    world,   \* one of Worlds
    fs,      \* file -> its modes and its event_local; NULL when it is not open
    acc,     \* dev->master_filp and the counts
    sem,     \* the file whose call holds dev->sem
    trig,    \* dev->sc_trigVec and mc_trigVec, and the masks in the FPGA
    mask,    \* event_mask
    events,  \* the event FIFO: [put, get, data]
    pc, ret, \* file -> where its call is, and where it goes on after a flush
    cpu,     \* the file whose call runs in the kernel
    left,    \* file -> the events its read has still to copy
    waits,   \* file -> "off" or, on EVENT_queue, "asleep" or "woken"
    put,     \* file -> the event it is sending and its index in the FIFO
    sent,    \* (history) events sent so far
    last     \* (history) the last event a user got

vars == << world, fs, acc, sem, trig, mask, events, pc, ret, cpu, left, waits, put, sent, last >>

Sides == {"sc", "mc"}

-----------------------------------------------------------------------------
(* The event FIFO *)

Index(i) == (i + 1) % TRIG_LOG
len_eventFIFO == (events.put + TRIG_LOG - events.get) % TRIG_LOG
Empty == events.put = events.get

(* wake_up_interruptible(&event->EVENT_queue) *)
WakeUp ==
    waits' = [f \in Files |-> IF waits[f] = "asleep" THEN "woken" ELSE waits[f]]

(* An interrupt or the tasklet sends an event, from whatever step a process  *)
(* is at: the whole of libera_send_event and putTo_eventFIFO.                *)
Interrupt ==
    /\ sent < world.events /\ mask # {}
    /\ sent' = sent + 1
    /\ LET index == Index(events.put)
       IN  events' = IF index = events.get THEN events
                     ELSE [events EXCEPT !.data[index] = sent', !.put = index]
    /\ WakeUp
    /\ UNCHANGED << fs, acc, sem, trig, mask, pc, ret, cpu, left, put, last >>

(* The same from a process, SET_SCPLL here, which interrupts may cut: the    *)
(* mask and the room are tested, ...                                         *)
StartSend(f) ==
    /\ cpu = NULL /\ pc[f] = "user" /\ fs[f] # NULL
    /\ sent < world.events /\ mask # {}
    /\ sent' = sent + 1
    /\ put' = [put EXCEPT ![f] = [event |-> sent', index |-> Index(events.put)]]
    /\ pc' = [pc EXCEPT ![f] = IF Index(events.put) = events.get THEN "wake" ELSE "data"]
    /\ cpu' = f
    /\ UNCHANGED << fs, acc, sem, trig, mask, events, ret, left, waits, last >>

(* ... the event stored, ... *)
StoreEvent(f) ==
    /\ pc[f] = "data"
    /\ events' = [events EXCEPT !.data[put[f].index] = put[f].event]
    /\ pc' = [pc EXCEPT ![f] = "put"]
    /\ UNCHANGED << fs, acc, sem, trig, mask, ret, cpu, left, waits, put, sent, last >>

(* ... the index advanced, and the readers woken up. *)
AdvancePut(f) ==
    /\ pc[f] \in {"put", "wake"}
    /\ events' = IF pc[f] = "put" THEN [events EXCEPT !.put = put[f].index] ELSE events
    /\ WakeUp
    /\ put' = [put EXCEPT ![f] = NULL]
    /\ pc' = [pc EXCEPT ![f] = "user"]
    /\ cpu' = NULL
    /\ UNCHANGED << fs, acc, sem, trig, mask, ret, left, sent, last >>

(* flush_eventFIFO: get and then put, with an interrupt between perhaps.     *)
flush_eventFIFO(f) ==
    /\ \/ /\ pc[f] = "flush"
          /\ events' = [events EXCEPT !.get = 0]
          /\ pc' = [pc EXCEPT ![f] = "flush put"]
       \/ /\ pc[f] = "flush put"
          /\ events' = [events EXCEPT !.put = 0]
          /\ pc' = [pc EXCEPT ![f] = ret[f]]
    /\ UNCHANGED << fs, acc, sem, trig, mask, ret, cpu, left, waits, put, sent, last >>

-----------------------------------------------------------------------------
(* open: the mutex is held while kmalloc may sleep. *)

OpenLock(f) ==
    /\ cpu = NULL /\ pc[f] = "closed" /\ sem = NULL
    /\ sem' = f
    /\ \E m \in Modes[f] : fs' = [fs EXCEPT ![f] = [modes |-> m, sc |-> {}, mc |-> {}]]
    /\ pc' = [pc EXCEPT ![f] = "kmalloc"]
    /\ UNCHANGED << acc, trig, mask, events, ret, cpu, left, waits, put, sent, last >>

(* -ENOMEM, or -EBUSY to a second writer. *)
OpenFails(f) ==
    /\ cpu = NULL /\ pc[f] = "kmalloc"
    /\ sem' = NULL
    /\ fs' = [fs EXCEPT ![f] = NULL]
    /\ pc' = [pc EXCEPT ![f] = "closed"]
    /\ UNCHANGED << acc, trig, mask, events, ret, cpu, left, waits, put, sent, last >>

(* The first writer becomes the master and finds the FIFO empty. *)
OpenAsMaster(f) ==
    /\ cpu = NULL /\ pc[f] = "kmalloc"
    /\ "w" \in fs[f].modes /\ acc.master = NULL
    /\ acc' = [acc EXCEPT !.master = f]
    /\ cpu' = f
    /\ pc' = [pc EXCEPT ![f] = "flush"]
    /\ ret' = [ret EXCEPT ![f] = "opened"]
    /\ UNCHANGED << fs, sem, trig, mask, events, left, waits, put, sent, last >>

libera_event_open(f) ==
    /\ \/ pc[f] = "opened"
       \/ cpu = NULL /\ pc[f] = "kmalloc" /\ "w" \notin fs[f].modes
    /\ acc' = [acc EXCEPT !.writers = @ + IF "w" \in fs[f].modes THEN 1 ELSE 0,
                          !.readers = @ + IF "r" \in fs[f].modes THEN 1 ELSE 0,
                          !.open_count = @ + 1]
    /\ sem' = NULL /\ cpu' = NULL
    /\ pc' = [pc EXCEPT ![f] = "user"]
    /\ UNCHANGED << fs, trig, mask, events, ret, left, waits, put, sent, last >>

(* release: without the mutex.  A file open only for reading takes the       *)
(* triggers it enabled away with it.                                         *)
ClearTriggers(f) ==
    LET m == fs[f].modes
    IN  IF m = {"r"}
        THEN LET sc == trig.sc \ fs[f].sc
                 mc == trig.mc \ fs[f].mc
             IN  [sc |-> sc, mc |-> mc, T_SC_TRIGGER_MASK |-> sc, T_MC_TRIGGER_MASK |-> mc]
        ELSE trig

libera_event_release(f) ==
    /\ cpu = NULL /\ pc[f] = "user"
    /\ LET m == fs[f].modes
           writers == acc.writers - IF "w" \in m THEN 1 ELSE 0
       IN  /\ acc' = [acc EXCEPT !.open_count = @ - 1, !.writers = writers,
                                 !.readers = @ - IF "r" \in m THEN 1 ELSE 0]
           /\ trig' = ClearTriggers(f)
           /\ pc' = [pc EXCEPT ![f] = IF "w" \in m /\ writers = 0 THEN "last" ELSE "kfree"]
    /\ cpu' = f
    /\ UNCHANGED << fs, sem, mask, events, ret, left, waits, put, sent, last >>

(* The last writer leaves no master, no event enabled and an empty FIFO. *)
LastWriter(f, m) ==
    /\ pc[f] = "last"
    /\ acc' = [acc EXCEPT !.master = NULL]
    /\ mask' = m
    /\ pc' = [pc EXCEPT ![f] = "flush"]
    /\ ret' = [ret EXCEPT ![f] = "kfree"]
    /\ UNCHANGED << fs, sem, trig, events, cpu, left, waits, put, sent, last >>

(* Mutant: the mask stays. *)
ReleaseKeepsMask(f) == LastWriter(f, mask)

ReleaseMaster(f) == LastWriter(f, {})

Closed(f) ==
    /\ pc[f] = "kfree"
    /\ fs' = [fs EXCEPT ![f] = NULL]
    /\ cpu' = NULL
    /\ pc' = [pc EXCEPT ![f] = "closed"]
    /\ UNCHANGED << acc, sem, trig, mask, events, ret, left, waits, put, sent, last >>

-----------------------------------------------------------------------------
(* ioctl *)

InUser(f) == cpu = NULL /\ pc[f] = "user"

Enabling(f, side, arg) ==
    LET local == fs[f][side] \cup arg
        all   == trig[side] \cup local
    IN  /\ fs' = [fs EXCEPT ![f][side] = local]
        /\ trig' = IF side = "sc" THEN [trig EXCEPT !.sc = all, !.T_SC_TRIGGER_MASK = all]
                   ELSE [trig EXCEPT !.mc = all, !.T_MC_TRIGGER_MASK = all]
        /\ UNCHANGED << acc, sem, mask, events, pc, ret, cpu, left, waits, put, sent, last >>

(* Mutant: a trigger may be enabled twice. *)
EnableShared(f, side, arg) == InUser(f) /\ arg # {} /\ Enabling(f, side, arg)

(* LIBERA_EVENT_ENABLE_xC_TRIG: -EINVAL for no trigger, -EBUSY for one that  *)
(* is enabled already.  The stamps of its FIFOs are flushed, in LiberaCTIME. *)
ENABLE_TRIG(f, side, arg) ==
    /\ InUser(f)
    /\ arg # {}
    /\ arg \cap trig[side] = {}
    /\ Enabling(f, side, arg)

(* LIBERA_EVENT_SET_MASK: -EPERM but for the master. *)
SET_MASK(f) ==
    /\ InUser(f) /\ acc.master = f
    /\ mask' \in SUBSET Kinds
    /\ UNCHANGED << fs, acc, sem, trig, events, pc, ret, cpu, left, waits, put, sent, last >>

(* LIBERA_EVENT_FLUSH *)
FLUSH(f) ==
    /\ InUser(f) /\ acc.master = f
    /\ cpu' = f
    /\ pc' = [pc EXCEPT ![f] = "flush"]
    /\ ret' = [ret EXCEPT ![f] = "flushed"]
    /\ UNCHANGED << fs, acc, sem, trig, mask, events, left, waits, put, sent, last >>

Flushed(f) ==
    /\ pc[f] = "flushed"
    /\ cpu' = NULL
    /\ pc' = [pc EXCEPT ![f] = "user"]
    /\ UNCHANGED << fs, acc, sem, trig, mask, events, ret, left, waits, put, sent, last >>

-----------------------------------------------------------------------------
(* read *)

ReadCall(f) ==
    /\ InUser(f) /\ "r" \in fs[f].modes
    /\ \E n \in 1 .. MaxRead : left' = [left EXCEPT ![f] = n]
    /\ pc' = [pc EXCEPT ![f] = "lock"]
    /\ UNCHANGED << fs, acc, sem, trig, mask, events, ret, cpu, waits, put, sent, last >>

Return(f) ==
    /\ sem' = IF sem = f THEN NULL ELSE sem
    /\ cpu' = NULL
    /\ pc' = [pc EXCEPT ![f] = "user"]
    /\ left' = [left EXCEPT ![f] = 0]
    /\ waits' = [waits EXCEPT ![f] = "off"]
    /\ UNCHANGED << fs, acc, trig, mask, events, ret, put, sent, last >>

(* A signal interrupts the waiting for the mutex: -ERESTARTSYS. *)
LockInterrupted(f) == cpu = NULL /\ pc[f] = "lock" /\ sem # NULL /\ Return(f)

ReadLock(f) ==
    /\ cpu = NULL /\ pc[f] = "lock" /\ sem = NULL
    /\ ~(f \in NonBlock /\ Empty)
    /\ sem' = f /\ cpu' = f
    /\ pc' = [pc EXCEPT ![f] = IF Empty THEN "prepare" ELSE "count"]
    /\ UNCHANGED << fs, acc, trig, mask, events, ret, left, waits, put, sent, last >>

(* O_NONBLOCK and nothing there: -EAGAIN. *)
ReadAgain(f) ==
    /\ cpu = NULL /\ pc[f] = "lock" /\ sem = NULL
    /\ f \in NonBlock /\ Empty
    /\ Return(f)

Prepare(f) ==
    /\ pc[f] = "prepare"
    /\ waits' = [waits EXCEPT ![f] = "asleep"]
    /\ pc' = [pc EXCEPT ![f] = "recheck"]
    /\ UNCHANGED << fs, acc, sem, trig, mask, events, ret, cpu, left, put, sent, last >>

(* The FIFO is tested again with the state set, and the mutex left for       *)
(* schedule().                                                               *)
Recheck(f) ==
    /\ pc[f] = "recheck"
    /\ IF Empty
       THEN /\ sem' = NULL /\ cpu' = NULL
            /\ pc' = [pc EXCEPT ![f] = "schedule"]
            /\ UNCHANGED waits
       ELSE /\ waits' = [waits EXCEPT ![f] = "off"]
            /\ pc' = [pc EXCEPT ![f] = "count"]
            /\ UNCHANGED << sem, cpu >>
    /\ UNCHANGED << fs, acc, trig, mask, events, ret, left, put, sent, last >>

Relock(f) ==
    /\ cpu = NULL /\ pc[f] = "schedule" /\ waits[f] = "woken" /\ sem = NULL
    /\ sem' = f /\ cpu' = f
    /\ pc' = [pc EXCEPT ![f] = "prepare"]
    /\ UNCHANGED << fs, acc, trig, mask, events, ret, left, waits, put, sent, last >>

(* A signal wakes it up: once it has the mutex and the FIFO is still empty,  *)
(* -ERESTARTSYS.                                                             *)
Interrupted(f) ==
    /\ cpu = NULL /\ pc[f] = "schedule" /\ sem = NULL /\ Empty
    /\ Return(f)

Count(f) ==
    /\ pc[f] = "count"
    /\ left' = [left EXCEPT ![f] = IF @ < len_eventFIFO THEN @ ELSE len_eventFIFO]
    /\ pc' = [pc EXCEPT ![f] = "get"]
    /\ UNCHANGED << fs, acc, sem, trig, mask, events, ret, cpu, waits, put, sent, last >>

(* The entry a get takes; the index is advanced first, as it is by the put.  *)
(* Mutant: the entry at the index before it is advanced.                     *)
TakenEarly == events.data[events.get]

Taken == events.data[Index(events.get)]

(* getFrom_eventFIFO, and copy_to_user has the event before it sleeps; an    *)
(* empty FIFO, flushed meanwhile, is -EFAULT.                                *)
getFrom_eventFIFO(f) ==
    /\ pc[f] = "get" /\ left[f] > 0 /\ ~Empty
    /\ events' = [events EXCEPT !.get = Index(@)]
    /\ last' = Taken
    /\ left' = [left EXCEPT ![f] = @ - 1]
    /\ cpu' = NULL
    /\ pc' = [pc EXCEPT ![f] = "copy"]
    /\ UNCHANGED << fs, acc, sem, trig, mask, ret, waits, put, sent >>

ReadReturns(f) == pc[f] = "get" /\ (left[f] = 0 \/ Empty) /\ Return(f)

CopyFails(f) == cpu = NULL /\ pc[f] = "copy" /\ Return(f)

Copied(f) ==
    /\ cpu = NULL /\ pc[f] = "copy"
    /\ cpu' = f
    /\ pc' = [pc EXCEPT ![f] = "get"]
    /\ UNCHANGED << fs, acc, sem, trig, mask, events, ret, left, waits, put, sent, last >>

(* poll: on EVENT_queue first, then the test; again when woken up for an     *)
(* event that another file got.                                              *)
libera_event_poll(f) ==
    /\ \/ InUser(f) /\ "r" \in fs[f].modes
       \/ cpu = NULL /\ pc[f] = "poll" /\ waits[f] = "woken"
    /\ Empty
    /\ waits' = [waits EXCEPT ![f] = "asleep"]
    /\ pc' = [pc EXCEPT ![f] = "poll"]
    /\ UNCHANGED << fs, acc, sem, trig, mask, events, ret, cpu, left, put, sent, last >>

(* Readable, or a signal. *)
PollReturns(f) == cpu = NULL /\ pc[f] = "poll" /\ Return(f)

-----------------------------------------------------------------------------
Init ==
    /\ world \in Worlds
    /\ fs = [f \in Files |-> NULL]
    /\ acc = [master |-> NULL, readers |-> 0, writers |-> 0, open_count |-> 0]
    /\ sem = NULL /\ cpu = NULL
    /\ trig = [sc |-> AtLoad, mc |-> AtLoad, T_SC_TRIGGER_MASK |-> AtLoad,
               T_MC_TRIGGER_MASK |-> AtLoad]
    /\ mask = {}
    /\ events = [put |-> 0, get |-> 0, data |-> [i \in 0 .. TRIG_LOG - 1 |-> 0]]
    /\ pc = [f \in Files |-> "closed"] /\ ret = [f \in Files |-> "user"]
    /\ left = [f \in Files |-> 0]
    /\ waits = [f \in Files |-> "off"]
    /\ put = [f \in Files |-> NULL]
    /\ sent = 0 /\ last = 0

Next ==
    /\ UNCHANGED world
    /\ \/ Interrupt
       \/ \E f \in world.files :
            \/ StartSend(f) \/ StoreEvent(f) \/ AdvancePut(f) \/ flush_eventFIFO(f)
            \/ OpenLock(f) \/ OpenFails(f) \/ OpenAsMaster(f) \/ libera_event_open(f)
            \/ libera_event_release(f) \/ ReleaseMaster(f) \/ Closed(f)
            \/ \E side \in Sides, arg \in SUBSET world.triggers : ENABLE_TRIG(f, side, arg)
            \/ SET_MASK(f) \/ FLUSH(f) \/ Flushed(f)
            \/ ReadCall(f) \/ LockInterrupted(f) \/ ReadLock(f) \/ ReadAgain(f)
            \/ Prepare(f) \/ Recheck(f) \/ Relock(f) \/ Interrupted(f)
            \/ Count(f) \/ getFrom_eventFIFO(f) \/ ReadReturns(f) \/ CopyFails(f) \/ Copied(f)
            \/ libera_event_poll(f) \/ PollReturns(f)

Spec == Init /\ [][Next]_vars

-----------------------------------------------------------------------------
IsOpen(f) == pc[f] \notin {"closed", "kmalloc"}

(* A trigger that a file enabled stays enabled in the FPGA as long as the    *)
(* file is open, whichever files are closed meanwhile, and has no other      *)
(* owner (ENABLE_TRIG, libera_event_release).                                *)
TriggersOwned ==
    /\ \A f \in Files : IsOpen(f) /\ pc[f] # "kfree" =>
         fs[f].sc \subseteq trig.T_SC_TRIGGER_MASK /\ fs[f].mc \subseteq trig.T_MC_TRIGGER_MASK
    /\ \A f, g \in Files : f # g /\ IsOpen(f) /\ IsOpen(g) =>
         fs[f].sc \cap fs[g].sc = {} /\ fs[f].mc \cap fs[g].mc = {}

(* When no process is in the kernel, there is a master exactly when a file   *)
(* is open for writing, and without one no event is enabled and none queued, *)
(* though interrupts come at any step of open and release.                   *)
QueueHasMaster ==
    cpu = NULL =>
        /\ acc.master # NULL <=> \E f \in Files : IsOpen(f) /\ "w" \in fs[f].modes
        /\ acc.master = NULL => mask = {} /\ Empty

(* Users get the events in the order of libera_send_event and each once, for *)
(* all that puts cut each other and the master flushes while a reader copies *)
(* (putTo_eventFIFO, getFrom_eventFIFO, flush_eventFIFO).                    *)
ReadInOrder == [][last' # last => last' > last]_vars

(* Nobody sleeps over an event that is queued. *)
NoLostWakeup ==
    cpu = NULL /\ ~Empty =>
        \A f \in Files : pc[f] \in {"schedule", "poll"} => waits[f] = "woken"

(* "fifo would overflow" is the only reason putTo_eventFIFO knows for not    *)
(* keeping an event: otherwise what was sent is in the FIFO until it is read *)
(* or flushed.                                                               *)
NoEventLost ==
    \A f \in Files : pc[f] = "put" =>
        events.data[put[f].index] = put[f].event /\ events.put # put[f].index
=============================================================================
