------------------------------- MODULE LiberaSA --------------------------------
(***************************************************************************)
(* /dev/libera.sa from the FPGA to the user's buffer (libera_sa.[ch],      *)
(* ebpp.c): the top half (TH) empties the FPGA FIFO into a ring, the       *)
(* tasklet (BH) copies the ring into the pipe of every open file and wakes *)
(* its readers, and read() takes atoms out of its file's pipe, sleeping    *)
(* when there is none.                                                     *)
(*                                                                         *)
(* The driver is built for a uniprocessor without kernel preemption: an    *)
(* interrupt may come at any time, the tasklet between any two steps of a  *)
(* process, and a process goes on only when the tasklet is done.           *)
(***************************************************************************)
EXTENDS LiberaSAPipes, Sequences

CONSTANTS
    Threads,           \* processes that read
    SA_LOG,            \* slots of a pipe's ring
    SA_FIFO_DEPTH,     \* slots of the ring between TH and BH
    NoAtom,            \* what the rings hold before the first write
    AtomIds,           \* bound: atoms are numbered modulo AtomIds
    NonBlocking,       \* the files opened with O_NONBLOCK
    Overruns,          \* bound: whether the FPGA may find its FIFO full
    IrqsPerTasklet,    \* bound: SA interrupts during one run of the tasklet
    Signalled,         \* bound: the threads that signals are sent to
    MaxCount           \* bound: atoms a read() asks for

ASSUME RingAssumption ==
    /\ SA_LOG \in Nat \ {0, 1}
    /\ SA_FIFO_DEPTH \in Nat \ {0, 1}

ASSUME ReaderAssumption ==
    /\ NULL \notin Threads
    /\ NonBlocking \subseteq Files
    /\ Signalled \subseteq Threads
    /\ MaxCount \in Nat \ {0}

ASSUME SampleAssumption ==
    /\ AtomIds \in Nat \ {0}
    /\ NoAtom \notin 0 .. AtomIds - 1
    /\ IrqsPerTasklet \in Nat
    /\ Overruns \in BOOLEAN

VARIABLES
    fpga,         \* the SA FIFO of the FPGA: empty or one atom (SA_SIZE_WIDTH)
    fpga_inovr,   \* the INOVR bit of SA_STATUS
    produced,     \* number of the atom the FPGA produces next
    buf, buf_head, buf_tail,   \* the ring between TH and BH
    inputovr,     \* dev->inputovr
    sched,        \* the tasklet is scheduled
    bh,           \* where the tasklet is: "idle", "dispatch" or "test"
    irqs,         \* SA interrupts since the tasklet started
    unreported,   \* the FPGA lost an atom, and no event has told of it
    pipe,         \* sa_local -> its ring: data, put, get
    sem,          \* sa_local -> the thread that holds its mutex
    pc, file, want,    \* each thread's place in read(), its file, its count
    tstate, sig,  \* each thread's task state; whether a signal is pending
    delivered     \* file -> the atom its readers got last

sampleVars == << fpga, fpga_inovr, produced >>
ringVars   == << buf, buf_head, buf_tail, inputovr, sched, bh, irqs, unreported >>
readVars   == << pc, file, want, tstate, sig, sem, delivered >>
vars == << pipesVars, sampleVars, ringVars, readVars, pipe >>

Atoms == 0 .. AtomIds - 1

-----------------------------------------------------------------------------
(* The ring of a pipe.  One slot always stays empty: put = get is "empty".  *)

EmptyFIFO == [data |-> [i \in 0 .. SA_LOG - 1 |-> NoAtom], put |-> 0, get |-> 0]

len_saFIFO(q) == (q.put + SA_LOG - q.get) % SA_LOG

free_saFIFO(q) == SA_LOG - len_saFIFO(q)

(* Mutant: no test for room. *)
PutOver(q, a) ==
    LET index == (q.put + 1) % SA_LOG
    IN  [q EXCEPT !.data[index] = a, !.put = index]

putTo_saFIFO(q, a) ==
    LET index == (q.put + 1) % SA_LOG
    IN  IF index = q.get
        THEN q
        ELSE [q EXCEPT !.data[index] = a, !.put = index]

getFrom_saFIFO(q) == [q EXCEPT !.get = (@ + 1) % SA_LOG]

(* libera_pipe_write of one atom: what becomes of the ring, and the result, *)
(* -EFAULT when free_saFIFO finds no room, 0 bytes when putTo_saFIFO fails. *)
libera_pipe_write(q, a) == IF free_saFIFO(q) < 1 THEN q ELSE putTo_saFIFO(q, a)

libera_pipe_write_ret(q) ==
    IF free_saFIFO(q) < 1 THEN "EFAULT"
    ELSE IF putTo_saFIFO(q, NoAtom) = q THEN "0" ELSE "written"

Pipe(f) == pipe[f_version[f]]

Empty(f) == Pipe(f).put = Pipe(f).get

-----------------------------------------------------------------------------

Init ==
    /\ PipesInit
    /\ fpga = << >> /\ fpga_inovr = FALSE /\ produced = 0
    /\ buf = [i \in 0 .. SA_FIFO_DEPTH - 1 |-> NoAtom]
    /\ buf_head = 0 /\ buf_tail = 0
    /\ inputovr = FALSE /\ sched = FALSE /\ bh = "idle" /\ irqs = 0
    /\ unreported = FALSE
    /\ pipe = [p \in SaLocals |-> EmptyFIFO]
    /\ sem = [p \in SaLocals |-> NULL]
    /\ pc = [t \in Threads |-> "user"]
    /\ file = [t \in Threads |-> NULL]
    /\ want = [t \in Threads |-> 0]
    /\ tstate = [t \in Threads |-> "running"]
    /\ sig = [t \in Threads |-> FALSE]
    /\ delivered = [f \in Files |-> NoAtom]

-----------------------------------------------------------------------------
(* The FPGA *)

(* An atom is ready; one that finds the FIFO full is lost and raises INOVR. *)
SampleReady ==
    /\ Overruns \/ fpga = << >>
    /\ IF fpga = << >>
       THEN fpga' = << produced >> /\ UNCHANGED << fpga_inovr, unreported >>
       ELSE /\ fpga_inovr' = TRUE
            /\ unreported' = TRUE
            /\ UNCHANGED fpga
    /\ produced' = (produced + 1) % AtomIds
    /\ UNCHANGED << pipesVars, buf, buf_head, buf_tail, inputovr, sched, bh,
                    irqs, pipe, readVars >>

-----------------------------------------------------------------------------
(* The interrupt and its tasklet *)

libera_sa_incr_atom(i) == (i + 1) % SA_FIFO_DEPTH

(* Mutant: the top half advances the head before it stores the atom. *)
HandlerAdvancesFirst ==
    /\ fpga # << >>
    /\ libera_sa_incr_atom(buf_head) # buf_tail
    /\ bh # "idle" => irqs < IrqsPerTasklet
    /\ irqs' = IF bh = "idle" THEN irqs ELSE irqs + 1
    /\ buf_head' = libera_sa_incr_atom(buf_head)
    /\ buf' = [buf EXCEPT ![buf_head'] = Head(fpga)]
    /\ fpga' = << >>
    /\ inputovr' = (inputovr \/ fpga_inovr)
    /\ fpga_inovr' = FALSE
    /\ sched' = TRUE
    /\ UNCHANGED << pipesVars, produced, buf_tail, bh, unreported, pipe, readVars >>

(* The top half.  The two bounds: it does not lap the tasklet by a whole    *)
(* ring, and it interrupts one run of the tasklet IrqsPerTasklet times.     *)
libera_sa_handler ==
    /\ fpga # << >>
    /\ libera_sa_incr_atom(buf_head) # buf_tail
    /\ bh # "idle" => irqs < IrqsPerTasklet
    /\ irqs' = IF bh = "idle" THEN irqs ELSE irqs + 1
    /\ buf' = [buf EXCEPT ![buf_head] = Head(fpga)]
    /\ buf_head' = libera_sa_incr_atom(buf_head)
    /\ fpga' = << >>
    /\ inputovr' = (inputovr \/ fpga_inovr)
    /\ fpga_inovr' = FALSE
    /\ sched' = TRUE
    /\ UNCHANGED << pipesVars, produced, buf_tail, bh, unreported, pipe, readVars >>

(* Mutant: the flag is cleared before it is tested. *)
StartClearsFirst ==
    /\ bh = "idle" /\ sched
    /\ sched' = FALSE
    /\ bh' = "dispatch"
    /\ irqs' = 0
    /\ inputovr' = FALSE
    /\ UNCHANGED << pipesVars, sampleVars, buf, buf_head, buf_tail, unreported,
                    pipe, readVars >>

(* The softirq starts the tasklet: from here it may be scheduled anew.      *)
TaskletStart ==
    /\ bh = "idle" /\ sched
    /\ sched' = FALSE
    /\ bh' = "dispatch"
    /\ irqs' = 0
    /\ inputovr' = FALSE
    /\ unreported' = IF inputovr THEN FALSE ELSE unreported
    /\ UNCHANGED << pipesVars, sampleVars, buf, buf_head, buf_tail, pipe, readVars >>

(* The threads on the wait queue of the pipes that were written to, or were *)
(* full: every result but -EFAULT wakes the readers.                        *)
Woken == { t \in Threads :
             /\ tstate[t] = "interruptible"
             /\ Registered(f_version[file[t]])
             /\ libera_pipe_write_ret(Pipe(file[t])) # "EFAULT" }

(* One round of the loop: the atom at the tail goes to every pipe.          *)
TaskletDispatch ==
    /\ bh = "dispatch"
    /\ pipe' = [p \in SaLocals |->
                  IF Registered(p) THEN libera_pipe_write(pipe[p], buf[buf_tail])
                  ELSE pipe[p]]
    /\ tstate' = [t \in Threads |-> IF t \in Woken THEN "running" ELSE tstate[t]]
    /\ buf_tail' = libera_sa_incr_atom(buf_tail)
    /\ bh' = "test"
    /\ UNCHANGED << pipesVars, sampleVars, buf, buf_head, inputovr, sched, irqs,
                    unreported, pc, file, want, sig, sem, delivered >>

TaskletTest ==
    /\ bh = "test"
    /\ bh' = IF buf_tail # buf_head THEN "dispatch" ELSE "idle"
    /\ UNCHANGED << pipesVars, sampleVars, buf, buf_head, buf_tail, inputovr,
                    sched, irqs, unreported, readVars, pipe >>

-----------------------------------------------------------------------------
(* read(): each step ends where a process may lose the processor, or where  *)
(* an interrupt between two statements matters.                             *)

Goto(t, place) == pc' = [pc EXCEPT ![t] = place]

(* mutex_unlock and the return to user mode, which handles a signal. *)
UnlockAndReturn(t) ==
    /\ Goto(t, "user")
    /\ sem' = [sem EXCEPT ![f_version[file[t]]] = NULL]
    /\ file' = [file EXCEPT ![t] = NULL]
    /\ want' = [want EXCEPT ![t] = 0]
    /\ sig' = [sig EXCEPT ![t] = FALSE]

ReadStep(t, place) ==
    /\ bh = "idle"
    /\ pc[t] = place
    /\ UNCHANGED << pipesVars, sampleVars, ringVars >>

(* A count of 0 stands for one that is not a whole number of atoms. *)
ReadCall(t) ==
    /\ ReadStep(t, "user")
    /\ \E f \in opened, n \in 0 .. MaxCount :
          /\ file' = [file EXCEPT ![t] = f]
          /\ want' = [want EXCEPT ![t] = n]
    /\ Goto(t, "lock")
    /\ UNCHANGED << pipe, tstate, sig, sem, delivered >>

ReadLock(t) ==
    /\ ReadStep(t, "lock")
    /\ sem[f_version[file[t]]] = NULL
    /\ sem' = [sem EXCEPT ![f_version[file[t]]] = t]
    /\ Goto(t, "check")
    /\ UNCHANGED << pipe, file, want, tstate, sig, delivered >>

(* mutex_lock_interruptible gives up: -ERESTARTSYS. *)
ReadLockInterrupted(t) ==
    /\ ReadStep(t, "lock")
    /\ sem[f_version[file[t]]] # NULL
    /\ sig[t]
    /\ Goto(t, "user")
    /\ file' = [file EXCEPT ![t] = NULL]
    /\ want' = [want EXCEPT ![t] = 0]
    /\ sig' = [sig EXCEPT ![t] = FALSE]
    /\ UNCHANGED << pipe, tstate, sem, delivered >>

ReadCheck(t) ==
    /\ ReadStep(t, "check")
    /\ \/ /\ want[t] = 0                    \* -EINVAL
          /\ UnlockAndReturn(t)
       \/ /\ want[t] > 0 /\ ~Empty(file[t])
          /\ Goto(t, "count")
          /\ UNCHANGED << file, want, sig, sem >>
       \/ /\ want[t] > 0 /\ Empty(file[t])
          /\ file[t] \in NonBlocking       \* -EAGAIN
          /\ UnlockAndReturn(t)
       \/ /\ want[t] > 0 /\ Empty(file[t])
          /\ file[t] \notin NonBlocking    \* add_wait_queue
          /\ Goto(t, "prepare")
          /\ UNCHANGED << file, want, sig, sem >>
    /\ UNCHANGED << pipe, tstate, delivered >>

ReadPrepare(t) ==
    /\ ReadStep(t, "prepare")
    /\ tstate' = [tstate EXCEPT ![t] = "interruptible"]
    /\ Goto(t, "recheck")
    /\ UNCHANGED << pipe, file, want, sig, sem, delivered >>

(* Mutants: read() does not look again before it sleeps, or sleeps with the *)
(* mutex.                                                                   *)
NoRecheck(t) ==
    /\ ReadStep(t, "recheck")
    /\ sem' = [sem EXCEPT ![f_version[file[t]]] = NULL]
    /\ Goto(t, "sleep")
    /\ UNCHANGED << pipe, file, want, tstate, sig, delivered >>

SleepsWithMutex(t) ==
    /\ ReadStep(t, "recheck")
    /\ IF Empty(file[t])
       THEN Goto(t, "sleep") /\ UNCHANGED tstate
       ELSE Goto(t, "count") /\ tstate' = [tstate EXCEPT ![t] = "running"]
    /\ UNCHANGED << pipe, file, want, sig, sem, delivered >>

ReadRecheck(t) ==
    /\ ReadStep(t, "recheck")
    /\ \/ /\ ~Empty(file[t])
          /\ Goto(t, "count")
          /\ tstate' = [tstate EXCEPT ![t] = "running"]
          /\ UNCHANGED << file, want, sig, sem >>
       \/ /\ Empty(file[t]) /\ sig[t]      \* -ERESTARTSYS
          /\ tstate' = [tstate EXCEPT ![t] = "running"]
          /\ UnlockAndReturn(t)
       \/ /\ Empty(file[t]) /\ ~sig[t]
          /\ sem' = [sem EXCEPT ![f_version[file[t]]] = NULL]
          /\ Goto(t, "sleep")
          /\ UNCHANGED << file, want, sig, tstate >>
    /\ UNCHANGED << pipe, delivered >>

(* schedule() returns once somebody has made the thread runnable. *)
ReadWake(t) ==
    /\ ReadStep(t, "sleep")
    /\ tstate[t] = "running"
    /\ Goto(t, "relock")
    /\ UNCHANGED << pipe, file, want, tstate, sig, sem, delivered >>

(* Mutant: after the sleep read() does not take the mutex again. *)
RelockNot(t) ==
    /\ ReadStep(t, "relock")
    /\ Goto(t, "prepare")
    /\ UNCHANGED << pipe, file, want, tstate, sig, sem, delivered >>

ReadRelock(t) ==
    /\ ReadStep(t, "relock")
    /\ sem[f_version[file[t]]] = NULL
    /\ sem' = [sem EXCEPT ![f_version[file[t]]] = t]
    /\ Goto(t, "prepare")
    /\ UNCHANGED << pipe, file, want, tstate, sig, delivered >>

(* The number of atoms to hand out is fixed here, before the copy loop. *)
ReadCount(t) ==
    /\ ReadStep(t, "count")
    /\ want' = [want EXCEPT ![t] =
                  IF @ < len_saFIFO(Pipe(file[t])) THEN @ ELSE len_saFIFO(Pipe(file[t]))]
    /\ Goto(t, "copy")
    /\ UNCHANGED << pipe, file, tstate, sig, sem, delivered >>

(* The head of the copy loop: take the next atom's address, or finish; an   *)
(* empty pipe ends the read with -EFAULT.                                   *)
ReadTake(t) ==
    /\ ReadStep(t, "copy")
    /\ \/ /\ want[t] > 0 /\ ~Empty(file[t])
          /\ pipe' = [pipe EXCEPT ![f_version[file[t]]] = getFrom_saFIFO(@)]
          /\ Goto(t, "copying")
          /\ UNCHANGED << file, want, sig, sem >>
       \/ /\ want[t] = 0 \/ Empty(file[t])
          /\ UnlockAndReturn(t)
          /\ UNCHANGED pipe
    /\ UNCHANGED << tstate, delivered >>

(* copy_to_user reads the atom where it lies in the ring, or faults.  A     *)
(* page fault lets anything happen between the take and the copy.           *)
ReadCopy(t) ==
    /\ ReadStep(t, "copying")
    /\ \/ /\ delivered' = [delivered EXCEPT ![file[t]] = Pipe(file[t]).data[Pipe(file[t]).get]]
          /\ want' = [want EXCEPT ![t] = @ - 1]
          /\ Goto(t, "copy")
          /\ UNCHANGED << file, sig, sem >>
       \/ /\ UnlockAndReturn(t)            \* -EFAULT
          /\ UNCHANGED delivered
    /\ UNCHANGED << pipe, tstate >>

libera_sa_read(t) ==
    \/ ReadCall(t) \/ ReadLock(t) \/ ReadLockInterrupted(t)
    \/ ReadCheck(t) \/ ReadPrepare(t) \/ ReadRecheck(t) \/ ReadWake(t)
    \/ ReadRelock(t) \/ ReadCount(t) \/ ReadTake(t) \/ ReadCopy(t)

(* A signal reaches a thread inside read() and ends an interruptible sleep. *)
Signal(t) ==
    /\ bh = "idle"
    /\ t \in Signalled
    /\ pc[t] # "user" /\ ~sig[t]
    /\ sig' = [sig EXCEPT ![t] = TRUE]
    /\ tstate' = [tstate EXCEPT ![t] = "running"]
    /\ UNCHANGED << pipesVars, sampleVars, ringVars, pipe, pc, file, want, sem,
                    delivered >>

-----------------------------------------------------------------------------

(* open() prepares the new pipe before it registers it. *)
Open(f) ==
    /\ bh = "idle"
    /\ libera_sa_open(f)
    /\ pipe' = [pipe EXCEPT ![f_version'[f]] = EmptyFIFO]
    /\ sem' = [sem EXCEPT ![f_version'[f]] = NULL]
    /\ UNCHANGED << sampleVars, ringVars, pc, file, want, tstate, sig, delivered >>

OpenRefused(f) ==
    /\ bh = "idle"
    /\ libera_sa_open_refused(f)
    /\ UNCHANGED << sampleVars, ringVars, readVars, pipe >>

(* The kernel calls release() when no read() of the file is under way.  The *)
(* memory of the pipe goes back to the kernel with what it held.            *)
Release(f) ==
    /\ bh = "idle"
    /\ \A t \in Threads : file[t] # f
    /\ libera_sa_release(f)
    /\ pipe' = [pipe EXCEPT ![f_version[f]] = EmptyFIFO]
    /\ delivered' = [delivered EXCEPT ![f] = NoAtom]
    /\ UNCHANGED << sampleVars, ringVars, pc, file, want, tstate, sig, sem >>

Interrupts == libera_sa_handler \/ TaskletStart \/ TaskletDispatch \/ TaskletTest

Next ==
    \/ SampleReady
    \/ Interrupts
    \/ \E t \in Threads : libera_sa_read(t) \/ Signal(t)
    \/ \E f \in Files : Open(f) \/ OpenRefused(f) \/ Release(f)

Spec == Init /\ [][Next]_vars

(* Interrupts are served and softirqs run; the FPGA never stops sampling;   *)
(* the scheduler gives every runnable process its turn.  A mutex is fair    *)
(* (its waiters queue), so a lock that is free again and again is obtained. *)
(* That a process calls read(), that it closes the file, that it is         *)
(* signalled, none of these is assumed.                                     *)
Fairness ==
    /\ WF_vars(SampleReady)
    /\ WF_vars(Interrupts)
    /\ \A t \in Threads : SF_vars(pc[t] # "user" /\ libera_sa_read(t))

FairSpec == Spec /\ Fairness

-----------------------------------------------------------------------------

Places == {"user", "lock", "check", "prepare", "recheck", "sleep", "relock",
           "count", "copy", "copying"}

(* The types of the device's and the readers' fields. *)
TypeOK ==
    /\ PipesTypeOK
    /\ fpga \in {<< >>} \cup { << a >> : a \in Atoms }
    /\ fpga_inovr \in BOOLEAN /\ produced \in Atoms
    /\ buf \in [0 .. SA_FIFO_DEPTH - 1 -> Atoms \cup {NoAtom}]
    /\ buf_head \in 0 .. SA_FIFO_DEPTH - 1 /\ buf_tail \in 0 .. SA_FIFO_DEPTH - 1
    /\ inputovr \in BOOLEAN /\ sched \in BOOLEAN
    /\ bh \in {"idle", "dispatch", "test"} /\ irqs \in 0 .. IrqsPerTasklet
    /\ unreported \in BOOLEAN
    /\ pipe \in [SaLocals -> [data : [0 .. SA_LOG - 1 -> Atoms \cup {NoAtom}],
                              put : 0 .. SA_LOG - 1, get : 0 .. SA_LOG - 1]]
    /\ sem \in [SaLocals -> Threads \cup {NULL}]
    /\ pc \in [Threads -> Places]
    /\ file \in [Threads -> Files \cup {NULL}]
    /\ want \in [Threads -> 0 .. MaxCount]
    /\ tstate \in [Threads -> {"running", "interruptible"}]
    /\ sig \in [Threads -> BOOLEAN]
    /\ delivered \in [Files -> Atoms \cup {NoAtom}]

(* No lost wakeup: while a thread sleeps in read() and nothing has made it  *)
(* runnable, its pipe is empty.  The tasklet writes the pipe without the    *)
(* mutex, between the reader's test and its schedule() if it so happens.    *)
NoLostWakeup ==
    \A t \in Threads :
        pc[t] = "sleep" /\ tstate[t] = "interruptible" => Empty(file[t])

(* Two readers of one file, or a writer that laps, cannot make the copy     *)
(* loop run dry: the atoms counted before the loop are there until taken.   *)
CountedAtomsPresent ==
    TypeOK /\ \A t \in Threads :
        /\ pc[t] = "copy" => want[t] <= len_saFIFO(Pipe(file[t]))
        /\ pc[t] = "copying" => want[t] - 1 <= len_saFIFO(Pipe(file[t]))

(* The pipe a thread reads from stays allocated and registered until the    *)
(* thread is out of read(), whatever is opened and closed meanwhile.        *)
ReaderPipeLives ==
    \A t \in Threads :
        pc[t] # "user" => /\ file[t] \in opened
                          /\ f_version[file[t]] \in allocated
                          /\ Registered(f_version[file[t]])

(* "This function (BH) can be interrupted, by its corresponding TH. Data    *)
(* corruption prevention is therefore essential and solved by using a       *)
(* circular buffer" (ebpp.c): the tasklet hands out only what is in the     *)
(* circular buffer.                                                         *)
NoStaleDispatch == bh = "dispatch" => buf_tail # buf_head

(* An overrun of the FPGA FIFO is not forgotten: until an event has told of *)
(* it the status bit or the flag still shows it, and while the flag is set  *)
(* a run of the tasklet is to come, though the interrupt sets the flag and  *)
(* each run, which it may interrupt, tests and clears it once.              *)
OverrunRemembered ==
    /\ unreported => fpga_inovr \/ inputovr
    /\ inputovr => sched

(* A read() does not wait for nothing: the FPGA goes on sampling, so the    *)
(* read returns, or another thread that reads the same file is handed the   *)
(* atom.  (One of two threads on one file may starve: the other may take    *)
(* every atom before the first has the mutex again.)                        *)
ReadReturns ==
    \A t \in Threads :
        (pc[t] # "user") ~>
            \/ pc[t] = "user"
            \/ \E u \in Threads \ {t} : pc[u] = "copying" /\ file[u] = file[t]

(* The device implements the plain stream of module SAStream. *)
FifoContent(q) == [i \in 1 .. len_saFIFO(q) |-> q.data[(q.get + i) % SA_LOG]]

RingContent ==
    [i \in 1 .. (buf_head + SA_FIFO_DEPTH - buf_tail) % SA_FIFO_DEPTH |->
        buf[(buf_tail + i - 1) % SA_FIFO_DEPTH]]

Copying(f) == \E t \in Threads : pc[t] = "copying" /\ file[t] = f

(* What the pipe of each file holds, and the atom a read() of it has taken. *)
Held == [f \in Files |-> IF f \in opened THEN FifoContent(Pipe(f)) ELSE << >>]

InHand == [f \in Files |-> IF Copying(f) THEN Pipe(f).data[Pipe(f).get] ELSE NoAtom]

Stream == INSTANCE SAStream WITH
    None <- NoAtom,
    Capacity <- SA_LOG - 1,
    pending <- RingContent,
    isOpen <- opened,
    queue <- Held,
    inhand <- InHand,
    last <- delivered

(* Every file gets every atom once and in order, except those that arrive   *)
(* while it holds SA_LOG - 1, and what is copied out is what was taken,     *)
(* though the tasklet writes the ring while the copy runs.                  *)
ImplementsStream == Stream!Spec

=============================================================================
