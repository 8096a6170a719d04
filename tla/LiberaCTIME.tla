------------------------------ MODULE LiberaCTIME ------------------------------
(***************************************************************************)
(* Reading the current time pair (libera_get_CTIME, libera_main.c) and     *)
(* waiting for a trigger (getBlockedFromFIFO..., libera_event.c), against  *)
(* the interrupt handler that fills the timestamp FIFOs.                   *)
(*                                                                         *)
(* The FPGA stamps each trigger twice: with the system clock (SC module)   *)
(* and with the machine clock (MC module), each into a FIFO of its own.    *)
(* libera_get_CTIME fires a software trigger, waits for the MC stamp and   *)
(* takes the SC stamp without waiting.                                     *)
(*                                                                         *)
(* A stamp is the number of its trigger, so two stamps belong together     *)
(* when they are equal and a stamp is current when it is not older than    *)
(* the trigger that the caller fired.                                      *)
(***************************************************************************)
EXTENDS Integers, Sequences, FiniteSets

CONSTANTS
    Getters,       \* processes that call ioctl LIBERA_EVENT_GET_CTIME
    Waiters,       \* processes that call ioctl LIBERA_EVENT_GET_SC_TRIGGER_n
    Signalled,     \* bound: the processes that signals are sent to
    FIFO_ROOM,     \* stamps a FIFO holds: TRIG_LOG - 1
    MaxTriggers,   \* bound: triggers fired in a behaviour
    NULL

ASSUME CtimeAssumption ==
    /\ Getters \cap Waiters = {} /\ IsFiniteSet(Getters)
    /\ NULL \notin Getters \cup Waiters
    /\ Signalled \subseteq Getters \cup Waiters
    /\ FIFO_ROOM \in Nat \ {0}
    /\ MaxTriggers \in Nat

VARIABLES
    fired,        \* number of the last trigger
    scf, mcf,     \* the FIFOs of the FPGA's SC and MC modules
    midway,       \* triggers stamped by the SC module and not yet by the MC one
    irq,          \* where the interrupt handler is: "off", "sc", "mc", "test"
    int_vec,      \* the interrupts it read: a subset of {"SC", "MC"}
    sc_ts,        \* sc_timestamps[T_TRIG_CTIME]
    mc_ts,        \* mc_timestamps[T_TRIG_CTIME]
    trig_ts,      \* sc_timestamps[i] of the trigger the Waiters wait for
    CTIME_sem,    \* the process that holds event->CTIME_sem
    sem,          \* event->sem is locked
    pc, tstate, sig,   \* each process's place, task state, pending signal
    own,          \* getter -> number of the software trigger it fired
    got           \* getter -> what the last ioctl left in the user's buffer

hwVars   == << fired, scf, mcf, midway >>
irqVars  == << irq, int_vec >>
fifoVars == << sc_ts, mc_ts, trig_ts >>
procVars == << pc, tstate, sig, own, got >>
vars == << hwVars, irqVars, fifoVars, CTIME_sem, sem, procVars >>

Procs == Getters \cup Waiters

Stamp(kind, n) == [kind |-> kind, n |-> n]

Nothing == [ret |-> "none", lst |-> 0, lmt |-> 0]

(* What stands in ctime, a variable of the stack, when nobody wrote it. *)
Garbage == [ret |-> "0", lst |-> NULL, lmt |-> NULL]

Init ==
    /\ fired = 0 /\ scf = << >> /\ mcf = << >> /\ midway = << >>
    /\ irq = "off" /\ int_vec = {}
    /\ sc_ts = << >> /\ mc_ts = << >> /\ trig_ts = << >>
    /\ CTIME_sem = NULL /\ sem = FALSE
    /\ pc = [p \in Procs |-> "user"]
    /\ tstate = [p \in Procs |-> "running"]
    /\ sig = [p \in Procs |-> FALSE]
    /\ own = [p \in Procs |-> 0]
    /\ got = [p \in Procs |-> Nothing]

-----------------------------------------------------------------------------
(* The FPGA's timing modules *)

(* The getters that are bound to fire a trigger, which MaxTriggers counts. *)
Budget == fired + Cardinality({p \in Getters : pc[p] = "ctime"}) < MaxTriggers

Fire(kind) ==
    /\ fired' = fired + 1
    /\ scf' = Append(scf, Stamp(kind, fired + 1))
    /\ midway' = Append(midway, Stamp(kind, fired + 1))
    /\ UNCHANGED mcf

(* A trigger from the accelerator. *)
HardwareTrigger ==
    /\ Waiters # {}
    /\ Budget
    /\ Fire("TRIG")
    /\ UNCHANGED << irqVars, fifoVars, CTIME_sem, sem, procVars >>

StampMC ==
    /\ midway # << >>
    /\ mcf' = Append(mcf, Head(midway))
    /\ midway' = Tail(midway)
    /\ UNCHANGED << fired, scf, irqVars, fifoVars, CTIME_sem, sem, procVars >>

-----------------------------------------------------------------------------
(* The interrupt handler: one stamp at a time, while the FPGA goes on.      *)

SBC_IRQ == {m \in {"SC", "MC"} : (m = "SC" /\ scf # << >>) \/ (m = "MC" /\ mcf # << >>)}

(* The head of the while loop: read the vector, leave when it is empty. *)
libera_interrupt ==
    /\ \/ irq = "off" /\ SBC_IRQ # {}
       \/ irq = "test"
    /\ int_vec' = SBC_IRQ
    /\ irq' = IF SBC_IRQ = {} THEN "off" ELSE "sc"
    /\ UNCHANGED << hwVars, fifoVars, CTIME_sem, sem, procVars >>

putToFIFO(q, n) == IF Len(q) < FIFO_ROOM THEN Append(q, n) ELSE q

(* wake_up_interruptible on the queue of the SC, or of the MC, waiters *)
Waiting(queue) == { p \in (IF queue = "MC" THEN Getters ELSE Waiters) :
                      pc[p] \in {"recheck", "sleep"} }

WakeUp(queue) ==
    tstate' = [p \in Procs |-> IF p \in Waiting(queue) THEN "running" ELSE tstate[p]]

libera_sc_handler ==
    /\ irq = "sc"
    /\ \/ /\ "SC" \in int_vec /\ scf # << >>
          /\ scf' = Tail(scf)
          /\ IF Head(scf).kind = "CTIME"
             THEN sc_ts' = putToFIFO(sc_ts, Head(scf).n) /\ UNCHANGED trig_ts
             ELSE trig_ts' = putToFIFO(trig_ts, Head(scf).n) /\ UNCHANGED sc_ts
          /\ UNCHANGED << irq, tstate >>
       \/ /\ "SC" \in int_vec /\ scf = << >>
          /\ WakeUp("SC")
          /\ irq' = "mc"
          /\ UNCHANGED << scf, sc_ts, trig_ts >>
       \/ /\ "SC" \notin int_vec
          /\ irq' = "mc"
          /\ UNCHANGED << scf, sc_ts, trig_ts, tstate >>
    /\ UNCHANGED << fired, mcf, midway, int_vec, mc_ts, CTIME_sem, sem, pc, sig,
                    own, got >>

(* Mutant: the MC handler wakes the queue of the SC waiters. *)
WakesWrongQueue ==
    /\ irq = "mc"
    /\ \/ /\ "MC" \in int_vec /\ mcf # << >>
          /\ mcf' = Tail(mcf)
          /\ mc_ts' = IF Head(mcf).kind = "CTIME" THEN putToFIFO(mc_ts, Head(mcf).n)
                      ELSE mc_ts
          /\ UNCHANGED << irq, tstate >>
       \/ /\ "MC" \notin int_vec \/ mcf = << >>
          /\ WakeUp("SC")
          /\ irq' = "test"
          /\ UNCHANGED << mcf, mc_ts >>
    /\ UNCHANGED << fired, scf, midway, int_vec, sc_ts, trig_ts, CTIME_sem, sem,
                    pc, sig, own, got >>

(* Nobody here waits for the MC stamp of an accelerator's trigger. *)
libera_mc_handler ==
    /\ irq = "mc"
    /\ \/ /\ "MC" \in int_vec /\ mcf # << >>
          /\ mcf' = Tail(mcf)
          /\ mc_ts' = IF Head(mcf).kind = "CTIME" THEN putToFIFO(mc_ts, Head(mcf).n)
                      ELSE mc_ts
          /\ UNCHANGED << irq, tstate >>
       \/ /\ "MC" \in int_vec /\ mcf = << >>
          /\ WakeUp("MC")
          /\ irq' = "test"
          /\ UNCHANGED << mcf, mc_ts >>
       \/ /\ "MC" \notin int_vec
          /\ irq' = "test"
          /\ UNCHANGED << mcf, mc_ts, tstate >>
    /\ UNCHANGED << fired, scf, midway, int_vec, sc_ts, trig_ts, CTIME_sem, sem,
                    pc, sig, own, got >>

-----------------------------------------------------------------------------
(* The processes.  An interrupt comes between any two of these steps.       *)
(* Without kernel preemption another process runs only when this one waits  *)
(* for a mutex, sleeps, or faults in copy_to_user.                          *)

Goto(p, place) == pc' = [pc EXCEPT ![p] = place]

Step(p, place) ==
    /\ irq = "off"
    /\ \A q \in Procs \ {p} : pc[q] \notin {"prepare", "recheck", "take"}
    /\ pc[p] = place
    /\ UNCHANGED irqVars

(* The FIFO a process waits on. *)
FifoOf(p) == IF p \in Getters THEN mc_ts ELSE trig_ts

(* The way out of the ioctl. *)
Return(p, value) ==
    /\ Goto(p, "user")
    /\ sig' = [sig EXCEPT ![p] = FALSE]
    /\ own' = [own EXCEPT ![p] = 0]
    /\ got' = [got EXCEPT ![p] = value]

(* A getter copies ctime to the user whatever libera_get_CTIME returned. *)
Interrupted(p) == IF p \in Getters THEN Garbage ELSE [Nothing EXCEPT !.ret = "ERESTARTSYS"]

(* libera_get_CTIME locks CTIME_sem, fires the trigger, and goes for sem. *)
CallCTIME(p) ==
    /\ p \in Getters
    /\ Budget
    /\ Step(p, "user")
    /\ Goto(p, "ctime")
    /\ got' = [got EXCEPT ![p] = Nothing]
    /\ UNCHANGED << hwVars, fifoVars, CTIME_sem, sem, tstate, sig, own >>

(* Mutant: the getter first throws away what lies in the MC FIFO. *)
LockCTIMEFlushesMC(p) ==
    /\ Step(p, "ctime")
    /\ CTIME_sem = NULL
    /\ CTIME_sem' = p
    /\ Fire("CTIME")
    /\ mc_ts' = << >>
    /\ own' = [own EXCEPT ![p] = fired + 1]
    /\ Goto(p, "lock")
    /\ UNCHANGED << sc_ts, trig_ts, sem, tstate, sig, got >>

LockCTIME(p) ==
    /\ Step(p, "ctime")
    /\ CTIME_sem = NULL
    /\ CTIME_sem' = p
    /\ Fire("CTIME")
    /\ own' = [own EXCEPT ![p] = fired + 1]
    /\ Goto(p, "lock")
    /\ UNCHANGED << fifoVars, sem, tstate, sig, got >>

LockCTIMEInterrupted(p) ==
    /\ Step(p, "ctime")
    /\ CTIME_sem # NULL /\ sig[p]
    /\ Return(p, Interrupted(p))
    /\ UNCHANGED << hwVars, fifoVars, CTIME_sem, sem, tstate >>

CallTrigger(p) ==
    /\ p \in Waiters
    /\ Step(p, "user")
    /\ Goto(p, "lock")
    /\ got' = [got EXCEPT ![p] = Nothing]
    /\ UNCHANGED << hwVars, fifoVars, CTIME_sem, sem, tstate, sig, own >>

ReleaseCTIME(p) == CTIME_sem' = IF p \in Getters THEN NULL ELSE CTIME_sem

LockSem(p) ==
    /\ Step(p, "lock")
    /\ ~sem
    /\ sem' = TRUE
    /\ Goto(p, IF FifoOf(p) = << >> THEN "prepare" ELSE "take")
    /\ UNCHANGED << hwVars, fifoVars, CTIME_sem, tstate, sig, own, got >>

LockSemInterrupted(p) ==
    /\ Step(p, "lock")
    /\ sem /\ sig[p]
    /\ Return(p, Interrupted(p))
    /\ ReleaseCTIME(p)
    /\ UNCHANGED << hwVars, fifoVars, sem, tstate >>

Prepare(p) ==
    /\ Step(p, "prepare")
    /\ tstate' = [tstate EXCEPT ![p] = "interruptible"]
    /\ Goto(p, "recheck")
    /\ UNCHANGED << hwVars, fifoVars, CTIME_sem, sem, sig, own, got >>

(* Mutant: the process goes to sleep with the mutex. *)
SleepsWithSem(p) ==
    /\ Step(p, "recheck")
    /\ IF FifoOf(p) = << >>
       THEN Goto(p, "sleep") /\ UNCHANGED tstate
       ELSE Goto(p, "take") /\ tstate' = [tstate EXCEPT ![p] = "running"]
    /\ UNCHANGED << hwVars, fifoVars, CTIME_sem, sem, sig, own, got >>

Recheck(p) ==
    /\ Step(p, "recheck")
    /\ \/ /\ FifoOf(p) # << >>
          /\ Goto(p, "take")
          /\ tstate' = [tstate EXCEPT ![p] = "running"]
          /\ UNCHANGED << CTIME_sem, sem, sig, own, got >>
       \/ /\ FifoOf(p) = << >> /\ ~sig[p]
          /\ sem' = FALSE
          /\ Goto(p, "sleep")
          /\ UNCHANGED << CTIME_sem, tstate, sig, own, got >>
       \/ /\ FifoOf(p) = << >> /\ sig[p]
          /\ sem' = FALSE
          /\ tstate' = [tstate EXCEPT ![p] = "running"]
          /\ Return(p, Interrupted(p))
          /\ ReleaseCTIME(p)
    /\ UNCHANGED << hwVars, fifoVars >>

Wake(p) ==
    /\ Step(p, "sleep")
    /\ tstate[p] = "running"
    /\ Goto(p, "relock")
    /\ UNCHANGED << hwVars, fifoVars, CTIME_sem, sem, tstate, sig, own, got >>

(* schedule_timeout returned 0: the loop is left without the mutex, and the *)
(* way out unlocks it all the same.                                         *)
Timeout(p) ==
    /\ p \in Waiters
    /\ Step(p, "sleep")
    /\ sem' = FALSE
    /\ tstate' = [tstate EXCEPT ![p] = "running"]
    /\ Return(p, [Nothing EXCEPT !.ret = "EAGAIN"])
    /\ UNCHANGED << hwVars, fifoVars, CTIME_sem >>

Relock(p) ==
    /\ Step(p, "relock")
    /\ ~sem
    /\ sem' = TRUE
    /\ Goto(p, "prepare")
    /\ UNCHANGED << hwVars, fifoVars, CTIME_sem, tstate, sig, own, got >>

(* A getter takes the MC stamp, unlocks sem, takes the SC stamp (-EFAULT    *)
(* when there is none) and unlocks CTIME_sem.                               *)
TakeCTIME(p) ==
    /\ p \in Getters
    /\ Step(p, "take")
    /\ mc_ts' = Tail(mc_ts)
    /\ sem' = FALSE
    /\ CTIME_sem' = NULL
    /\ sc_ts' = IF sc_ts = << >> THEN sc_ts ELSE Tail(sc_ts)
    /\ Return(p, [ret |-> "0", lmt |-> Head(mc_ts),
                  lst |-> IF sc_ts = << >> THEN NULL ELSE Head(sc_ts)])
    /\ UNCHANGED << hwVars, trig_ts, tstate >>

(* A waiter takes its stamp (-EFAULT when there is none) and copies it to   *)
(* the user, where it may sleep with sem held.                              *)
TakeTrigger(p) ==
    /\ p \in Waiters
    /\ Step(p, "take")
    /\ IF trig_ts # << >>
       THEN /\ trig_ts' = Tail(trig_ts)
            /\ Goto(p, "copy")
            /\ UNCHANGED << sem, sig, own, got >>
       ELSE /\ sem' = FALSE
            /\ Return(p, [Nothing EXCEPT !.ret = "EFAULT"])
            /\ UNCHANGED trig_ts
    /\ UNCHANGED << hwVars, sc_ts, mc_ts, CTIME_sem, tstate >>

CopyTrigger(p) ==
    /\ Step(p, "copy")
    /\ sem' = FALSE
    /\ Return(p, [Nothing EXCEPT !.ret = "0"])
    /\ UNCHANGED << hwVars, fifoVars, CTIME_sem, tstate >>

Signal(p) ==
    /\ irq = "off"
    /\ p \in Signalled
    /\ pc[p] # "user" /\ ~sig[p]
    /\ sig' = [sig EXCEPT ![p] = TRUE]
    /\ tstate' = [tstate EXCEPT ![p] = "running"]
    /\ UNCHANGED << hwVars, irqVars, fifoVars, CTIME_sem, sem, pc, own, got >>

Run(p) ==
    \/ LockCTIME(p) \/ LockCTIMEInterrupted(p)
    \/ LockSem(p) \/ LockSemInterrupted(p)
    \/ Prepare(p) \/ Recheck(p) \/ Wake(p) \/ Timeout(p) \/ Relock(p)
    \/ TakeCTIME(p) \/ TakeTrigger(p) \/ CopyTrigger(p)

Hardware == libera_interrupt \/ libera_sc_handler \/ libera_mc_handler

Next ==
    \/ HardwareTrigger
    \/ StampMC
    \/ Hardware
    \/ \E p \in Procs : CallCTIME(p) \/ CallTrigger(p) \/ Run(p) \/ Signal(p)

Spec == Init /\ [][Next]_vars

(* A fired trigger is stamped, a pending interrupt served, a timeout        *)
(* expires; a process that is runnable again and again gets its turn, and   *)
(* so does the first of a mutex's queue.                                    *)
(* No process need ever call, and no trigger comes unless fired.            *)
Fairness ==
    /\ WF_vars(StampMC)
    /\ WF_vars(Hardware)
    /\ \A p \in Procs : SF_vars(Run(p))

FairSpec == Spec /\ Fairness

-----------------------------------------------------------------------------

Places == {"user", "ctime", "lock", "prepare", "recheck", "sleep", "relock",
           "take", "copy"}

Triggers == 1 .. MaxTriggers

Fifo(q) == /\ Len(q) <= FIFO_ROOM
           /\ \A i \in 1 .. Len(q) : q[i] \in Triggers

HwFifo(q) == \A i \in 1 .. Len(q) : q[i] \in [kind : {"CTIME", "TRIG"}, n : Triggers]

(* The variables have the types of their C declarations, and no FIFO holds  *)
(* more than its TRIG_LOG - 1 stamps.                                       *)
CtimeTypeOK ==
    /\ fired \in 0 .. MaxTriggers
    /\ HwFifo(scf) /\ HwFifo(mcf) /\ HwFifo(midway)
    /\ irq \in {"off", "sc", "mc", "test"} /\ int_vec \in SUBSET {"SC", "MC"}
    /\ Fifo(sc_ts) /\ Fifo(mc_ts) /\ Fifo(trig_ts)
    /\ CTIME_sem \in Getters \cup {NULL} /\ sem \in BOOLEAN
    /\ pc \in [Procs -> Places]
    /\ tstate \in [Procs -> {"running", "interruptible"}]
    /\ sig \in [Procs -> BOOLEAN]
    /\ own \in [Procs -> 0 .. MaxTriggers]
    /\ got \in [Procs -> [ret : {"none", "0", "ERESTARTSYS", "EAGAIN", "EFAULT"},
                          lst : 0 .. MaxTriggers \cup {NULL},
                          lmt : 0 .. MaxTriggers \cup {NULL}]]

(* "Returns current LMT & LST pair" (libera_get_CTIME): what a getter hands *)
(* to the user are two stamps of the same trigger, though the two FIFOs are *)
(* filled by two handlers, emptied one after the other by whoever comes     *)
(* next, and keep the stamps of the getters that a signal took away.        *)
CtimePairMatches == CtimeTypeOK /\ \A p \in Getters : got[p].lmt = got[p].lst

(* No lost wakeup: once the interrupt handler is done, a process that       *)
(* sleeps and was not made runnable has an empty FIFO.  The handler takes   *)
(* no mutex and comes between the test of the FIFO and schedule().          *)
TriggerWakesWaiter ==
    irq = "off" =>
        \A p \in Procs : pc[p] = "sleep" /\ tstate[p] = "interruptible" => FifoOf(p) = << >>

(* Every ioctl returns, with a time, a signal or a timeout: none waits      *)
(* forever for a stamp another took or for a mutex nobody gives back.       *)
IoctlReturns == \A p \in Procs : (pc[p] # "user") ~> (pc[p] = "user")

(* "Returns current LMT & LST pair" (libera_main.c): the pair is not older  *)
(* than the software trigger the getter fired for it.                       *)
CtimeIsCurrent ==
    [][\A p \in Getters :
          pc[p] = "take" /\ pc'[p] = "user" => got'[p].lmt >= own[p]]_vars

(* "Get the device semaphore" (libera_event.c): of the processes between    *)
(* that mutex_lock and the way out, at most one is past the lock.           *)
SemExclusive ==
    Cardinality({p \in Procs : pc[p] \in {"prepare", "recheck", "take", "copy"}}) <= 1

(* "We can be sure SC is already there" (libera_main.c): whoever has an MC  *)
(* stamp to take finds an SC stamp.                                         *)
SCAlreadyThere == \A p \in Getters : pc[p] = "take" => sc_ts # << >>

=============================================================================
