--------------------------- MODULE LiberaEventProofs ---------------------------
(***************************************************************************)
(* Theorems about the device libera.event, for any files, any triggers and *)
(* any length of the event FIFO.                                           *)
(*                                                                         *)
(* Only open() takes dev->sem; release() and the ioctls rely on not being  *)
(* preempted.  The invariant says so: a call that is between two of its    *)
(* steps, and does not sleep, has the processor (CpuRuns).  From that, and *)
(* from what a flush leaves where (QueueFlushed), follow the single master *)
(* and his count of writers, and the triggers.                             *)
(*                                                                         *)
(* The order of the events (QueueOrdered) is told from get on: the n-th    *)
(* entry behind it, up to put, is older than the next, and all are newer   *)
(* than what was read.  A put that an interrupt cuts may store into an     *)
(* entry that is in use; what it stores still fits there.                  *)
(***************************************************************************)
EXTENDS LiberaEvent, TLAPS

Ring == 0 .. TRIG_LOG - 1
Sending == {"data", "put", "wake"}
Flushing == {"flush", "flush put"}
Kernel == Sending \cup Flushing \cup
          {"opened", "flushed", "last", "kfree", "prepare", "recheck", "count", "get"}
Sleeping == {"closed", "kmalloc", "user", "lock", "schedule", "copy", "poll"}

(* The places of calls that neither open nor close a file nor flush.        *)
Calls == Sending \cup {"flushed", "prepare", "recheck", "count", "get",
                       "user", "lock", "schedule", "copy", "poll"}

Locals == [modes : SUBSET {"r", "w"}, sc : SUBSET Triggers, mc : SUBSET Triggers]
Access == [master : Files \cup {NULL}, readers : Int, writers : Int, open_count : Int]
TriggerSets == SUBSET (Triggers \cup AtLoad)
TriggerVectors == [sc : TriggerSets, mc : TriggerSets,
                   T_SC_TRIGGER_MASK : TriggerSets, T_MC_TRIGGER_MASK : TriggerSets]
EventFIFOs == [put : Ring, get : Ring, data : [Ring -> Nat]]
Puts == [event : Nat, index : Ring]

EventTypes ==
    /\ world \in Worlds
    /\ fs \in [Files -> {NULL} \cup Locals]
    /\ acc \in Access /\ trig \in TriggerVectors
    /\ events \in EventFIFOs /\ sent \in Nat
    /\ pc \in [Files -> Kernel \cup Sleeping]
    /\ ret \in [Files -> {"user", "opened", "kfree", "flushed"}]
    /\ cpu \in Files \cup {NULL}
    /\ put \in [Files -> {NULL} \cup Puts]

(* A call in the kernel runs until it sleeps or returns. *)
CpuRuns ==
    \A f \in Files :
        /\ pc[f] \in Kernel <=> cpu = f
        /\ pc[f] \in Flushing => ret[f] # "user"
        /\ pc[f] \in Sending => put[f] \in Puts
        /\ pc[f] # "closed" => fs[f] \in Locals
        /\ pc[f] = "last" => "w" \in fs[f].modes

(* A file that closes, past the point where it was the master. *)
Leaving(f) == pc[f] = "kfree" \/ (pc[f] \in Flushing /\ ret[f] = "kfree")

(* The master before it is counted as a writer, and after.                  *)
Uncounted(f) == pc[f] \in {"opened", "last"} \/ (pc[f] \in Flushing /\ ret[f] = "opened")

Writes(f) == IsOpen(f) /\ "w" \in fs[f].modes /\ ~Leaving(f)

MasterCounted ==
    /\ \A f \in Files : Writes(f) <=> acc.master = f
    /\ acc.writers = IF acc.master # NULL /\ ~Uncounted(acc.master) THEN 1 ELSE 0

(* Without a master nothing is sent, and what was queued has been flushed.  *)
QueueFlushed ==
    /\ acc.master = NULL =>
         /\ mask = {}
         /\ (\A f \in Files : pc[f] \notin Flushing) => Empty
         /\ \A f \in Files : pc[f] = "flush put" => events.get = 0
    /\ \A f \in Files : pc[f] \in Sending => acc.master # NULL

TriggersKept ==
    /\ trig.T_SC_TRIGGER_MASK = trig.sc /\ trig.T_MC_TRIGGER_MASK = trig.mc
    /\ \A f \in Files : pc[f] = "kmalloc" => fs[f].sc = {} /\ fs[f].mc = {}
    /\ TriggersOwned

EventInv == EventTypes /\ CpuRuns /\ MasterCounted /\ QueueFlushed /\ TriggersKept

-----------------------------------------------------------------------------
(* The next place of a ring is in it. *)
LEMMA IndexInRing ==
    ASSUME NEW i \in Ring
    PROVE  Index(i) \in Ring
<1>1. TRIG_LOG \in Nat \ {0} /\ i + 1 \in Nat
  BY EventAssumption DEF Ring
<1>2. \A n \in Nat \ {0}, a \in Nat : a % n \in 0 .. n - 1
  OBVIOUS
<1> QED
  BY <1>1, <1>2 DEF Index, Ring

(* The files and triggers that a behaviour uses are files and triggers. *)
LEMMA FilesOfWorld ==
    ASSUME EventTypes
    PROVE  world.files \subseteq Files /\ world.triggers \subseteq Triggers
  BY EventAssumption DEF EventTypes

(* All files are closed and nothing is enabled. *)
LEMMA InitEventInv == Init => EventInv
<1> SUFFICES ASSUME Init PROVE EventInv
  OBVIOUS
<1>1. NULL \notin Files /\ TRIG_LOG \in Nat \ {0}
  BY EventAssumption
<1>2. 0 \in Ring /\ events \in EventFIFOs
  BY <1>1 DEF Init, Ring, EventFIFOs
<1>3. EventTypes
  BY <1>2 DEF Init, EventTypes, Access, TriggerVectors, TriggerSets, Kernel, Sleeping
<1>4. \A f \in Files : pc[f] = "closed" /\ cpu # f /\ acc.master # f
  BY <1>1 DEF Init
<1>5. acc.master = NULL /\ acc.writers = 0 /\ mask = {} /\ Empty
  BY DEF Init, Empty
<1>6. CpuRuns /\ MasterCounted /\ QueueFlushed
  BY <1>4, <1>5 DEF CpuRuns, MasterCounted, QueueFlushed, Kernel, Sending, Flushing,
     Writes, IsOpen
<1>7. TriggersKept
  BY <1>4 DEF Init, TriggersKept, TriggersOwned, IsOpen
<1> QED
  BY <1>3, <1>6, <1>7 DEF EventInv

(* What follows from CpuRuns for a step of a file.                          *)
LEMMA OthersSleep ==
    ASSUME EventInv, NEW f \in Files, cpu = NULL \/ pc[f] \in Kernel
    PROVE  \A g \in Files : g # f => pc[g] \notin Kernel
  BY EventAssumption DEF EventInv, CpuRuns

(* A step of a call that is about none of files, triggers, mask and master. *)
LEMMA QuietStep ==
    ASSUME EventInv, NEW f \in Files, NEW p \in Calls,
           pc[f] \in Calls, cpu = NULL \/ pc[f] \in Kernel,
           pc' = [pc EXCEPT ![f] = p],
           cpu' = IF p \in Kernel THEN f ELSE NULL,
           UNCHANGED << world, fs, acc, trig, mask, ret >>,
           events' \in EventFIFOs, sent' \in Nat,
           acc.master = NULL => events' = events /\ p \notin Sending,
           put' \in [Files -> {NULL} \cup Puts],
           p \in Sending => put'[f] \in Puts
    PROVE  EventInv'
<1>1. \A g \in Files : g # f => pc[g] \notin Kernel /\ pc'[g] = pc[g]
  BY OthersSleep DEF EventInv, EventTypes
<1>2. pc'[f] = p /\ p \notin Flushing /\ pc[f] \notin Flushing
  BY DEF EventInv, EventTypes, Calls, Flushing, Sending
<1>3. EventTypes'
  BY DEF EventInv, EventTypes, Calls, Kernel, Sleeping, Sending, Flushing
<1>4. CpuRuns'
  <2> SUFFICES ASSUME NEW g \in Files
               PROVE  /\ pc'[g] \in Kernel <=> cpu' = g
                      /\ pc'[g] \in Flushing => ret'[g] # "user"
                      /\ pc'[g] \in Sending => put'[g] \in Puts
                      /\ pc'[g] # "closed" => fs'[g] \in Locals
                      /\ pc'[g] = "last" => "w" \in fs'[g].modes
    BY DEF CpuRuns
  <2>1. CASE g = f
    BY <1>2, <2>1, EventAssumption DEF EventInv, CpuRuns, Calls, Sending
  <2>2. CASE g # f
    BY <1>1, <2>2, EventAssumption DEF EventInv, CpuRuns, Kernel
  <2> QED
    BY <2>1, <2>2
<1>5. MasterCounted'
  <2>1. \A g \in Files : /\ Writes(g)' <=> Writes(g)
                         /\ Uncounted(g)' <=> Uncounted(g)
    BY <1>1, <1>2 DEF Writes, Uncounted, IsOpen, Leaving, Calls, Sending, Flushing
  <2>2. acc.master \in Files \cup {NULL}
    BY DEF EventInv, EventTypes, Access
  <2> QED
    BY <2>1, <2>2 DEF EventInv, MasterCounted
<1>6. QueueFlushed'
  BY <1>1, <1>2 DEF EventInv, QueueFlushed, Empty, Flushing, Sending, Kernel
<1>7. TriggersKept'
  <2>1. \A g \in Files : /\ IsOpen(g)' <=> IsOpen(g)
                         /\ pc'[g] = "kfree" <=> pc[g] = "kfree"
                         /\ pc'[g] = "kmalloc" <=> pc[g] = "kmalloc"
    BY <1>1, <1>2 DEF IsOpen, Calls, Sending
  <2> QED
    BY <2>1 DEF EventInv, TriggersKept, TriggersOwned
<1> QED
  BY <1>3, <1>4, <1>5, <1>6, <1>7 DEF EventInv

(* The steps of a read and a poll. *)
LEMMA ReadSteps ==
    ASSUME EventInv, UNCHANGED world, NEW f \in Files,
           \/ ReadCall(f) \/ LockInterrupted(f) \/ ReadLock(f) \/ ReadAgain(f)
           \/ Prepare(f) \/ Recheck(f) \/ Relock(f) \/ Interrupted(f)
           \/ Count(f) \/ getFrom_eventFIFO(f) \/ ReadReturns(f) \/ CopyFails(f) \/ Copied(f)
           \/ libera_event_poll(f) \/ PollReturns(f)
    PROVE  EventInv'
<1> USE DEF Calls, Kernel, Sending, Flushing
<1>1. /\ events \in EventFIFOs /\ sent \in Nat /\ put \in [Files -> {NULL} \cup Puts]
      /\ pc[f] \in Kernel <=> cpu = f
      /\ cpu \in Files \cup {NULL} /\ NULL \notin Files
  BY EventAssumption DEF EventInv, EventTypes, CpuRuns
<1>2. CASE Return(f) /\ pc[f] \in Calls /\ (cpu = NULL \/ pc[f] \in Kernel)
  BY <1>1, <1>2, QuietStep DEF Return
<1>3. CASE LockInterrupted(f) \/ ReadAgain(f) \/ Interrupted(f) \/ ReadReturns(f)
           \/ CopyFails(f) \/ PollReturns(f)
  BY <1>2, <1>3 DEF LockInterrupted, ReadAgain, Interrupted, ReadReturns, CopyFails,
     PollReturns
<1>4. CASE ReadCall(f)
  BY <1>1, <1>4, QuietStep DEF ReadCall, InUser
<1>5. CASE ReadLock(f)
  <2>1. PICK p \in {"prepare", "count"} : pc' = [pc EXCEPT ![f] = p]
    BY <1>5 DEF ReadLock
  <2> QED
    BY <1>1, <1>5, <2>1, QuietStep DEF ReadLock
<1>6. CASE Prepare(f)
  BY <1>1, <1>6, QuietStep DEF Prepare
<1>7. CASE Recheck(f)
  <2>1. CASE Empty
    BY <1>1, <1>7, <2>1, QuietStep DEF Recheck
  <2>2. CASE ~Empty
    BY <1>1, <1>7, <2>2, QuietStep DEF Recheck
  <2> QED
    BY <2>1, <2>2
<1>8. CASE Relock(f)
  BY <1>1, <1>8, QuietStep DEF Relock
<1>9. CASE Count(f)
  BY <1>1, <1>9, QuietStep DEF Count
<1>10. CASE Copied(f)
  BY <1>1, <1>10, QuietStep DEF Copied
<1>11. CASE libera_event_poll(f)
  BY <1>1, <1>11, QuietStep DEF libera_event_poll, InUser
<1>12. CASE getFrom_eventFIFO(f)
  <2>1. /\ pc[f] = "get" /\ ~Empty /\ pc' = [pc EXCEPT ![f] = "copy"] /\ cpu' = NULL
        /\ events' = [events EXCEPT !.get = Index(@)]
        /\ UNCHANGED << fs, acc, trig, mask, ret, put, sent >>
    BY <1>12 DEF getFrom_eventFIFO
  <2>2. \A g \in Files : pc[g] \notin Flushing
    BY <2>1, OthersSleep
  <2>3. acc.master # NULL
    BY <2>1, <2>2 DEF EventInv, QueueFlushed
  <2>4. Index(events.get) \in Ring
    BY <1>1, IndexInRing DEF EventFIFOs
  <2>5. events' \in EventFIFOs
    BY <1>1, <2>1, <2>4 DEF EventFIFOs
  <2> QED
    BY <1>1, <2>1, <2>3, <2>5, QuietStep
<1> QED
  BY <1>3, <1>4, <1>5, <1>6, <1>7, <1>8, <1>9, <1>10, <1>11, <1>12

(* The steps of a process that sends an event, and the end of FLUSH.        *)
LEMMA SendSteps ==
    ASSUME EventInv, UNCHANGED world, NEW f \in Files,
           StartSend(f) \/ StoreEvent(f) \/ AdvancePut(f) \/ Flushed(f)
    PROVE  EventInv'
<1> USE DEF Calls, Kernel, Sending, Flushing
<1>1. /\ events \in EventFIFOs /\ sent \in Nat /\ put \in [Files -> {NULL} \cup Puts]
      /\ pc[f] \in Kernel <=> cpu = f
      /\ cpu \in Files \cup {NULL} /\ NULL \notin Files
      /\ pc[f] \in Sending => put[f] \in Puts /\ acc.master # NULL
      /\ mask # {} => acc.master # NULL
  BY EventAssumption DEF EventInv, EventTypes, CpuRuns, QueueFlushed
<1>2. CASE StartSend(f)
  <2>1. PICK p \in {"wake", "data"} : pc' = [pc EXCEPT ![f] = p]
    BY <1>2 DEF StartSend
  <2> DEFINE entry == [event |-> sent', index |-> Index(events.put)]
  <2>2. /\ cpu = NULL /\ pc[f] = "user" /\ mask # {} /\ sent' = sent + 1 /\ cpu' = f
        /\ put' = [put EXCEPT ![f] = entry]
        /\ UNCHANGED << fs, acc, trig, mask, events, ret >>
    BY <1>2 DEF StartSend
  <2>3. sent' \in Nat /\ Index(events.put) \in Ring
    BY <1>1, <2>2, IndexInRing DEF EventFIFOs
  <2>4. entry \in Puts
    BY <2>3 DEF Puts
  <2> HIDE DEF entry
  <2>5. put' \in [Files -> {NULL} \cup Puts] /\ put'[f] \in Puts
    BY <1>1, <2>2, <2>4
  <2> QED
    BY <1>1, <2>1, <2>2, <2>3, <2>5, QuietStep
<1>3. CASE StoreEvent(f)
  <2>1. /\ pc[f] = "data" /\ pc' = [pc EXCEPT ![f] = "put"] /\ cpu' = cpu
        /\ events' = [events EXCEPT !.data[put[f].index] = put[f].event]
        /\ UNCHANGED << fs, acc, trig, mask, ret, put, sent >>
    BY <1>3 DEF StoreEvent
  <2>2. events' \in EventFIFOs
    BY <1>1, <2>1 DEF EventFIFOs, Puts
  <2> QED
    BY <1>1, <2>1, <2>2, QuietStep
<1>4. CASE AdvancePut(f)
  <2>1. /\ pc[f] \in {"put", "wake"} /\ pc' = [pc EXCEPT ![f] = "user"] /\ cpu' = NULL
        /\ events' = events \/ events' = [events EXCEPT !.put = put[f].index]
        /\ put' = [put EXCEPT ![f] = NULL]
        /\ UNCHANGED << fs, acc, trig, mask, ret, sent >>
    BY <1>4 DEF AdvancePut
  <2>2. events' \in EventFIFOs
    BY <1>1, <2>1 DEF EventFIFOs, Puts
  <2> QED
    BY <1>1, <2>1, <2>2, QuietStep
<1>5. CASE Flushed(f)
  BY <1>1, <1>5, QuietStep DEF Flushed
<1> QED
  BY <1>2, <1>3, <1>4, <1>5

(* An interrupt between any two steps. *)
LEMMA InterruptStep ==
    ASSUME EventInv, UNCHANGED world, Interrupt
    PROVE  EventInv'
<1>1. /\ mask # {} /\ sent' = sent + 1
      /\ \/ events' = events
         \/ events' = [events EXCEPT !.data[Index(events.put)] = sent',
                                     !.put = Index(events.put)]
      /\ UNCHANGED << fs, acc, trig, mask, pc, ret, cpu, put >>
  BY DEF Interrupt
<1>2. acc.master # NULL
  BY <1>1 DEF EventInv, QueueFlushed
<1>3. events \in EventFIFOs /\ sent' \in Nat /\ Index(events.put) \in Ring
  BY <1>1, IndexInRing DEF EventInv, EventTypes, EventFIFOs
<1>4. events' \in EventFIFOs
  <2> DEFINE index == Index(events.put)
             stored == [events EXCEPT !.data[index] = sent']
  <2>1. stored \in EventFIFOs
    BY <1>3 DEF EventFIFOs
  <2>2. [stored EXCEPT !.put = index] \in EventFIFOs
    <3> HIDE DEF stored
    <3> QED
      BY <1>3, <2>1 DEF EventFIFOs
  <2>3. events' = events \/ events' = [stored EXCEPT !.put = index]
    BY <1>1, Zenon
  <2> QED
    BY <1>3, <2>2, <2>3, Zenon
<1>5. EventTypes'
  BY <1>1, <1>3, <1>4 DEF EventInv, EventTypes
<1>6. CpuRuns' /\ MasterCounted' /\ QueueFlushed' /\ TriggersKept'
  BY <1>1, <1>2 DEF EventInv, CpuRuns, MasterCounted, QueueFlushed, TriggersKept,
     Writes, Uncounted, Leaving, IsOpen, TriggersOwned
<1> QED
  BY <1>5, <1>6 DEF EventInv

-----------------------------------------------------------------------------
(* A step that moves one file from place to place, and changes the file and *)
(* the counts perhaps: what it must show of that file to keep what is said  *)
(* of each.                                                                 *)
LEMMA MovesOne ==
    ASSUME EventInv, NEW f \in Files, NEW p \in Kernel \cup Sleeping,
           cpu = NULL \/ pc[f] \in Kernel,
           pc' = [pc EXCEPT ![f] = p],
           cpu' = IF p \in Kernel THEN f ELSE NULL,
           fs' \in [Files -> {NULL} \cup Locals], p # "closed" => fs'[f] \in Locals,
           p = "last" => "w" \in fs'[f].modes,
           ret' \in [Files -> {"user", "opened", "kfree", "flushed"}],
           p \in Flushing => ret'[f] # "user", p \notin Sending,
           \A g \in Files : g # f => fs'[g] = fs[g] /\ ret'[g] = ret[g],
           acc' \in Access, trig' \in TriggerVectors, events' \in EventFIFOs,
           UNCHANGED << world, sent, put >>
    PROVE  EventTypes' /\ CpuRuns'
<1>1. \A g \in Files : g # f => pc[g] \notin Kernel
  BY OthersSleep
<1>2. EventTypes'
  BY DEF EventInv, EventTypes
<1>3. CpuRuns'
  <2> SUFFICES ASSUME NEW g \in Files
               PROVE  /\ pc'[g] \in Kernel <=> cpu' = g
                      /\ pc'[g] \in Flushing => ret'[g] # "user"
                      /\ pc'[g] \in Sending => put'[g] \in Puts
                      /\ pc'[g] # "closed" => fs'[g] \in Locals
                      /\ pc'[g] = "last" => "w" \in fs'[g].modes
    BY DEF CpuRuns
  <2>1. CASE g = f
    BY <2>1, EventAssumption DEF EventInv, EventTypes
  <2>2. CASE g # f
    <3>1. pc'[g] = pc[g] /\ cpu' # g
      BY <2>2, EventAssumption DEF EventInv, EventTypes
    <3> QED
      BY <1>1, <2>2, <3>1 DEF EventInv, CpuRuns
  <2> QED
    BY <2>1, <2>2
<1> QED
  BY <1>2, <1>3

(* flush_eventFIFO, and the FLUSH that calls it. *)
LEMMA FlushSteps ==
    ASSUME EventInv, UNCHANGED world, NEW f \in Files, flush_eventFIFO(f) \/ FLUSH(f)
    PROVE  EventInv'
<1>1. /\ fs \in [Files -> {NULL} \cup Locals]
      /\ pc[f] # "closed" => fs[f] \in Locals
      /\ ret \in [Files -> {"user", "opened", "kfree", "flushed"}]
      /\ acc \in Access /\ trig \in TriggerVectors /\ events \in EventFIFOs
      /\ ret[f] \in {"user", "opened", "kfree", "flushed"}
      /\ pc[f] \in Flushing => ret[f] # "user"
      /\ pc[f] \in Kernel <=> cpu = f
      /\ acc.master \in Files \cup {NULL} /\ NULL \notin Files
  BY EventAssumption DEF EventInv, EventTypes, CpuRuns, Access
<1>2. CASE FLUSH(f)
  <2>1. /\ pc[f] = "user" /\ acc.master = f /\ cpu = NULL
        /\ pc' = [pc EXCEPT ![f] = "flush"] /\ cpu' = f
        /\ ret' = [ret EXCEPT ![f] = "flushed"]
        /\ UNCHANGED << fs, acc, trig, mask, events, put, sent >>
    BY <1>2 DEF FLUSH, InUser
  <2>2. EventTypes' /\ CpuRuns'
    <3>1. /\ ret' \in [Files -> {"user", "opened", "kfree", "flushed"}] /\ ret'[f] # "user"
          /\ \A g \in Files : g # f => ret'[g] = ret[g]
      BY <1>1, <2>1
    <3>2. "flush" \in Kernel \cup Sleeping /\ "flush" \notin Sending /\ "flush" \in Kernel
      BY DEF Kernel, Flushing, Sending
    <3> QED
      BY <1>1, <2>1, <3>1, <3>2, MovesOne
  <2>3. \A g \in Files : /\ Writes(g)' <=> Writes(g)
                         /\ Uncounted(g)' <=> Uncounted(g)
                         /\ IsOpen(g)' <=> IsOpen(g)
                         /\ pc'[g] \in Sending <=> pc[g] \in Sending
                         /\ pc'[g] = "kfree" <=> pc[g] = "kfree"
                         /\ pc'[g] = "kmalloc" <=> pc[g] = "kmalloc"
    BY <2>1 DEF Writes, Uncounted, Leaving, IsOpen, Flushing, Sending, EventInv, EventTypes
  <2>4. MasterCounted' /\ QueueFlushed' /\ TriggersKept'
    BY <1>1, <2>1, <2>3 DEF EventInv, MasterCounted, QueueFlushed, TriggersKept, TriggersOwned
  <2> QED
    BY <2>2, <2>4 DEF EventInv
<1>3. CASE flush_eventFIFO(f)
  <2>1. /\ pc[f] \in Flushing
        /\ UNCHANGED << fs, acc, trig, mask, ret, cpu, put, sent >>
        /\ \/ /\ pc[f] = "flush" /\ pc' = [pc EXCEPT ![f] = "flush put"]
              /\ events' = [events EXCEPT !.get = 0]
           \/ /\ pc[f] = "flush put" /\ pc' = [pc EXCEPT ![f] = ret[f]]
              /\ events' = [events EXCEPT !.put = 0]
    BY <1>3 DEF flush_eventFIFO, Flushing
  <2>2. 0 \in Ring
    BY EventAssumption DEF Ring
  <2>3. /\ events' \in EventFIFOs
        /\ pc[f] = "flush" => events'.get = 0
        /\ pc[f] = "flush put" => events'.put = 0 /\ events'.get = events.get
    BY <1>1, <2>1, <2>2 DEF EventFIFOs
  <2>4. cpu = f /\ ret[f] # "user" /\ pc[f] \in Kernel
    BY <1>1, <2>1 DEF Kernel
  <2>5. PICK p \in {"flush put", "opened", "kfree", "flushed"} :
          /\ pc' = [pc EXCEPT ![f] = p]
          /\ pc[f] = "flush" => p = "flush put"
          /\ pc[f] = "flush put" => p = ret[f]
    BY <1>1, <2>1, <2>4
  <2>6. EventTypes' /\ CpuRuns'
    <3>1. p \in Kernel /\ p \notin Sending /\ cpu' = IF p \in Kernel THEN f ELSE NULL
      BY <2>1, <2>4, <2>5 DEF Kernel, Flushing, Sending
    <3>2. /\ fs' \in [Files -> {NULL} \cup Locals] /\ fs'[f] \in Locals
          /\ ret' \in [Files -> {"user", "opened", "kfree", "flushed"}] /\ ret'[f] # "user"
          /\ \A g \in Files : g # f => fs'[g] = fs[g] /\ ret'[g] = ret[g]
      BY <1>1, <2>1, <2>4 DEF Flushing
    <3>3. acc' \in Access /\ trig' \in TriggerVectors /\ UNCHANGED << world, sent, put >>
      BY <1>1, <2>1
    <3> QED
      BY <2>3, <2>4, <2>5, <3>1, <3>2, <3>3, MovesOne
  <2>7. \A g \in Files : g # f => pc'[g] = pc[g] /\ pc[g] \notin Kernel
    BY <2>4, <2>5, OthersSleep DEF EventInv, EventTypes
  <2>8. pc'[f] = p
    BY <2>5 DEF EventInv, EventTypes
  <2>9. \A g \in Files : /\ Writes(g)' <=> Writes(g)
                         /\ Uncounted(g)' <=> Uncounted(g)
                         /\ IsOpen(g)' <=> IsOpen(g)
                         /\ pc'[g] = "kfree" => IsOpen(g)
                         /\ pc'[g] = "kmalloc" <=> pc[g] = "kmalloc"
    BY <1>1, <2>1, <2>4, <2>5, <2>7, <2>8 DEF Writes, Uncounted, Leaving, IsOpen, Flushing
  <2>10. MasterCounted'
    BY <1>1, <2>1, <2>9 DEF EventInv, MasterCounted
  <2>11. QueueFlushed'
    BY <2>1, <2>3, <2>5, <2>7, <2>8 DEF EventInv, QueueFlushed, Empty, Flushing, Kernel, Sending
  <2>12. TriggersKept'
    BY <2>1, <2>5, <2>7, <2>8, <2>9 DEF EventInv, TriggersKept, TriggersOwned, Flushing, Kernel
  <2> QED
    BY <2>6, <2>10, <2>11, <2>12 DEF EventInv
<1> QED
  BY <1>2, <1>3

(* The ioctls on the mask and on the triggers. *)
LEMMA MaskStep ==
    ASSUME EventInv, UNCHANGED world, NEW f \in Files, SET_MASK(f)
    PROVE  EventInv'
<1>1. /\ acc.master = f
      /\ UNCHANGED << world, fs, acc, trig, events, pc, ret, cpu, put, sent >>
  BY DEF SET_MASK
<1>2. acc.master # NULL
  BY <1>1, EventAssumption
<1> QED
  BY <1>1, <1>2 DEF EventInv, EventTypes, CpuRuns, MasterCounted, QueueFlushed, TriggersKept,
     Writes, Uncounted, Leaving, IsOpen, TriggersOwned, Empty

(* A trigger enabled is nobody else's, by the test for -EBUSY. *)
LEMMA TriggerStep ==
    ASSUME EventInv, UNCHANGED world, NEW f \in Files, NEW side \in Sides,
           NEW arg \in SUBSET Triggers, ENABLE_TRIG(f, side, arg)
    PROVE  EventInv'
<1> DEFINE local == fs[f][side] \cup arg
           all == trig[side] \cup local
<1>1. /\ cpu = NULL /\ pc[f] = "user" /\ arg \cap trig[side] = {}
      /\ fs' = [fs EXCEPT ![f][side] = local]
      /\ trig' = IF side = "sc" THEN [trig EXCEPT !.sc = all, !.T_SC_TRIGGER_MASK = all]
                 ELSE [trig EXCEPT !.mc = all, !.T_MC_TRIGGER_MASK = all]
      /\ UNCHANGED << acc, mask, events, pc, ret, cpu, put, sent >>
  BY DEF ENABLE_TRIG, Enabling, InUser
<1>2. /\ fs[f] \in Locals /\ trig \in TriggerVectors /\ fs \in [Files -> {NULL} \cup Locals]
  BY <1>1 DEF EventInv, EventTypes, CpuRuns
<1>3. local \in SUBSET Triggers /\ all \in TriggerSets
  BY <1>2 DEF Locals, TriggerVectors, TriggerSets, Sides
<1> HIDE DEF local, all
<1>4. /\ fs'[f] \in Locals /\ fs'[f].modes = fs[f].modes
      /\ side = "sc" => fs'[f].sc = local /\ fs'[f].mc = fs[f].mc
      /\ side = "mc" => fs'[f].mc = local /\ fs'[f].sc = fs[f].sc
      /\ fs' \in [Files -> {NULL} \cup Locals]
      /\ \A g \in Files : g # f => fs'[g] = fs[g]
  BY <1>1, <1>2, <1>3 DEF Locals, Sides
<1>5. /\ trig' \in TriggerVectors
      /\ side = "sc" => /\ trig'.sc = all /\ trig'.T_SC_TRIGGER_MASK = all
                        /\ trig'.mc = trig.mc
                        /\ trig'.T_MC_TRIGGER_MASK = trig.T_MC_TRIGGER_MASK
      /\ side = "mc" => /\ trig'.mc = all /\ trig'.T_MC_TRIGGER_MASK = all
                        /\ trig'.sc = trig.sc
                        /\ trig'.T_SC_TRIGGER_MASK = trig.T_SC_TRIGGER_MASK
  BY <1>1, <1>2, <1>3 DEF TriggerVectors, Sides
<1>6. EventTypes' /\ CpuRuns'
  BY <1>1, <1>4, <1>5 DEF EventInv, EventTypes, CpuRuns
<1>7. MasterCounted' /\ QueueFlushed'
  <2>1. \A g \in Files : (Writes(g)' <=> Writes(g)) /\ (Uncounted(g)' <=> Uncounted(g))
    BY <1>1, <1>4 DEF Writes, Uncounted, Leaving, IsOpen
  <2>2. acc.master \in Files \cup {NULL}
    BY DEF EventInv, EventTypes, Access
  <2> QED
    BY <1>1, <2>1, <2>2 DEF EventInv, MasterCounted, QueueFlushed, Empty
<1>8. TriggersKept'
  <2>1. \A g \in Files : pc[g] # "kfree"
    BY <1>1, OthersSleep DEF Kernel
  <2>2. \A g \in Files : IsOpen(g) => fs[g].sc \subseteq trig.sc /\ fs[g].mc \subseteq trig.mc
    BY <2>1 DEF EventInv, TriggersKept, TriggersOwned
  <2>3. \A g \in Files : IsOpen(g)' <=> IsOpen(g)
    BY <1>1 DEF IsOpen
  <2>4. side \in {"sc", "mc"} /\ IsOpen(f)
    BY <1>1 DEF Sides, IsOpen
  <2>5. /\ trig'.T_SC_TRIGGER_MASK = trig'.sc /\ trig'.T_MC_TRIGGER_MASK = trig'.mc
        /\ trig.sc \subseteq trig'.sc /\ trig.mc \subseteq trig'.mc
    BY <1>5, <2>4 DEF EventInv, TriggersKept, all
  <2>6. /\ fs'[f].sc \subseteq trig'.sc /\ fs'[f].mc \subseteq trig'.mc
    BY <1>4, <1>5, <2>2, <2>4 DEF all
  <2>7. \A g \in Files : g # f /\ IsOpen(g) => fs[g].sc \cap fs'[f].sc = {} /\ fs[g].mc \cap fs'[f].mc = {}
    <3> SUFFICES ASSUME NEW g \in Files, g # f, IsOpen(g)
                 PROVE  fs[g].sc \cap fs'[f].sc = {} /\ fs[g].mc \cap fs'[f].mc = {}
      OBVIOUS
    <3>1. fs[g].sc \cap fs[f].sc = {} /\ fs[g].mc \cap fs[f].mc = {}
      BY <2>4 DEF EventInv, TriggersKept, TriggersOwned
    <3>2. CASE side = "sc"
      BY <1>1, <1>4, <2>2, <3>1, <3>2 DEF local
    <3>3. CASE side = "mc"
      BY <1>1, <1>4, <2>2, <3>1, <3>3 DEF local
    <3> QED
      BY <2>4, <3>2, <3>3
  <2>8. TriggersOwned'
    <3>1. \A g, h \in Files : g # h /\ IsOpen(g) /\ IsOpen(h) =>
            fs'[g].sc \cap fs'[h].sc = {} /\ fs'[g].mc \cap fs'[h].mc = {}
      BY <1>4, <2>7 DEF EventInv, TriggersKept, TriggersOwned
    <3>2. \A g \in Files : IsOpen(g) => fs'[g].sc \subseteq trig'.sc /\ fs'[g].mc \subseteq trig'.mc
      BY <1>4, <2>2, <2>5, <2>6
    <3> QED
      BY <1>1, <2>3, <2>5, <3>1, <3>2 DEF TriggersOwned
  <2>9. \A g \in Files : pc'[g] = "kmalloc" => fs'[g].sc = {} /\ fs'[g].mc = {}
    BY <1>1, <1>4 DEF EventInv, TriggersKept
  <2> QED
    BY <2>5, <2>8, <2>9 DEF TriggersKept
<1> QED
  BY <1>6, <1>7, <1>8 DEF EventInv

-----------------------------------------------------------------------------
(* What the steps of open() and release() know of their file. *)
LEMMA FileFacts ==
    ASSUME EventInv, NEW f \in Files
    PROVE  /\ fs \in [Files -> {NULL} \cup Locals]
           /\ pc[f] # "closed" => fs[f] \in Locals
           /\ ret \in [Files -> {"user", "opened", "kfree", "flushed"}]
           /\ pc \in [Files -> Kernel \cup Sleeping]
           /\ acc \in Access /\ trig \in TriggerVectors /\ events \in EventFIFOs
           /\ pc[f] \in Kernel <=> cpu = f
           /\ acc.master \in Files \cup {NULL} /\ NULL \notin Files
  BY EventAssumption DEF EventInv, EventTypes, CpuRuns, Access

(* A file that is not open yet, or not any more. *)
LEMMA ClosedSteps ==
    ASSUME EventInv, UNCHANGED world, NEW f \in Files,
           OpenLock(f) \/ OpenFails(f) \/ Closed(f)
    PROVE  EventInv'
<1>1. PICK p \in {"kmalloc", "closed"} :
        /\ pc' = [pc EXCEPT ![f] = p]
        /\ p = "kmalloc" => OpenLock(f)
        /\ p = "closed" => OpenFails(f) \/ Closed(f)
  BY DEF OpenLock, OpenFails, Closed
<1>2. /\ UNCHANGED << acc, trig, mask, events, ret, put, sent >> /\ cpu' = NULL
      /\ cpu = NULL \/ pc[f] \in Kernel
      /\ pc[f] \in {"closed", "kmalloc", "kfree"}
  BY DEF OpenLock, OpenFails, Closed, Kernel
<1>3. PICK local \in {NULL} \cup Locals :
        /\ fs' = [fs EXCEPT ![f] = local]
        /\ p = "kmalloc" => local \in Locals /\ local.sc = {} /\ local.mc = {}
  <2>1. CASE p = "kmalloc"
    <3>1. PICK m \in Modes[f] : fs' = [fs EXCEPT ![f] = [modes |-> m, sc |-> {}, mc |-> {}]]
      BY <1>1, <2>1 DEF OpenLock
    <3>2. m \in SUBSET {"r", "w"}
      BY <3>1, EventAssumption
    <3> DEFINE opened == [modes |-> m, sc |-> {}, mc |-> {}]
    <3>3. opened \in Locals /\ opened.sc = {} /\ opened.mc = {}
      BY <3>2 DEF Locals
    <3>4. fs' = [fs EXCEPT ![f] = opened]
      BY <3>1
    <3> HIDE DEF opened
    <3> QED
      BY <3>3, <3>4
  <2>2. CASE p = "closed"
    BY <1>1, <2>2 DEF OpenFails, Closed
  <2> QED
    BY <2>1, <2>2
<1>4. /\ fs' \in [Files -> {NULL} \cup Locals] /\ fs'[f] = local /\ pc'[f] = p
      /\ \A g \in Files : g # f => fs'[g] = fs[g] /\ ret'[g] = ret[g] /\ pc'[g] = pc[g]
  BY <1>1, <1>2, <1>3, FileFacts
<1>5. p \in Kernel \cup Sleeping /\ p \notin Kernel /\ p \notin Flushing /\ p \notin Sending
  BY DEF Kernel, Sleeping, Flushing, Sending
<1>6. EventTypes' /\ CpuRuns'
  <2>1. /\ ret' \in [Files -> {"user", "opened", "kfree", "flushed"}]
        /\ acc' \in Access /\ trig' \in TriggerVectors /\ events' \in EventFIFOs
    BY <1>2, FileFacts
  <2>2. p # "closed" => fs'[f] \in Locals
    BY <1>3, <1>4
  <2>3. UNCHANGED << world, sent, put >> /\ cpu' = IF p \in Kernel THEN f ELSE NULL
    BY <1>2, <1>5
  <2> QED
    BY <1>1, <1>2, <1>4, <1>5, <2>1, <2>2, <2>3, MovesOne
<1>7. \A g \in Files : g # f => /\ Writes(g)' <=> Writes(g)
                                /\ Uncounted(g)' <=> Uncounted(g)
                                /\ IsOpen(g)' <=> IsOpen(g)
  BY <1>2, <1>4 DEF Writes, Uncounted, Leaving, IsOpen
<1>8. ~Writes(f) /\ ~Writes(f)' /\ ~IsOpen(f)' /\ acc.master # f
  BY <1>2, <1>4 DEF Writes, Leaving, IsOpen, EventInv, MasterCounted
<1>9. MasterCounted'
  BY <1>2, <1>7, <1>8, FileFacts DEF EventInv, MasterCounted
<1>10. QueueFlushed'
  BY <1>2, <1>4, <1>5 DEF EventInv, QueueFlushed, Empty, Flushing, Sending
<1>11. TriggersKept'
  BY <1>2, <1>3, <1>4, <1>7, <1>8 DEF EventInv, TriggersKept, TriggersOwned
<1> QED
  BY <1>6, <1>9, <1>10, <1>11 DEF EventInv

(* The first writer becomes the master. *)
LEMMA MasterStep ==
    ASSUME EventInv, UNCHANGED world, NEW f \in Files, OpenAsMaster(f)
    PROVE  EventInv'
<1>1. /\ cpu = NULL /\ pc[f] = "kmalloc" /\ "w" \in fs[f].modes /\ acc.master = NULL
      /\ acc' = [acc EXCEPT !.master = f] /\ cpu' = f
      /\ pc' = [pc EXCEPT ![f] = "flush"] /\ ret' = [ret EXCEPT ![f] = "opened"]
      /\ UNCHANGED << fs, trig, mask, events, put, sent >>
  BY DEF OpenAsMaster
<1>2. /\ acc' \in Access /\ acc'.master = f /\ acc'.writers = acc.writers
      /\ pc'[f] = "flush" /\ ret'[f] = "opened"
      /\ ret' \in [Files -> {"user", "opened", "kfree", "flushed"}]
      /\ \A g \in Files : g # f => pc'[g] = pc[g] /\ ret'[g] = ret[g]
  BY <1>1, FileFacts DEF Access
<1>3. EventTypes' /\ CpuRuns'
  <2>1. "flush" \in Kernel /\ "flush" \notin Sending
    BY DEF Kernel, Flushing, Sending
  <2>2. /\ fs' \in [Files -> {NULL} \cup Locals] /\ fs'[f] \in Locals
        /\ \A g \in Files : g # f => fs'[g] = fs[g] /\ ret'[g] = ret[g]
    BY <1>1, <1>2, FileFacts
  <2>3. trig' \in TriggerVectors /\ events' \in EventFIFOs /\ UNCHANGED << world, sent, put >>
    BY <1>1, FileFacts
  <2> QED
    BY <1>1, <1>2, <2>1, <2>2, <2>3, MovesOne
<1>4. \A g \in Files : g # f => ~Writes(g)' /\ (IsOpen(g)' <=> IsOpen(g))
  BY <1>1, <1>2, FileFacts DEF EventInv, MasterCounted, Writes, Leaving, IsOpen
<1>5. Writes(f)' /\ Uncounted(f)' /\ acc.writers = 0
  BY <1>1, <1>2 DEF Writes, Uncounted, Leaving, IsOpen, Flushing, EventInv, MasterCounted
<1>6. MasterCounted'
  BY <1>2, <1>4, <1>5, FileFacts DEF MasterCounted
<1>7. QueueFlushed'
  BY <1>1, <1>2, FileFacts DEF EventInv, QueueFlushed, Sending
<1>8. TriggersKept'
  <2>1. fs[f].sc = {} /\ fs[f].mc = {}
    BY <1>1 DEF EventInv, TriggersKept
  <2> QED
    BY <1>1, <1>2, <1>4, <2>1 DEF EventInv, TriggersKept, TriggersOwned
<1> QED
  BY <1>3, <1>6, <1>7, <1>8 DEF EventInv

(* The end of open(): the file is counted. *)
LEMMA OpenStep ==
    ASSUME EventInv, UNCHANGED world, NEW f \in Files, libera_event_open(f)
    PROVE  EventInv'
<1>1. /\ \/ pc[f] = "opened"
         \/ cpu = NULL /\ pc[f] = "kmalloc" /\ "w" \notin fs[f].modes
      /\ acc' = [acc EXCEPT !.writers = @ + IF "w" \in fs[f].modes THEN 1 ELSE 0,
                            !.readers = @ + IF "r" \in fs[f].modes THEN 1 ELSE 0,
                            !.open_count = @ + 1]
      /\ cpu' = NULL /\ pc' = [pc EXCEPT ![f] = "user"]
      /\ UNCHANGED << fs, trig, mask, events, ret, put, sent >>
  BY DEF libera_event_open
<1>2. /\ acc' \in Access /\ acc'.master = acc.master
      /\ acc'.writers = acc.writers + IF "w" \in fs[f].modes THEN 1 ELSE 0
      /\ pc'[f] = "user" /\ \A g \in Files : g # f => pc'[g] = pc[g]
  <2> DEFINE w == IF "w" \in fs[f].modes THEN 1 ELSE 0
             r == IF "r" \in fs[f].modes THEN 1 ELSE 0
  <2>1. w \in Int /\ r \in Int
    OBVIOUS
  <2>2. acc' = [acc EXCEPT !.writers = @ + w, !.readers = @ + r, !.open_count = @ + 1]
    BY <1>1
  <2> HIDE DEF w, r
  <2>3. acc' \in Access /\ acc'.master = acc.master /\ acc'.writers = acc.writers + w
    <3> DEFINE one == [acc EXCEPT !.writers = @ + w]
               two == [one EXCEPT !.readers = @ + r]
    <3>1. one \in Access /\ one.master = acc.master /\ one.writers = acc.writers + w
      BY <2>1, FileFacts DEF Access
    <3>2. acc' = [two EXCEPT !.open_count = @ + 1]
      BY <2>2
    <3> HIDE DEF one
    <3>3. two \in Access /\ two.master = one.master /\ two.writers = one.writers
      BY <2>1, <3>1 DEF Access
    <3> HIDE DEF two
    <3> QED
      BY <3>1, <3>2, <3>3 DEF Access
  <2> QED
    BY <1>1, <2>3, FileFacts DEF w
<1>3. pc[f] \in {"opened", "kmalloc"} /\ (cpu = NULL \/ pc[f] \in Kernel)
  BY <1>1 DEF Kernel
<1>4. EventTypes' /\ CpuRuns'
  <2>1. "user" \in Sleeping /\ "user" \notin Sending /\ "user" \notin Kernel
        /\ "user" \notin Flushing
    BY DEF Kernel, Flushing, Sending, Sleeping
  <2>2. /\ fs' \in [Files -> {NULL} \cup Locals] /\ fs'[f] \in Locals
        /\ ret' \in [Files -> {"user", "opened", "kfree", "flushed"}]
        /\ \A g \in Files : g # f => fs'[g] = fs[g] /\ ret'[g] = ret[g]
    BY <1>1, <1>3, FileFacts
  <2>3. trig' \in TriggerVectors /\ events' \in EventFIFOs /\ UNCHANGED << world, sent, put >>
    BY <1>1, FileFacts
  <2> QED
    BY <1>1, <1>2, <1>3, <2>1, <2>2, <2>3, MovesOne
<1>5. \A g \in Files : g # f => /\ Writes(g)' <=> Writes(g)
                                /\ Uncounted(g)' <=> Uncounted(g)
                                /\ IsOpen(g)' <=> IsOpen(g)
  BY <1>1, <1>2 DEF Writes, Uncounted, Leaving, IsOpen
<1>6. MasterCounted'
  <2>1. CASE pc[f] = "opened"
    <3>1. /\ Uncounted(f) /\ ~Uncounted(f)'
          /\ (Writes(f) <=> "w" \in fs[f].modes) /\ (Writes(f)' <=> Writes(f))
      BY <1>1, <1>2, <2>1 DEF Writes, Uncounted, Leaving, IsOpen, Flushing
    <3>2. Writes(f) <=> acc.master = f
      BY DEF EventInv, MasterCounted
    <3>3. \A g \in Files : Writes(g)' <=> acc'.master = g
      BY <1>2, <1>5, <3>1 DEF EventInv, MasterCounted
    <3>4. CASE acc.master = f
      BY <1>2, <3>1, <3>2, <3>3, <3>4, FileFacts DEF EventInv, MasterCounted
    <3>5. CASE acc.master # f
      <4>1. acc'.writers = acc.writers
        BY <1>2, <3>1, <3>2, <3>5, FileFacts DEF Access
      <4> QED
        BY <1>2, <1>5, <3>3, <3>5, <4>1, FileFacts DEF EventInv, MasterCounted
    <3> QED
      BY <3>4, <3>5
  <2>2. CASE pc[f] = "kmalloc"
    <3>1. ~Writes(f) /\ ~Writes(f)' /\ acc.master # f
      BY <1>1, <1>2, <2>2 DEF Writes, IsOpen, EventInv, MasterCounted
    <3>2. acc'.writers = acc.writers
      BY <1>1, <1>2, <2>2, FileFacts DEF Access
    <3> QED
      BY <1>2, <1>5, <3>1, <3>2, FileFacts DEF EventInv, MasterCounted
  <2> QED
    BY <1>3, <2>1, <2>2
<1>7. QueueFlushed'
  BY <1>1, <1>2, <1>3 DEF EventInv, QueueFlushed, Empty, Flushing, Sending
<1>8. TriggersKept'
  <2>1. pc[f] = "kmalloc" => fs[f].sc = {} /\ fs[f].mc = {}
    BY DEF EventInv, TriggersKept
  <2>2. pc[f] = "opened" => IsOpen(f) /\ pc[f] # "kfree"
    BY DEF IsOpen
  <2> QED
    BY <1>1, <1>2, <1>3, <1>5, <2>1, <2>2 DEF EventInv, TriggersKept, TriggersOwned
<1> QED
  BY <1>4, <1>6, <1>7, <1>8 DEF EventInv

(* release() up to its first flush, with the triggers of a reader given     *)
(* back.  A writer is the only one, so that it goes on as the last.         *)
LEMMA ReleaseStep ==
    ASSUME EventInv, UNCHANGED world, NEW f \in Files, libera_event_release(f)
    PROVE  EventInv'
<1> DEFINE w == IF "w" \in fs[f].modes THEN 1 ELSE 0
           r == IF "r" \in fs[f].modes THEN 1 ELSE 0
<1>1. /\ cpu = NULL /\ pc[f] = "user" /\ cpu' = f
      /\ acc' = [acc EXCEPT !.open_count = @ - 1, !.writers = acc.writers - w,
                            !.readers = @ - r]
      /\ trig' = ClearTriggers(f)
      /\ pc' = [pc EXCEPT ![f] = IF "w" \in fs[f].modes /\ acc.writers - w = 0
                                 THEN "last" ELSE "kfree"]
      /\ UNCHANGED << fs, mask, events, ret, put, sent >>
  BY DEF libera_event_release
<1>2. w \in Int /\ r \in Int /\ fs[f] \in Locals
  BY <1>1, FileFacts
<1>3. acc' \in Access /\ acc'.master = acc.master /\ acc'.writers = acc.writers - w
  <2> HIDE DEF w, r
  <2> DEFINE one == [acc EXCEPT !.open_count = @ - 1]
             two == [one EXCEPT !.writers = acc.writers - w]
  <2>1. one \in Access /\ one.master = acc.master
    BY FileFacts DEF Access
  <2>2. acc' = [two EXCEPT !.readers = @ - r]
    BY <1>1
  <2> HIDE DEF one
  <2>3. two \in Access /\ two.master = one.master /\ two.writers = acc.writers - w
    BY <1>2, <2>1, FileFacts DEF Access
  <2> HIDE DEF two
  <2> QED
    BY <1>2, <2>1, <2>2, <2>3 DEF Access
<1>4. Writes(f) <=> "w" \in fs[f].modes
  BY <1>1 DEF Writes, IsOpen, Leaving, Flushing
<1>5. "w" \in fs[f].modes => acc.master = f /\ acc.writers = 1
  <2>1. ~Uncounted(f)
    BY <1>1 DEF Uncounted, Flushing
  <2> QED
    BY <1>4, <2>1, FileFacts DEF EventInv, MasterCounted
<1> DEFINE p == IF "w" \in fs[f].modes THEN "last" ELSE "kfree"
<1>6. pc' = [pc EXCEPT ![f] = p]
  <2>1. "w" \in fs[f].modes => acc.writers - w = 0
    BY <1>5
  <2>2. (IF "w" \in fs[f].modes /\ acc.writers - w = 0 THEN "last" ELSE "kfree") = p
    BY <2>1
  <2> HIDE DEF w, p
  <2> QED
    BY <1>1, <2>2
<1>7. p \in {"last", "kfree"} /\ p \in Kernel /\ p \notin Sending /\ p \notin Flushing
  BY DEF Kernel, Sending, Flushing
<1>8. pc'[f] = p /\ \A g \in Files : g # f => pc'[g] = pc[g]
  BY <1>6, FileFacts
<1>9. /\ trig' \in TriggerVectors
      /\ \/ trig' = trig
         \/ /\ "w" \notin fs[f].modes
            /\ trig'.sc = trig.sc \ fs[f].sc /\ trig'.mc = trig.mc \ fs[f].mc
            /\ trig'.T_SC_TRIGGER_MASK = trig'.sc /\ trig'.T_MC_TRIGGER_MASK = trig'.mc
  BY <1>1, FileFacts DEF ClearTriggers, TriggerVectors, TriggerSets
<1>10. EventTypes' /\ CpuRuns'
  <2>1. /\ fs' \in [Files -> {NULL} \cup Locals] /\ fs'[f] \in Locals
        /\ p = "last" => "w" \in fs'[f].modes
        /\ ret' \in [Files -> {"user", "opened", "kfree", "flushed"}]
        /\ \A g \in Files : g # f => fs'[g] = fs[g] /\ ret'[g] = ret[g]
    BY <1>1, <1>2, FileFacts
  <2>2. /\ events' \in EventFIFOs /\ UNCHANGED << world, sent, put >>
        /\ cpu' = IF p \in Kernel THEN f ELSE NULL
    BY <1>1, <1>7, FileFacts
  <2> HIDE DEF p
  <2> QED
    BY <1>1, <1>3, <1>6, <1>7, <1>9, <2>1, <2>2, MovesOne
<1>11. \A g \in Files : g # f => /\ Writes(g)' <=> Writes(g)
                                 /\ Uncounted(g)' <=> Uncounted(g)
                                 /\ IsOpen(g)' <=> IsOpen(g)
  BY <1>1, <1>8 DEF Writes, Uncounted, Leaving, IsOpen
<1>12. MasterCounted'
  <2>1. CASE "w" \in fs[f].modes
    <3>1. Writes(f)' /\ Uncounted(f)'
      <4>1. pc'[f] = "last" /\ fs' = fs
        BY <1>1, <1>8, <2>1
      <4> QED
        BY <2>1, <4>1 DEF Writes, Uncounted, Leaving, IsOpen, Flushing
    <3>2. acc'.writers = 0
      BY <1>3, <1>5, <2>1
    <3> QED
      BY <1>3, <1>5, <1>11, <2>1, <3>1, <3>2 DEF EventInv, MasterCounted
  <2>2. CASE "w" \notin fs[f].modes
    <3>1. ~Writes(f)' /\ acc.master # f
      BY <1>1, <1>4, <2>2 DEF Writes, EventInv, MasterCounted
    <3>2. acc'.writers = acc.writers
      BY <1>3, <2>2, FileFacts DEF Access
    <3> QED
      BY <1>3, <1>11, <3>1, <3>2, FileFacts DEF EventInv, MasterCounted
  <2> QED
    BY <2>1, <2>2
<1>13. QueueFlushed'
  BY <1>1, <1>3, <1>7, <1>8 DEF EventInv, QueueFlushed, Empty, Flushing
<1>14. TriggersKept'
  <2>1. /\ trig.T_SC_TRIGGER_MASK = trig.sc /\ trig.T_MC_TRIGGER_MASK = trig.mc
        /\ IsOpen(f) /\ IsOpen(f)'
    BY <1>1, <1>8 DEF IsOpen, EventInv, TriggersKept
  <2>2. /\ trig'.T_SC_TRIGGER_MASK = trig'.sc /\ trig'.T_MC_TRIGGER_MASK = trig'.mc
    BY <1>9, <2>1
  <2>3. \A g, h \in Files : g # h /\ IsOpen(g) /\ IsOpen(h) =>
          fs[g].sc \cap fs[h].sc = {} /\ fs[g].mc \cap fs[h].mc = {}
    BY DEF EventInv, TriggersKept, TriggersOwned
  <2>4. \A g \in Files : IsOpen(g)' /\ pc'[g] # "kfree" =>
          fs[g].sc \subseteq trig'.sc /\ fs[g].mc \subseteq trig'.mc
    <3> SUFFICES ASSUME NEW g \in Files, IsOpen(g)', pc'[g] # "kfree"
                 PROVE  fs[g].sc \subseteq trig'.sc /\ fs[g].mc \subseteq trig'.mc
      OBVIOUS
    <3>1. IsOpen(g) /\ pc[g] # "kfree"
      BY <1>1, <1>8, <1>11, <2>1
    <3>2. fs[g].sc \subseteq trig.sc /\ fs[g].mc \subseteq trig.mc
      BY <2>1, <3>1 DEF EventInv, TriggersKept, TriggersOwned
    <3>3. CASE trig' = trig
      BY <3>2, <3>3
    <3>4. CASE /\ "w" \notin fs[f].modes
               /\ trig'.sc = trig.sc \ fs[f].sc /\ trig'.mc = trig.mc \ fs[f].mc
      <4>1. g # f
        BY <1>8, <3>4
      <4>2. fs[g].sc \cap fs[f].sc = {} /\ fs[g].mc \cap fs[f].mc = {}
        BY <2>1, <2>3, <3>1, <4>1
      <4> QED
        BY <3>2, <3>4, <4>2
    <3> QED
      BY <1>9, <3>3, <3>4
  <2>5. TriggersOwned'
    BY <1>1, <1>11, <2>1, <2>2, <2>3, <2>4 DEF TriggersOwned
  <2>6. \A g \in Files : pc'[g] = "kmalloc" => fs'[g].sc = {} /\ fs'[g].mc = {}
    BY <1>1, <1>7, <1>8 DEF EventInv, TriggersKept
  <2> QED
    BY <2>2, <2>5, <2>6 DEF TriggersKept
<1> QED
  BY <1>10, <1>12, <1>13, <1>14 DEF EventInv

(* The last writer leaves no master and no event enabled. *)
LEMMA LastStep ==
    ASSUME EventInv, UNCHANGED world, NEW f \in Files, ReleaseMaster(f)
    PROVE  EventInv'
<1>1. /\ pc[f] = "last" /\ acc' = [acc EXCEPT !.master = NULL] /\ mask' = {}
      /\ pc' = [pc EXCEPT ![f] = "flush"] /\ ret' = [ret EXCEPT ![f] = "kfree"]
      /\ UNCHANGED << fs, trig, events, cpu, put, sent >>
  BY DEF ReleaseMaster, LastWriter
<1>2. /\ acc' \in Access /\ acc'.master = NULL /\ acc'.writers = acc.writers
      /\ pc'[f] = "flush" /\ ret'[f] = "kfree"
      /\ ret' \in [Files -> {"user", "opened", "kfree", "flushed"}]
      /\ \A g \in Files : g # f => pc'[g] = pc[g] /\ ret'[g] = ret[g]
  BY <1>1, FileFacts DEF Access
<1>3. pc[f] \in Kernel /\ cpu = f
  BY <1>1, FileFacts DEF Kernel
<1>4. EventTypes' /\ CpuRuns'
  <2>1. "flush" \in Kernel /\ "flush" \notin Sending
    BY DEF Kernel, Flushing, Sending
  <2>2. /\ fs' \in [Files -> {NULL} \cup Locals] /\ fs'[f] \in Locals
        /\ \A g \in Files : g # f => fs'[g] = fs[g] /\ ret'[g] = ret[g]
    BY <1>1, <1>2, FileFacts
  <2>3. /\ trig' \in TriggerVectors /\ events' \in EventFIFOs
        /\ UNCHANGED << world, sent, put >> /\ cpu' = f
    BY <1>1, <1>3, FileFacts
  <2> QED
    BY <1>1, <1>2, <1>3, <2>1, <2>2, <2>3, MovesOne
<1>5. \A g \in Files : g # f => pc[g] \notin Kernel
  BY <1>3, OthersSleep
<1>6. \A g \in Files : g # f => /\ Writes(g)' <=> Writes(g)
                                /\ IsOpen(g)' <=> IsOpen(g)
  BY <1>1, <1>2 DEF Writes, Leaving, IsOpen
<1>7. ~Writes(f)' /\ Uncounted(f) /\ (Writes(f) <=> "w" \in fs[f].modes)
  BY <1>1, <1>2 DEF Writes, Uncounted, Leaving, IsOpen, Flushing
<1>8. MasterCounted'
  <2>1. acc.master = f /\ acc.writers = 0
    <3>1. acc.master = f
      BY <1>1, <1>7 DEF EventInv, CpuRuns, MasterCounted
    <3> QED
      BY <1>7, <3>1, FileFacts DEF EventInv, MasterCounted
  <2>2. \A g \in Files : ~Writes(g)'
    BY <1>6, <1>7, <2>1, FileFacts DEF EventInv, MasterCounted
  <2> QED
    BY <1>2, <2>1, <2>2, FileFacts DEF MasterCounted
<1>9. QueueFlushed'
  BY <1>1, <1>2, <1>5 DEF QueueFlushed, Flushing, Sending, Kernel
<1>10. TriggersKept'
  BY <1>1, <1>2, <1>6 DEF EventInv, TriggersKept, TriggersOwned, IsOpen
<1> QED
  BY <1>4, <1>8, <1>9, <1>10 DEF EventInv

-----------------------------------------------------------------------------
(* Nothing happens. *)
LEMMA EventStutters ==
    ASSUME EventInv, UNCHANGED vars
    PROVE  EventInv'
  BY DEF EventInv, vars, EventTypes, CpuRuns, MasterCounted, QueueFlushed, TriggersKept,
     Writes, Uncounted, Leaving, IsOpen, TriggersOwned, Empty

(* Every step keeps the invariant. *)
LEMMA NextKeepsEventInv == EventInv /\ [Next]_vars => EventInv'
<1> SUFFICES ASSUME EventInv, [Next]_vars PROVE EventInv'
  OBVIOUS
<1>1. CASE UNCHANGED vars
  BY <1>1, EventStutters
<1>2. CASE Next
  <2>1. UNCHANGED world /\ world.files \subseteq Files /\ world.triggers \subseteq Triggers
    BY <1>2, FilesOfWorld DEF Next, EventInv
  <2>2. CASE Interrupt
    BY <2>1, <2>2, InterruptStep
  <2>3. ASSUME NEW f \in world.files,
               StartSend(f) \/ StoreEvent(f) \/ AdvancePut(f) \/ Flushed(f)
        PROVE  EventInv'
    BY <2>1, <2>3, SendSteps
  <2>4. ASSUME NEW f \in world.files, flush_eventFIFO(f) \/ FLUSH(f)
        PROVE  EventInv'
    BY <2>1, <2>4, FlushSteps
  <2>5. ASSUME NEW f \in world.files, OpenLock(f) \/ OpenFails(f) \/ Closed(f)
        PROVE  EventInv'
    BY <2>1, <2>5, ClosedSteps
  <2>6. ASSUME NEW f \in world.files, OpenAsMaster(f) PROVE EventInv'
    BY <2>1, <2>6, MasterStep
  <2>7. ASSUME NEW f \in world.files, libera_event_open(f) PROVE EventInv'
    BY <2>1, <2>7, OpenStep
  <2>8. ASSUME NEW f \in world.files, libera_event_release(f) PROVE EventInv'
    BY <2>1, <2>8, ReleaseStep
  <2>9. ASSUME NEW f \in world.files, ReleaseMaster(f) PROVE EventInv'
    BY <2>1, <2>9, LastStep
  <2>10. ASSUME NEW f \in world.files, NEW side \in Sides,
                NEW arg \in SUBSET world.triggers, ENABLE_TRIG(f, side, arg)
         PROVE  EventInv'
    BY <2>1, <2>10, TriggerStep
  <2>11. ASSUME NEW f \in world.files, SET_MASK(f) PROVE EventInv'
    BY <2>1, <2>11, MaskStep
  <2>12. ASSUME NEW f \in world.files,
                \/ ReadCall(f) \/ LockInterrupted(f) \/ ReadLock(f) \/ ReadAgain(f)
                \/ Prepare(f) \/ Recheck(f) \/ Relock(f) \/ Interrupted(f)
                \/ Count(f) \/ getFrom_eventFIFO(f) \/ ReadReturns(f) \/ CopyFails(f)
                \/ Copied(f) \/ libera_event_poll(f) \/ PollReturns(f)
         PROVE  EventInv'
    BY <2>1, <2>12, ReadSteps
  <2> QED
    BY <1>2, <2>2, <2>3, <2>4, <2>5, <2>6, <2>7, <2>8, <2>9, <2>10, <2>11, <2>12 DEF Next
<1> QED
  BY <1>1, <1>2

(* Places, files, master, FIFO and triggers keep what they owe each other,  *)
(* though only open() locks and interrupts come at every step.              *)
THEOREM EventConsistent == Spec => []EventInv
  BY InitEventInv, NextKeepsEventInv, PTL DEF Spec

(* ENABLE_TRIG and libera_event_release: a trigger that a file enabled      *)
(* stays enabled while the file is open, and is nobody else's, for any      *)
(* files and triggers.                                                      *)
THEOREM TriggersAlwaysOwned == Spec => []TriggersOwned
<1>1. EventInv => TriggersOwned
  BY DEF EventInv, TriggersKept
<1> QED
  BY <1>1, EventConsistent, PTL

(* libera_event_open and libera_event_release: whenever no process is in    *)
(* the kernel, the master is the one open writer, and without a master no   *)
(* event is enabled and none is queued.                                     *)
THEOREM QueueAlwaysHasMaster == Spec => []QueueHasMaster
<1>1. EventInv => QueueHasMaster
  <2> SUFFICES ASSUME EventInv, cpu = NULL
               PROVE  /\ acc.master # NULL <=> \E f \in Files : IsOpen(f) /\ "w" \in fs[f].modes
                      /\ acc.master = NULL => mask = {} /\ Empty
    BY DEF QueueHasMaster
  <2>1. \A f \in Files : pc[f] \notin Kernel
    BY EventAssumption DEF EventInv, CpuRuns
  <2>2. \A f \in Files : ~Leaving(f) /\ pc[f] \notin Flushing
    BY <2>1 DEF Leaving, Kernel
  <2>3. acc.master \in Files \cup {NULL} /\ NULL \notin Files
    BY EventAssumption DEF EventInv, EventTypes, Access
  <2>4. acc.master # NULL <=> \E f \in Files : IsOpen(f) /\ "w" \in fs[f].modes
    BY <2>2, <2>3 DEF EventInv, MasterCounted, Writes
  <2> QED
    BY <2>2, <2>4 DEF EventInv, QueueFlushed
<1> QED
  BY <1>1, EventConsistent, PTL

(* release() and open() with the counts: at most one file is open for       *)
(* writing, so that the triggers, the mask and the FIFO have one owner.     *)
THEOREM OneWriter ==
    Spec => [](\A f, g \in Files : Writes(f) /\ Writes(g) => f = g)
<1>1. EventInv => \A f, g \in Files : Writes(f) /\ Writes(g) => f = g
  BY DEF EventInv, MasterCounted
<1> QED
  BY <1>1, EventConsistent, PTL

-----------------------------------------------------------------------------
(* Who waits for an event is asleep or has been woken up, and a flush, once *)
(* begun, has the processor until it has emptied the FIFO.                  *)
NobodyOverslept ==
    /\ waits \in [Files -> {"off", "asleep", "woken"}]
    /\ \A f \in Files : pc[f] \in {"recheck", "schedule", "poll"} => waits[f] # "off"
    /\ \A f \in Files : pc[f] = "flush put" => events.get = 0
    /\ (\A f \in Files : pc[f] # "flush put") /\ ~Empty =>
         \A f \in Files : pc[f] \in {"schedule", "poll"} => waits[f] = "woken"

(* Nobody sleeps and nothing is queued. *)
LEMMA InitNobodyOverslept == Init => NobodyOverslept
  BY DEF Init, NobodyOverslept, Empty

(* A step of a call that neither waits nor moves the FIFO.                  *)
LEMMA AwakeStep ==
    ASSUME EventInv, NobodyOverslept, NEW f \in Files,
           NEW p \in (Kernel \cup Sleeping) \ {"recheck", "schedule", "poll", "flush put"},
           pc[f] # "flush put", pc' = [pc EXCEPT ![f] = p],
           events'.put = events.put, events'.get = events.get,
           waits' = waits \/ waits' = [waits EXCEPT ![f] = "off"]
    PROVE  NobodyOverslept'
  BY DEF EventInv, EventTypes, NobodyOverslept, Empty

(* The calls that neither read nor poll. *)
LEMMA PlainSteps ==
    ASSUME EventInv, NobodyOverslept, NEW f \in Files,
           \/ StartSend(f) \/ StoreEvent(f) \/ OpenLock(f) \/ OpenFails(f)
           \/ OpenAsMaster(f) \/ libera_event_open(f) \/ libera_event_release(f)
           \/ ReleaseMaster(f) \/ Closed(f) \/ FLUSH(f) \/ Flushed(f)
    PROVE  NobodyOverslept'
<1>1. events \in EventFIFOs
  BY DEF EventInv, EventTypes
<1>2. events'.put = events.put /\ events'.get = events.get /\ waits' = waits
  BY <1>1 DEF EventFIFOs, StartSend, StoreEvent, OpenLock, OpenFails, OpenAsMaster,
     libera_event_open, libera_event_release, ReleaseMaster, LastWriter, Closed, FLUSH, Flushed
<1>3. pc[f] # "flush put"
  BY DEF StartSend, StoreEvent, OpenLock, OpenFails, OpenAsMaster,
     libera_event_open, libera_event_release, ReleaseMaster, LastWriter, Closed, FLUSH,
     Flushed, InUser
<1>4. PICK p \in {"wake", "data", "put", "kmalloc", "closed", "flush", "user", "last", "kfree"} :
          pc' = [pc EXCEPT ![f] = p]
  BY DEF StartSend, StoreEvent, OpenLock, OpenFails, OpenAsMaster,
     libera_event_open, libera_event_release, ReleaseMaster, LastWriter, Closed, FLUSH, Flushed
<1> QED
  BY <1>2, <1>3, <1>4, AwakeStep DEF Kernel, Sleeping, Sending, Flushing

(* The steps of a read or a poll outside the queue EVENT_queue. *)
LEMMA BusyReadSteps ==
    ASSUME EventInv, NobodyOverslept, NEW f \in Files,
           \/ ReadCall(f) \/ LockInterrupted(f) \/ ReadLock(f) \/ ReadAgain(f)
           \/ Relock(f) \/ Interrupted(f) \/ Count(f) \/ ReadReturns(f)
           \/ CopyFails(f) \/ Copied(f) \/ PollReturns(f)
    PROVE  NobodyOverslept'
<1>1. events' = events /\ (waits' = waits \/ waits' = [waits EXCEPT ![f] = "off"])
  BY DEF ReadCall, LockInterrupted, ReadLock, ReadAgain, Relock, Interrupted, Count,
     ReadReturns, CopyFails, Copied, PollReturns, Return
<1>2. pc[f] # "flush put"
  BY DEF ReadCall, LockInterrupted, ReadLock, ReadAgain, Relock, Interrupted, Count,
     ReadReturns, CopyFails, Copied, PollReturns, InUser
<1>3. PICK p \in {"lock", "user", "prepare", "count", "get"} : pc' = [pc EXCEPT ![f] = p]
  BY DEF ReadCall, LockInterrupted, ReadLock, ReadAgain, Relock, Interrupted, Count,
     ReadReturns, CopyFails, Copied, PollReturns, Return
<1> QED
  BY <1>1, <1>2, <1>3, AwakeStep DEF Kernel, Sleeping

(* The steps that go to sleep, wake up or move the FIFO.                    *)
LEMMA QueueSteps ==
    ASSUME EventInv, NobodyOverslept, NEW f \in Files,
           \/ AdvancePut(f) \/ flush_eventFIFO(f) \/ Prepare(f) \/ Recheck(f)
           \/ getFrom_eventFIFO(f) \/ libera_event_poll(f)
    PROVE  NobodyOverslept'
<1> USE DEF NobodyOverslept
<1>1. /\ pc \in [Files -> Kernel \cup Sleeping] /\ events \in EventFIFOs
      /\ ret \in [Files -> {"user", "opened", "kfree", "flushed"}]
  BY DEF EventInv, EventTypes
<1>2. CASE AdvancePut(f)
  <2>1. /\ pc' = [pc EXCEPT ![f] = "user"] /\ pc[f] \in {"put", "wake"}
        /\ waits' = [g \in Files |-> IF waits[g] = "asleep" THEN "woken" ELSE waits[g]]
        /\ events'.get = events.get
    BY <1>1, <1>2 DEF AdvancePut, WakeUp, EventFIFOs
  <2> QED
    BY <1>1, <2>1 DEF Empty
<1>3. CASE flush_eventFIFO(f)
  <2>1. CASE pc[f] = "flush"
    <3>1. /\ pc' = [pc EXCEPT ![f] = "flush put"] /\ events'.get = 0 /\ waits' = waits
      BY <1>1, <1>3, <2>1 DEF flush_eventFIFO, EventFIFOs
    <3> QED
      BY <1>1, <3>1
  <2>2. CASE pc[f] = "flush put"
    <3>1. /\ pc' = [pc EXCEPT ![f] = ret[f]] /\ events'.get = 0 /\ events'.put = 0
          /\ waits' = waits
      BY <1>1, <1>3, <2>2 DEF flush_eventFIFO, EventFIFOs
    <3> QED
      BY <1>1, <3>1 DEF Empty
  <2> QED
    BY <1>3, <2>1, <2>2 DEF flush_eventFIFO
<1>4. CASE Prepare(f) \/ Recheck(f) \/ libera_event_poll(f)
  <2>1. events' = events /\ (pc[f] # "flush put")
    BY <1>4 DEF Prepare, Recheck, libera_event_poll, InUser
  <2>2. CASE Prepare(f)
    BY <1>1, <2>1, <2>2 DEF Prepare, Empty
  <2>3. CASE Recheck(f)
    BY <1>1, <2>1, <2>3 DEF Recheck, Empty
  <2>4. CASE libera_event_poll(f)
    BY <1>1, <2>1, <2>4 DEF libera_event_poll, Empty
  <2> QED
    BY <1>4, <2>2, <2>3, <2>4
<1>5. CASE getFrom_eventFIFO(f)
  <2>1. pc[f] = "get" /\ ~Empty /\ waits' = waits /\ pc' = [pc EXCEPT ![f] = "copy"]
    BY <1>5 DEF getFrom_eventFIFO
  <2>2. \A g \in Files : pc[g] # "flush put"
    BY <2>1, OthersSleep DEF Kernel, Flushing
  <2> QED
    BY <1>1, <2>1, <2>2
<1> QED
  BY <1>2, <1>3, <1>4, <1>5

(* An interrupt wakes whom it queues an event for. *)
LEMMA InterruptWakes ==
    ASSUME EventInv, NobodyOverslept, Interrupt
    PROVE  NobodyOverslept'
<1>1. events \in EventFIFOs
  BY DEF EventInv, EventTypes
<1>2. pc' = pc /\ events'.get = events.get
  BY <1>1 DEF Interrupt, EventFIFOs
<1>3. waits' = [g \in Files |-> IF waits[g] = "asleep" THEN "woken" ELSE waits[g]]
  BY DEF Interrupt, WakeUp
<1> QED
  BY <1>2, <1>3 DEF NobodyOverslept, Empty

(* Every step keeps it. *)
LEMMA NextKeepsAwake ==
    EventInv /\ NobodyOverslept /\ [Next]_vars => NobodyOverslept'
<1> SUFFICES ASSUME EventInv, NobodyOverslept, [Next]_vars PROVE NobodyOverslept'
  OBVIOUS
<1>1. CASE UNCHANGED vars
  BY <1>1 DEF vars, NobodyOverslept, Empty
<1>2. CASE Next
  <2>1. world.files \subseteq Files
    BY FilesOfWorld DEF EventInv
  <2>2. CASE \E f \in world.files :
               (\E side \in Sides, arg \in SUBSET world.triggers : ENABLE_TRIG(f, side, arg))
               \/ SET_MASK(f)
    <3>1. UNCHANGED << pc, waits, events >>
      BY <2>2 DEF ENABLE_TRIG, Enabling, SET_MASK
    <3> QED
      BY <3>1 DEF NobodyOverslept, Empty
  <2> QED
    BY <1>2, <2>1, <2>2, InterruptWakes, PlainSteps, BusyReadSteps, QueueSteps DEF Next
<1> QED
  BY <1>1, <1>2

(* libera_event_read and libera_event_poll against putTo_eventFIFO: who     *)
(* sleeps on EVENT_queue while an event is queued has been woken up,        *)
(* whatever came between the test of the FIFO and schedule().               *)
THEOREM EventWakeupNeverLost == Spec => []NoLostWakeup
<1>1. EventInv /\ NobodyOverslept => NoLostWakeup
  <2> SUFFICES ASSUME EventInv, NobodyOverslept, cpu = NULL, ~Empty,
                      NEW f \in Files, pc[f] \in {"schedule", "poll"}
               PROVE  waits[f] = "woken"
    BY DEF NoLostWakeup
  <2>1. \A g \in Files : pc[g] # "flush put"
    BY EventAssumption DEF EventInv, CpuRuns, Kernel, Flushing
  <2> QED
    BY <2>1 DEF NobodyOverslept
<1> QED
  BY <1>1, InitNobodyOverslept, NextKeepsAwake, EventConsistent, PTL DEF Spec

-----------------------------------------------------------------------------
(* The events in the FIFO *)

(* The place n behind the entry that was taken last, and the number of       *)
(* places from an index to another.                                          *)
Behind(g, n) == IF g + n < TRIG_LOG THEN g + n ELSE g + n - TRIG_LOG
Places(g, p) == IF g <= p THEN p - g ELSE p - g + TRIG_LOG

(* The first n entries come in the order of libera_send_event, all after l   *)
(* and none after s.                                                         *)
Rising(d, g, n, l, s) ==
    /\ \A k \in 1 .. n : l < d[Behind(g, k)] /\ d[Behind(g, k)] <= s
    /\ \A j, k \in 1 .. n : j < k => d[Behind(g, j)] < d[Behind(g, k)]

(* An event that may be stored as the m-th.                                  *)
Fits(d, g, n, m, e) ==
    \A k \in 1 .. n : /\ k < m => d[Behind(g, k)] < e
                      /\ k > m => e < d[Behind(g, k)]

(* What has not been read, in order and after what has been.                 *)
Length == Places(events.get, events.put)
InOrder(n) == Rising(events.data, events.get, n, last, sent)

(* How far behind get the entry of a put is: interrupts that cut it may have *)
(* used the same entry, and others behind it.                                *)
Place(f) == Places(events.get, put[f].index)

Storing(f) ==
    /\ Place(f) \in 1 .. Length + 1
    /\ last < put[f].event /\ put[f].event <= sent
    /\ Fits(events.data, events.get, Length, Place(f), put[f].event)

Stored(f) == Place(f) \in 1 .. Length + 1 /\ InOrder(Place(f))

QueueOrdered ==
    /\ last \in Nat /\ last <= sent
    /\ (\A f \in Files : pc[f] # "flush put") => InOrder(Length)
    /\ \A f \in Files : pc[f] = "data" => Storing(f)
    /\ \A f \in Files : pc[f] = "put" => Stored(f)

-----------------------------------------------------------------------------
(* Places of the ring                                                        *)

(* Index is one further, or the first one again. *)
LEMMA IndexIs ==
    ASSUME NEW i \in Ring
    PROVE  Index(i) = IF i = TRIG_LOG - 1 THEN 0 ELSE i + 1
<1>1. TRIG_LOG \in Nat \ {0} /\ i + 1 \in 1 .. TRIG_LOG
  BY EventAssumption DEF Ring
<1>2. \A n \in Nat \ {0} : \A a \in 0 .. n - 1 : a % n = a
  OBVIOUS
<1>3. \A n \in Nat \ {0} : n % n = 0
  OBVIOUS
<1>4. CASE i = TRIG_LOG - 1
  <2>1. i + 1 = TRIG_LOG
    BY <1>1, <1>4
  <2>2. TRIG_LOG % TRIG_LOG = 0
    BY <1>1, <1>3
  <2> QED
    BY <1>4, <2>1, <2>2 DEF Index
<1>5. CASE i # TRIG_LOG - 1
  <2>1. i + 1 \in 0 .. TRIG_LOG - 1
    BY <1>1, <1>5 DEF Ring
  <2>2. (i + 1) % TRIG_LOG = i + 1
    BY <1>1, <1>2, <2>1
  <2> QED
    BY <1>5, <2>2 DEF Index
<1> QED
  BY <1>4, <1>5

(* Places and entries belong together. *)
LEMMA PlacesOfRing ==
    ASSUME NEW g \in Ring, NEW p \in Ring
    PROVE  /\ Places(g, p) \in 0 .. TRIG_LOG - 1 /\ Behind(g, Places(g, p)) = p
           /\ Places(g, p) = 0 <=> p = g
           /\ \A n \in 0 .. TRIG_LOG - 1 : Behind(g, n) \in Ring /\ Places(g, Behind(g, n)) = n
  BY EventAssumption DEF Places, Behind, Ring

(* Two entries are not the same. *)
LEMMA EntriesApart ==
    ASSUME NEW g \in Ring, NEW j \in 0 .. TRIG_LOG - 1, NEW k \in 0 .. TRIG_LOG - 1, j # k
    PROVE  Behind(g, j) # Behind(g, k)
  BY EventAssumption DEF Behind, Ring

(* A put goes one place further, if the FIFO is not full.                    *)
LEMMA PutsBehind ==
    ASSUME NEW g \in Ring, NEW p \in Ring, Index(p) # g
    PROVE  /\ Places(g, Index(p)) = Places(g, p) + 1
           /\ Places(g, p) + 1 \in 1 .. TRIG_LOG - 1
           /\ Behind(g, Places(g, p) + 1) = Index(p)
<1>1. Index(p) = IF p = TRIG_LOG - 1 THEN 0 ELSE p + 1
  BY IndexIs
<1> DEFINE i == Index(p)
<1> HIDE DEF i
<1>2. i = IF p = TRIG_LOG - 1 THEN 0 ELSE p + 1
  BY <1>1 DEF i
<1>3. i # g
  BY DEF i
<1>4. /\ Places(g, i) = Places(g, p) + 1
      /\ Places(g, p) + 1 \in 1 .. TRIG_LOG - 1
      /\ Behind(g, Places(g, p) + 1) = i
  BY <1>2, <1>3, EventAssumption DEF Places, Behind, Ring
<1> QED
  BY <1>4 DEF i

(* A get brings every entry one place nearer.                                *)
LEMMA GetsNearer ==
    ASSUME NEW g \in Ring, NEW p \in Ring, p # g
    PROVE  /\ Behind(g, 1) = Index(g)
           /\ Places(Index(g), p) = Places(g, p) - 1 /\ Places(g, p) >= 1
           /\ \A n \in 0 .. TRIG_LOG - 2 : Behind(Index(g), n) = Behind(g, n + 1)
<1>1. Index(g) = IF g = TRIG_LOG - 1 THEN 0 ELSE g + 1
  BY IndexIs
<1> DEFINE i == Index(g)
<1> HIDE DEF i
<1>2. i = IF g = TRIG_LOG - 1 THEN 0 ELSE g + 1
  BY <1>1 DEF i
<1>3. /\ Behind(g, 1) = i
      /\ Places(i, p) = Places(g, p) - 1 /\ Places(g, p) >= 1
      /\ \A n \in 0 .. TRIG_LOG - 2 : Behind(i, n) = Behind(g, n + 1)
  BY <1>2, EventAssumption DEF Places, Behind, Ring
<1> QED
  BY <1>3 DEF i

-----------------------------------------------------------------------------
(* What a put and a get do to the order                                      *)

(* An interrupt puts the newest event behind all others.                     *)
LEMMA NewestLast ==
    ASSUME NEW d \in [Ring -> Nat], NEW g \in Ring, NEW n \in Nat, n + 1 < TRIG_LOG,
           NEW l \in Nat, NEW s \in Nat, l <= s,
           NEW c, c = [d EXCEPT ![Behind(g, n + 1)] = s + 1]
    PROVE  /\ \A m \in 1 .. n + 1 :
                Rising(d, g, n, l, s) /\ (m <= n => Rising(d, g, m, l, s))
                    => Rising(c, g, m, l, s + 1)
           /\ Rising(d, g, n, l, s) => Rising(c, g, n + 1, l, s + 1)
           /\ \A m \in 1 .. n + 1, e \in Nat :
                e <= s /\ Fits(d, g, n, m, e) => Fits(c, g, n + 1, m, e)
<1>1. n + 1 \in 0 .. TRIG_LOG - 1 /\ Behind(g, n + 1) \in Ring
  BY PlacesOfRing, EventAssumption
<1>2. c[Behind(g, n + 1)] = s + 1
  BY <1>1
<1>3. ASSUME NEW k \in 1 .. n
      PROVE  /\ c[Behind(g, k)] = d[Behind(g, k)] /\ d[Behind(g, k)] \in Nat
  <2>1. k \in 0 .. TRIG_LOG - 1 /\ k # n + 1
    BY EventAssumption
  <2>2. Behind(g, k) \in Ring /\ Behind(g, k) # Behind(g, n + 1)
    BY <1>1, <2>1, PlacesOfRing, EntriesApart
  <2> QED
    BY <2>2
<1> DEFINE C(k) == c[Behind(g, k)]
           D(k) == d[Behind(g, k)]
<1>4. C(n + 1) = s + 1 /\ \A k \in 1 .. n : C(k) = D(k) /\ D(k) \in Nat
  BY <1>2, <1>3
<1> HIDE DEF C, D
<1>6. ASSUME Rising(d, g, n, l, s)
      PROVE  Rising(c, g, n + 1, l, s + 1)
  <2>1. \A k \in 1 .. n : l < D(k) /\ D(k) <= s
    BY <1>6 DEF Rising, D
  <2>2. \A j, k \in 1 .. n : j < k => D(j) < D(k)
    BY <1>6 DEF Rising, D
  <2>3. \A k \in 1 .. n + 1 : l < C(k) /\ C(k) <= s + 1
    BY <1>4, <2>1
  <2>4. \A j, k \in 1 .. n + 1 : j < k => C(j) < C(k)
    BY <1>4, <2>1, <2>2
  <2> QED
    BY <2>3, <2>4 DEF Rising, C
<1>7. ASSUME NEW m \in 1 .. n, Rising(d, g, m, l, s)
      PROVE  Rising(c, g, m, l, s + 1)
  <2>1. \A k \in 1 .. m : l < D(k) /\ D(k) <= s
    BY <1>7 DEF Rising, D
  <2>2. \A j, k \in 1 .. m : j < k => D(j) < D(k)
    BY <1>7 DEF Rising, D
  <2>3. \A k \in 1 .. m : C(k) = D(k) /\ D(k) \in Nat
    BY <1>4
  <2>4. \A k \in 1 .. m : l < C(k) /\ C(k) <= s + 1
    BY <2>1, <2>3
  <2>5. \A j, k \in 1 .. m : j < k => C(j) < C(k)
    BY <2>2, <2>3
  <2> QED
    BY <2>4, <2>5 DEF Rising, C
<1>8. ASSUME NEW m \in 1 .. n + 1, NEW e \in Nat, e <= s, Fits(d, g, n, m, e)
      PROVE  Fits(c, g, n + 1, m, e)
  <2>1. \A k \in 1 .. n : (k < m => D(k) < e) /\ (k > m => e < D(k))
    BY <1>8 DEF Fits, D
  <2>2. \A k \in 1 .. n + 1 : (k < m => C(k) < e) /\ (k > m => e < C(k))
    BY <1>4, <1>8, <2>1
  <2> QED
    BY <2>2 DEF Fits, C
<1>9. \A m \in 1 .. n + 1 : m \in 1 .. n \/ m = n + 1
  OBVIOUS
<1> QED
  <2>1. ASSUME NEW m \in 1 .. n + 1, Rising(d, g, n, l, s), m <= n => Rising(d, g, m, l, s)
        PROVE  Rising(c, g, m, l, s + 1)
    <3>1. CASE m = n + 1
      BY <1>6, <2>1, <3>1
    <3>2. CASE m \in 1 .. n
      <4>1. m <= n
        BY <3>2
      <4> QED
        BY <1>7, <2>1, <3>2, <4>1
    <3> QED
      BY <1>9, <3>1, <3>2
  <2> QED
    BY <1>6, <1>8, <2>1

(* An event that fits, stored as the m-th.                                   *)
LEMMA StoredFits ==
    ASSUME NEW d \in [Ring -> Nat], NEW g \in Ring, NEW n \in Nat, n < TRIG_LOG,
           NEW m \in 1 .. n + 1, m < TRIG_LOG,
           NEW l \in Nat, NEW s \in Nat, NEW e \in Nat, l < e, e <= s,
           Rising(d, g, n, l, s), Fits(d, g, n, m, e),
           NEW c, c = [d EXCEPT ![Behind(g, m)] = e]
    PROVE  Rising(c, g, n, l, s) /\ Rising(c, g, m, l, s)
<1>1. m \in 0 .. TRIG_LOG - 1 /\ Behind(g, m) \in Ring
  BY PlacesOfRing, EventAssumption
<1>2. c[Behind(g, m)] = e
  BY <1>1
<1>3. ASSUME NEW k \in 1 .. n, k # m
      PROVE  c[Behind(g, k)] = d[Behind(g, k)] /\ d[Behind(g, k)] \in Nat
  <2>1. k \in 0 .. TRIG_LOG - 1
    BY EventAssumption
  <2>2. Behind(g, k) \in Ring /\ Behind(g, k) # Behind(g, m)
    BY <1>1, <1>3, <2>1, PlacesOfRing, EntriesApart
  <2> QED
    BY <2>2
<1> DEFINE C(k) == c[Behind(g, k)]
           D(k) == d[Behind(g, k)]
<1>4. C(m) = e /\ \A k \in 1 .. n : k # m => C(k) = D(k) /\ D(k) \in Nat
  BY <1>2, <1>3
<1>5. /\ \A k \in 1 .. n : l < D(k) /\ D(k) <= s
      /\ \A j, k \in 1 .. n : j < k => D(j) < D(k)
      /\ \A k \in 1 .. n : (k < m => D(k) < e) /\ (k > m => e < D(k))
  BY DEF Rising, Fits
<1> HIDE DEF C, D
<1> DEFINE b == IF m = n + 1 THEN n + 1 ELSE n
<1>6. b \in Nat /\ m \in 1 .. b /\ n <= b /\ \A k \in 1 .. b : k = m \/ k \in 1 .. n
  OBVIOUS
<1> HIDE DEF b
<1>7. \A k \in 1 .. b : l < C(k) /\ C(k) <= s
  BY <1>4, <1>5, <1>6
<1>8. ASSUME NEW j \in 1 .. b, NEW k \in 1 .. b, j < k
      PROVE  C(j) < C(k)
  <2>1. (j = m \/ j \in 1 .. n) /\ (k = m \/ k \in 1 .. n)
    BY <1>6
  <2>2. j # m => C(j) = D(j)
    BY <1>4, <2>1
  <2>3. k # m => C(k) = D(k)
    BY <1>4, <2>1
  <2>4. j # m /\ k = m => D(j) < e
    BY <1>5, <1>8, <2>1
  <2>5. j = m /\ k # m => e < D(k)
    BY <1>5, <1>8, <2>1
  <2>6. j # m /\ k # m => D(j) < D(k)
    BY <1>5, <1>8, <2>1
  <2>7. j = m => k # m
    BY <1>8
  <2> QED
    BY <1>4, <2>2, <2>3, <2>4, <2>5, <2>6, <2>7
<1>9. \A a \in {n, m} : a \in Nat /\ \A k \in 1 .. a : k \in 1 .. b
  BY <1>6
<1> QED
  BY <1>7, <1>8, <1>9 DEF Rising, C

(* The first entry taken, the others are after it.                           *)
LEMMA FirstTaken ==
    ASSUME NEW d \in [Ring -> Nat], NEW g \in Ring, NEW n \in 1 .. TRIG_LOG - 1,
           NEW l \in Nat, NEW s \in Nat, NEW i \in Ring,
           i = Behind(g, 1),
           \A k \in 0 .. TRIG_LOG - 2 : Behind(i, k) = Behind(g, k + 1),
           Rising(d, g, n, l, s)
    PROVE  /\ d[i] \in Nat /\ l < d[i] /\ d[i] <= s
           /\ Rising(d, i, n - 1, d[i], s)
<1> DEFINE D(k) == d[Behind(g, k)]
<1>1. /\ \A k \in 1 .. n : l < D(k) /\ D(k) <= s
      /\ \A j, k \in 1 .. n : j < k => D(j) < D(k)
  BY DEF Rising
<1>2. d[i] = D(1) /\ D(1) \in Nat
  OBVIOUS
<1>3. \A k \in 1 .. n - 1 : d[Behind(i, k)] = D(k + 1)
  BY EventAssumption
<1>4. Rising(d, i, n - 1, d[i], s) <=>
        /\ \A k \in 1 .. n - 1 : d[i] < d[Behind(i, k)] /\ d[Behind(i, k)] <= s
        /\ \A j, k \in 1 .. n - 1 : j < k => d[Behind(i, j)] < d[Behind(i, k)]
  BY DEF Rising
<1> HIDE DEF D
<1>5. \A k \in 1 .. n - 1 : k + 1 \in 1 .. n /\ 1 < k + 1
  OBVIOUS
<1>6. \A k \in 1 .. n - 1 : d[i] < d[Behind(i, k)] /\ d[Behind(i, k)] <= s
  BY <1>1, <1>2, <1>3, <1>5
<1>7. \A j, k \in 1 .. n - 1 : j < k => d[Behind(i, j)] < d[Behind(i, k)]
  BY <1>1, <1>3, <1>5
<1> QED
  BY <1>1, <1>2, <1>4, <1>6, <1>7

-----------------------------------------------------------------------------
(* Nothing is queued and nothing was read. *)
LEMMA InitQueueOrdered == Init => QueueOrdered
<1> SUFFICES ASSUME Init PROVE QueueOrdered
  OBVIOUS
<1>1. events.get = 0 /\ events.put = 0 /\ last = 0 /\ sent = 0 /\ pc = [f \in Files |-> "closed"]
  BY DEF Init
<1>2. Length = 0
  BY <1>1 DEF Length, Places
<1>3. InOrder(Length)
  BY <1>2 DEF InOrder, Rising
<1> QED
  BY <1>1, <1>3 DEF QueueOrdered

(* A step of a call that neither moves the FIFO nor begins a put.            *)
LEMMA OrderStays ==
    ASSUME EventInv, QueueOrdered, NEW f \in Files,
           NEW p \in (Kernel \cup Sleeping) \ {"data", "put", "flush put"},
           pc[f] # "flush put", pc' = [pc EXCEPT ![f] = p],
           \A g \in Files : g # f => put'[g] = put[g],
           UNCHANGED << events, sent, last >>
    PROVE  QueueOrdered'
<1>1. /\ \A g \in Files : g # f => pc'[g] = pc[g]
      /\ pc'[f] = p
  BY DEF EventInv, EventTypes
<1>2. (\A g \in Files : pc'[g] # "flush put") => \A g \in Files : pc[g] # "flush put"
  BY <1>1
<1>3. /\ Length' = Length /\ \A n : InOrder(n)' <=> InOrder(n)
  BY DEF Length, InOrder
<1>4. \A g \in Files : g # f => /\ Storing(g)' <=> Storing(g)
                                /\ Stored(g)' <=> Stored(g)
  BY <1>3 DEF Storing, Stored, Place, Length, InOrder
<1> QED
  BY <1>1, <1>2, <1>3, <1>4 DEF QueueOrdered

(* The calls that neither send nor read. *)
LEMMA OrderedPlainSteps ==
    ASSUME EventInv, QueueOrdered, NEW f \in Files,
           \/ OpenLock(f) \/ OpenFails(f) \/ OpenAsMaster(f) \/ libera_event_open(f)
           \/ libera_event_release(f) \/ ReleaseMaster(f) \/ Closed(f) \/ FLUSH(f) \/ Flushed(f)
    PROVE  QueueOrdered'
<1>1. UNCHANGED << events, sent, last, put >>
  BY DEF OpenLock, OpenFails, OpenAsMaster,
     libera_event_open, libera_event_release, ReleaseMaster, LastWriter, Closed, FLUSH, Flushed
<1>2. pc[f] # "flush put"
  BY DEF OpenLock, OpenFails, OpenAsMaster,
     libera_event_open, libera_event_release, ReleaseMaster, LastWriter, Closed, FLUSH,
     Flushed, InUser
<1>3. PICK p \in {"kmalloc", "closed", "flush", "user", "last", "kfree"} :
          pc' = [pc EXCEPT ![f] = p]
  BY DEF OpenLock, OpenFails, OpenAsMaster,
     libera_event_open, libera_event_release, ReleaseMaster, LastWriter, Closed, FLUSH, Flushed
<1> QED
  BY <1>1, <1>2, <1>3, OrderStays DEF Kernel, Sleeping, Sending, Flushing

(* The steps of a read or a poll that take nothing. *)
LEMMA OrderedReadSteps ==
    ASSUME EventInv, QueueOrdered, NEW f \in Files,
           \/ ReadCall(f) \/ LockInterrupted(f) \/ ReadLock(f) \/ ReadAgain(f)
           \/ Prepare(f) \/ Recheck(f) \/ Relock(f) \/ Interrupted(f) \/ Count(f)
           \/ ReadReturns(f) \/ CopyFails(f) \/ Copied(f)
           \/ libera_event_poll(f) \/ PollReturns(f)
    PROVE  QueueOrdered'
<1>1. UNCHANGED << events, sent, last, put >>
  BY DEF ReadCall, LockInterrupted, ReadLock, ReadAgain, Prepare, Recheck, Relock, Interrupted,
     Count, ReadReturns, CopyFails, Copied, libera_event_poll, PollReturns, Return
<1>2. pc[f] # "flush put"
  BY DEF ReadCall, LockInterrupted, ReadLock, ReadAgain, Prepare, Recheck, Relock, Interrupted,
     Count, ReadReturns, CopyFails, Copied, libera_event_poll, PollReturns, InUser
<1>3. PICK p \in {"lock", "user", "prepare", "recheck", "schedule", "count", "get", "poll"} :
          pc' = [pc EXCEPT ![f] = p]
  BY DEF ReadCall, LockInterrupted, ReadLock, ReadAgain, Prepare, Recheck, Relock, Interrupted,
     Count, ReadReturns, CopyFails, Copied, libera_event_poll, PollReturns, Return
<1> QED
  BY <1>1, <1>2, <1>3, OrderStays DEF Kernel, Sleeping

(* libera_send_event begins: if there is room, the event fits behind all     *)
(* that are queued.                                                          *)
LEMMA SendBegins ==
    ASSUME EventInv, QueueOrdered, NEW f \in Files, StartSend(f)
    PROVE  QueueOrdered'
<1>1. /\ cpu = NULL /\ sent' = sent + 1 /\ UNCHANGED << events, last >>
      /\ put' = [put EXCEPT ![f] = [event |-> sent', index |-> Index(events.put)]]
      /\ pc' = [pc EXCEPT ![f] = IF Index(events.put) = events.get THEN "wake" ELSE "data"]
  BY DEF StartSend
<1>2. /\ events \in EventFIFOs /\ sent \in Nat /\ last \in Nat /\ last <= sent
      /\ put \in [Files -> {NULL} \cup Puts] /\ pc \in [Files -> Kernel \cup Sleeping]
      /\ events.get \in Ring /\ events.put \in Ring /\ events.data \in [Ring -> Nat]
  BY DEF EventInv, EventTypes, EventFIFOs, QueueOrdered
<1>3. \A g \in Files : pc[g] \notin Kernel
  BY <1>1, EventAssumption DEF EventInv, CpuRuns
<1>4. InOrder(Length)
  BY <1>3 DEF QueueOrdered, Kernel, Flushing
<1>5. \A g \in Files : g # f => pc'[g] \notin {"data", "put"}
  BY <1>1, <1>2, <1>3 DEF Kernel, Sending
<1>6. pc'[f] \in {"wake", "data"}
  BY <1>1, <1>2
<1>7. Length' = Length /\ Length \in 0 .. TRIG_LOG - 1
  BY <1>1, <1>2, PlacesOfRing DEF Length
<1> DEFINE n == Length
           D(k) == events.data[Behind(events.get, k)]
<1>8. \A k \in 1 .. n : /\ last < D(k) /\ D(k) <= sent /\ D(k) \in Nat
  <2>1. \A k \in 1 .. n : last < D(k) /\ D(k) <= sent
    BY <1>4 DEF InOrder, Rising
  <2>2. \A k \in 1 .. n : k \in 0 .. TRIG_LOG - 1
    BY <1>7, EventAssumption
  <2>3. \A k \in 1 .. n : Behind(events.get, k) \in Ring
    BY <1>2, <2>2, PlacesOfRing
  <2> QED
    BY <1>2, <2>1, <2>3
<1>9. InOrder(Length)'
  <2>1. \A j, k \in 1 .. n : j < k => D(j) < D(k)
    BY <1>4 DEF InOrder, Rising
  <2>2. Rising(events.data, events.get, n, last, sent + 1)
    <3>1. \A k \in 1 .. n : last < D(k) /\ D(k) <= sent + 1
      <4> HIDE DEF D, n
      <4> QED
        BY <1>2, <1>8
    <3> QED
      BY <2>1, <3>1 DEF Rising
  <2> QED
    BY <1>1, <1>7, <2>2 DEF InOrder
<1>10. pc'[f] = "data" => Storing(f)'
  <2> SUFFICES ASSUME pc'[f] = "data" PROVE Storing(f)'
    OBVIOUS
  <2>1. Index(events.put) # events.get
    BY <1>1, <1>2
  <2>2. put'[f].event = sent + 1 /\ put'[f].index = Index(events.put)
    BY <1>1, <1>2
  <2>3. Place(f)' = n + 1
    BY <1>1, <1>2, <2>1, <2>2, PutsBehind DEF Place, Length
  <2>4. Fits(events.data, events.get, n, n + 1, sent + 1)
    <3>1. \A k \in 1 .. n : (k < n + 1 => D(k) < sent + 1) /\ (k > n + 1 => sent + 1 < D(k))
      <4> HIDE DEF D
      <4> QED
        BY <1>2, <1>7, <1>8
    <3> QED
      BY <3>1 DEF Fits
  <2>5. n + 1 \in 1 .. n + 1 /\ last < sent + 1 /\ sent + 1 <= sent + 1
    BY <1>2, <1>7
  <2> QED
    BY <1>1, <1>7, <2>2, <2>3, <2>4, <2>5 DEF Storing
<1>11. last' \in Nat /\ last' <= sent'
  BY <1>1, <1>2
<1> QED
  BY <1>5, <1>6, <1>9, <1>10, <1>11 DEF QueueOrdered

(* The event is stored where it fits.                                        *)
LEMMA SendStores ==
    ASSUME EventInv, QueueOrdered, NEW f \in Files, StoreEvent(f)
    PROVE  QueueOrdered'
<1>1. /\ pc[f] = "data" /\ pc' = [pc EXCEPT ![f] = "put"]
      /\ events' = [events EXCEPT !.data[put[f].index] = put[f].event]
      /\ UNCHANGED << put, sent, last >>
  BY DEF StoreEvent
<1>2. /\ events \in EventFIFOs /\ sent \in Nat /\ last \in Nat /\ last <= sent
      /\ pc \in [Files -> Kernel \cup Sleeping] /\ put[f] \in Puts
      /\ events.get \in Ring /\ events.put \in Ring /\ events.data \in [Ring -> Nat]
  BY <1>1 DEF EventInv, EventTypes, EventFIFOs, QueueOrdered, CpuRuns, Sending
<1>3. \A g \in Files : g # f => pc[g] \notin Kernel
  BY <1>1, OthersSleep DEF Kernel, Sending
<1>4. \A g \in Files : pc[g] # "flush put"
  BY <1>1, <1>3 DEF Kernel, Flushing
<1>5. InOrder(Length) /\ Storing(f)
  BY <1>1, <1>4 DEF QueueOrdered
<1>6. /\ events'.get = events.get /\ events'.put = events.put
      /\ events'.data = [events.data EXCEPT ![put[f].index] = put[f].event]
  BY <1>1, <1>2 DEF EventFIFOs
<1> DEFINE n == Length
           m == Place(f)
           e == put[f].event
<1>7. n \in 0 .. TRIG_LOG - 1 /\ m \in 0 .. TRIG_LOG - 1 /\ Behind(events.get, m) = put[f].index
  BY <1>2, PlacesOfRing DEF Length, Place, Puts
<1>8. /\ m \in 1 .. n + 1 /\ last < e /\ e <= sent /\ e \in Nat
      /\ Fits(events.data, events.get, n, m, e)
      /\ Rising(events.data, events.get, n, last, sent)
  BY <1>2, <1>5 DEF Storing, InOrder, Puts
<1>9. Length' = n /\ Place(f)' = m
  BY <1>1, <1>6 DEF Length, Place
<1>10. /\ Rising(events'.data, events.get, n, last, sent)
       /\ Rising(events'.data, events.get, m, last, sent)
  <2>1. /\ n \in Nat /\ n < TRIG_LOG /\ m < TRIG_LOG
        /\ events'.data = [events.data EXCEPT ![Behind(events.get, m)] = e]
    BY <1>6, <1>7, EventAssumption
  <2> HIDE DEF n, m, e
  <2> QED
    BY <1>2, <1>8, <2>1, StoredFits
<1>11. InOrder(Length)' /\ Stored(f)'
  BY <1>1, <1>6, <1>8, <1>9, <1>10 DEF InOrder, Stored
<1>12. \A g \in Files : g # f => pc'[g] \notin {"data", "put"}
  BY <1>1, <1>2, <1>3 DEF Kernel, Sending
<1>13. pc'[f] = "put"
  BY <1>1, <1>2
<1> QED
  BY <1>1, <1>2, <1>11, <1>12, <1>13 DEF QueueOrdered

(* ... and is the last one then.                                             *)
LEMMA SendAdvances ==
    ASSUME EventInv, QueueOrdered, NEW f \in Files, AdvancePut(f)
    PROVE  QueueOrdered'
<1>1. /\ pc[f] \in {"put", "wake"} /\ pc' = [pc EXCEPT ![f] = "user"]
      /\ events' = IF pc[f] = "put" THEN [events EXCEPT !.put = put[f].index] ELSE events
      /\ put' = [put EXCEPT ![f] = NULL]
      /\ UNCHANGED << sent, last >>
  BY DEF AdvancePut
<1>2. /\ events \in EventFIFOs /\ pc \in [Files -> Kernel \cup Sleeping]
      /\ put \in [Files -> {NULL} \cup Puts]
  BY DEF EventInv, EventTypes
<1>3. CASE pc[f] = "wake"
  <2>1. "user" \in (Kernel \cup Sleeping) \ {"data", "put", "flush put"}
    BY DEF Sleeping
  <2> QED
    BY <1>1, <1>2, <1>3, <2>1, OrderStays
<1>4. CASE pc[f] = "put"
  <2>1. \A g \in Files : g # f => pc[g] \notin Kernel
    BY <1>4, OthersSleep DEF Kernel, Sending
  <2>2. \A g \in Files : pc'[g] \notin {"data", "put"}
    BY <1>1, <1>2, <2>1 DEF Kernel, Sending
  <2>3. /\ events'.get = events.get /\ events'.put = put[f].index
        /\ events'.data = events.data
    BY <1>1, <1>2, <1>4 DEF EventFIFOs
  <2>4. Length' = Place(f)
    BY <2>3 DEF Length, Place
  <2>5. InOrder(Place(f))
    BY <1>4 DEF QueueOrdered, Stored
  <2>6. InOrder(Length)'
    BY <1>1, <2>3, <2>4, <2>5 DEF InOrder
  <2> QED
    BY <1>1, <2>2, <2>6 DEF QueueOrdered
<1> QED
  BY <1>1, <1>3, <1>4

(* Nothing is queued after a flush, and during one nothing is read.          *)
LEMMA FlushOrders ==
    ASSUME EventInv, QueueOrdered, NobodyOverslept, NEW f \in Files, flush_eventFIFO(f)
    PROVE  QueueOrdered'
<1>1. /\ pc[f] \in Flushing /\ UNCHANGED << put, sent, last >>
      /\ pc[f] = "flush put" => events' = [events EXCEPT !.put = 0] /\ pc' = [pc EXCEPT ![f] = ret[f]]
      /\ pc[f] = "flush" => pc' = [pc EXCEPT ![f] = "flush put"]
  BY DEF flush_eventFIFO, Flushing
<1>2. /\ events \in EventFIFOs /\ pc \in [Files -> Kernel \cup Sleeping]
      /\ ret[f] \in {"user", "opened", "kfree", "flushed"}
  BY DEF EventInv, EventTypes
<1>3. \A g \in Files : g # f => pc[g] \notin Kernel
  BY <1>1, OthersSleep DEF Kernel
<1>4. \A g \in Files : pc'[g] \notin {"data", "put"}
  BY <1>1, <1>2, <1>3 DEF Kernel, Sending, Flushing
<1>5. CASE pc[f] = "flush"
  <2>1. pc'[f] = "flush put"
    BY <1>1, <1>2, <1>5
  <2> QED
    BY <1>1, <1>4, <2>1 DEF QueueOrdered
<1>6. CASE pc[f] = "flush put"
  <2>1. events.get = 0
    BY <1>6 DEF NobodyOverslept
  <2>2. events'.get = 0 /\ events'.put = 0
    BY <1>1, <1>2, <1>6, <2>1 DEF EventFIFOs
  <2>3. Length' = 0
    BY <2>2 DEF Length, Places
  <2>4. InOrder(Length)'
    BY <2>3 DEF InOrder, Rising
  <2> QED
    BY <1>1, <1>4, <2>4 DEF QueueOrdered
<1> QED
  BY <1>1, <1>5, <1>6 DEF Flushing

(* The oldest event is read, which is after all that were read.              *)
LEMMA GetTakesOldest ==
    ASSUME EventInv, QueueOrdered, NEW f \in Files, getFrom_eventFIFO(f)
    PROVE  QueueOrdered' /\ last' > last
<1>1. /\ pc[f] = "get" /\ events.get # events.put /\ pc' = [pc EXCEPT ![f] = "copy"]
      /\ events' = [events EXCEPT !.get = Index(@)]
      /\ last' = events.data[Index(events.get)] /\ UNCHANGED << put, sent >>
  BY DEF getFrom_eventFIFO, Empty, Taken
<1>2. /\ events \in EventFIFOs /\ sent \in Nat /\ last \in Nat /\ last <= sent
      /\ pc \in [Files -> Kernel \cup Sleeping]
      /\ events.get \in Ring /\ events.put \in Ring /\ events.data \in [Ring -> Nat]
  BY DEF EventInv, EventTypes, EventFIFOs, QueueOrdered
<1>3. \A g \in Files : g # f => pc[g] \notin Kernel
  BY <1>1, OthersSleep DEF Kernel
<1>4. InOrder(Length)
  BY <1>1, <1>3 DEF QueueOrdered, Kernel, Flushing
<1>5. \A g \in Files : pc'[g] \notin {"data", "put"}
  BY <1>1, <1>2, <1>3 DEF Kernel, Sending
<1> DEFINE g == events.get
           i == Index(events.get)
           n == Length
<1>6. /\ events'.get = i /\ events'.put = events.put /\ events'.data = events.data
      /\ i \in Ring
  BY <1>1, <1>2, IndexInRing DEF EventFIFOs
<1>7. /\ n \in 1 .. TRIG_LOG - 1 /\ i = Behind(g, 1)
      /\ \A k \in 0 .. TRIG_LOG - 2 : Behind(i, k) = Behind(g, k + 1)
      /\ Places(i, events.put) = n - 1
  <2>1. n \in 0 .. TRIG_LOG - 1
    BY <1>2, PlacesOfRing DEF Length
  <2>2. /\ i = Behind(g, 1) /\ n >= 1 /\ Places(i, events.put) = n - 1
        /\ \A k \in 0 .. TRIG_LOG - 2 : Behind(i, k) = Behind(g, k + 1)
    BY <1>1, <1>2, GetsNearer DEF Length
  <2> HIDE DEF n
  <2>3. n \in 1 .. TRIG_LOG - 1
    BY <2>1, <2>2, EventAssumption
  <2> QED
    BY <2>2, <2>3
<1>8. Rising(events.data, g, n, last, sent)
  BY <1>4 DEF InOrder
<1>9. /\ last' \in Nat /\ last < last' /\ last' <= sent
      /\ Rising(events.data, i, n - 1, last', sent)
  <2>1. last' = events.data[i]
    BY <1>1
  <2> HIDE DEF g, i, n
  <2>2. g \in Ring
    BY <1>2 DEF g
  <2> QED
    BY <1>2, <1>6, <1>7, <1>8, <2>1, <2>2, FirstTaken
<1>10. InOrder(Length)'
  BY <1>1, <1>6, <1>7, <1>9 DEF InOrder, Length
<1> QED
  BY <1>1, <1>2, <1>5, <1>9, <1>10 DEF QueueOrdered

(* An interrupt, also between the steps of a put and of a flush.             *)
LEMMA InterruptOrders ==
    ASSUME EventInv, QueueOrdered, Interrupt
    PROVE  QueueOrdered'
<1> DEFINE g == events.get
           d == events.data
           n == Length
           index == Index(events.put)
<1>1. /\ sent' = sent + 1 /\ UNCHANGED << pc, put, last >>
      /\ index = g => events' = events
      /\ index # g => events' = [events EXCEPT !.data[index] = sent', !.put = index]
  BY DEF Interrupt
<1>2. /\ events \in EventFIFOs /\ sent \in Nat /\ last \in Nat /\ last <= sent
      /\ g \in Ring /\ events.put \in Ring /\ d \in [Ring -> Nat] /\ index \in Ring
      /\ \A f \in Files : pc[f] \in Sending => put[f].event \in Nat /\ put[f].index \in Ring
  BY IndexInRing DEF EventInv, EventTypes, EventFIFOs, QueueOrdered, CpuRuns, Puts
<1>3. n \in 0 .. TRIG_LOG - 1
  BY <1>2, PlacesOfRing DEF Length
<1>4. \A f \in Files : pc[f] \in {"data", "put"} => InOrder(n)
  <2> SUFFICES ASSUME NEW f \in Files, pc[f] \in {"data", "put"} PROVE InOrder(n)
    OBVIOUS
  <2>1. pc[f] \in Kernel /\ pc[f] # "flush put"
    BY DEF Kernel, Sending
  <2>2. \A h \in Files : pc[h] # "flush put"
    BY <2>1, OthersSleep DEF Kernel, Flushing
  <2> QED
    BY <2>2 DEF QueueOrdered
<1>5. CASE index = g
  <2>1. events' = events /\ Length' = n
    BY <1>1, <1>5 DEF Length
  <2>2. ASSUME NEW m \in 0 .. TRIG_LOG - 1, InOrder(m)
        PROVE  InOrder(m)'
    <3>1. \A k \in 1 .. m : d[Behind(g, k)] \in Nat
      <4>1. \A k \in 1 .. m : k \in 0 .. TRIG_LOG - 1
        BY EventAssumption
      <4> QED
        BY <1>2, <4>1, PlacesOfRing
    <3>2. \A k \in 1 .. m : last < d[Behind(g, k)] /\ d[Behind(g, k)] <= sent
      BY <2>2 DEF InOrder, Rising
    <3>3. \A k \in 1 .. m : last < d[Behind(g, k)] /\ d[Behind(g, k)] <= sent + 1
      BY <1>2, <3>1, <3>2
    <3>4. \A j, k \in 1 .. m : j < k => d[Behind(g, j)] < d[Behind(g, k)]
      BY <2>2 DEF InOrder, Rising
    <3> QED
      BY <1>1, <2>1, <3>3, <3>4 DEF InOrder, Rising
  <2>3. (\A f \in Files : pc'[f] # "flush put") => InOrder(Length)'
    <3>1. (\A f \in Files : pc[f] # "flush put") => InOrder(n)
      BY DEF QueueOrdered
    <3> QED
      BY <1>1, <1>3, <2>1, <2>2, <3>1 DEF InOrder
  <2>4. ASSUME NEW f \in Files, pc[f] = "data"
        PROVE  Storing(f)'
    <3>1. Storing(f) /\ put[f].event \in Nat
      BY <1>2, <2>4 DEF QueueOrdered, Sending
    <3>2. put'[f].event <= sent'
      BY <1>1, <1>2, <3>1 DEF Storing
    <3> QED
      BY <1>1, <2>1, <3>1, <3>2 DEF Storing, Place, Length
  <2>5. ASSUME NEW f \in Files, pc[f] = "put"
        PROVE  Stored(f)'
    <3>1. Stored(f) /\ put[f].index \in Ring
      BY <1>2, <2>5 DEF QueueOrdered, Sending
    <3>2. Place(f) \in 0 .. TRIG_LOG - 1
      BY <1>2, <3>1, PlacesOfRing DEF Place
    <3>3. Place(f)' = Place(f)
      BY <1>1, <2>1 DEF Place
    <3>4. InOrder(Place(f))'
      BY <1>1, <2>1, <2>2, <3>1, <3>2, <3>3 DEF Stored, InOrder
    <3> QED
      BY <2>1, <3>1, <3>3, <3>4 DEF Stored
  <2>6. last' \in Nat /\ last' <= sent'
    BY <1>1, <1>2
  <2> QED
    BY <1>1, <2>3, <2>4, <2>5, <2>6 DEF QueueOrdered
<1>6. CASE index # g
  <2>1. /\ events'.get = g /\ events'.put = index
        /\ events'.data = [d EXCEPT ![index] = sent + 1]
    BY <1>1, <1>2, <1>6 DEF EventFIFOs
  <2>2. /\ Length' = n + 1 /\ n + 1 < TRIG_LOG /\ n \in Nat
        /\ Behind(g, n + 1) = index
    <3>1. /\ Places(g, index) = n + 1 /\ n + 1 \in 1 .. TRIG_LOG - 1
          /\ Behind(g, n + 1) = index
      BY <1>2, <1>6, PutsBehind DEF Length
    <3> QED
      BY <1>3, <2>1, <3>1, EventAssumption DEF Length
  <2> DEFINE c == events'.data
  <2>3. /\ \A m \in 1 .. n + 1 :
             Rising(d, g, n, last, sent) /\ (m <= n => Rising(d, g, m, last, sent))
                 => Rising(c, g, m, last, sent + 1)
        /\ Rising(d, g, n, last, sent) => Rising(c, g, n + 1, last, sent + 1)
        /\ \A m \in 1 .. n + 1, e \in Nat :
             e <= sent /\ Fits(d, g, n, m, e) => Fits(c, g, n + 1, m, e)
    <3>1. c = [d EXCEPT ![Behind(g, n + 1)] = sent + 1]
      BY <2>1, <2>2
    <3> HIDE DEF c, d, g, n
    <3>2. g \in Ring /\ d \in [Ring -> Nat]
      BY <1>2 DEF g, d
    <3> QED
      BY <1>2, <2>2, <3>1, <3>2, NewestLast
  <2>4. InOrder(n) => InOrder(Length)'
    BY <1>1, <2>1, <2>2, <2>3 DEF InOrder
  <2>5. (\A f \in Files : pc'[f] # "flush put") => InOrder(Length)'
    <3>1. (\A f \in Files : pc[f] # "flush put") => InOrder(n)
      BY DEF QueueOrdered
    <3> QED
      BY <1>1, <2>4, <3>1
  <2>6. ASSUME NEW f \in Files, pc[f] = "data"
        PROVE  Storing(f)'
    <3>1. /\ Place(f) \in 1 .. n + 1 /\ last < put[f].event /\ put[f].event <= sent
          /\ put[f].event \in Nat /\ Fits(d, g, n, Place(f), put[f].event)
      BY <1>2, <2>6 DEF QueueOrdered, Storing, Sending
    <3>2. Place(f)' = Place(f) /\ put'[f] = put[f]
      BY <1>1, <2>1 DEF Place
    <3>3. Fits(c, g, n + 1, Place(f), put[f].event)
      BY <2>3, <3>1
    <3>4. put[f].event <= sent + 1
      BY <1>2, <3>1
    <3>5. Place(f) \in 1 .. n + 1 + 1
      BY <2>2, <3>1
    <3> QED
      BY <1>1, <2>1, <2>2, <3>1, <3>2, <3>3, <3>4, <3>5 DEF Storing
  <2>7. ASSUME NEW f \in Files, pc[f] = "put"
        PROVE  Stored(f)'
    <3>1. Place(f) \in 1 .. n + 1 /\ InOrder(Place(f)) /\ InOrder(n)
      BY <1>4, <2>7 DEF QueueOrdered, Stored
    <3>2. Place(f)' = Place(f)
      BY <1>1, <2>1 DEF Place
    <3>3. Rising(c, g, Place(f), last, sent + 1)
      BY <2>3, <3>1 DEF InOrder
    <3>4. Place(f) \in 1 .. n + 1 + 1
      BY <2>2, <3>1
    <3> QED
      BY <1>1, <2>1, <2>2, <3>2, <3>3, <3>4 DEF Stored, InOrder
  <2>8. last' \in Nat /\ last' <= sent'
    BY <1>1, <1>2
  <2> QED
    BY <1>1, <2>5, <2>6, <2>7, <2>8 DEF QueueOrdered
<1> QED
  BY <1>5, <1>6

(* A step that does not touch the FIFO. *)
LEMMA OrderUntouched ==
    ASSUME QueueOrdered, UNCHANGED << events, pc, put, sent, last >>
    PROVE  QueueOrdered'
<1>1. Length' = Length /\ \A n : InOrder(n)' <=> InOrder(n)
  BY DEF Length, InOrder
<1>2. \A f \in Files : (Storing(f)' <=> Storing(f)) /\ (Stored(f)' <=> Stored(f))
  BY <1>1 DEF Storing, Stored, Place, InOrder, Length
<1> QED
  BY <1>1, <1>2 DEF QueueOrdered

(* Every step keeps the order. *)
LEMMA NextKeepsOrder ==
    EventInv /\ NobodyOverslept /\ QueueOrdered /\ [Next]_vars => QueueOrdered'
<1> SUFFICES ASSUME EventInv, NobodyOverslept, QueueOrdered, [Next]_vars
             PROVE  QueueOrdered'
  OBVIOUS
<1>1. CASE UNCHANGED vars
  BY <1>1, OrderUntouched DEF vars
<1>2. CASE Next
  <2>1. world.files \subseteq Files
    BY FilesOfWorld DEF EventInv
  <2>2. CASE \E f \in world.files :
               (\E side \in Sides, arg \in SUBSET world.triggers : ENABLE_TRIG(f, side, arg))
               \/ SET_MASK(f)
    <3>1. UNCHANGED << events, pc, put, sent, last >>
      BY <2>2 DEF ENABLE_TRIG, Enabling, SET_MASK
    <3> QED
      BY <3>1, OrderUntouched
  <2> QED
    BY <1>2, <2>1, <2>2, InterruptOrders, OrderedPlainSteps, OrderedReadSteps, SendBegins,
       SendStores, SendAdvances, FlushOrders, GetTakesOldest DEF Next
<1> QED
  BY <1>1, <1>2

(* putTo_eventFIFO, getFrom_eventFIFO and flush_eventFIFO: what is queued is *)
(* in the order of libera_send_event and newer than all that was read, for   *)
(* any length of the FIFO and any interrupts between the steps of a put.     *)
THEOREM QueueAlwaysOrdered == Spec => []QueueOrdered
<1>1. Spec => []NobodyOverslept
  BY InitNobodyOverslept, NextKeepsAwake, EventConsistent, PTL DEF Spec
<1> QED
  BY <1>1, InitQueueOrdered, NextKeepsOrder, EventConsistent, PTL DEF Spec

(* getFrom_eventFIFO: every event that a user gets was sent after the one    *)
(* before it, so that none comes twice or late.                              *)
THEOREM EventsReadInOrder == Spec => ReadInOrder
<1>1. EventInv /\ QueueOrdered /\ [Next]_vars => [last' # last => last' > last]_vars
  <2> SUFFICES ASSUME EventInv, QueueOrdered, Next, last' # last
               PROVE  last' > last
    OBVIOUS
  <2>1. world.files \subseteq Files
    BY FilesOfWorld DEF EventInv
  <2>2. ASSUME NEW f \in world.files,
               \/ StartSend(f) \/ StoreEvent(f) \/ AdvancePut(f) \/ flush_eventFIFO(f)
               \/ OpenLock(f) \/ OpenFails(f) \/ OpenAsMaster(f) \/ libera_event_open(f)
               \/ libera_event_release(f) \/ ReleaseMaster(f) \/ Closed(f)
               \/ SET_MASK(f) \/ FLUSH(f) \/ Flushed(f)
        PROVE  last' = last
    BY <2>2 DEF StartSend, StoreEvent, AdvancePut, flush_eventFIFO, OpenLock, OpenFails,
       OpenAsMaster, libera_event_open, libera_event_release, ReleaseMaster, LastWriter,
       Closed, SET_MASK, FLUSH, Flushed
  <2>3. ASSUME NEW f \in world.files,
               \/ ReadCall(f) \/ LockInterrupted(f) \/ ReadLock(f) \/ ReadAgain(f)
               \/ Prepare(f) \/ Recheck(f) \/ Relock(f) \/ Interrupted(f) \/ Count(f)
               \/ ReadReturns(f) \/ CopyFails(f) \/ Copied(f)
               \/ libera_event_poll(f) \/ PollReturns(f)
        PROVE  last' = last
    BY <2>3 DEF ReadCall, LockInterrupted, ReadLock, ReadAgain, Prepare, Recheck, Relock,
       Interrupted, Count, ReadReturns, CopyFails, Copied, libera_event_poll, PollReturns, Return
  <2>4. ASSUME NEW f \in world.files, NEW side \in Sides, NEW arg \in SUBSET world.triggers,
               ENABLE_TRIG(f, side, arg)
        PROVE  last' = last
    BY <2>4 DEF ENABLE_TRIG, Enabling
  <2>5. Interrupt => last' = last
    BY DEF Interrupt
  <2>6. PICK f \in world.files : getFrom_eventFIFO(f)
    BY <2>2, <2>3, <2>4, <2>5 DEF Next
  <2> QED
    BY <2>1, <2>6, GetTakesOldest
<1> QED
  BY <1>1, EventConsistent, QueueAlwaysOrdered, PTL DEF Spec, ReadInOrder

================================================================================
