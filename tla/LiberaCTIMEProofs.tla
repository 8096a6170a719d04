--------------------------- MODULE LiberaCTIMEProofs ---------------------------
(***************************************************************************)
(* Theorems about the current time and the waiting for a trigger, for any  *)
(* processes, any number of triggers and any length of the FIFOs.          *)
(*                                                                         *)
(* Both halves of a trigger's stamp travel through FIFOs of their own.     *)
(* The invariant says that the same software triggers are on their way in  *)
(* both, in order, and that the handler, when it is done, has left no      *)
(* stamp of MC without its stamp of SC (OnTheWay).  So it is as long as no *)
(* FIFO is full when a stamp is put there, which the theorem assumes.      *)
(***************************************************************************)
EXTENDS LiberaCTIME, FiniteSetTheorems, SequenceTheorems, TLAPS

Stamps == [kind : {"CTIME", "TRIG"}, n : Triggers]

In(q, x) == \E i \in 1 .. Len(q) : q[i] = x

(* The getters that are bound to fire a trigger. *)
Bound == {p \in Getters : pc[p] = "ctime"}

Times == 0 .. MaxTriggers \cup {NULL}
Results == [ret : {"none", "0", "ERESTARTSYS", "EAGAIN", "EFAULT"}, lst : Times, lmt : Times]

Clocks ==
    /\ fired \in Nat
    /\ fired + Cardinality(Bound) <= MaxTriggers
    /\ scf \in Seq(Stamps) /\ mcf \in Seq(Stamps) /\ midway \in Seq(Stamps)
    /\ sc_ts \in Seq(Triggers) /\ mc_ts \in Seq(Triggers) /\ trig_ts \in Seq(Triggers)
    /\ Len(sc_ts) <= FIFO_ROOM /\ Len(mc_ts) <= FIFO_ROOM /\ Len(trig_ts) <= FIFO_ROOM

Calls ==
    /\ irq \in {"off", "sc", "mc", "test"} /\ int_vec \in SUBSET {"SC", "MC"}
    /\ CTIME_sem \in Getters \cup {NULL} /\ sem \in BOOLEAN
    /\ pc \in [Procs -> Places]
    /\ tstate \in [Procs -> {"running", "interruptible"}]
    /\ sig \in [Procs -> BOOLEAN]
    /\ own \in [Procs -> 0 .. MaxTriggers]
    /\ got \in [Procs -> Results]
    /\ \A p \in Procs : pc[p] = "ctime" => p \in Getters
    /\ \A p \in Getters : pc[p] = "take" => mc_ts # << >>

(* Who sleeps over a stamp will be woken up by the handler, which is where   *)
(* it puts that kind of stamp.                                              *)
Sleeps(p) == pc[p] = "sleep" /\ tstate[p] = "interruptible"

WakeupComes ==
    /\ \A p \in Waiters : Sleeps(p) /\ trig_ts # << >> => irq = "sc" /\ "SC" \in int_vec
    /\ \A p \in Getters : Sleeps(p) /\ mc_ts # << >> => irq = "mc" /\ "MC" \in int_vec

CtimeInv == Clocks /\ Calls /\ WakeupComes

-----------------------------------------------------------------------------
(* What is in a sequence with one element more. *)
LEMMA AppendIn ==
    ASSUME NEW S, NEW q \in Seq(S), NEW x \in S
    PROVE  /\ Append(q, x) \in Seq(S) /\ Append(q, x) # << >>
           /\ Len(Append(q, x)) = Len(q) + 1 /\ Len(q) \in Nat
           /\ \A y : In(Append(q, x), y) <=> In(q, y) \/ y = x
<1>1. /\ Append(q, x) \in Seq(S) /\ Append(q, x) # << >>
      /\ Len(Append(q, x)) = Len(q) + 1
      /\ \A i \in 1 .. Len(q) : Append(q, x)[i] = q[i]
      /\ Append(q, x)[Len(q) + 1] = x
  BY AppendProperties
<1>2. Len(q) \in Nat
  BY LenProperties
<1>3. 1 .. Len(q) + 1 = (1 .. Len(q)) \cup {Len(q) + 1}
  BY <1>2
<1> QED
  BY <1>1, <1>2, <1>3 DEF In

(* What is in a sequence is its head or in its tail. *)
LEMMA TailIn ==
    ASSUME NEW S, NEW q \in Seq(S), q # << >>
    PROVE  /\ Head(q) \in S /\ Tail(q) \in Seq(S)
           /\ Len(Tail(q)) = Len(q) - 1 /\ Len(q) \in Nat \ {0}
           /\ q[1] = Head(q)
           /\ \A i \in 1 .. Len(Tail(q)) : Tail(q)[i] = q[i + 1]
           /\ \A y : In(q, y) <=> y = Head(q) \/ In(Tail(q), y)
<1>1. /\ Head(q) \in S /\ Tail(q) \in Seq(S)
      /\ Len(Tail(q)) = Len(q) - 1
      /\ \A i \in 1 .. Len(Tail(q)) : Tail(q)[i] = q[i + 1]
  BY HeadTailProperties
<1>2. Len(q) \in Nat \ {0}
  BY EmptySeq
<1>3. q[1] = Head(q)
  BY <1>2
<1>4. ASSUME NEW y
      PROVE  In(q, y) <=> y = Head(q) \/ In(Tail(q), y)
  <2>1. CASE In(q, y)
    <3>1. PICK i \in 1 .. Len(q) : q[i] = y
      BY <2>1 DEF In
    <3>2. CASE i = 1
      BY <1>3, <2>1, <3>1, <3>2
    <3>3. CASE i # 1
      <4>1. i - 1 \in 1 .. Len(Tail(q)) /\ Tail(q)[i - 1] = q[(i - 1) + 1] /\ (i - 1) + 1 = i
        BY <1>1, <1>2, <3>1, <3>3
      <4>2. In(Tail(q), y)
        BY <3>1, <4>1 DEF In
      <4> QED
        BY <2>1, <4>2
    <3> QED
      BY <3>2, <3>3, <2>1
  <2>2. CASE y = Head(q)
    BY <1>2, <1>3, <2>2 DEF In
  <2>3. CASE In(Tail(q), y)
    <3>1. PICK i \in 1 .. Len(Tail(q)) : Tail(q)[i] = y
      BY <2>3 DEF In
    <3>2. i + 1 \in 1 .. Len(q) /\ q[i + 1] = y
      BY <1>1, <1>2, <3>1
    <3> QED
      BY <2>3, <3>2 DEF In
  <2> QED
    BY <2>1, <2>2, <2>3
<1> QED
  BY <1>1, <1>2, <1>3, <1>4

(* Putting a stamp to a FIFO of the driver. *)
LEMMA PutTypes ==
    ASSUME NEW q \in Seq(Triggers), NEW n \in Triggers, Len(q) <= FIFO_ROOM
    PROVE  putToFIFO(q, n) \in Seq(Triggers) /\ Len(putToFIFO(q, n)) <= FIFO_ROOM
  BY AppendIn, CtimeAssumption DEF putToFIFO

(* Taking a stamp from a FIFO of the driver. *)
LEMMA TailTypes ==
    ASSUME NEW q \in Seq(Triggers), q # << >>, Len(q) <= FIFO_ROOM
    PROVE  Tail(q) \in Seq(Triggers) /\ Len(Tail(q)) <= FIFO_ROOM /\ Head(q) \in Triggers
  BY TailIn, CtimeAssumption

(* The budget of triggers. *)
LEMMA BoundFinite == IsFiniteSet(Bound) /\ Cardinality(Bound) \in Nat
<1>1. Bound \in SUBSET Getters
  BY DEF Bound
<1> QED
  BY <1>1, CtimeAssumption, FS_Subset, FS_CardinalityType

(* Who enters or leaves the place where its trigger is counted changes the  *)
(* budget by one, and nobody else does.                                     *)
LEMMA BoundSteps ==
    ASSUME CtimeInv, NEW p \in Procs, NEW place \in Places,
           pc' = [pc EXCEPT ![p] = place]
    PROVE  /\ Cardinality(Bound)' \in Nat /\ Cardinality(Bound) \in Nat
           /\ place # "ctime" => Cardinality(Bound)' <= Cardinality(Bound)
           /\ place # "ctime" /\ pc[p] = "ctime" => Cardinality(Bound)' = Cardinality(Bound) - 1
           /\ p \in Getters => Cardinality(Bound)' <= Cardinality(Bound) + 1
<1>1. pc \in [Procs -> Places] /\ Getters \subseteq Procs
      /\ (pc[p] = "ctime" => p \in Getters)
  BY DEF CtimeInv, Calls, Procs
<1>2. IsFiniteSet(Bound) /\ Cardinality(Bound) \in Nat
  BY BoundFinite
<1>3. CASE place # "ctime"
  <2>1. Bound' = Bound \ {p}
    BY <1>1, <1>3 DEF Bound
  <2>2. pc[p] = "ctime" <=> p \in Bound
    BY <1>1 DEF Bound
  <2>3. /\ IsFiniteSet(Bound \ {p})
        /\ Cardinality(Bound \ {p}) =
             IF p \in Bound THEN Cardinality(Bound) - 1 ELSE Cardinality(Bound)
    BY <1>2, FS_RemoveElement
  <2>4. Cardinality(Bound \ {p}) \in Nat
    BY <2>3, FS_CardinalityType
  <2>5. Cardinality(Bound)' = Cardinality(Bound \ {p})
    BY <2>1
  <2> QED
    BY <1>2, <1>3, <2>2, <2>3, <2>4, <2>5
<1>4. CASE place = "ctime" /\ p \in Getters
  <2>1. Bound' = Bound \cup {p}
    BY <1>1, <1>4 DEF Bound
  <2>2. /\ IsFiniteSet(Bound \cup {p})
        /\ Cardinality(Bound \cup {p}) =
             IF p \in Bound THEN Cardinality(Bound) ELSE Cardinality(Bound) + 1
    BY <1>2, FS_AddElement
  <2>3. Cardinality(Bound \cup {p}) \in Nat
    BY <2>2, FS_CardinalityType
  <2>4. Cardinality(Bound)' = Cardinality(Bound \cup {p})
    BY <2>1
  <2> QED
    BY <1>2, <1>4, <2>2, <2>3, <2>4
<1>5. CASE place = "ctime" /\ p \notin Getters
  <2>1. Bound' = Bound
    BY <1>1, <1>5 DEF Bound
  <2> QED
    BY <1>2, <1>5, <2>1
<1> QED
  BY <1>3, <1>4, <1>5

-----------------------------------------------------------------------------
(* All FIFOs are empty and nobody sleeps. *)
LEMMA InitCtimeInv == Init => CtimeInv
<1> SUFFICES ASSUME Init PROVE CtimeInv
  OBVIOUS
<1>1. Bound = {} /\ Cardinality(Bound) = 0
  <2>1. Bound = {}
    BY DEF Init, Bound, Procs
  <2> QED
    BY <2>1, FS_EmptySet
<1>2. << >> \in Seq(Stamps) /\ << >> \in Seq(Triggers) /\ Len(<< >>) = 0
  BY EmptySeq
<1>3. Clocks
  BY <1>1, <1>2, CtimeAssumption DEF Init, Clocks
<1>4. Calls
  <2>1. Nothing \in Results /\ 0 \in 0 .. MaxTriggers
    BY CtimeAssumption DEF Results, Times, Nothing
  <2> QED
    BY <2>1 DEF Init, Calls, Places, Procs
<1>5. WakeupComes
  BY DEF Init, WakeupComes
<1> QED
  BY <1>3, <1>4, <1>5 DEF CtimeInv

(* A trigger is fired while there is room in the budget.                    *)
LEMMA FireTypes ==
    ASSUME CtimeInv, NEW kind \in {"CTIME", "TRIG"}, Fire(kind), fired < MaxTriggers
    PROVE  /\ fired' \in Nat /\ fired' = fired + 1 /\ fired' \in Triggers
           /\ scf' \in Seq(Stamps) /\ midway' \in Seq(Stamps) /\ mcf' = mcf
           /\ scf' = Append(scf, Stamp(kind, fired'))
           /\ midway' = Append(midway, Stamp(kind, fired'))
           /\ Stamp(kind, fired') \in Stamps
<1>1. fired \in Nat /\ scf \in Seq(Stamps) /\ midway \in Seq(Stamps)
  BY DEF CtimeInv, Clocks
<1>2. fired' = fired + 1 /\ fired + 1 \in Triggers /\ mcf' = mcf
      /\ scf' = Append(scf, Stamp(kind, fired + 1))
      /\ midway' = Append(midway, Stamp(kind, fired + 1))
  BY <1>1, CtimeAssumption DEF Fire, Triggers
<1>3. Stamp(kind, fired + 1) \in Stamps
  BY <1>2 DEF Stamp, Stamps
<1> QED
  BY <1>1, <1>2, <1>3, AppendIn

(* A trigger from outside, within the budget. *)
LEMMA HardwareTriggerStep ==
    ASSUME CtimeInv, HardwareTrigger
    PROVE  CtimeInv'
<1>1. Fire("TRIG") /\ UNCHANGED << irqVars, fifoVars, CTIME_sem, sem, procVars >>
      /\ fired + Cardinality(Bound) < MaxTriggers
  BY DEF HardwareTrigger, Budget, Bound
<1>2. Bound' = Bound
  BY <1>1 DEF Bound, procVars
<1>3. Cardinality(Bound) \in Nat /\ fired \in Nat /\ MaxTriggers \in Nat
  BY BoundFinite, CtimeAssumption DEF CtimeInv, Clocks
<1>4. fired < MaxTriggers
  BY <1>1, <1>3
<1>5. Clocks'
  <2>1. fired' + Cardinality(Bound)' <= MaxTriggers
    BY <1>1, <1>2, <1>3 DEF Fire
  <2> QED
    BY <1>1, <1>4, <2>1, FireTypes DEF CtimeInv, Clocks, fifoVars
<1>6. Calls' /\ WakeupComes'
  BY <1>1 DEF CtimeInv, Calls, WakeupComes, Sleeps, fifoVars, procVars, irqVars
<1> QED
  BY <1>5, <1>6 DEF CtimeInv

(* The stamp of the machine clock follows the one of the system clock. *)
LEMMA StampMCStep ==
    ASSUME CtimeInv, StampMC
    PROVE  CtimeInv'
<1>1. /\ midway # << >> /\ mcf' = Append(mcf, Head(midway)) /\ midway' = Tail(midway)
      /\ UNCHANGED << fired, scf, irqVars, fifoVars, CTIME_sem, sem, procVars >>
  BY DEF StampMC
<1>2. mcf' \in Seq(Stamps) /\ midway' \in Seq(Stamps)
  <2>1. Head(midway) \in Stamps /\ Tail(midway) \in Seq(Stamps)
    BY <1>1, TailIn DEF CtimeInv, Clocks
  <2> QED
    BY <1>1, <2>1, AppendIn DEF CtimeInv, Clocks
<1>3. Bound' = Bound
  BY <1>1 DEF Bound, procVars
<1>4. Clocks'
  BY <1>1, <1>2, <1>3 DEF CtimeInv, Clocks, fifoVars
<1>5. Calls' /\ WakeupComes'
  BY <1>1 DEF CtimeInv, Calls, WakeupComes, Sleeps, fifoVars, procVars, irqVars
<1> QED
  BY <1>4, <1>5 DEF CtimeInv

(* The handler: it is where it puts a stamp until it has woken its queue.   *)
LEMMA HandlerStep ==
    ASSUME CtimeInv, Hardware
    PROVE  CtimeInv'
<1>1. CASE libera_interrupt
  <2>1. /\ UNCHANGED << hwVars, fifoVars, CTIME_sem, sem, procVars >>
        /\ irq \in {"off", "test"} /\ irq' \in {"off", "sc"}
        /\ int_vec' \in SUBSET {"SC", "MC"}
    BY <1>1 DEF libera_interrupt, SBC_IRQ
  <2>2. Bound' = Bound
    BY <2>1 DEF Bound, procVars
  <2>3. Clocks' /\ Calls'
    BY <2>1, <2>2 DEF CtimeInv, Clocks, Calls, fifoVars, procVars, hwVars
  <2>4. WakeupComes'
    BY <2>1 DEF CtimeInv, WakeupComes, Sleeps, fifoVars, procVars
  <2> QED
    BY <2>3, <2>4 DEF CtimeInv
<1>2. CASE libera_sc_handler
  <2>1. /\ irq = "sc"
        /\ UNCHANGED << fired, mcf, midway, int_vec, mc_ts, CTIME_sem, sem, pc, sig, own, got >>
    BY <1>2 DEF libera_sc_handler
  <2>2. Bound' = Bound
    BY <2>1 DEF Bound
  <2>3. CASE "SC" \in int_vec /\ scf # << >>
    <3>1. /\ scf' = Tail(scf) /\ irq' = irq /\ tstate' = tstate
          /\ \/ sc_ts' = putToFIFO(sc_ts, Head(scf).n) /\ trig_ts' = trig_ts
             \/ trig_ts' = putToFIFO(trig_ts, Head(scf).n) /\ sc_ts' = sc_ts
      BY <1>2, <2>3 DEF libera_sc_handler
    <3>2. Tail(scf) \in Seq(Stamps) /\ Head(scf) \in Stamps
      BY <2>3, TailIn DEF CtimeInv, Clocks
    <3>3. Head(scf).n \in Triggers
      BY <3>2 DEF Stamps
    <3>4. /\ sc_ts' \in Seq(Triggers) /\ Len(sc_ts') <= FIFO_ROOM
          /\ trig_ts' \in Seq(Triggers) /\ Len(trig_ts') <= FIFO_ROOM
      BY <3>1, <3>3, PutTypes DEF CtimeInv, Clocks
    <3>5. Clocks'
      BY <2>1, <2>2, <3>1, <3>2, <3>4 DEF CtimeInv, Clocks
    <3>6. Calls'
      BY <2>1, <3>1 DEF CtimeInv, Calls
    <3>7. WakeupComes'
      BY <2>1, <2>3, <3>1 DEF CtimeInv, WakeupComes, Sleeps
    <3> QED
      BY <3>5, <3>6, <3>7 DEF CtimeInv
  <2>4. CASE ~("SC" \in int_vec /\ scf # << >>)
    <3>1. /\ irq' = "mc" /\ UNCHANGED << scf, sc_ts, trig_ts >>
          /\ \/ "SC" \in int_vec /\ WakeUp("SC")
             \/ "SC" \notin int_vec /\ tstate' = tstate
      BY <1>2, <2>4 DEF libera_sc_handler
    <3>2. /\ tstate' \in [Procs -> {"running", "interruptible"}]
          /\ \A p \in Procs : Sleeps(p)' => Sleeps(p)
          /\ \A p \in Waiters : Sleeps(p)' => "SC" \notin int_vec
      BY <2>1, <3>1 DEF CtimeInv, Calls, WakeUp, Waiting, Sleeps, Procs
    <3>3. Clocks' /\ Calls'
      BY <2>1, <2>2, <3>1, <3>2 DEF CtimeInv, Clocks, Calls
    <3>4. WakeupComes'
      BY <2>1, <3>1, <3>2 DEF CtimeInv, WakeupComes, Procs
    <3> QED
      BY <3>3, <3>4 DEF CtimeInv
  <2> QED
    BY <2>3, <2>4
<1>3. CASE libera_mc_handler
  <2>1. /\ irq = "mc"
        /\ UNCHANGED << fired, scf, midway, int_vec, sc_ts, trig_ts, CTIME_sem, sem,
                        pc, sig, own, got >>
    BY <1>3 DEF libera_mc_handler
  <2>2. Bound' = Bound
    BY <2>1 DEF Bound
  <2>3. CASE "MC" \in int_vec /\ mcf # << >>
    <3>1. /\ mcf' = Tail(mcf) /\ irq' = irq /\ tstate' = tstate
          /\ mc_ts' = mc_ts \/ mc_ts' = putToFIFO(mc_ts, Head(mcf).n)
      BY <1>3, <2>3 DEF libera_mc_handler
    <3>2. Tail(mcf) \in Seq(Stamps) /\ Head(mcf) \in Stamps
      BY <2>3, TailIn DEF CtimeInv, Clocks
    <3>3. Head(mcf).n \in Triggers
      BY <3>2 DEF Stamps
    <3>4. mc_ts \in Seq(Triggers) /\ Len(mc_ts) <= FIFO_ROOM
      BY DEF CtimeInv, Clocks
    <3>5. mc_ts' \in Seq(Triggers) /\ Len(mc_ts') <= FIFO_ROOM
          /\ (mc_ts # << >> => mc_ts' # << >>)
      BY <3>1, <3>3, <3>4, PutTypes, AppendIn DEF putToFIFO
    <3>6. Clocks'
      BY <2>1, <2>2, <3>1, <3>2, <3>5 DEF CtimeInv, Clocks
    <3>7. Calls'
      BY <2>1, <3>1, <3>5 DEF CtimeInv, Calls
    <3>8. WakeupComes'
      BY <2>1, <2>3, <3>1 DEF CtimeInv, WakeupComes, Sleeps
    <3> QED
      BY <3>6, <3>7, <3>8 DEF CtimeInv
  <2>4. CASE ~("MC" \in int_vec /\ mcf # << >>)
    <3>1. /\ irq' = "test" /\ UNCHANGED << mcf, mc_ts >>
          /\ \/ "MC" \in int_vec /\ WakeUp("MC")
             \/ "MC" \notin int_vec /\ tstate' = tstate
      BY <1>3, <2>4 DEF libera_mc_handler
    <3>2. /\ tstate' \in [Procs -> {"running", "interruptible"}]
          /\ \A p \in Procs : Sleeps(p)' => Sleeps(p)
          /\ \A p \in Getters : Sleeps(p)' => "MC" \notin int_vec
      BY <2>1, <3>1 DEF CtimeInv, Calls, WakeUp, Waiting, Sleeps, Procs
    <3>3. Clocks' /\ Calls'
      BY <2>1, <2>2, <3>1, <3>2 DEF CtimeInv, Clocks, Calls
    <3>4. WakeupComes'
      BY <2>1, <3>1, <3>2 DEF CtimeInv, WakeupComes, Procs
    <3> QED
      BY <3>3, <3>4 DEF CtimeInv
  <2> QED
    BY <2>3, <2>4
<1> QED
  BY <1>1, <1>2, <1>3 DEF Hardware

-----------------------------------------------------------------------------
(* A step of a process, past what it fires: places and FIFOs.               *)
Shorter(q, r) == r = q \/ (q # << >> /\ r = Tail(q))

(* A step of a process: what it must show of its place and of the FIFOs to  *)
(* keep the invariant.                                                      *)
LEMMA ProcessTypes ==
    ASSUME CtimeInv, NEW p \in Procs, NEW from \in Places, NEW place \in Places \ {"ctime"},
           Step(p, from), pc' = [pc EXCEPT ![p] = place],
           UNCHANGED hwVars,
           Shorter(sc_ts, sc_ts'), Shorter(mc_ts, mc_ts'), Shorter(trig_ts, trig_ts'),
           place \in {"take", "sleep"} => UNCHANGED fifoVars,
           place = "take" => FifoOf(p) # << >>,
           place = "sleep" => FifoOf(p) = << >>,
           tstate' \in [Procs -> {"running", "interruptible"}],
           \A q \in Procs : q # p => tstate'[q] = tstate[q],
           CTIME_sem' \in Getters \cup {NULL}, sem' \in BOOLEAN,
           sig' \in [Procs -> BOOLEAN], own' \in [Procs -> 0 .. MaxTriggers],
           got' \in [Procs -> Results]
    PROVE  CtimeInv'
<1>1. /\ irq = "off" /\ pc[p] = from /\ UNCHANGED irqVars
      /\ \A q \in Procs \ {p} : pc[q] # "take"
  BY DEF Step
<1>2. Getters \subseteq Procs /\ Waiters \subseteq Procs /\ Getters \cap Waiters = {}
  BY CtimeAssumption DEF Procs
<1>3. /\ sc_ts' \in Seq(Triggers) /\ mc_ts' \in Seq(Triggers) /\ trig_ts' \in Seq(Triggers)
      /\ Len(sc_ts') <= FIFO_ROOM /\ Len(mc_ts') <= FIFO_ROOM /\ Len(trig_ts') <= FIFO_ROOM
  BY TailTypes DEF CtimeInv, Clocks, Shorter
<1>4. Clocks'
  <2>1. Cardinality(Bound)' <= Cardinality(Bound)
        /\ Cardinality(Bound)' \in Nat /\ Cardinality(Bound) \in Nat
    BY BoundSteps
  <2>2. /\ fired' = fired /\ fired \in Nat /\ UNCHANGED << scf, mcf, midway >>
        /\ fired + Cardinality(Bound) <= MaxTriggers /\ MaxTriggers \in Nat
    BY CtimeAssumption DEF CtimeInv, Clocks, hwVars
  <2>3. fired' + Cardinality(Bound)' <= MaxTriggers
    BY <2>1, <2>2
  <2> QED
    BY <1>3, <2>2, <2>3 DEF CtimeInv, Clocks
<1>5. Calls'
  <2>1. pc' \in [Procs -> Places] /\ \A q \in Procs : pc'[q] = "ctime" => q \in Getters
    BY DEF CtimeInv, Calls
  <2>2. ASSUME NEW q \in Getters, pc'[q] = "take" PROVE mc_ts' # << >>
    <3>1. q = p
      BY <1>1, <1>2, <2>2 DEF CtimeInv, Calls
    <3>2. place = "take"
      BY <2>2, <3>1 DEF CtimeInv, Calls
    <3> QED
      BY <2>2, <3>1, <3>2 DEF FifoOf, fifoVars
  <2> QED
    BY <1>1, <2>1, <2>2 DEF CtimeInv, Calls, irqVars
<1>6. WakeupComes'
  <2>1. ASSUME NEW q \in Procs, Sleeps(q)' PROVE FifoOf(q)' = << >>
    <3>1. CASE q = p
      <4>1. place = "sleep"
        BY <2>1, <3>1 DEF Sleeps, CtimeInv, Calls
      <4> QED
        BY <3>1, <4>1 DEF FifoOf, fifoVars
    <3>2. CASE q # p
      <4>1. Sleeps(q)
        BY <2>1, <3>2 DEF Sleeps, CtimeInv, Calls
      <4>2. FifoOf(q) = << >>
        BY <1>1, <1>2, <4>1 DEF CtimeInv, WakeupComes, FifoOf, Procs
      <4> QED
        BY <4>2 DEF FifoOf, Shorter
    <3> QED
      BY <3>1, <3>2
  <2> QED
    BY <1>2, <2>1 DEF WakeupComes, FifoOf
<1> QED
  BY <1>4, <1>5, <1>6 DEF CtimeInv

(* What the way out of an ioctl leaves.                                     *)
LEMMA ReturnTypes ==
    ASSUME CtimeInv, NEW p \in Procs, NEW value \in Results, Return(p, value)
    PROVE  /\ pc' = [pc EXCEPT ![p] = "user"]
           /\ sig' \in [Procs -> BOOLEAN] /\ own' \in [Procs -> 0 .. MaxTriggers]
           /\ got' \in [Procs -> Results]
  BY CtimeAssumption DEF CtimeInv, Calls, Return, Goto

(* The results of the ioctls are results. *)
LEMMA ResultTypes ==
    /\ \A p \in Procs : Interrupted(p) \in Results
    /\ Nothing \in Results
    /\ \A r \in {"0", "EAGAIN", "EFAULT"} : [Nothing EXCEPT !.ret = r] \in Results
    /\ \A lst, lmt \in Times : [ret |-> "0", lmt |-> lmt, lst |-> lst] \in Results
<1>1. 0 \in Times /\ NULL \in Times
  BY CtimeAssumption DEF Times
<1> QED
  BY <1>1 DEF Results, Nothing, Interrupted, Garbage

(* The steps that leave the FIFOs alone.                                    *)
LEMMA PlainSteps ==
    ASSUME CtimeInv, NEW p \in Procs,
           \/ LockCTIMEInterrupted(p) \/ CallTrigger(p) \/ LockSemInterrupted(p)
           \/ Prepare(p) \/ Wake(p) \/ Timeout(p) \/ Relock(p) \/ CopyTrigger(p)
    PROVE  CtimeInv'
<1>1. /\ UNCHANGED hwVars /\ UNCHANGED fifoVars
      /\ Shorter(sc_ts, sc_ts') /\ Shorter(mc_ts, mc_ts') /\ Shorter(trig_ts, trig_ts')
  BY DEF LockCTIMEInterrupted, CallTrigger, LockSemInterrupted, Prepare, Wake, Timeout,
     Relock, CopyTrigger, Shorter, fifoVars
<1>2. /\ CTIME_sem \in Getters \cup {NULL} /\ sem \in BOOLEAN
      /\ tstate \in [Procs -> {"running", "interruptible"}]
      /\ sig \in [Procs -> BOOLEAN] /\ own \in [Procs -> 0 .. MaxTriggers]
      /\ got \in [Procs -> Results]
  BY DEF CtimeInv, Calls
<1>3. CASE LockCTIMEInterrupted(p) \/ LockSemInterrupted(p) \/ Timeout(p) \/ CopyTrigger(p)
  <2>1. PICK value \in Results : Return(p, value)
    BY <1>3, ResultTypes DEF LockCTIMEInterrupted, LockSemInterrupted, Timeout, CopyTrigger
  <2>2. PICK from \in Places : Step(p, from)
    BY <1>3 DEF LockCTIMEInterrupted, LockSemInterrupted, Timeout, CopyTrigger, Places
  <2>3. /\ CTIME_sem' \in Getters \cup {NULL} /\ sem' \in BOOLEAN
        /\ tstate' \in [Procs -> {"running", "interruptible"}]
        /\ \A q \in Procs : q # p => tstate'[q] = tstate[q]
    BY <1>2, <1>3 DEF LockCTIMEInterrupted, LockSemInterrupted, Timeout, CopyTrigger,
       ReleaseCTIME
  <2>4. "user" \in Places \ {"ctime"}
    BY DEF Places
  <2> QED
    BY <1>1, <2>1, <2>2, <2>3, <2>4, ReturnTypes, ProcessTypes
<1>4. CASE CallTrigger(p) \/ Prepare(p) \/ Wake(p) \/ Relock(p)
  <2>1. PICK from \in Places, place \in {"lock", "recheck", "relock", "prepare"} :
            Step(p, from) /\ pc' = [pc EXCEPT ![p] = place]
    BY <1>4 DEF CallTrigger, Prepare, Wake, Relock, Goto, Places
  <2>2. /\ CTIME_sem' = CTIME_sem /\ sem' \in BOOLEAN /\ sig' = sig /\ own' = own
        /\ tstate' \in [Procs -> {"running", "interruptible"}]
        /\ \A q \in Procs : q # p => tstate'[q] = tstate[q]
    BY <1>2, <1>4 DEF CallTrigger, Prepare, Wake, Relock
  <2>3. got' \in [Procs -> Results]
    BY <1>2, <1>4, ResultTypes DEF CallTrigger, Prepare, Wake, Relock
  <2>4. place \in Places \ {"ctime"}
    BY DEF Places
  <2> QED
    BY <1>1, <1>2, <2>1, <2>2, <2>3, <2>4, ProcessTypes
<1> QED
  BY <1>3, <1>4

(* The steps that test a FIFO or take from it.                              *)
LEMMA TestSteps ==
    ASSUME CtimeInv, NEW p \in Procs, LockSem(p) \/ Recheck(p)
    PROVE  CtimeInv'
<1>1. /\ UNCHANGED hwVars /\ UNCHANGED fifoVars
      /\ Shorter(sc_ts, sc_ts') /\ Shorter(mc_ts, mc_ts') /\ Shorter(trig_ts, trig_ts')
  BY DEF LockSem, Recheck, Shorter, fifoVars
<1>2. /\ CTIME_sem \in Getters \cup {NULL} /\ sem \in BOOLEAN
      /\ tstate \in [Procs -> {"running", "interruptible"}]
      /\ sig \in [Procs -> BOOLEAN] /\ own \in [Procs -> 0 .. MaxTriggers]
      /\ got \in [Procs -> Results]
  BY DEF CtimeInv, Calls
<1>3. {"lock", "recheck"} \subseteq Places
      /\ {"take", "prepare", "sleep", "user"} \subseteq Places \ {"ctime"}
  BY DEF Places
<1>4. CASE LockSem(p)
  <2>1. /\ Step(p, "lock")
        /\ \/ FifoOf(p) = << >> /\ pc' = [pc EXCEPT ![p] = "prepare"]
           \/ FifoOf(p) # << >> /\ pc' = [pc EXCEPT ![p] = "take"]
        /\ sem' \in BOOLEAN /\ UNCHANGED << CTIME_sem, tstate, sig, own, got >>
    BY <1>4 DEF LockSem, Goto
  <2> QED
    BY <1>1, <1>2, <1>3, <2>1, ProcessTypes
<1>5. CASE Recheck(p)
  <2>1. Step(p, "recheck")
    BY <1>5 DEF Recheck
  <2>2. CASE FifoOf(p) # << >>
    <3>1. /\ pc' = [pc EXCEPT ![p] = "take"] /\ tstate' = [tstate EXCEPT ![p] = "running"]
          /\ UNCHANGED << CTIME_sem, sem, sig, own, got >>
      BY <1>5, <2>2 DEF Recheck, Goto
    <3> QED
      BY <1>1, <1>2, <1>3, <2>1, <2>2, <3>1, ProcessTypes
  <2>3. CASE FifoOf(p) = << >> /\ ~sig[p]
    <3>1. /\ pc' = [pc EXCEPT ![p] = "sleep"] /\ sem' = FALSE
          /\ UNCHANGED << CTIME_sem, tstate, sig, own, got >>
      BY <1>5, <2>3 DEF Recheck, Goto
    <3> QED
      BY <1>1, <1>2, <1>3, <2>1, <2>3, <3>1, ProcessTypes
  <2>4. CASE FifoOf(p) = << >> /\ sig[p]
    <3>1. /\ sem' = FALSE /\ tstate' = [tstate EXCEPT ![p] = "running"]
          /\ Return(p, Interrupted(p)) /\ ReleaseCTIME(p)
      BY <1>5, <2>4 DEF Recheck
    <3>2. CTIME_sem' \in Getters \cup {NULL}
      BY <1>2, <3>1 DEF ReleaseCTIME
    <3>3. /\ pc' = [pc EXCEPT ![p] = "user"]
          /\ sig' \in [Procs -> BOOLEAN] /\ own' \in [Procs -> 0 .. MaxTriggers]
          /\ got' \in [Procs -> Results]
      BY <3>1, ResultTypes, ReturnTypes
    <3> QED
      BY <1>1, <1>2, <1>3, <2>1, <3>1, <3>2, <3>3, ProcessTypes
  <2> QED
    BY <2>2, <2>3, <2>4
<1> QED
  BY <1>4, <1>5

(* The steps that take a stamp. *)
LEMMA TakeSteps ==
    ASSUME CtimeInv, NEW p \in Procs, TakeCTIME(p) \/ TakeTrigger(p)
    PROVE  CtimeInv'
<1>1. /\ CTIME_sem \in Getters \cup {NULL} /\ sem \in BOOLEAN
      /\ tstate \in [Procs -> {"running", "interruptible"}]
      /\ sig \in [Procs -> BOOLEAN] /\ own \in [Procs -> 0 .. MaxTriggers]
      /\ got \in [Procs -> Results] /\ mc_ts \in Seq(Triggers) /\ sc_ts \in Seq(Triggers)
  BY DEF CtimeInv, Clocks, Calls
<1>2. "take" \in Places /\ {"user", "copy"} \subseteq Places \ {"ctime"}
  BY DEF Places
<1>3. /\ Step(p, "take") /\ UNCHANGED hwVars /\ tstate' = tstate
      /\ CTIME_sem' \in Getters \cup {NULL} /\ sem' \in BOOLEAN
  BY <1>1 DEF TakeCTIME, TakeTrigger
<1>4. CASE TakeCTIME(p)
  <2>1. mc_ts # << >>
    BY <1>3, <1>4 DEF CtimeInv, Calls, Step, TakeCTIME
  <2>2. /\ mc_ts' = Tail(mc_ts) /\ trig_ts' = trig_ts
        /\ sc_ts' = IF sc_ts = << >> THEN sc_ts ELSE Tail(sc_ts)
        /\ Return(p, [ret |-> "0", lmt |-> Head(mc_ts),
                      lst |-> IF sc_ts = << >> THEN NULL ELSE Head(sc_ts)])
    BY <1>4 DEF TakeCTIME
  <2>3. Head(mc_ts) \in Times /\ (IF sc_ts = << >> THEN NULL ELSE Head(sc_ts)) \in Times
    <3>1. Triggers \subseteq Times
      BY CtimeAssumption DEF Triggers, Times
    <3>2. Head(mc_ts) \in Triggers /\ (sc_ts # << >> => Head(sc_ts) \in Triggers)
      BY <1>1, <2>1, TailIn
    <3> QED
      BY <3>1, <3>2 DEF Times
  <2>4. /\ pc' = [pc EXCEPT ![p] = "user"]
        /\ sig' \in [Procs -> BOOLEAN] /\ own' \in [Procs -> 0 .. MaxTriggers]
        /\ got' \in [Procs -> Results]
    BY <2>2, <2>3, ResultTypes, ReturnTypes
  <2>5. Shorter(sc_ts, sc_ts') /\ Shorter(mc_ts, mc_ts') /\ Shorter(trig_ts, trig_ts')
    BY <2>1, <2>2 DEF Shorter
  <2> QED
    BY <1>1, <1>2, <1>3, <2>4, <2>5, ProcessTypes
<1>5. CASE TakeTrigger(p)
  <2>1. sc_ts' = sc_ts /\ mc_ts' = mc_ts
    BY <1>5 DEF TakeTrigger
  <2>2. CASE trig_ts # << >>
    <3>1. trig_ts' = Tail(trig_ts) /\ pc' = [pc EXCEPT ![p] = "copy"]
          /\ UNCHANGED << sem, sig, own, got >>
      BY <1>5, <2>2 DEF TakeTrigger, Goto
    <3>2. Shorter(sc_ts, sc_ts') /\ Shorter(mc_ts, mc_ts') /\ Shorter(trig_ts, trig_ts')
      BY <2>1, <2>2, <3>1 DEF Shorter
    <3> QED
      BY <1>1, <1>2, <1>3, <3>1, <3>2, ProcessTypes
  <2>3. CASE trig_ts = << >>
    <3>1. trig_ts' = trig_ts /\ Return(p, [Nothing EXCEPT !.ret = "EFAULT"])
      BY <1>5, <2>3 DEF TakeTrigger
    <3>2. Shorter(sc_ts, sc_ts') /\ Shorter(mc_ts, mc_ts') /\ Shorter(trig_ts, trig_ts')
      BY <2>1, <3>1 DEF Shorter
    <3>3. /\ pc' = [pc EXCEPT ![p] = "user"]
          /\ sig' \in [Procs -> BOOLEAN] /\ own' \in [Procs -> 0 .. MaxTriggers]
          /\ got' \in [Procs -> Results]
      BY <3>1, ResultTypes, ReturnTypes
    <3> QED
      BY <1>1, <1>2, <1>3, <3>2, <3>3, ProcessTypes
  <2> QED
    BY <2>2, <2>3
<1> QED
  BY <1>4, <1>5

(* The steps of libera_get_CTIME that the budget of triggers counts.        *)
LEMMA FiringSteps ==
    ASSUME CtimeInv, NEW p \in Procs, CallCTIME(p) \/ LockCTIME(p)
    PROVE  CtimeInv'
<1>1. /\ fired \in Nat /\ fired + Cardinality(Bound) <= MaxTriggers /\ MaxTriggers \in Nat
      /\ pc \in [Procs -> Places] /\ got \in [Procs -> Results]
      /\ own \in [Procs -> 0 .. MaxTriggers]
      /\ (pc[p] = "ctime" => p \in Getters) /\ Getters \subseteq Procs
  BY CtimeAssumption DEF CtimeInv, Clocks, Calls, Procs
<1>2. CASE CallCTIME(p)
  <2>1. /\ p \in Getters /\ fired + Cardinality(Bound) < MaxTriggers
        /\ irq = "off" /\ pc[p] = "user" /\ pc' = [pc EXCEPT ![p] = "ctime"]
        /\ got' = [got EXCEPT ![p] = Nothing]
        /\ UNCHANGED << hwVars, irqVars, fifoVars, CTIME_sem, sem, tstate, sig, own >>
    BY <1>2 DEF CallCTIME, Budget, Bound, Step, Goto
  <2>2. "ctime" \in Places
    BY DEF Places
  <2>3. Cardinality(Bound)' <= Cardinality(Bound) + 1
        /\ Cardinality(Bound)' \in Nat /\ Cardinality(Bound) \in Nat
    BY <2>1, <2>2, BoundSteps
  <2>4. fired' + Cardinality(Bound)' <= MaxTriggers
    BY <1>1, <2>1, <2>3 DEF hwVars
  <2>5. Clocks'
    BY <2>1, <2>4 DEF CtimeInv, Clocks, hwVars, fifoVars
  <2>6. Calls'
    BY <1>1, <2>1, <2>2, ResultTypes DEF CtimeInv, Calls, irqVars, fifoVars
  <2>7. WakeupComes'
    BY <1>1, <2>1 DEF CtimeInv, WakeupComes, Sleeps, irqVars, fifoVars, Procs
  <2> QED
    BY <2>5, <2>6, <2>7 DEF CtimeInv
<1>3. CASE LockCTIME(p)
  <2>1. /\ irq = "off" /\ pc[p] = "ctime" /\ pc' = [pc EXCEPT ![p] = "lock"]
        /\ CTIME_sem' = p /\ Fire("CTIME") /\ own' = [own EXCEPT ![p] = fired + 1]
        /\ UNCHANGED << irqVars, fifoVars, sem, tstate, sig, got >>
    BY <1>3 DEF LockCTIME, Step, Goto
  <2>2. "lock" \in Places /\ "lock" # "ctime"
    BY DEF Places
  <2>3. Cardinality(Bound)' = Cardinality(Bound) - 1
        /\ Cardinality(Bound)' \in Nat /\ Cardinality(Bound) \in Nat
    BY <2>1, <2>2, BoundSteps
  <2>4. fired < MaxTriggers
    BY <1>1, <2>3
  <2>5. /\ fired' \in Nat /\ fired' = fired + 1 /\ fired' \in Triggers
        /\ scf' \in Seq(Stamps) /\ midway' \in Seq(Stamps) /\ mcf' = mcf
    BY <2>1, <2>4, FireTypes
  <2>6. fired' + Cardinality(Bound)' <= MaxTriggers
    BY <1>1, <2>3, <2>5
  <2>7. Clocks'
    BY <2>1, <2>5, <2>6 DEF CtimeInv, Clocks, fifoVars
  <2>8. fired + 1 \in 0 .. MaxTriggers
    BY <1>1, <2>4
  <2>9. Calls'
    BY <1>1, <2>1, <2>2, <2>8 DEF CtimeInv, Calls, irqVars, fifoVars
  <2>10. WakeupComes'
    BY <1>1, <2>1 DEF CtimeInv, WakeupComes, Sleeps, irqVars, fifoVars, Procs
  <2> QED
    BY <2>7, <2>9, <2>10 DEF CtimeInv
<1> QED
  BY <1>2, <1>3

(* A signal makes a process runnable, wherever it is. *)
LEMMA SignalStep ==
    ASSUME CtimeInv, NEW p \in Procs, Signal(p)
    PROVE  CtimeInv'
<1>1. /\ sig' = [sig EXCEPT ![p] = TRUE] /\ tstate' = [tstate EXCEPT ![p] = "running"]
      /\ UNCHANGED << hwVars, irqVars, fifoVars, CTIME_sem, sem, pc, own, got >>
  BY DEF Signal
<1>2. Bound' = Bound
  BY <1>1 DEF Bound
<1>3. Clocks' /\ Calls'
  BY <1>1, <1>2 DEF CtimeInv, Clocks, Calls, hwVars, irqVars, fifoVars
<1>4. WakeupComes'
  BY <1>1 DEF CtimeInv, Calls, WakeupComes, Sleeps, irqVars, fifoVars, Procs
<1> QED
  BY <1>3, <1>4 DEF CtimeInv

(* Every step keeps the invariant. *)
LEMMA NextKeepsCtimeInv == CtimeInv /\ [Next]_vars => CtimeInv'
<1> SUFFICES ASSUME CtimeInv, [Next]_vars PROVE CtimeInv'
  OBVIOUS
<1>1. CASE UNCHANGED vars
  <2>1. UNCHANGED << Bound, hwVars, irqVars, fifoVars, CTIME_sem, sem, procVars >>
    BY <1>1 DEF vars, Bound, procVars
  <2> QED
    BY <2>1 DEF CtimeInv, Clocks, Calls, WakeupComes, Sleeps, hwVars, irqVars, fifoVars,
       procVars
<1>2. CASE Next
  BY <1>2, HardwareTriggerStep, StampMCStep, HandlerStep, PlainSteps, TestSteps, TakeSteps,
     FiringSteps, SignalStep DEF Next, Run
<1> QED
  BY <1>1, <1>2

(* Processes, FIFOs, the handler and the budget of triggers fit together at  *)
(* every step of the handler and of the ioctls.                             *)
THEOREM CtimeConsistent == Spec => []CtimeInv
  BY InitCtimeInv, NextKeepsCtimeInv, PTL DEF Spec

(* No FIFO of stamps holds more than its room, no stamp is of a trigger that *)
(* was not fired, and what a user gets is a time or an error.               *)
THEOREM CtimeTypeCorrect == Spec => []CtimeTypeOK
<1>1. CtimeInv => CtimeTypeOK
  <2> SUFFICES ASSUME CtimeInv PROVE CtimeTypeOK
    OBVIOUS
  <2>1. fired \in 0 .. MaxTriggers
    BY BoundFinite, CtimeAssumption DEF CtimeInv, Clocks
  <2>2. \A q \in Seq(Stamps) : HwFifo(q)
    BY ElementOfSeq DEF HwFifo, Stamps
  <2>3. \A q \in Seq(Triggers) : Len(q) <= FIFO_ROOM => Fifo(q)
    BY ElementOfSeq DEF Fifo
  <2> QED
    BY <2>1, <2>2, <2>3 DEF CtimeInv, Clocks, Calls, CtimeTypeOK, Results, Times
<1> QED
  BY <1>1, CtimeConsistent, PTL

(* getBlockedFromFIFO and libera_get_CTIME: once the interrupt handler is   *)
(* done, who sleeps and was not made runnable has no stamp to take, though  *)
(* the handler takes no mutex.                                              *)
THEOREM TriggerAlwaysWakes == Spec => []TriggerWakesWaiter
<1>1. CtimeInv => TriggerWakesWaiter
  BY DEF CtimeInv, WakeupComes, Sleeps, TriggerWakesWaiter, FifoOf, Procs
<1> QED
  BY <1>1, CtimeConsistent, PTL

-----------------------------------------------------------------------------
(* The pairs of stamps.                                                     *)
Increasing(q) == \A i, j \in 1 .. Len(q) : i < j => q[i] < q[j]
Sorted(h) == \A i, j \in 1 .. Len(h) : i < j => h[i].n < h[j].n

Below(q, h) == \A x \in Triggers, s \in Stamps : In(q, x) /\ In(h, s) => x < s.n
BelowHw(g, h) == \A r, s \in Stamps : In(g, r) /\ In(h, s) => r.n < s.n

Past(q) == \A x \in Triggers : In(q, x) => x <= fired
PastHw(h) == \A s \in Stamps : In(h, s) => s.n <= fired

(* Each clock's stamps are on their way in the order of the triggers.       *)
Ordered ==
    /\ Increasing(sc_ts) /\ Sorted(scf) /\ Below(sc_ts, scf)
    /\ Increasing(mc_ts) /\ Sorted(mcf) /\ Sorted(midway)
    /\ Below(mc_ts, mcf) /\ Below(mc_ts, midway) /\ BelowHw(mcf, midway)
    /\ Past(sc_ts) /\ Past(mc_ts) /\ PastHw(scf) /\ PastHw(mcf) /\ PastHw(midway)

Ctime(h, n) == In(h, Stamp("CTIME", n))
InSC(n) == In(sc_ts, n) \/ Ctime(scf, n)
InMC(n) == In(mc_ts, n) \/ Ctime(mcf, n) \/ Ctime(midway, n)

(* The two clocks have stamps of the same software triggers on their way.   *)
OnTheWay ==
    /\ \A n \in Triggers : InSC(n) <=> InMC(n)
    /\ irq = "off" => \A n \in Triggers : In(mc_ts, n) => In(sc_ts, n)

Matched == \A p \in Getters : got[p].lmt = got[p].lst

PairInv == Ordered /\ OnTheWay /\ Matched

(* No FIFO of the software trigger is full. *)
Room == Len(sc_ts) < FIFO_ROOM /\ Len(mc_ts) < FIFO_ROOM

(* A later stamp put to an ordered FIFO. *)
LEMMA IncreasingAppend ==
    ASSUME NEW q \in Seq(Triggers), NEW n \in Triggers, Increasing(q),
           \A x \in Triggers : In(q, x) => x < n
    PROVE  Increasing(Append(q, n))
<1> DEFINE r == Append(q, n)
<1>1. /\ Len(r) = Len(q) + 1 /\ Len(q) \in Nat
      /\ \A i \in 1 .. Len(q) : r[i] = q[i]
      /\ r[Len(q) + 1] = n
  BY AppendProperties, LenProperties
<1>2. \A i \in 1 .. Len(q) : q[i] \in Triggers /\ q[i] < n
  BY ElementOfSeq DEF In
<1> HIDE DEF r
<1>3. ASSUME NEW i \in 1 .. Len(r), NEW j \in 1 .. Len(r), i < j PROVE r[i] < r[j]
  <2>1. i \in 1 .. Len(q)
    BY <1>1, <1>3
  <2>2. CASE j = Len(q) + 1
    BY <1>1, <1>2, <2>1, <2>2
  <2>3. CASE j # Len(q) + 1
    <3>1. j \in 1 .. Len(q)
      BY <1>1, <2>3
    <3> QED
      BY <1>1, <1>3, <2>1, <3>1 DEF Increasing
  <2> QED
    BY <2>2, <2>3
<1>4. Increasing(r)
  BY <1>3 DEF Increasing
<1> QED
  BY <1>4 DEF r

(* The oldest stamp taken from an ordered FIFO is before the rest. *)
LEMMA IncreasingTail ==
    ASSUME NEW q \in Seq(Triggers), q # << >>, Increasing(q)
    PROVE  Increasing(Tail(q)) /\ \A x : In(Tail(q), x) => Head(q) < x
<1>1. /\ Len(Tail(q)) = Len(q) - 1 /\ Len(q) \in Nat \ {0} /\ q[1] = Head(q)
      /\ \A i \in 1 .. Len(Tail(q)) : Tail(q)[i] = q[i + 1]
  BY TailIn
<1>2. \A i \in 1 .. Len(Tail(q)) : i + 1 \in 1 .. Len(q) /\ 1 \in 1 .. Len(q) /\ 1 < i + 1
  BY <1>1
<1>3. \A i, j \in 1 .. Len(Tail(q)) : i < j => i + 1 < j + 1
  BY <1>1
<1>4. Increasing(Tail(q))
  BY <1>1, <1>2, <1>3 DEF Increasing
<1>5. \A i \in 1 .. Len(Tail(q)) : Head(q) < Tail(q)[i]
  BY <1>1, <1>2 DEF Increasing
<1> QED
  BY <1>4, <1>5 DEF In

(* The same for a FIFO of the FPGA, put ... *)
LEMMA SortedAppend ==
    ASSUME NEW h \in Seq(Stamps), NEW e \in Stamps, Sorted(h),
           \A s \in Stamps : In(h, s) => s.n < e.n
    PROVE  Sorted(Append(h, e))
<1> DEFINE r == Append(h, e)
<1>1. /\ Len(r) = Len(h) + 1 /\ Len(h) \in Nat
      /\ \A i \in 1 .. Len(h) : r[i] = h[i]
      /\ r[Len(h) + 1] = e
  BY AppendProperties, LenProperties
<1>2. \A i \in 1 .. Len(h) : h[i] \in Stamps /\ h[i].n < e.n
  BY ElementOfSeq DEF In
<1> HIDE DEF r
<1>3. ASSUME NEW i \in 1 .. Len(r), NEW j \in 1 .. Len(r), i < j PROVE r[i].n < r[j].n
  <2>1. i \in 1 .. Len(h)
    BY <1>1, <1>3
  <2>2. CASE j = Len(h) + 1
    BY <1>1, <1>2, <2>1, <2>2
  <2>3. CASE j # Len(h) + 1
    <3>1. j \in 1 .. Len(h)
      BY <1>1, <2>3
    <3> QED
      BY <1>1, <1>3, <2>1, <3>1 DEF Sorted
  <2> QED
    BY <2>2, <2>3
<1>4. Sorted(r)
  BY <1>3 DEF Sorted
<1> QED
  BY <1>4 DEF r

(* ... and taken. *)
LEMMA SortedTail ==
    ASSUME NEW h \in Seq(Stamps), h # << >>, Sorted(h)
    PROVE  Sorted(Tail(h)) /\ \A s : In(Tail(h), s) => Head(h).n < s.n
<1>1. /\ Len(Tail(h)) = Len(h) - 1 /\ Len(h) \in Nat \ {0} /\ h[1] = Head(h)
      /\ \A i \in 1 .. Len(Tail(h)) : Tail(h)[i] = h[i + 1]
  BY TailIn
<1>2. \A i \in 1 .. Len(Tail(h)) : i + 1 \in 1 .. Len(h) /\ 1 \in 1 .. Len(h) /\ 1 < i + 1
  BY <1>1
<1>3. \A i, j \in 1 .. Len(Tail(h)) : i < j => i + 1 < j + 1
  BY <1>1
<1>4. Sorted(Tail(h))
  BY <1>1, <1>2, <1>3 DEF Sorted
<1>5. \A i \in 1 .. Len(Tail(h)) : Head(h).n < Tail(h)[i].n
  BY <1>1, <1>2 DEF Sorted
<1> QED
  BY <1>4, <1>5 DEF In

(* A stamp is told by its kind and its trigger. *)
LEMMA StampFacts ==
    /\ \A n \in Triggers : Stamp("CTIME", n) \in Stamps /\ Stamp("CTIME", n).n = n
    /\ \A s \in Stamps : s.n \in Triggers
    /\ \A s \in Stamps, n \in Triggers :
          s = Stamp("CTIME", n) <=> s.kind = "CTIME" /\ s.n = n
    /\ Triggers \subseteq Nat
  BY CtimeAssumption DEF Stamps, Stamp, Triggers

(* There are no stamps. *)
LEMMA InitPairInv == Init => PairInv
<1> SUFFICES ASSUME Init PROVE PairInv
  OBVIOUS
<1>1. \A x : ~In(<< >>, x)
  BY EmptySeq DEF In
<1>2. Increasing(<< >>) /\ Sorted(<< >>)
  BY EmptySeq DEF Increasing, Sorted
<1>3. Ordered
  BY <1>1, <1>2 DEF Init, Ordered, Below, BelowHw, Past, PastHw
<1>4. OnTheWay
  BY <1>1 DEF Init, OnTheWay, InSC, InMC, Ctime
<1>5. Matched
  BY DEF Init, Matched, Nothing, Procs
<1> QED
  BY <1>3, <1>4, <1>5 DEF PairInv

(* A trigger is the latest of all: its stamps come last in both modules.    *)
LEMMA FireStep ==
    ASSUME CtimeInv, PairInv, NEW kind \in {"CTIME", "TRIG"}, Fire(kind), fired < MaxTriggers,
           UNCHANGED << irq, sc_ts, mc_ts >>
    PROVE  Ordered' /\ OnTheWay'
<1> DEFINE e == Stamp(kind, fired')
<1> DEFINE n == fired + 1
<1>1. /\ fired' = n /\ fired \in Nat /\ n \in Nat /\ fired < n
      /\ n \in Triggers /\ e \in Stamps /\ mcf' = mcf
      /\ scf' = Append(scf, e) /\ midway' = Append(midway, e)
  BY FireTypes DEF CtimeInv, Clocks
<1>2. e.n = n /\ (\A m : Stamp("CTIME", m) = e <=> kind = "CTIME" /\ m = n)
  BY <1>1 DEF Stamp
<1> HIDE DEF n, e
<1>3. /\ scf \in Seq(Stamps) /\ midway \in Seq(Stamps) /\ mcf \in Seq(Stamps)
      /\ Triggers \subseteq Nat /\ \A s \in Stamps : s.n \in Triggers
  BY StampFacts DEF CtimeInv, Clocks
<1>4. /\ \A s : In(scf', s) <=> In(scf, s) \/ s = e
      /\ \A s : In(midway', s) <=> In(midway, s) \/ s = e
  BY <1>1, <1>3, AppendIn
<1>5. /\ \A x \in Triggers : In(sc_ts, x) \/ In(mc_ts, x) => x < n
      /\ \A s \in Stamps : In(scf, s) \/ In(mcf, s) \/ In(midway, s) => s.n < n
  <2>1. ASSUME NEW x \in Triggers, In(sc_ts, x) \/ In(mc_ts, x) PROVE x < n
    <3>1. x <= fired /\ x \in Nat
      BY <1>3, <2>1 DEF PairInv, Ordered, Past
    <3> QED
      BY <1>1, <3>1
  <2>2. ASSUME NEW s \in Stamps, In(scf, s) \/ In(mcf, s) \/ In(midway, s) PROVE s.n < n
    <3>1. s.n <= fired /\ s.n \in Nat
      BY <1>3, <2>2 DEF PairInv, Ordered, PastHw
    <3> QED
      BY <1>1, <3>1
  <2> QED
    BY <2>1, <2>2
<1>6. Sorted(scf') /\ Sorted(midway')
  BY <1>1, <1>2, <1>3, <1>5, SortedAppend DEF PairInv, Ordered
<1>7. /\ Below(sc_ts, scf)' /\ Below(mc_ts, mcf)' /\ Below(mc_ts, midway)'
      /\ BelowHw(mcf, midway)'
  BY <1>1, <1>2, <1>4, <1>5 DEF PairInv, Ordered, Below, BelowHw
<1>8. Past(sc_ts)' /\ Past(mc_ts)'
  <2>1. \A x \in Triggers : x < n => x <= n
    BY <1>1, <1>3
  <2> QED
    BY <1>1, <1>5, <2>1 DEF Past, PairInv, Ordered
<1>9. PastHw(scf)' /\ PastHw(mcf)' /\ PastHw(midway)'
  <2>1. ASSUME NEW s \in Stamps, s.n < n \/ s = e PROVE s.n <= n
    <3>1. s.n \in Nat
      BY <1>3
    <3>2. CASE s.n < n
      BY <1>1, <3>1, <3>2
    <3>3. CASE s = e
      BY <1>1, <1>2, <3>3
    <3> QED
      BY <2>1, <3>2, <3>3
  <2>2. /\ \A s \in Stamps : In(scf', s) => s.n <= n
        /\ \A s \in Stamps : In(mcf', s) => s.n <= n
        /\ \A s \in Stamps : In(midway', s) => s.n <= n
    BY <1>1, <1>4, <1>5, <2>1
  <2> QED
    BY <1>1, <2>2 DEF PastHw
<1>10. Ordered'
  BY <1>1, <1>6, <1>7, <1>8, <1>9 DEF PairInv, Ordered
<1>11. OnTheWay'
  BY <1>1, <1>2, <1>4 DEF PairInv, OnTheWay, InSC, InMC, Ctime
<1> QED
  BY <1>10, <1>11

(* A trigger from outside is later than all stamps. *)
LEMMA HardwareTriggerPairs ==
    ASSUME CtimeInv, PairInv, HardwareTrigger
    PROVE  PairInv'
<1>1. /\ Fire("TRIG") /\ UNCHANGED << irq, sc_ts, mc_ts, got >>
      /\ fired + Cardinality(Bound) < MaxTriggers
  BY DEF HardwareTrigger, Budget, Bound, irqVars, fifoVars, procVars
<1>2. fired < MaxTriggers
  BY <1>1, BoundFinite, CtimeAssumption DEF CtimeInv, Clocks
<1>3. Matched'
  BY <1>1 DEF PairInv, Matched
<1> QED
  BY <1>1, <1>2, <1>3, FireStep DEF PairInv

(* So is the one that libera_get_CTIME fires. *)
LEMMA LockCTIMEPairs ==
    ASSUME CtimeInv, PairInv, NEW p \in Procs, LockCTIME(p)
    PROVE  PairInv'
<1>1. /\ Fire("CTIME") /\ UNCHANGED << irq, sc_ts, mc_ts, got >>
      /\ pc[p] = "ctime" /\ pc' = [pc EXCEPT ![p] = "lock"]
  BY DEF LockCTIME, Step, Goto, irqVars, fifoVars
<1>2. fired < MaxTriggers
  <2>1. "lock" \in Places
    BY DEF Places
  <2>2. Cardinality(Bound)' = Cardinality(Bound) - 1
        /\ Cardinality(Bound)' \in Nat /\ Cardinality(Bound) \in Nat
    BY <1>1, <2>1, BoundSteps
  <2> QED
    BY <2>2, CtimeAssumption DEF CtimeInv, Clocks
<1>3. Matched'
  BY <1>1 DEF PairInv, Matched
<1> QED
  BY <1>1, <1>2, <1>3, FireStep DEF PairInv

(* The stamp on its way arrives behind the others of the machine clock. *)
LEMMA StampMCPairs ==
    ASSUME CtimeInv, PairInv, StampMC
    PROVE  PairInv'
<1> DEFINE e == Head(midway)
<1>1. /\ midway # << >> /\ mcf' = Append(mcf, e) /\ midway' = Tail(midway)
      /\ UNCHANGED << fired, scf, irq, sc_ts, mc_ts, got >>
  BY DEF StampMC, irqVars, fifoVars, procVars
<1>2. /\ midway \in Seq(Stamps) /\ mcf \in Seq(Stamps)
      /\ Triggers \subseteq Nat /\ \A s \in Stamps : s.n \in Triggers
  BY StampFacts DEF CtimeInv, Clocks
<1>3. e \in Stamps /\ \A s : In(midway, s) <=> s = e \/ In(midway', s)
  BY <1>1, <1>2, TailIn
<1>4. \A s : In(mcf', s) <=> In(mcf, s) \/ s = e
  BY <1>1, <1>2, <1>3, AppendIn
<1>5. Sorted(midway') /\ \A s : In(midway', s) => e.n < s.n
  BY <1>1, <1>2, SortedTail DEF PairInv, Ordered
<1> HIDE DEF e
<1>6. Sorted(mcf')
  <2>1. \A s \in Stamps : In(mcf, s) => s.n < e.n
    BY <1>3 DEF PairInv, Ordered, BelowHw
  <2> QED
    BY <1>1, <1>2, <1>3, <2>1, SortedAppend DEF PairInv, Ordered
<1>7. Below(mc_ts, mcf)' /\ Below(mc_ts, midway)' /\ BelowHw(mcf, midway)'
  BY <1>1, <1>3, <1>4, <1>5 DEF PairInv, Ordered, Below, BelowHw
<1>8. PastHw(mcf)' /\ PastHw(midway)'
  BY <1>1, <1>3, <1>4 DEF PairInv, Ordered, PastHw
<1>9. Ordered'
  BY <1>1, <1>5, <1>6, <1>7, <1>8 DEF PairInv, Ordered, Below, Past, PastHw
<1>10. OnTheWay'
  BY <1>1, <1>3, <1>4 DEF PairInv, OnTheWay, InSC, InMC, Ctime
<1>11. Matched'
  BY <1>1 DEF PairInv, Matched
<1> QED
  BY <1>9, <1>10, <1>11 DEF PairInv

(* Steps that move no stamp.                                                *)
LEMMA NoStampMoves ==
    ASSUME PairInv, UNCHANGED << hwVars, sc_ts, mc_ts >>,
           irq' = "off" => irq = "off" \/ scf = << >>, Matched'
    PROVE  PairInv'
<1>1. Ordered'
  BY DEF PairInv, Ordered, Past, PastHw, Below, BelowHw, hwVars
<1>2. OnTheWay'
  <2>1. scf = << >> => \A n : ~Ctime(scf, n)
    BY EmptySeq DEF Ctime, In
  <2> QED
    BY <2>1 DEF PairInv, OnTheWay, InSC, InMC, Ctime, hwVars
<1> QED
  BY <1>1, <1>2 DEF PairInv

(* The handler moves a stamp of the system clock from the FPGA's FIFO.      *)
LEMMA StoreSC ==
    ASSUME CtimeInv, PairInv, Room, libera_sc_handler, "SC" \in int_vec, scf # << >>
    PROVE  PairInv'
<1> DEFINE e == Head(scf)
<1>1. /\ irq = "sc" /\ scf' = Tail(scf)
      /\ UNCHANGED << fired, mcf, midway, irq, mc_ts, got >>
      /\ IF e.kind = "CTIME" THEN sc_ts' = putToFIFO(sc_ts, e.n) ELSE sc_ts' = sc_ts
  BY DEF libera_sc_handler
<1>2. /\ scf \in Seq(Stamps) /\ sc_ts \in Seq(Triggers) /\ Len(sc_ts) < FIFO_ROOM
      /\ Triggers \subseteq Nat /\ \A s \in Stamps : s.n \in Triggers
  BY StampFacts DEF CtimeInv, Clocks, Room
<1>3. e \in Stamps /\ e.n \in Triggers /\ \A s : In(scf, s) <=> s = e \/ In(scf', s)
  BY <1>1, <1>2, TailIn
<1>4. Sorted(scf') /\ \A s : In(scf', s) => e.n < s.n
  BY <1>1, <1>2, SortedTail DEF PairInv, Ordered
<1>5. \A n \in Triggers : Stamp("CTIME", n) = e <=> e.kind = "CTIME" /\ n = e.n
  BY <1>3, StampFacts
<1> HIDE DEF e
<1>6. PastHw(scf)' /\ \A x \in Triggers : In(sc_ts, x) => x < e.n
  BY <1>1, <1>3 DEF PairInv, Ordered, PastHw, Below
<1>7. CASE e.kind = "CTIME"
  <2>1. sc_ts' = Append(sc_ts, e.n)
    BY <1>1, <1>2, <1>7 DEF putToFIFO
  <2>2. \A x : In(sc_ts', x) <=> In(sc_ts, x) \/ x = e.n
    BY <1>2, <1>3, <2>1, AppendIn
  <2>3. Increasing(sc_ts')
    BY <1>2, <1>3, <1>6, <2>1, IncreasingAppend DEF PairInv, Ordered
  <2>4. Below(sc_ts, scf)'
    BY <1>3, <1>4, <2>2 DEF PairInv, Ordered, Below
  <2>5. Past(sc_ts)'
    BY <1>1, <1>3, <2>2 DEF PairInv, Ordered, Past, PastHw
  <2>6. Ordered'
    BY <1>1, <1>4, <1>6, <2>3, <2>4, <2>5
    DEF PairInv, Ordered, Below, BelowHw, Past, PastHw
  <2>7. \A n \in Triggers : InSC(n)' <=> InSC(n)
    BY <1>3, <1>5, <1>7, <2>2 DEF InSC, Ctime
  <2>8. OnTheWay'
    BY <1>1, <2>7 DEF PairInv, OnTheWay, InMC, Ctime
  <2> QED
    BY <1>1, <2>6, <2>8 DEF PairInv, Matched
<1>8. CASE e.kind # "CTIME"
  <2>1. sc_ts' = sc_ts
    BY <1>1, <1>8
  <2>2. Below(sc_ts, scf)'
    BY <1>3, <2>1 DEF PairInv, Ordered, Below
  <2>3. Ordered'
    BY <1>1, <1>4, <1>6, <2>1, <2>2 DEF PairInv, Ordered, Below, BelowHw, Past, PastHw
  <2>4. \A n \in Triggers : InSC(n)' <=> InSC(n)
    BY <1>3, <1>5, <1>8, <2>1 DEF InSC, Ctime
  <2>5. OnTheWay'
    BY <1>1, <2>4 DEF PairInv, OnTheWay, InMC, Ctime
  <2> QED
    BY <1>1, <2>3, <2>5 DEF PairInv, Matched
<1> QED
  BY <1>7, <1>8

(* And one of the machine clock.                                            *)
LEMMA StoreMC ==
    ASSUME CtimeInv, PairInv, Room, libera_mc_handler, "MC" \in int_vec, mcf # << >>
    PROVE  PairInv'
<1> DEFINE e == Head(mcf)
<1>1. /\ irq = "mc" /\ mcf' = Tail(mcf)
      /\ UNCHANGED << fired, scf, midway, irq, sc_ts, got >>
      /\ IF e.kind = "CTIME" THEN mc_ts' = putToFIFO(mc_ts, e.n) ELSE mc_ts' = mc_ts
  BY DEF libera_mc_handler
<1>2. /\ mcf \in Seq(Stamps) /\ mc_ts \in Seq(Triggers) /\ Len(mc_ts) < FIFO_ROOM
      /\ Triggers \subseteq Nat /\ \A s \in Stamps : s.n \in Triggers
  BY StampFacts DEF CtimeInv, Clocks, Room
<1>3. e \in Stamps /\ e.n \in Triggers /\ \A s : In(mcf, s) <=> s = e \/ In(mcf', s)
  BY <1>1, <1>2, TailIn
<1>4. Sorted(mcf') /\ \A s : In(mcf', s) => e.n < s.n
  BY <1>1, <1>2, SortedTail DEF PairInv, Ordered
<1>5. \A n \in Triggers : Stamp("CTIME", n) = e <=> e.kind = "CTIME" /\ n = e.n
  BY <1>3, StampFacts
<1> HIDE DEF e
<1>6. /\ PastHw(mcf)' /\ BelowHw(mcf, midway)'
      /\ \A x \in Triggers : In(mc_ts, x) => x < e.n
      /\ \A s \in Stamps : In(midway, s) => e.n < s.n
  BY <1>1, <1>3 DEF PairInv, Ordered, PastHw, Below, BelowHw
<1>7. CASE e.kind = "CTIME"
  <2>1. mc_ts' = Append(mc_ts, e.n)
    BY <1>1, <1>2, <1>7 DEF putToFIFO
  <2>2. \A x : In(mc_ts', x) <=> In(mc_ts, x) \/ x = e.n
    BY <1>2, <1>3, <2>1, AppendIn
  <2>3. Increasing(mc_ts')
    BY <1>2, <1>3, <1>6, <2>1, IncreasingAppend DEF PairInv, Ordered
  <2>4. Below(mc_ts, mcf)' /\ Below(mc_ts, midway)'
    BY <1>1, <1>3, <1>4, <1>6, <2>2 DEF PairInv, Ordered, Below
  <2>5. Past(mc_ts)'
    BY <1>1, <1>3, <2>2 DEF PairInv, Ordered, Past, PastHw
  <2>6. Ordered'
    BY <1>1, <1>4, <1>6, <2>3, <2>4, <2>5
    DEF PairInv, Ordered, Below, BelowHw, Past, PastHw
  <2>7. \A n \in Triggers : InMC(n)' <=> InMC(n)
    BY <1>1, <1>3, <1>5, <1>7, <2>2 DEF InMC, Ctime
  <2>8. OnTheWay'
    BY <1>1, <2>7 DEF PairInv, OnTheWay, InSC, Ctime
  <2> QED
    BY <1>1, <2>6, <2>8 DEF PairInv, Matched
<1>8. CASE e.kind # "CTIME"
  <2>1. mc_ts' = mc_ts
    BY <1>1, <1>8
  <2>2. Below(mc_ts, mcf)'
    BY <1>3, <2>1 DEF PairInv, Ordered, Below
  <2>3. Ordered'
    BY <1>1, <1>4, <1>6, <2>1, <2>2 DEF PairInv, Ordered, Below, BelowHw, Past, PastHw
  <2>4. \A n \in Triggers : InMC(n)' <=> InMC(n)
    BY <1>1, <1>3, <1>5, <1>8, <2>1 DEF InMC, Ctime
  <2>5. OnTheWay'
    BY <1>1, <2>4 DEF PairInv, OnTheWay, InSC, Ctime
  <2> QED
    BY <1>1, <2>3, <2>5 DEF PairInv, Matched
<1> QED
  BY <1>7, <1>8

(* The handler moves the stamps of one clock after the other, and ends with *)
(* none of the system clock left.                                           *)
LEMMA HandlerPairs ==
    ASSUME CtimeInv, PairInv, Room, Hardware
    PROVE  PairInv'
<1>1. CASE libera_interrupt
  <2>1. /\ UNCHANGED << hwVars, sc_ts, mc_ts, got >>
        /\ irq' = "off" => SBC_IRQ = {}
    BY <1>1 DEF libera_interrupt, fifoVars, procVars
  <2>2. irq' = "off" => scf = << >>
    BY <2>1 DEF SBC_IRQ
  <2> QED
    BY <2>1, <2>2, NoStampMoves DEF PairInv, Matched
<1>2. CASE libera_sc_handler /\ ~("SC" \in int_vec /\ scf # << >>)
  <2>1. UNCHANGED << hwVars, sc_ts, mc_ts, got >> /\ irq' = "mc"
    BY <1>2 DEF libera_sc_handler, hwVars
  <2> QED
    BY <2>1, NoStampMoves DEF PairInv, Matched
<1>3. CASE libera_mc_handler /\ ~("MC" \in int_vec /\ mcf # << >>)
  <2>1. UNCHANGED << hwVars, sc_ts, mc_ts, got >> /\ irq' = "test"
    BY <1>3 DEF libera_mc_handler, hwVars
  <2> QED
    BY <2>1, NoStampMoves DEF PairInv, Matched
<1> QED
  BY <1>1, <1>2, <1>3, StoreSC, StoreMC DEF Hardware

(* A getter takes two halves: the handler has left a stamp of SC for every  *)
(* stamp of MC, and an older one of SC would have its half of MC on the way *)
(* behind the one the getter has taken.                                     *)
LEMMA TakePair ==
    ASSUME CtimeInv, PairInv, NEW p \in Procs, TakeCTIME(p)
    PROVE  PairInv'
<1> DEFINE h == Head(mc_ts)
<1>1. /\ irq = "off" /\ irq' = irq /\ UNCHANGED hwVars /\ p \in Getters /\ pc[p] = "take"
      /\ mc_ts' = Tail(mc_ts) /\ sc_ts' = IF sc_ts = << >> THEN sc_ts ELSE Tail(sc_ts)
      /\ got' = [got EXCEPT ![p] = [ret |-> "0", lmt |-> h,
                   lst |-> IF sc_ts = << >> THEN NULL ELSE Head(sc_ts)]]
  BY DEF TakeCTIME, Step, Return, irqVars
<1>2. /\ mc_ts # << >> /\ mc_ts \in Seq(Triggers) /\ sc_ts \in Seq(Triggers)
      /\ Triggers \subseteq Nat /\ \A s \in Stamps : s.n \in Triggers
  BY <1>1, StampFacts DEF CtimeInv, Clocks, Calls
<1>3. h \in Triggers /\ \A x : In(mc_ts, x) <=> x = h \/ In(mc_ts', x)
  BY <1>1, <1>2, TailIn
<1>4. Increasing(mc_ts') /\ \A x : In(mc_ts', x) => h < x
  BY <1>1, <1>2, IncreasingTail DEF PairInv, Ordered
<1>5. In(sc_ts, h)
  BY <1>1, <1>3 DEF PairInv, OnTheWay
<1>6. sc_ts # << >>
  BY <1>5, EmptySeq DEF In
<1> DEFINE g == Head(sc_ts)
<1>7. g \in Triggers /\ sc_ts' = Tail(sc_ts) /\ \A x : In(sc_ts, x) <=> x = g \/ In(sc_ts', x)
  BY <1>1, <1>2, <1>6, TailIn
<1>8. Increasing(sc_ts') /\ \A x : In(sc_ts', x) => g < x
  BY <1>2, <1>6, <1>7, IncreasingTail DEF PairInv, Ordered
<1> HIDE DEF g, h
<1>9. \A x \in Triggers : Ctime(mcf, x) \/ Ctime(midway, x) => h < x
  <2>1. \A s \in Stamps : In(mcf, s) \/ In(midway, s) => h < s.n
    BY <1>3 DEF PairInv, Ordered, Below
  <2> QED
    BY <2>1, StampFacts DEF Ctime
<1>10. \A x \in Triggers : Ctime(scf, x) => g < x
  <2>1. \A s \in Stamps : In(scf, s) => g < s.n
    BY <1>7 DEF PairInv, Ordered, Below
  <2> QED
    BY <2>1, StampFacts DEF Ctime
<1>11. g = h
  <2>1. g = h \/ g < h
    BY <1>3, <1>5, <1>7, <1>8
  <2>2. InMC(g)
    BY <1>7 DEF PairInv, OnTheWay, InSC
  <2>3. g = h \/ h < g
    BY <1>3, <1>4, <1>7, <1>9, <2>2 DEF InMC
  <2> QED
    BY <1>2, <1>3, <1>7, <2>1, <2>3
<1>12. ASSUME NEW x \in Triggers
       PROVE  /\ InSC(x)' <=> InSC(x) /\ x # h
              /\ InMC(x)' <=> InMC(x) /\ x # h
              /\ In(mc_ts', x) <=> In(mc_ts, x) /\ x # h
              /\ In(sc_ts', x) <=> In(sc_ts, x) /\ x # h
  <2>1. x \in Nat /\ h \in Nat /\ ~(h < h)
    BY <1>2, <1>3
  <2>2. /\ In(mc_ts', x) <=> In(mc_ts, x) /\ x # h
        /\ In(sc_ts', x) <=> In(sc_ts, x) /\ x # h
    BY <1>3, <1>4, <1>7, <1>8, <1>11, <2>1
  <2>3. /\ Ctime(scf, x) => x # h
        /\ Ctime(mcf, x) => x # h
        /\ Ctime(midway, x) => x # h
    BY <1>9, <1>10, <1>11, <2>1
  <2> QED
    BY <1>1, <2>2, <2>3 DEF InSC, InMC, Ctime, hwVars
<1>13. OnTheWay'
  BY <1>1, <1>12 DEF PairInv, OnTheWay
<1>14. Ordered'
  <2>1. Below(sc_ts, scf)' /\ Below(mc_ts, mcf)' /\ Below(mc_ts, midway)'
    BY <1>1, <1>3, <1>7 DEF PairInv, Ordered, Below, hwVars
  <2>2. Past(sc_ts)' /\ Past(mc_ts)'
    BY <1>1, <1>3, <1>7 DEF PairInv, Ordered, Past, hwVars
  <2>3. /\ UNCHANGED << fired, scf, mcf, midway >> /\ BelowHw(mcf, midway)'
        /\ PastHw(scf)' /\ PastHw(mcf)' /\ PastHw(midway)'
    BY <1>1 DEF PairInv, Ordered, BelowHw, PastHw, hwVars
  <2> QED
    BY <1>4, <1>8, <2>1, <2>2, <2>3 DEF PairInv, Ordered
<1>15. Matched'
  <2>1. got \in [Procs -> Results]
    BY DEF CtimeInv, Calls
  <2>2. got' = [got EXCEPT ![p] = [ret |-> "0", lmt |-> h, lst |-> h]]
    BY <1>1, <1>6, <1>11 DEF g
  <2> QED
    BY <2>1, <2>2 DEF PairInv, Matched, Procs
<1> QED
  BY <1>13, <1>14, <1>15 DEF PairInv

(* No other step of a process moves the stamps of the software trigger, and *)
(* what it leaves to the user is no time, or what stood on the stack.       *)
LEMMA OtherPairs ==
    ASSUME CtimeInv, PairInv, NEW p \in Procs,
           \/ CallCTIME(p) \/ LockCTIMEInterrupted(p) \/ CallTrigger(p)
           \/ LockSem(p) \/ LockSemInterrupted(p) \/ Prepare(p) \/ Recheck(p)
           \/ Wake(p) \/ Timeout(p) \/ Relock(p)
           \/ TakeTrigger(p) \/ CopyTrigger(p) \/ Signal(p)
    PROVE  PairInv'
<1> DEFINE Left == {Garbage, Nothing, [Nothing EXCEPT !.ret = "ERESTARTSYS"],
                    [Nothing EXCEPT !.ret = "EAGAIN"], [Nothing EXCEPT !.ret = "EFAULT"],
                    [Nothing EXCEPT !.ret = "0"]}
<1>1. UNCHANGED << hwVars, irq, sc_ts, mc_ts >>
  BY DEF CallCTIME, LockCTIMEInterrupted, CallTrigger, LockSem, LockSemInterrupted, Prepare,
     Recheck, Wake, Timeout, Relock, TakeTrigger, CopyTrigger, Signal, Step, irqVars, fifoVars
<1>2. got' = got \/ \E v \in Left : got' = [got EXCEPT ![p] = v]
  BY DEF CallCTIME, LockCTIMEInterrupted, CallTrigger, LockSem, LockSemInterrupted, Prepare,
     Recheck, Wake, Timeout, Relock, TakeTrigger, CopyTrigger, Signal, Return, Interrupted
<1>3. \A v \in Left : v.lmt = v.lst
  BY DEF Garbage, Nothing
<1>4. Matched'
  <2>1. got \in [Procs -> Results]
    BY DEF CtimeInv, Calls
  <2> HIDE DEF Left
  <2> QED
    BY <1>2, <1>3, <2>1 DEF PairInv, Matched, Procs
<1> QED
  BY <1>1, <1>4, NoStampMoves

(* Every step keeps the pairs, as long as there is room. *)
LEMMA NextKeepsPairs == CtimeInv /\ PairInv /\ Room /\ [Next]_vars => PairInv'
<1> SUFFICES ASSUME CtimeInv, PairInv, Room, [Next]_vars PROVE PairInv'
  OBVIOUS
<1>1. CASE UNCHANGED vars
  <2>1. UNCHANGED << hwVars, irq, sc_ts, mc_ts, got >>
    BY <1>1 DEF vars, irqVars, fifoVars, procVars
  <2> QED
    BY <2>1, NoStampMoves DEF PairInv, Matched
<1>2. CASE Next
  BY <1>2, HardwareTriggerPairs, StampMCPairs, HandlerPairs, LockCTIMEPairs, TakePair,
     OtherPairs DEF Next, Run
<1> QED
  BY <1>1, <1>2

(* "Returns current LMT & LST pair" (libera_get_CTIME): as long as neither  *)
(* FIFO of the software trigger is full, the two stamps a getter hands to   *)
(* the user are of the same trigger, whoever a signal took away before.     *)
THEOREM PairsAlwaysMatch == Spec /\ []Room => []CtimePairMatches
<1>1. CtimeTypeOK /\ PairInv => CtimePairMatches
  BY DEF PairInv, Matched, CtimePairMatches
<1> QED
  BY <1>1, InitPairInv, NextKeepsPairs, CtimeConsistent, CtimeTypeCorrect, PTL DEF Spec

=============================================================================
