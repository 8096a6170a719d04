-------------------------- MODULE LiberaTriggerProofs --------------------------
(***************************************************************************)
(* Proofs about the triggers and the time: the stamps are exact, the pairs *)
(* of triggers that come one at a time match and the system time set from  *)
(* them is exact, and SA starts again.                                     *)
(*                                                                         *)
(* ClockInv says what the queue of a clock holds: from the count of the    *)
(* handler on, each overflow of the low bits is in an entry, in its place. *)
(* LateInv says how far the handlers can be behind, ArmInv how near the    *)
(* start of SA can be before it is armed, and SpacedInv which halves of a  *)
(* pair are done while the trigger's second entry waits.                   *)
(***************************************************************************)
EXTENDS LiberaTrigger, SequenceTheorems, TLAPS

-----------------------------------------------------------------------------
(* The inductive invariant *)

Entry == [SELF_INC : BOOLEAN, TRIG_VECTOR : SUBSET Kinds, low : Nat, at : Nat]
Slot == [lst : Int, lmt : Int, at : [lst : Nat, lmt : Nat]]
Pairs == [put : 0 .. LOG - 1, stamp : [0 .. LOG - 1 -> Slot]]

SetTimes == [update : SUBSET Sets, lst : [ref : Int, scphi : Int, off : Int],
             lmt : [ref : Int, mcphi : Int, off : Int, off_pll : 0 .. D - 1]]

TypeInv ==
    /\ world \in Worlds /\ now \in Nat
    /\ fifo \in [{"sc", "mc"} -> Seq(Entry)] /\ help \in Nat \cup {NULL}
    /\ evgen \in Nat \cup {NULL} /\ sa \in BOOLEAN
    /\ (vec = NULL \/ vec \in SUBSET {"SC", "MC", "HELP"})
    /\ sc_time \in Nat /\ mc_time \in Nat
    /\ stamp_raw \in [stamp : Nat, time : Nat]
    /\ paired \in [Kinds -> Pairs]
    /\ pm_freezed \in BOOLEAN /\ TRIGMODE \in {"GET", "SET"}
    /\ settime \in SetTimes
    /\ head \in Nat
    /\ call = NULL \/ call \in [pc : {"mode", "load", "store"}, what : Sets, update : SUBSET Sets]

(* The high bits counted before the i-th entry of a FIFO. *)
Before(q, phase, high, i) == IF i = 1 THEN high ELSE High(q[i - 1].at + phase)

(* An entry tells the low bits, and of each overflow. *)
Told(e, phase, before) ==
    /\ e.low = (e.at + phase) % P
    /\ e.SELF_INC <=> e.low = 0
    /\ High(e.at + phase) = before + (IF e.SELF_INC THEN P ELSE 0)

(* What is queued between the count of the handler and the clock. *)
Exact(q, phase, high, n) ==
    /\ high <= High(n + phase)
    /\ High(n + phase) = Before(q, phase, high, Len(q) + 1)
    /\ \A i \in 1 .. Len(q) :
          /\ Told(q[i], phase, Before(q, phase, high, i))
          /\ q[i].at <= n
          /\ Before(q, phase, high, i) < High(n + phase) => q[i].at + phase <= High(n + phase)
          /\ \A j \in 1 .. Len(q) : i < j => q[i].at < q[j].at

ClockInv ==
    /\ Exact(fifo["sc"], Phase, sc_time, now)
    /\ Exact(fifo["mc"], 0, mc_time, now)
    /\ StampsExact

(* HELPMC is raised in the middle of a period; until its handler has run,   *)
(* the MC entries of before the middle have been served or wait before it.  *)
Middle == P \div 2
After(q, t) == \A i \in 1 .. Len(q) : t < q[i].at

LateInv ==
    /\ fifo["mc"] # << >> => now - fifo["mc"][1].at < Middle
    /\ help # NULL => help % P = Middle /\ help <= now /\ now - help < Middle
    /\ now % P >= Middle /\ help = NULL => After(fifo["mc"], High(now) + Middle)
    /\ vec # NULL /\ "HELP" \in vec =>
          help # NULL /\ ("MC" \notin vec => After(fifo["mc"], help))

(* A start in the second half of a period is armed when the period is       *)
(* counted, one in the first half when HELPMC of the period before was.     *)
ArmInv ==
    ~sa => /\ now < head
           /\ head % P >= Middle /\ mc_time >= High(head) => evgen = head % P
           /\ head % P < Middle /\ now + Middle >= High(head) /\ help = NULL => evgen = head % P

(* The entry that waits first is of a trigger. *)
First(side) == fifo[side] # << >> /\ fifo[side][1].TRIG_VECTOR # {}

(* The SC handler has put the halves of the trigger that e is of. *)
HalfDone(e) ==
    /\ vec # NULL /\ "MC" \in vec
    /\ \A k \in Kinds : Stored(k, e) => paired[k].stamp[paired[k].put].at.lst = e.at
    /\ TRIGMODE = "SET" /\ "TRIGGER" \in e.TRIG_VECTOR =>
          paired["TRIGGER"].stamp[paired["TRIGGER"].put].lst = Clock("sc", e.at)

(* Two FIFOs in which only the first entries may be of a trigger. *)
RestEmpty(q) == \A i \in 2 .. Len(q) : q[i].TRIG_VECTOR = {}

(* A trigger of which neither entry is served. *)
Waits ==
    /\ First("mc") /\ fifo["mc"][1].at = fifo["sc"][1].at
    /\ fifo["mc"][1].TRIG_VECTOR = fifo["sc"][1].TRIG_VECTOR
    /\ vec # NULL => "SC" \in vec /\ "MC" \in vec

(* The second part of SpacedTriggersExact. *)
SetExact == set # NULL => set.at + settime.lst.off = set.ref

Halves ==
    /\ RestEmpty(fifo["sc"]) /\ RestEmpty(fifo["mc"])
    /\ First("sc") => Waits
    /\ First("mc") /\ ~First("sc") => HalfDone(fifo["mc"][1])

SpacedInv == world.spaced => PairsMatch /\ SetExact /\ Halves

-----------------------------------------------------------------------------
(* A product of naturals is one. *)
LEMMA Product == \A x, y \in Nat : x * y \in Nat
  OBVIOUS

(* What is whole in a clock is a number of periods. *)
LEMMA Whole ==
    ASSUME NEW c \in Nat
    PROVE  /\ High(c) = P * (c \div P) /\ c \div P \in Nat
           /\ High(c) \in Nat /\ c % P \in 0 .. P - 1 /\ c = High(c) + (c % P)
<1>1. P \in Nat \ {0}
  BY TriggerAssumption
<1> DEFINE r == c % P
           m == P * (c \div P)
<1>2. c = m + r /\ r \in 0 .. P - 1 /\ c \div P \in Nat
  BY <1>1
<1>3. m \in Nat
  BY <1>1, <1>2, Product
<1>4. High(c) = c - r
  BY DEF High
<1> HIDE DEF r, m
<1>5. High(c) = m /\ c = High(c) + r
  BY <1>1, <1>2, <1>3, <1>4
<1> QED
  BY <1>2, <1>3, <1>5 DEF r, m

(* The low bits are a natural number. *)
LEMMA LowBits == \A c \in Nat : c % P \in Nat
<1>1. P \in Nat
  BY TriggerAssumption
<1> QED
  BY <1>1, Whole

(* One period more in the quotient is one more in the product. *)
LEMMA Periods ==
    ASSUME NEW x \in Int, NEW y \in Int, x < y
    PROVE  P * x + P <= P * y
<1>1. P \in Nat /\ y - x - 1 \in Nat
  BY TriggerAssumption
<1>2. P * (y - x - 1) \in Nat
  BY <1>1, Product
<1>3. P * (y - x - 1) = P * y - P * x - P
  BY <1>1
<1> QED
  BY <1>1, <1>2, <1>3

(* The whole periods of an earlier time are not more, and those of another *)
(* one differ by a period at least.                                        *)
LEMMA HighOrder ==
    ASSUME NEW a \in Nat, NEW b \in Nat
    PROVE  /\ a <= b => High(a) <= High(b)
           /\ High(a) < High(b) => High(a) + P <= High(b)
<1> DEFINE x == a \div P
           y == b \div P
<1>1. /\ High(a) = P * x /\ x \in Nat /\ High(a) \in Nat
      /\ a % P \in 0 .. P - 1 /\ a = High(a) + (a % P)
  BY Whole
<1>2. /\ High(b) = P * y /\ y \in Nat /\ High(b) \in Nat
      /\ b % P \in 0 .. P - 1 /\ b = High(b) + (b % P)
  BY Whole
<1>3. P \in Nat \ {0}
  BY TriggerAssumption
<1> HIDE DEF x, y
<1>4. CASE x < y
  <2>1. High(a) + P <= High(b)
    BY <1>1, <1>2, <1>4, Periods
  <2> QED
    BY <1>1, <1>2, <1>3, <2>1
<1>5. CASE x = y
  BY <1>1, <1>2, <1>3, <1>5
<1>6. CASE y < x
  <2>1. High(b) + P <= High(a)
    BY <1>1, <1>2, <1>6, Periods
  <2> QED
    BY <1>1, <1>2, <1>3, <2>1
<1> QED
  BY <1>1, <1>2, <1>4, <1>5, <1>6

(* The next tick begins a period, or is in the same. *)
LEMMA HighTick ==
    ASSUME NEW c \in Nat
    PROVE  /\ (c + 1) % P = 0 => High(c + 1) = c + 1 /\ High(c + 1) = High(c) + P
           /\ (c + 1) % P # 0 => High(c + 1) = High(c) /\ (c + 1) % P = (c % P) + 1
<1> DEFINE r == c % P
           s == (c + 1) % P
<1>1. High(c) \in Nat /\ r \in 0 .. P - 1 /\ c = High(c) + r
  BY Whole
<1>2. High(c + 1) \in Nat /\ s \in 0 .. P - 1 /\ c + 1 = High(c + 1) + s
  BY Whole
<1>3. /\ High(c) <= High(c + 1)
      /\ High(c) < High(c + 1) => High(c) + P <= High(c + 1)
  BY HighOrder
<1>4. P \in Nat \ {0}
  BY TriggerAssumption
<1> HIDE DEF r, s
<1>5. /\ s = 0 => High(c + 1) = c + 1 /\ High(c + 1) = High(c) + P
      /\ s # 0 => High(c + 1) = High(c) /\ s = r + 1
  BY <1>1, <1>2, <1>3, <1>4
<1> QED
  BY <1>5 DEF r, s

(* A period later, there is a period more. *)
LEMMA HighPlus == ASSUME NEW c \in Nat PROVE High(c + P) = High(c) + P
<1> DEFINE x == c \div P
           y == (c + P) \div P
           r == c % P
           s == (c + P) % P
<1>1. P \in Nat \ {0} /\ c + P \in Nat
  BY TriggerAssumption
<1>2. High(c) = P * x /\ x \in Nat /\ High(c) \in Nat /\ r \in 0 .. P - 1 /\ c = High(c) + r
  BY Whole
<1>3. /\ High(c + P) = P * y /\ y \in Nat /\ High(c + P) \in Nat
      /\ s \in 0 .. P - 1 /\ c + P = High(c + P) + s
  BY <1>1, Whole
<1> HIDE DEF x, y, r, s
<1>4. P * (x + 1) = High(c) + P /\ x + 1 \in Nat
  BY <1>1, <1>2
<1>5. CASE x + 1 < y
  <2>1. High(c) + P + P <= High(c + P)
    BY <1>3, <1>4, <1>5, Periods
  <2> QED
    BY <1>1, <1>2, <1>3, <2>1
<1>6. CASE y < x + 1
  <2>1. High(c + P) + P <= High(c) + P
    BY <1>3, <1>4, <1>6, Periods
  <2> QED
    BY <1>1, <1>2, <1>3, <2>1
<1> QED
  BY <1>2, <1>3, <1>4, <1>5, <1>6

-----------------------------------------------------------------------------
(* The FIFOs of the two clocks *)

(* A FIFO with an entry less. *)
LEMMA TailOf ==
    ASSUME NEW S, NEW q \in Seq(S), q # << >>
    PROVE  /\ Tail(q) \in Seq(S) /\ Head(q) = q[1] /\ q[1] \in S
           /\ Len(q) \in Nat \ {0} /\ Len(Tail(q)) = Len(q) - 1
           /\ \A i \in 1 .. Len(Tail(q)) : Tail(q)[i] = q[i + 1]
<1>1. Tail(q) \in Seq(S) /\ Len(Tail(q)) = Len(q) - 1
  BY HeadTailProperties
<1>2. Len(q) \in Nat \ {0} /\ q[1] \in S
  BY EmptySeq, LenProperties, ElementOfSeq
<1> QED
  BY <1>1, <1>2

(* What an entry is. *)
LEMMA EntryTypes ==
    ASSUME NEW q \in Seq(Entry)
    PROVE  \A i \in 1 .. Len(q) :
              /\ q[i] \in Entry /\ q[i].at \in Nat /\ q[i].low \in Nat
              /\ q[i].SELF_INC \in BOOLEAN /\ q[i].TRIG_VECTOR \in SUBSET Kinds
<1>1. \A i \in 1 .. Len(q) : q[i] \in Entry
  BY ElementOfSeq
<1>2. \A e \in Entry : /\ e.at \in Nat /\ e.low \in Nat
                       /\ e.SELF_INC \in BOOLEAN /\ e.TRIG_VECTOR \in SUBSET Kinds
  BY DEF Entry
<1> QED
  BY <1>1, <1>2

(* A queue keeps its order and its count when the clock ticks without an     *)
(* entry: then no period begins.                                             *)
LEMMA ExactTick ==
    ASSUME NEW q \in Seq(Entry), NEW phase \in Nat, NEW high \in Nat, NEW n \in Nat,
           Exact(q, phase, high, n), (n + 1 + phase) % P # 0
    PROVE  Exact(q, phase, high, n + 1)
<1>1. High(n + 1 + phase) = High(n + phase)
  <2>1. n + phase \in Nat /\ n + phase + 1 = n + 1 + phase
    OBVIOUS
  <2> QED
    BY <2>1, HighTick
<1>2. \A i \in 1 .. Len(q) : q[i].at \in Nat
  BY EntryTypes
<1> QED
  BY <1>1, <1>2 DEF Exact

(* The entry of this tick.  With the overflow the period begins that the     *)
(* entry counts.                                                             *)
LEMMA ExactAppend ==
    ASSUME NEW q \in Seq(Entry), NEW phase \in Nat, NEW high \in Nat, NEW n \in Nat,
           Exact(q, phase, high, n), NEW e \in Entry, e.at = n + 1,
           e.low = (n + 1 + phase) % P, e.SELF_INC <=> e.low = 0
    PROVE  Exact(Append(q, e), phase, high, n + 1)
<1> DEFINE r == Append(q, e)
           c == n + 1 + phase
           last == Before(q, phase, high, Len(q) + 1)
<1>1. /\ Len(r) = Len(q) + 1 /\ Len(q) \in Nat
      /\ \A i \in 1 .. Len(q) : r[i] = q[i]
      /\ r[Len(q) + 1] = e
  BY AppendProperties, LenProperties
<1>2. /\ n + phase \in Nat /\ n + phase + 1 = c /\ c \in Nat /\ P \in Nat \ {0}
      /\ High(n + phase) \in Nat /\ High(c) \in Nat
  <2>1. n + phase \in Nat /\ n + phase + 1 = c /\ c \in Nat
    OBVIOUS
  <2> QED
    BY <2>1, Whole, TriggerAssumption
<1>3. /\ c % P = 0 => High(c) = c /\ High(c) = High(n + phase) + P
      /\ c % P # 0 => High(c) = High(n + phase)
  BY <1>2, HighTick
<1>4. last = High(n + phase) /\ high <= High(n + phase)
  BY DEF Exact
<1>5. \A i \in 1 .. Len(q) : q[i].at \in Nat
  BY EntryTypes
<1>6. \A i \in 1 .. Len(q) + 1 : Before(r, phase, high, i) = Before(q, phase, high, i)
  <2> SUFFICES ASSUME NEW i \in 1 .. Len(q) + 1, i # 1
               PROVE  r[i - 1] = q[i - 1]
    BY DEF Before
  <2>1. i - 1 \in 1 .. Len(q)
    BY <1>1
  <2> QED
    BY <1>1, <2>1
<1>7. Before(r, phase, high, Len(r) + 1) = High(c)
  <2>1. Len(r) + 1 # 1 /\ Len(r) + 1 - 1 = Len(q) + 1
    BY <1>1
  <2> QED
    BY <1>1, <2>1 DEF Before
<1> HIDE DEF r, last
<1>8. high <= High(c)
  BY <1>2, <1>3, <1>4
<1>9. ASSUME NEW i \in 1 .. Len(q)
      PROVE  /\ Told(r[i], phase, Before(r, phase, high, i))
             /\ r[i].at <= n + 1
             /\ Before(r, phase, high, i) < High(c) => r[i].at + phase <= High(c)
             /\ r[i].at < e.at
  <2>1. /\ Told(q[i], phase, Before(q, phase, high, i)) /\ q[i].at <= n
        /\ Before(q, phase, high, i) < High(n + phase) => q[i].at + phase <= High(n + phase)
    BY DEF Exact
  <2>2. r[i] = q[i] /\ Before(r, phase, high, i) = Before(q, phase, high, i)
    BY <1>1, <1>6
  <2>3. q[i].at \in Nat
    BY <1>5
  <2>4. q[i].at < n + 1 /\ q[i].at + phase <= c
    BY <2>1, <2>3
  <2>5. Before(q, phase, high, i) < High(c) => q[i].at + phase <= High(c)
    <3>1. CASE c % P = 0
      BY <1>3, <2>4, <3>1
    <3>2. CASE c % P # 0
      BY <1>3, <2>1, <3>2
    <3> QED
      BY <3>1, <3>2
  <2> QED
    BY <2>1, <2>2, <2>3, <2>4, <2>5
<1>10. /\ Told(e, phase, last)
       /\ e.at <= n + 1
       /\ last < High(c) => e.at + phase <= High(c)
  <2>1. CASE c % P = 0
    BY <1>2, <1>3, <1>4, <2>1 DEF Told
  <2>2. CASE c % P # 0
    BY <1>2, <1>3, <1>4, <2>2 DEF Told
  <2> QED
    BY <2>1, <2>2
<1>11. ASSUME NEW i \in 1 .. Len(r)
       PROVE  /\ Told(r[i], phase, Before(r, phase, high, i))
              /\ r[i].at <= n + 1
              /\ Before(r, phase, high, i) < High(c) => r[i].at + phase <= High(c)
              /\ \A j \in 1 .. Len(r) : i < j => r[i].at < r[j].at
  <2>1. CASE i \in 1 .. Len(q)
    <3>1. ASSUME NEW j \in 1 .. Len(r), i < j PROVE r[i].at < r[j].at
      <4>1. CASE j \in 1 .. Len(q)
        BY <1>1, <2>1, <3>1, <4>1 DEF Exact
      <4>2. CASE j = Len(q) + 1
        BY <1>1, <1>9, <2>1, <4>2
      <4> QED
        BY <1>1, <4>1, <4>2
    <3> QED
      BY <1>9, <2>1, <3>1
  <2>2. CASE i = Len(q) + 1
    <3>1. r[i] = e /\ Before(r, phase, high, i) = last
      BY <1>1, <1>6, <2>2 DEF last
    <3>2. \A j \in 1 .. Len(r) : ~(i < j)
      BY <1>1, <2>2
    <3> QED
      BY <1>10, <3>1, <3>2
  <2> QED
    BY <1>1, <2>1, <2>2
<1> QED
  BY <1>7, <1>8, <1>11 DEF Exact, r

(* The entry that is served: the time the handler makes is that of the       *)
(* trigger, and the count is right for the entries that stay.                *)
LEMMA ExactTail ==
    ASSUME NEW q \in Seq(Entry), NEW phase \in Nat, NEW high \in Nat, NEW n \in Nat,
           Exact(q, phase, high, n), q # << >>, NEW h,
           h = high + (IF q[1].SELF_INC THEN P ELSE 0)
    PROVE  /\ h = High(q[1].at + phase) /\ h \in Nat
           /\ h + q[1].low = q[1].at + phase
           /\ q[1].SELF_INC => h = q[1].at + phase
           /\ Exact(Tail(q), phase, h, n)
<1> DEFINE r == Tail(q)
           e == q[1]
<1>1. /\ r \in Seq(Entry) /\ Len(q) \in Nat \ {0} /\ Len(r) = Len(q) - 1
      /\ \A i \in 1 .. Len(r) : r[i] = q[i + 1]
  BY TailOf
<1>2. 1 \in 1 .. Len(q) /\ Before(q, phase, high, 1) = high
  BY <1>1 DEF Before
<1>3. Told(e, phase, high) /\ e.at <= n
  BY <1>2 DEF Exact
<1>4. e.at \in Nat /\ e.at + phase \in Nat /\ n + phase \in Nat
  BY <1>2, EntryTypes
<1>5. h = High(e.at + phase)
  BY <1>3 DEF Told
<1>6. /\ High(e.at + phase) \in Nat
      /\ e.at + phase = High(e.at + phase) + ((e.at + phase) % P)
  BY <1>4, Whole
<1>7. h + e.low = e.at + phase /\ (e.SELF_INC => h = e.at + phase)
  BY <1>3, <1>4, <1>5, <1>6 DEF Told
<1>8. h <= High(n + phase)
  BY <1>3, <1>4, <1>5, HighOrder
<1>9. \A i \in 1 .. Len(r) + 1 : Before(r, phase, h, i) = Before(q, phase, high, i + 1)
  <2> SUFFICES ASSUME NEW i \in 1 .. Len(r) + 1
               PROVE  Before(r, phase, h, i) = Before(q, phase, high, i + 1)
    OBVIOUS
  <2>1. Before(q, phase, high, i + 1) = High(q[i].at + phase)
    <3>1. i + 1 # 1 /\ i + 1 - 1 = i
      BY <1>1
    <3> QED
      BY <3>1 DEF Before
  <2>2. CASE i = 1
    BY <1>5, <2>1, <2>2 DEF Before
  <2>3. CASE i # 1
    <3>1. i - 1 \in 1 .. Len(r) /\ i - 1 + 1 = i
      BY <1>1, <2>3
    <3>2. r[i - 1] = q[i]
      BY <1>1, <3>1
    <3> QED
      BY <2>1, <2>3, <3>2 DEF Before
  <2> QED
    BY <2>2, <2>3
<1> HIDE DEF r
<1>10. Before(r, phase, h, Len(r) + 1) = High(n + phase)
  <2>1. Len(r) + 1 \in 1 .. Len(r) + 1 /\ Len(r) + 1 + 1 = Len(q) + 1
    BY <1>1
  <2> QED
    BY <1>9, <2>1 DEF Exact
<1>11. ASSUME NEW i \in 1 .. Len(r)
       PROVE  /\ Told(r[i], phase, Before(r, phase, h, i))
              /\ r[i].at <= n
              /\ Before(r, phase, h, i) < High(n + phase) => r[i].at + phase <= High(n + phase)
              /\ \A j \in 1 .. Len(r) : i < j => r[i].at < r[j].at
  <2>1. i \in 1 .. Len(r) + 1 /\ i + 1 \in 1 .. Len(q)
    BY <1>1
  <2>2. r[i] = q[i + 1] /\ Before(r, phase, h, i) = Before(q, phase, high, i + 1)
    BY <1>1, <1>9, <2>1
  <2>3. ASSUME NEW j \in 1 .. Len(r), i < j PROVE r[i].at < r[j].at
    <3>1. j + 1 \in 1 .. Len(q) /\ i + 1 < j + 1
      BY <1>1, <2>3
    <3> QED
      BY <1>1, <2>1, <2>2, <3>1 DEF Exact
  <2> QED
    BY <2>1, <2>2, <2>3 DEF Exact
<1> QED
  BY <1>4, <1>5, <1>6, <1>7, <1>8, <1>10, <1>11 DEF Exact, r

-----------------------------------------------------------------------------
(* Types *)

(* The entry of a tick in the FIFO of a side. *)
Ticked(side, kinds) ==
    [SELF_INC |-> Clock(side, now + 1) % P = 0, TRIG_VECTOR |-> kinds,
     low |-> Clock(side, now + 1) % P, at |-> now + 1]

(* It is one. *)
LEMMA TickedTypes ==
    ASSUME TypeInv, NEW side \in {"sc", "mc"}, NEW kinds \in SUBSET Kinds
    PROVE  Ticked(side, kinds) \in Entry
<1>1. now + 1 \in Nat /\ Clock(side, now + 1) \in Nat
  BY TriggerAssumption DEF TypeInv, Clock
<1>2. Clock(side, now + 1) % P \in Nat
  BY <1>1, LowBits
<1> QED
  BY <1>1, <1>2 DEF Ticked, Entry

(* What a tick does to the FIFOs. *)
LEMMA TickFifo ==
    ASSUME TypeInv, NEW kinds \in SUBSET Kinds, Tick(kinds)
    PROVE  /\ now' = now + 1 /\ now \in Nat
           /\ fifo' \in [{"sc", "mc"} -> Seq(Entry)]
           /\ \A side \in {"sc", "mc"} :
                 /\ fifo[side] \in Seq(Entry)
                 /\ fifo'[side] = IF Clock(side, now + 1) % P = 0 \/ kinds # {}
                                  THEN Append(fifo[side], Ticked(side, kinds)) ELSE fifo[side]
<1>1. now' = now + 1 /\ now \in Nat
  BY DEF TypeInv, Tick
<1>2. fifo' = [side \in {"sc", "mc"} |->
                  IF Clock(side, now + 1) % P = 0 \/ kinds # {}
                  THEN Append(fifo[side], Ticked(side, kinds)) ELSE fifo[side]]
  BY <1>1 DEF Tick, Ticked
<1>3. \A side \in {"sc", "mc"} : fifo[side] \in Seq(Entry)
  BY DEF TypeInv
<1>4. \A side \in {"sc", "mc"} : Append(fifo[side], Ticked(side, kinds)) \in Seq(Entry)
  BY <1>3, TickedTypes, AppendProperties
<1> QED
  BY <1>1, <1>2, <1>3, <1>4

(* The state at the start. *)
LEMMA InitTypes == Init => TypeInv
<1> SUFFICES ASSUME Init PROVE TypeInv
  OBVIOUS
<1>1. << >> \in Seq(Entry) /\ High(Phase) \in Nat /\ 2 * P \in Nat
  BY EmptySeq, Whole, TriggerAssumption
<1>2. fifo \in [{"sc", "mc"} -> Seq(Entry)]
  BY <1>1 DEF Init
<1>3. paired \in [Kinds -> Pairs]
  BY TriggerAssumption DEF Init, Pairs, Slot
<1>4. settime \in SetTimes
  BY TriggerAssumption DEF Init, SetTimes
<1> QED
  BY <1>1, <1>2, <1>3, <1>4 DEF Init, TypeInv

(* The FPGA and the entry of the interrupt. *)
LEMMA TickTypes ==
    ASSUME TypeInv, NEW kinds \in SUBSET Kinds, Tick(kinds), UNCHANGED world
    PROVE  TypeInv'
<1>1. /\ now' = now + 1 /\ now \in Nat
      /\ fifo' \in [{"sc", "mc"} -> Seq(Entry)]
  BY TickFifo
<1>2. help' \in Nat \cup {NULL}
  <2>1. help' = now + 1 \/ help' = help
    BY <1>1 DEF Tick
  <2> QED
    BY <1>1, <2>1 DEF TypeInv
<1>3. evgen' \in Nat \cup {NULL} /\ sa' \in BOOLEAN
  <2>1. \/ evgen' = NULL /\ sa' = TRUE
        \/ UNCHANGED << evgen, sa >>
    BY DEF Tick
  <2> QED
    BY <2>1 DEF TypeInv
<1>4. UNCHANGED << vec, sc_time, mc_time, stamp_raw, paired, pm_freezed, TRIGMODE,
                    settime, head, call, set >>
  BY DEF Tick
<1> QED
  BY <1>1, <1>2, <1>3, <1>4 DEF TypeInv

(* The slot before the next of a CircBuf is the slot itself, and the one     *)
(* before it is another.                                                     *)
LEMMA SlotBefore ==
    ASSUME NEW i \in 0 .. LOG - 1
    PROVE  /\ (i + 1) % LOG \in 0 .. LOG - 1
           /\ (((i + 1) % LOG) + LOG - 1) % LOG = i
           /\ (i + LOG - 1) % LOG \in 0 .. LOG - 1
           /\ (i + LOG - 1) % LOG # i
<1>1. LOG \in Nat \ {0, 1}
  BY TriggerAssumption
<1>2. \A x \in 0 .. LOG - 1 : x % LOG = x /\ (x + LOG) % LOG = x
  BY <1>1
<1>3. CASE i = 0
  <2>1. /\ i + 1 \in 0 .. LOG - 1 /\ i + 1 + LOG - 1 = i + LOG
        /\ i + LOG - 1 \in 0 .. LOG - 1 /\ i + LOG - 1 # i
    BY <1>1, <1>3
  <2> QED
    BY <1>2, <2>1
<1>4. CASE i # 0 /\ i + 1 < LOG
  <2>1. /\ i + 1 \in 0 .. LOG - 1 /\ i + 1 + LOG - 1 = i + LOG
        /\ i - 1 \in 0 .. LOG - 1 /\ i - 1 + LOG = i + LOG - 1 /\ i - 1 # i
    BY <1>1, <1>4
  <2> QED
    BY <1>2, <2>1
<1>5. CASE i # 0 /\ i + 1 = LOG
  <2>1. /\ 0 \in 0 .. LOG - 1 /\ 0 + LOG = i + 1 /\ 0 + LOG - 1 = i
        /\ i - 1 \in 0 .. LOG - 1 /\ i - 1 + LOG = i + LOG - 1 /\ i - 1 # i
    BY <1>1, <1>5
  <2>2. (i + 1) % LOG = 0 /\ i % LOG = i
    BY <1>2, <2>1
  <2>3. ((i + 1) % LOG) + LOG - 1 = i
    BY <2>1, <2>2
  <2>4. (i + LOG - 1) % LOG = i - 1
    BY <1>2, <2>1
  <2> QED
    BY <1>1, <2>1, <2>2, <2>3, <2>4
<1>6. i = 0 \/ (i # 0 /\ i + 1 < LOG) \/ (i # 0 /\ i + 1 = LOG)
  BY <1>1
<1> QED
  BY <1>3, <1>4, <1>5, <1>6

(* The half of a pair that the SC handler puts, ... *)
LEMMA PutLST ==
    ASSUME NEW q \in Pairs, NEW t \in Int, NEW e \in Entry, NEW r,
           r = putLSTtoCircBuf(q, t, e)
    PROVE  /\ r \in Pairs /\ r.put = q.put /\ q.put \in 0 .. LOG - 1
           /\ r.stamp[q.put].lst = t /\ r.stamp[q.put].at.lst = e.at
           /\ \A i \in 0 .. LOG - 1 : i # q.put => r.stamp[i] = q.stamp[i]
<1>1. q.put \in 0 .. LOG - 1 /\ q.stamp \in [0 .. LOG - 1 -> Slot] /\ e.at \in Nat
  BY DEF Pairs, Entry
<1> DEFINE x == q.stamp[q.put]
           y == [x EXCEPT !.lst = t, !.at.lst = e.at]
<1>2. x \in Slot
  BY <1>1
<1> HIDE DEF x
<1>3. y \in Slot /\ y.lst = t /\ y.at.lst = e.at
  BY <1>1, <1>2 DEF Slot
<1>4. r = [q EXCEPT !.stamp[q.put] = y]
  BY DEF putLSTtoCircBuf, x
<1> HIDE DEF y
<1>5. r.put = q.put /\ r.stamp = [q.stamp EXCEPT ![q.put] = y] /\ r \in Pairs
  BY <1>1, <1>3, <1>4 DEF Pairs
<1>6. r.stamp[q.put] = y /\ \A i \in 0 .. LOG - 1 : i # q.put => r.stamp[i] = q.stamp[i]
  BY <1>1, <1>5
<1> QED
  BY <1>1, <1>3, <1>5, <1>6

(* ... and the one of the MC handler, which completes it. *)
LEMMA PutLMT ==
    ASSUME NEW q \in Pairs, NEW t \in Int, NEW e \in Entry, NEW r,
           r = putLMTtoCircBuf(q, t, e)
    PROVE  /\ r \in Pairs /\ q.put \in 0 .. LOG - 1
           /\ getFromCircBuf(r).lmt = t /\ getFromCircBuf(r).at.lmt = e.at
           /\ getFromCircBuf(r).lst = q.stamp[q.put].lst
           /\ getFromCircBuf(r).at.lst = q.stamp[q.put].at.lst
<1>1. q.put \in 0 .. LOG - 1 /\ q.stamp \in [0 .. LOG - 1 -> Slot] /\ e.at \in Nat
  BY DEF Pairs, Entry
<1> DEFINE x == q.stamp[q.put]
           y == [x EXCEPT !.lmt = t, !.at.lmt = e.at]
           next == (q.put + 1) % LOG
<1>2. x \in Slot
  BY <1>1
<1> HIDE DEF x
<1>3. y \in Slot /\ y.lmt = t /\ y.at.lmt = e.at /\ y.lst = x.lst /\ y.at.lst = x.at.lst
  BY <1>1, <1>2 DEF Slot
<1>4. r = [q EXCEPT !.stamp[q.put] = y, !.put = next]
  BY DEF putLMTtoCircBuf, x
<1>5. next \in 0 .. LOG - 1 /\ (next + LOG - 1) % LOG = q.put
  BY <1>1, SlotBefore
<1> HIDE DEF y, next
<1>6. r.put = next /\ r.stamp = [q.stamp EXCEPT ![q.put] = y] /\ r \in Pairs
  BY <1>1, <1>3, <1>4, <1>5 DEF Pairs
<1>7. getFromCircBuf(r) = y
  BY <1>1, <1>5, <1>6 DEF getFromCircBuf
<1> QED
  BY <1>1, <1>3, <1>6, <1>7 DEF x


(* The pair that users get, after the putting of a first half. *)
LEMMA PutLSTPair ==
    ASSUME NEW q \in Pairs, NEW t \in Int, NEW e \in Entry
    PROVE  getFromCircBuf(putLSTtoCircBuf(q, t, e)) = getFromCircBuf(q)
<1> DEFINE r == putLSTtoCircBuf(q, t, e)
           i == (q.put + LOG - 1) % LOG
<1>1. /\ r.put = q.put /\ q.put \in 0 .. LOG - 1
      /\ \A k \in 0 .. LOG - 1 : k # q.put => r.stamp[k] = q.stamp[k]
  BY PutLST
<1>2. i \in 0 .. LOG - 1 /\ i # q.put
  BY <1>1, SlotBefore
<1>3. r.stamp[i] = q.stamp[i]
  BY <1>1, <1>2
<1> QED
  BY <1>1, <1>3 DEF getFromCircBuf

-----------------------------------------------------------------------------
(* The steps of the handlers, taken apart *)

SCLst(k, e, s) ==
    IF k = "TRIGGER" /\ TRIGMODE = "SET" THEN s ELSE s + settime.lst.off

(* The SC handler takes the oldest entry and puts the first halves. *)
LEMMA ScStep ==
    ASSUME TypeInv, libera_sc_handler,
           NEW e, e = fifo["sc"][1],
           NEW h, h = sc_time + (IF e.SELF_INC THEN P ELSE 0)
    PROVE  /\ e \in Entry /\ fifo["sc"] # << >> /\ fifo["sc"] \in Seq(Entry) /\ h \in Nat
           /\ fifo' = [fifo EXCEPT !["sc"] = Tail(fifo["sc"])]
           /\ fifo' \in [{"sc", "mc"} -> Seq(Entry)]
           /\ fifo'["sc"] = Tail(fifo["sc"]) /\ fifo'["mc"] = fifo["mc"]
           /\ sc_time' = h
           /\ stamp_raw' = [stamp |-> h + e.low, time |-> e.at + Phase]
           /\ vec # NULL /\ "SC" \in vec
           /\ paired' = [k \in Kinds |->
                 IF Stored(k, e)
                 THEN putLSTtoCircBuf(paired[k], SCLst(k, e, h + e.low), e) ELSE paired[k]]
           /\ \A k \in Kinds : SCLst(k, e, h + e.low) \in Int
<1>1. fifo["sc"] # << >> /\ fifo["sc"] \in Seq(Entry) /\ fifo["mc"] \in Seq(Entry)
  BY DEF TypeInv, libera_sc_handler
<1>2. /\ Tail(fifo["sc"]) \in Seq(Entry) /\ Head(fifo["sc"]) = e /\ e \in Entry
  BY <1>1, TailOf
<1>3. e.SELF_INC \in BOOLEAN /\ e.low \in Nat /\ e.at \in Nat
  BY <1>2 DEF Entry
<1>4. h \in Nat /\ h + e.low \in Nat
  <2>1. sc_time \in Nat /\ P \in Nat
    BY TriggerAssumption DEF TypeInv
  <2> QED
    BY <1>3, <2>1
<1>5. /\ Stamp("sc", e, sc_time).high = h /\ Stamp("sc", e, sc_time).stamp = h + e.low
  BY DEF Stamp
<1>6. /\ fifo' = [fifo EXCEPT !["sc"] = Tail(fifo["sc"])]
      /\ sc_time' = h
      /\ stamp_raw' = [stamp |-> h + e.low, time |-> Clock("sc", e.at)]
      /\ paired' = [k \in Kinds |->
            IF ~Stored(k, e) THEN paired[k]
            ELSE putLSTtoCircBuf(paired[k],
                    IF k = "TRIGGER" /\ TRIGMODE = "SET" THEN h + e.low
                    ELSE h + e.low + settime.lst.off, e)]
      /\ vec # NULL /\ "SC" \in vec
  BY <1>2, <1>5 DEF libera_sc_handler, Serves
<1>7. settime.lst.off \in Int
  BY DEF TypeInv, SetTimes
<1>8. paired' = [k \in Kinds |->
         IF Stored(k, e)
         THEN putLSTtoCircBuf(paired[k], SCLst(k, e, h + e.low), e) ELSE paired[k]]
  BY <1>6 DEF SCLst
<1>9. \A k \in Kinds : SCLst(k, e, h + e.low) \in Int
  BY <1>4, <1>7 DEF SCLst
<1>10. fifo \in [{"sc", "mc"} -> Seq(Entry)]
  BY DEF TypeInv
<1> QED
  BY <1>1, <1>2, <1>4, <1>6, <1>8, <1>9, <1>10 DEF Clock

MCSets(e) == "TRIGGER" \in e.TRIG_VECTOR /\ TRIGMODE = "SET"
MCLmt(k, e, s) == IF k = "TRIGGER" /\ MCSets(e) THEN s ELSE s + settime.lmt.off
NewTimes(trig) == [libera_set_LMT(trig, libera_set_LST(trig, settime)) EXCEPT !.update = {}]

(* The offsets that a trigger sets. *)
LEMMA NewTimesTypes ==
    ASSUME settime \in SetTimes, NEW trig \in Slot, NEW new, new = NewTimes(trig)
    PROVE  /\ new \in SetTimes
           /\ new.lst.off = IF "ST" \in settime.update
                            THEN settime.lst.ref - settime.lst.scphi - trig.lst
                            ELSE settime.lst.off
           /\ new.lmt.off_pll \in 0 .. D - 1 /\ settime.lmt.off_pll \in 0 .. D - 1
<1>1. /\ settime.lst \in [ref : Int, scphi : Int, off : Int]
      /\ settime.lmt \in [ref : Int, mcphi : Int, off : Int, off_pll : 0 .. D - 1]
      /\ settime.update \in SUBSET Sets
  BY DEF SetTimes
<1> DEFINE a == libera_set_LST(trig, settime)
           b == libera_set_LMT(trig, a)
<1>2. trig.lst \in Int /\ trig.lmt \in Int
  BY DEF Slot
<1>3. D \in Nat \ {0}
  BY TriggerAssumption
<1>4. /\ a \in SetTimes
      /\ a.lst.off = IF "ST" \in settime.update
                     THEN settime.lst.ref - settime.lst.scphi - trig.lst
                     ELSE settime.lst.off
  <2>1. CASE "ST" \in settime.update
    <3>1. settime.lst.ref - settime.lst.scphi - trig.lst \in Int
      BY <1>1, <1>2
    <3> QED
      BY <1>1, <2>1, <3>1 DEF libera_set_LST, SetTimes
  <2>2. CASE "ST" \notin settime.update
    BY <2>2 DEF libera_set_LST
  <2> QED
    BY <2>1, <2>2
<1> HIDE DEF a
<1>5. b \in SetTimes /\ b.lst = a.lst
  <2>1. CASE "MT" \in a.update
    <3> DEFINE all == a.lmt.ref - a.lmt.mcphi - trig.lmt + a.lmt.off_pll
    <3>1. /\ a.lmt \in [ref : Int, mcphi : Int, off : Int, off_pll : 0 .. D - 1]
          /\ a.lmt.ref \in Int /\ a.lmt.mcphi \in Int /\ a.lmt.off_pll \in Int
      BY <1>4 DEF SetTimes
    <3>2. all \in Int
      BY <1>2, <3>1
    <3>3. b = [a EXCEPT !.lmt.off_pll = all % D, !.lmt.off = all - (all % D)]
      BY <2>1 DEF libera_set_LMT
    <3> HIDE DEF all, b
    <3>4. all % D \in 0 .. D - 1 /\ all - (all % D) \in Int
      BY <1>3, <3>2
    <3> QED
      BY <1>4, <3>1, <3>3, <3>4 DEF SetTimes
  <2>2. CASE "MT" \notin a.update
    BY <1>4, <2>2 DEF libera_set_LMT
  <2> QED
    BY <2>1, <2>2
<1>6. new = [b EXCEPT !.update = {}]
  BY DEF NewTimes, a
<1> HIDE DEF b
<1>7. new \in SetTimes /\ new.lst = b.lst
  BY <1>5, <1>6 DEF SetTimes
<1>8. new.lmt.off_pll \in 0 .. D - 1 /\ settime.lmt.off_pll \in 0 .. D - 1
  BY <1>1, <1>7 DEF SetTimes
<1> QED
  BY <1>4, <1>5, <1>7, <1>8

(* The MC handler takes the oldest entry and completes the pairs; a trigger  *)
(* in the mode SET sets the time.                                            *)
LEMMA McStep ==
    ASSUME TypeInv, libera_mc_handler,
           NEW e, e = fifo["mc"][1],
           NEW h, h = mc_time + (IF e.SELF_INC THEN P ELSE 0)
    PROVE  /\ e \in Entry /\ fifo["mc"] # << >> /\ fifo["mc"] \in Seq(Entry) /\ h \in Nat
           /\ fifo' = [fifo EXCEPT !["mc"] = Tail(fifo["mc"])]
           /\ fifo' \in [{"sc", "mc"} -> Seq(Entry)]
           /\ fifo'["mc"] = Tail(fifo["mc"]) /\ fifo'["sc"] = fifo["sc"]
           /\ mc_time' = h
           /\ stamp_raw' = [stamp |-> h + e.low, time |-> e.at]
           /\ vec # NULL /\ "MC" \in vec /\ "SC" \notin vec
           /\ paired' = [k \in Kinds |->
                 IF Stored(k, e)
                 THEN putLMTtoCircBuf(paired[k], MCLmt(k, e, h + e.low), e) ELSE paired[k]]
           /\ \A k \in Kinds : MCLmt(k, e, h + e.low) \in Int
           /\ evgen' = IF e.SELF_INC THEN libera_mc_selfinc_specific(h) ELSE evgen
           /\ pm_freezed' \in BOOLEAN
<1>1. fifo["mc"] # << >> /\ fifo["mc"] \in Seq(Entry) /\ fifo["sc"] \in Seq(Entry)
  BY DEF TypeInv, libera_mc_handler
<1>2. /\ Tail(fifo["mc"]) \in Seq(Entry) /\ Head(fifo["mc"]) = e /\ e \in Entry
  BY <1>1, TailOf
<1>3. e.SELF_INC \in BOOLEAN /\ e.low \in Nat /\ e.at \in Nat
  BY <1>2 DEF Entry
<1>4. h \in Nat /\ h + e.low \in Nat
  <2>1. mc_time \in Nat /\ P \in Nat
    BY TriggerAssumption DEF TypeInv
  <2> QED
    BY <1>3, <2>1
<1>5. /\ Stamp("mc", e, mc_time).high = h /\ Stamp("mc", e, mc_time).stamp = h + e.low
  BY DEF Stamp
<1> DEFINE put == [k \in Kinds |->
                     IF Stored(k, e)
                     THEN putLMTtoCircBuf(paired[k], MCLmt(k, e, h + e.low), e)
                     ELSE paired[k]]
<1>6. put = [k \in Kinds |->
               IF ~Stored(k, e) THEN paired[k]
               ELSE putLMTtoCircBuf(paired[k],
                       IF k = "TRIGGER" /\ MCSets(e) THEN h + e.low
                       ELSE h + e.low + settime.lmt.off, e)]
  BY DEF MCLmt
<1>7. /\ fifo' = [fifo EXCEPT !["mc"] = Tail(fifo["mc"])]
      /\ mc_time' = h
      /\ stamp_raw' = [stamp |-> h + e.low, time |-> e.at]
      /\ evgen' = IF e.SELF_INC THEN libera_mc_selfinc_specific(h) ELSE evgen
      /\ pm_freezed' = (pm_freezed \/ (Stored("POST_MORTEM", e) /\ world.PM_MODE # 0))
      /\ vec # NULL /\ "MC" \in vec /\ "SC" \notin vec
  BY <1>2, <1>5 DEF libera_mc_handler, Serves
<1>12. paired' = put
  BY <1>2, <1>5, <1>6 DEF libera_mc_handler, MCSets
<1>8. settime.lmt.off \in Int
  BY DEF TypeInv, SetTimes
<1>9. \A k \in Kinds : MCLmt(k, e, h + e.low) \in Int
  BY <1>4, <1>8 DEF MCLmt
<1>10. fifo \in [{"sc", "mc"} -> Seq(Entry)]
  BY DEF TypeInv
<1>11. pm_freezed' \in BOOLEAN
  BY <1>7
<1> HIDE DEF put
<1> QED
  BY <1>1, <1>2, <1>4, <1>7, <1>9, <1>10, <1>11, <1>12 DEF put

(* The time that a trigger sets. *)
LEMMA McSetStep ==
    ASSUME TypeInv, libera_mc_handler, NEW e, e = fifo["mc"][1]
    PROVE  IF MCSets(e)
           THEN LET trig == getFromCircBuf(paired'["TRIGGER"])
                IN  /\ settime' = NewTimes(trig) /\ TRIGMODE' = "GET"
                    /\ set' = IF "ST" \in settime.update
                              THEN [at |-> e.at + Phase,
                                    ref |-> settime.lst.ref - settime.lst.scphi]
                              ELSE set
                    /\ \/ "MT" \in settime.update /\ sa' = FALSE
                          /\ head' = SAStart(trig, settime, NewTimes(trig))
                       \/ "MT" \notin settime.update /\ UNCHANGED << sa, head >>
           ELSE UNCHANGED << settime, TRIGMODE, set, sa, head >>
<1>1. fifo["mc"] # << >> /\ fifo["mc"] \in Seq(Entry)
  BY DEF TypeInv, libera_mc_handler
<1>2. Head(fifo["mc"]) = e
  BY <1>1, TailOf
<1>3. IF MCSets(e)
      THEN /\ settime' = NewTimes(getFromCircBuf(paired'["TRIGGER"])) /\ TRIGMODE' = "GET"
           /\ set' = IF "ST" \in settime.update
                     THEN [at |-> Clock("sc", e.at),
                           ref |-> settime.lst.ref - settime.lst.scphi]
                     ELSE set
           /\ IF "MT" \in settime.update
              THEN sa' = FALSE /\ head' = SAStart(getFromCircBuf(paired'["TRIGGER"]),
                                                  settime, settime')
              ELSE UNCHANGED << sa, head >>
      ELSE UNCHANGED << settime, TRIGMODE, set, sa, head >>
  BY <1>2 DEF libera_mc_handler, MCSets, NewTimes
<1> QED
  BY <1>3 DEF Clock

(* The pairs stay pairs. *)
LEMMA PairTypes ==
    /\ \A q \in Pairs : getFromCircBuf(q) \in Slot
    /\ \A q \in Pairs, t \in Int, e \in Entry : putLSTtoCircBuf(q, t, e) \in Pairs
    /\ \A q \in Pairs, t \in Int, e \in Entry : putLMTtoCircBuf(q, t, e) \in Pairs
<1>1. ASSUME NEW q \in Pairs PROVE getFromCircBuf(q) \in Slot
  <2>1. q.put \in 0 .. LOG - 1 /\ q.stamp \in [0 .. LOG - 1 -> Slot]
    BY DEF Pairs
  <2>2. (q.put + LOG - 1) % LOG \in 0 .. LOG - 1
    BY <2>1, SlotBefore
  <2> QED
    BY <2>1, <2>2 DEF getFromCircBuf
<1> QED
  BY <1>1, PutLST, PutLMT

(* The start of SA that a trigger sets: a period after it or more. *)
LEMMA McSets ==
    ASSUME TypeInv, libera_mc_handler,
           NEW e, e = fifo["mc"][1],
           NEW h, h = mc_time + (IF e.SELF_INC THEN P ELSE 0),
           MCSets(e),
           NEW trig, trig = getFromCircBuf(paired'["TRIGGER"])
    PROVE  /\ trig \in Slot /\ NewTimes(trig) \in SetTimes
           /\ trig.lst = paired["TRIGGER"].stamp[paired["TRIGGER"].put].lst
           /\ SAStart(trig, settime, NewTimes(trig)) \in Nat
           /\ SAStart(trig, settime, NewTimes(trig)) >= h + e.low + P
<1> DEFINE q == paired["TRIGGER"]
           s == h + e.low
           new == NewTimes(trig)
<1>1. e \in Entry /\ h \in Nat
  BY McStep
<1>2. /\ paired' = [k \in Kinds |->
            IF Stored(k, e) THEN putLMTtoCircBuf(paired[k], MCLmt(k, e, s), e) ELSE paired[k]]
  BY McStep
<1>11. "TRIGGER" \in Kinds /\ q \in Pairs
  BY DEF Kinds, TypeInv
<1>3. Stored("TRIGGER", e) /\ MCLmt("TRIGGER", e, s) = s
  BY DEF Stored, MCLmt, MCSets
<1>4. paired'["TRIGGER"] = putLMTtoCircBuf(q, s, e)
  BY <1>2, <1>3, <1>11
<1>5. s \in Nat
  BY <1>1 DEF Entry
<1> HIDE DEF q, s
<1>6. trig.lmt = s /\ trig.lst = q.stamp[q.put].lst /\ trig \in Slot
  BY <1>1, <1>4, <1>5, <1>11, PutLMT, PairTypes
<1>7. settime \in SetTimes
  BY DEF TypeInv
<1>8. new \in SetTimes /\ new.lmt.off_pll \in 0 .. D - 1 /\ settime.lmt.off_pll \in 0 .. D - 1
  BY <1>6, <1>7, NewTimesTypes
<1> HIDE DEF new
<1>9. /\ P \in Nat /\ Delay \in Nat /\ D \in Nat /\ P <= Delay - (D - 1)
  BY TriggerAssumption
<1>10. /\ SAStart(trig, settime, new) \in Nat /\ SAStart(trig, settime, new) >= s + P
  <2>1. SAStart(trig, settime, new) = s + Delay - (new.lmt.off_pll - settime.lmt.off_pll)
    BY <1>6 DEF SAStart
  <2>2. new.lmt.off_pll - settime.lmt.off_pll \in Int
        /\ new.lmt.off_pll - settime.lmt.off_pll <= D - 1
    BY <1>8, <1>9
  <2> QED
    BY <1>5, <1>9, <2>1, <2>2
<1> QED
  BY <1>6, <1>8, <1>10 DEF q, s, new

(* The types through the handlers, ... *)
LEMMA HandlerTypes ==
    ASSUME TypeInv, UNCHANGED world, libera_sc_handler \/ libera_mc_handler
    PROVE  TypeInv'
<1>1. CASE libera_sc_handler
  <2> DEFINE e == fifo["sc"][1]
             h == sc_time + (IF e.SELF_INC THEN P ELSE 0)
  <2>1. /\ e \in Entry /\ h \in Nat /\ sc_time' = h
        /\ fifo' \in [{"sc", "mc"} -> Seq(Entry)]
        /\ stamp_raw' = [stamp |-> h + e.low, time |-> e.at + Phase]
        /\ paired' = [k \in Kinds |->
              IF Stored(k, e)
              THEN putLSTtoCircBuf(paired[k], SCLst(k, e, h + e.low), e) ELSE paired[k]]
        /\ \A k \in Kinds : SCLst(k, e, h + e.low) \in Int
    BY <1>1, ScStep
  <2> HIDE DEF e, h
  <2>2. paired' \in [Kinds -> Pairs]
    BY <2>1, PairTypes DEF TypeInv
  <2>3. stamp_raw' \in [stamp : Nat, time : Nat]
    BY <2>1, TriggerAssumption DEF Entry
  <2>4. UNCHANGED << now, help, sa, evgen, vec, mc_time, pm_freezed, TRIGMODE, settime,
                      head, call, set, done >>
    BY <1>1 DEF libera_sc_handler, process
  <2> QED
    BY <2>1, <2>2, <2>3, <2>4 DEF TypeInv
<1>2. CASE libera_mc_handler
  <2> DEFINE e == fifo["mc"][1]
             h == mc_time + (IF e.SELF_INC THEN P ELSE 0)
  <2>7. /\ e = fifo["mc"][1]
        /\ h = mc_time + (IF e.SELF_INC THEN P ELSE 0)
    OBVIOUS
  <2> HIDE DEF e, h
  <2>1. /\ e \in Entry /\ h \in Nat /\ mc_time' = h
        /\ fifo' \in [{"sc", "mc"} -> Seq(Entry)]
        /\ stamp_raw' = [stamp |-> h + e.low, time |-> e.at]
        /\ paired' = [k \in Kinds |->
              IF Stored(k, e)
              THEN putLMTtoCircBuf(paired[k], MCLmt(k, e, h + e.low), e) ELSE paired[k]]
        /\ \A k \in Kinds : MCLmt(k, e, h + e.low) \in Int
        /\ evgen' = IF e.SELF_INC THEN libera_mc_selfinc_specific(h) ELSE evgen
        /\ pm_freezed' \in BOOLEAN
    BY <1>2, <2>7, McStep
  <2>2. settime' \in SetTimes /\ TRIGMODE' \in {"GET", "SET"} /\ sa' \in BOOLEAN /\ head' \in Nat
    <3>1. CASE MCSets(e)
      <4> DEFINE trig == getFromCircBuf(paired'["TRIGGER"])
      <4>1. /\ settime' = NewTimes(trig) /\ TRIGMODE' = "GET"
            /\ \/ sa' = FALSE /\ head' = SAStart(trig, settime, NewTimes(trig))
               \/ UNCHANGED << sa, head >>
        BY <1>2, <2>7, <3>1, McSetStep
      <4>2. /\ NewTimes(trig) \in SetTimes
            /\ SAStart(trig, settime, NewTimes(trig)) \in Nat
        BY <1>2, <2>7, <3>1, McSets
      <4> QED
        BY <4>1, <4>2 DEF TypeInv
    <3>2. CASE ~MCSets(e)
      <4>1. UNCHANGED << settime, TRIGMODE, set, sa, head >>
        BY <1>2, <2>7, <3>2, McSetStep
      <4> QED
        BY <4>1 DEF TypeInv
    <3> QED
      BY <3>1, <3>2
  <2>3. paired' \in [Kinds -> Pairs]
    BY <2>1, PairTypes DEF TypeInv
  <2>4. stamp_raw' \in [stamp : Nat, time : Nat]
    BY <2>1 DEF Entry
  <2>5. evgen' \in Nat \cup {NULL}
    <3>1. evgen' = evgen \/ (evgen' = head - h /\ h <= head)
      BY <2>1 DEF libera_mc_selfinc_specific
    <3>2. head \in Nat
      BY DEF TypeInv
    <3> QED
      BY <2>1, <3>1, <3>2 DEF TypeInv
  <2>6. UNCHANGED << now, help, vec, sc_time, call, done >>
    BY <1>2 DEF libera_mc_handler, process
  <2> QED
    BY <2>1, <2>2, <2>3, <2>4, <2>5, <2>6 DEF TypeInv
<1> QED
  BY <1>1, <1>2

(* ... through the rest of the interrupt ... *)
LEMMA InterruptTypes ==
    ASSUME TypeInv, UNCHANGED world,
           \/ libera_interrupt \/ Leave("SC", "sc") \/ Leave("MC", "mc")
           \/ libera_mchelp_handler_specific
    PROVE  TypeInv'
<1>1. CASE libera_interrupt
  <2>1. vec' = NULL \/ vec' \in SUBSET {"SC", "MC", "HELP"}
    BY <1>1 DEF libera_interrupt, int_vec
  <2> QED
    BY <1>1, <2>1 DEF TypeInv, libera_interrupt, clocks, process
<1>2. ASSUME NEW h \in {"SC", "MC"}, NEW side \in {"sc", "mc"}, Leave(h, side)
      PROVE  TypeInv'
  <2>1. vec' \in SUBSET {"SC", "MC", "HELP"}
    BY <1>2 DEF Leave, Serves, TypeInv
  <2> QED
    BY <1>2, <2>1 DEF TypeInv, Leave, clocks, process
<1>3. CASE libera_mchelp_handler_specific
  <2>1. evgen' = evgen \/ (evgen' = head - (mc_time + P) /\ mc_time + P <= head)
    BY <1>3 DEF libera_mchelp_handler_specific
  <2>2. head \in Nat /\ mc_time + P \in Nat
    <3>1. mc_time \in Nat /\ P \in Nat
      BY TriggerAssumption DEF TypeInv
    <3> QED
      BY <3>1 DEF TypeInv
  <2>3. evgen' \in Nat \cup {NULL}
    BY <2>1, <2>2 DEF TypeInv
  <2>4. help' = NULL /\ vec' = {}
    BY <1>3 DEF libera_mchelp_handler_specific
  <2> QED
    BY <1>3, <2>3, <2>4 DEF TypeInv, libera_mchelp_handler_specific, process
<1> QED
  BY <1>1, <1>2, <1>3

(* The steps of the ioctls. *)
Ioctl ==
    \/ \E what \in Sets, ref \in Refs : SetRef(what, ref)
    \/ SetMode \/ LoadUpdate \/ StoreUpdate
    \/ \E what \in Sets, phi \in {0, 1} : SET_PHI(what, phi)
    \/ Unfreeze

(* ... and through the ioctls, which come when no interrupt is under way and *)
(* leave the offsets as they are.                                            *)
LEMMA IoctlTypes ==
    ASSUME TypeInv, UNCHANGED world, Ioctl
    PROVE  /\ TypeInv' /\ vec = NULL /\ settime'.lst.off = settime.lst.off
           /\ UNCHANGED << now, fifo, help, evgen, sa, vec, sc_time, mc_time, stamp_raw, paired,
                           head, set >>
<1>1. /\ settime.lst \in [ref : Int, scphi : Int, off : Int]
      /\ settime.lmt \in [ref : Int, mcphi : Int, off : Int, off_pll : 0 .. D - 1]
      /\ settime \in SetTimes
  BY DEF TypeInv, SetTimes
<1> DEFINE Rest == UNCHANGED << now, fifo, help, evgen, sa, vec, sc_time, mc_time, stamp_raw,
                                paired, head, set >>
           Calls == [pc : {"mode", "load", "store"}, what : Sets, update : SUBSET Sets]
           Goal == /\ vec = NULL /\ Rest /\ settime' \in SetTimes
                   /\ call' = NULL \/ call' \in Calls
                   /\ TRIGMODE' \in {"GET", "SET"} /\ pm_freezed' \in BOOLEAN
                   /\ settime'.lst.off = settime.lst.off
<1>2. TRIGMODE \in {"GET", "SET"} /\ pm_freezed \in BOOLEAN /\ (call = NULL \/ call \in Calls)
  BY DEF TypeInv
<1>3. ASSUME NEW what \in Sets, NEW ref \in Refs, SetRef(what, ref) PROVE Goal
  <2>1. ref \in Int
    BY TriggerAssumption
  <2>2. /\ vec = NULL /\ Rest /\ UNCHANGED << TRIGMODE, pm_freezed >>
        /\ call' = [pc |-> "mode", what |-> what, update |-> {}]
    BY <1>3 DEF SetRef, Begin, clocks
  <2>3. \/ settime' = [settime EXCEPT !.lst.ref = ref]
        \/ settime' = [settime EXCEPT !.lmt.ref = ref]
    BY <1>3 DEF SetRef
  <2>4. settime' \in SetTimes /\ settime'.lst.off = settime.lst.off
    BY <1>1, <2>1, <2>3 DEF SetTimes
  <2> QED
    BY <1>2, <2>2, <2>4
<1>4. ASSUME NEW what \in Sets, NEW phi \in {0, 1}, SET_PHI(what, phi) PROVE Goal
  <2>1. vec = NULL /\ Rest /\ UNCHANGED << TRIGMODE, pm_freezed, call >>
    BY <1>4 DEF SET_PHI, Begin, clocks
  <2>2. \/ settime' = [settime EXCEPT !.lst.scphi = phi]
        \/ settime' = [settime EXCEPT !.lmt.mcphi = phi]
    BY <1>4 DEF SET_PHI
  <2>3. settime' \in SetTimes /\ settime'.lst.off = settime.lst.off
    BY <1>1, <2>2 DEF SetTimes
  <2> QED
    BY <1>2, <2>1, <2>3
<1>5. ASSUME SetMode PROVE Goal
  <2>1. /\ vec = NULL /\ Rest /\ UNCHANGED << pm_freezed, settime >> /\ TRIGMODE' = "SET"
        /\ call # NULL /\ call' = [call EXCEPT !.pc = "load"]
    BY <1>5 DEF SetMode, clocks
  <2> QED
    BY <1>1, <1>2, <2>1
<1>6. ASSUME LoadUpdate PROVE Goal
  <2>1. /\ vec = NULL /\ Rest /\ UNCHANGED << pm_freezed, settime, TRIGMODE >>
        /\ call # NULL
        /\ call' = [call EXCEPT !.pc = "store", !.update = settime.update \cup {call.what}]
    BY <1>6 DEF LoadUpdate, clocks
  <2>2. call \in Calls /\ settime.update \in SUBSET Sets
    BY <1>1, <1>2, <2>1 DEF SetTimes
  <2>3. settime.update \cup {call.what} \in SUBSET Sets
    BY <2>2
  <2> QED
    BY <1>1, <1>2, <2>1, <2>2, <2>3
<1>7. ASSUME StoreUpdate PROVE Goal
  <2>1. /\ vec = NULL /\ Rest /\ UNCHANGED << pm_freezed, TRIGMODE >> /\ call # NULL
        /\ settime' = [settime EXCEPT !.update = call.update] /\ call' = NULL
    BY <1>7 DEF StoreUpdate, clocks
  <2>2. call.update \in SUBSET Sets
    BY <1>2, <2>1
  <2>3. settime' \in SetTimes /\ settime'.lst.off = settime.lst.off
    BY <1>1, <2>1, <2>2 DEF SetTimes
  <2> QED
    BY <1>2, <2>1, <2>3
<1>8. ASSUME Unfreeze PROVE Goal
  <2>1. vec = NULL /\ Rest /\ UNCHANGED << TRIGMODE, settime, call >> /\ pm_freezed' = FALSE
    BY <1>8 DEF Unfreeze, Begin, clocks
  <2> QED
    BY <1>1, <1>2, <2>1
<1>9. Goal
  BY <1>3, <1>4, <1>5, <1>6, <1>7, <1>8 DEF Ioctl
<1> QED
  BY <1>9 DEF TypeInv

(* Which steps there are. *)
LEMMA NextCases ==
    ASSUME [Next]_vars
    PROVE  \/ UNCHANGED vars
           \/ /\ UNCHANGED world
              /\ \/ \E kinds \in SUBSET Kinds : Tick(kinds)
                 \/ libera_interrupt \/ Leave("SC", "sc") \/ Leave("MC", "mc")
                 \/ libera_sc_handler \/ libera_mc_handler \/ libera_mchelp_handler_specific
                 \/ Ioctl
  BY DEF Next, Ioctl

(* Types are kept. *)
LEMMA NextTypes == TypeInv /\ [Next]_vars => TypeInv'
<1> SUFFICES ASSUME TypeInv, [Next]_vars PROVE TypeInv'
  OBVIOUS
<1>1. CASE UNCHANGED vars
  BY <1>1 DEF TypeInv, vars
<1> QED
  BY <1>1, NextCases, TickTypes, HandlerTypes, InterruptTypes, IoctlTypes

-----------------------------------------------------------------------------
(* The stamps are exact *)

PhaseOf(side) == IF side = "sc" THEN Phase ELSE 0
TimeOf(side) == IF side = "sc" THEN sc_time ELSE mc_time

(* The invariant, side by side. *)
LEMMA ClockSides ==
    /\ ClockInv <=> /\ \A side \in {"sc", "mc"} :
                          Exact(fifo[side], PhaseOf(side), TimeOf(side), now)
                    /\ StampsExact
    /\ TypeInv => \A side \in {"sc", "mc"} :
                     /\ fifo[side] \in Seq(Entry) /\ PhaseOf(side) \in Nat
                     /\ TimeOf(side) \in Nat /\ now \in Nat
  BY TriggerAssumption DEF ClockInv, PhaseOf, TimeOf, TypeInv

(* The clocks start at the beginning. *)
LEMMA InitClock == Init => ClockInv
<1> SUFFICES ASSUME Init PROVE ClockInv
  OBVIOUS
<1>1. P \in Nat \ {0} /\ Phase \in Nat
  BY TriggerAssumption
<1>2. High(0) = 0
  <2>1. High(0) \in Nat /\ 0 % P \in 0 .. P - 1 /\ 0 = High(0) + (0 % P)
    BY Whole
  <2> QED
    BY <1>1, <2>1
<1>3. fifo["sc"] = << >> /\ fifo["mc"] = << >> /\ now = 0
  BY DEF Init
<1>4. Len(<< >>) = 0 /\ 0 + Phase = Phase /\ 0 + 0 = 0 /\ 1 .. 0 = {} /\ 0 + 1 = 1
  BY <1>1, EmptySeq
<1>5. Exact(<< >>, Phase, High(Phase), 0) /\ Exact(<< >>, 0, 0, 0)
  <2>1. High(Phase) \in Nat
    BY <1>1, Whole
  <2> QED
    BY <1>2, <1>4, <2>1 DEF Exact, Before
<1>6. stamp_raw.stamp = stamp_raw.time
  BY DEF Init
<1> QED
  BY <1>3, <1>5, <1>6 DEF Init, ClockInv, StampsExact

(* The FPGA's tick. *)
LEMMA TickClock ==
    ASSUME TypeInv, ClockInv, NEW kinds \in SUBSET Kinds, Tick(kinds)
    PROVE  ClockInv'
<1>1. UNCHANGED << sc_time, mc_time, stamp_raw >>
  BY DEF Tick
<1>2. ASSUME NEW side \in {"sc", "mc"}
      PROVE  Exact(fifo'[side], PhaseOf(side), TimeOf(side), now + 1)
  <2> DEFINE q == fifo[side]
             phase == PhaseOf(side)
             e == Ticked(side, kinds)
  <2>1. /\ q \in Seq(Entry) /\ phase \in Nat /\ TimeOf(side) \in Nat /\ now \in Nat
        /\ Exact(q, phase, TimeOf(side), now)
    BY ClockSides
  <2>2. Clock(side, now + 1) = now + 1 + phase
    BY <2>1 DEF Clock, PhaseOf
  <2>3. fifo'[side] = IF (now + 1 + phase) % P = 0 \/ kinds # {} THEN Append(q, e) ELSE q
    BY <2>2, TickFifo
  <2>4. CASE (now + 1 + phase) % P = 0 \/ kinds # {}
    <3>1. e \in Entry
      BY TickedTypes
    <3>2. /\ e.at = now + 1 /\ e.low = (now + 1 + phase) % P
          /\ e.SELF_INC <=> e.low = 0
      BY <2>2 DEF Ticked
    <3> HIDE DEF e, q, phase
    <3>3. Exact(Append(q, e), phase, TimeOf(side), now + 1)
      BY <2>1, <3>1, <3>2, ExactAppend
    <3> QED
      BY <2>3, <2>4, <3>3 DEF phase
  <2>5. CASE ~((now + 1 + phase) % P = 0 \/ kinds # {})
    <3> HIDE DEF q, phase
    <3>1. Exact(q, phase, TimeOf(side), now + 1)
      BY <2>1, <2>5, ExactTick
    <3> QED
      BY <2>3, <2>5, <3>1 DEF phase
  <2> QED
    BY <2>4, <2>5
<1>3. now' = now + 1
  BY TickFifo
<1> QED
  BY <1>1, <1>2, <1>3, ClockSides DEF ClockInv, PhaseOf, TimeOf, StampsExact

(* The handlers: what they make of the oldest entry is its time. *)
LEMMA HandlerClock ==
    ASSUME TypeInv, ClockInv, libera_sc_handler \/ libera_mc_handler
    PROVE  ClockInv'
<1>1. CASE libera_sc_handler
  <2> DEFINE e == fifo["sc"][1]
             h == sc_time + (IF e.SELF_INC THEN P ELSE 0)
  <2>1. /\ fifo["sc"] # << >> /\ fifo["sc"] \in Seq(Entry)
        /\ fifo'["sc"] = Tail(fifo["sc"]) /\ fifo'["mc"] = fifo["mc"]
        /\ sc_time' = h
        /\ stamp_raw' = [stamp |-> h + e.low, time |-> e.at + Phase]
    BY <1>1, ScStep
  <2>2. sc_time \in Nat /\ Phase \in Nat /\ now \in Nat
    BY TriggerAssumption DEF TypeInv
  <2>3. h + e.low = e.at + Phase /\ Exact(Tail(fifo["sc"]), Phase, h, now)
    BY <2>1, <2>2, ExactTail DEF ClockInv
  <2>4. UNCHANGED << now, mc_time >>
    BY <1>1 DEF libera_sc_handler
  <2> HIDE DEF e, h
  <2> QED
    BY <2>1, <2>3, <2>4 DEF ClockInv, StampsExact
<1>2. CASE libera_mc_handler
  <2> DEFINE e == fifo["mc"][1]
             h == mc_time + (IF e.SELF_INC THEN P ELSE 0)
  <2>1. /\ e \in Entry /\ fifo["mc"] # << >> /\ fifo["mc"] \in Seq(Entry)
        /\ fifo'["mc"] = Tail(fifo["mc"]) /\ fifo'["sc"] = fifo["sc"]
        /\ mc_time' = h
        /\ stamp_raw' = [stamp |-> h + e.low, time |-> e.at]
    BY <1>2, McStep
  <2>2. mc_time \in Nat /\ 0 \in Nat /\ now \in Nat /\ e.at \in Nat /\ e.at + 0 = e.at
    BY <2>1 DEF TypeInv, Entry
  <2>3. h + e.low = e.at + 0 /\ Exact(Tail(fifo["mc"]), 0, h, now)
    BY <2>1, <2>2, ExactTail DEF ClockInv
  <2>4. UNCHANGED << now, sc_time >>
    BY <1>2 DEF libera_mc_handler
  <2> HIDE DEF e, h
  <2> QED
    BY <2>1, <2>2, <2>3, <2>4 DEF ClockInv, StampsExact
<1> QED
  BY <1>1, <1>2

(* Every other step leaves the clocks and the FIFOs alone. *)
LEMMA NextClock == TypeInv /\ ClockInv /\ [Next]_vars => ClockInv'
<1> SUFFICES ASSUME TypeInv, ClockInv, [Next]_vars PROVE ClockInv'
  OBVIOUS
<1>1. ASSUME UNCHANGED << now, fifo, sc_time, mc_time, stamp_raw >> PROVE ClockInv'
  BY <1>1 DEF ClockInv, StampsExact
<1>2. CASE UNCHANGED vars
  BY <1>1, <1>2 DEF vars
<1>3. CASE libera_interrupt \/ Leave("SC", "sc") \/ Leave("MC", "mc")
           \/ libera_mchelp_handler_specific
  BY <1>1, <1>3 DEF libera_interrupt, Leave, libera_mchelp_handler_specific, clocks
<1>4. CASE Ioctl /\ UNCHANGED world
  BY <1>1, <1>4, IoctlTypes
<1> QED
  BY <1>2, <1>3, <1>4, NextCases, TickClock, HandlerClock

(* The time made of a trigger's low bits is that of the trigger.             *)
THEOREM StampsAlwaysExact == Spec => []StampsExact
<1>1. Init => TypeInv /\ ClockInv
  BY InitTypes, InitClock
<1>2. TypeInv /\ ClockInv /\ [Next]_vars => (TypeInv /\ ClockInv)'
  BY NextTypes, NextClock
<1>3. ClockInv => StampsExact
  BY DEF ClockInv
<1> QED
  BY <1>1, <1>2, <1>3, PTL DEF Spec

-----------------------------------------------------------------------------
(* The handlers are in time *)

(* The middle of a period. *)
LEMMA MiddleFacts == Middle \in Nat \ {0} /\ P \in Nat \ {0} /\ P = Middle + Middle
<1>1. P \in Nat \ {0, 1} /\ P % 2 = 0
  BY TriggerAssumption
<1>2. P = 2 * (P \div 2) + (P % 2) /\ P \div 2 \in Int
  BY <1>1
<1> QED
  BY <1>1, <1>2 DEF Middle

(* Two middles of periods that are less than a period apart are the same. *)
LEMMA SameMiddle ==
    ASSUME NEW a \in Nat, NEW b \in Nat, a <= b, b - a < P,
           a % P = Middle, b % P >= Middle
    PROVE  High(a) = High(b) /\ a = High(b) + Middle
<1> DEFINE r == a % P
           s == b % P
<1>1. High(a) \in Nat /\ r \in 0 .. P - 1 /\ a = High(a) + r
  BY Whole
<1>2. High(b) \in Nat /\ s \in 0 .. P - 1 /\ b = High(b) + s
  BY Whole
<1>3. /\ High(a) <= High(b)
      /\ High(a) < High(b) => High(a) + P <= High(b)
  BY HighOrder
<1>4. r = Middle /\ s >= Middle
  OBVIOUS
<1> HIDE DEF r, s
<1> QED
  BY <1>1, <1>2, <1>3, <1>4, MiddleFacts

(* The FIFO of MC at a tick. *)
LEMMA TickMc ==
    ASSUME TypeInv, NEW kinds \in SUBSET Kinds, Tick(kinds)
    PROVE  /\ fifo["mc"] # << >> => /\ fifo'["mc"] # << >>
                                    /\ fifo'["mc"][1] = fifo["mc"][1]
                                    /\ now + 1 - fifo["mc"][1].at < Middle
           /\ fifo["mc"] = << >> /\ fifo'["mc"] # << >> => fifo'["mc"][1].at = now + 1
           /\ \A t : After(fifo["mc"], t) /\ t < now + 1 => After(fifo'["mc"], t)
<1> DEFINE q == fifo["mc"]
           r == fifo'["mc"]
           e == Ticked("mc", kinds)
<1>1. q \in Seq(Entry) /\ (r = q \/ r = Append(q, e)) /\ now \in Nat
  BY TickFifo
<1>2. e \in Entry /\ e.at = now + 1
  BY TickedTypes DEF Ticked
<1>3. q # << >> => now + 1 - q[1].at < Middle
  <2>1. q # << >> => 1 \in 1 .. Len(q)
    BY <1>1, TailOf
  <2>2. q # << >> => q[1].at \in Nat
    BY <1>1, <2>1, EntryTypes
  <2>3. q # << >> => ~(now + 1 - q[1].at >= Middle)
    BY DEF Tick, InTime, Middle
  <2> QED
    BY <1>1, <2>2, <2>3, MiddleFacts
<1>4. /\ Append(q, e) # << >> /\ Len(Append(q, e)) = Len(q) + 1 /\ Len(q) \in Nat
      /\ \A i \in 1 .. Len(q) : Append(q, e)[i] = q[i]
      /\ Append(q, e)[Len(q) + 1] = e
  BY <1>1, <1>2, AppendProperties, LenProperties
<1>5. q # << >> => 1 \in 1 .. Len(q)
  BY <1>1, TailOf
<1>6. q = << >> => Len(q) = 0
  BY EmptySeq
<1>7. ASSUME NEW t, After(q, t), t < now + 1 PROVE After(r, t)
  <2>1. CASE r = q
    BY <1>7, <2>1
  <2>2. CASE r = Append(q, e)
    <3>1. ASSUME NEW i \in 1 .. Len(r) PROVE t < r[i].at
      <4>1. i \in 1 .. Len(q) \/ i = Len(q) + 1
        BY <1>4, <2>2
      <4> QED
        BY <1>2, <1>4, <1>7, <2>2, <4>1 DEF After
    <3> QED
      BY <3>1 DEF After
  <2> QED
    BY <1>1, <2>1, <2>2
<1> HIDE DEF q, r, e
<1>8. q # << >> => r # << >> /\ r[1] = q[1]
  BY <1>1, <1>4, <1>5
<1>9. q = << >> /\ r # << >> => r[1].at = now + 1
  BY <1>1, <1>2, <1>4, <1>6
<1> QED
  BY <1>3, <1>7, <1>8, <1>9 DEF q, r

(* At the start nothing is late. *)
LEMMA InitLate == Init => LateInv
<1> SUFFICES ASSUME Init PROVE LateInv
  OBVIOUS
<1>1. fifo["mc"] = << >> /\ help = NULL /\ vec = NULL /\ now = 0
  BY DEF Init
<1>2. ~(0 % P >= Middle)
  BY MiddleFacts
<1> QED
  BY <1>1, <1>2 DEF LateInv

(* A tick comes only when no handler is late. *)
LEMMA TickLate ==
    ASSUME TypeInv, LateInv, NEW kinds \in SUBSET Kinds, Tick(kinds)
    PROVE  LateInv'
<1> DEFINE q == fifo["mc"]
           r == fifo'["mc"]
           low == (now + 1) % P
<1>1. now' = now + 1 /\ now \in Nat /\ now + 1 \in Nat
  BY TickFifo
<1>2. /\ q # << >> => r # << >> /\ r[1] = q[1] /\ now + 1 - q[1].at < Middle
      /\ q = << >> /\ r # << >> => r[1].at = now + 1
      /\ \A t : After(q, t) /\ t < now + 1 => After(r, t)
  BY TickMc
<1>3. /\ help # NULL => /\ help \in Nat /\ help % P = Middle
                        /\ help <= now /\ now + 1 - help < Middle
      /\ help' = IF low = Middle THEN now + 1 ELSE help
      /\ vec' = vec
  <2>1. /\ help # NULL => help \in Nat
        /\ NULL \notin Int
    BY TriggerAssumption DEF TypeInv
  <2>2. help # NULL => ~(now + 1 - help >= Middle)
    BY DEF Tick, InTime, Middle
  <2>3. help # NULL => now + 1 - help < Middle
    BY <1>1, <2>1, <2>2, MiddleFacts
  <2>4. help' = IF (now + 1) % P = Middle THEN now + 1 ELSE help
    BY <1>1 DEF Tick, Middle
  <2> QED
    BY <2>1, <2>3, <2>4 DEF LateInv, Tick
<1>4. r # << >> => now + 1 - r[1].at < Middle
  BY <1>1, <1>2, MiddleFacts
<1>5. help' # NULL => help' % P = Middle /\ help' <= now + 1 /\ now + 1 - help' < Middle
  <2>1. CASE low = Middle
    BY <1>1, <1>3, <2>1, MiddleFacts
  <2>2. CASE low # Middle
    BY <1>1, <1>3, <2>2
  <2> QED
    BY <2>1, <2>2
<1>6. low >= Middle /\ help' = NULL => After(r, High(now + 1) + Middle)
  <2> SUFFICES ASSUME low >= Middle, help' = NULL PROVE After(r, High(now + 1) + Middle)
    OBVIOUS
  <2>1. NULL \notin Int
    BY TriggerAssumption
  <2>2. low # Middle /\ help = NULL
    BY <1>1, <1>3, <2>1
  <2>3. High(now + 1) = High(now) /\ low = (now % P) + 1
    <3>1. low # 0
      BY MiddleFacts
    <3> QED
      BY <1>1, <3>1, HighTick
  <2>4. High(now) \in Nat /\ now % P \in Nat /\ now = High(now) + (now % P)
    BY <1>1, Whole, LowBits
  <2> DEFINE m == now % P
  <2>5. m \in Nat /\ low = m + 1 /\ low >= Middle /\ low # Middle /\ now = High(now) + m
    BY <2>2, <2>3, <2>4
  <2> HIDE DEF m, low
  <2>6. m >= Middle /\ High(now) + Middle < now + 1
    BY <2>4, <2>5, MiddleFacts
  <2>7. After(q, High(now) + Middle)
    BY <2>2, <2>6 DEF LateInv, m
  <2> QED
    BY <1>2, <2>3, <2>6, <2>7
<1>7. vec # NULL /\ "HELP" \in vec =>
         help' # NULL /\ ("MC" \notin vec => After(r, help'))
  <2> SUFFICES ASSUME vec # NULL, "HELP" \in vec
               PROVE  help' # NULL /\ ("MC" \notin vec => After(r, help'))
    OBVIOUS
  <2>1. help # NULL /\ ("MC" \notin vec => After(q, help))
    BY DEF LateInv
  <2>2. help \in Nat /\ help % P = Middle /\ help <= now /\ now + 1 - help < Middle
    BY <1>3, <2>1
  <2>3. low # Middle
    <3> SUFFICES ASSUME low = Middle PROVE FALSE
      OBVIOUS
    <3>1. help <= now + 1 /\ now + 1 - help < P
      BY <1>1, <2>2, MiddleFacts
    <3>2. low >= Middle
      BY MiddleFacts
    <3>3. help = High(now + 1) + Middle
      BY <1>1, <2>2, <3>1, <3>2, SameMiddle
    <3>4. High(now + 1) \in Nat /\ now + 1 = High(now + 1) + low
      BY <1>1, Whole
    <3> HIDE DEF low
    <3> QED
      BY <1>1, <2>2, <3>3, <3>4, MiddleFacts
  <2>4. help' = help /\ help < now + 1
    BY <1>1, <1>3, <2>2, <2>3
  <2> QED
    BY <1>2, <2>1, <2>4
<1>8. /\ r # << >> => now' - r[1].at < Middle
      /\ help' # NULL => help' % P = Middle /\ help' <= now' /\ now' - help' < Middle
  <2>1. now' = now + 1 /\ now \in Nat /\ now' \in Nat
    BY <1>1
  <2>2. r # << >> => r[1].at \in Nat
    <3>1. r \in Seq(Entry)
      BY TickFifo
    <3>2. r # << >> => 1 \in 1 .. Len(r)
      BY <3>1, TailOf
    <3> QED
      BY <3>1, <3>2, EntryTypes
  <2>3. help' # NULL => help' \in Nat
    BY <1>1, <1>3
  <2>4. r # << >> => now' - r[1].at < Middle
    BY <1>4, <2>1, <2>2
  <2>5. help' # NULL => help' % P = Middle /\ help' <= now' /\ now' - help' < Middle
    BY <1>5, <2>1, <2>3
  <2> QED
    BY <2>4, <2>5
<1>9. now' % P >= Middle /\ help' = NULL => After(r, High(now') + Middle)
  BY <1>1, <1>6
<1>10. vec' # NULL /\ "HELP" \in vec' =>
          help' # NULL /\ ("MC" \notin vec' => After(r, help'))
  BY <1>3, <1>7
<1>11. After(r, High(now') + Middle) = (After(fifo["mc"], High(now) + Middle))'
       /\ After(r, help') = (After(fifo["mc"], help))'
  BY DEF After, High
<1> QED
  BY <1>8, <1>9, <1>10, <1>11 DEF LateInv

(* The entry that the MC handler serves, and what stays. *)
LEMMA ServedMc ==
    ASSUME TypeInv, ClockInv, libera_mc_handler,
           NEW e, e = fifo["mc"][1],
           NEW h, h = mc_time + (IF e.SELF_INC THEN P ELSE 0)
    PROVE  /\ e.at \in Nat /\ e.low \in Nat /\ e.at <= now
           /\ h = High(e.at) /\ h + e.low = e.at
           /\ e.SELF_INC => h = e.at
           /\ mc_time < High(now) => e.at <= High(now)
           /\ fifo'["mc"] = Tail(fifo["mc"])
           /\ fifo'["mc"] # << >> => fifo'["mc"][1].at \in Nat /\ e.at < fifo'["mc"][1].at
           /\ \A t : After(fifo["mc"], t) => t < e.at /\ After(fifo'["mc"], t)
<1> DEFINE q == fifo["mc"]
           r == fifo'["mc"]
<1>1. q # << >> /\ q \in Seq(Entry) /\ r = Tail(q) /\ e \in Entry
  BY McStep
<1>2. /\ r \in Seq(Entry) /\ Len(q) \in Nat \ {0} /\ Len(r) = Len(q) - 1
      /\ \A i \in 1 .. Len(r) : r[i] = q[i + 1]
  BY <1>1, TailOf
<1>3. e.at \in Nat /\ e.low \in Nat /\ e.at + 0 = e.at
  BY <1>1 DEF Entry
<1>4. mc_time \in Nat /\ now \in Nat /\ now + 0 = now /\ 0 \in Nat
  BY DEF TypeInv
<1>5. Exact(q, 0, mc_time, now)
  BY DEF ClockInv
<1>6. h = High(e.at + 0) /\ h + e.low = e.at + 0 /\ (e.SELF_INC => h = e.at + 0)
  BY <1>1, <1>4, <1>5, ExactTail
<1>7. 1 \in 1 .. Len(q) /\ Before(q, 0, mc_time, 1) = mc_time
  BY <1>2 DEF Before
<1>8. e.at <= now /\ (mc_time < High(now) => e.at <= High(now))
  BY <1>3, <1>4, <1>5, <1>7 DEF Exact
<1>9. r # << >> => r[1].at \in Nat /\ e.at < r[1].at
  <2> SUFFICES ASSUME r # << >> PROVE r[1].at \in Nat /\ e.at < r[1].at
    OBVIOUS
  <2>1. 1 \in 1 .. Len(r)
    BY <1>2, TailOf
  <2>2. r[1] = q[2] /\ 2 \in 1 .. Len(q) /\ 1 < 2
    BY <1>2, <2>1
  <2>3. q[1].at < q[2].at
    BY <1>5, <1>7, <2>2 DEF Exact
  <2>4. r[1].at \in Nat
    BY <1>2, <2>1, EntryTypes
  <2> QED
    BY <2>2, <2>3, <2>4
<1>10. ASSUME NEW t, After(q, t) PROVE t < e.at /\ After(r, t)
  <2>1. t < e.at
    BY <1>7, <1>10 DEF After
  <2>2. ASSUME NEW i \in 1 .. Len(r) PROVE t < r[i].at
    <3>1. i + 1 \in 1 .. Len(q) /\ r[i] = q[i + 1]
      BY <1>2
    <3> QED
      BY <1>10, <3>1 DEF After
  <2> QED
    BY <2>1, <2>2 DEF After
<1> HIDE DEF r, q
<1> QED
  BY <1>1, <1>3, <1>4, <1>6, <1>8, <1>9, <1>10 DEF r, q

(* An entry that is served leaves later ones. *)
LEMMA McLate ==
    ASSUME TypeInv, ClockInv, LateInv, libera_mc_handler
    PROVE  LateInv'
<1> DEFINE e == fifo["mc"][1]
           h == mc_time + (IF e.SELF_INC THEN P ELSE 0)
           r == fifo'["mc"]
<1>1. /\ e.at \in Nat
      /\ r # << >> => r[1].at \in Nat /\ e.at < r[1].at
      /\ \A t : After(fifo["mc"], t) => After(r, t)
  BY ServedMc
<1>2. fifo["mc"] # << >> /\ "MC" \in vec
  BY McStep
<1>3. UNCHANGED << now, help, vec >> /\ now \in Nat
  BY DEF TypeInv, libera_mc_handler
<1>4. now - e.at < Middle
  BY <1>2 DEF LateInv
<1> HIDE DEF e, h, r
<1>5. r # << >> => now - r[1].at < Middle
  BY <1>1, <1>3, <1>4, MiddleFacts
<1>6. now % P >= Middle /\ help = NULL => After(r, High(now) + Middle)
  BY <1>1 DEF LateInv
<1> QED
  BY <1>2, <1>3, <1>5, <1>6 DEF LateInv, After, High, r

(* The rest of the interrupt. *)
LEMMA InterruptLate ==
    ASSUME TypeInv, LateInv,
           \/ libera_interrupt \/ Leave("SC", "sc") \/ Leave("MC", "mc") \/ libera_sc_handler
    PROVE  LateInv'
<1>1. Len(<< >>) = 0
  BY EmptySeq
<1>2. \A t : After(<< >>, t)
  BY <1>1 DEF After
<1>3. CASE libera_interrupt
  <2>1. UNCHANGED << now, fifo, help >> /\ (vec' = NULL \/ vec' = int_vec)
    BY <1>3 DEF libera_interrupt, clocks
  <2>2. /\ "HELP" \in int_vec => help # NULL
        /\ "MC" \notin int_vec => fifo["mc"] = << >>
    BY DEF int_vec
  <2> QED
    BY <1>2, <2>1, <2>2 DEF LateInv
<1>4. CASE Leave("SC", "sc")
  <2>1. UNCHANGED << now, fifo, help >> /\ vec # NULL /\ vec' = vec \ {"SC"}
    BY <1>4 DEF Leave, Serves, clocks
  <2> QED
    BY <2>1 DEF LateInv
<1>5. CASE Leave("MC", "mc")
  <2>1. UNCHANGED << now, fifo, help >> /\ vec # NULL /\ vec' = vec \ {"MC"} /\ fifo["mc"] = << >>
    BY <1>5 DEF Leave, Serves, clocks
  <2> QED
    BY <1>2, <2>1 DEF LateInv
<1>6. CASE libera_sc_handler
  <2>1. fifo'["mc"] = fifo["mc"]
    BY <1>6, ScStep
  <2>2. UNCHANGED << now, help, vec >>
    BY <1>6 DEF libera_sc_handler
  <2> QED
    BY <2>1, <2>2 DEF LateInv, After, High
<1> QED
  BY <1>3, <1>4, <1>5, <1>6

(* HELPMC is served before the next entry of MC.  Then no entry is left from *)
(* before the middle.                                                        *)
LEMMA HelpFacts ==
    ASSUME TypeInv, ClockInv, LateInv, libera_mchelp_handler_specific
    PROVE  /\ help \in Nat /\ help = High(help) + Middle /\ High(help) = High(now)
           /\ now >= help /\ now < help + Middle /\ now \in Nat
           /\ After(fifo["mc"], help) /\ mc_time = High(now)
<1>1. vec # NULL /\ vec = {"HELP"}
  BY DEF libera_mchelp_handler_specific, Serves
<1>2. help # NULL /\ After(fifo["mc"], help)
  BY <1>1 DEF LateInv
<1>3. help \in Nat /\ help % P = Middle /\ help <= now /\ now - help < Middle /\ now \in Nat
  BY <1>2 DEF LateInv, TypeInv
<1> DEFINE r == help % P
           s == now % P
<1>4. High(help) \in Nat /\ help = High(help) + r
  BY <1>3, Whole
<1>5. High(now) \in Nat /\ s \in 0 .. P - 1 /\ now = High(now) + s
  BY <1>3, Whole
<1>6. /\ High(help) <= High(now)
      /\ High(help) < High(now) => High(help) + P <= High(now)
  BY <1>3, HighOrder
<1>7. r = Middle
  BY <1>3
<1> HIDE DEF r, s
<1>8. High(help) = High(now)
  BY <1>3, <1>4, <1>5, <1>6, <1>7, MiddleFacts
<1>9. mc_time = High(now)
  <2> DEFINE q == fifo["mc"]
  <2>1. q \in Seq(Entry) /\ mc_time \in Nat /\ now + 0 = now
    BY <1>3 DEF TypeInv
  <2>2. /\ mc_time <= High(now) /\ High(now) = Before(q, 0, mc_time, Len(q) + 1)
        /\ \A i \in 1 .. Len(q) :
              Before(q, 0, mc_time, i) < High(now) => q[i].at + 0 <= High(now)
    BY <2>1 DEF ClockInv, Exact
  <2>3. CASE q = << >>
    <3>1. Len(q) + 1 = 1
      BY <2>3, EmptySeq
    <3> QED
      BY <2>2, <3>1 DEF Before
  <2>4. CASE q # << >>
    <3>1. 1 \in 1 .. Len(q) /\ q[1].at \in Nat
      BY <2>1, <2>4, TailOf, EntryTypes
    <3>2. help < q[1].at
      BY <1>2, <3>1 DEF After
    <3>3. mc_time < High(now) => q[1].at <= High(now)
      BY <2>2, <3>1 DEF Before
    <3>4. mc_time <= High(now) /\ mc_time \in Nat
      BY <2>1, <2>2
    <3>5. High(now) <= help
      BY <1>4, <1>7, <1>8, MiddleFacts
    <3> HIDE DEF q
    <3> QED
      BY <1>3, <1>5, <3>1, <3>2, <3>3, <3>4, <3>5
  <2> QED
    BY <2>3, <2>4
<1> QED
  BY <1>2, <1>3, <1>4, <1>7, <1>8, <1>9, MiddleFacts

(* Nothing that HELPMC leaves is late. *)
LEMMA HelpLate ==
    ASSUME TypeInv, ClockInv, LateInv, libera_mchelp_handler_specific
    PROVE  LateInv'
<1>1. /\ help = High(now) + Middle /\ After(fifo["mc"], help)
  BY HelpFacts
<1>2. UNCHANGED << now, fifo >> /\ help' = NULL /\ vec' = {}
  BY DEF libera_mchelp_handler_specific
<1>3. After(fifo["mc"], High(now) + Middle)
  BY <1>1
<1> QED
  BY <1>2, <1>3 DEF LateInv, After, High

(* Every step. *)
LEMMA NextLate == TypeInv /\ ClockInv /\ LateInv /\ [Next]_vars => LateInv'
<1> SUFFICES ASSUME TypeInv, ClockInv, LateInv, [Next]_vars PROVE LateInv'
  OBVIOUS
<1>1. ASSUME UNCHANGED << now, fifo, help, vec >> PROVE LateInv'
  BY <1>1 DEF LateInv, After, High
<1>2. CASE UNCHANGED vars
  BY <1>1, <1>2 DEF vars
<1>3. CASE Ioctl /\ UNCHANGED world
  BY <1>1, <1>3, IoctlTypes
<1> QED
  BY <1>2, <1>3, NextCases, TickLate, McLate, InterruptLate, HelpLate

-----------------------------------------------------------------------------
(* SA starts again *)

(* The times of a period have the same whole periods. *)
LEMMA SamePeriod ==
    ASSUME NEW a \in Nat, NEW c \in Nat, High(a) <= c, c < High(a) + P
    PROVE  High(c) = High(a) /\ c % P = c - High(a)
<1> DEFINE r == a % P
           s == c % P
<1>1. High(a) \in Nat /\ r \in 0 .. P - 1 /\ a = High(a) + r
  BY Whole
<1>2. High(c) \in Nat /\ s \in 0 .. P - 1 /\ c = High(c) + s
  BY Whole
<1>3. /\ High(a) < High(c) => High(a) + P <= High(c)
      /\ High(c) < High(a) => High(c) + P <= High(a)
  BY HighOrder
<1> HIDE DEF r, s
<1>4. High(c) = High(a) /\ s = c - High(a)
  BY <1>1, <1>2, <1>3, MiddleFacts
<1> QED
  BY <1>4 DEF s

(* The arming of the start, without the clocks. *)
Arm(n, mc, hp, ev, hd) ==
    /\ n < hd
    /\ hd % P >= Middle /\ mc >= High(hd) => ev = hd % P
    /\ hd % P < Middle /\ n + Middle >= High(hd) /\ hp = NULL => ev = hd % P

(* SA is to start two periods from the beginning. *)
LEMMA InitArm == Init => ArmInv
<1> SUFFICES ASSUME Init PROVE ArmInv
  OBVIOUS
<1>1. now = 0 /\ head = 2 * P
  BY DEF Init
<1>2. 0 + P = P /\ P \in Nat /\ P + P = 2 * P /\ 2 * P \in Nat
  BY MiddleFacts
<1>3. High(0) = 0
  <2>1. High(0) \in Nat /\ 0 % P \in 0 .. P - 1 /\ 0 = High(0) + (0 % P)
    BY Whole
  <2> QED
    BY <2>1, MiddleFacts
<1>4. High(P) = P /\ High(2 * P) = 2 * P
  <2>1. High(P) = P
    BY <1>2, <1>3, HighPlus
  <2> QED
    BY <1>2, <2>1, HighPlus
<1>5. (2 * P) % P = 0
  <2> DEFINE s == (2 * P) % P
  <2>1. High(2 * P) \in Nat /\ s \in 0 .. P - 1 /\ 2 * P = High(2 * P) + s
    BY <1>2, Whole
  <2> HIDE DEF s
  <2>2. s = 0
    BY <1>2, <1>4, <2>1
  <2> QED
    BY <2>2 DEF s
<1>6. 0 < 2 * P /\ ~(0 >= Middle) /\ ~(0 + Middle >= 2 * P)
  BY MiddleFacts
<1> QED
  BY <1>1, <1>4, <1>5, <1>6 DEF ArmInv

(* The clock does not reach the start before it is armed. *)
LEMMA TickArm ==
    ASSUME TypeInv, ClockInv, LateInv, ArmInv, NEW kinds \in SUBSET Kinds, Tick(kinds)
    PROVE  ArmInv'
<1> SUFFICES ASSUME ~sa' PROVE Arm(now', mc_time', help', evgen', head')
  BY DEF ArmInv, Arm, High
<1> DEFINE m == head % P
           H == High(head)
           low == (now + 1) % P
           q == fifo["mc"]
<1>1. now' = now + 1 /\ now \in Nat /\ now + 1 \in Nat /\ head \in Nat /\ NULL \notin Int
      /\ mc_time \in Nat
  BY TickFifo, TriggerAssumption DEF TypeInv
<1>2. /\ ~sa /\ evgen' = evgen /\ ~(evgen # NULL /\ low = evgen)
      /\ mc_time' = mc_time /\ head' = head
      /\ help' = IF low = Middle THEN now + 1 ELSE help
  BY <1>1 DEF Tick, Middle
<1>3. Arm(now, mc_time, help, evgen, head)
  BY <1>2 DEF ArmInv, Arm
<1>4. H \in Nat /\ m \in 0 .. P - 1 /\ head = H + m
  BY <1>1, Whole
<1>5. now < head /\ (m >= Middle /\ mc_time >= H => evgen = m)
      /\ (m < Middle /\ now + Middle >= H /\ help = NULL => evgen = m)
  BY <1>3 DEF Arm
<1>6. now + 1 # head
  <2> SUFFICES ASSUME now + 1 = head PROVE FALSE
    OBVIOUS
  <2>1. low = m /\ evgen # m
    <3>1. low = m /\ m # NULL
      BY <1>1, <1>4, MiddleFacts
    <3> QED
      BY <1>2, <3>1
  <2>2. CASE m >= Middle
    <3>1. mc_time < H
      BY <1>1, <1>4, <1>5, <2>1, <2>2
    <3>2. High(now) = H
      <4>1. low # 0
        BY <1>4, <2>1, <2>2, MiddleFacts
      <4> QED
        BY <1>1, <4>1, HighTick
    <3>3. q \in Seq(Entry) /\ now + 0 = now /\ Exact(q, 0, mc_time, now)
      BY <1>1 DEF ClockInv, TypeInv
    <3>4. q # << >>
      <4> SUFFICES ASSUME q = << >> PROVE FALSE
        OBVIOUS
      <4>1. Len(q) + 1 = 1
        BY EmptySeq
      <4>2. High(now) = mc_time
        BY <3>3, <4>1 DEF Exact, Before
      <4> QED
        BY <1>1, <1>4, <3>1, <3>2, <4>2
    <3>5. 1 \in 1 .. Len(q) /\ q[1].at \in Nat /\ q[1].at + 0 = q[1].at
      BY <3>3, <3>4, TailOf, EntryTypes
    <3>6. q[1].at <= H
      <4>1. Before(q, 0, mc_time, 1) = mc_time
        BY DEF Before
      <4> QED
        BY <3>1, <3>2, <3>3, <3>5, <4>1 DEF Exact
    <3>7. now + 1 - q[1].at < Middle
      BY <3>4, TickMc
    <3> HIDE DEF m, H, q
    <3> QED
      BY <1>1, <1>4, <2>2, <3>5, <3>6, <3>7, MiddleFacts
  <2>3. CASE m < Middle
    <3>1. now + Middle >= H
      BY <1>1, <1>4, MiddleFacts
    <3>2. help # NULL
      BY <1>5, <2>1, <2>3, <3>1
    <3>3. help \in Nat /\ help % P = Middle /\ help <= now
      BY <3>2 DEF LateInv, TypeInv
    <3>4. now + 1 - help < Middle
      <4>1. ~(now + 1 - help >= Middle)
        BY <3>2 DEF Tick, InTime, Middle
      <4> QED
        BY <1>1, <3>3, <4>1, MiddleFacts
    <3> DEFINE r == help % P
    <3>5. High(help) \in Nat /\ help = High(help) + r /\ r = Middle
      BY <3>3, Whole
    <3>6. High(help) < H => High(help) + P <= H
      BY <1>1, <3>3, HighOrder
    <3>7. High(help) <= H
      BY <1>1, <1>5, <3>3, HighOrder
    <3> HIDE DEF m, H, r
    <3> QED
      BY <1>1, <1>4, <2>3, <3>3, <3>4, <3>5, <3>6, <3>7, MiddleFacts
  <2> QED
    BY <1>4, <2>2, <2>3, MiddleFacts
<1>7. now + 1 < head
  BY <1>1, <1>5, <1>6
<1>8. m < Middle /\ now + 1 + Middle >= H /\ help' = NULL => evgen = m
  <2> SUFFICES ASSUME m < Middle, now + 1 + Middle >= H, help' = NULL PROVE evgen = m
    OBVIOUS
  <2>1. low # Middle /\ help = NULL
    BY <1>1, <1>2
  <2>2. High(now + 1) \in Nat /\ low \in 0 .. P - 1 /\ now + 1 = High(now + 1) + low
    BY <1>1, Whole
  <2>3. /\ High(now + 1) < H => High(now + 1) + P <= H
        /\ High(now + 1) + P < H => High(now + 1) + P + P <= H
    <3>1. now + 1 + P \in Nat /\ High(now + 1 + P) = High(now + 1) + P
      BY <1>1, MiddleFacts, HighPlus
    <3> QED
      BY <1>1, <3>1, HighOrder
  <2> HIDE DEF m, H, low
  <2>4. now + Middle >= H
    BY <1>1, <1>4, <2>1, <2>2, <2>3, MiddleFacts
  <2> QED
    BY <1>5, <2>1, <2>4
<1> HIDE DEF low, q
<1> QED
  BY <1>1, <1>2, <1>5, <1>7, <1>8 DEF Arm

(* The overflow arms the start that comes in the second half of its period,  *)
(* and a trigger that sets the machine time puts the start far enough.       *)
LEMMA McArm ==
    ASSUME TypeInv, ClockInv, LateInv, ArmInv, libera_mc_handler
    PROVE  ArmInv'
<1> SUFFICES ASSUME ~sa' PROVE Arm(now', mc_time', help', evgen', head')
  BY DEF ArmInv, Arm, High
<1> DEFINE e == fifo["mc"][1]
           h == mc_time + (IF e.SELF_INC THEN P ELSE 0)
           q == fifo["mc"]
<1>1. /\ e.at \in Nat /\ e.at <= now /\ h = High(e.at) /\ h + e.low = e.at
      /\ e.SELF_INC => h = e.at
      /\ \A t : After(q, t) => t < e.at
  BY ServedMc
<1>2. /\ q # << >> /\ mc_time' = h /\ h \in Nat
      /\ evgen' = IF e.SELF_INC THEN libera_mc_selfinc_specific(h) ELSE evgen
  BY McStep
<1>3. now' = now /\ help' = help /\ now \in Nat /\ head \in Nat /\ mc_time \in Nat
  BY DEF libera_mc_handler, TypeInv
<1>4. ~e.SELF_INC => h = mc_time
  BY <1>3
<1>5. \/ /\ MCSets(e) /\ "MT" \in settime.update
         /\ head' \in Nat /\ head' >= e.at + P
      \/ UNCHANGED << sa, head >>
  <2>1. CASE MCSets(e)
    <3> DEFINE trig == getFromCircBuf(paired'["TRIGGER"])
    <3>1. \/ "MT" \in settime.update /\ head' = SAStart(trig, settime, NewTimes(trig))
          \/ UNCHANGED << sa, head >>
      BY <2>1, McSetStep
    <3>2. /\ SAStart(trig, settime, NewTimes(trig)) \in Nat
          /\ SAStart(trig, settime, NewTimes(trig)) >= h + e.low + P
      BY <2>1, McSets
    <3> HIDE DEF trig, h, e
    <3> QED
      BY <1>1, <2>1, <3>1, <3>2
  <2>2. CASE ~MCSets(e)
    BY <2>2, McSetStep
  <2> QED
    BY <2>1, <2>2
<1>6. now - e.at < Middle
  BY <1>2 DEF LateInv
<1> HIDE DEF h, e
<1>7. CASE UNCHANGED << sa, head >>
  <2> DEFINE m == head % P
             H == High(head)
  <2>1. now < head /\ (m >= Middle /\ mc_time >= H => evgen = m)
        /\ (m < Middle /\ now + Middle >= H /\ help = NULL => evgen = m)
    BY <1>7 DEF ArmInv
  <2>2. H \in Nat /\ m \in 0 .. P - 1 /\ head = H + m
    BY <1>3, Whole
  <2>3. h <= H
    BY <1>1, <1>3, <2>1, HighOrder
  <2>4. h <= head /\ head < h + P => H = h
    BY <1>1, <1>3, SamePeriod
  <2> HIDE DEF m, H
  <2>5. evgen' = IF e.SELF_INC /\ h <= head /\ head < h + P /\ head - h >= Middle
                 THEN head - h ELSE evgen
    BY <1>2 DEF libera_mc_selfinc_specific, Middle
  <2>6. m >= Middle /\ h >= H => evgen' = m
    <3> SUFFICES ASSUME m >= Middle, h >= H PROVE evgen' = m
      OBVIOUS
    <3>1. h = H
      BY <1>2, <2>2, <2>3
    <3>2. CASE e.SELF_INC
      BY <2>2, <2>5, <3>1, <3>2, MiddleFacts
    <3>3. CASE ~e.SELF_INC
      BY <1>4, <2>1, <2>5, <3>1, <3>3
    <3> QED
      BY <3>2, <3>3
  <2>7. m < Middle => evgen' = evgen
    <3> SUFFICES ASSUME m < Middle, h <= head, head < h + P, head - h >= Middle PROVE FALSE
      BY <2>5
    <3> QED
      BY <1>2, <2>2, <2>4, MiddleFacts
  <2> QED
    BY <1>2, <1>3, <1>7, <2>1, <2>6, <2>7 DEF Arm, m, H
<1>8. CASE /\ MCSets(e) /\ "MT" \in settime.update
           /\ head' \in Nat /\ head' >= e.at + P
  <2> DEFINE m == head' % P
             H == High(head')
             r == e.at % P
             s == now % P
  <2>1. H \in Nat /\ m \in 0 .. P - 1 /\ head' = H + m
    BY <1>8, Whole
  <2>2. r \in 0 .. P - 1 /\ e.at = h + r
    BY <1>1, Whole
  <2>3. High(now) \in Nat /\ s \in 0 .. P - 1 /\ now = High(now) + s
    BY <1>3, Whole
  <2>4. h + P <= H /\ (h + P < H => h + P + P <= H)
    <3>1. e.at + P \in Nat /\ High(e.at + P) = h + P
      BY <1>1, MiddleFacts, HighPlus
    <3> QED
      BY <1>8, <3>1, HighOrder
  <2>5. h <= now /\ now < h + P => High(now) = h
    BY <1>1, <1>3, SamePeriod
  <2>6. s >= Middle /\ help = NULL => High(now) + Middle < e.at
    BY <1>1 DEF LateInv
  <2> HIDE DEF m, H, r, s
  <2>7. now < head'
    BY <1>1, <1>3, <1>6, <1>8, MiddleFacts
  <2>8. ~(h >= H)
    BY <1>2, <2>1, <2>4, MiddleFacts
  <2>9. ~(m < Middle /\ now + Middle >= H /\ help = NULL)
    <3> SUFFICES ASSUME m < Middle, now + Middle >= H, help = NULL PROVE FALSE
      OBVIOUS
    <3> DEFINE M == Middle
    <3>4. M \in Nat \ {0} /\ P = M + M /\ P \in Nat
      BY MiddleFacts
    <3> HIDE DEF M
    <3>5. r \in Nat /\ r < P /\ now < h + r + M /\ h + r <= now
      <4>1. now - e.at < M
        BY <1>6 DEF M
      <4> QED
        BY <1>1, <1>2, <1>3, <2>2, <3>4, <4>1
    <3>6. m < M /\ now + M >= H
      BY DEF M
    <3>7. ~(h + P < H)
      <4> SUFFICES ASSUME h + P < H PROVE FALSE
        OBVIOUS
      <4>1. h + P + P <= H /\ H <= now + M
        BY <2>4, <3>6
      <4>2. h \in Nat /\ H \in Nat /\ now \in Nat
        BY <1>2, <1>3, <2>1
      <4>3. now + M < h + P + P
        BY <3>4, <3>5, <4>2
      <4> QED
        BY <3>4, <4>1, <4>2, <4>3
    <3>1. H = h + P /\ r <= m
      BY <1>2, <1>8, <2>1, <2>2, <2>4, <3>4, <3>5, <3>7
    <3>2. h <= now /\ now < h + P
      BY <1>2, <1>3, <2>1, <3>1, <3>4, <3>5, <3>6
    <3>3. s >= Middle /\ High(now) = h
      BY <1>2, <1>3, <2>3, <2>5, <3>1, <3>2, MiddleFacts
    <3> QED
      BY <1>2, <2>1, <2>2, <2>6, <3>1, <3>3, MiddleFacts
  <2> QED
    BY <1>2, <1>3, <2>7, <2>8, <2>9 DEF Arm, m, H
<1> QED
  BY <1>5, <1>7, <1>8

(* HELPMC arms the one that comes in the first half of the next period.      *)
LEMMA HelpArm ==
    ASSUME TypeInv, ClockInv, LateInv, ArmInv, libera_mchelp_handler_specific
    PROVE  ArmInv'
<1> SUFFICES ASSUME ~sa' PROVE Arm(now', mc_time', help', evgen', head')
  BY DEF ArmInv, Arm, High
<1> DEFINE m == head % P
           H == High(head)
           n == High(now)
<1>1. UNCHANGED << now, sa, mc_time, head >>
  BY DEF libera_mchelp_handler_specific
<1>2. help = n + Middle /\ now >= help /\ now < help + Middle /\ now \in Nat /\ mc_time = n
  BY HelpFacts
<1>3. head \in Nat /\ n \in Nat
  BY <1>2, Whole DEF TypeInv
<1>4. H \in Nat /\ m \in 0 .. P - 1 /\ head = H + m
  BY <1>3, Whole
<1>5. now < head /\ (m >= Middle /\ mc_time >= H => evgen = m)
  BY <1>1 DEF ArmInv
<1>6. n <= H /\ (n < H => n + P <= H) /\ (n + P < H => n + P + P <= H)
  <2>1. now + P \in Nat /\ High(now + P) = n + P
    BY <1>2, MiddleFacts, HighPlus
  <2> QED
    BY <1>2, <1>3, <1>5, <2>1, HighOrder
<1>7. n + P <= head /\ head < n + P + P => H = n + P
  <2>1. now + P \in Nat /\ High(now + P) = n + P
    BY <1>2, MiddleFacts, HighPlus
  <2> QED
    BY <1>3, <2>1, SamePeriod
<1>8. evgen' = IF n + P <= head /\ head < n + P + P /\ head - (n + P) < Middle
               THEN head - (n + P) ELSE evgen
  BY <1>2 DEF libera_mchelp_handler_specific, Middle
<1> HIDE DEF m, H, n
<1>9. m >= Middle /\ mc_time >= H => evgen' = m
  <2>1. m >= Middle => evgen' = evgen
    BY <1>3, <1>4, <1>7, <1>8, MiddleFacts
  <2> QED
    BY <1>5, <2>1
<1>10. m < Middle /\ now + Middle >= H => evgen' = m
  <2> SUFFICES ASSUME m < Middle, now + Middle >= H PROVE evgen' = m
    OBVIOUS
  <2>1. H = n + P
    BY <1>2, <1>3, <1>4, <1>5, <1>6, MiddleFacts
  <2> QED
    BY <1>3, <1>4, <1>8, <2>1, MiddleFacts
<1> QED
  BY <1>1, <1>5, <1>9, <1>10 DEF Arm, m, H

(* Every step. *)
LEMMA NextArm == TypeInv /\ ClockInv /\ LateInv /\ ArmInv /\ [Next]_vars => ArmInv'
<1> SUFFICES ASSUME TypeInv, ClockInv, LateInv, ArmInv, [Next]_vars PROVE ArmInv'
  OBVIOUS
<1>1. ASSUME UNCHANGED << now, help, mc_time, evgen, sa, head >> PROVE ArmInv'
  BY <1>1 DEF ArmInv, High
<1>2. CASE UNCHANGED vars
  BY <1>1, <1>2 DEF vars
<1>3. CASE libera_interrupt \/ Leave("SC", "sc") \/ Leave("MC", "mc") \/ libera_sc_handler
  BY <1>1, <1>3 DEF libera_interrupt, Leave, libera_sc_handler, clocks
<1>4. CASE Ioctl /\ UNCHANGED world
  BY <1>1, <1>4, IoctlTypes
<1> QED
  BY <1>2, <1>3, <1>4, NextCases, TickArm, McArm, HelpArm

(* SA is started when its time comes, whichever half of a period it is in    *)
(* and however often the machine time is set.                                *)
THEOREM SAAlwaysStartsAgain == Spec => []SAStartsAgain
<1>1. Init => TypeInv /\ ClockInv /\ LateInv /\ ArmInv
  BY InitTypes, InitClock, InitLate, InitArm
<1>2. TypeInv /\ ClockInv /\ LateInv /\ ArmInv /\ [Next]_vars
         => (TypeInv /\ ClockInv /\ LateInv /\ ArmInv)'
  BY NextTypes, NextClock, NextLate, NextArm
<1>3. TypeInv /\ ArmInv => SAStartsAgain
  BY DEF ArmInv, SAStartsAgain, TypeInv
<1> QED
  BY <1>1, <1>2, <1>3, PTL DEF Spec

-----------------------------------------------------------------------------
(* Triggers that come one at a time *)

(* Before the first trigger. *)
LEMMA InitSpaced == Init => SpacedInv
<1> SUFFICES ASSUME Init PROVE PairsMatch /\ SetExact /\ Halves
  BY DEF SpacedInv
<1>1. fifo["sc"] = << >> /\ fifo["mc"] = << >> /\ set = NULL
  BY DEF Init
<1>2. Halves
  <2>1. 2 .. Len(<< >>) = {}
    BY EmptySeq
  <2> QED
    BY <1>1, <2>1 DEF Halves, RestEmpty, First
<1>3. PairsMatch
  <2> SUFFICES ASSUME NEW k \in Kinds
               PROVE  getFromCircBuf(paired[k]).at.lst = getFromCircBuf(paired[k]).at.lmt
    BY DEF PairsMatch
  <2>1. LOG - 1 \in 0 .. LOG - 1 /\ 0 + LOG - 1 = LOG - 1 /\ (LOG - 1) % LOG = LOG - 1
    BY TriggerAssumption
  <2>2. /\ paired[k].put = 0
        /\ paired[k].stamp = [i \in 0 .. LOG - 1 |->
              [lst |-> 0, lmt |-> 0, at |-> [lst |-> 0, lmt |-> 0]]]
    BY DEF Init
  <2> QED
    BY <2>1, <2>2 DEF getFromCircBuf
<1> QED
  BY <1>1, <1>2, <1>3 DEF SetExact

(* Only the first entry may be of a trigger: so it is with one of none more, *)
LEMMA RestAppend ==
    ASSUME NEW q \in Seq(Entry), NEW e \in Entry, RestEmpty(q),
           e.TRIG_VECTOR = {} \/ q = << >>
    PROVE  RestEmpty(Append(q, e))
<1>1. /\ Len(Append(q, e)) = Len(q) + 1 /\ Len(q) \in Nat
      /\ \A i \in 1 .. Len(q) : Append(q, e)[i] = q[i]
      /\ Append(q, e)[Len(q) + 1] = e
  BY AppendProperties, LenProperties
<1>2. q = << >> => Len(q) = 0
  BY EmptySeq
<1> SUFFICES ASSUME NEW i \in 2 .. Len(Append(q, e)) PROVE Append(q, e)[i].TRIG_VECTOR = {}
  BY DEF RestEmpty
<1>3. CASE i \in 2 .. Len(q)
  BY <1>1, <1>3 DEF RestEmpty
<1>4. CASE i = Len(q) + 1
  <2>1. q # << >>
    BY <1>2, <1>4
  <2> QED
    BY <1>1, <1>4, <2>1
<1> QED
  BY <1>1, <1>3, <1>4

(* ... and when it is served, none is left. *)
LEMMA RestTail ==
    ASSUME NEW q \in Seq(Entry), q # << >>, RestEmpty(q)
    PROVE  RestEmpty(Tail(q)) /\ (Tail(q) # << >> => Tail(q)[1].TRIG_VECTOR = {})
<1>1. /\ Tail(q) \in Seq(Entry) /\ Len(q) \in Nat \ {0} /\ Len(Tail(q)) = Len(q) - 1
      /\ \A i \in 1 .. Len(Tail(q)) : Tail(q)[i] = q[i + 1]
  BY TailOf
<1>2. ASSUME NEW i \in 1 .. Len(Tail(q)) PROVE Tail(q)[i].TRIG_VECTOR = {}
  <2>1. i + 1 \in 2 .. Len(q)
    BY <1>1
  <2> QED
    BY <1>1, <2>1 DEF RestEmpty
<1>3. Tail(q) # << >> => 1 \in 1 .. Len(Tail(q))
  BY <1>1, TailOf
<1>4. 2 .. Len(Tail(q)) \subseteq 1 .. Len(Tail(q))
  BY <1>1
<1> QED
  BY <1>2, <1>3, <1>4 DEF RestEmpty

(* A tick adds a trigger only to empty FIFOs. *)
LEMMA TickSpaced ==
    ASSUME TypeInv, SpacedInv, world.spaced, NEW kinds \in SUBSET Kinds, Tick(kinds)
    PROVE  PairsMatch' /\ SetExact' /\ Halves'
<1>1. PairsMatch /\ SetExact /\ Halves
  BY DEF SpacedInv
<1>2. UNCHANGED << vec, paired, pm_freezed, TRIGMODE, settime, set >>
  BY DEF Tick
<1>3. PairsMatch' /\ SetExact'
  BY <1>1, <1>2 DEF PairsMatch, SetExact
<1>4. \A side \in {"sc", "mc"} :
         /\ fifo[side] \in Seq(Entry) /\ Ticked(side, kinds) \in Entry
         /\ \/ fifo'[side] = fifo[side] /\ kinds = {}
            \/ fifo'[side] = Append(fifo[side], Ticked(side, kinds))
         /\ Ticked(side, kinds).TRIG_VECTOR = kinds /\ Ticked(side, kinds).at = now + 1
  BY TickFifo, TickedTypes DEF Ticked
<1>5. kinds # {} => vec = NULL /\ fifo["sc"] = << >> /\ fifo["mc"] = << >>
  BY DEF Tick, Quiet
<1>6. RestEmpty(fifo'["sc"]) /\ RestEmpty(fifo'["mc"])
  BY <1>1, <1>4, <1>5, RestAppend DEF Halves
<1>7. ASSUME NEW side \in {"sc", "mc"}
      PROVE  /\ fifo[side] # << >> => /\ fifo'[side] # << >> /\ fifo'[side][1] = fifo[side][1]
             /\ fifo[side] = << >> /\ fifo'[side] # << >> =>
                   fifo'[side][1] = Ticked(side, kinds)
             /\ fifo[side] = << >> /\ kinds # {} => fifo'[side] # << >>
  <2> DEFINE q == fifo[side]
             e == Ticked(side, kinds)
  <2>1. /\ q \in Seq(Entry) /\ e \in Entry
        /\ (fifo'[side] = q /\ kinds = {}) \/ fifo'[side] = Append(q, e)
    BY <1>4
  <2>2. /\ Append(q, e) # << >> /\ Len(q) \in Nat
        /\ \A i \in 1 .. Len(q) : Append(q, e)[i] = q[i]
        /\ Append(q, e)[Len(q) + 1] = e
    BY <2>1, AppendProperties, LenProperties
  <2>3. (q = << >> => Len(q) = 0) /\ (q # << >> => 1 \in 1 .. Len(q))
    BY <2>1, EmptySeq, TailOf
  <2> HIDE DEF q, e
  <2>4. /\ q # << >> => fifo'[side] # << >> /\ fifo'[side][1] = q[1]
        /\ q = << >> /\ fifo'[side] # << >> => fifo'[side][1] = e
        /\ q = << >> /\ kinds # {} => fifo'[side] # << >>
    BY <2>1, <2>2, <2>3
  <2> QED
    BY <2>4 DEF q, e
<1>8. CASE kinds = {}
  <2>1. \A side \in {"sc", "mc"} :
           /\ First(side)' <=> First(side)
           /\ First(side) => fifo'[side][1] = fifo[side][1]
    BY <1>4, <1>7, <1>8 DEF First
  <2>2. First("sc")' => Waits'
    BY <1>1, <1>2, <2>1 DEF Halves, Waits
  <2>3. First("mc")' /\ ~First("sc")' => HalfDone(fifo["mc"][1])'
    BY <1>1, <1>2, <2>1 DEF Halves, HalfDone, Stored, Clock
  <2> QED
    BY <1>3, <1>6, <2>2, <2>3 DEF Halves, RestEmpty
<1>9. CASE kinds # {}
  <2>1. /\ fifo'["sc"] # << >> /\ fifo'["mc"] # << >>
        /\ fifo'["sc"][1] = Ticked("sc", kinds) /\ fifo'["mc"][1] = Ticked("mc", kinds)
    BY <1>5, <1>7, <1>9
  <2>2. /\ fifo'["mc"][1].at = fifo'["sc"][1].at
        /\ fifo'["mc"][1].TRIG_VECTOR = kinds /\ fifo'["sc"][1].TRIG_VECTOR = kinds
    BY <1>4, <2>1
  <2>3. Waits' /\ First("sc")'
    BY <1>2, <1>5, <1>9, <2>1, <2>2 DEF Waits, First
  <2> QED
    BY <1>3, <1>6, <2>3 DEF Halves, RestEmpty
<1> QED
  BY <1>8, <1>9

(* The vector of the interrupt: it is read with the FIFOs that a trigger is in, *)
(* and a handler leaves an empty one.                                           *)
LEMMA InterruptSpaced ==
    ASSUME TypeInv, SpacedInv, world.spaced,
           libera_interrupt \/ Leave("SC", "sc") \/ Leave("MC", "mc")
    PROVE  PairsMatch' /\ SetExact' /\ Halves'
<1>1. PairsMatch /\ SetExact /\ Halves
  BY DEF SpacedInv
<1>2. UNCHANGED << fifo, paired, pm_freezed, TRIGMODE, settime, set >>
  BY DEF libera_interrupt, Leave, clocks
<1>3. PairsMatch' /\ SetExact' /\ RestEmpty(fifo["sc"])' /\ RestEmpty(fifo["mc"])'
  BY <1>1, <1>2 DEF PairsMatch, SetExact, Halves, RestEmpty
<1>4. \A side \in {"sc", "mc"} : First(side)' <=> First(side)
  BY <1>2 DEF First
<1>5. First("sc") => Waits'
  <2> SUFFICES ASSUME First("sc") PROVE vec' # NULL => "SC" \in vec' /\ "MC" \in vec'
    BY <1>1, <1>2, <1>4 DEF Halves, Waits
  <2>1. fifo.sc # << >> /\ fifo.mc # << >> /\ (vec # NULL => "SC" \in vec /\ "MC" \in vec)
    BY <1>1 DEF Halves, Waits, First
  <2>2. CASE libera_interrupt
    BY <2>1, <2>2 DEF libera_interrupt, int_vec
  <2>3. CASE Leave("SC", "sc") \/ Leave("MC", "mc")
    BY <2>1, <2>3 DEF Leave
  <2> QED
    BY <2>2, <2>3
<1>6. First("mc") /\ ~First("sc") => HalfDone(fifo["mc"][1])'
  <2> SUFFICES ASSUME First("mc"), ~First("sc") PROVE HalfDone(fifo["mc"][1])'
    OBVIOUS
  <2>1. HalfDone(fifo["mc"][1]) /\ fifo.mc # << >>
    BY <1>1 DEF Halves, First
  <2>2. vec # NULL /\ "MC" \in vec
    BY <2>1 DEF HalfDone
  <2>3. CASE libera_interrupt
    BY <2>2, <2>3 DEF libera_interrupt
  <2>4. CASE Leave("MC", "mc")
    BY <2>1, <2>4 DEF Leave
  <2>5. CASE Leave("SC", "sc")
    <3>1. vec' = vec \ {"SC"} /\ vec \in SUBSET {"SC", "MC", "HELP"}
      BY <2>2, <2>5 DEF Leave, TypeInv
    <3>2. vec' # NULL /\ "MC" \in vec'
      BY <2>2, <3>1, TriggerAssumption
    <3> QED
      BY <1>2, <2>1, <3>2 DEF HalfDone, Stored, Clock
  <2> QED
    BY <2>3, <2>4, <2>5
<1> QED
  BY <1>3, <1>4, <1>5, <1>6 DEF Halves

(* The SC handler does the first halves of the trigger that waits. *)
LEMMA ScSpaced ==
    ASSUME TypeInv, ClockInv, SpacedInv, world.spaced, libera_sc_handler
    PROVE  PairsMatch' /\ SetExact' /\ Halves'
<1> DEFINE e == fifo["sc"][1]
           h == sc_time + (IF e.SELF_INC THEN P ELSE 0)
<1>1. PairsMatch /\ SetExact /\ Halves
  BY DEF SpacedInv
<1>2. /\ e \in Entry /\ fifo["sc"] # << >> /\ fifo["sc"] \in Seq(Entry)
      /\ fifo'["sc"] = Tail(fifo["sc"]) /\ fifo'["mc"] = fifo["mc"]
      /\ vec # NULL /\ "SC" \in vec
      /\ paired' = [k \in Kinds |->
            IF Stored(k, e)
            THEN putLSTtoCircBuf(paired[k], SCLst(k, e, h + e.low), e) ELSE paired[k]]
      /\ \A k \in Kinds : SCLst(k, e, h + e.low) \in Int
  BY ScStep
<1>3. UNCHANGED << vec, pm_freezed, TRIGMODE, settime, set >>
  BY DEF libera_sc_handler
<1>4. h + e.low = e.at + Phase
  <2>1. Exact(fifo["sc"], Phase, sc_time, now) /\ Phase \in Nat /\ sc_time \in Nat /\ now \in Nat
    BY TriggerAssumption DEF ClockInv, TypeInv
  <2> QED
    BY <1>2, <2>1, ExactTail
<1>5. \A k \in Kinds : paired[k] \in Pairs
  BY DEF TypeInv
<1>6. RestEmpty(fifo'["sc"]) /\ ~First("sc")' /\ RestEmpty(fifo'["mc"])
  <2>1. RestEmpty(fifo["sc"]) /\ RestEmpty(fifo["mc"])
    BY <1>1 DEF Halves
  <2> QED
    BY <1>2, <2>1, RestTail DEF First
<1> HIDE DEF h
<1>7. PairsMatch'
  <2> SUFFICES ASSUME NEW k \in Kinds
               PROVE  getFromCircBuf(paired'[k]).at.lst = getFromCircBuf(paired'[k]).at.lmt
    BY DEF PairsMatch
  <2>1. getFromCircBuf(paired'[k]) = getFromCircBuf(paired[k])
    BY <1>2, <1>5, PutLSTPair
  <2> QED
    BY <1>1, <2>1 DEF PairsMatch
<1>8. SetExact'
  BY <1>1, <1>3 DEF SetExact
<1>9. ASSUME First("mc")' PROVE HalfDone(fifo["mc"][1])'
  <2> DEFINE d == fifo["mc"][1]
  <2>1. fifo'["mc"][1] = d /\ First("mc")
    BY <1>2, <1>9 DEF First
  <2>2. CASE First("sc")
    <3>1. /\ d.at = e.at /\ d.TRIG_VECTOR = e.TRIG_VECTOR
          /\ vec # NULL /\ "MC" \in vec
      BY <1>1, <1>2, <2>2 DEF Halves, Waits
    <3>2. ASSUME NEW k \in Kinds, Stored(k, e)
          PROVE  /\ paired'[k].stamp[paired'[k].put].at.lst = e.at
                 /\ paired'[k].stamp[paired'[k].put].lst = SCLst(k, e, h + e.low)
      <4> DEFINE r == putLSTtoCircBuf(paired[k], SCLst(k, e, h + e.low), e)
      <4>1. paired'[k] = r /\ SCLst(k, e, h + e.low) \in Int /\ paired[k] \in Pairs
        BY <1>2, <1>5, <3>2
      <4>2. /\ r.put = paired[k].put /\ r.stamp[paired[k].put].at.lst = e.at
            /\ r.stamp[paired[k].put].lst = SCLst(k, e, h + e.low)
        BY <1>2, <4>1, PutLST
      <4> QED
        BY <4>1, <4>2
    <3>3. \A k \in Kinds : Stored(k, d)' <=> Stored(k, e)
      BY <1>3, <2>1, <3>1 DEF Stored
    <3>4. TRIGMODE' = "SET" /\ "TRIGGER" \in d.TRIG_VECTOR =>
             paired'["TRIGGER"].stamp[paired'["TRIGGER"].put].lst = e.at + Phase
      <4> SUFFICES ASSUME TRIGMODE' = "SET", "TRIGGER" \in d.TRIG_VECTOR
                   PROVE  paired'["TRIGGER"].stamp[paired'["TRIGGER"].put].lst = e.at + Phase
        OBVIOUS
      <4>1. "TRIGGER" \in Kinds /\ Stored("TRIGGER", e)
        BY <3>1 DEF Stored, Kinds
      <4>2. SCLst("TRIGGER", e, h + e.low) = e.at + Phase
        BY <1>3, <1>4 DEF SCLst
      <4> QED
        BY <3>2, <4>1, <4>2
    <3> HIDE DEF d, e
    <3>5. /\ vec' # NULL /\ "MC" \in vec'
          /\ \A k \in Kinds : Stored(k, d)' =>
                paired'[k].stamp[paired'[k].put].at.lst = d.at
          /\ TRIGMODE' = "SET" /\ "TRIGGER" \in d.TRIG_VECTOR =>
                paired'["TRIGGER"].stamp[paired'["TRIGGER"].put].lst = d.at + Phase
      BY <1>3, <3>1, <3>2, <3>3, <3>4
    <3> QED
      BY <2>1, <3>5 DEF HalfDone, Stored, Clock, d
  <2>3. CASE ~First("sc")
    <3>1. HalfDone(d)
      BY <1>1, <2>1, <2>3 DEF Halves
    <3>2. \A k \in Kinds : ~Stored(k, e)
      BY <1>2, <2>3 DEF First, Stored
    <3>3. \A k \in Kinds : paired'[k] = paired[k]
      BY <1>2, <3>2
    <3>4. "TRIGGER" \in Kinds
      BY DEF Kinds
    <3> QED
      BY <1>3, <2>1, <3>1, <3>3, <3>4 DEF HalfDone, Stored, Clock
  <2> QED
    BY <2>2, <2>3
<1> QED
  BY <1>6, <1>7, <1>8, <1>9 DEF Halves, RestEmpty

(* The MC handler completes the pairs of a trigger whose halves are done, and *)
(* sets the time from them.                                                   *)
LEMMA McSpaced ==
    ASSUME TypeInv, ClockInv, SpacedInv, world.spaced, libera_mc_handler
    PROVE  PairsMatch' /\ SetExact' /\ Halves'
<1> DEFINE e == fifo["mc"][1]
           h == mc_time + (IF e.SELF_INC THEN P ELSE 0)
<1>1. PairsMatch /\ SetExact /\ Halves
  BY DEF SpacedInv
<1>2. /\ e \in Entry /\ fifo["mc"] # << >> /\ fifo["mc"] \in Seq(Entry)
      /\ fifo'["mc"] = Tail(fifo["mc"]) /\ fifo'["sc"] = fifo["sc"]
      /\ vec # NULL /\ "MC" \in vec /\ "SC" \notin vec
      /\ paired' = [k \in Kinds |->
            IF Stored(k, e)
            THEN putLMTtoCircBuf(paired[k], MCLmt(k, e, h + e.low), e) ELSE paired[k]]
      /\ \A k \in Kinds : MCLmt(k, e, h + e.low) \in Int
  BY McStep
<1>3. ~First("sc") /\ ~First("sc")'
  BY <1>1, <1>2 DEF Halves, Waits, First
<1>4. First("mc") => HalfDone(e)
  BY <1>1, <1>3 DEF Halves
<1>5. RestEmpty(fifo'["mc"]) /\ ~First("mc")' /\ RestEmpty(fifo'["sc"])
  <2>1. RestEmpty(fifo["sc"]) /\ RestEmpty(fifo["mc"])
    BY <1>1 DEF Halves
  <2> QED
    BY <1>2, <2>1, RestTail DEF First
<1>6. Halves'
  BY <1>3, <1>5 DEF Halves, RestEmpty
<1>7. \A k \in Kinds : paired[k] \in Pairs
  BY DEF TypeInv
<1>8. PairsMatch'
  <2> SUFFICES ASSUME NEW k \in Kinds
               PROVE  getFromCircBuf(paired'[k]).at.lst = getFromCircBuf(paired'[k]).at.lmt
    BY DEF PairsMatch
  <2>1. CASE Stored(k, e)
    <3> DEFINE r == putLMTtoCircBuf(paired[k], MCLmt(k, e, h + e.low), e)
               q == paired[k]
    <3>1. First("mc")
      BY <1>2, <2>1 DEF First, Stored
    <3>2. q.stamp[q.put].at.lst = e.at
      BY <1>4, <2>1, <3>1 DEF HalfDone
    <3>3. paired'[k] = r /\ MCLmt(k, e, h + e.low) \in Int /\ q \in Pairs
      BY <1>2, <1>7, <2>1
    <3>4. /\ getFromCircBuf(r).at.lmt = e.at
          /\ getFromCircBuf(r).at.lst = q.stamp[q.put].at.lst
      BY <1>2, <3>3, PutLMT
    <3> QED
      BY <3>2, <3>3, <3>4
  <2>2. CASE ~Stored(k, e)
    <3>1. paired'[k] = paired[k]
      BY <1>2, <2>2
    <3> QED
      BY <1>1, <3>1 DEF PairsMatch
  <2> QED
    BY <2>1, <2>2
<1>9. SetExact'
  <2>1. CASE ~MCSets(e)
    <3>1. UNCHANGED << settime, set >>
      BY <2>1, McSetStep
    <3> QED
      BY <1>1, <3>1 DEF SetExact
  <2>2. CASE MCSets(e)
    <3> DEFINE trig == getFromCircBuf(paired'["TRIGGER"])
               q == paired["TRIGGER"]
    <3>1. /\ settime' = NewTimes(trig)
          /\ set' = IF "ST" \in settime.update
                    THEN [at |-> e.at + Phase, ref |-> settime.lst.ref - settime.lst.scphi]
                    ELSE set
      BY <2>2, McSetStep
    <3>2. trig \in Slot /\ trig.lst = q.stamp[q.put].lst
      BY <2>2, McSets
    <3>3. First("mc")
      BY <1>2, <2>2 DEF First, MCSets
    <3>4. trig.lst = e.at + Phase
      BY <1>4, <2>2, <3>2, <3>3 DEF HalfDone, MCSets, Clock
    <3>5. settime \in SetTimes /\ settime.lst.ref \in Int /\ settime.lst.scphi \in Int
      BY DEF TypeInv, SetTimes
    <3>6. settime'.lst.off = IF "ST" \in settime.update
                             THEN settime.lst.ref - settime.lst.scphi - trig.lst
                             ELSE settime.lst.off
      BY <3>1, <3>2, <3>5, NewTimesTypes
    <3>7. e.at \in Nat /\ Phase \in Nat
      BY <1>2, TriggerAssumption DEF Entry
    <3> HIDE DEF trig, e
    <3>8. CASE "ST" \in settime.update
      <4>1. /\ set'.at = e.at + Phase
            /\ set'.ref = settime.lst.ref - settime.lst.scphi
            /\ settime'.lst.off = settime.lst.ref - settime.lst.scphi - (e.at + Phase)
        BY <3>1, <3>4, <3>6, <3>8
      <4>2. set'.at + settime'.lst.off = set'.ref
        BY <3>5, <3>7, <4>1
      <4> QED
        BY <4>2 DEF SetExact
    <3>9. CASE "ST" \notin settime.update
      <4>1. set' = set /\ settime'.lst.off = settime.lst.off
        BY <3>1, <3>6, <3>9
      <4> QED
        BY <1>1, <4>1 DEF SetExact
    <3> QED
      BY <3>8, <3>9
  <2> QED
    BY <2>1, <2>2
<1> QED
  BY <1>6, <1>8, <1>9

(* The handler of HELPMC runs alone, and the ioctls out of the interrupt. *)
LEMMA RestSpaced ==
    ASSUME TypeInv, SpacedInv, world.spaced, UNCHANGED world,
           libera_mchelp_handler_specific \/ Ioctl
    PROVE  PairsMatch' /\ SetExact' /\ Halves'
<1>1. PairsMatch /\ SetExact /\ Halves
  BY DEF SpacedInv
<1>2. CASE libera_mchelp_handler_specific
  <2>1. vec = {"HELP"} /\ UNCHANGED << fifo, paired, settime, set >> /\ vec # NULL
    BY <1>2 DEF libera_mchelp_handler_specific, Serves
  <2>2. ~First("sc") /\ ~First("mc")
    BY <1>1, <2>1 DEF Halves, Waits, HalfDone
  <2> QED
    BY <1>1, <2>1, <2>2 DEF PairsMatch, SetExact, Halves, First, RestEmpty
<1>3. CASE Ioctl
  <2>1. vec = NULL /\ settime'.lst.off = settime.lst.off /\ UNCHANGED << fifo, vec, paired, set >>
    BY <1>3, IoctlTypes
  <2>2. First("sc") \/ ~First("mc")
    BY <1>1, <2>1 DEF Halves, HalfDone
  <2> QED
    BY <1>1, <2>1, <2>2 DEF PairsMatch, SetExact, Halves, First, Waits, RestEmpty
<1> QED
  BY <1>2, <1>3

(* Every step. *)
LEMMA NextSpaced == TypeInv /\ ClockInv /\ SpacedInv /\ [Next]_vars => SpacedInv'
<1> SUFFICES ASSUME TypeInv, ClockInv, SpacedInv, [Next]_vars, world'.spaced
             PROVE  PairsMatch' /\ SetExact' /\ Halves'
  BY DEF SpacedInv
<1>1. UNCHANGED world /\ world.spaced
  BY NextCases DEF vars
<1>2. CASE UNCHANGED vars
  BY <1>1, <1>2 DEF vars, SpacedInv, PairsMatch, SetExact, Halves, First, Waits, HalfDone,
                    Stored, Clock, RestEmpty
<1> QED
  BY <1>1, <1>2, NextCases, TickSpaced, InterruptSpaced, ScSpaced, McSpaced, RestSpaced

(* Of triggers that come one at a time, the two halves of a pair are of one  *)
(* and the same, and the system time that is set from it is exact, whichever *)
(* ioctl an interrupt cuts (libera_sc_handler, libera_mc_handler,            *)
(* libera_set_LST).                                                          *)
THEOREM SpacedAlwaysExact == Spec => []SpacedTriggersExact
<1>1. Init => TypeInv /\ ClockInv /\ SpacedInv
  BY InitTypes, InitClock, InitSpaced
<1>2. TypeInv /\ ClockInv /\ SpacedInv /\ [Next]_vars => (TypeInv /\ ClockInv /\ SpacedInv)'
  BY NextTypes, NextClock, NextSpaced
<1>3. SpacedInv => SpacedTriggersExact
  BY DEF SpacedInv, SpacedTriggersExact, SetExact
<1> QED
  BY <1>1, <1>2, <1>3, PTL DEF Spec

=============================================================================
