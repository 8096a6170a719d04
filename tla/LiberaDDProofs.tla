----------------------------- MODULE LiberaDDProofs -----------------------------
(***************************************************************************)
(* That a process gets the atoms it asked for, and that the DD interrupt   *)
(* comes to whoever waits for it.                                          *)
(*                                                                         *)
(* The invariant says where the atoms of a request are while they move:    *)
(* the ones copied, the ones in the DMA fifo from its read position on,    *)
(* the ones in the OB-fifo, and the next one the FPGA fetches, follow each *)
(* other (StreamInv); a block that is being moved goes to slots that are   *)
(* free (DmacInv); and the FPGA was given its command in time, that is,    *)
(* neither before the atom was written nor after it was overwritten        *)
(* (WaitInv).  An overrun breaks the first chain from the OB-fifo on, and  *)
(* the code's own flag tells, which is why the copies stop.                *)
(***************************************************************************)
EXTENDS LiberaDD, SequenceTheorems, TLAPS

(* Where a process holds the lock, and where it has taken the entry of the   *)
(* interrupt and is on its way to enable it.                                 *)
Held == {"request", "early", "command", "irq", "init", "sync", "wait", "copy", "end", "fail", "ok"}
Transferring == {"init", "sync", "wait", "copy", "end", "fail", "ok"}
Places == {"closed", "user", "lock", "trylock"} \cup Held

(* The types: the position of a file, a request, the state of a transfer.    *)
Positions ==
    [request : {"ST", "MT", "IMPLICIT"}, mt : Nat, lmt : Nat, lst : Nat, trigoffset : Nat]
Requests == [lmt : Nat, n : Nat, dec : Nat \ {0}]
DMAs ==
    [put : 0 .. FIFO - 1, get : 0 .. FIFO - 1, remaining : Int, csize : Int, size : Nat,
     Overrun : BOOLEAN, transfer : BOOLEAN, buf : [0 .. FIFO - 1 -> Int]]

(* The types of the variables, in the groups the actions change.             *)
FpgaTypes ==
    /\ now \in Nat /\ trigger \in Nat /\ over \in BOOLEAN
    /\ cb \in [next : Int, left : Nat, step : Nat \ {0}] /\ ob \in Seq(Int)
DmaTypes ==
    /\ dmac \in [slot : Int, n : Int] \cup {NULL}
    /\ dma \in DMAs
DeviceTypes ==
    /\ sem \in Processes \cup {NULL} /\ enabled \in BOOLEAN /\ irqs \in Nat
    /\ copy \in [fifo_atoms : Nat, OBAtoms : Nat] /\ got \in Seq(Int)
ProcessTypes ==
    /\ world \in Worlds /\ world.first <= now
    /\ Qts \in [Readers -> Positions] /\ dec \in [Readers -> Nat \ {0}]
    /\ pc \in [Processes -> Places] /\ req \in [Processes -> Requests]
DDTypes == FpgaTypes /\ DmaTypes /\ DeviceTypes /\ ProcessTypes

-----------------------------------------------------------------------------
(* The constants *)

(* What the assumption says of the constants, in the form the proofs use.    *)
LEMMA Constants ==
    /\ Acquirer \notin Readers /\ NULL \notin Processes
    /\ d \in Nat /\ d > 0 /\ LSC \in Nat /\ LSC > 0 /\ FLMC \in Nat /\ FLMC > 0 /\ FLMC <= LSC
    /\ CIRCBUF \in Nat /\ CIRCBUF > 0 /\ SAFE \in Nat /\ d <= SAFE
    /\ MARGIN \in Nat /\ MARGIN > 0 /\ BLOCK \in Nat /\ BLOCK > 0
    /\ FIFO \in Nat /\ FIFO > 1 /\ DEC \in Nat \ {0} /\ PMDEC \in Nat \ {0}
    /\ TRIG_LOG \in Nat /\ TRIG_LOG > 1 /\ pmsize \in Nat /\ PMOFFSET \in Int
<1>1. d \in Nat /\ CIRCBUF \in Nat
  BY DDAssumption
<1>2. CIRCBUF * d \in Nat
  BY <1>1
<1> QED
  BY DDAssumption, <1>1, <1>2 DEF Processes

(* The processes of a world are processes, and its inputs have their types.  *)
LEMMA WorldFacts ==
    ASSUME world \in Worlds
    PROVE  /\ world.processes \subseteq Processes /\ world.counts \subseteq Nat
           /\ world.times \subseteq Nat /\ world.requests \subseteq {"ST", "MT", "IMPLICIT"}
           /\ world.decs \subseteq Nat \ {0} /\ world.first \in Nat
<1>1. world \in [processes : SUBSET (Readers \cup {Acquirer}), first : Nat, ticks : Nat,
                 calls : Nat, counts : SUBSET Nat, times : SUBSET Nat,
                 requests : SUBSET {"ST", "MT", "IMPLICIT"}, decs : SUBSET {1, DEC}]
  BY DDAssumption
<1> QED
  BY <1>1, Constants DEF Processes

(* A time, and what a conversion makes of it. *)
LEMMA Times ==
    ASSUME NEW n \in Nat
    PROVE  /\ Time(n) = [lmt |-> Time(n).lmt, lst |-> Time(n).lst]
           /\ Time(n).lmt = n * d /\ Time(n).lmt \in Nat
           /\ Time(n).lst = (n * d * LSC) \div FLMC /\ Time(n).lst \in Nat
<1>1. n * d \in Nat /\ n * d * LSC \in Nat
  BY Constants
<1>2. (n * d * LSC) \div FLMC \in Nat
  BY <1>1, Constants
<1> QED
  BY <1>1, <1>2 DEF Time

(* A time read is the time of an atom, the one to come or the one before.    *)
LEMMA CTimesAre ==
    ASSUME now \in Nat, NEW c \in CTimes
    PROVE  \E n \in Nat : c = Time(n) /\ n \in {now, Before(now)} /\ c.lmt \in Nat /\ c.lst \in Nat
<1>1. Before(now) \in Nat
  BY DEF Before
<1> QED
  BY <1>1, Times DEF CTimes

(* The atom nearest to a time is one.                                        *)
LEMMA AtomType ==
    ASSUME NEW lmt \in Nat
    PROVE  Atom(lmt) \in Nat
<1>1. d \div 2 \in Nat
  BY Constants
<1> QED
  BY <1>1, Constants DEF Atom

(* The start of a request is a time in LMT, though it may be before 0.       *)
LEMMA StartType ==
    ASSUME ProcessTypes, FpgaTypes, NEW p \in Processes, NEW c, c.lmt \in Nat, c.lst \in Nat
    PROVE  Start(p, c) \in Int
<1>1. \A x, y \in Nat : ((x - y) * FLMC) \div LSC \in Int
  BY Constants
<1>2. CASE p = Acquirer
  <2>1. (PMOFFSET - pmsize) * d \in Int
    BY Constants
  <2> QED
    BY <1>2, <2>1 DEF Start, FpgaTypes
<1>3. CASE p # Acquirer
  <2>1. p \in Readers /\ Qts[p] \in Positions
    BY <1>3 DEF Processes, ProcessTypes
  <2>2. Qts[p].lst \in Nat /\ Qts[p].lmt \in Nat /\ Qts[p].trigoffset * d \in Int
    BY <2>1, Constants DEF Positions
  <2>3. lst2lmt(Qts[p].lst, c) \in Int
    <3>1. ((Qts[p].lst - c.lst) * FLMC) \div LSC \in Int
      BY <2>2, <1>1
    <3>2. ((c.lst - Qts[p].lst) * FLMC) \div LSC \in Int
      BY <2>2, <1>1
    <3> QED
      BY <3>1, <3>2 DEF lst2lmt
  <2> QED
    BY <1>3, <2>2, <2>3 DEF Start, FpgaTypes
<1> QED
  BY <1>2, <1>3

(* Multiplication keeps the order.                                           *)
LEMMA Multiples ==
    ASSUME NEW a \in Nat, NEW b \in Nat, NEW k \in Nat, a <= b
    PROVE  a * k \in Nat /\ b * k \in Nat /\ a * k <= b * k
<1>1. PICK x \in Nat : b = a + x
  <2>1. b - a \in Nat /\ b = a + (b - a)
    OBVIOUS
  <2> QED
    BY <2>1
<1>2. x * k \in Nat /\ a * k \in Nat /\ b * k = a * k + x * k
  BY <1>1
<1> QED
  BY <1>2

(* A quotient by its bounds.                                                 *)
LEMMA Quotient ==
    ASSUME NEW a \in Nat, NEW b \in Nat, b > 0
    PROVE  /\ a \div b \in Nat /\ b * (a \div b) <= a /\ a < b * (a \div b) + b
           /\ \A m \in Nat : a <= m * b => a \div b <= m
           /\ \A m \in Nat : m * b <= a => m <= a \div b
<1> DEFINE x == a \div b
<1>1. x \in Nat /\ b * x <= a /\ a < b * x + b
  OBVIOUS
<1> HIDE DEF x
<1>2. ASSUME NEW m \in Nat, a <= m * b, x > m PROVE FALSE
  <2>1. (m + 1) * b <= x * b
    BY <1>1, <1>2, Multiples
  <2>2. (m + 1) * b = m * b + b /\ x * b = b * x /\ m * b \in Nat /\ b * x \in Nat
    BY <1>1
  <2> QED
    BY <1>1, <1>2, <2>1, <2>2
<1>3. ASSUME NEW m \in Nat, m * b <= a, x < m PROVE FALSE
  <2>1. (x + 1) * b <= m * b
    BY <1>1, <1>3, Multiples
  <2>2. (x + 1) * b = x * b + b /\ x * b = b * x /\ m * b \in Nat /\ b * x \in Nat
    BY <1>1
  <2> QED
    BY <1>1, <1>3, <2>1, <2>2
<1>4. /\ \A m \in Nat : a <= m * b => x <= m
      /\ \A m \in Nat : m * b <= a => m <= x
  BY <1>1, <1>2, <1>3
<1> QED
  BY <1>1, <1>4 DEF x

(* A time of LST before that of c, in LMT: it is not before 0, and not       *)
(* further from c than in LST.                                               *)
LEMMA Converted ==
    ASSUME NEW n \in Nat, NEW lst \in Nat, lst <= Time(n).lst
    PROVE  LET k == ((Time(n).lst - lst) * FLMC) \div LSC
           IN  /\ lst2lmt(lst, Time(n)) = n * d - k
               /\ k \in 0 .. n * d /\ k <= Time(n).lst - lst
               /\ lst2lmt(lst, Time(n)) \in Nat
<1> DEFINE t == n * d
           l == Time(n).lst
           delta == l - lst
           k == (delta * FLMC) \div LSC
<1>1. t \in Nat /\ t * LSC \in Nat /\ Time(n).lmt = t /\ l \in Nat /\ l = (t * LSC) \div FLMC
  BY Times, Constants
<1>2. delta \in Nat /\ delta <= l /\ delta * FLMC \in Nat
  BY <1>1, Constants
<1>3. l * FLMC <= t * LSC
  <2>1. FLMC * l <= t * LSC
    BY <1>1, Quotient, Constants
  <2> QED
    BY <1>1, <2>1, Constants
<1> HIDE DEF l, t
<1>4. delta * FLMC <= t * LSC /\ delta * FLMC <= delta * LSC
  <2> HIDE DEF delta
  <2>1. delta * FLMC <= l * FLMC /\ l * FLMC \in Nat
    BY <1>1, <1>2, Multiples, Constants
  <2>2. FLMC * delta <= LSC * delta
    BY <1>2, Multiples, Constants
  <2>3. FLMC * delta = delta * FLMC /\ LSC * delta = delta * LSC
    BY <1>2, Constants
  <2>4. delta * FLMC <= t * LSC
    BY <1>1, <1>2, <1>3, <2>1
  <2> QED
    BY <2>2, <2>3, <2>4
<1>5. k \in Nat /\ k <= t /\ k <= delta
  <2> HIDE DEF delta
  <2> QED
    BY <1>1, <1>2, <1>4, Quotient, Constants
<1>6. ~(lst > l) /\ lst2lmt(lst, Time(n)) = t - k
  BY <1>1 DEF lst2lmt, l
<1> QED
  BY <1>1, <1>5, <1>6 DEF t, l

(* Who has waited long enough in LST asks for a time that was. *)
LEMMA StartNatural ==
    ASSUME ProcessTypes, FpgaTypes, NEW p \in Readers, NEW c \in CTimes,
           Qts[p].request = "ST", Ahead(Since(p, req[p].lmt, c)) <= 0
    PROVE  Start(p, c) \in Nat
<1>1. PICK n \in Nat : c = Time(n)
  BY CTimesAre DEF FpgaTypes
<1>2. Qts[p].lst \in Nat /\ p # Acquirer
  BY Constants DEF ProcessTypes, Positions
<1>3. MARGIN * d \in Nat /\ c.lst \in Nat
  BY <1>1, Times, Constants
<1>4. MARGIN * d <= c.lst - Qts[p].lst
  BY <1>2, <1>3 DEF Ahead, Since
<1>5. lst2lmt(Qts[p].lst, c) \in Nat
  BY <1>1, <1>2, <1>3, <1>4, Converted
<1> QED
  BY <1>2, <1>5 DEF Start

(* And who is not too late asks for a time that was or that will be: an       *)
(* acquisition because the buffer has been full once.                         *)
LEMMA AcceptedNatural ==
    ASSUME ProcessTypes, FpgaTypes, NEW p \in world.processes, NEW c \in CTimes,
           ~TooLate(Since(p, Start(p, c), c))
    PROVE  Start(p, c) \in Nat
<1>1. PICK n \in Nat : c = Time(n) /\ n \in {now, Before(now)} /\ c.lmt \in Nat /\ c.lst \in Nat
  BY CTimesAre DEF FpgaTypes
<1>2. p \in Processes /\ Start(p, c) \in Int
  BY <1>1, StartType, WorldFacts DEF ProcessTypes
<1>3. CASE p = Acquirer
  <2>1. (world.first - 1) * d >= CIRCBUF * d - SAFE /\ world.first \in Nat /\ world.first <= now
    BY <1>3, DDAssumption, WorldFacts DEF ProcessTypes
  <2>2. n >= world.first - 1
    BY <1>1, <2>1 DEF Before, FpgaTypes
  <2>3. n * d >= (world.first - 1) * d
    <3>1. CASE world.first = 0
      <4>1. n * d \in Nat /\ (0 - 1) * d = -d
        BY Constants
      <4> QED
        BY <3>1, <4>1, Constants
    <3>2. CASE world.first # 0
      <4>1. world.first - 1 \in Nat
        BY <2>1, <3>2
      <4> QED
        BY <2>2, <4>1, Multiples, Constants
    <3> QED
      BY <3>1, <3>2
  <2>4. Acquirer \notin Readers /\ c.lmt = n * d
    BY <1>1, Times, Constants
  <2>5. Since(p, Start(p, c), c) = c.lmt - Start(p, c)
    BY <1>3, <2>4 DEF Since
  <2>6. c.lmt - Start(p, c) <= CIRCBUF * d - SAFE
    <3> DEFINE delta == c.lmt - Start(p, c)
    <3>1. delta \in Int /\ CIRCBUF * d - SAFE \in Int
      BY <1>1, <1>2, Constants
    <3>2. ~(delta > CIRCBUF * d - SAFE)
      BY <2>5 DEF TooLate
    <3> QED
      BY <3>1, <3>2
  <2>7. /\ CIRCBUF * d - SAFE \in Int /\ (world.first - 1) * d \in Int /\ n * d \in Int
    BY <2>1, Constants
  <2> QED
    BY <1>2, <2>1, <2>3, <2>4, <2>6, <2>7
<1>4. CASE p # Acquirer
  <2>1. p \in Readers /\ Qts[p] \in Positions
    BY <1>2, <1>4 DEF Processes, ProcessTypes
  <2>2. Qts[p].lst \in Nat /\ Qts[p].lmt \in Nat /\ Qts[p].trigoffset * d \in Nat
        /\ trigger \in Nat
    BY <2>1, Constants DEF Positions, FpgaTypes
  <2>3. lst2lmt(Qts[p].lst, c) \in Nat
    <3>1. CASE Qts[p].lst <= c.lst
      BY <1>1, <2>2, <3>1, Converted
    <3>2. CASE ~(Qts[p].lst <= c.lst)
      <4> DEFINE later == (Qts[p].lst - c.lst) * FLMC
      <4>1. later \in Nat
        BY <1>1, <2>2, <3>2, Constants
      <4>2. later \div LSC \in Nat
        <5> HIDE DEF later
        <5> QED
          BY <4>1, Quotient, Constants
      <4>3. Qts[p].lst > c.lst
        BY <1>1, <2>2, <3>2
      <4> QED
        BY <1>1, <4>2, <4>3 DEF lst2lmt
    <3> QED
      BY <3>1, <3>2
  <2> QED
    BY <1>4, <2>2, <2>3 DEF Start
<1> QED
  BY <1>3, <1>4

(* A position of a file stays one when its time is located.                  *)
LEMMA LocatedType ==
    ASSUME NEW q \in Positions, NEW lmt \in Nat
    PROVE  Located(q, lmt) \in Positions
<1>1. lmt \div d \in Nat
  BY Constants
<1> QED
  BY <1>1 DEF Located, lmt2mt, Positions

(* A position of a file stays one when a read advances it.                   *)
LEMMA AdvancedType ==
    ASSUME NEW q \in Positions, NEW n \in Nat, NEW k \in Nat
    PROVE  Advanced(q, n, k) \in Positions
<1>1. q.mt \in Nat /\ n * k \in Nat
  BY DEF Positions
<1>2. q.mt + n * k \in Nat /\ (q.mt + n * k) * d \in Nat
  BY <1>1, Constants
<1> QED
  BY <1>2 DEF Advanced, mt2lmt, Positions

(* The atoms in the DMA fifo are fewer than its slots, and a new block size  *)
(* leaves the state of the transfer one.                                     *)
LEMMA CsizeType ==
    ASSUME NEW q \in DMAs
    PROVE  /\ lenDMA_FIFO(q) \in 0 .. FIFO - 1
           /\ libera_dma_get_DMAC_csize(q) \in DMAs
<1>1. q.put \in 0 .. FIFO - 1 /\ q.get \in 0 .. FIFO - 1
  BY DEF DMAs
<1>2. lenDMA_FIFO(q) \in 0 .. FIFO - 1
  BY <1>1, Constants DEF lenDMA_FIFO
<1>3. Least(FIFO - 1 - lenDMA_FIFO(q),
            Least(Least(q.remaining, BLOCK), Least(FIFO - q.put, q.size))) \in Int
  BY <1>1, <1>2, Constants DEF Least, DMAs
<1> QED
  BY <1>2, <1>3 DEF libera_dma_get_DMAC_csize, DMAs

-----------------------------------------------------------------------------
(* Types *)

(* The initial states have the types.                                        *)
LEMMA InitTypes == Init => DDTypes
<1> SUFFICES ASSUME Init PROVE DDTypes
  OBVIOUS
<1>1. world \in Worlds /\ world.first \in Nat
  BY DDAssumption DEF Init
<1>2. FpgaTypes
  <2>1. cb \in [next : Int, left : Nat, step : Nat \ {0}]
    BY DEF Init
  <2>2. ob \in Seq(Int) /\ over \in BOOLEAN /\ trigger \in Nat
    BY EmptySeq DEF Init
  <2>3. now \in Nat
    BY <1>1 DEF Init
  <2> QED
    BY <2>1, <2>2, <2>3 DEF FpgaTypes
<1>3. DmaTypes
  BY Constants DEF Init, DmaTypes, DMAs, Junk
<1>4. DeviceTypes
  BY DEF Init, DeviceTypes
<1>5. Fresh \in Positions /\ NoRequest \in Requests
  BY DEF Fresh, NoRequest, Positions, Requests
<1>6. ProcessTypes
  BY <1>1, <1>5 DEF Init, ProcessTypes, Places, Held
<1> QED
  BY <1>2, <1>3, <1>4, <1>6 DEF DDTypes

(* What the FPGA does. *)
LEMMA FpgaKeepsTypes ==
    ASSUME DDTypes, Tick \/ Trigger \/ Fetch \/ libera_dd_handler, world' = world
    PROVE  DDTypes'
<1> USE DEF DDTypes
<1>1. CASE Tick
  <2>1. world.first \in Nat
    BY WorldFacts DEF ProcessTypes
  <2> QED
    BY <1>1, <2>1 DEF Tick, FpgaTypes, DmaTypes, DeviceTypes, ProcessTypes, device, files
<1>2. CASE Trigger
  <2>1. trigger' \in Nat
    <3>1. (now - 1) * d \in Nat /\ now * d \in Nat
      BY <1>2, Constants DEF Trigger, FpgaTypes
    <3> QED
      BY <1>2, <3>1 DEF Trigger
  <2> QED
    BY <1>2, <2>1 DEF Trigger, FpgaTypes, DmaTypes, DeviceTypes, ProcessTypes, fpga, device, files
<1>3. CASE Fetch
  <2>1. Stored(cb.next) \in Int
    BY Constants DEF Stored, FpgaTypes
  <2>2. ob' \in Seq(Int)
    BY <1>3, <2>1, AppendProperties DEF Fetch, FpgaTypes
  <2>3. cb' \in [next : Int, left : Nat, step : Nat \ {0}]
    <3>1. cb.next + cb.step \in Int /\ cb.left - 1 \in Nat /\ cb.step \in Nat \ {0}
      BY <1>3 DEF Fetch, Fetches, FpgaTypes
    <3>2. cb' = [next |-> cb.next + cb.step, left |-> cb.left - 1, step |-> cb.step]
      BY <1>3 DEF Fetch, FpgaTypes
    <3> QED
      BY <3>1, <3>2
  <2> QED
    BY <1>3, <2>2, <2>3 DEF Fetch, FpgaTypes, DmaTypes, DeviceTypes, ProcessTypes, device, files
<1>4. CASE libera_dd_handler
  <2>1. irqs' \in Nat
    BY <1>4, Constants DEF libera_dd_handler, Least, DeviceTypes
  <2> QED
    BY <1>4, <2>1 DEF libera_dd_handler, FpgaTypes, DmaTypes, DeviceTypes, ProcessTypes, fpga, files
<1> QED
  BY <1>1, <1>2, <1>3, <1>4

(* The state of the transfer when its block is there. *)
Arrived == putToDMA_FIFO([IrqStatus(dma, SubSeq(ob, dmac.n + 1, Len(ob)))
                              EXCEPT !.buf = Moved, !.remaining = @ - dma.csize])

(* What an action sets in the state of the transfer. *)
LEMMA DmaSet ==
    ASSUME NEW q \in DMAs
    PROVE  /\ \A b \in BOOLEAN : [q EXCEPT !.transfer = b] \in DMAs
           /\ \A n \in Nat, b \in BOOLEAN : [q EXCEPT !.size = n, !.Overrun = b] \in DMAs
           /\ \A f \in [0 .. FIFO - 1 -> Int], n \in Int :
                 [q EXCEPT !.buf = f, !.remaining = n] \in DMAs
           /\ \A i \in 0 .. FIFO - 1 : [q EXCEPT !.put = i] \in DMAs
           /\ \A i, j \in 0 .. FIFO - 1, k, n \in Nat, a, b \in BOOLEAN :
                 [q EXCEPT !.size = n, !.Overrun = a, !.transfer = b, !.remaining = k,
                           !.put = i, !.get = j] \in DMAs
<1>1. ASSUME NEW i \in 0 .. FIFO - 1, NEW j \in 0 .. FIFO - 1, NEW k \in Nat, NEW n \in Nat,
             NEW a \in BOOLEAN, NEW b \in BOOLEAN
      PROVE  [q EXCEPT !.size = n, !.Overrun = a, !.transfer = b, !.remaining = k,
                       !.put = i, !.get = j] \in DMAs
  <2> DEFINE q1 == [q EXCEPT !.size = n, !.Overrun = a]
             q2 == [q1 EXCEPT !.transfer = b]
             q3 == [q2 EXCEPT !.remaining = k]
             q4 == [q3 EXCEPT !.put = i]
             q5 == [q4 EXCEPT !.get = j]
  <2>1. q1 \in DMAs
    BY DEF DMAs
  <2>2. q2 \in DMAs
    <3> HIDE DEF q1
    <3> QED
      BY <2>1 DEF DMAs
  <2>3. q3 \in DMAs
    <3> HIDE DEF q2
    <3>1. k \in Int
      OBVIOUS
    <3> QED
      BY <2>2, <3>1 DEF DMAs
  <2>4. q4 \in DMAs
    <3> HIDE DEF q3
    <3> QED
      BY <2>3 DEF DMAs
  <2>5. q5 \in DMAs
    <3> HIDE DEF q4
    <3> QED
      BY <2>4 DEF DMAs
  <2>6. q5 = [q EXCEPT !.size = n, !.Overrun = a, !.transfer = b, !.remaining = k,
                       !.put = i, !.get = j]
    OBVIOUS
  <2> QED
    BY <2>5, <2>6
<1>2. /\ \A b \in BOOLEAN : [q EXCEPT !.transfer = b] \in DMAs
      /\ \A n \in Nat, b \in BOOLEAN : [q EXCEPT !.size = n, !.Overrun = b] \in DMAs
      /\ \A f \in [0 .. FIFO - 1 -> Int], n \in Int :
            [q EXCEPT !.buf = f, !.remaining = n] \in DMAs
      /\ \A i \in 0 .. FIFO - 1 : [q EXCEPT !.put = i] \in DMAs
  BY DEF DMAs
<1> QED
  BY <1>1, <1>2

(* A look at the status register leaves the state of the transfer one.       *)
LEMMA RefreshedType ==
    ASSUME NEW q \in DMAs, NEW content \in Seq(Int), NEW overrun \in BOOLEAN
    PROVE  Refreshed(q, content, overrun) \in DMAs
<1>1. Len(content) \in Nat
  BY LenProperties
<1>2. (q.Overrun \/ overrun) \in BOOLEAN
  OBVIOUS
<1> QED
  BY <1>1, <1>2, DmaSet DEF Refreshed

(* The state of the transfer when a block is there has its type.             *)
LEMMA ArrivedType ==
    ASSUME FpgaTypes, DmaTypes, dmac # NULL, dmac.n > 0
    PROVE  SubSeq(ob, dmac.n + 1, Len(ob)) \in Seq(Int) /\ Arrived \in DMAs
<1> DEFINE left == SubSeq(ob, dmac.n + 1, Len(ob))
           q == [IrqStatus(dma, left) EXCEPT !.buf = Moved, !.remaining = @ - dma.csize]
<1>1. dmac.slot \in Int /\ dmac.n \in Int
  BY DEF DmaTypes
<1>2. Len(ob) \in Nat /\ DOMAIN ob = 1 .. Len(ob) /\ \A i \in 1 .. Len(ob) : ob[i] \in Int
  BY ElementOfSeq, LenProperties DEF FpgaTypes
<1>3. left \in Seq(Int) /\ Len(left) \in Nat
  <2>1. \A i \in dmac.n + 1 .. Len(ob) : ob[i] \in Int
    BY <1>1, <1>2
  <2>2. left \in Seq(Int)
    BY <1>1, <1>2, <2>1, SubSeqProperties
  <2> QED
    BY <2>2, LenProperties
<1>4. Moved \in [0 .. FIFO - 1 -> Int]
  <2>1. \A i \in 0 .. FIFO - 1 : dma.buf[i] \in Int
    BY DEF DmaTypes, DMAs
  <2> QED
    BY <1>1, <1>2, <2>1, Constants DEF Moved, Junk
<1>5. q \in DMAs
  <2> HIDE DEF left
  <2>1. IrqStatus(dma, left) \in DMAs
    BY <1>3, RefreshedType DEF IrqStatus, DmaTypes, FpgaTypes
  <2>2. IrqStatus(dma, left).remaining - dma.csize \in Int
    BY <2>1 DEF DmaTypes, DMAs
  <2> QED
    BY <1>4, <2>1, <2>2, DmaSet
<1>6. putToDMA_FIFO(q) \in DMAs
  <2> HIDE DEF q
  <2>1. (q.put + q.csize) % FIFO \in 0 .. FIFO - 1
    BY <1>5, Constants DEF DMAs
  <2> QED
    BY <1>5, <2>1, DmaSet DEF putToDMA_FIFO
<1> QED
  BY <1>3, <1>6 DEF Arrived

(* The interrupt of the DMA controller in terms of Arrived.                  *)
LEMMA InterruptIs ==
    ASSUME libera_dma_interrupt
    PROVE  LET next == libera_dma_get_DMAC_csize(Arrived)
           IN  /\ dmac # NULL /\ dmac.n > 0
               /\ ob' = SubSeq(ob, dmac.n + 1, Len(ob))
               /\ dma' = [next EXCEPT !.transfer = next.csize > 0]
               /\ dmac' = IF next.csize > 0 THEN libera_dma_command(next) ELSE NULL
               /\ UNCHANGED << now, trigger, cb, over, device, files, pc, req, copy, got, calls >>
BY DEF libera_dma_interrupt, Arrived

(* The interrupt of the DMA controller keeps the types.                      *)
LEMMA InterruptKeepsTypes ==
    ASSUME DDTypes, libera_dma_interrupt, world' = world
    PROVE  DDTypes'
<1> DEFINE next == libera_dma_get_DMAC_csize(Arrived)
<1>1. /\ dmac # NULL /\ dmac.n > 0
      /\ ob' = SubSeq(ob, dmac.n + 1, Len(ob))
      /\ dma' = [next EXCEPT !.transfer = next.csize > 0]
      /\ dmac' = IF next.csize > 0 THEN libera_dma_command(next) ELSE NULL
      /\ UNCHANGED << now, trigger, cb, over, device, files, pc, req, copy, got, calls >>
  BY InterruptIs
<1>2. ob' \in Seq(Int) /\ Arrived \in DMAs
  BY <1>1, ArrivedType DEF DDTypes
<1>3. next \in DMAs
  BY <1>2, CsizeType
<1> HIDE DEF next
<1>4. dma' \in DMAs
  <2>1. (next.csize > 0) \in BOOLEAN
    OBVIOUS
  <2> QED
    BY <1>1, <1>3, <2>1, DmaSet
<1>5. libera_dma_command(next) \in [slot : Int, n : Int]
  BY <1>3 DEF DMAs, libera_dma_command
<1> QED
  BY <1>1, <1>2, <1>4, <1>5 DEF DDTypes, FpgaTypes, DmaTypes, DeviceTypes, ProcessTypes, device, files

(* Open, close, llseek, ioctl, and the locks. *)
LEMMA CallKeepsTypes ==
    ASSUME DDTypes, world' = world, NEW r \in Readers,
           \/ libera_dd_open(r) \/ libera_dd_release(r) \/ LIBERA_IOC_SET_DEC(r)
           \/ \E request \in world.requests, at \in world.times : libera_dd_llseek(r, request, at)
           \/ libera_dd_read(r) \/ Lock(r) \/ LockInterrupted(r)
    PROVE  DDTypes'
<1> USE DEF DDTypes
<1>0. /\ r \in Processes /\ dmac' = dmac /\ dma' = dma /\ UNCHANGED fpga /\ trigger' = trigger
      /\ (sem' = sem \/ sem' = r) /\ enabled' = enabled /\ irqs' = irqs /\ copy' = copy
      /\ (got' = got \/ got' = << >>) /\ now' = now
  BY DEF Processes, libera_dd_open, libera_dd_release, LIBERA_IOC_SET_DEC, libera_dd_llseek,
         libera_dd_read, Lock, LockInterrupted, device, fpga
<1>1. FpgaTypes' /\ DmaTypes' /\ DeviceTypes'
  BY <1>0, EmptySeq DEF FpgaTypes, DmaTypes, DeviceTypes, fpga
<1>2. CASE libera_dd_open(r)
  <2>1. Fresh \in Positions
    BY DEF Fresh, Positions
  <2> QED
    BY <1>0, <1>1, <1>2, <2>1 DEF libera_dd_open, ProcessTypes, Places
<1>3. CASE libera_dd_release(r)
  BY <1>0, <1>1, <1>3 DEF libera_dd_release, ProcessTypes, files, Places
<1>4. CASE LIBERA_IOC_SET_DEC(r)
  <2>1. world.decs \subseteq Nat \ {0}
    BY WorldFacts DEF ProcessTypes
  <2>2. dec' \in [Readers -> Nat \ {0}]
    BY <1>4, <2>1 DEF LIBERA_IOC_SET_DEC, ProcessTypes
  <2> QED
    BY <1>0, <1>1, <1>4, <2>2 DEF LIBERA_IOC_SET_DEC, ProcessTypes
<1>5. ASSUME NEW request \in world.requests, NEW at \in world.times, libera_dd_llseek(r, request, at)
      PROVE  DDTypes'
  <2>1. request \in {"ST", "MT", "IMPLICIT"} /\ at \in Nat
    BY WorldFacts DEF ProcessTypes
  <2>2. Time(at).lst \in Nat /\ mt2lmt(at) \in Nat
    BY <2>1, Times, Constants DEF mt2lmt
  <2>3. Qts[r] \in Positions
    BY DEF ProcessTypes
  <2>4. Qts'[r] \in Positions
    BY <1>5, <2>1, <2>2, <2>3 DEF libera_dd_llseek, Positions, ProcessTypes
  <2>5. Qts' \in [Readers -> Positions]
    BY <1>5, <2>4 DEF libera_dd_llseek, ProcessTypes
  <2> QED
    BY <1>0, <1>1, <1>5, <2>5 DEF libera_dd_llseek, ProcessTypes
<1>6. CASE libera_dd_read(r)
  <2>1. world.counts \subseteq Nat
    BY WorldFacts DEF ProcessTypes
  <2>2. \A n \in world.counts : [NoRequest EXCEPT !.n = n] \in Requests
    BY <2>1 DEF NoRequest, Requests
  <2> QED
    BY <1>0, <1>1, <1>6, <2>2 DEF libera_dd_read, ProcessTypes, files, Places
<1>7. CASE Lock(r)
  BY <1>0, <1>1, <1>7 DEF Lock, ProcessTypes, files, Places, Held
<1>8. CASE LockInterrupted(r)
  BY <1>0, <1>1, <1>8 DEF LockInterrupted, ProcessTypes, files, Places
<1> QED
  BY <1>2, <1>3, <1>4, <1>5, <1>6, <1>7, <1>8

(* The way out of a call keeps the types of what it sets.                    *)
LEMMA LeaveTypes ==
    ASSUME DDTypes, NEW p \in Processes, Leave(p)
    PROVE  /\ sem' = NULL /\ enabled' \in BOOLEAN /\ got' \in Seq(Int)
           /\ pc' \in [Processes -> Places] /\ req' \in [Processes -> Requests]
<1>1. NoRequest \in Requests
  BY DEF NoRequest, Requests
<1>2. (enabled \/ p \in Readers) \in BOOLEAN
  OBVIOUS
<1> QED
  BY <1>1, <1>2, EmptySeq DEF Leave, DDTypes, ProcessTypes, DeviceTypes, Places

(* The ends of a read before the transfer and after it. *)
LEMMA EndKeepsTypes ==
    ASSUME DDTypes, world' = world, NEW p \in Processes,
           \/ Refused(p) \/ WaitInterrupted(p)
           \/ p \in Readers /\ (NothingToRead(p) \/ Failed(p) \/ Done(p))
    PROVE  DDTypes'
<1> USE DEF DDTypes
<1>0. Leave(p)
  BY DEF Refused, WaitInterrupted, NothingToRead, Failed, Done
<1>1. /\ sem' = NULL /\ enabled' \in BOOLEAN /\ got' \in Seq(Int)
      /\ pc' \in [Processes -> Places] /\ req' \in [Processes -> Requests]
  BY <1>0, LeaveTypes
<1>2. /\ dmac' = dmac /\ dma' = dma /\ now' = now /\ trigger' = trigger /\ over' = over
      /\ irqs' = irqs /\ copy' = copy /\ dec' = dec
  BY DEF Refused, WaitInterrupted, NothingToRead, Failed, Done, fpga, files
<1>3. cb' \in [next : Int, left : Nat, step : Nat \ {0}] /\ ob' \in Seq(Int)
  <2>1. CASE Failed(p)
    <3>1. cb' = [next |-> cb.next, left |-> 0, step |-> cb.step] /\ ob' = << >>
      BY <2>1 DEF Failed, FpgaTypes
    <3> QED
      BY <3>1, EmptySeq DEF FpgaTypes
  <2>2. CASE ~Failed(p)
    <3>1. cb' = cb /\ ob' = ob
      BY <2>2 DEF Refused, WaitInterrupted, NothingToRead, Done, fpga
    <3> QED
      BY <3>1 DEF FpgaTypes
  <2> QED
    BY <2>1, <2>2
<1>4. Qts' \in [Readers -> Positions]
  <2>1. CASE p \in Readers /\ (NothingToRead(p) \/ Done(p))
    <3>1. Qts[p] \in Positions /\ req[p].dec \in Nat /\ Len(got) \in Nat
      BY <2>1, LenProperties DEF ProcessTypes, DeviceTypes, Requests
    <3>2. Advanced(Qts[p], 0, 1) \in Positions /\ Advanced(Qts[p], Len(got), req[p].dec) \in Positions
      BY <3>1, AdvancedType
    <3> QED
      BY <2>1, <3>2 DEF NothingToRead, Done, ProcessTypes
  <2>2. CASE ~(p \in Readers /\ (NothingToRead(p) \/ Done(p)))
    BY <2>2 DEF Refused, WaitInterrupted, Failed, files, ProcessTypes
  <2> QED
    BY <2>1, <2>2
<1>5. FpgaTypes' /\ DmaTypes' /\ DeviceTypes' /\ ProcessTypes'
  BY <1>1, <1>2, <1>3, <1>4 DEF FpgaTypes, DmaTypes, DeviceTypes, ProcessTypes
<1> QED
  BY <1>5

(* The acquisition of the post mortem data. *)
LEMMA AcquisitionKeepsTypes ==
    ASSUME DDTypes, world' = world, libera_acq_pm \/ TryLock \/ Busy \/ Acquired
    PROVE  DDTypes'
<1> USE DEF DDTypes
<1>0. /\ Acquirer \in Processes /\ UNCHANGED << fpga, trigger, irqs, dmac, dma, files, copy >>
      /\ now' = now
  BY DEF Processes, libera_acq_pm, TryLock, Busy, Acquired, device, fpga
<1>1. FpgaTypes' /\ DmaTypes'
  BY <1>0 DEF FpgaTypes, DmaTypes, fpga
<1>2. DeviceTypes'
  BY <1>0, EmptySeq DEF DeviceTypes, libera_acq_pm, TryLock, Busy, Acquired, device
<1>3. req' \in [Processes -> Requests]
  <2>1. NoRequest \in Requests /\ [NoRequest EXCEPT !.n = pmsize] \in Requests
    BY Constants DEF NoRequest, Requests
  <2> QED
    BY <1>0, <2>1 DEF ProcessTypes, libera_acq_pm, TryLock, Busy, Acquired
<1>4. pc' \in [Processes -> Places]
  BY <1>0 DEF ProcessTypes, libera_acq_pm, TryLock, Busy, Acquired, Goes, Places, Held
<1> QED
  BY <1>0, <1>1, <1>2, <1>3, <1>4 DEF ProcessTypes, files

(* A request, up to the interrupt. *)
LEMMA RequestKeepsTypes ==
    ASSUME DDTypes, world' = world, NEW p \in Processes, p \in world.processes,
           Accepted(p) \/ Awake(p) \/ libera_dd_write_CBfifo(p) \/ getBlockedFromFIFO(p)
    PROVE  DDTypes'
<1> USE DEF DDTypes
<1>1. CASE Accepted(p)
  <2>1. PICK c \in CTimes :
          LET lmt == Start(p, c)
              delta == Since(p, lmt, c)
          IN  /\ ~TooLate(delta)
              /\ req' = [req EXCEPT ![p] = [@ EXCEPT !.lmt = lmt,
                                             !.dec = IF p = Acquirer THEN PMDEC ELSE dec[p]]]
              /\ Qts' = IF p # Acquirer /\ Qts[p].request = "IMPLICIT"
                        THEN [Qts EXCEPT ![p] = Located(@, lmt)] ELSE Qts
              /\ pc' = [pc EXCEPT ![p] = IF Ahead(delta) <= 0 THEN "command" ELSE "early"]
    BY <1>1 DEF Accepted
  <2>2. c.lmt \in Nat /\ c.lst \in Nat
    BY CTimesAre DEF FpgaTypes
  <2>3. Start(p, c) \in Nat
    BY <2>1, AcceptedNatural
  <2>4. (IF p = Acquirer THEN PMDEC ELSE dec[p]) \in Nat \ {0}
    BY Constants DEF Processes, ProcessTypes
  <2>5. [req[p] EXCEPT !.lmt = Start(p, c), !.dec = IF p = Acquirer THEN PMDEC ELSE dec[p]] \in Requests
    BY <2>3, <2>4 DEF ProcessTypes, Requests
  <2>6. req' \in [Processes -> Requests]
    BY <2>1, <2>5 DEF ProcessTypes
  <2>7. Qts' \in [Readers -> Positions]
    BY <2>1, <2>3, LocatedType DEF ProcessTypes, Processes
  <2>8. pc' \in [Processes -> Places]
    BY <2>1 DEF ProcessTypes, Places, Held
  <2> QED
    BY <1>1, <2>6, <2>7, <2>8
    DEF Accepted, FpgaTypes, DmaTypes, DeviceTypes, ProcessTypes, fpga, device
<1>2. CASE Awake(p)
  <2>1. PICK c \in CTimes :
          /\ Ahead(Since(p, req[p].lmt, c)) <= 0
          /\ req' = IF p \in Readers /\ Qts[p].request = "ST"
                    THEN [req EXCEPT ![p].lmt = Start(p, c)] ELSE req
    BY <1>2 DEF Awake
  <2>2. req' \in [Processes -> Requests]
    <3>1. CASE p \in Readers /\ Qts[p].request = "ST"
      <4>1. Start(p, c) \in Nat
        BY <1>2, <3>1, <2>1, StartNatural
      <4>2. [req[p] EXCEPT !.lmt = Start(p, c)] \in Requests
        BY <4>1 DEF ProcessTypes, Requests
      <4> QED
        BY <2>1, <3>1, <4>2 DEF ProcessTypes
    <3>2. CASE ~(p \in Readers /\ Qts[p].request = "ST")
      BY <2>1, <3>2 DEF ProcessTypes
    <3> QED
      BY <3>1, <3>2
  <2> QED
    BY <1>2, <2>2
    DEF Awake, FpgaTypes, DmaTypes, DeviceTypes, ProcessTypes, fpga, device, files, Places, Held
<1>3. CASE libera_dd_write_CBfifo(p)
  <2>1. req[p] \in Requests /\ req[p].lmt \in Nat /\ req[p].n \in Nat /\ req[p].dec \in Nat \ {0}
    BY DEF ProcessTypes, Requests
  <2>2. Stored(get_circ_offset_lmt(req[p].lmt)) \in Int
    <3>1. Atom(req[p].lmt) \in Nat
      BY <2>1, AtomType
    <3>2. Atom(req[p].lmt) % CIRCBUF \in Int
      BY <3>1, Constants
    <3>3. \A a \in Int : Stored(a) \in Int
      BY Constants DEF Stored, FpgaTypes
    <3> QED
      BY <3>2, <3>3 DEF get_circ_offset_lmt
  <2>3. cb' \in [next : Int, left : Nat, step : Nat \ {0}]
    BY <1>3, <2>1, <2>2 DEF libera_dd_write_CBfifo
  <2>4. Qts' \in [Readers -> Positions]
    BY <1>3, <2>1, LocatedType DEF libera_dd_write_CBfifo, ProcessTypes, Processes
  <2> QED
    BY <1>3, <2>3, <2>4, EmptySeq
    DEF libera_dd_write_CBfifo, FpgaTypes, DmaTypes, DeviceTypes, ProcessTypes, device, Places, Held
<1>4. CASE getBlockedFromFIFO(p)
  BY <1>4 DEF getBlockedFromFIFO, FpgaTypes, DmaTypes, DeviceTypes, ProcessTypes, fpga, files,
              Places, Held
<1> QED
  BY <1>1, <1>2, <1>3, <1>4

(* The transfer. *)
LEMMA TransferKeepsTypes ==
    ASSUME DDTypes, world' = world, NEW p \in Processes,
           \/ Begin(p) \/ SyncWait(p) \/ SyncTimeout(p) \/ Synced(p) \/ DataThere(p)
           \/ Abort(p) \/ Copy(p) \/ CopyFails(p) \/ Again(p) \/ End(p)
    PROVE  DDTypes'
<1> USE DEF DDTypes
<1>0. UNCHANGED << fpga, trigger, device, files, req, calls >>
  BY DEF Begin, SyncWait, SyncTimeout, Synced, DataThere, Abort, Copy, CopyFails, Again, End
<1>1. pc' \in [Processes -> Places]
  BY DEF ProcessTypes, Begin, SyncWait, SyncTimeout, Synced, DataThere, Abort, Copy, CopyFails,
         Again, End, Goes, Places, Held
<1>2. FpgaTypes' /\ ProcessTypes'
  BY <1>0, <1>1 DEF FpgaTypes, ProcessTypes, fpga, files
<1>3. DeviceTypes'
  <2>1. lenDMA_FIFO(dma) \in Nat
    BY CsizeType DEF DmaTypes
  <2>2. copy' \in [fifo_atoms : Nat, OBAtoms : Nat]
    <3>1. CASE Copy(p)
      <4>1. copy.fifo_atoms - 1 \in Nat /\ copy.OBAtoms + 1 \in Nat
        BY <3>1 DEF Copy, DeviceTypes
      <4> QED
        BY <3>1, <4>1 DEF Copy
    <3>2. CASE DataThere(p)
      BY <3>2, <2>1 DEF DataThere, DeviceTypes
    <3>3. CASE ~Copy(p) /\ ~DataThere(p)
      BY <3>3 DEF DeviceTypes, Begin, SyncWait, SyncTimeout, Synced, Abort, CopyFails, Again, End
    <3> QED
      BY <3>1, <3>2, <3>3
  <2>3. got' \in Seq(Int)
    <3>1. CASE Copy(p)
      <4>1. dma.buf[dma.get] \in Int
        BY DEF DmaTypes, DMAs
      <4>2. Append(got, dma.buf[dma.get]) \in Seq(Int)
        BY <4>1, AppendProperties DEF DeviceTypes
      <4> QED
        BY <3>1, <4>2 DEF Copy, DeviceTypes
    <3>2. CASE ~Copy(p)
      BY <3>2 DEF DeviceTypes, Begin, SyncWait, SyncTimeout, Synced, DataThere, Abort, CopyFails,
                  Again, End
    <3> QED
      BY <3>1, <3>2
  <2> QED
    BY <1>0, <2>2, <2>3 DEF DeviceTypes, device
<1>4. DmaTypes'
  <2>0. dma \in DMAs /\ over \in BOOLEAN /\ ob \in Seq(Int)
    BY DEF DmaTypes, FpgaTypes
  <2>1. CASE Begin(p)
    <3> DEFINE q == [dma EXCEPT !.size = Len(ob), !.Overrun = FALSE, !.transfer = FALSE,
                                !.remaining = req[p].n, !.put = 0, !.get = 0]
    <3>1. req[p].n \in Nat /\ Len(ob) \in Nat /\ 0 \in 0 .. FIFO - 1
      BY <2>0, LenProperties, Constants DEF ProcessTypes, Requests
    <3>4. q \in DMAs
      BY <2>0, <3>1, DmaSet
    <3> HIDE DEF q
    <3>3. libera_dma_get_DMAC_csize(q) \in DMAs
      BY <3>4, CsizeType
    <3> QED
      BY <2>1, <3>3 DEF q, Begin, DmaTypes
  <2>2. CASE SyncWait(p)
    BY <2>0, <2>2, RefreshedType DEF SyncWait, DmaTypes
  <2>3. CASE Synced(p)
    <3> DEFINE q == libera_dma_get_DMAC_csize(dma)
    <3>1. q \in DMAs
      BY <2>0, CsizeType
    <3>2. \/ dma' = q /\ dmac' = dmac
          \/ dma' = [q EXCEPT !.transfer = TRUE] /\ dmac' = libera_dma_command(q)
      BY <2>3 DEF Synced
    <3> HIDE DEF q
    <3>3. [q EXCEPT !.transfer = TRUE] \in DMAs
      BY <3>1, DmaSet
    <3>4. libera_dma_command(q) \in [slot : Int, n : Int]
      BY <3>1 DEF DMAs, libera_dma_command
    <3> QED
      BY <3>1, <3>2, <3>3, <3>4 DEF DmaTypes
  <2>4. CASE Copy(p)
    <3>1. (dma.get + 1) % FIFO \in 0 .. FIFO - 1
      BY <2>0, Constants DEF DMAs
    <3>2. [dma.buf EXCEPT ![dma.get] = Junk] \in [0 .. FIFO - 1 -> Int]
      BY <2>0 DEF DMAs, Junk
    <3>3. dma' = [dma EXCEPT !.get = (dma.get + 1) % FIFO,
                             !.buf = [dma.buf EXCEPT ![dma.get] = Junk]]
      BY <2>4, <2>0 DEF Copy, DMAs
    <3>4. dma' \in DMAs
      BY <2>0, <3>1, <3>2, <3>3 DEF DMAs
    <3> QED
      BY <2>4, <3>4 DEF Copy, DmaTypes
  <2>5. CASE Again(p)
    BY <2>0, <2>5, RefreshedType DEF Again, DmaTypes
  <2>6. CASE SyncTimeout(p) \/ DataThere(p) \/ Abort(p) \/ CopyFails(p) \/ End(p)
    BY <2>6 DEF SyncTimeout, DataThere, Abort, CopyFails, End, DmaTypes
  <2> QED
    BY <2>1, <2>2, <2>3, <2>4, <2>5, <2>6
<1> QED
  BY <1>2, <1>3, <1>4

(* Every step keeps the types.                                               *)
LEMMA NextKeepsTypes ==
    ASSUME DDTypes, [Next]_vars
    PROVE  DDTypes'
<1>1. CASE UNCHANGED vars
  BY <1>1 DEF vars, DDTypes, FpgaTypes, DmaTypes, DeviceTypes, ProcessTypes
<1>2. CASE Next
  <2>1. world' = world /\ world.processes \subseteq Processes
    BY <1>2, WorldFacts DEF Next, DDTypes, ProcessTypes
  <2>2. CASE Tick \/ Trigger \/ Fetch \/ libera_dd_handler
    BY <2>1, <2>2, FpgaKeepsTypes
  <2>3. CASE libera_dma_interrupt
    BY <2>1, <2>3, InterruptKeepsTypes
  <2>4. ASSUME NEW p \in world.processes, Process(p) PROVE DDTypes'
    <3>1. p \in Processes
      BY <2>1
    <3>2. CASE Refused(p) \/ WaitInterrupted(p)
      BY <2>1, <3>1, <3>2, EndKeepsTypes
    <3>3. CASE Accepted(p) \/ Awake(p) \/ libera_dd_write_CBfifo(p) \/ getBlockedFromFIFO(p)
      BY <2>1, <3>1, <3>3, RequestKeepsTypes
    <3>4. CASE \/ Begin(p) \/ SyncWait(p) \/ SyncTimeout(p) \/ Synced(p) \/ DataThere(p)
               \/ Abort(p) \/ Copy(p) \/ CopyFails(p) \/ Again(p) \/ End(p)
      BY <2>1, <3>1, <3>4, TransferKeepsTypes
    <3> QED
      BY <2>4, <3>2, <3>3, <3>4 DEF Process
  <2>5. ASSUME NEW r \in Readers, Reader(r) PROVE DDTypes'
    <3>1. CASE NothingToRead(r) \/ Failed(r) \/ Done(r)
      BY <2>1, <2>5, <3>1, EndKeepsTypes DEF Processes
    <3>2. CASE ~(NothingToRead(r) \/ Failed(r) \/ Done(r))
      BY <2>1, <2>5, <3>2, CallKeepsTypes DEF Reader
    <3> QED
      BY <3>1, <3>2
  <2>6. CASE libera_acq_pm \/ TryLock \/ Busy \/ Acquired
    BY <2>1, <2>6, AcquisitionKeepsTypes
  <2> QED
    BY <1>2, <2>2, <2>3, <2>4, <2>5, <2>6 DEF Next
<1> QED
  BY <1>1, <1>2

-----------------------------------------------------------------------------
(* The lock, and the interrupt *)

(* Who is between its lock and the end of its request holds the lock. *)
LockInv == \A p \in Processes : pc[p] \in Held <=> sem = p

(* A masked interrupt has left an entry, or its process has taken it and     *)
(* will enable it.                                                           *)
IrqInv == enabled \/ irqs > 0 \/ (sem # NULL /\ pc[sem] \in Transferring)

(* A step of a process without the lock, or that keeps it. *)
LEMMA Walks ==
    ASSUME DDTypes, LockInv, IrqInv, NEW p \in Processes, NEW x,
           pc' = [pc EXCEPT ![p] = x], sem' = sem, enabled' = enabled,
           x \in Held <=> pc[p] \in Held,
           \/ irqs' = irqs /\ (pc[p] \in Transferring => x \in Transferring)
           \/ x \in Transferring
    PROVE  LockInv' /\ IrqInv'
<1>1. pc'[p] = x /\ \A q \in Processes \ {p} : pc'[q] = pc[q]
  BY DEF DDTypes, ProcessTypes
<1>2. LockInv'
  BY <1>1 DEF LockInv
<1>3. sem \in Processes \cup {NULL} /\ Transferring \subseteq Held
  BY DEF DDTypes, DeviceTypes, Transferring, Held
<1>4. IrqInv'
  BY <1>1, <1>3, Constants DEF IrqInv, LockInv
<1> QED
  BY <1>2, <1>4

(* A process takes the lock when it is free.                                 *)
LEMMA Locks ==
    ASSUME DDTypes, LockInv, IrqInv, NEW p \in Processes, sem = NULL, sem' = p,
           pc' = [pc EXCEPT ![p] = "request"], enabled' = enabled, irqs' = irqs
    PROVE  LockInv' /\ IrqInv'
<1>1. pc'[p] = "request" /\ \A q \in Processes \ {p} : pc'[q] = pc[q]
  BY DEF DDTypes, ProcessTypes
<1>2. \A q \in Processes : pc[q] \notin Held
  BY Constants DEF LockInv
<1> QED
  BY <1>1, <1>2 DEF LockInv, IrqInv, Held

(* A process leaves with its lock: it enables the interrupt, or it has not   *)
(* taken an entry.                                                           *)
LEMMA Leaves ==
    ASSUME DDTypes, LockInv, IrqInv, NEW p \in Processes, pc[p] \in Held, sem' = NULL,
           pc' = [pc EXCEPT ![p] = "user"], irqs' = irqs,
           enabled' \/ (enabled' = enabled /\ pc[p] \notin Transferring)
    PROVE  LockInv' /\ IrqInv'
<1>1. pc'[p] = "user" /\ \A q \in Processes \ {p} : pc'[q] = pc[q]
  BY DEF DDTypes, ProcessTypes
<1>2. sem = p
  BY DEF LockInv
<1>3. LockInv'
  BY <1>1, <1>2, Constants DEF LockInv, Held
<1>4. IrqInv'
  BY <1>2 DEF IrqInv
<1> QED
  BY <1>3, <1>4

(* Every step keeps the lock and the interrupt.                              *)
LEMMA NextKeepsLock ==
    ASSUME DDTypes, LockInv, IrqInv, [Next]_vars
    PROVE  LockInv' /\ IrqInv'
<1>1. CASE UNCHANGED vars \/ Tick \/ Trigger \/ Fetch \/ libera_dma_interrupt
  <2>1. pc' = pc /\ sem' = sem /\ enabled' = enabled /\ irqs' = irqs
    BY <1>1, InterruptIs DEF vars, Tick, Trigger, Fetch, device
  <2> QED
    BY <2>1 DEF LockInv, IrqInv
<1>2. CASE libera_dd_handler
  <2>1. irqs' > 0 /\ pc' = pc /\ sem' = sem
    BY <1>2, Constants DEF libera_dd_handler, Least, DDTypes, DeviceTypes
  <2> QED
    BY <2>1 DEF LockInv, IrqInv
<1>3. ASSUME NEW p \in world.processes, Process(p) PROVE LockInv' /\ IrqInv'
  <2>0. p \in Processes
    BY <1>3, WorldFacts DEF DDTypes, ProcessTypes
  <2>1. CASE Refused(p) \/ WaitInterrupted(p)
    <3>1. pc[p] \in {"request", "early", "irq"} /\ Leave(p) /\ irqs' = irqs
      BY <2>1 DEF Refused, WaitInterrupted
    <3>2. enabled' \/ enabled' = enabled
      <4>1. enabled' \in BOOLEAN /\ enabled \in BOOLEAN /\ (enabled => enabled')
        BY <2>0, <3>1, LeaveTypes DEF Leave, DDTypes, DeviceTypes
      <4> QED
        BY <4>1
    <3>3. pc[p] \in Held /\ pc[p] \notin Transferring
      BY <3>1 DEF Held, Transferring
    <3>4. sem' = NULL /\ pc' = [pc EXCEPT ![p] = "user"]
      BY <3>1 DEF Leave
    <3> QED
      BY <2>0, <3>1, <3>2, <3>3, <3>4, Leaves
  <2>2. CASE Accepted(p) \/ Awake(p) \/ libera_dd_write_CBfifo(p)
    <3>1. /\ pc[p] \in {"request", "early", "command"}
          /\ sem' = sem /\ enabled' = enabled /\ irqs' = irqs
          /\ \E x \in {"early", "command", "irq"} : pc' = [pc EXCEPT ![p] = x]
      BY <2>2 DEF Accepted, Awake, libera_dd_write_CBfifo, device
    <3> QED
      BY <2>0, <3>1, Walks DEF Held, Transferring
  <2>3. CASE getBlockedFromFIFO(p)
    BY <2>0, <2>3, Walks DEF getBlockedFromFIFO, Held, Transferring
  <2>4. CASE SyncWait(p) \/ Copy(p)
    <3>1. pc' = pc /\ sem' = sem /\ enabled' = enabled /\ irqs' = irqs
      BY <2>4 DEF SyncWait, Copy, device
    <3> QED
      BY <3>1 DEF LockInv, IrqInv
  <2>5. CASE \/ Begin(p) \/ SyncTimeout(p) \/ Synced(p) \/ DataThere(p) \/ Abort(p)
             \/ CopyFails(p) \/ Again(p) \/ End(p)
    <3>1. /\ pc[p] \in Transferring /\ sem' = sem /\ enabled' = enabled /\ irqs' = irqs
          /\ \E x \in Transferring : pc' = [pc EXCEPT ![p] = x]
      BY <2>5 DEF Begin, SyncTimeout, Synced, DataThere, Abort, Copied, CopyFails, Again, End,
                  At, Goes, device, Transferring
    <3> QED
      BY <2>0, <3>1, Walks DEF Held, Transferring
  <2> QED
    BY <1>3, <2>1, <2>2, <2>3, <2>4, <2>5 DEF Process
<1>4. ASSUME NEW r \in Readers, Reader(r) PROVE LockInv' /\ IrqInv'
  <2>0. r \in Processes
    BY DEF Processes
  <2>1. CASE NothingToRead(r) \/ Failed(r) \/ Done(r)
    <3>1. pc[r] \in {"request", "fail", "ok"} /\ Leave(r) /\ irqs' = irqs
      BY <2>1 DEF NothingToRead, Failed, Done, At
    <3> QED
      BY <2>0, <3>1, Leaves DEF Leave, Held
  <2>2. CASE Lock(r)
    BY <2>0, <2>2, Locks DEF Lock
  <2>3. CASE \/ LIBERA_IOC_SET_DEC(r)
             \/ \E request \in world.requests, at \in world.times : libera_dd_llseek(r, request, at)
    <3>1. pc' = pc /\ sem' = sem /\ enabled' = enabled /\ irqs' = irqs
      BY <2>3 DEF LIBERA_IOC_SET_DEC, libera_dd_llseek, device
    <3> QED
      BY <3>1 DEF LockInv, IrqInv
  <2>4. CASE libera_dd_open(r) \/ libera_dd_release(r) \/ libera_dd_read(r) \/ LockInterrupted(r)
    <3>1. /\ pc[r] \in {"closed", "user", "lock"}
          /\ sem' = sem /\ enabled' = enabled /\ irqs' = irqs
          /\ \E x \in {"closed", "user", "lock"} : pc' = [pc EXCEPT ![r] = x]
      BY <2>4 DEF libera_dd_open, libera_dd_release, libera_dd_read, LockInterrupted, device
    <3> QED
      BY <2>0, <3>1, Walks DEF Held, Transferring
  <2> QED
    BY <1>4, <2>1, <2>2, <2>3, <2>4 DEF Reader
<1>5. CASE libera_acq_pm \/ Busy
  <2>1. /\ Acquirer \in Processes /\ pc[Acquirer] \in {"user", "trylock"}
        /\ sem' = sem /\ enabled' = enabled /\ irqs' = irqs
        /\ \E x \in {"user", "trylock"} : pc' = [pc EXCEPT ![Acquirer] = x]
    BY <1>5 DEF libera_acq_pm, Busy, device, Processes
  <2> QED
    BY <2>1, Walks DEF Held, Transferring
<1>6. CASE TryLock
  BY <1>6, Locks DEF TryLock, Processes
<1>7. CASE Acquired
  <2>1. pc[Acquirer] \in {"fail", "ok"} /\ Acquirer \in Processes
    BY <1>7 DEF Acquired, At, Processes
  <2> QED
    BY <1>7, <2>1, Leaves DEF Acquired, Goes, Held
<1> QED
  BY <1>1, <1>2, <1>3, <1>4, <1>5, <1>6, <1>7 DEF Next

-----------------------------------------------------------------------------
(* The stream of atoms *)

(* The atom of a request with a number, and the distance of a slot of the    *)
(* DMA fifo from its read position.                                          *)
Nth(q, i) == Atom(q.lmt) + i * q.dec
Distance(q, i) == (i + FIFO - q.get) % FIFO

(* The block that is moved is for free slots, in one piece, and not more     *)
(* than is to come.                                                          *)
DmacInv ==
    dmac # NULL =>
        /\ dma.transfer /\ dmac = [slot |-> dma.put, n |-> dma.csize]
        /\ dma.csize <= dma.remaining /\ dma.csize <= FIFO - dma.put
        /\ dma.csize + lenDMA_FIFO(dma) <= FIFO - 1

(* The FPGA has fetched the atoms of the request from the one with the       *)
(* number done on, unless it was overrun.                                    *)
Fetched(q, done, c, o, v, n) ==
    /\ c.step = q.dec
    /\ ~v => /\ c.next = Nth(q, done + Len(o))
             /\ \A k \in 1 .. Len(o) : o[k] = Nth(q, done + k - 1)
             /\ c.left > 0 => n - 1 - c.next < CIRCBUF
FetchInv(q, done) == Fetched(q, done, cb, ob, over, now)

(* The DMA fifo has those before, behind the ones that are copied. *)
Holds(q, done, f, g) ==
    ~f.Overrun =>
        /\ Len(g) = done
        /\ \A i \in 0 .. FIFO - 1 :
              Distance(f, i) < lenDMA_FIFO(f) => f.buf[i] = Nth(q, done + Distance(f, i))
FifoInv(q) == Holds(q, copy.OBAtoms, dma, got)

(* What is copied, in the DMA fifo, and still to come, is the request. *)
CountInv(p) ==
    /\ copy.OBAtoms + lenDMA_FIFO(dma) + dma.remaining = req[p].n
    /\ dma.remaining = cb.left + Len(ob)
    /\ pc[p] = "sync" => ~dma.transfer /\ dma.size <= Len(ob)
    /\ pc[p] = "copy" => copy.fifo_atoms <= lenDMA_FIFO(dma)
    /\ dmac # NULL => dma.csize <= Len(ob)

(* A transfer that no overrun ends, ends with the whole request. *)
EndInv(p) ==
    ~dma.Overrun => /\ ob = << >> /\ cb.left = 0
                    /\ copy.OBAtoms = req[p].n /\ Len(got) = req[p].n

GotInv(q) == \A i \in 1 .. Len(got) : got[i] = Nth(q, i - 1)

Stream(p) ==
    /\ pc[p] \notin {"sync", "wait", "copy", "end", "fail", "ok"} => got = << >>
    /\ pc[p] \in {"irq", "init"} =>
          dmac = NULL /\ FetchInv(req[p], 0) /\ cb.left + Len(ob) = req[p].n
    /\ pc[p] \in {"sync", "wait", "copy"} =>
          /\ CountInv(p) /\ FifoInv(req[p])
          /\ FetchInv(req[p], copy.OBAtoms + lenDMA_FIFO(dma))
    /\ pc[p] \in {"end", "ok"} => EndInv(p)
    /\ GotInv(req[p])
StreamInv == \A p \in Processes : sem = p => Stream(p)

(* A position past the end of the DMA fifo, brought back.                    *)
LEMMA Wraps ==
    ASSUME NEW x \in 0 .. 2 * FIFO - 1
    PROVE  x % FIFO = IF x < FIFO THEN x ELSE x - FIFO
BY Constants

(* Positions in the DMA fifo. *)
LEMMA Distances ==
    ASSUME NEW q \in DMAs
    PROVE  /\ q.put \in 0 .. FIFO - 1 /\ q.get \in 0 .. FIFO - 1
           /\ \A i \in 0 .. FIFO - 1 :
                 /\ Distance(q, i) = IF i >= q.get THEN i - q.get ELSE i + FIFO - q.get
                 /\ Distance(q, i) \in 0 .. FIFO - 1
           /\ lenDMA_FIFO(q) = Distance(q, q.put)
<1>1. q.put \in 0 .. FIFO - 1 /\ q.get \in 0 .. FIFO - 1
  BY DEF DMAs
<1>2. ASSUME NEW i \in 0 .. FIFO - 1
      PROVE  Distance(q, i) = IF i >= q.get THEN i - q.get ELSE i + FIFO - q.get
  <2>1. i + FIFO - q.get \in 0 .. 2 * FIFO - 1
    BY <1>1, Constants
  <2>2. (i + FIFO - q.get) % FIFO
        = IF i + FIFO - q.get < FIFO THEN i + FIFO - q.get ELSE i + FIFO - q.get - FIFO
    <3> DEFINE x == i + FIFO - q.get
    <3>1. x \in 0 .. 2 * FIFO - 1
      BY <2>1
    <3>0. x = i + FIFO - q.get
      OBVIOUS
    <3> HIDE DEF x
    <3>2. x % FIFO = IF x < FIFO THEN x ELSE x - FIFO
      BY <3>1, Wraps
    <3> QED
      BY <1>1, <3>0, <3>2, Constants
  <2> QED
    BY <1>1, <2>2, Constants DEF Distance
<1> QED
  BY <1>1, <1>2, Constants DEF lenDMA_FIFO, Distance

(* The size of a block: it is to come, in one piece, in the OB-fifo, and     *)
(* there is room for it.                                                     *)
LEMMA CsizeFits ==
    ASSUME NEW q \in DMAs
    PROVE  LET r == libera_dma_get_DMAC_csize(q)
           IN  /\ r \in DMAs
               /\ r.put = q.put /\ r.get = q.get /\ r.remaining = q.remaining /\ r.size = q.size
               /\ r.Overrun = q.Overrun /\ r.transfer = q.transfer /\ r.buf = q.buf
               /\ lenDMA_FIFO(r) = lenDMA_FIFO(q) /\ lenDMA_FIFO(q) \in Nat /\ r.csize \in Int
               /\ r.csize <= q.remaining /\ r.csize <= FIFO - q.put /\ r.csize <= q.size
               /\ r.csize + lenDMA_FIFO(q) <= FIFO - 1
<1> DEFINE c == Least(FIFO - 1 - lenDMA_FIFO(q),
                      Least(Least(q.remaining, BLOCK), Least(FIFO - q.put, q.size)))
           r == libera_dma_get_DMAC_csize(q)
<1>1. r \in DMAs /\ lenDMA_FIFO(q) \in 0 .. FIFO - 1
  BY CsizeType
<1>2. r = [q EXCEPT !.csize = c]
  BY DEF libera_dma_get_DMAC_csize
<1>3. q.put \in 0 .. FIFO - 1 /\ q.remaining \in Int /\ q.size \in Nat /\ FIFO \in Nat /\ BLOCK \in Nat
  BY Constants DEF DMAs
<1>4. /\ c \in Int /\ c <= FIFO - 1 - lenDMA_FIFO(q) /\ c <= q.remaining
      /\ c <= FIFO - q.put /\ c <= q.size
  <2> DEFINE len == lenDMA_FIFO(q)
  <2>1. len \in Int
    BY <1>1
  <2> HIDE DEF len
  <2>2. LET e == Least(FIFO - 1 - len, Least(Least(q.remaining, BLOCK), Least(FIFO - q.put, q.size)))
        IN  e \in Int /\ e <= FIFO - 1 - len /\ e <= q.remaining /\ e <= FIFO - q.put /\ e <= q.size
    BY <1>3, <2>1 DEF Least
  <2> QED
    BY <2>2 DEF len
<1> HIDE DEF c, r
<1>5. /\ r.put = q.put /\ r.get = q.get /\ r.remaining = q.remaining /\ r.size = q.size
      /\ r.Overrun = q.Overrun /\ r.transfer = q.transfer /\ r.buf = q.buf /\ r.csize = c
  BY <1>2 DEF DMAs
<1>6. lenDMA_FIFO(r) = lenDMA_FIFO(q)
  BY <1>5 DEF lenDMA_FIFO
<1>7. r.csize + lenDMA_FIFO(q) <= FIFO - 1
  BY <1>1, <1>3, <1>4, <1>5
<1> QED
  BY <1>1, <1>3, <1>4, <1>5, <1>6, <1>7 DEF r

(* A block given to the DMA controller. *)
LEMMA CommandFits ==
    ASSUME NEW q \in DMAs, DmaTypes',
           LET r == libera_dma_get_DMAC_csize(q)
           IN  dma' = [r EXCEPT !.transfer = TRUE] /\ dmac' = libera_dma_command(r)
    PROVE  DmacInv'
<1> DEFINE r == libera_dma_get_DMAC_csize(q)
<1>1. /\ r \in DMAs /\ lenDMA_FIFO(r) = lenDMA_FIFO(q) /\ lenDMA_FIFO(q) \in Nat
      /\ r.csize <= r.remaining /\ r.csize <= FIFO - r.put /\ r.csize + lenDMA_FIFO(r) <= FIFO - 1
  BY CsizeFits
<1>2. dma' = [r EXCEPT !.transfer = TRUE] /\ dmac' = libera_dma_command(r)
  OBVIOUS
<1> HIDE DEF r
<1>3. /\ dma'.transfer /\ dma'.put = r.put /\ dma'.csize = r.csize
      /\ dma'.remaining = r.remaining /\ dma'.get = r.get
  BY <1>1, <1>2 DEF DMAs
<1>4. lenDMA_FIFO(dma)' = lenDMA_FIFO(r)
  BY <1>3 DEF lenDMA_FIFO
<1> QED
  BY <1>1, <1>2, <1>3, <1>4 DEF DmacInv, libera_dma_command

(* What a look at the status register changes. *)
LEMMA Refreshes ==
    ASSUME DDTypes, dma' = Refreshed(dma, ob, over)
    PROVE  /\ dma'.put = dma.put /\ dma'.get = dma.get /\ dma'.remaining = dma.remaining
           /\ dma'.csize = dma.csize /\ dma'.buf = dma.buf /\ dma'.transfer = dma.transfer
           /\ dma'.size = Len(ob) /\ (~dma'.Overrun => ~dma.Overrun)
           /\ lenDMA_FIFO(dma)' = lenDMA_FIFO(dma)
<1>1. dma \in DMAs
  BY DEF DDTypes, DmaTypes
<1>2. /\ dma'.put = dma.put /\ dma'.get = dma.get /\ dma'.remaining = dma.remaining
      /\ dma'.csize = dma.csize /\ dma'.buf = dma.buf /\ dma'.transfer = dma.transfer
      /\ dma'.size = Len(ob)
  BY <1>1 DEF Refreshed, DMAs
<1>3. dma'.Overrun = (dma.Overrun \/ over)
  BY <1>1 DEF Refreshed, DMAs
<1>4. lenDMA_FIFO(dma)' = lenDMA_FIFO(dma)
  BY <1>2 DEF lenDMA_FIFO
<1> QED
  BY <1>2, <1>3, <1>4

(* The read position goes on: every slot but the one it leaves comes nearer. *)
LEMMA Nearer ==
    ASSUME NEW g \in 0 .. FIFO - 1, NEW h, h = IF g = FIFO - 1 THEN 0 ELSE g + 1,
           NEW i \in 0 .. FIFO - 1
    PROVE  LET old == IF i >= g THEN i - g ELSE i + FIFO - g
               new == IF i >= h THEN i - h ELSE i + FIFO - h
           IN  IF i = g THEN old = 0 /\ new = FIFO - 1 ELSE old > 0 /\ new = old - 1
BY Constants

(* The read position of the DMA fifo goes on by one slot: one atom fewer is  *)
(* in use, and every other slot in use comes nearer by one.                  *)
LEMMA OneOn ==
    ASSUME NEW q \in DMAs, NEW s \in DMAs, s.put = q.put, s.get = (q.get + 1) % FIFO,
           0 < lenDMA_FIFO(q)
    PROVE  /\ lenDMA_FIFO(s) = lenDMA_FIFO(q) - 1 /\ Distance(q, q.get) = 0
           /\ \A i \in 0 .. FIFO - 1 :
                 Distance(s, i) < lenDMA_FIFO(s) =>
                     Distance(s, i) = Distance(q, i) - 1 /\ i # q.get
<1>1. /\ q.put \in 0 .. FIFO - 1 /\ q.get \in 0 .. FIFO - 1 /\ FIFO \in Nat /\ FIFO > 1
  BY Constants, Distances
<1>2. s.get = IF q.get = FIFO - 1 THEN 0 ELSE q.get + 1
  <2> DEFINE x == q.get + 1
  <2>0. x = q.get + 1 /\ x \in 0 .. 2 * FIFO - 1
    BY <1>1
  <2>1. s.get = x % FIFO
    OBVIOUS
  <2> HIDE DEF x
  <2>2. x % FIFO = IF x < FIFO THEN x ELSE x - FIFO
    BY <2>0, Wraps
  <2> QED
    BY <1>1, <2>0, <2>1, <2>2
<1>3. ASSUME NEW i \in 0 .. FIFO - 1
      PROVE  IF i = q.get THEN Distance(q, i) = 0 /\ Distance(s, i) = FIFO - 1
             ELSE /\ Distance(q, i) > 0 /\ Distance(s, i) = Distance(q, i) - 1
  <2>1. /\ Distance(q, i) = IF i >= q.get THEN i - q.get ELSE i + FIFO - q.get
        /\ Distance(s, i) = IF i >= s.get THEN i - s.get ELSE i + FIFO - s.get
    BY Distances
  <2> DEFINE g == q.get
             h == s.get
  <2>2. g \in 0 .. FIFO - 1 /\ h = IF g = FIFO - 1 THEN 0 ELSE g + 1
    BY <1>1, <1>2
  <2>3. /\ Distance(q, i) = IF i >= g THEN i - g ELSE i + FIFO - g
        /\ Distance(s, i) = IF i >= h THEN i - h ELSE i + FIFO - h
    BY <2>1
  <2>4. g = q.get
    OBVIOUS
  <2> HIDE DEF g, h
  <2>5. LET old == IF i >= g THEN i - g ELSE i + FIFO - g
            new == IF i >= h THEN i - h ELSE i + FIFO - h
        IN  IF i = g THEN old = 0 /\ new = FIFO - 1 ELSE old > 0 /\ new = old - 1
    BY <2>2, Nearer
  <2> QED
    BY <2>3, <2>4, <2>5
<1>4. lenDMA_FIFO(q) = Distance(q, q.put) /\ lenDMA_FIFO(s) = Distance(s, q.put)
  BY Distances
<1>5. lenDMA_FIFO(s) = lenDMA_FIFO(q) - 1 /\ Distance(q, q.get) = 0
  BY <1>1, <1>3, <1>4
<1>6. lenDMA_FIFO(q) \in 0 .. FIFO - 1
  BY CsizeType
<1>7. ASSUME NEW i \in 0 .. FIFO - 1, Distance(s, i) < lenDMA_FIFO(s)
      PROVE  Distance(s, i) = Distance(q, i) - 1 /\ i # q.get
  <2>1. Distance(s, i) # FIFO - 1
    BY <1>1, <1>5, <1>6, <1>7
  <2> QED
    BY <1>3, <2>1
<1> QED
  BY <1>5, <1>7

(* An atom copied: its slot was the next one, and it is free now. *)
LEMMA Copies ==
    ASSUME DDTypes, NEW p \in Processes, Copy(p), 0 < lenDMA_FIFO(dma)
    PROVE  /\ dma'.put = dma.put /\ dma'.remaining = dma.remaining /\ dma'.csize = dma.csize
           /\ dma'.transfer = dma.transfer /\ dma'.size = dma.size /\ dma'.Overrun = dma.Overrun
           /\ lenDMA_FIFO(dma)' = lenDMA_FIFO(dma) - 1
           /\ dma.get \in 0 .. FIFO - 1 /\ Distance(dma, dma.get) = 0
           /\ \A i \in 0 .. FIFO - 1 :
                 Distance(dma, i)' < lenDMA_FIFO(dma)' =>
                     Distance(dma, i)' = Distance(dma, i) - 1 /\ dma'.buf[i] = dma.buf[i]
<1>1. dma \in DMAs /\ dma' \in DMAs
  <2>2. (dma.get + 1) % FIFO \in 0 .. FIFO - 1 /\ dma \in DMAs
    BY Constants DEF DDTypes, DmaTypes, DMAs
  <2>3. [dma.buf EXCEPT ![dma.get] = Junk] \in [0 .. FIFO - 1 -> Int]
    BY <2>2 DEF DMAs, Junk
  <2>4. dma' = [dma EXCEPT !.get = (dma.get + 1) % FIFO,
                           !.buf = [dma.buf EXCEPT ![dma.get] = Junk]]
    BY <2>2 DEF Copy, DMAs
  <2> QED
    BY <2>2, <2>3, <2>4 DEF DMAs
<1>2. /\ dma'.put = dma.put /\ dma'.remaining = dma.remaining /\ dma'.csize = dma.csize
      /\ dma'.transfer = dma.transfer /\ dma'.size = dma.size /\ dma'.Overrun = dma.Overrun
      /\ dma'.get = (dma.get + 1) % FIFO
      /\ dma'.buf = [dma.buf EXCEPT ![dma.get] = Junk]
  BY <1>1 DEF Copy, DMAs
<1>3. dma.get \in 0 .. FIFO - 1 /\ dma.buf \in [0 .. FIFO - 1 -> Int]
  BY <1>1 DEF DMAs
<1>4. /\ lenDMA_FIFO(dma') = lenDMA_FIFO(dma) - 1 /\ Distance(dma, dma.get) = 0
      /\ \A i \in 0 .. FIFO - 1 :
            Distance(dma', i) < lenDMA_FIFO(dma') =>
                Distance(dma', i) = Distance(dma, i) - 1 /\ i # dma.get
  BY <1>1, <1>2, OneOn
<1>5. lenDMA_FIFO(dma)' = lenDMA_FIFO(dma') /\ \A i : Distance(dma, i)' = Distance(dma', i)
  BY DEF lenDMA_FIFO, Distance
<1>6. \A i \in 0 .. FIFO - 1 : i # dma.get => dma'.buf[i] = dma.buf[i]
  BY <1>2, <1>3
<1> QED
  BY <1>2, <1>3, <1>4, <1>5, <1>6

(* Every step keeps a block that is moved inside the free slots.             *)
LEMMA NextKeepsDmac ==
    ASSUME DDTypes, DDTypes', LockInv, DmacInv, StreamInv, [Next]_vars
    PROVE  DmacInv'
<1>0. DmaTypes' /\ dma \in DMAs
  BY DEF DDTypes, DmaTypes
<1>1. CASE libera_dma_interrupt
  <2> DEFINE next == libera_dma_get_DMAC_csize(Arrived)
  <2>1. /\ dmac # NULL /\ dmac.n > 0 /\ dma' = [next EXCEPT !.transfer = next.csize > 0]
        /\ dmac' = IF next.csize > 0 THEN libera_dma_command(next) ELSE NULL
    BY <1>1, InterruptIs
  <2>2. Arrived \in DMAs
    BY <2>1, ArrivedType DEF DDTypes
  <2>3. CASE next.csize > 0
    <3>1. (next.csize > 0) = TRUE
      BY <2>3
    <3>2. dma' = [next EXCEPT !.transfer = TRUE] /\ dmac' = libera_dma_command(next)
      BY <2>1, <3>1
    <3> QED
      BY <1>0, <2>2, <3>2, CommandFits
  <2>4. CASE ~(next.csize > 0)
    BY <2>1, <2>4 DEF DmacInv
  <2> QED
    BY <2>3, <2>4
<1>2. ASSUME NEW p \in Processes, Process(p) PROVE DmacInv'
  <2>1. CASE Begin(p)
    <3>1. dmac = NULL /\ dmac' = dmac
      BY <2>1 DEF Begin, At, StreamInv, Stream
    <3> QED
      BY <3>1 DEF DmacInv
  <2>2. CASE SyncWait(p)
    <3>1. ~dma.transfer /\ dmac' = dmac
      BY <2>2 DEF SyncWait, At, StreamInv, Stream, CountInv
    <3> QED
      BY <3>1 DEF DmacInv
  <2>3. CASE Synced(p)
    <3> DEFINE q == libera_dma_get_DMAC_csize(dma)
    <3>1. \/ dmac' = dmac
          \/ dma' = [q EXCEPT !.transfer = TRUE] /\ dmac' = libera_dma_command(q)
      BY <2>3 DEF Synced
    <3>2. dmac = NULL
      BY <2>3 DEF Synced, At, StreamInv, Stream, CountInv, DmacInv
    <3>3. CASE dmac' = dmac
      BY <3>2, <3>3 DEF DmacInv
    <3>4. CASE dma' = [q EXCEPT !.transfer = TRUE] /\ dmac' = libera_dma_command(q)
      BY <1>0, <3>4, CommandFits
    <3> QED
      BY <3>1, <3>3, <3>4
  <2>4. CASE Copy(p)
    <3>1. CountInv(p) /\ copy.fifo_atoms > 0 /\ pc[p] = "copy" /\ dmac' = dmac
      BY <2>4 DEF Copy, At, StreamInv, Stream
    <3>2. lenDMA_FIFO(dma) \in Nat /\ copy.fifo_atoms \in Nat
      BY <1>0, CsizeType DEF DDTypes, DeviceTypes
    <3>3. 0 < lenDMA_FIFO(dma)
      BY <3>1, <3>2 DEF CountInv
    <3>4. /\ dma'.put = dma.put /\ dma'.remaining = dma.remaining /\ dma'.csize = dma.csize
          /\ dma'.transfer = dma.transfer /\ lenDMA_FIFO(dma)' = lenDMA_FIFO(dma) - 1
      BY <2>4, <3>3, Copies
    <3>5. dma.csize \in Int /\ FIFO \in Nat
      BY <1>0, Constants DEF DMAs
    <3> QED
      BY <3>1, <3>2, <3>4, <3>5 DEF DmacInv
  <2>5. CASE Again(p)
    <3>1. CASE dma' = dma
      BY <2>5, <3>1 DEF DmacInv, Again, lenDMA_FIFO
    <3>2. CASE ~dma.transfer
      BY <2>5, <3>2 DEF DmacInv, Again
    <3> QED
      BY <2>5, <3>1, <3>2 DEF Again
  <2>6. CASE ~(Begin(p) \/ SyncWait(p) \/ Synced(p) \/ Copy(p) \/ Again(p))
    <3>1. dmac' = dmac /\ dma' = dma
      BY <1>2, <2>6 DEF Process, Refused, Accepted, Awake, WaitInterrupted, libera_dd_write_CBfifo,
                        getBlockedFromFIFO, SyncTimeout, DataThere, Abort, CopyFails, End
    <3> QED
      BY <3>1 DEF DmacInv, lenDMA_FIFO
  <2> QED
    BY <2>1, <2>2, <2>3, <2>4, <2>5, <2>6
<1>3. CASE dmac' = dmac /\ dma' = dma
  BY <1>3 DEF DmacInv, lenDMA_FIFO
<1>4. ASSUME NEW r \in Readers, Reader(r) PROVE dmac' = dmac /\ dma' = dma
  BY <1>4 DEF Reader, libera_dd_open, libera_dd_release, LIBERA_IOC_SET_DEC, libera_dd_llseek,
              libera_dd_read, Lock, LockInterrupted, NothingToRead, Failed, Done
<1>5. ASSUME \/ Tick \/ Trigger \/ Fetch \/ libera_dd_handler
             \/ libera_acq_pm \/ TryLock \/ Busy \/ Acquired \/ UNCHANGED vars
      PROVE  dmac' = dmac /\ dma' = dma
  BY <1>5 DEF Tick, Trigger, Fetch, libera_dd_handler, libera_acq_pm, TryLock, Busy, Acquired, vars
<1>6. world.processes \subseteq Processes
  BY WorldFacts DEF DDTypes, ProcessTypes
<1> QED
  BY <1>1, <1>2, <1>3, <1>4, <1>5, <1>6 DEF Next

-----------------------------------------------------------------------------
(* The wait for the time of a request *)

(* An atom that is in the circular buffer. *)
InTime(a) == a <= now - 1 /\ now - 1 - a < CIRCBUF

(* Who waits was too early an atom ago.  Who gives the command asks for an   *)
(* atom that is in the buffer.                                               *)
Wait(p) ==
    /\ pc[p] = "early" => Since(p, req[p].lmt, Time(Before(now))) < MARGIN * d
    /\ pc[p] = "command" => InTime(Atom(req[p].lmt))
WaitInv == \A p \in Processes : Wait(p)

(* The quotient of a sum is that of its parts, or one more.                  *)
LEMMA QuotientSum ==
    ASSUME NEW a \in Nat, NEW e \in Nat, NEW b \in Nat, b > 0
    PROVE  /\ (a + e) \div b \in Nat /\ a \div b \in Nat /\ e \div b \in Nat
           /\ a \div b <= (a + e) \div b /\ (a + e) \div b <= a \div b + e \div b + 1
<1> DEFINE x == a \div b
           y == e \div b
           z == (a + e) \div b
<1>0. a + e \in Nat
  OBVIOUS
<1>1. x \in Nat /\ b * x <= a /\ a < b * x + b
  BY Quotient
<1>2. y \in Nat /\ b * y <= e /\ e < b * y + b
  BY Quotient
<1>3. z \in Nat /\ b * z <= a + e /\ \A m \in Nat : m * b <= a + e => m <= z
  BY <1>0, Quotient
<1> HIDE DEF x, y, z
<1>4. x <= z
  <2>1. x * b = b * x
    BY <1>1
  <2> QED
    BY <1>1, <1>3, <2>1
<1>5. ~(x + y + 2 <= z)
  <2> SUFFICES ASSUME x + y + 2 <= z PROVE FALSE
    OBVIOUS
  <2>0. x + y + 2 \in Nat
    BY <1>1, <1>2
  <2>1. (x + y + 2) * b <= z * b
    BY <1>3, <2>0, Multiples
  <2>2. (x + y + 2) * b = b * x + b * y + b + b /\ z * b = b * z
    BY <1>1, <1>2, <1>3
  <2>3. b * x \in Nat /\ b * y \in Nat /\ b * z \in Nat
    BY <1>1, <1>2, <1>3
  <2> QED
    BY <1>1, <1>2, <1>3, <2>1, <2>2, <2>3
<1>6. z <= x + y + 1
  BY <1>1, <1>2, <1>3, <1>5
<1> QED
  BY <1>1, <1>2, <1>3, <1>4, <1>6 DEF x, y, z

(* An atom in both clocks. *)
LEMMA AtomLater ==
    ASSUME NEW n \in Nat
    PROVE  /\ Time(n + 1).lmt = Time(n).lmt + d
           /\ Time(n).lst <= Time(n + 1).lst
           /\ Time(n + 1).lst <= Time(n).lst + (d * LSC) \div FLMC + 1
           /\ (d * LSC) \div FLMC \in Nat /\ d <= (d * LSC) \div FLMC
<1> DEFINE a == n * d * LSC
           e == d * LSC
<1>1. n * d \in Nat /\ a \in Nat /\ e \in Nat /\ (n + 1) * d = n * d + d
  BY Constants
<1>2. (n + 1) * d * LSC = a + e
  BY <1>1, Constants
<1>3. /\ Time(n).lmt = n * d /\ Time(n).lst = a \div FLMC
      /\ Time(n + 1).lmt = n * d + d /\ Time(n + 1).lst = (a + e) \div FLMC
  BY <1>1, <1>2, Times
<1> HIDE DEF a, e
<1>4. a \div FLMC <= (a + e) \div FLMC /\ (a + e) \div FLMC <= a \div FLMC + e \div FLMC + 1
      /\ e \div FLMC \in Nat
  BY <1>1, QuotientSum, Constants
<1>5. d <= e \div FLMC
  <2>1. FLMC * d <= LSC * d
    BY Multiples, Constants
  <2>2. FLMC * d = d * FLMC /\ LSC * d = d * LSC
    BY Constants
  <2>3. d * FLMC <= e
    BY <2>1, <2>2 DEF e
  <2> QED
    BY <1>1, <2>3, Quotient, Constants
<1> QED
  BY <1>1, <1>3, <1>4, <1>5 DEF e

(* A time read is that of now or of the atom before, by either clock. *)
LEMMA CTimesSince ==
    ASSUME DDTypes, NEW p \in Processes, NEW lmt \in Int, NEW c \in CTimes
    PROVE  \E m \in Nat :
              /\ c = Time(m) /\ m \in {now, Before(now)} /\ m <= now /\ now <= m + 1
              /\ Since(p, lmt, c) \in Int /\ Since(p, lmt, Time(Before(now))) \in Int
              /\ Since(p, lmt, Time(Before(now))) <= Since(p, lmt, c)
              /\ Since(p, lmt, c) <= Since(p, lmt, Time(Before(now))) + (d * LSC) \div FLMC + 1
<1>1. now \in Nat
  BY DEF DDTypes, FpgaTypes
<1> DEFINE b == Before(now)
<1>2. b \in Nat /\ b <= now /\ now <= b + 1 /\ (now = b \/ now = b + 1)
  BY <1>1 DEF Before
<1>3. PICK m \in {now, b} : c = Time(m)
  BY DEF CTimes
<1>4. m \in Nat /\ m <= now /\ now <= m + 1 /\ (m = b \/ m = b + 1)
  BY <1>1, <1>2, <1>3
<1> HIDE DEF b
<1>5. p \in Readers => Qts[p].lst \in Nat
  BY DEF DDTypes, ProcessTypes, Positions
<1>6. /\ Time(b).lmt \in Nat /\ Time(b).lst \in Nat /\ c.lmt \in Nat /\ c.lst \in Nat
      /\ d \in Nat /\ (d * LSC) \div FLMC \in Nat
  BY <1>2, <1>3, <1>4, Times, AtomLater, Constants
<1>7. /\ Time(b).lmt <= c.lmt /\ c.lmt <= Time(b).lmt + (d * LSC) \div FLMC + 1
      /\ Time(b).lst <= c.lst /\ c.lst <= Time(b).lst + (d * LSC) \div FLMC + 1
  <2>1. CASE m = b
    BY <1>3, <1>6, <2>1
  <2>2. CASE m = b + 1
    <3>1. /\ c.lmt = Time(b).lmt + d /\ Time(b).lst <= c.lst
          /\ c.lst <= Time(b).lst + (d * LSC) \div FLMC + 1 /\ d <= (d * LSC) \div FLMC
      BY <1>2, <1>3, <2>2, AtomLater
    <3> QED
      BY <1>6, <3>1
  <2> QED
    BY <1>4, <2>1, <2>2
<1>8. /\ Since(p, lmt, c) \in Int /\ Since(p, lmt, Time(b)) \in Int
      /\ Since(p, lmt, Time(b)) <= Since(p, lmt, c)
      /\ Since(p, lmt, c) <= Since(p, lmt, Time(b)) + (d * LSC) \div FLMC + 1
  <2> DEFINE e == (d * LSC) \div FLMC
             lst == Qts[p].lst
  <2>1. e \in Nat /\ (p \in Readers => lst \in Nat)
    BY <1>5, <1>6
  <2> HIDE DEF e, lst
  <2>2. CASE p \in Readers /\ Qts[p].request = "ST"
    <3>1. Since(p, lmt, c) = c.lst - lst /\ Since(p, lmt, Time(b)) = Time(b).lst - lst
      BY <2>2 DEF Since, lst
    <3> QED
      BY <1>6, <1>7, <2>1, <2>2, <3>1 DEF e
  <2>3. CASE ~(p \in Readers /\ Qts[p].request = "ST")
    <3>1. Since(p, lmt, c) = c.lmt - lmt /\ Since(p, lmt, Time(b)) = Time(b).lmt - lmt
      BY <2>3 DEF Since
    <3> QED
      BY <1>6, <1>7, <2>1, <3>1 DEF e
  <2> QED
    BY <2>2, <2>3
<1> QED
  BY <1>3, <1>4, <1>8 DEF b

(* Half an atom before the last one, and not older than the buffer. *)
LEMMA AtomInTime ==
    ASSUME now \in Nat, NEW m \in Nat, m <= now, now <= m + 1, NEW lmt \in Nat,
           lmt + d \div 2 < m * d, m * d - lmt <= CIRCBUF * d - SAFE
    PROVE  InTime(Atom(lmt))
<1> DEFINE h == d \div 2
           a == (lmt + h) \div d
<1>1. h \in Nat /\ lmt + h \in Nat /\ m * d \in Nat /\ CIRCBUF * d \in Nat
  BY Constants
<1>2. /\ a \in Nat /\ d * a <= lmt + h
      /\ \A j \in Nat : j * d <= lmt + h => j <= a
  BY <1>1, Quotient, Constants
<1>3. Atom(lmt) = a
  BY DEF Atom
<1>4. lmt + h < m * d
  OBVIOUS
<1> HIDE DEF a, h
<1>5. a < m
  <2>1. CASE m <= a
    <3>1. m * d <= a * d /\ a * d = d * a /\ d * a \in Nat
      BY <1>2, <2>1, Multiples, Constants
    <3> QED
      BY <1>1, <1>2, <1>4, <3>1
  <2> QED
    BY <1>2, <2>1
<1>6. m - CIRCBUF + 1 <= a
  <2>1. CASE m - CIRCBUF + 1 <= 0
    BY <1>2, <2>1, Constants
  <2>2. CASE m - CIRCBUF + 1 > 0
    <3> DEFINE j == m - CIRCBUF + 1
    <3>1. j \in Nat
      BY <2>2, Constants
    <3>2. j * d = m * d - CIRCBUF * d + d
      BY Constants
    <3>3. j * d \in Int /\ j * d <= lmt + h
      BY <1>1, <3>2, Constants
    <3> HIDE DEF j
    <3>4. j <= a
      BY <1>2, <3>1, <3>3
    <3> QED
      BY <3>4 DEF j
  <2> QED
    BY <2>1, <2>2, Constants
<1> QED
  BY <1>2, <1>3, <1>5, <1>6, Constants DEF InTime

(* Who is neither too late nor too early asks for an atom in the buffer. *)
LEMMA InTimeAt ==
    ASSUME DDTypes, NEW p \in Processes, NEW m \in Nat, m <= now, now <= m + 1, NEW lmt \in Nat,
           p \in Readers /\ Qts[p].request = "ST" => lmt = lst2lmt(Qts[p].lst, Time(m)),
           MARGIN * d <= Since(p, lmt, Time(m)), ~TooLate(Since(p, lmt, Time(m)))
    PROVE  InTime(Atom(lmt))
<1> DEFINE h == d \div 2
           delta == Since(p, lmt, Time(m))
<1>1. h \in Nat /\ h < d /\ m * d \in Nat /\ CIRCBUF * d \in Nat /\ MARGIN * d \in Nat /\ d <= MARGIN * d
  <2>1. 1 * d <= MARGIN * d
    BY Multiples, Constants
  <2> QED
    BY <2>1, Constants
<1>2. now \in Nat
  BY DEF DDTypes, FpgaTypes
<1>3. delta <= CIRCBUF * d - SAFE \/ delta \notin Int
  BY <1>1, Constants DEF TooLate
<1>4. CASE p \in Readers /\ Qts[p].request = "ST"
  <2> DEFINE lst == Qts[p].lst
             l == Time(m).lst
             k == ((l - lst) * FLMC) \div LSC
  <2>1. lst \in Nat /\ l \in Nat
    BY <1>4, Times DEF DDTypes, ProcessTypes, Positions
  <2>2. delta = l - lst
    BY <1>4 DEF Since
  <2>3. MARGIN * d <= l - lst /\ l - lst <= CIRCBUF * d - SAFE /\ lst <= l
    BY <1>1, <1>3, <2>1, <2>2
  <2>4. lmt = m * d - k /\ k \in 0 .. m * d /\ k <= l - lst
    BY <1>4, <2>1, <2>3, Converted
  <2>5. h < k
    <3> DEFINE x == l - lst
               y == MARGIN * d
    <3>1. x \in Nat /\ y \in Nat /\ y <= x
      BY <1>1, <2>1, <2>3
    <3>2. h < (y * FLMC) \div LSC
      BY DDAssumption
    <3> HIDE DEF x, y
    <3>3. y * FLMC <= x * FLMC /\ y * FLMC \in Nat /\ x * FLMC \in Nat
      BY <3>1, Multiples, Constants
    <3> DEFINE z == (y * FLMC) \div LSC
               u == (x * FLMC) \div LSC
    <3>4. z \in Nat /\ LSC * z <= y * FLMC
      BY <3>3, Quotient, Constants
    <3>5. u \in Nat /\ \A n \in Nat : n * LSC <= x * FLMC => n <= u
      BY <3>3, Quotient, Constants
    <3>6. h < z
      BY <3>2
    <3> HIDE DEF z, u
    <3>7. z * LSC = LSC * z /\ LSC * z \in Nat
      BY <3>4, Constants
    <3>8. z <= u
      BY <3>3, <3>4, <3>5, <3>7
    <3>9. h < u
      BY <1>1, <3>4, <3>5, <3>6, <3>8
    <3> QED
      BY <3>9 DEF u, x
  <2> HIDE DEF k, l, lst
  <2>6. lmt + h < m * d /\ m * d - lmt <= CIRCBUF * d - SAFE
    BY <1>1, <2>1, <2>3, <2>4, <2>5, Constants
  <2> QED
    BY <1>2, <2>6, AtomInTime
<1>5. CASE ~(p \in Readers /\ Qts[p].request = "ST")
  <2>1. delta = m * d - lmt
    BY <1>5, Times DEF Since
  <2>2. lmt + h < m * d /\ m * d - lmt <= CIRCBUF * d - SAFE
    <3>1. MARGIN * d <= delta
      OBVIOUS
    <3> HIDE DEF delta, h
    <3>2. delta \in Int
      BY <1>1, <2>1
    <3>3. delta <= CIRCBUF * d - SAFE
      BY <1>3, <3>2
    <3> QED
      BY <1>1, <2>1, <3>1, <3>3, Constants
  <2> QED
    BY <1>2, <2>2, AtomInTime
<1> QED
  BY <1>4, <1>5

(* A step that leaves a process and its request alone. *)
LEMMA WaitFrame ==
    ASSUME WaitInv, NEW q \in Processes, now' = now, pc'[q] = pc[q], req'[q] = req[q],
           q \in Readers => Qts'[q] = Qts[q]
    PROVE  Wait(q)'
<1>1. Since(q, req[q].lmt, Time(Before(now)))' = Since(q, req[q].lmt, Time(Before(now)))
  BY DEF Since, Time, Before
<1>2. Wait(q)
  BY DEF WaitInv
<1> QED
  BY <1>1, <1>2 DEF Wait, InTime, Atom

(* A step of a process that does not wait after it. *)
LEMMA WaitStays ==
    ASSUME DDTypes, WaitInv, NEW p \in Processes, now' = now,
           \A q \in Processes \ {p} :
               /\ pc'[q] = pc[q] /\ req'[q] = req[q]
               /\ q \in Readers => Qts'[q] = Qts[q],
           pc'[p] \notin {"early", "command"}
    PROVE  WaitInv'
<1> SUFFICES ASSUME NEW q \in Processes PROVE Wait(q)'
  BY DEF WaitInv
<1>1. CASE q = p
  BY <1>1 DEF Wait
<1>2. CASE q # p
  BY <1>2, WaitFrame
<1> QED
  BY <1>1, <1>2

(* An atom later, who waits is still too early by the time before: who is    *)
(* not is awake before the atom.                                             *)
LEMMA TickKeepsWait ==
    ASSUME DDTypes, WaitInv, Tick
    PROVE  WaitInv'
<1> SUFFICES ASSUME NEW q \in Processes PROVE Wait(q)'
  BY DEF WaitInv
<1>0. now \in Nat /\ req[q].lmt \in Nat /\ MARGIN * d \in Nat
  BY Constants DEF DDTypes, FpgaTypes, ProcessTypes, Requests
<1>1. now' = now + 1 /\ pc' = pc /\ req' = req /\ Qts' = Qts /\ Prompt(q)
  BY DEF Tick, files
<1>2. Before(now)' = now
  BY <1>0, <1>1 DEF Before
<1>3. Since(q, req[q].lmt, Time(Before(now)))' = Since(q, req[q].lmt, Time(now))
  BY <1>1, <1>2 DEF Since, Time
<1>4. Since(q, req[q].lmt, Time(now)) \in Int
  <2>1. Time(now) \in CTimes
    BY DEF CTimes
  <2>2. \A lmt \in Int, c \in CTimes : Since(q, lmt, c) \in Int
    BY CTimesSince
  <2> QED
    BY <1>0, <2>1, <2>2
<1>5. pc[q] = "early" => Since(q, req[q].lmt, Time(now)) < MARGIN * d
  BY <1>0, <1>1, <1>4 DEF Prompt, Ahead
<1> QED
  BY <1>1, <1>3, <1>5 DEF Wait, Prompt

(* A request accepted: it is too early by what was read of the time, and it  *)
(* waits, or its atom is in the buffer.                                      *)
LEMMA AcceptedKeepsWait ==
    ASSUME DDTypes, WaitInv, NEW p \in Processes, p \in world.processes, Accepted(p)
    PROVE  WaitInv'
<1>1. PICK c \in CTimes :
        LET lmt == Start(p, c)
            delta == Since(p, lmt, c)
        IN  /\ ~TooLate(delta)
            /\ req' = [req EXCEPT ![p] = [@ EXCEPT !.lmt = lmt,
                                           !.dec = IF p = Acquirer THEN PMDEC ELSE dec[p]]]
            /\ Qts' = IF p # Acquirer /\ Qts[p].request = "IMPLICIT"
                      THEN [Qts EXCEPT ![p] = Located(@, lmt)] ELSE Qts
            /\ pc' = [pc EXCEPT ![p] = IF Ahead(delta) <= 0 THEN "command" ELSE "early"]
  BY DEF Accepted
<1> DEFINE lmt == Start(p, c)
           delta == Since(p, lmt, c)
<1>2. lmt \in Nat /\ now \in Nat /\ MARGIN * d \in Nat
  <2>1. c.lmt \in Nat /\ c.lst \in Nat /\ now \in Nat
    BY CTimesAre DEF DDTypes, FpgaTypes
  <2>2. lmt \in Nat
    BY <1>1, AcceptedNatural DEF DDTypes
  <2> QED
    BY <1>1, <2>1, <2>2, Constants
<1>3. PICK m \in Nat :
        /\ c = Time(m) /\ m <= now /\ now <= m + 1
        /\ delta \in Int /\ Since(p, lmt, Time(Before(now))) \in Int
        /\ Since(p, lmt, Time(Before(now))) <= delta
  BY <1>2, CTimesSince
<1>4. /\ req'[p].lmt = lmt /\ now' = now
      /\ pc'[p] = IF Ahead(delta) <= 0 THEN "command" ELSE "early"
      /\ \A q \in Processes \ {p} : pc'[q] = pc[q] /\ req'[q] = req[q] /\ (q \in Readers => Qts'[q] = Qts[q])
  <2>1. req \in [Processes -> Requests] /\ pc \in [Processes -> Places] /\ Qts \in [Readers -> Positions]
    BY DEF DDTypes, ProcessTypes
  <2>2. [req[p] EXCEPT !.lmt = lmt, !.dec = IF p = Acquirer THEN PMDEC ELSE dec[p]].lmt = lmt
    BY <2>1 DEF Requests
  <2> HIDE DEF lmt, delta
  <2>3. /\ req' = [req EXCEPT ![p] = [req[p] EXCEPT !.lmt = lmt, !.dec = IF p = Acquirer THEN PMDEC ELSE dec[p]]]
        /\ Qts' = IF p # Acquirer /\ Qts[p].request = "IMPLICIT"
                  THEN [Qts EXCEPT ![p] = Located(@, lmt)] ELSE Qts
        /\ pc' = [pc EXCEPT ![p] = IF Ahead(delta) <= 0 THEN "command" ELSE "early"]
    BY <1>1 DEF lmt, delta
  <2>4. now' = now
    BY DEF Accepted, fpga
  <2>5. req'[p].lmt = lmt /\ \A q \in Processes \ {p} : req'[q] = req[q]
    BY <2>1, <2>2, <2>3
  <2>6. /\ pc'[p] = IF Ahead(delta) <= 0 THEN "command" ELSE "early"
        /\ \A q \in Processes \ {p} : pc'[q] = pc[q]
    BY <2>1, <2>3
  <2>7. \A q \in Processes \ {p} : q \in Readers => Qts'[q] = Qts[q]
    BY <2>1, <2>3
  <2> QED
    BY <2>4, <2>5, <2>6, <2>7
<1>5. p \in Readers => Qts'[p].request = Qts[p].request /\ Qts'[p].lst = Qts[p].lst
  <2> SUFFICES ASSUME p \in Readers PROVE Qts'[p].request = Qts[p].request /\ Qts'[p].lst = Qts[p].lst
    OBVIOUS
  <2>1. Qts[p] \in Positions /\ Qts \in [Readers -> Positions]
    BY DEF DDTypes, ProcessTypes
  <2>2. Located(Qts[p], lmt).request = Qts[p].request /\ Located(Qts[p], lmt).lst = Qts[p].lst
    <3> HIDE DEF lmt
    <3> QED
      BY <2>1 DEF Located, Positions
  <2> QED
    BY <1>1, <2>1, <2>2
<1>6. Wait(p)'
  <2>1. CASE Ahead(delta) <= 0
    <3>1. MARGIN * d <= delta
      BY <1>2, <1>3, <2>1 DEF Ahead
    <3>2. p \in Readers /\ Qts[p].request = "ST" => lmt = lst2lmt(Qts[p].lst, Time(m))
      BY <1>3, Constants DEF Start
    <3>3. InTime(Atom(lmt))
      BY <1>1, <1>2, <1>3, <3>1, <3>2, InTimeAt
    <3> HIDE DEF lmt, delta
    <3> QED
      BY <1>4, <2>1, <3>3 DEF Wait, InTime, Atom
  <2>2. CASE ~(Ahead(delta) <= 0)
    <3>1. delta < MARGIN * d
      BY <1>2, <1>3, <2>2 DEF Ahead
    <3>2. Since(p, req[p].lmt, Time(Before(now)))' = Since(p, lmt, Time(Before(now)))
      BY <1>4, <1>5 DEF Since, Time, Before
    <3>3. Since(p, lmt, Time(Before(now))) < MARGIN * d
      BY <1>2, <1>3, <3>1
    <3> QED
      BY <1>4, <2>2, <3>2, <3>3 DEF Wait
  <2> QED
    BY <2>1, <2>2
<1>7. ASSUME NEW q \in Processes, q # p PROVE Wait(q)'
  BY <1>4, <1>7, WaitFrame
<1> QED
  BY <1>6, <1>7 DEF WaitInv

(* Who wakes up asks for an atom in the buffer: the wait was over by no      *)
(* more than an atom, and the buffer has room for that.                      *)
LEMMA AwakeKeepsWait ==
    ASSUME DDTypes, WaitInv, NEW p \in Processes, Awake(p)
    PROVE  WaitInv'
<1>1. PICK c \in CTimes :
        /\ Ahead(Since(p, req[p].lmt, c)) <= 0
        /\ req' = IF p \in Readers /\ Qts[p].request = "ST"
                  THEN [req EXCEPT ![p].lmt = Start(p, c)] ELSE req
  BY DEF Awake
<1> DEFINE delta == Since(p, req[p].lmt, c)
           lmt == IF p \in Readers /\ Qts[p].request = "ST" THEN Start(p, c) ELSE req[p].lmt
<1>2. /\ pc[p] = "early" /\ now' = now /\ pc' = [pc EXCEPT ![p] = "command"] /\ Qts' = Qts
  BY DEF Awake, fpga, files
<1>3. /\ req[p].lmt \in Nat /\ now \in Nat /\ MARGIN * d \in Nat /\ CIRCBUF * d \in Nat
      /\ (d * LSC) \div FLMC \in Nat
  BY AtomLater, Constants DEF DDTypes, ProcessTypes, FpgaTypes, Requests
<1>4. PICK m \in Nat :
        /\ c = Time(m) /\ m <= now /\ now <= m + 1
        /\ delta \in Int /\ Since(p, req[p].lmt, Time(Before(now))) \in Int
        /\ delta <= Since(p, req[p].lmt, Time(Before(now))) + (d * LSC) \div FLMC + 1
  BY <1>3, CTimesSince
<1>5. MARGIN * d <= delta
  BY <1>1, <1>3, <1>4 DEF Ahead
<1>6. Since(p, req[p].lmt, Time(Before(now))) < MARGIN * d
  BY <1>2 DEF WaitInv, Wait
<1>7. ~TooLate(delta)
  <2> HIDE DEF delta
  <2>1. MARGIN * d + (d * LSC) \div FLMC <= CIRCBUF * d - SAFE
    BY DDAssumption
  <2> QED
    BY <1>3, <1>4, <1>6, <2>1, Constants DEF TooLate
<1>8. lmt \in Nat
  <2>1. p \in Readers /\ Qts[p].request = "ST" => Start(p, c) \in Nat
    BY <1>1, StartNatural DEF DDTypes
  <2> QED
    BY <1>3, <2>1
<1>9. Since(p, lmt, c) = delta
  BY DEF Since
<1>10. InTime(Atom(lmt))
  <2>1. p \in Readers /\ Qts[p].request = "ST" => lmt = lst2lmt(Qts[p].lst, Time(m))
    BY <1>4, Constants DEF Start
  <2>2. Since(p, lmt, Time(m)) = delta
    BY <1>4, <1>9
  <2> HIDE DEF lmt, delta
  <2> QED
    BY <1>4, <1>5, <1>7, <1>8, <2>1, <2>2, InTimeAt
<1>11. req'[p].lmt = lmt /\ \A q \in Processes \ {p} : pc'[q] = pc[q] /\ req'[q] = req[q]
  <2>1. req \in [Processes -> Requests] /\ pc \in [Processes -> Places]
    BY DEF DDTypes, ProcessTypes
  <2>2. \A q \in Processes \ {p} : pc'[q] = pc[q] /\ req'[q] = req[q]
    BY <1>1, <1>2, <2>1
  <2>3. req'[p].lmt = lmt
    <3> DEFINE s == Start(p, c)
    <3> HIDE DEF s
    <3>1. [req EXCEPT ![p].lmt = s][p].lmt = s
      BY <2>1 DEF Requests
    <3> QED
      BY <1>1, <3>1 DEF s
  <2> QED
    BY <2>2, <2>3
<1>12. Wait(p)'
  <2> HIDE DEF lmt
  <2>1. pc'[p] = "command"
    BY <1>2 DEF DDTypes, ProcessTypes
  <2> QED
    BY <1>2, <1>10, <1>11, <2>1 DEF Wait, InTime, Atom
<1>13. ASSUME NEW q \in Processes, q # p PROVE Wait(q)'
  BY <1>2, <1>11, <1>13, WaitFrame
<1> QED
  BY <1>12, <1>13 DEF WaitInv

(* Every step keeps the waits.                                               *)
LEMMA NextKeepsWait ==
    ASSUME DDTypes, WaitInv, [Next]_vars
    PROVE  WaitInv'
<1>0. req \in [Processes -> Requests] /\ pc \in [Processes -> Places] /\ Qts \in [Readers -> Positions]
  BY DEF DDTypes, ProcessTypes
<1>1. CASE Tick
  BY <1>1, TickKeepsWait
<1>2. CASE UNCHANGED << now, pc, req, Qts >>
  BY <1>2, WaitFrame DEF WaitInv
<1>3. ASSUME \/ UNCHANGED vars \/ Trigger \/ Fetch \/ libera_dd_handler \/ libera_dma_interrupt
      PROVE  UNCHANGED << now, pc, req, Qts >>
  <2>1. CASE libera_dma_interrupt
    BY <2>1 DEF libera_dma_interrupt, files
  <2>2. CASE ~libera_dma_interrupt
    BY <1>3, <2>2 DEF vars, Trigger, Fetch, libera_dd_handler, fpga, files
  <2> QED
    BY <2>1, <2>2
<1>4. ASSUME NEW p \in Processes, p \in world.processes, Process(p) PROVE WaitInv'
  <2>1. CASE Accepted(p)
    BY <1>4, <2>1, AcceptedKeepsWait
  <2>2. CASE Awake(p)
    BY <2>2, AwakeKeepsWait
  <2>3. CASE Refused(p) \/ WaitInterrupted(p)
    <3>1. Leave(p) /\ now' = now /\ Qts' = Qts
      BY <2>3 DEF Refused, WaitInterrupted, fpga, files
    <3>2. pc'[p] = "user" /\ \A q \in Processes \ {p} : pc'[q] = pc[q] /\ req'[q] = req[q]
      BY <1>0, <3>1 DEF Leave
    <3> QED
      BY <3>1, <3>2, WaitStays
  <2>4. CASE libera_dd_write_CBfifo(p)
    <3>1. /\ now' = now /\ req' = req /\ pc' = [pc EXCEPT ![p] = "irq"]
          /\ Qts' = IF p = Acquirer THEN Qts ELSE [Qts EXCEPT ![p] = Located(@, req[p].lmt)]
      BY <2>4 DEF libera_dd_write_CBfifo
    <3>2. pc'[p] = "irq" /\ \A q \in Processes \ {p} : pc'[q] = pc[q]
      BY <1>0, <3>1
    <3>3. \A q \in Processes \ {p} : q \in Readers => Qts'[q] = Qts[q]
      BY <1>0, <3>1
    <3> QED
      BY <3>1, <3>2, <3>3, WaitStays
  <2>5. CASE SyncWait(p) \/ Copy(p)
    <3>1. UNCHANGED << now, pc, req, Qts >>
      BY <2>5 DEF SyncWait, Copy, fpga, files
    <3> QED
      BY <1>2, <3>1
  <2>6. CASE \/ getBlockedFromFIFO(p) \/ Begin(p) \/ SyncTimeout(p) \/ Synced(p) \/ DataThere(p)
             \/ Abort(p) \/ CopyFails(p) \/ Again(p) \/ End(p)
    <3>1. /\ now' = now /\ req' = req /\ Qts' = Qts
          /\ \E x \in Transferring : pc' = [pc EXCEPT ![p] = x]
      BY <2>6 DEF getBlockedFromFIFO, Begin, SyncTimeout, Synced, DataThere, Abort, CopyFails,
                  Again, End, Goes, fpga, files, Transferring
    <3>2. pc'[p] \in Transferring /\ \A q \in Processes \ {p} : pc'[q] = pc[q]
      BY <1>0, <3>1
    <3>3. pc'[p] \notin {"early", "command"}
      BY <3>2 DEF Transferring
    <3> QED
      BY <3>1, <3>2, <3>3, WaitStays
  <2> QED
    BY <1>4, <2>1, <2>2, <2>3, <2>4, <2>5, <2>6 DEF Process
<1>5. ASSUME NEW r \in Readers, Reader(r) PROVE WaitInv'
  <2>0. r \in Processes
    BY DEF Processes
  <2>1. CASE NothingToRead(r) \/ Failed(r) \/ Done(r)
    <3>1. Leave(r) /\ now' = now /\ \A q \in Readers \ {r} : Qts'[q] = Qts[q]
      BY <1>0, <2>1 DEF NothingToRead, Failed, Done, fpga
    <3>2. pc'[r] = "user" /\ \A q \in Processes \ {r} : pc'[q] = pc[q] /\ req'[q] = req[q]
      BY <1>0, <2>0, <3>1 DEF Leave
    <3> QED
      BY <2>0, <3>1, <3>2, WaitStays
  <2>2. CASE LIBERA_IOC_SET_DEC(r)
    <3>1. UNCHANGED << now, pc, req, Qts >>
      BY <2>2 DEF LIBERA_IOC_SET_DEC, fpga
    <3> QED
      BY <1>2, <3>1
  <2>3. ASSUME NEW request \in world.requests, NEW at \in world.times, libera_dd_llseek(r, request, at)
        PROVE  WaitInv'
    <3>1. /\ pc[r] = "user" /\ pc' = pc /\ req' = req /\ now' = now
          /\ \A q \in Readers \ {r} : Qts'[q] = Qts[q]
      BY <1>0, <2>3 DEF libera_dd_llseek, fpga
    <3> QED
      BY <2>0, <3>1, WaitStays
  <2>4. CASE libera_dd_open(r)
    <3>1. /\ pc' = [pc EXCEPT ![r] = "user"] /\ req' = req /\ now' = now
          /\ \A q \in Readers \ {r} : Qts'[q] = Qts[q]
      BY <1>0, <2>4 DEF libera_dd_open, fpga
    <3>2. pc'[r] = "user" /\ \A q \in Processes \ {r} : pc'[q] = pc[q]
      BY <1>0, <2>0, <3>1
    <3> QED
      BY <2>0, <3>1, <3>2, WaitStays
  <2>5. CASE libera_dd_release(r) \/ libera_dd_read(r) \/ Lock(r) \/ LockInterrupted(r)
    <3>1. /\ \E x \in {"closed", "user", "lock", "request"} : pc' = [pc EXCEPT ![r] = x]
          /\ now' = now /\ Qts' = Qts
          /\ \E x : req' = [req EXCEPT ![r] = x] \/ req' = req
      BY <2>5 DEF libera_dd_release, libera_dd_read, Lock, LockInterrupted, fpga, files
    <3>2. /\ pc'[r] \in {"closed", "user", "lock", "request"}
          /\ \A q \in Processes \ {r} : pc'[q] = pc[q] /\ req'[q] = req[q]
      BY <1>0, <2>0, <3>1
    <3> QED
      BY <2>0, <3>1, <3>2, WaitStays
  <2> QED
    BY <1>5, <2>1, <2>2, <2>3, <2>4, <2>5 DEF Reader
<1>6. CASE libera_acq_pm \/ TryLock \/ Busy \/ Acquired
  <2>1. /\ \E x \in {"user", "trylock", "request"} : pc' = [pc EXCEPT ![Acquirer] = x]
        /\ now' = now /\ Qts' = Qts
        /\ \E x : req' = [req EXCEPT ![Acquirer] = x] \/ req' = req
    BY <1>6 DEF libera_acq_pm, TryLock, Busy, Acquired, Goes, fpga, files
  <2>2. /\ pc'[Acquirer] \in {"user", "trylock", "request"} /\ Acquirer \in Processes
        /\ \A q \in Processes \ {Acquirer} : pc'[q] = pc[q] /\ req'[q] = req[q]
    BY <1>0, <2>1 DEF Processes
  <2> QED
    BY <2>1, <2>2, WaitStays
<1>7. world.processes \subseteq Processes
  BY WorldFacts DEF DDTypes, ProcessTypes
<1> QED
  BY <1>1, <1>2, <1>3, <1>4, <1>5, <1>6, <1>7 DEF Next

-----------------------------------------------------------------------------
(* The steps of the stream *)

(* The atoms of a request are apart by its decimation.                       *)
LEMMA NthStep ==
    ASSUME NEW q \in Requests, NEW i \in Int
    PROVE  Nth(q, i) \in Int /\ Nth(q, i + 1) = Nth(q, i) + q.dec
<1>1. Atom(q.lmt) \in Nat /\ q.dec \in Nat
  BY AtomType DEF Requests
<1>2. i * q.dec \in Int /\ (i + 1) * q.dec = i * q.dec + q.dec
  BY <1>1
<1> QED
  BY <1>1, <1>2 DEF Nth

(* What is stored at the place of an atom in the buffer is that atom. *)
LEMMA StoredAt ==
    ASSUME now \in Nat, NEW a \in Int, a <= now - 1, now - 1 - a < CIRCBUF
    PROVE  Stored(a) = a /\ (a \in Nat => Stored(a % CIRCBUF) = a)
<1> DEFINE y == now - 1 - a
<1>1. y \in 0 .. CIRCBUF - 1 /\ a = now - 1 - y
  BY Constants
<1> HIDE DEF y
<1>2. y % CIRCBUF = y
  BY <1>1, Constants
<1>3. Stored(a) = a
  BY <1>1, <1>2 DEF Stored, y
<1>4. ASSUME a \in Nat PROVE Stored(a % CIRCBUF) = a
  <2> DEFINE k == a \div CIRCBUF
             r == a % CIRCBUF
  <2>1. k \in Nat /\ r \in Nat /\ a = CIRCBUF * k + r
    BY <1>4, Constants
  <2> HIDE DEF k, r
  <2> DEFINE z == now - 1 - r
  <2>2. z = CIRCBUF * k + y /\ CIRCBUF * k \in Nat
    BY <1>1, <2>1, Constants
  <2>3. z \in Nat
    BY <1>1, <2>2
  <2> HIDE DEF z
  <2> DEFINE x == z \div CIRCBUF
  <2>4. x \in Nat /\ z % CIRCBUF = z - CIRCBUF * x
    BY <2>3, Constants
  <2>5. x <= k /\ k <= x
    <3>1. k * CIRCBUF = CIRCBUF * k
      BY <2>1, Constants
    <3>2. k <= x
      BY <1>1, <2>1, <2>2, <2>3, <3>1, Quotient, Constants
    <3>3. CIRCBUF * x <= z /\ x \in Nat
      BY <2>3, Quotient, Constants
    <3> HIDE DEF x
    <3>4. CASE k + 1 <= x
      <4>1. (k + 1) * CIRCBUF <= x * CIRCBUF
        BY <2>1, <3>3, <3>4, Multiples, Constants
      <4>2. (k + 1) * CIRCBUF = CIRCBUF * k + CIRCBUF /\ x * CIRCBUF = CIRCBUF * x /\ CIRCBUF * x \in Nat
        BY <2>1, <3>3, Constants
      <4> QED
        BY <1>1, <2>2, <2>3, <3>3, <4>1, <4>2, Constants
    <3> QED
      BY <2>1, <3>2, <3>3, <3>4
  <2>6. z % CIRCBUF = y
    <3> HIDE DEF x
    <3>1. x = k
      BY <2>1, <2>4, <2>5
    <3> QED
      BY <1>1, <2>2, <2>4, <3>1
  <2>7. Stored(r) = now - 1 - y
    BY <2>6 DEF Stored, z
  <2> QED
    BY <1>1, <2>7 DEF r
<1> QED
  BY <1>3, <1>4

(* The next atom fetched is the next of the request. *)
LEMMA FetchStep ==
    ASSUME DDTypes, Fetch, NEW q \in Requests, NEW done \in Nat,
           Fetched(q, done, cb, ob, over, now)
    PROVE  /\ Fetched(q, done, cb', ob', over', now')
           /\ Len(ob') = Len(ob) + 1 /\ cb'.left = cb.left - 1
<1>1. /\ cb.left > 0 /\ cb.next < now /\ ob' = Append(ob, Stored(cb.next)) /\ now' = now /\ over' = over
      /\ cb' = [cb EXCEPT !.next = @ + cb.step, !.left = @ - 1]
  BY DEF Fetch, Fetches
<1>2. /\ now \in Nat /\ ob \in Seq(Int) /\ Len(ob) \in Nat /\ cb.next \in Int /\ cb.left \in Nat
      /\ cb.step \in Nat /\ cb.step > 0
  BY LenProperties DEF DDTypes, FpgaTypes
<1>3. cb'.next = cb.next + cb.step /\ cb'.left = cb.left - 1 /\ cb'.step = cb.step
  BY <1>1 DEF DDTypes, FpgaTypes
<1>4. Stored(cb.next) \in Int
  BY <1>2, Constants DEF Stored
<1>5. /\ Len(ob') = Len(ob) + 1 /\ ob'[Len(ob) + 1] = Stored(cb.next)
      /\ \A k \in 1 .. Len(ob) : ob'[k] = ob[k]
  BY <1>1, <1>2, <1>4, AppendProperties
<1>6. cb'.step = q.dec
  BY <1>3 DEF Fetched
<1>7. ASSUME ~over'
      PROVE  /\ cb'.next = Nth(q, done + Len(ob'))
             /\ \A k \in 1 .. Len(ob') : ob'[k] = Nth(q, done + k - 1)
             /\ cb'.left > 0 => now' - 1 - cb'.next < CIRCBUF
  <2>1. /\ cb.step = q.dec /\ cb.next = Nth(q, done + Len(ob))
        /\ \A k \in 1 .. Len(ob) : ob[k] = Nth(q, done + k - 1)
        /\ now - 1 - cb.next < CIRCBUF
    BY <1>1, <1>7 DEF Fetched
  <2>2. Stored(cb.next) = cb.next
    BY <1>1, <1>2, <2>1, StoredAt
  <2> DEFINE i == done + Len(ob)
  <2>3. i \in Int /\ done + Len(ob') = i + 1 /\ done + (Len(ob) + 1) - 1 = i
    BY <1>2, <1>5
  <2>4. cb.next = Nth(q, i)
    BY <2>1
  <2> HIDE DEF i
  <2>5. Nth(q, i + 1) = Nth(q, i) + q.dec
    BY <2>3, NthStep
  <2>6. cb'.next = Nth(q, done + Len(ob'))
    BY <1>3, <2>1, <2>3, <2>4, <2>5
  <2>7. ASSUME NEW k \in 1 .. Len(ob') PROVE ob'[k] = Nth(q, done + k - 1)
    <3>1. CASE k = Len(ob) + 1
      BY <1>5, <2>2, <2>3, <2>4, <3>1
    <3>2. CASE k # Len(ob) + 1
      <4>1. k \in 1 .. Len(ob)
        BY <1>2, <1>5, <3>2
      <4> QED
        BY <1>5, <2>1, <4>1
    <3> QED
      BY <3>1, <3>2
  <2>8. now' - 1 - cb'.next < CIRCBUF
    <3> DEFINE x == cb.next
               s == cb.step
    <3>1. now \in Nat /\ x \in Int /\ s \in Nat /\ now - 1 - x < CIRCBUF
      BY <1>2, <2>1
    <3>2. now' = now /\ cb'.next = x + s
      BY <1>1, <1>3
    <3> HIDE DEF x, s
    <3>3. now - 1 - (x + s) < CIRCBUF
      BY <3>1, Constants
    <3> QED
      BY <3>2, <3>3
  <2> QED
    BY <2>6, <2>7, <2>8
<1> QED
  BY <1>3, <1>5, <1>6, <1>7 DEF Fetched

(* Another atom is written: the FPGA is in time, or it is overrun. *)
LEMMA TickStep ==
    ASSUME DDTypes, Tick, NEW q \in Requests, NEW done \in Nat,
           Fetched(q, done, cb, ob, over, now)
    PROVE  Fetched(q, done, cb', ob', over', now')
<1>1. /\ now' = now + 1 /\ cb' = cb /\ ob' = ob
      /\ over' = (over \/ (cb.left > 0 /\ now - cb.next >= CIRCBUF))
  BY DEF Tick
<1>2. now \in Nat /\ cb.next \in Int
  BY DEF DDTypes, FpgaTypes
<1>3. ~over' => ~over /\ ~(cb.left > 0 /\ now - cb.next >= CIRCBUF)
  BY <1>1
<1>4. ~over' => (cb.left > 0 => now' - 1 - cb.next < CIRCBUF)
  BY <1>1, <1>2, <1>3, Constants
<1> QED
  BY <1>1, <1>3, <1>4 DEF Fetched

(* A block that fits takes the slots after those in use. *)
LEMMA Advance ==
    ASSUME NEW q \in DMAs, NEW c \in Nat, c > 0, c <= FIFO - q.put, c + lenDMA_FIFO(q) <= FIFO - 1
    PROVE  LET index == (q.put + c) % FIFO
           IN  /\ index \in 0 .. FIFO - 1 /\ index # q.get /\ Distance(q, index) = lenDMA_FIFO(q) + c
               /\ \A i \in 0 .. FIFO - 1 :
                     IF i \in q.put .. q.put + c - 1
                     THEN Distance(q, i) = lenDMA_FIFO(q) + (i - q.put)
                     ELSE ~(lenDMA_FIFO(q) <= Distance(q, i) /\ Distance(q, i) < lenDMA_FIFO(q) + c)
<1> DEFINE put == q.put
           get == q.get
           len == lenDMA_FIFO(q)
           index == (put + c) % FIFO
<1>1. put \in 0 .. FIFO - 1 /\ get \in 0 .. FIFO - 1 /\ FIFO \in Nat /\ FIFO > 1
  BY Constants, Distances
<1>2. \A i \in 0 .. FIFO - 1 : Distance(q, i) = IF i >= get THEN i - get ELSE i + FIFO - get
  BY Distances
<1>3. len = IF put >= get THEN put - get ELSE put + FIFO - get
  BY <1>1, <1>2, Distances
<1>4. index = IF put + c < FIFO THEN put + c ELSE put + c - FIFO
  <2> DEFINE x == put + c
  <2>1. x \in 0 .. 2 * FIFO - 1 /\ x = put + c
    BY <1>1
  <2>2. index = x % FIFO
    OBVIOUS
  <2> HIDE DEF x, index
  <2>3. x % FIFO = IF x < FIFO THEN x ELSE x - FIFO
    BY <2>1, Wraps
  <2> HIDE DEF put
  <2> QED
    BY <1>1, <2>1, <2>2, <2>3
<1>5. c <= FIFO - put /\ c + len <= FIFO - 1
  OBVIOUS
<1> HIDE DEF put, get, len, index
<1>6. /\ index \in 0 .. FIFO - 1 /\ index # get
      /\ (IF index >= get THEN index - get ELSE index + FIFO - get) = len + c
  BY <1>1, <1>3, <1>4, <1>5
<1>7. ASSUME NEW i \in 0 .. FIFO - 1
      PROVE  LET e == IF i >= get THEN i - get ELSE i + FIFO - get
             IN  IF i \in put .. put + c - 1 THEN e = len + (i - put) ELSE ~(len <= e /\ e < len + c)
  BY <1>1, <1>3, <1>4, <1>5, <1>7
<1>8. index \in 0 .. FIFO - 1 /\ index # get /\ Distance(q, index) = len + c
  BY <1>2, <1>6
<1>9. ASSUME NEW i \in 0 .. FIFO - 1
      PROVE  IF i \in put .. put + c - 1 THEN Distance(q, i) = len + (i - put)
             ELSE ~(len <= Distance(q, i) /\ Distance(q, i) < len + c)
  BY <1>2, <1>7
<1> QED
  BY <1>8, <1>9 DEF put, get, len, index

(* The transfer when its block is there: as many slots more are in use, as   *)
(* many atoms fewer are to come, and the slots hold what was first in the    *)
(* OB-fifo.                                                                  *)
LEMMA ArrivedIs ==
    ASSUME DDTypes, DmacInv, dmac # NULL, dmac.n > 0, dma.csize <= Len(ob)
    PROVE  LET left == SubSeq(ob, dma.csize + 1, Len(ob))
           IN  /\ Arrived \in DMAs /\ dma.csize \in Nat /\ dma.csize > 0 /\ Len(left) = Len(ob) - dma.csize
               /\ dmac.n = dma.csize /\ \A k \in 1 .. Len(left) : left[k] = ob[k + dma.csize]
               /\ Arrived.get = dma.get /\ Arrived.remaining = dma.remaining - dma.csize
               /\ Arrived.size = Len(left) /\ Arrived.Overrun = (dma.Overrun \/ over)
               /\ Arrived.put = (dma.put + dma.csize) % FIFO
               /\ \A i \in 0 .. FIFO - 1 :
                     Arrived.buf[i] = IF i \in dma.put .. dma.put + dma.csize - 1
                                      THEN ob[i - dma.put + 1] ELSE dma.buf[i]
<1> DEFINE left == SubSeq(ob, dma.csize + 1, Len(ob))
           q == [IrqStatus(dma, left) EXCEPT !.buf = Moved, !.remaining = @ - dma.csize]
<1>1. /\ dma \in DMAs /\ ob \in Seq(Int) /\ Len(ob) \in Nat /\ DOMAIN ob = 1 .. Len(ob)
      /\ dmac = [slot |-> dma.put, n |-> dma.csize]
      /\ dma.csize <= FIFO - dma.put /\ dma.csize + lenDMA_FIFO(dma) <= FIFO - 1
  BY LenProperties DEF DDTypes, FpgaTypes, DmaTypes, DmacInv
<1>2. dmac.slot = dma.put /\ dmac.n = dma.csize /\ dma.csize \in Int /\ dma.csize > 0
  BY <1>1 DEF DMAs
<1>3. /\ Arrived \in DMAs /\ left \in Seq(Int) /\ Len(left) = Len(ob) - dma.csize
      /\ \A k \in 1 .. Len(left) : left[k] = ob[k + dma.csize]
  <2>1. Arrived \in DMAs
    BY ArrivedType DEF DDTypes
  <2>2. \A k \in dma.csize + 1 .. Len(ob) : ob[k] \in Int
    BY <1>1, <1>2, ElementOfSeq
  <2>3. /\ left \in Seq(Int) /\ Len(left) = Len(ob) - dma.csize
        /\ \A k \in 1 .. Len(left) : left[k] = ob[(dma.csize + 1) + k - 1]
    <3> DEFINE c == dma.csize
               n == Len(ob)
    <3>1. c \in Nat /\ c <= n /\ n \in Nat
      BY <1>1, <1>2
    <3>2. \A k \in c + 1 .. n : ob[k] \in Int
      BY <2>2
    <3>3. SubSeq(ob, c + 1, n) \in Seq(Int)
      <4> HIDE DEF c, n
      <4> QED
        BY <1>1, <3>1, <3>2, SubSeqProperties
    <3>4. /\ Len(SubSeq(ob, c + 1, n)) = n - c
          /\ \A k \in 1 .. n - c : SubSeq(ob, c + 1, n)[k] = ob[(c + 1) + k - 1]
      <4> HIDE DEF c, n
      <4>1. c + 1 \in 1 .. n + 1 /\ n \in c .. n
        BY <3>1
      <4> QED
        BY <1>1, <3>1, <4>1, SubSeqProperties
    <3> QED
      BY <3>3, <3>4
  <2>4. \A k \in 1 .. Len(left) : left[k] = ob[k + dma.csize]
    <3> SUFFICES ASSUME NEW k \in 1 .. Len(left) PROVE left[k] = ob[k + dma.csize]
      OBVIOUS
    <3>1. (dma.csize + 1) + k - 1 = k + dma.csize
      BY <1>1, <1>2, <2>3
    <3> QED
      BY <2>3, <3>1
  <2> QED
    BY <2>1, <2>3, <2>4
<1>4. q = [dma EXCEPT !.size = Len(left), !.Overrun = dma.Overrun \/ over, !.buf = Moved,
                      !.remaining = dma.remaining - dma.csize]
  BY <1>1 DEF IrqStatus, Refreshed, DMAs
<1> DEFINE n == Len(left)
           index == (q.put + q.csize) % FIFO
<1> HIDE DEF left
<1>5. /\ q.put = dma.put /\ q.get = dma.get /\ q.csize = dma.csize /\ q.size = Len(left)
      /\ q.remaining = dma.remaining - dma.csize /\ q.Overrun = (dma.Overrun \/ over)
      /\ q.buf = Moved
  BY <1>1, <1>4 DEF DMAs
<1>6. index \in 0 .. FIFO - 1 /\ index # q.get /\ index = (dma.put + dma.csize) % FIFO
  BY <1>1, <1>2, <1>5, Advance
<1>7. Arrived = [q EXCEPT !.put = index]
  BY <1>2, <1>6 DEF Arrived, putToDMA_FIFO, left
<1>8. q \in DMAs
  <2>1. IrqStatus(dma, left) \in DMAs
    BY <1>1, <1>3, RefreshedType DEF IrqStatus, DDTypes, FpgaTypes
  <2>2. IrqStatus(dma, left).remaining - dma.csize \in Int
    BY <1>2, <2>1 DEF DMAs
  <2>3. Moved \in [0 .. FIFO - 1 -> Int]
    <3>1. \A i \in 0 .. FIFO - 1 : dma.buf[i] \in Int
      BY <1>1 DEF DMAs
    <3>2. \A k \in DOMAIN ob : ob[k] \in Int
      BY <1>1, ElementOfSeq
    <3>3. dma.put \in Int
      BY <1>1 DEF DMAs
    <3> QED
      BY <1>2, <3>1, <3>2, <3>3, Constants DEF Moved, Junk
  <2> QED
    BY <2>1, <2>2, <2>3, DmaSet
<1> HIDE DEF q, index
<1>9. /\ Arrived.get = q.get /\ Arrived.remaining = q.remaining /\ Arrived.size = q.size
      /\ Arrived.Overrun = q.Overrun /\ Arrived.put = index /\ Arrived.buf = q.buf
  BY <1>7, <1>8 DEF DMAs
<1>10. ASSUME NEW i \in 0 .. FIFO - 1
       PROVE  Moved[i] = IF i \in dma.put .. dma.put + dma.csize - 1
                         THEN ob[i - dma.put + 1] ELSE dma.buf[i]
  <2> DEFINE k == i - dmac.slot + 1
  <2>1. Moved[i] = IF k \notin 1 .. dmac.n THEN dma.buf[i] ELSE IF k \in DOMAIN ob THEN ob[k] ELSE Junk
    BY DEF Moved
  <2>2. dma.put \in Int /\ k = i - dma.put + 1
    BY <1>1, <1>2 DEF DMAs
  <2> HIDE DEF k
  <2>3. i \in dma.put .. dma.put + dma.csize - 1 <=> k \in 1 .. dmac.n
    BY <1>2, <2>2
  <2>4. k \in 1 .. dmac.n => k \in DOMAIN ob
    BY <1>1, <1>2
  <2> QED
    BY <2>1, <2>2, <2>3, <2>4
<1> QED
  BY <1>2, <1>3, <1>5, <1>6, <1>9, <1>10 DEF left

(* A block there: its atoms go on where those in the DMA fifo end. *)
LEMMA BlockStep ==
    ASSUME DDTypes, DmacInv, libera_dma_interrupt, dma.csize <= Len(ob),
           NEW q \in Requests, NEW done \in Nat, NEW g,
           Fetched(q, done + lenDMA_FIFO(dma), cb, ob, over, now), Holds(q, done, dma, g)
    PROVE  /\ lenDMA_FIFO(dma') = lenDMA_FIFO(dma) + dma.csize /\ dma.csize \in Nat
           /\ dma'.remaining = dma.remaining - dma.csize /\ Len(ob') = Len(ob) - dma.csize
           /\ dmac' # NULL => dma'.csize <= Len(ob')
           /\ Fetched(q, done + lenDMA_FIFO(dma'), cb, ob', over, now)
           /\ Holds(q, done, dma', g)
<1> DEFINE next == libera_dma_get_DMAC_csize(Arrived)
           left == SubSeq(ob, dma.csize + 1, Len(ob))
           c == dma.csize
           len == lenDMA_FIFO(dma)
<1>0. /\ dmac # NULL /\ dmac.n > 0 /\ ob' = SubSeq(ob, dmac.n + 1, Len(ob))
      /\ dma' = [next EXCEPT !.transfer = next.csize > 0]
  BY InterruptIs
<1>1. /\ Arrived \in DMAs /\ c \in Nat /\ c > 0 /\ Len(left) = Len(ob) - c /\ dmac.n = c
      /\ \A k \in 1 .. Len(left) : left[k] = ob[k + c]
      /\ Arrived.get = dma.get /\ Arrived.remaining = dma.remaining - c
      /\ Arrived.size = Len(left) /\ Arrived.Overrun = (dma.Overrun \/ over)
      /\ Arrived.put = (dma.put + c) % FIFO
      /\ \A i \in 0 .. FIFO - 1 :
            Arrived.buf[i] = IF i \in dma.put .. dma.put + c - 1 THEN ob[i - dma.put + 1] ELSE dma.buf[i]
  BY <1>0, ArrivedIs
<1>2. ob' = left
  BY <1>0, <1>1
<1>3. /\ next \in DMAs /\ next.put = Arrived.put /\ next.get = Arrived.get
      /\ next.remaining = Arrived.remaining /\ next.Overrun = Arrived.Overrun
      /\ next.buf = Arrived.buf /\ next.csize <= Arrived.size
  BY <1>1, CsizeFits
<1> HIDE DEF next, left
<1>4. /\ dma'.put = (dma.put + c) % FIFO /\ dma'.get = dma.get /\ dma'.remaining = dma.remaining - c
      /\ dma'.Overrun = (dma.Overrun \/ over) /\ dma'.buf = Arrived.buf /\ dma'.csize <= Len(left)
      /\ dma' \in DMAs
  <2>1. /\ dma'.put = next.put /\ dma'.get = next.get /\ dma'.remaining = next.remaining
        /\ dma'.Overrun = next.Overrun /\ dma'.buf = next.buf /\ dma'.csize = next.csize
    BY <1>0, <1>3 DEF DMAs
  <2>2. (next.csize > 0) \in BOOLEAN
    OBVIOUS
  <2>3. dma' \in DMAs
    BY <1>0, <1>3, <2>2, DmaSet
  <2> QED
    BY <1>1, <1>3, <2>1, <2>3
<1>5. /\ dma \in DMAs /\ dma.put \in 0 .. FIFO - 1 /\ len \in 0 .. FIFO - 1 /\ Len(ob) \in Nat
      /\ c <= FIFO - dma.put /\ c + len <= FIFO - 1 /\ c <= Len(ob)
  BY <1>0, CsizeType, Distances, LenProperties DEF DDTypes, DmaTypes, FpgaTypes, DmacInv
<1>6. /\ dma'.put \in 0 .. FIFO - 1 /\ Distance(dma, dma'.put) = len + c
      /\ \A i \in 0 .. FIFO - 1 :
            IF i \in dma.put .. dma.put + c - 1
            THEN Distance(dma, i) = len + (i - dma.put)
            ELSE ~(len <= Distance(dma, i) /\ Distance(dma, i) < len + c)
  BY <1>1, <1>4, <1>5, Advance
<1>7. \A i : Distance(dma', i) = Distance(dma, i)
  BY <1>4 DEF Distance
<1>8. lenDMA_FIFO(dma') = len + c
  BY <1>4, <1>6, <1>7, Distances
<1>9. Fetched(q, done + lenDMA_FIFO(dma'), cb, ob', over, now)
  <2>1. cb.step = q.dec
    BY DEF Fetched
  <2>2. ASSUME ~over
        PROVE  /\ cb.next = Nth(q, (done + (len + c)) + Len(left))
               /\ \A k \in 1 .. Len(left) : left[k] = Nth(q, (done + (len + c)) + k - 1)
               /\ cb.left > 0 => now - 1 - cb.next < CIRCBUF
    <3>1. /\ cb.next = Nth(q, (done + len) + Len(ob))
          /\ \A k \in 1 .. Len(ob) : ob[k] = Nth(q, (done + len) + k - 1)
          /\ cb.left > 0 => now - 1 - cb.next < CIRCBUF
      BY <2>2 DEF Fetched
    <3>2. (done + (len + c)) + Len(left) = (done + len) + Len(ob)
      BY <1>1, <1>5
    <3>3. ASSUME NEW k \in 1 .. Len(left) PROVE left[k] = Nth(q, (done + (len + c)) + k - 1)
      <4>1. k + c \in 1 .. Len(ob) /\ (done + len) + (k + c) - 1 = (done + (len + c)) + k - 1
        BY <1>1, <1>5
      <4>2. left[k] = ob[k + c]
        BY <1>1
      <4>3. ob[k + c] = Nth(q, (done + len) + (k + c) - 1)
        BY <3>1, <4>1
      <4> QED
        BY <4>1, <4>2, <4>3
    <3> QED
      BY <3>1, <3>2, <3>3
  <2> QED
    BY <1>2, <1>8, <2>1, <2>2 DEF Fetched
<1>10. Holds(q, done, dma', g)
  <2> SUFFICES ASSUME ~dma'.Overrun
               PROVE  /\ Len(g) = done
                      /\ \A i \in 0 .. FIFO - 1 :
                            Distance(dma', i) < lenDMA_FIFO(dma') =>
                                dma'.buf[i] = Nth(q, done + Distance(dma', i))
    BY DEF Holds
  <2>1. ~dma.Overrun /\ ~over
    BY <1>4
  <2>2. /\ Len(g) = done
        /\ \A i \in 0 .. FIFO - 1 :
              Distance(dma, i) < len => dma.buf[i] = Nth(q, done + Distance(dma, i))
    BY <2>1 DEF Holds
  <2>3. \A k \in 1 .. Len(ob) : ob[k] = Nth(q, (done + len) + k - 1)
    BY <2>1 DEF Fetched
  <2>4. ASSUME NEW i \in 0 .. FIFO - 1, Distance(dma, i) < len + c
        PROVE  Arrived.buf[i] = Nth(q, done + Distance(dma, i))
    <3>0. Distance(dma, i) \in Int
      BY <1>5, Distances
    <3>1. CASE i \in dma.put .. dma.put + c - 1
      <4> DEFINE k == i - dma.put + 1
      <4>1. Distance(dma, i) = len + (i - dma.put)
        BY <1>6, <3>1
      <4>2. k \in 1 .. Len(ob) /\ (done + len) + k - 1 = done + Distance(dma, i)
        <5> DEFINE put == dma.put
                   n == Len(ob)
        <5>1. put \in Int /\ c \in Nat /\ len \in Int /\ n \in Nat /\ c <= n /\ i \in put .. put + c - 1
          BY <1>1, <1>5, <3>1
        <5>2. Distance(dma, i) = len + (i - put) /\ k = i - put + 1
          BY <4>1
        <5> HIDE DEF put, n, c, len, k
        <5>3. k \in 1 .. n /\ (done + len) + k - 1 = done + (len + (i - put))
          BY <5>1, <5>2
        <5> QED
          BY <5>2, <5>3 DEF n
      <4>3. Arrived.buf[i] = ob[k]
        BY <1>1, <3>1
      <4> HIDE DEF k
      <4>4. ob[k] = Nth(q, (done + len) + k - 1)
        BY <2>3, <4>2
      <4> QED
        BY <4>2, <4>3, <4>4
    <3>2. CASE i \notin dma.put .. dma.put + c - 1
      <4>1. ~(len <= Distance(dma, i) /\ Distance(dma, i) < len + c)
        BY <1>6, <3>2
      <4>2. Distance(dma, i) < len
        BY <1>5, <2>4, <3>0, <4>1
      <4> QED
        BY <1>1, <2>2, <3>2, <4>2
    <3> QED
      BY <3>1, <3>2
  <2> QED
    BY <1>4, <1>7, <1>8, <2>2, <2>4
<1>11. Len(ob') = Len(ob) - c
  BY <1>1, <1>2
<1> QED
  BY <1>1, <1>2, <1>4, <1>8, <1>9, <1>10, <1>11

(* An atom copied is the next of the request. *)
LEMMA CopyStep ==
    ASSUME DDTypes, NEW p \in Processes, Copy(p), 0 < lenDMA_FIFO(dma), copy.OBAtoms < req[p].n,
           NEW q \in Requests, Holds(q, copy.OBAtoms, dma, got),
           \A i \in 1 .. Len(got) : got[i] = Nth(q, i - 1)
    PROVE  /\ Holds(q, copy.OBAtoms + 1, dma', got')
           /\ \A i \in 1 .. Len(got') : got'[i] = Nth(q, i - 1)
<1> DEFINE n == copy.OBAtoms
<1>1. got' = IF ~dma.Overrun THEN Append(got, dma.buf[dma.get]) ELSE got
  BY DEF Copy
<1>2. /\ dma'.Overrun = dma.Overrun /\ lenDMA_FIFO(dma)' = lenDMA_FIFO(dma) - 1
      /\ dma.get \in 0 .. FIFO - 1 /\ Distance(dma, dma.get) = 0
      /\ \A i \in 0 .. FIFO - 1 :
            Distance(dma, i)' < lenDMA_FIFO(dma)' =>
                Distance(dma, i)' = Distance(dma, i) - 1 /\ dma'.buf[i] = dma.buf[i]
  BY Copies
<1>3. lenDMA_FIFO(dma)' = lenDMA_FIFO(dma') /\ \A i : Distance(dma, i)' = Distance(dma', i)
  BY DEF lenDMA_FIFO, Distance
<1>4. n \in Nat /\ got \in Seq(Int) /\ Len(got) \in Nat /\ dma.buf[dma.get] \in Int /\ dma \in DMAs
  BY <1>2, LenProperties DEF DDTypes, DeviceTypes, DmaTypes, DMAs
<1>5. CASE dma.Overrun
  <2>1. got' = got /\ dma'.Overrun
    BY <1>1, <1>2, <1>5
  <2> QED
    BY <2>1 DEF Holds
<1>6. CASE ~dma.Overrun
  <2>1. /\ Len(got) = n
        /\ \A i \in 0 .. FIFO - 1 :
              Distance(dma, i) < lenDMA_FIFO(dma) => dma.buf[i] = Nth(q, n + Distance(dma, i))
    BY <1>6 DEF Holds
  <2>2. dma.buf[dma.get] = Nth(q, n)
    <3>1. dma.buf[dma.get] = Nth(q, n + Distance(dma, dma.get)) /\ n + Distance(dma, dma.get) = n
      BY <1>2, <1>4, <2>1
    <3> QED
      BY <3>1
  <2>3. got' = Append(got, dma.buf[dma.get])
    BY <1>1, <1>6
  <2> DEFINE e == dma.buf[dma.get]
  <2>4. e \in Int /\ got' = Append(got, e) /\ e = Nth(q, n)
    BY <1>4, <2>2, <2>3
  <2> HIDE DEF e
  <2>5. /\ Len(got') = n + 1 /\ got'[n + 1] = e /\ \A i \in 1 .. n : got'[i] = got[i]
    BY <1>4, <2>1, <2>4, AppendProperties
  <2>6. ASSUME NEW i \in 1 .. n + 1 PROVE got'[i] = Nth(q, i - 1)
    <3>1. CASE i = n + 1
      <4>1. i - 1 = n
        BY <1>4, <3>1
      <4> QED
        BY <2>4, <2>5, <3>1, <4>1
    <3>2. CASE i # n + 1
      <4>1. i \in 1 .. n
        BY <1>4, <3>2
      <4> QED
        BY <2>1, <2>5, <4>1
    <3> QED
      BY <3>1, <3>2
  <2>7. ASSUME NEW i \in 0 .. FIFO - 1, Distance(dma', i) < lenDMA_FIFO(dma')
        PROVE  dma'.buf[i] = Nth(q, (n + 1) + Distance(dma', i))
    <3>1. Distance(dma', i) = Distance(dma, i) - 1 /\ dma'.buf[i] = dma.buf[i]
      BY <1>2, <1>3, <2>7
    <3>2. Distance(dma, i) \in Int /\ lenDMA_FIFO(dma) \in Int
      BY <1>4, Distances, CsizeType
    <3>3. Distance(dma, i) < lenDMA_FIFO(dma)
      BY <1>2, <1>3, <2>7, <3>1, <3>2
    <3>4. (n + 1) + Distance(dma', i) = n + Distance(dma, i)
      <4> DEFINE x == Distance(dma, i)
      <4>1. n \in Int /\ x \in Int /\ Distance(dma', i) = x - 1
        BY <1>4, <3>1, <3>2
      <4> HIDE DEF n, x
      <4>2. (n + 1) + (x - 1) = n + x
        BY <4>1
      <4> QED
        BY <4>1, <4>2 DEF x
    <3> QED
      BY <2>1, <3>1, <3>3, <3>4
  <2> QED
    BY <2>5, <2>6, <2>7 DEF Holds
<1> QED
  BY <1>5, <1>6

(* A step that leaves the transfer and its process alone. *)
LEMMA StreamFrame ==
    ASSUME StreamInv, UNCHANGED << fpga, dmac, dma, copy, got >>,
           \A p \in Processes :
               sem' = p => sem = p /\ pc'[p] = pc[p] /\ req'[p] = req[p]
    PROVE  StreamInv'
<1> SUFFICES ASSUME NEW p \in Processes, sem' = p PROVE Stream(p)'
  BY DEF StreamInv
<1>1. Stream(p) /\ pc'[p] = pc[p] /\ req'[p] = req[p]
  BY DEF StreamInv
<1>2. lenDMA_FIFO(dma)' = lenDMA_FIFO(dma)
  BY DEF lenDMA_FIFO
<1>3. /\ cb' = cb /\ ob' = ob /\ over' = over /\ now' = now /\ dmac' = dmac /\ dma' = dma
      /\ copy' = copy /\ got' = got
  BY DEF fpga
<1> QED
  BY <1>1, <1>2, <1>3 DEF Stream, FetchInv, CountInv, FifoInv, EndInv, GotInv

(* A request that has nothing yet. *)
LEMMA StreamEmpty ==
    ASSUME NEW p \in Processes, sem' = p, pc'[p] \in {"request", "early", "command"}, got' = << >>
    PROVE  StreamInv'
<1>1. Stream(p)'
  BY DEF Stream, GotInv
<1> QED
  BY <1>1 DEF StreamInv

(* The FPGA goes on. *)
LEMMA StreamFpga ==
    ASSUME DDTypes, StreamInv, Tick \/ Fetch
    PROVE  StreamInv'
<1>0. UNCHANGED << sem, pc, req, dmac, dma, copy, got >>
  BY DEF Tick, Fetch, device
<1> SUFFICES ASSUME NEW p \in Processes, sem = p PROVE Stream(p)'
  BY <1>0 DEF StreamInv
<1> DEFINE q == req[p]
<1>1. Stream(p) /\ q \in Requests
  BY DEF StreamInv, DDTypes, ProcessTypes
<1>2. /\ cb.left \in Nat /\ Len(ob) \in Nat /\ lenDMA_FIFO(dma) \in Nat /\ copy.OBAtoms \in Nat
      /\ dma.size \in Nat /\ dma.csize \in Int
  BY CsizeType, LenProperties DEF DDTypes, FpgaTypes, DeviceTypes, DmaTypes, DMAs
<1>3. \A done \in Nat : Fetched(q, done, cb, ob, over, now) => Fetched(q, done, cb', ob', over', now')
  BY <1>1, FetchStep, TickStep
<1>4. /\ cb'.left + Len(ob') = cb.left + Len(ob) /\ Len(ob) <= Len(ob')
      /\ cb.left = 0 => cb' = cb /\ ob' = ob
  <2>1. CASE Tick
    BY <1>2, <2>1 DEF Tick
  <2>2. CASE Fetch
    <3>1. ob' = Append(ob, Stored(cb.next)) /\ cb' = [cb EXCEPT !.next = @ + cb.step, !.left = @ - 1]
      BY <2>2 DEF Fetch
    <3>2. ob \in Seq(Int) /\ Stored(cb.next) \in Int
      BY Constants DEF Stored, DDTypes, FpgaTypes
    <3>3. Len(ob') = Len(ob) + 1
      BY <3>1, <3>2, AppendProperties
    <3>4. cb'.left = cb.left - 1 /\ cb.left > 0
      BY <2>2, <3>1 DEF DDTypes, FpgaTypes, Fetch, Fetches
    <3> QED
      BY <1>2, <3>3, <3>4
  <2> QED
    BY <2>1, <2>2
<1>5. lenDMA_FIFO(dma)' = lenDMA_FIFO(dma)
  BY <1>0 DEF lenDMA_FIFO
<1> HIDE DEF q
<1>6. pc[p] \in {"irq", "init"} =>
        dmac = NULL /\ Fetched(q, 0, cb', ob', over', now') /\ cb'.left + Len(ob') = q.n
  <2> SUFFICES ASSUME pc[p] \in {"irq", "init"}
               PROVE  dmac = NULL /\ Fetched(q, 0, cb', ob', over', now') /\ cb'.left + Len(ob') = q.n
    OBVIOUS
  <2>1. dmac = NULL /\ Fetched(q, 0, cb, ob, over, now) /\ cb.left + Len(ob) = q.n
    BY <1>1 DEF Stream, FetchInv, q
  <2> QED
    BY <1>3, <1>4, <2>1
<1>7. pc[p] \in {"sync", "wait", "copy"} => CountInv(p)' /\ FifoInv(req[p])'
                                           /\ FetchInv(req[p], copy.OBAtoms + lenDMA_FIFO(dma))'
  <2> SUFFICES ASSUME pc[p] \in {"sync", "wait", "copy"}
               PROVE  /\ CountInv(p)' /\ FifoInv(req[p])'
                      /\ FetchInv(req[p], copy.OBAtoms + lenDMA_FIFO(dma))'
    OBVIOUS
  <2>1. /\ CountInv(p) /\ Holds(q, copy.OBAtoms, dma, got)
        /\ Fetched(q, copy.OBAtoms + lenDMA_FIFO(dma), cb, ob, over, now)
    BY <1>1 DEF Stream, FetchInv, FifoInv, q
  <2>2. Fetched(q, copy.OBAtoms + lenDMA_FIFO(dma), cb', ob', over', now')
    BY <1>2, <1>3, <2>1
  <2>3. CountInv(p)'
    BY <1>0, <1>2, <1>4, <1>5, <2>1 DEF CountInv
  <2> QED
    BY <1>0, <1>5, <2>1, <2>2, <2>3 DEF FetchInv, FifoInv, q
<1>8. pc[p] \in {"end", "ok"} => EndInv(p)'
  BY <1>0, <1>1, <1>4 DEF Stream, EndInv
<1> QED
  BY <1>0, <1>1, <1>6, <1>7, <1>8 DEF Stream, FetchInv, GotInv, q

(* The interrupt of the DMA controller. *)
LEMMA StreamBlock ==
    ASSUME DDTypes, DmacInv, StreamInv, libera_dma_interrupt
    PROVE  StreamInv'
<1>0. UNCHANGED << now, cb, over, sem, pc, req, copy, got >> /\ dmac # NULL
      /\ ob' = SubSeq(ob, dmac.n + 1, Len(ob)) /\ dmac.n > 0
  BY InterruptIs DEF device
<1> SUFFICES ASSUME NEW p \in Processes, sem = p PROVE Stream(p)'
  BY <1>0 DEF StreamInv
<1> DEFINE q == req[p]
<1>1. Stream(p) /\ q \in Requests
  BY DEF StreamInv, DDTypes, ProcessTypes
<1>2. /\ cb.left \in Nat /\ Len(ob) \in Nat /\ lenDMA_FIFO(dma) \in Nat /\ copy.OBAtoms \in Nat
      /\ copy.fifo_atoms \in Nat /\ dma.remaining \in Int /\ dma.csize \in Int
  BY CsizeType, LenProperties DEF DDTypes, FpgaTypes, DeviceTypes, DmaTypes, DMAs
<1>3. pc[p] \notin {"irq", "init", "sync"}
  BY <1>0, <1>1 DEF Stream, CountInv, DmacInv
<1>4. pc[p] \in {"wait", "copy"} => CountInv(p)' /\ FifoInv(req[p])'
                                   /\ FetchInv(req[p], copy.OBAtoms + lenDMA_FIFO(dma))'
  <2> SUFFICES ASSUME pc[p] \in {"wait", "copy"}
               PROVE  /\ CountInv(p)' /\ FifoInv(req[p])'
                      /\ FetchInv(req[p], copy.OBAtoms + lenDMA_FIFO(dma))'
    OBVIOUS
  <2>1. /\ CountInv(p) /\ Holds(q, copy.OBAtoms, dma, got)
        /\ Fetched(q, copy.OBAtoms + lenDMA_FIFO(dma), cb, ob, over, now)
    BY <1>1 DEF Stream, FetchInv, FifoInv
  <2>2. dma.csize <= Len(ob)
    BY <1>0, <2>1 DEF CountInv
  <2>3. /\ lenDMA_FIFO(dma') = lenDMA_FIFO(dma) + dma.csize /\ dma.csize \in Nat
        /\ dma'.remaining = dma.remaining - dma.csize /\ Len(ob') = Len(ob) - dma.csize
        /\ dmac' # NULL => dma'.csize <= Len(ob')
        /\ Fetched(q, copy.OBAtoms + lenDMA_FIFO(dma'), cb, ob', over, now)
        /\ Holds(q, copy.OBAtoms, dma', got)
    <3> HIDE DEF q
    <3> QED
      BY <1>1, <1>2, <2>1, <2>2, BlockStep
  <2>4. lenDMA_FIFO(dma)' = lenDMA_FIFO(dma')
    BY DEF lenDMA_FIFO
  <2>5. CountInv(p)'
    <3>1. /\ copy.OBAtoms + lenDMA_FIFO(dma) + dma.remaining = req[p].n
          /\ dma.remaining = cb.left + Len(ob)
          /\ pc[p] = "copy" => copy.fifo_atoms <= lenDMA_FIFO(dma)
      BY <2>1 DEF CountInv
    <3>2. /\ copy.OBAtoms + lenDMA_FIFO(dma') + dma'.remaining = req[p].n
          /\ dma'.remaining = cb.left + Len(ob')
          /\ pc[p] = "copy" => copy.fifo_atoms <= lenDMA_FIFO(dma')
      <4> DEFINE l == lenDMA_FIFO(dma)
                 c == dma.csize
                 r == dma.remaining
                 n == Len(ob)
                 a == copy.OBAtoms
                 f == copy.fifo_atoms
      <4>1. /\ l \in Nat /\ c \in Nat /\ r \in Int /\ n \in Nat /\ a \in Nat /\ f \in Nat
            /\ cb.left \in Nat
        BY <1>2, <2>3
      <4>2. /\ lenDMA_FIFO(dma') = l + c /\ dma'.remaining = r - c /\ Len(ob') = n - c
        BY <2>3
      <4>3. a + l + r = req[p].n /\ r = cb.left + n /\ (pc[p] = "copy" => f <= l)
        BY <3>1
      <4> HIDE DEF l, c, r, n, a, f, q
      <4>4. a + (l + c) + (r - c) = req[p].n
        BY <4>1, <4>3
      <4>5. r - c = cb.left + (n - c) /\ (pc[p] = "copy" => f <= l + c)
        BY <4>1, <4>3
      <4> QED
        BY <4>2, <4>4, <4>5 DEF a, f
    <3> QED
      BY <1>0, <2>3, <2>4, <3>2 DEF CountInv
  <2> QED
    BY <1>0, <2>3, <2>4, <2>5 DEF FetchInv, FifoInv
<1>5. pc[p] \in {"end", "ok"} => EndInv(p)'
  <2> SUFFICES ASSUME pc[p] \in {"end", "ok"}, ~dma'.Overrun PROVE EndInv(p)'
    BY DEF EndInv
  <2>1. ~dma.Overrun
    <3> DEFINE left == SubSeq(ob, dmac.n + 1, Len(ob))
               next == libera_dma_get_DMAC_csize(Arrived)
    <3>1. Arrived \in DMAs /\ dma' = [next EXCEPT !.transfer = next.csize > 0]
      BY <1>0, ArrivedType, InterruptIs DEF DDTypes
    <3>2. next \in DMAs /\ next.Overrun = Arrived.Overrun
      BY <3>1, CsizeFits
    <3>3. dma'.Overrun = Arrived.Overrun
      <4> HIDE DEF next
      <4> QED
        BY <3>1, <3>2 DEF DMAs
    <3>4. Arrived.Overrun = (dma.Overrun \/ over)
      <4> DEFINE a == [IrqStatus(dma, left) EXCEPT !.buf = Moved, !.remaining = @ - dma.csize]
      <4>1. dma \in DMAs
        BY DEF DDTypes, DmaTypes
      <4>2. a.Overrun = (dma.Overrun \/ over) /\ \A k : [a EXCEPT !.put = k].Overrun = a.Overrun
        BY <4>1 DEF IrqStatus, Refreshed, DMAs
      <4>3. Arrived = putToDMA_FIFO(a)
        BY DEF Arrived
      <4> HIDE DEF a
      <4>4. putToDMA_FIFO(a).Overrun = a.Overrun
        BY <4>2 DEF putToDMA_FIFO
      <4> QED
        BY <4>2, <4>3, <4>4
    <3> QED
      BY <3>3, <3>4
  <2>2. ob = << >> /\ cb.left = 0 /\ copy.OBAtoms = req[p].n /\ Len(got) = req[p].n
    BY <1>1, <2>1 DEF Stream, EndInv
  <2>3. ob' = << >>
    <3>1. dmac.n \in Int
      BY <1>0 DEF DDTypes, DmaTypes
    <3> QED
      BY <1>0, <2>2, <3>1
  <2> QED
    BY <1>0, <2>2, <2>3 DEF EndInv
<1> QED
  BY <1>0, <1>1, <1>3, <1>4, <1>5 DEF Stream, GotInv

(* The command: the FPGA starts at the atom of the request. *)
LEMMA StreamCommand ==
    ASSUME DDTypes, LockInv, WaitInv, StreamInv, NEW p \in Processes, libera_dd_write_CBfifo(p)
    PROVE  StreamInv'
<1> DEFINE q == req[p]
           a == Atom(req[p].lmt)
<1>1. /\ pc[p] = "command" /\ dmac = NULL /\ pc'[p] = "irq" /\ sem' = sem /\ req' = req
      /\ dmac' = dmac /\ got' = got /\ now' = now /\ ob' = << >> /\ over' = FALSE
      /\ cb' = [next |-> Stored(a % CIRCBUF), left |-> q.n, step |-> q.dec]
  BY DEF libera_dd_write_CBfifo, device, get_circ_offset_lmt, DDTypes, ProcessTypes
<1>2. sem = p
  BY <1>1 DEF LockInv, Held
<1>3. got = << >>
  BY <1>1, <1>2 DEF StreamInv, Stream
<1>4. q \in Requests /\ a \in Nat /\ now \in Nat /\ q.n \in Nat /\ q.dec \in Nat
  BY AtomType DEF DDTypes, ProcessTypes, FpgaTypes, Requests
<1>5. a <= now - 1 /\ now - 1 - a < CIRCBUF
  BY <1>1 DEF WaitInv, Wait, InTime
<1>6. Stored(a % CIRCBUF) = a
  <2> HIDE DEF a
  <2> QED
    BY <1>4, <1>5, StoredAt
<1>7. Nth(q, 0) = a
  <2>1. 0 * q.dec = 0
    BY <1>4
  <2> HIDE DEF q
  <2>2. Nth(q, 0) = Atom(q.lmt) + 0
    BY <2>1 DEF Nth
  <2> QED
    BY <1>4, <2>2 DEF q
<1> HIDE DEF a
<1>8. Fetched(q, 0, cb', ob', over', now')
  <2>1. cb'.step = q.dec /\ cb'.next = a /\ cb'.left = q.n
    BY <1>1, <1>6
  <2>2. Len(ob') = 0
    BY <1>1
  <2> HIDE DEF q
  <2> QED
    BY <1>1, <1>4, <1>5, <1>7, <2>1, <2>2 DEF Fetched
<1>9. cb'.left + Len(ob') = q.n
  BY <1>1, <1>4
<1>10. Stream(p)'
  BY <1>1, <1>2, <1>3, <1>8, <1>9 DEF Stream, FetchInv, GotInv
<1> QED
  BY <1>1, <1>2, <1>10, Constants DEF StreamInv

(* The entry of the interrupt is taken. *)
LEMMA StreamEntry ==
    ASSUME DDTypes, LockInv, StreamInv, NEW p \in Processes, getBlockedFromFIFO(p)
    PROVE  StreamInv'
<1>1. /\ pc[p] = "irq" /\ pc'[p] = "init" /\ sem' = sem /\ req' = req /\ dmac' = dmac
      /\ got' = got /\ now' = now /\ ob' = ob /\ over' = over /\ cb' = cb
  BY DEF getBlockedFromFIFO, fpga, DDTypes, ProcessTypes
<1>2. sem = p
  BY <1>1 DEF LockInv, Held
<1>3. Stream(p)
  BY <1>2 DEF StreamInv
<1>4. Stream(p)'
  BY <1>1, <1>3 DEF Stream, FetchInv, GotInv
<1> QED
  BY <1>1, <1>2, <1>4 DEF StreamInv

(* The transfer begins with an empty DMA fifo. *)
LEMMA StreamBegin ==
    ASSUME DDTypes, StreamInv, NEW p \in Processes, Begin(p)
    PROVE  StreamInv'
<1> DEFINE q == [dma EXCEPT !.size = Len(ob), !.Overrun = FALSE, !.transfer = FALSE,
                            !.remaining = req[p].n, !.put = 0, !.get = 0]
<1>1. /\ pc[p] = "init" /\ sem = p /\ sem' = p /\ pc'[p] = "sync" /\ req' = req /\ dmac' = dmac
      /\ got' = got /\ now' = now /\ ob' = ob /\ over' = over /\ cb' = cb
      /\ copy' = [fifo_atoms |-> 0, OBAtoms |-> 0] /\ dma' = libera_dma_get_DMAC_csize(q)
  BY DEF Begin, At, Goes, fpga, device, DDTypes, ProcessTypes
<1>2. /\ got = << >> /\ dmac = NULL /\ Fetched(req[p], 0, cb, ob, over, now)
      /\ cb.left + Len(ob) = req[p].n
  BY <1>1 DEF StreamInv, Stream, FetchInv
<1>3. q \in DMAs
  <2>1. dma \in DMAs
    BY DEF DDTypes, DmaTypes
  <2>2. req[p].n \in Nat /\ Len(ob) \in Nat /\ 0 \in 0 .. FIFO - 1
    BY LenProperties, Constants DEF DDTypes, FpgaTypes, ProcessTypes, Requests
  <2> QED
    BY <2>1, <2>2, DmaSet
<1>4. /\ q.put = 0 /\ q.get = 0 /\ q.remaining = req[p].n /\ q.size = Len(ob)
      /\ ~q.transfer
  BY DEF DDTypes, DmaTypes, DMAs
<1> HIDE DEF q
<1>5. /\ dma'.put = 0 /\ dma'.get = 0 /\ dma'.remaining = req[p].n /\ dma'.size = Len(ob)
      /\ ~dma'.transfer /\ dma' \in DMAs
  BY <1>1, <1>3, <1>4, CsizeFits
<1>6. lenDMA_FIFO(dma') = 0
  <2>1. 0 \in 0 .. FIFO - 1
    BY Constants
  <2> QED
    BY <1>5, <2>1, Distances
<1>7. lenDMA_FIFO(dma)' = lenDMA_FIFO(dma')
  BY DEF lenDMA_FIFO
<1>8. req[p].n \in Nat /\ Len(ob) \in Nat
  BY LenProperties DEF DDTypes, FpgaTypes, ProcessTypes, Requests
<1>9. CountInv(p)'
  BY <1>1, <1>2, <1>5, <1>6, <1>7, <1>8 DEF CountInv
<1>10. Holds(req[p], 0, dma', << >>)
  <2>1. ASSUME NEW i \in 0 .. FIFO - 1 PROVE ~(Distance(dma', i) < lenDMA_FIFO(dma'))
    <3>1. Distance(dma', i) \in 0 .. FIFO - 1
      BY <1>5, Distances
    <3> QED
      BY <1>6, <3>1
  <2> QED
    BY <2>1 DEF Holds
<1>11. FifoInv(req[p])' /\ FetchInv(req[p], copy.OBAtoms + lenDMA_FIFO(dma))'
  <2>1. copy'.OBAtoms = 0 /\ copy'.OBAtoms + lenDMA_FIFO(dma') = 0
    BY <1>1, <1>6
  <2> QED
    BY <1>1, <1>2, <1>7, <1>10, <2>1 DEF FifoInv, FetchInv
<1>12. Stream(p)'
  BY <1>1, <1>2, <1>9, <1>11 DEF Stream, GotInv
<1> QED
  BY <1>1, <1>12, Constants DEF StreamInv

(* The OB-fifo is looked at. *)
LEMMA StreamLook ==
    ASSUME DDTypes, StreamInv, NEW p \in Processes, sem = p, sem' = p,
           pc[p] \in {"sync", "copy"}, pc'[p] = "sync", ~dma.transfer,
           UNCHANGED << fpga, req, dmac, copy, got >>, dma' = Refreshed(dma, ob, over)
    PROVE  StreamInv'
<1>1. Stream(p)
  BY DEF StreamInv
<1>2. /\ dma'.put = dma.put /\ dma'.get = dma.get /\ dma'.remaining = dma.remaining
      /\ dma'.csize = dma.csize /\ dma'.buf = dma.buf /\ dma'.transfer = dma.transfer
      /\ dma'.size = Len(ob) /\ (~dma'.Overrun => ~dma.Overrun)
      /\ lenDMA_FIFO(dma)' = lenDMA_FIFO(dma)
  BY Refreshes
<1>3. Len(ob) \in Nat
  BY LenProperties DEF DDTypes, FpgaTypes
<1>4. /\ cb' = cb /\ ob' = ob /\ over' = over /\ now' = now /\ dmac' = dmac
      /\ copy' = copy /\ got' = got /\ req' = req
  BY DEF fpga
<1>5. CountInv(p) /\ FifoInv(req[p]) /\ FetchInv(req[p], copy.OBAtoms + lenDMA_FIFO(dma))
  BY <1>1 DEF Stream
<1>6. CountInv(p)'
  BY <1>2, <1>3, <1>4, <1>5 DEF CountInv
<1>7. FifoInv(req[p])'
  <2>1. lenDMA_FIFO(dma') = lenDMA_FIFO(dma) /\ \A i : Distance(dma', i) = Distance(dma, i)
    BY <1>2 DEF Distance, lenDMA_FIFO
  <2>2. Holds(req[p], copy.OBAtoms, dma', got)
    BY <1>2, <1>5, <2>1 DEF FifoInv, Holds
  <2> QED
    BY <1>4, <2>2 DEF FifoInv
<1>8. FetchInv(req[p], copy.OBAtoms + lenDMA_FIFO(dma))'
  BY <1>2, <1>4, <1>5 DEF FetchInv
<1>9. Stream(p)'
  BY <1>1, <1>4, <1>6, <1>7, <1>8 DEF Stream, GotInv
<1> QED
  BY <1>9, Constants DEF StreamInv

(* The transfer fails, or it has ended and is found good. *)
LEMMA StreamOver ==
    ASSUME StreamInv, NEW p \in Processes, sem = p, sem' = p,
           UNCHANGED << fpga, req, dmac, dma, copy, got >>,
           pc'[p] = "fail" \/ (pc[p] = "end" /\ pc'[p] = "ok")
    PROVE  StreamInv'
<1>1. Stream(p)
  BY DEF StreamInv
<1>2. /\ cb' = cb /\ ob' = ob /\ dma' = dma /\ copy' = copy /\ got' = got /\ req' = req
  BY DEF fpga
<1>3. Stream(p)'
  BY <1>1, <1>2 DEF Stream, EndInv, GotInv
<1> QED
  BY <1>3, Constants DEF StreamInv

(* There are atoms, or the transfer is overrun. *)
LEMMA StreamSynced ==
    ASSUME DDTypes, StreamInv, DmacInv, NEW p \in Processes, Synced(p)
    PROVE  StreamInv'
<1> DEFINE r == libera_dma_get_DMAC_csize(dma)
<1>1. /\ pc[p] = "sync" /\ sem = p /\ sem' = p /\ req' = req /\ cb' = cb /\ ob' = ob /\ over' = over
      /\ now' = now /\ copy' = copy /\ got' = got
      /\ \/ dma' = r /\ dmac' = dmac /\ pc' = [pc EXCEPT ![p] = "wait"]
         \/ dma' = r /\ dmac' = dmac /\ pc' = [pc EXCEPT ![p] = "end"] /\ dma.Overrun
         \/ /\ dma' = [r EXCEPT !.transfer = TRUE] /\ dmac' = libera_dma_command(r)
            /\ pc' = [pc EXCEPT ![p] = "wait"]
  <2>1. /\ pc[p] = "sync" /\ sem = p /\ sem' = p /\ req' = req /\ cb' = cb /\ ob' = ob /\ over' = over
        /\ now' = now /\ copy' = copy /\ got' = got
    BY DEF Synced, At, device, fpga
  <2>2. LET first == copy.OBAtoms = 0
        IN  IF ~first /\ (dma.Overrun \/ FIFO - 1 = lenDMA_FIFO(r))
            THEN /\ dma' = r
                 /\ Goes(p, IF FIFO - 1 = lenDMA_FIFO(r) THEN "wait" ELSE "end")
                 /\ UNCHANGED dmac
            ELSE /\ dma' = [r EXCEPT !.transfer = TRUE]
                 /\ dmac' = libera_dma_command(r)
                 /\ Goes(p, "wait")
    BY DEF Synced
  <2> HIDE DEF r
  <2>3. CASE copy.OBAtoms # 0 /\ (dma.Overrun \/ FIFO - 1 = lenDMA_FIFO(r))
    BY <2>1, <2>2, <2>3 DEF Goes
  <2>4. CASE ~(copy.OBAtoms # 0 /\ (dma.Overrun \/ FIFO - 1 = lenDMA_FIFO(r)))
    BY <2>1, <2>2, <2>4 DEF Goes
  <2> QED
    BY <2>3, <2>4
<1>2. Stream(p) /\ CountInv(p) /\ FifoInv(req[p]) /\ FetchInv(req[p], copy.OBAtoms + lenDMA_FIFO(dma))
  BY <1>1 DEF StreamInv, Stream
<1>3. dmac = NULL /\ dma.size <= Len(ob)
  BY <1>1, <1>2 DEF CountInv, DmacInv
<1>4. dma \in DMAs /\ pc \in [Processes -> Places] /\ dma.size \in Nat /\ Len(ob) \in Nat
  BY LenProperties DEF DDTypes, DmaTypes, ProcessTypes, FpgaTypes, DMAs
<1>5. /\ r \in DMAs /\ r.put = dma.put /\ r.get = dma.get /\ r.remaining = dma.remaining
      /\ r.Overrun = dma.Overrun /\ r.buf = dma.buf /\ r.csize \in Int /\ r.csize <= dma.size
  BY <1>4, CsizeFits
<1> HIDE DEF r
<1>6. /\ dma'.put = dma.put /\ dma'.get = dma.get /\ dma'.remaining = dma.remaining
      /\ dma'.Overrun = dma.Overrun /\ dma'.buf = dma.buf /\ dma'.csize = r.csize
  BY <1>1, <1>5 DEF DMAs
<1>7. dma'.csize <= Len(ob')
  BY <1>1, <1>3, <1>4, <1>5, <1>6
<1>8. CASE pc'[p] = "wait"
  <2>1. lenDMA_FIFO(dma') = lenDMA_FIFO(dma) /\ \A i : Distance(dma', i) = Distance(dma, i)
    BY <1>6 DEF lenDMA_FIFO, Distance
  <2>2. lenDMA_FIFO(dma)' = lenDMA_FIFO(dma')
    BY DEF lenDMA_FIFO
  <2>3. CountInv(p)'
    BY <1>1, <1>2, <1>6, <1>7, <1>8, <2>1, <2>2 DEF CountInv
  <2>4. Holds(req[p], copy.OBAtoms, dma', got)
    BY <1>2, <1>6, <2>1 DEF FifoInv, Holds
  <2>5. FifoInv(req[p])'
    BY <1>1, <2>4 DEF FifoInv
  <2>6. FetchInv(req[p], copy.OBAtoms + lenDMA_FIFO(dma))'
    BY <1>1, <1>2, <2>1, <2>2 DEF FetchInv
  <2>7. Stream(p)'
    BY <1>1, <1>2, <1>8, <2>3, <2>5, <2>6 DEF Stream, GotInv
  <2> QED
    BY <1>1, <2>7, Constants DEF StreamInv
<1>9. CASE pc'[p] = "end" /\ dma.Overrun
  <2>1. Stream(p)'
    BY <1>1, <1>2, <1>6, <1>9 DEF Stream, EndInv, GotInv
  <2> QED
    BY <1>1, <2>1, Constants DEF StreamInv
<1> QED
  BY <1>1, <1>4, <1>8, <1>9

(* Atoms are seen in the DMA fifo.                                           *)
LEMMA StreamThere ==
    ASSUME DDTypes, StreamInv, NEW p \in Processes, DataThere(p)
    PROVE  StreamInv'
<1>1. /\ pc[p] = "wait" /\ sem = p /\ sem' = p /\ req' = req /\ cb' = cb /\ ob' = ob /\ over' = over
      /\ now' = now /\ dma' = dma /\ dmac' = dmac /\ got' = got /\ pc'[p] = "copy"
      /\ copy'.OBAtoms = copy.OBAtoms /\ copy'.fifo_atoms = lenDMA_FIFO(dma)
  BY DEF DataThere, At, Goes, fpga, device, DDTypes, ProcessTypes, DeviceTypes
<1>2. Stream(p) /\ CountInv(p) /\ FifoInv(req[p]) /\ FetchInv(req[p], copy.OBAtoms + lenDMA_FIFO(dma))
  BY <1>1 DEF StreamInv, Stream
<1>3. lenDMA_FIFO(dma)' = lenDMA_FIFO(dma) /\ lenDMA_FIFO(dma) \in Nat
  BY <1>1, CsizeType DEF lenDMA_FIFO, DDTypes, DmaTypes
<1>4. CountInv(p)'
  BY <1>1, <1>2, <1>3 DEF CountInv
<1>5. FifoInv(req[p])' /\ FetchInv(req[p], copy.OBAtoms + lenDMA_FIFO(dma))'
  BY <1>1, <1>2, <1>3 DEF FifoInv, FetchInv
<1>6. Stream(p)'
  BY <1>1, <1>2, <1>4, <1>5 DEF Stream, GotInv
<1> QED
  BY <1>1, <1>6, Constants DEF StreamInv

(* One of them is copied.                                                    *)
LEMMA StreamCopy ==
    ASSUME DDTypes, StreamInv, NEW p \in Processes, Copy(p)
    PROVE  StreamInv'
<1>1. /\ pc[p] = "copy" /\ copy.fifo_atoms > 0 /\ sem = p /\ sem' = p /\ req' = req /\ cb' = cb
      /\ ob' = ob /\ over' = over /\ now' = now /\ dmac' = dmac /\ pc' = pc
      /\ copy' = [fifo_atoms |-> copy.fifo_atoms - 1, OBAtoms |-> copy.OBAtoms + 1]
  BY DEF Copy, At, fpga, device
<1>2. Stream(p) /\ CountInv(p) /\ FifoInv(req[p]) /\ FetchInv(req[p], copy.OBAtoms + lenDMA_FIFO(dma))
  BY <1>1 DEF StreamInv, Stream
<1> DEFINE l == lenDMA_FIFO(dma)
           a == copy.OBAtoms
           f == copy.fifo_atoms
           r == dma.remaining
<1>3. /\ l \in Nat /\ a \in Nat /\ f \in Nat /\ r \in Int /\ cb.left \in Nat /\ Len(ob) \in Nat
      /\ req[p] \in Requests /\ req[p].n \in Nat
  <2>1. l \in Nat /\ r \in Int
    BY CsizeType DEF DDTypes, DmaTypes, DMAs
  <2>2. a \in Nat /\ f \in Nat /\ cb.left \in Nat /\ Len(ob) \in Nat
    BY LenProperties DEF DDTypes, DeviceTypes, FpgaTypes
  <2>3. req[p] \in Requests /\ req[p].n \in Nat
    BY DEF DDTypes, ProcessTypes, Requests
  <2> QED
    BY <2>1, <2>2, <2>3
<1>4. a + l + r = req[p].n /\ r = cb.left + Len(ob) /\ f <= l /\ f > 0
  BY <1>1, <1>2 DEF CountInv
<1> HIDE DEF l, a, f, r
<1>5. 0 < l /\ a < req[p].n
  BY <1>3, <1>4
<1>6. /\ dma'.remaining = r /\ dma'.csize = dma.csize /\ lenDMA_FIFO(dma)' = l - 1
      /\ dma'.transfer = dma.transfer
  BY <1>5, Copies DEF l, r
<1>7. Holds(req[p], a + 1, dma', got') /\ \A i \in 1 .. Len(got') : got'[i] = Nth(req[p], i - 1)
  <2> DEFINE q == req[p]
  <2>1. q \in Requests /\ Holds(q, copy.OBAtoms, dma, got) /\ \A i \in 1 .. Len(got) : got[i] = Nth(q, i - 1)
    BY <1>2, <1>3 DEF Stream, FifoInv, GotInv
  <2>2. 0 < lenDMA_FIFO(dma) /\ copy.OBAtoms < req[p].n
    BY <1>5 DEF l, a
  <2> HIDE DEF q
  <2>3. Holds(q, copy.OBAtoms + 1, dma', got') /\ \A i \in 1 .. Len(got') : got'[i] = Nth(q, i - 1)
    BY <2>1, <2>2, CopyStep
  <2> QED
    BY <2>3 DEF q, a
<1>8. copy'.OBAtoms = a + 1 /\ copy'.fifo_atoms = f - 1
  BY <1>1 DEF a, f
<1>9. CountInv(p)'
  <2>1. (a + 1) + (l - 1) + r = req[p].n /\ f - 1 <= l - 1
    BY <1>3, <1>4
  <2>2. dmac # NULL => dma.csize <= Len(ob)
    BY <1>2 DEF CountInv
  <2> QED
    BY <1>1, <1>4, <1>6, <1>8, <2>1, <2>2 DEF CountInv
<1>10. FifoInv(req[p])'
  BY <1>1, <1>7, <1>8 DEF FifoInv
<1>11. FetchInv(req[p], copy.OBAtoms + lenDMA_FIFO(dma))'
  <2>1. (a + 1) + (l - 1) = a + l
    BY <1>3
  <2>2. Fetched(req[p], a + l, cb, ob, over, now)
    BY <1>2 DEF FetchInv, a, l
  <2> QED
    BY <1>1, <1>6, <1>8, <2>1, <2>2 DEF FetchInv
<1>12. Stream(p)'
  BY <1>1, <1>7, <1>9, <1>10, <1>11 DEF Stream, GotInv
<1> QED
  BY <1>1, <1>12, Constants DEF StreamInv

(* The batch is copied. *)
LEMMA StreamAgain ==
    ASSUME DDTypes, StreamInv, NEW p \in Processes, Again(p)
    PROVE  StreamInv'
<1>1. /\ pc[p] = "copy" /\ sem = p /\ sem' = p /\ dmac' = dmac /\ UNCHANGED << fpga, req, copy, got >>
      /\ cb' = cb /\ ob' = ob /\ over' = over /\ now' = now
  BY DEF Again, Copied, At, fpga, device
<1>2. Stream(p) /\ CountInv(p) /\ FifoInv(req[p]) /\ FetchInv(req[p], copy.OBAtoms + lenDMA_FIFO(dma))
  BY <1>1 DEF StreamInv, Stream
<1>3. pc \in [Processes -> Places] /\ dma \in DMAs
  BY DEF DDTypes, ProcessTypes, DmaTypes
<1>4. CASE ~dma.transfer /\ dma.remaining > 0
  <2>1. dma' = Refreshed(dma, ob, over) /\ pc'[p] = "sync"
    BY <1>3, <1>4 DEF Again, Goes
  <2> QED
    BY <1>1, <1>4, <2>1, StreamLook
<1>5. CASE ~(~dma.transfer /\ dma.remaining > 0)
  <2>1. dma' = dma /\ pc'[p] = IF dma.remaining > 0 \/ ~Empty THEN "wait" ELSE "end"
    BY <1>3, <1>5 DEF Again, Goes
  <2>2. lenDMA_FIFO(dma)' = lenDMA_FIFO(dma)
    BY <2>1 DEF lenDMA_FIFO
  <2>3. CASE pc'[p] = "wait"
    <3>1. CountInv(p)'
      BY <1>1, <1>2, <2>1, <2>2, <2>3 DEF CountInv
    <3>2. FifoInv(req[p])' /\ FetchInv(req[p], copy.OBAtoms + lenDMA_FIFO(dma))'
      BY <1>1, <1>2, <2>1, <2>2 DEF FifoInv, FetchInv
    <3>3. Stream(p)'
      BY <1>1, <1>2, <2>3, <3>1, <3>2 DEF Stream, GotInv
    <3> QED
      BY <1>1, <3>3, Constants DEF StreamInv
  <2>4. CASE pc'[p] = "end" /\ ~(dma.remaining > 0) /\ Empty
    <3>1. /\ copy.OBAtoms \in Nat /\ cb.left \in Nat /\ Len(ob) \in Nat /\ dma.remaining \in Int
          /\ ob \in Seq(Int)
      BY LenProperties DEF DDTypes, DeviceTypes, FpgaTypes, DmaTypes, DMAs
    <3>2. lenDMA_FIFO(dma) = 0
      <4>1. dma.put = dma.get /\ dma.put \in 0 .. FIFO - 1
        BY <1>3, <2>4 DEF Empty, DMAs
      <4> QED
        BY <1>3, <4>1, Distances
    <3>3. /\ copy.OBAtoms + lenDMA_FIFO(dma) + dma.remaining = req[p].n
          /\ dma.remaining = cb.left + Len(ob)
      BY <1>2 DEF CountInv
    <3>4. dma.remaining = 0 /\ cb.left = 0 /\ Len(ob) = 0
      BY <2>4, <3>1, <3>3
    <3>5. copy.OBAtoms = req[p].n
      BY <3>1, <3>2, <3>3, <3>4
    <3>6. ob = << >>
      BY <3>1, <3>4, EmptySeq
    <3>7. ~dma.Overrun => Len(got) = copy.OBAtoms
      BY <1>2 DEF FifoInv, Holds
    <3>8. EndInv(p)'
      BY <1>1, <2>1, <3>4, <3>5, <3>6, <3>7 DEF EndInv
    <3>9. Stream(p)'
      BY <1>1, <1>2, <2>4, <3>8 DEF Stream, GotInv
    <3> QED
      BY <1>1, <3>9, Constants DEF StreamInv
  <2> QED
    BY <2>1, <2>3, <2>4
<1> QED
  BY <1>4, <1>5

(* Every step of a request keeps the stream.                                 *)
LEMMA ProcessKeepsStream ==
    ASSUME DDTypes, LockInv, DmacInv, WaitInv, StreamInv, NEW p \in Processes, Process(p)
    PROVE  StreamInv'
<1>0. pc \in [Processes -> Places] /\ sem \in Processes \cup {NULL}
  BY DEF DDTypes, ProcessTypes, DeviceTypes
<1>1. CASE Refused(p) \/ WaitInterrupted(p)
  <2>1. sem' = NULL
    BY <1>1 DEF Refused, WaitInterrupted, Leave
  <2> QED
    BY <2>1, Constants DEF StreamInv
<1>2. CASE Accepted(p) \/ Awake(p)
  <2>1. /\ pc[p] \in {"request", "early"} /\ sem' = sem /\ got' = got
        /\ \E x \in {"early", "command"} : pc' = [pc EXCEPT ![p] = x]
    BY <1>2 DEF Accepted, Awake, device
  <2>2. sem = p /\ pc'[p] \in {"early", "command"}
    BY <1>0, <2>1 DEF LockInv, Held
  <2>3. got = << >>
    BY <2>1, <2>2 DEF StreamInv, Stream
  <2> QED
    BY <2>1, <2>2, <2>3, StreamEmpty
<1>3. CASE libera_dd_write_CBfifo(p)
  BY <1>3, StreamCommand
<1>4. CASE getBlockedFromFIFO(p)
  BY <1>4, StreamEntry
<1>5. CASE Begin(p)
  BY <1>5, StreamBegin
<1>6. CASE SyncWait(p)
  <2>1. /\ pc[p] = "sync" /\ sem = p /\ sem' = sem /\ pc' = pc
        /\ UNCHANGED << fpga, req, dmac, copy, got >> /\ dma' = Refreshed(dma, ob, over)
    BY <1>6 DEF SyncWait, At, device
  <2>2. ~dma.transfer
    BY <2>1 DEF StreamInv, Stream, CountInv
  <2> QED
    BY <2>1, <2>2, StreamLook
<1>7. CASE SyncTimeout(p) \/ Abort(p) \/ CopyFails(p) \/ End(p)
  <2>1. sem = p /\ sem' = sem /\ UNCHANGED << fpga, req, dmac, dma, copy, got >>
    BY <1>7 DEF SyncTimeout, Abort, Copied, CopyFails, End, At, device
  <2>2. pc' = [pc EXCEPT ![p] = "fail"] \/ (pc[p] = "end" /\ pc' = [pc EXCEPT ![p] = "ok"])
    BY <1>7 DEF SyncTimeout, Abort, CopyFails, End, At, Goes
  <2>3. pc'[p] = "fail" \/ (pc[p] = "end" /\ pc'[p] = "ok")
    BY <1>0, <2>2
  <2> QED
    BY <2>1, <2>3, StreamOver
<1>8. CASE Synced(p)
  BY <1>8, StreamSynced
<1>9. CASE DataThere(p)
  BY <1>9, StreamThere
<1>10. CASE Copy(p)
  BY <1>10, StreamCopy
<1>11. CASE Again(p)
  BY <1>11, StreamAgain
<1> QED
  BY <1>1, <1>2, <1>3, <1>4, <1>5, <1>6, <1>7, <1>8, <1>9, <1>10, <1>11 DEF Process

(* Every step keeps the stream.                                              *)
LEMMA NextKeepsStream ==
    ASSUME DDTypes, LockInv, DmacInv, WaitInv, StreamInv, [Next]_vars
    PROVE  StreamInv'
<1>0. pc \in [Processes -> Places] /\ sem \in Processes \cup {NULL}
  BY DEF DDTypes, ProcessTypes, DeviceTypes
<1>1. CASE Tick \/ Fetch
  BY <1>1, StreamFpga
<1>2. CASE libera_dma_interrupt
  BY <1>2, StreamBlock
<1>3. CASE UNCHANGED vars \/ Trigger \/ libera_dd_handler
  <2>1. UNCHANGED << fpga, dmac, dma, copy, got, sem, pc, req >>
    BY <1>3 DEF vars, Trigger, libera_dd_handler, fpga, device
  <2> QED
    BY <2>1, StreamFrame
<1>4. ASSUME NEW p \in world.processes, Process(p) PROVE StreamInv'
  <2>1. p \in Processes
    BY WorldFacts DEF DDTypes, ProcessTypes
  <2> QED
    BY <1>4, <2>1, ProcessKeepsStream
<1>5. ASSUME NEW r \in Readers, Reader(r) PROVE StreamInv'
  <2>0. r \in Processes
    BY DEF Processes
  <2>1. CASE NothingToRead(r) \/ Failed(r) \/ Done(r)
    <3>1. sem' = NULL
      BY <2>1 DEF NothingToRead, Failed, Done, Leave
    <3> QED
      BY <3>1, Constants DEF StreamInv
  <2>2. CASE Lock(r)
    <3>1. sem' = r /\ got' = << >> /\ pc'[r] = "request"
      BY <1>0, <2>0, <2>2 DEF Lock
    <3> QED
      BY <2>0, <3>1, StreamEmpty
  <2>3. CASE \/ libera_dd_open(r) \/ libera_dd_release(r) \/ LIBERA_IOC_SET_DEC(r)
             \/ \E request \in world.requests, at \in world.times : libera_dd_llseek(r, request, at)
             \/ libera_dd_read(r) \/ LockInterrupted(r)
    <3>1. /\ UNCHANGED << fpga, dmac, dma, copy, got >> /\ sem' = sem
          /\ pc[r] \in {"closed", "user", "lock"}
          /\ \E x : pc' = [pc EXCEPT ![r] = x] \/ pc' = pc
          /\ \E x : req' = [req EXCEPT ![r] = x] \/ req' = req
      BY <2>3 DEF libera_dd_open, libera_dd_release, LIBERA_IOC_SET_DEC, libera_dd_llseek,
                  libera_dd_read, LockInterrupted, device
    <3>2. sem # r
      BY <2>0, <3>1 DEF LockInv, Held
    <3>3. \A p \in Processes \ {r} : pc'[p] = pc[p] /\ req'[p] = req[p]
      BY <1>0, <3>1 DEF DDTypes, ProcessTypes
    <3> QED
      BY <3>1, <3>2, <3>3, StreamFrame
  <2> QED
    BY <1>5, <2>1, <2>2, <2>3 DEF Reader
<1>6. CASE libera_acq_pm \/ Busy
  <2>1. /\ UNCHANGED << fpga, dmac, dma, copy, got, req >> /\ sem' = sem
        /\ pc[Acquirer] \in {"user", "trylock"}
        /\ \E x : pc' = [pc EXCEPT ![Acquirer] = x]
    BY <1>6 DEF libera_acq_pm, Busy, device
  <2>2. sem # Acquirer
    BY <2>1 DEF LockInv, Held, Processes
  <2>3. \A p \in Processes \ {Acquirer} : pc'[p] = pc[p]
    BY <1>0, <2>1
  <2> QED
    BY <2>1, <2>2, <2>3, StreamFrame
<1>7. CASE TryLock
  <2>1. sem' = Acquirer /\ got' = << >> /\ pc'[Acquirer] = "request" /\ Acquirer \in Processes
    BY <1>0, <1>7 DEF TryLock, Processes
  <2> QED
    BY <2>1, StreamEmpty
<1>8. CASE Acquired
  <2>1. sem' = NULL
    BY <1>8 DEF Acquired
  <2> QED
    BY <2>1, Constants DEF StreamInv
<1> QED
  BY <1>1, <1>2, <1>3, <1>4, <1>5, <1>6, <1>7, <1>8 DEF Next

-----------------------------------------------------------------------------
(* The inductive invariant.                                                  *)
DDInv == DDTypes /\ LockInv /\ IrqInv /\ DmacInv /\ WaitInv /\ StreamInv

(* The invariant holds at the start.                                         *)
LEMMA InitInv == Init => DDInv
<1> SUFFICES ASSUME Init PROVE DDInv
  OBVIOUS
<1>1. DDTypes
  BY InitTypes
<1>2. sem = NULL /\ enabled /\ dmac = NULL /\ \A p \in Processes : pc[p] \in {"user", "closed"}
  BY DEF Init
<1>3. LockInv
  BY <1>2, Constants DEF LockInv, Held
<1>4. IrqInv /\ DmacInv /\ WaitInv /\ StreamInv
  BY <1>2, Constants DEF IrqInv, DmacInv, WaitInv, Wait, StreamInv
<1> QED
  BY <1>1, <1>3, <1>4 DEF DDInv

(* Every step keeps the invariant.                                           *)
LEMMA NextKeepsInv == DDInv /\ [Next]_vars => DDInv'
<1> SUFFICES ASSUME DDInv, [Next]_vars PROVE DDInv'
  OBVIOUS
<1>1. DDTypes /\ LockInv /\ IrqInv /\ DmacInv /\ WaitInv /\ StreamInv
  BY DEF DDInv
<1>2. DDTypes'
  BY <1>1, NextKeepsTypes
<1> QED
  BY <1>1, <1>2, NextKeepsLock, NextKeepsDmac, NextKeepsWait, NextKeepsStream DEF DDInv

(* The inductive invariant of the data on demand holds: what every action    *)
(* of libera_dd.c, libera_pm.c and the transfer in ebpp.c relies on.         *)
THEOREM DDInvariant == Spec => []DDInv
BY InitInv, NextKeepsInv, PTL DEF Spec

(* The atoms a process copies are those of the time it asked for, in order   *)
(* and without a gap (libera_dd_read_specific, libera_dd_transfer_OBfifo_DMA,*)
(* libera_dma_interrupt).                                                    *)
THEOREM AtomsAlwaysHis == Spec => []GetsItsAtoms
<1>1. DDInv => GetsItsAtoms
  <2> SUFFICES ASSUME DDInv, sem # NULL, NEW i \in DOMAIN got
               PROVE  got[i] = Atom(req[sem].lmt) + (i - 1) * req[sem].dec
    BY DEF GetsItsAtoms
  <2>1. sem \in Processes /\ got \in Seq(Int)
    BY DEF DDInv, DDTypes, DeviceTypes
  <2>2. GotInv(req[sem])
    BY <2>1 DEF DDInv, StreamInv, Stream
  <2>3. i \in 1 .. Len(got)
    BY <2>1
  <2> QED
    BY <2>2, <2>3 DEF GotInv, Nth
<1> QED
  BY <1>1, DDInvariant, PTL

(* Nobody waits for the DD interrupt while it is masked with no entry left   *)
(* (libera_dd_handler, the ways out of a read and of an acquisition).        *)
THEOREM DDIrqAlwaysComes == Spec => []DDIrqComes
<1>1. DDInv => DDIrqComes
  <2> SUFFICES ASSUME DDInv, NEW p \in Processes, pc[p] = "irq", irqs = 0 PROVE enabled
    BY DEF DDIrqComes
  <2>1. sem = p
    BY DEF DDInv, LockInv, Held
  <2> QED
    BY <2>1 DEF DDInv, IrqInv, Transferring
<1> QED
  BY <1>1, DDInvariant, PTL

(* The DMA controller moves a block into slots that are free, in one piece,  *)
(* and no more than is to come: neither the copy nor a later block meets it  *)
(* (libera_dma_get_DMAC_csize, libera_dma_interrupt).                        *)
THEOREM BlocksAlwaysFit == Spec => []DmacInv
<1>1. DDInv => DmacInv
  BY DEF DDInv
<1> QED
  BY <1>1, DDInvariant, PTL

(* A transfer that no overrun has spoilt ends with the whole request: what   *)
(* the checks at its end look for, atoms left in the OB-fifo and another     *)
(* number of them than was asked for, "should never happen" and never does.  *)
EndsWhole ==
    \A p \in Processes :
        At(p, "end") /\ ~dma.Overrun =>
            ob = << >> /\ copy.OBAtoms = req[p].n /\ Len(got) = req[p].n

(* The two "BUG" returns after a transfer, -EIO and -EFAULT, are never taken *)
(* (libera_dd_transfer_OBfifo_DMA).                                          *)
THEOREM EndsAlwaysWhole == Spec => []EndsWhole
<1>1. DDInv => EndsWhole
  BY DEF DDInv, EndsWhole, At, StreamInv, Stream, EndInv
<1> QED
  BY <1>1, DDInvariant, PTL
=============================================================================
