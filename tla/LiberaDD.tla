-------------------------------- MODULE LiberaDD --------------------------------
(***************************************************************************)
(* The data on demand of the instrument: the DD device, the acquisition of *)
(* the post mortem data and the DMA engine under both (libera_dd.c,        *)
(* libera_pm.c, the DD part of ebpp.c, the DMA part of libera_main.c).     *)
(*                                                                         *)
(* The FPGA writes an atom every d ticks of LMT into a circular buffer.  A *)
(* command makes it fetch atoms from a position there into the OB-fifo and *)
(* interrupt; the DMA controller moves them in blocks into the DMA fifo,   *)
(* and the process copies them from there.  An atom is known by its number.*)
(***************************************************************************)
EXTENDS Integers, Sequences

CONSTANTS
    Readers,        \* the processes with a file of the DD device
    Acquirer,       \* the process that asks for LIBERA_EVENT_ACQ_PM
    d,              \* lgbl.d
    LSC, FLMC,      \* the frequencies of LST and LMT
    CIRCBUF,        \* LIBERA_DD_CIRCBUF_ATOMS
    SAFE,           \* LIBERA_DD_CIRCBUF_SAFE
    MARGIN,         \* LIBERA_DD_READSYNC_MARGIN
    INADVANCE,      \* LIBERA_DD_MAX_INADVANCE
    BLOCK, FIFO,    \* LIBERA_DMA_BLOCK_ATOMS, LIBERA_DMA_FIFO_ATOMS
    OB,             \* the atoms that the OB-fifo holds
    DEC,            \* the decimation of the filter
    TRIG_LOG,       \* the slots of dd_irqevents
    pmsize, PMOFFSET, PMDEC,
    Worlds,         \* bound: who is there, the times and sizes; see DDAssumption
    NULL

(* LMT is slower than LST, by little: MARGIN atoms in LST are more than half *)
(* an atom in LMT.  SAFE is an atom at least, and leaves room for who is     *)
(* woken when the MARGIN and the atom after it are over.  The filter of the  *)
(* FPGA takes every atom or one of DEC (DD_CBH_DEC_1, DD_CBH_DEC_64); the    *)
(* driver takes any decimation but 0, and those two are given.  The buffer   *)
(* has been full once when an acquisition looks at its time: LMT, which the  *)
(* driver holds without a sign, does not go below 0.                         *)
ASSUME DDAssumption ==
    /\ Acquirer \notin Readers /\ NULL \notin Readers \cup {Acquirer}
    /\ d \in Nat \ {0} /\ LSC \in Nat \ {0} /\ FLMC \in 1 .. LSC
    /\ CIRCBUF \in Nat \ {0} /\ SAFE \in d .. CIRCBUF * d /\ MARGIN \in Nat \ {0}
    /\ INADVANCE \in Nat /\ BLOCK \in Nat \ {0} /\ FIFO \in Nat \ {0, 1} /\ OB \in Nat \ {0}
    /\ DEC \in Nat \ {0} /\ PMDEC \in {1, DEC} /\ TRIG_LOG \in Nat \ {0, 1}
    /\ pmsize \in Nat \ {0} /\ PMOFFSET \in Int
    /\ d \div 2 < (MARGIN * d * FLMC) \div LSC
    /\ MARGIN * d + (d * LSC) \div FLMC <= CIRCBUF * d - SAFE
    /\ Worlds \subseteq [processes : SUBSET (Readers \cup {Acquirer}), first : Nat, ticks : Nat,
                         calls : Nat, counts : SUBSET Nat, times : SUBSET Nat,
                         requests : SUBSET {"ST", "MT", "IMPLICIT"}, decs : SUBSET {1, DEC}]
    /\ \A w \in Worlds :
          Acquirer \in w.processes => (w.first - 1) * d >= CIRCBUF * d - SAFE

VARIABLES
    world,          \* one of Worlds
    now,            \* the atoms in the circular buffer are those before now
    trigger,        \* the LMT of the last trigger
    cb,             \* the command: its next atom, the atoms left, their distance
    ob, over,       \* the OB-fifo and its OVERRUN bit
    enabled,        \* LIBERA_INTERRUPT_DD_MASK
    irqs,           \* dd_irqevents, the number of its entries
    dmac,           \* the block the DMA controller moves: slot, atoms; or NULL
    dma,            \* lgbl.dma
    sem,            \* dd->sem
    Qts, dec,       \* per file: the request and the decimation
    pc,
    req,            \* the request under way: its LMT, atoms, decimation
    copy,           \* fifo_atoms still to copy, OBAtoms
    got,            \* (history) the atoms copied for the request
    last,           \* (history) per file: the atom after those of the last read, or NULL
    calls           \* (history) requests so far

fpga   == << now, cb, ob, over >>
device == << sem, enabled, irqs >>
files  == << Qts, dec, last >>
vars == << world, now, trigger, cb, ob, over, enabled, irqs, dmac, dma, sem,
           Qts, dec, pc, req, copy, got, last, calls >>

Processes == Readers \cup {Acquirer}
Junk == -1
Least(a, b) == IF a < b THEN a ELSE b

-----------------------------------------------------------------------------
(* Times.  A conversion drops what is less than the unit it yields.          *)

mt2lmt(mt) == mt * d
lmt2mt(lmt) == lmt \div d
lst2lmt(lst, s) ==
    IF lst > s.lst THEN s.lmt + ((lst - s.lst) * FLMC) \div LSC
    ELSE s.lmt - ((s.lst - lst) * FLMC) \div LSC
(* The atom nearest to an LMT, and its place.  HB_start_lmt is 0. *)
Atom(lmt) == (lmt + d \div 2) \div d
get_circ_offset_lmt(lmt) == Atom(lmt) % CIRCBUF

(* libera_get_CTIME, which takes less than an atom to return. *)
Time(n) == [lmt |-> n * d, lst |-> (n * d * LSC) \div FLMC]
Before(n) == IF n = 0 THEN 0 ELSE n - 1
CTimes == { Time(now), Time(Before(now)) }

(* What a time is after the start of the request, by the clock in which its  *)
(* process waits: wait_lst and wait_lmt.                                     *)
Since(p, lmt, c) ==
    IF p \in Readers /\ Qts[p].request = "ST" THEN c.lst - Qts[p].lst ELSE c.lmt - lmt
TooLate(delta) == delta > CIRCBUF * d - SAFE
Ahead(delta) == MARGIN * d - delta

-----------------------------------------------------------------------------
(* The FPGA *)

(* What the FPGA is to do before the next atom is there: it is faster than   *)
(* the acquisition.                                                          *)
Fetches == cb.left > 0 /\ Len(ob) < OB /\ cb.next < now

(* Who waits for a time is awake before the atom after it, and who has looked *)
(* at the time gives the command at once.                                     *)
Prompt(p) ==
    pc[p] # "command" /\ ~(pc[p] = "early" /\ Ahead(Since(p, req[p].lmt, Time(now))) <= 0)

Tick ==
    /\ now < world.ticks /\ ~Fetches /\ \A p \in Processes : Prompt(p)
    /\ now' = now + 1
    /\ over' = (over \/ (cb.left > 0 /\ now - cb.next >= CIRCBUF))
    /\ UNCHANGED << trigger, cb, ob, device, dmac, dma, files, pc, req, copy, got, calls >>

Trigger ==
    /\ trigger = 0 /\ now > 0
    /\ trigger' \in (now - 1) * d + 1 .. now * d
    /\ UNCHANGED << fpga, device, dmac, dma, files, pc, req, copy, got, calls >>

(* The latest atom written at the place of an atom. *)
Stored(a) == now - 1 - ((now - 1 - a) % CIRCBUF)

Fetch ==
    /\ Fetches
    /\ ob' = Append(ob, Stored(cb.next))
    /\ cb' = [cb EXCEPT !.next = @ + cb.step, !.left = @ - 1]
    /\ UNCHANGED << now, trigger, over, device, dmac, dma, files, pc, req, copy, got, calls >>

(* libera_dd_handler: masks the interrupt and leaves an entry for the        *)
(* process that waits; an entry more than the FIFO holds is dropped.         *)
libera_dd_handler ==
    /\ enabled /\ ob # << >>
    /\ enabled' = FALSE
    /\ irqs' = Least(irqs + 1, TRIG_LOG - 1)
    /\ UNCHANGED << fpga, trigger, dmac, dma, sem, files, pc, req, copy, got, calls >>

-----------------------------------------------------------------------------
(* The DMA engine *)

lenDMA_FIFO(q) == (q.put + FIFO - q.get) % FIFO
Empty == dma.put = dma.get

(* libera_dma_get_DMAC_csize: what is still to come, the block, the slots up *)
(* to the end of the buffer, what is in the OB-fifo, and the free slots.     *)
(* Mutant: the end of the buffer is forgotten.                               *)
CsizeNoTail(q) ==
    [q EXCEPT !.csize = Least(Least(Least(q.remaining, BLOCK), q.size), FIFO - 1 - lenDMA_FIFO(q))]

libera_dma_get_DMAC_csize(q) ==
    [q EXCEPT !.csize = Least(FIFO - 1 - lenDMA_FIFO(q),
                              Least(Least(q.remaining, BLOCK), Least(FIFO - q.put, q.size)))]

(* The status register, OB_SIZE and OVERRUN; OVERRUN is remembered. *)
Refreshed(q, content, overrun) ==
    [q EXCEPT !.size = Len(content), !.Overrun = @ \/ overrun]

libera_dma_command(q) == [slot |-> q.put, n |-> q.csize]

putToDMA_FIFO(q) ==
    LET index == (q.put + q.csize) % FIFO
    IN  IF index = q.get THEN q ELSE [q EXCEPT !.put = index]

(* The block as it is in the buffer; what the OB-fifo has not is junk. *)
Moved ==
    [i \in 0 .. FIFO - 1 |->
        LET k == i - dmac.slot + 1
        IN  IF k \notin 1 .. dmac.n THEN dma.buf[i]
            ELSE IF k \in DOMAIN ob THEN ob[k] ELSE Junk]

IrqStatus(q, left) == Refreshed(q, left, over)

(* libera_dma_interrupt at the end of a block: the next block follows at     *)
(* once if it has any atoms.  Without a reader there is nobody to wake up.   *)
libera_dma_interrupt ==
    /\ dmac # NULL /\ dmac.n > 0
    /\ LET left == SubSeq(ob, dmac.n + 1, Len(ob))
           q == putToDMA_FIFO([IrqStatus(dma, left) EXCEPT
                                   !.buf = Moved, !.remaining = @ - dma.csize])
           next == libera_dma_get_DMAC_csize(q)
       IN  /\ ob' = left
           /\ dma' = [next EXCEPT !.transfer = next.csize > 0]
           /\ dmac' = IF next.csize > 0 THEN libera_dma_command(next) ELSE NULL
    /\ UNCHANGED << now, trigger, cb, over, device, files, pc, req, copy, got, calls >>

-----------------------------------------------------------------------------
(* Open, close, llseek and ioctl *)

NoRequest == [lmt |-> 0, n |-> 0, dec |-> 1]
Fresh == [request |-> "ST", mt |-> 0, lmt |-> 0, lst |-> 0, trigoffset |-> 0]

libera_dd_open(r) ==
    /\ pc[r] = "closed" /\ sem = NULL
    /\ Qts' = [Qts EXCEPT ![r] = Fresh] /\ dec' = [dec EXCEPT ![r] = 1]
    /\ last' = [last EXCEPT ![r] = NULL]
    /\ pc' = [pc EXCEPT ![r] = "user"]
    /\ UNCHANGED << fpga, trigger, device, dmac, dma, req, copy, got, calls >>

libera_dd_release(r) ==
    /\ pc[r] = "user"
    /\ pc' = [pc EXCEPT ![r] = "closed"]
    /\ UNCHANGED << fpga, trigger, device, dmac, dma, files, req, copy, got, calls >>

libera_dd_llseek(r, request, at) ==
    /\ pc[r] = "user" /\ calls < world.calls /\ request \in world.requests /\ at \in world.times
    /\ Qts' = [Qts EXCEPT ![r] =
          CASE request = "ST" -> [@ EXCEPT !.request = "ST", !.lst = Time(at).lst]
            [] request = "MT" -> [@ EXCEPT !.request = "MT", !.mt = at, !.lmt = mt2lmt(at)]
            [] OTHER -> [@ EXCEPT !.request = "IMPLICIT", !.trigoffset = at]]
    /\ last' = [last EXCEPT ![r] = NULL]
    /\ calls' = calls + 1
    /\ UNCHANGED << fpga, trigger, device, dmac, dma, dec, pc, req, copy, got >>

LIBERA_IOC_SET_DEC(r) ==
    /\ pc[r] = "user" /\ calls < world.calls /\ sem = NULL
    /\ dec' \in { [dec EXCEPT ![r] = x] : x \in world.decs \ {dec[r]} }
    /\ last' = [last EXCEPT ![r] = NULL]
    /\ calls' = calls + 1
    /\ UNCHANGED << fpga, trigger, device, dmac, dma, Qts, pc, req, copy, got >>

-----------------------------------------------------------------------------
(* A request: its lock, its time, its command *)

libera_dd_read(r) ==
    /\ pc[r] = "user" /\ calls < world.calls
    /\ \E n \in world.counts : req' = [req EXCEPT ![r] = [NoRequest EXCEPT !.n = n]]
    /\ calls' = calls + 1
    /\ pc' = [pc EXCEPT ![r] = "lock"]
    /\ UNCHANGED << fpga, trigger, device, dmac, dma, files, copy, got >>

Lock(r) ==
    /\ pc[r] = "lock" /\ sem = NULL
    /\ sem' = r
    /\ got' = << >>
    /\ pc' = [pc EXCEPT ![r] = "request"]
    /\ UNCHANGED << fpga, trigger, enabled, irqs, dmac, dma, files, req, copy, calls >>

LockInterrupted(r) ==
    /\ pc[r] = "lock" /\ sem # NULL
    /\ pc' = [pc EXCEPT ![r] = "user"]
    /\ UNCHANGED << fpga, trigger, device, dmac, dma, files, req, copy, got, calls >>

(* LIBERA_EVENT_ACQ_PM: asks whoever reads to leave, and tries for the lock  *)
(* at every jiffy, 31 times.                                                 *)
libera_acq_pm ==
    /\ pc[Acquirer] = "user" /\ calls < world.calls
    /\ calls' = calls + 1
    /\ pc' = [pc EXCEPT ![Acquirer] = "trylock"]
    /\ UNCHANGED << fpga, trigger, device, dmac, dma, files, req, copy, got >>

TryLock ==
    /\ pc[Acquirer] = "trylock" /\ sem = NULL
    /\ sem' = Acquirer
    /\ got' = << >>
    /\ req' = [req EXCEPT ![Acquirer] = [NoRequest EXCEPT !.n = pmsize]]
    /\ pc' = [pc EXCEPT ![Acquirer] = "request"]
    /\ UNCHANGED << fpga, trigger, enabled, irqs, dmac, dma, files, copy, calls >>

Busy ==
    /\ pc[Acquirer] = "trylock" /\ sem # NULL
    /\ pc' = [pc EXCEPT ![Acquirer] = "user"]
    /\ UNCHANGED << fpga, trigger, device, dmac, dma, files, req, copy, got, calls >>

(* The way out of both calls.  A read enables the interrupt on every way.    *)
Leave(p) ==
    /\ sem' = NULL /\ req' = [req EXCEPT ![p] = NoRequest] /\ got' = << >>
    /\ enabled' = (enabled \/ p \in Readers)
    /\ pc' = [pc EXCEPT ![p] = "user"]

(* The LMT a request starts at, by its kind. *)
Start(p, c) ==
    IF p = Acquirer THEN trigger + (PMOFFSET - pmsize) * d
    ELSE CASE Qts[p].request = "ST" -> lst2lmt(Qts[p].lst, c)
           [] Qts[p].request = "MT" -> Qts[p].lmt
           [] OTHER -> trigger + Qts[p].trigoffset * d

(* The time of a request in LMT and MT; from the read on it is one in MT. *)
Located(q, lmt) == [q EXCEPT !.lmt = lmt, !.mt = lmt2mt(lmt)]
Advanced(q, n, decimation) ==
    [q EXCEPT !.request = "MT", !.mt = @ + n * decimation, !.lmt = mt2lmt(q.mt + n * decimation)]

(* The time of the request is looked at: -ENODATA, -EAGAIN, or a wait for    *)
(* as long as it is ahead; an empty request returns at once.                 *)
Refused(p) ==
    /\ pc[p] = "request" /\ sem = p /\ req[p].n > 0
    /\ \E c \in CTimes :
          LET delta == Since(p, Start(p, c), c)
          IN  TooLate(delta) \/ Ahead(delta) > INADVANCE * d
    /\ Leave(p)
    /\ UNCHANGED << fpga, trigger, irqs, dmac, dma, files, copy, calls >>

NothingToRead(r) ==
    /\ pc[r] = "request" /\ req[r].n = 0
    /\ Leave(r)
    /\ Qts' = [Qts EXCEPT ![r] = Advanced(@, 0, 1)]
    /\ last' = [last EXCEPT ![r] = NULL]
    /\ UNCHANGED << fpga, trigger, irqs, dmac, dma, dec, copy, calls >>

Accepted(p) ==
    /\ pc[p] = "request" /\ sem = p /\ req[p].n > 0
    /\ \E c \in CTimes :
          LET lmt == Start(p, c)
              delta == Since(p, lmt, c)
          IN  /\ ~TooLate(delta) /\ Ahead(delta) <= INADVANCE * d
              /\ req' = [req EXCEPT ![p] = [@ EXCEPT !.lmt = lmt,
                                             !.dec = IF p = Acquirer THEN PMDEC ELSE dec[p]]]
              /\ Qts' = IF p # Acquirer /\ Qts[p].request = "IMPLICIT"
                        THEN [Qts EXCEPT ![p] = Located(@, lmt)] ELSE Qts
              /\ pc' = [pc EXCEPT ![p] = IF Ahead(delta) <= 0 THEN "command" ELSE "early"]
    /\ UNCHANGED << fpga, trigger, device, dmac, dma, dec, last, copy, got, calls >>

(* The wait over, a time in LST is converted with the time at which it ended. *)
Awake(p) ==
    /\ pc[p] = "early"
    /\ \E c \in CTimes :
          /\ Ahead(Since(p, req[p].lmt, c)) <= 0
          /\ req' = IF p \in Readers /\ Qts[p].request = "ST"
                    THEN [req EXCEPT ![p].lmt = Start(p, c)] ELSE req
    /\ pc' = [pc EXCEPT ![p] = "command"]
    /\ UNCHANGED << fpga, trigger, device, dmac, dma, files, copy, got, calls >>

(* A wait ends by a signal: the one for the time (libera_get_CTIME), which    *)
(* may time out as well, the sleep before it, and the one for the interrupt.  *)
WaitInterrupted(p) ==
    /\ \/ pc[p] = "request" /\ sem = p /\ req[p].n > 0
       \/ pc[p] = "early"
       \/ pc[p] = "irq" /\ irqs = 0
    /\ Leave(p)
    /\ UNCHANGED << fpga, trigger, irqs, dmac, dma, files, copy, calls >>

(* libera_dd_write_CBfifo: the FPGA starts at the place of the first atom,   *)
(* with an empty OB-fifo.  A block left from a request before is assumed to  *)
(* be moved by now.                                                          *)
libera_dd_write_CBfifo(p) ==
    /\ pc[p] = "command" /\ dmac = NULL
    /\ cb' = [next |-> Stored(get_circ_offset_lmt(req[p].lmt)), left |-> req[p].n,
              step |-> req[p].dec]
    /\ ob' = << >> /\ over' = FALSE
    /\ Qts' = IF p = Acquirer THEN Qts ELSE [Qts EXCEPT ![p] = Located(@, req[p].lmt)]
    /\ pc' = [pc EXCEPT ![p] = "irq"]
    /\ UNCHANGED << now, trigger, device, dmac, dma, dec, last, req, copy, got, calls >>

getBlockedFromFIFO(p) ==
    /\ pc[p] = "irq" /\ irqs > 0
    /\ irqs' = irqs - 1
    /\ pc' = [pc EXCEPT ![p] = "init"]
    /\ UNCHANGED << fpga, trigger, sem, enabled, dmac, dma, files, req, copy, got, calls >>

-----------------------------------------------------------------------------
(* The transfer, by the holder of sem *)

At(p, where) == pc[p] = where /\ sem = p
Goes(p, where) == pc' = [pc EXCEPT ![p] = where]

Begin(p) ==
    /\ At(p, "init")
    /\ dma' = libera_dma_get_DMAC_csize(
          [dma EXCEPT !.size = Len(ob), !.Overrun = FALSE, !.transfer = FALSE,
                      !.remaining = req[p].n, !.put = 0, !.get = 0])
    /\ copy' = [fifo_atoms |-> 0, OBAtoms |-> 0]
    /\ Goes(p, "sync")
    /\ UNCHANGED << fpga, trigger, device, dmac, files, req, got, calls >>

(* libera_OB_fifo_sync *)
dma_no_data == dma.remaining > 0 /\ dma.size = 0 /\ ~dma.Overrun

SyncWait(p) ==
    /\ At(p, "sync") /\ dma_no_data
    /\ dma' = Refreshed(dma, ob, over)
    /\ UNCHANGED << fpga, trigger, device, dmac, files, pc, req, copy, got, calls >>

SyncTimeout(p) ==
    /\ At(p, "sync") /\ dma_no_data /\ ob = << >>
    /\ Goes(p, "fail")
    /\ UNCHANGED << fpga, trigger, device, dmac, dma, files, req, copy, got, calls >>

(* The first command is given whatever the size.  Later ones wait for a free *)
(* slot, and an overrun ends the transfer.                                   *)
Synced(p) ==
    /\ At(p, "sync") /\ ~dma_no_data
    /\ LET q == libera_dma_get_DMAC_csize(dma)
           first == copy.OBAtoms = 0
       IN  IF ~first /\ (dma.Overrun \/ FIFO - 1 = lenDMA_FIFO(q))
           THEN /\ dma' = q
                /\ Goes(p, IF FIFO - 1 = lenDMA_FIFO(q) THEN "wait" ELSE "end")
                /\ UNCHANGED dmac
           ELSE /\ dma' = [q EXCEPT !.transfer = TRUE]
                /\ dmac' = libera_dma_command(q)
                /\ Goes(p, "wait")
    /\ UNCHANGED << fpga, trigger, device, files, req, copy, got, calls >>

DataThere(p) ==
    /\ At(p, "wait") /\ ~Empty
    /\ copy' = [copy EXCEPT !.fifo_atoms = lenDMA_FIFO(dma)]
    /\ Goes(p, "copy")
    /\ UNCHANGED << fpga, trigger, device, dmac, dma, files, req, got, calls >>

(* A signal, or an acquisition that wants the device, -ERESTARTSYS: while it  *)
(* waits, or once in a while when it has yielded the processor.              *)
Copied(p) == At(p, "copy") /\ copy.fifo_atoms = 0

Abort(p) ==
    /\ (At(p, "wait") /\ Empty) \/ Copied(p)
    /\ Goes(p, "fail")
    /\ UNCHANGED << fpga, trigger, device, dmac, dma, files, req, copy, got, calls >>

(* One atom of the batch; nobody looks at its slot again. *)
Copy(p) ==
    /\ At(p, "copy") /\ copy.fifo_atoms > 0
    /\ copy' = [fifo_atoms |-> copy.fifo_atoms - 1, OBAtoms |-> copy.OBAtoms + 1]
    /\ got' = IF copy.OBAtoms < req[p].n /\ ~dma.Overrun
              THEN Append(got, dma.buf[dma.get]) ELSE got
    /\ dma' = [dma EXCEPT !.get = (@ + 1) % FIFO, !.buf[dma.get] = Junk]
    /\ UNCHANGED << fpga, trigger, device, dmac, files, pc, req, calls >>

CopyFails(p) ==
    /\ At(p, "copy") /\ copy.fifo_atoms > 0 /\ p \in Readers
    /\ Goes(p, "fail")
    /\ UNCHANGED << fpga, trigger, device, dmac, dma, files, req, copy, got, calls >>

(* What is next: a new command, the next batch, or the end. *)
Again(p) ==
    /\ Copied(p)
    /\ IF ~dma.transfer /\ dma.remaining > 0
       THEN dma' = Refreshed(dma, ob, over) /\ Goes(p, "sync")
       ELSE /\ UNCHANGED dma
            /\ Goes(p, IF dma.remaining > 0 \/ ~Empty THEN "wait" ELSE "end")
    /\ UNCHANGED << fpga, trigger, device, dmac, files, req, copy, got, calls >>

(* Atoms left in the OB-fifo, or another number of them: -EIO, -EFAULT. *)
End(p) ==
    /\ At(p, "end")
    /\ Goes(p, IF ~dma.Overrun /\ (ob # << >> \/ copy.OBAtoms # req[p].n) THEN "fail" ELSE "ok")
    /\ UNCHANGED << fpga, trigger, device, dmac, dma, files, req, copy, got, calls >>

(* A failed read resets the SDRAM controller and returns what was copied. *)
Failed(r) ==
    /\ r \in Readers /\ At(r, "fail")
    /\ cb' = [cb EXCEPT !.left = 0] /\ ob' = << >>
    /\ last' = [last EXCEPT ![r] = NULL]
    /\ Leave(r)
    /\ UNCHANGED << now, over, trigger, irqs, dmac, dma, Qts, dec, copy, calls >>

Done(r) ==
    /\ r \in Readers /\ At(r, "ok")
    /\ Qts' = [Qts EXCEPT ![r] = Advanced(@, Len(got), req[r].dec)]
    /\ last' = [last EXCEPT ![r] = Atom(req[r].lmt) + Len(got) * req[r].dec]
    /\ Leave(r)
    /\ UNCHANGED << fpga, trigger, irqs, dmac, dma, dec, copy, calls >>

(* An acquisition enables the interrupt itself, and fails with fewer atoms   *)
(* than pmsize, -EIO.  Mutant: it leaves the interrupt to the next read.     *)
AcquiredMasked ==
    /\ \E where \in {"fail", "ok"} : At(Acquirer, where)
    /\ sem' = NULL
    /\ req' = [req EXCEPT ![Acquirer] = NoRequest] /\ got' = << >>
    /\ Goes(Acquirer, "user")
    /\ UNCHANGED << fpga, trigger, enabled, irqs, dmac, dma, files, copy, calls >>

Acquired ==
    /\ \E where \in {"fail", "ok"} : At(Acquirer, where)
    /\ sem' = NULL /\ enabled' = TRUE
    /\ req' = [req EXCEPT ![Acquirer] = NoRequest] /\ got' = << >>
    /\ Goes(Acquirer, "user")
    /\ UNCHANGED << fpga, trigger, irqs, dmac, dma, files, copy, calls >>

-----------------------------------------------------------------------------
Init ==
    /\ world \in Worlds
    /\ now = world.first /\ trigger = 0
    /\ cb = [next |-> 0, left |-> 0, step |-> 1] /\ ob = << >> /\ over = FALSE
    /\ enabled = TRUE /\ irqs = 0
    /\ dmac = NULL
    /\ dma = [put |-> 0, get |-> 0, remaining |-> 0, csize |-> 0, size |-> 0, Overrun |-> FALSE,
              transfer |-> FALSE, buf |-> [i \in 0 .. FIFO - 1 |-> Junk]]
    /\ sem = NULL
    /\ Qts = [r \in Readers |-> Fresh] /\ dec = [r \in Readers |-> 1]
    /\ pc = [p \in Processes |-> IF p = Acquirer THEN "user" ELSE "closed"]
    /\ req = [p \in Processes |-> NoRequest]
    /\ copy = [fifo_atoms |-> 0, OBAtoms |-> 0]
    /\ got = << >> /\ last = [r \in Readers |-> NULL] /\ calls = 0

Process(p) ==
    \/ Refused(p) \/ Accepted(p) \/ Awake(p) \/ WaitInterrupted(p) \/ libera_dd_write_CBfifo(p)
    \/ getBlockedFromFIFO(p) \/ Begin(p) \/ SyncWait(p) \/ SyncTimeout(p) \/ Synced(p)
    \/ DataThere(p) \/ Abort(p) \/ Copy(p) \/ CopyFails(p) \/ Again(p) \/ End(p)

Reader(r) ==
    \/ libera_dd_open(r) \/ libera_dd_release(r) \/ LIBERA_IOC_SET_DEC(r)
    \/ \E request \in world.requests, at \in world.times : libera_dd_llseek(r, request, at)
    \/ libera_dd_read(r) \/ Lock(r) \/ LockInterrupted(r) \/ NothingToRead(r)
    \/ Failed(r) \/ Done(r)

Next ==
    /\ UNCHANGED world
    /\ \/ Tick \/ Trigger \/ Fetch \/ libera_dd_handler \/ libera_dma_interrupt
       \/ \E p \in world.processes : Process(p)
       \/ \E r \in Readers \cap world.processes : Reader(r)
       \/ Acquirer \in world.processes /\ (libera_acq_pm \/ TryLock \/ Busy \/ Acquired)

Spec == Init /\ [][Next]_vars

-----------------------------------------------------------------------------
(* The atoms a process copies are those of the time it asked for, in order   *)
(* and without a gap, though the blocks are started by the interrupt as well *)
(* as by the process, the DMA fifo wraps, and the circular buffer goes on    *)
(* being written; only what an overrun spoils is left out                    *)
(* (libera_dma_get_DMAC_csize, libera_dma_interrupt,                         *)
(* libera_dd_transfer_OBfifo_DMA).                                           *)
GetsItsAtoms ==
    sem # NULL =>
        \A i \in DOMAIN got : got[i] = Atom(req[sem].lmt) + (i - 1) * req[sem].dec

(* Nobody waits for the DD interrupt while it is masked with no entry left:  *)
(* whoever took the entry has enabled it (libera_dd_handler, the ways out of *)
(* libera_dd_read_specific and libera_acq_pm).                               *)
DDIrqComes ==
    \A p \in Processes : pc[p] = "irq" /\ irqs = 0 => enabled

(* "MT & LMT increment for future read() requests": a read starts with the   *)
(* atom after those of the one before.                                       *)
ReadsFollow ==
    \A r \in Readers : pc[r] = "irq" /\ last[r] # NULL => Atom(req[r].lmt) = last[r]
=============================================================================
