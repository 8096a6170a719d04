----------------------------- MODULE LiberaConfig -----------------------------
(***************************************************************************)
(* The devices that configure the FPGA: libera.cfg with the parameters,    *)
(* libera.dsc and libera.fa with blocks of registers (libera_cfg.c,        *)
(* libera_dsc.c, libera_fa.c), and what the EBPP family does for each      *)
(* parameter (ebpp.c).                                                     *)
(*                                                                         *)
(* The driver mirrors the parameters in param[] and writes the registers   *)
(* from it: at once, or, for the thresholds of the interlock and of the    *)
(* post mortem, when the last member of the atom is set.  X stands for     *)
(* both planes, XLOW for the four limits, and SR_AVERAGE_WINDOW for the    *)
(* parameters of the spike removal that are masked and written through.    *)
(*                                                                         *)
(* An ioctl is a step: it runs without sleeping once its argument has been *)
(* copied.  A block read or write is two, for copying to and from the user *)
(* may sleep, with the mutex of the device held.                           *)
(***************************************************************************)
EXTENDS Integers, Sequences, FiniteSets, SequencesExt

CONSTANTS
    Files,     \* the open files processes may hold
    DevOf,     \* file -> "cfg", "dsc" or "fa"
    Modes,     \* file -> the sets of modes it may be opened with
    Words,     \* values that are written to the registers of a block
    NULL,
    ilkdur,    \* module parameters: the longest overflow durations
    pmdur

ASSUME ConfigAssumption ==
    /\ DevOf \in [Files -> {"cfg", "dsc", "fa"}]
    /\ Modes \in [Files -> SUBSET SUBSET {"r", "w"}]
    /\ Words \subseteq Nat /\ ilkdur \in Nat /\ pmdur \in Nat
    /\ IsFiniteSet(Files)
    /\ NULL \notin Files \cup [modes : SUBSET {"r", "w"}, pos : Nat]

Devices == {"cfg", "dsc", "fa"}

VARIABLES
    dev,    \* libera_cfg.param, pm_freezed and the registers of the FPGA
    acc,    \* device -> master_filp and the counts of open files
    sem,    \* device -> the file whose call holds dev->sem
    buf,    \* device -> the words in dev->buf
    file,   \* file -> its modes and position; NULL when it is not open
    at,     \* file -> the block call under way
    seen    \* file -> (history) the registers as its read found them

accessVars == << acc, file >>
blockVars  == << sem, buf, at, seen >>
configVars == << dev, accessVars, blockVars >>

-----------------------------------------------------------------------------
(* The parameters *)

Ilk == {"ILK_XLOW", "ILK_MODE"}
Pm  == {"PM_MODE", "PM_XLOW"}

(* Mirrored until the atom is written. *)
Staged == Ilk \cup Pm

Limits == {"ILK_OVERFLOW_LIMIT", "PM_OVERFLOW_LIMIT"}

(* Written to a register of their own, under a mask. *)
Direct == [ KX |-> [reg |-> "FA_KX", mod |-> 2^30],
            SWDELAY |-> [reg |-> "DSC_SW_DELAY", mod |-> 2^30],
            SR_ENABLE |-> [reg |-> "FA_ENABLE", mod |-> 2^30],
            TRIGDELAY |-> [reg |-> "T_TRIG_DELAY.delay", mod |-> 2^14] ]

(* Kept in the mirror only, for other parts of the driver and the library.  *)
Software == {"PMOFFSET", "PMDEC", "SR_CSPI_ENABLE", "SP_THRESHOLD"}

(* In the FPGA only. *)
Unmirrored == [ DDC_MAFLENGTH |-> "DDC_MAF_LENGTH", DDC_MAFDELAY |-> "DDC_MAF_DELAY" ]

Coefficients == << "NOTCH_FIRST", "NOTCH_LAST" >>

Params ==
    Staged \cup Limits \cup DOMAIN Direct \cup Software \cup Range(Coefficients)
    \cup {"TRIGMODE", "SCPLL", "XOFFSET", "BCD_XOFFSET", "ILK_OVERFLOW_DUR",
          "ILK_GAIN_LIMIT", "ILKSTATUS", "EXTSWITCH", "PM_OVERFLOW_DUR",
          "SR_AVERAGE_WINDOW"}

IlkRegs == {"ILK_XLOW", "ILK_CONTROL", "DSC_ILK_GAIN_LIMIT",
            "DSC_ILK_OVERFLOW_LIMIT", "DSC_ILK_OVERFLOW_DUR"}
PmRegs  == {"PM_XLOW", "T_TRIG_DELAY.mode", "DSC_PM_OVERFLOW_LIMIT",
            "DSC_PM_OVERFLOW_DUR"}
(* The registers of the block devices, by word.  The block of libera.dsc     *)
(* spans the registers that libera.cfg writes too.                           *)
Block == [ dsc |-> << "DSC_MODE", "DSC_SW_SOURCE" >>, fa |-> << "FAI_0", "FAI_1" >>,
           cfg |-> << >> ]

Regs == IlkRegs \cup PmRegs \cup { Direct[i].reg : i \in DOMAIN Direct }
        \cup Range(Unmirrored) \cup Range(Block.dsc) \cup Range(Block.fa)
        \cup {"FA_X", "FA_AVE_WIN", "FA_NOTCH_FIRST", "FA_NOTCH_LAST"}

-----------------------------------------------------------------------------
(* What setting a parameter does: operators on the record dev.  The result   *)
(* is the record after, and whether the call succeeded or returned -EINVAL.  *)

Done(d) == [dev |-> d, ok |-> TRUE]
Refused(d) == [dev |-> d, ok |-> FALSE]

Mirror(d, i, v) == [d EXCEPT !.param[i] = v]
writel(d, v, r) == [d EXCEPT !.reg[r] = v]

(* The high half of a limit is the user's ADC count, the low half its square *)
(* over 256, which goes to the FPGA (times a factor that is 1 by default).   *)
Limit(count) == count * 2^16 + (((count * count) \div 256) % 2^16)
scale_kadc(limit) == limit % 2^16

SetOffset(d, v) ==
    LET m == Mirror(d, "XOFFSET", v)
    IN  Done(writel(m, v + m.param["BCD_XOFFSET"], "FA_X"))

SetLimit(d, i, count) ==
    IF count <= 2047 THEN Done(Mirror(d, i, Limit(count))) ELSE Refused(d)

SetIlkDuration(d, v) ==
    IF v <= ilkdur THEN Done(Mirror(d, "ILK_OVERFLOW_DUR", v)) ELSE Refused(d)

(* The registers of an atom as its mirrored members make them. *)
IlkAtom(p) == [ r \in IlkRegs |->
    CASE r = "ILK_XLOW" -> p["ILK_XLOW"]
      [] r = "ILK_CONTROL" -> p["ILK_MODE"]
      [] r = "DSC_ILK_GAIN_LIMIT" -> p["ILK_GAIN_LIMIT"] % 2^16
      [] r = "DSC_ILK_OVERFLOW_LIMIT" -> scale_kadc(p["ILK_OVERFLOW_LIMIT"])
      [] r = "DSC_ILK_OVERFLOW_DUR" -> p["ILK_OVERFLOW_DUR"] ]
PmAtom(p) == [ r \in PmRegs |->
    CASE r = "PM_XLOW" -> p["PM_XLOW"]
      [] r = "T_TRIG_DELAY.mode" -> p["PM_MODE"] % 4
      [] r = "DSC_PM_OVERFLOW_LIMIT" -> scale_kadc(p["PM_OVERFLOW_LIMIT"])
      [] r = "DSC_PM_OVERFLOW_DUR" -> p["PM_OVERFLOW_DUR"] ]

WriteAtom(d, atom) ==
    [d EXCEPT !.reg = [ r \in Regs |-> IF r \in DOMAIN atom THEN atom[r] ELSE @[r] ]]

CommitIlk(d, v) ==
    LET m == Mirror(d, "ILK_GAIN_LIMIT", v) IN Done(WriteAtom(m, IlkAtom(m.param)))

CommitPm(d, v) ==
    IF v <= pmdur
    THEN LET m == Mirror(d, "PM_OVERFLOW_DUR", v)
         IN  Done([WriteAtom(m, PmAtom(m.param)) EXCEPT !.pm_freezed = FALSE])
    ELSE Refused(d)

(* The window of the averages is changed with the spike removal disabled:    *)
(* FA_ENABLE is 0 in between, within the one call of the ioctl, and is put   *)
(* back before it returns.                                                   *)
SetAverageWindow(d, v) ==
    LET m == writel(Mirror(d, "SR_AVERAGE_WINDOW", v), v % 32, "FA_AVE_WIN")
    IN  Done(IF m.param["SR_ENABLE"] # 0 THEN writel(m, 1, "FA_ENABLE") ELSE m)

(* Bit 31 of the register, which is bit 16 here; the rest is kept.           *)
DSC_SW_EXTERNAL == 2^16

SetSwitch(d, v) ==
    LET source == d.reg["DSC_SW_SOURCE"] % DSC_SW_EXTERNAL
    IN  Done(writel(Mirror(d, "EXTSWITCH", v),
                    IF v # 0 THEN source + DSC_SW_EXTERNAL ELSE source, "DSC_SW_SOURCE"))

(* The filter goes to the FPGA with its last coefficient. *)
SetCoefficient(d, i, v) ==
    LET m == Mirror(d, i, v)
    IN  Done(IF i = Last(Coefficients)
             THEN WriteAtom(m, [ r \in {"FA_NOTCH_FIRST", "FA_NOTCH_LAST"} |->
                        m.param[IF r = "FA_NOTCH_FIRST" THEN "NOTCH_FIRST" ELSE i] ])
             ELSE m)

libera_cfg_set_specific(d, i, v) ==
    CASE i = "XOFFSET" -> SetOffset(d, v)
      [] i \in DOMAIN Direct ->
            Done(writel(Mirror(d, i, v), v % Direct[i].mod, Direct[i].reg))
      [] i \in Staged \cup Software -> Done(Mirror(d, i, v))
      [] i \in Limits -> SetLimit(d, i, v)
      [] i = "ILK_OVERFLOW_DUR" -> SetIlkDuration(d, v)
      [] i = "ILK_GAIN_LIMIT" -> CommitIlk(d, v)
      [] i = "PM_OVERFLOW_DUR" -> CommitPm(d, v)
      [] i = "ILKSTATUS" -> Done(Mirror(d, i, 0))
      [] i = "EXTSWITCH" -> SetSwitch(d, v)
      [] i \in DOMAIN Unmirrored -> Done(writel(d, v, Unmirrored[i]))
      [] i = "SR_AVERAGE_WINDOW" -> SetAverageWindow(d, v)
      [] i \in Range(Coefficients) -> SetCoefficient(d, i, v)
      [] OTHER -> Refused(d)

libera_cfg_get_specific(d, i) ==
    IF i \in DOMAIN Unmirrored THEN d.reg[Unmirrored[i]] ELSE d.param[i]

(* libera_cfg_cmd: TRIGMODE and the PLL states are common to all families.   *)
SetCfg(d, i, v) ==
    CASE i = "TRIGMODE" -> Done(Mirror(d, i, v))
      [] i = "SCPLL" -> Refused(d)
      [] OTHER -> libera_cfg_set_specific(d, i, v)

GetCfg(d, i) ==
    IF i \in {"TRIGMODE", "SCPLL"} THEN d.param[i] ELSE libera_cfg_get_specific(d, i)

(* Mutant: the register gets the new offset alone. *)
UpdateAlone(d, v) ==
    IF v # d.param["BCD_XOFFSET"]
    THEN writel(Mirror(d, "BCD_XOFFSET", v), v, "FA_X")
    ELSE d

(* The offsets of the beam-current dependence, set through libera.dsc.       *)
check_and_update(d, v) ==
    IF v # d.param["BCD_XOFFSET"]
    THEN LET m == Mirror(d, "BCD_XOFFSET", v)
         IN  writel(m, v + m.param["XOFFSET"], "FA_X")
    ELSE d

-----------------------------------------------------------------------------
(* Opening and closing: one writer, any number of readers. *)

Open(f, m) ==
    /\ file[f] = NULL /\ m \in Modes[f]
    /\ LET d == DevOf[f]
       IN  /\ sem[d] = NULL
           /\ "w" \in m => acc[d].master = NULL
           /\ acc' = [acc EXCEPT ![d].master = IF "w" \in m THEN f ELSE @,
                                 ![d].writers = @ + IF "w" \in m THEN 1 ELSE 0,
                                 ![d].readers = @ + IF "r" \in m THEN 1 ELSE 0,
                                 ![d].open_count = @ + 1]
    /\ file' = [file EXCEPT ![f] = [modes |-> m, pos |-> 0]]

Release(f) ==
    LET d == DevOf[f]
        m == file[f].modes
        writers == acc[d].writers - IF "w" \in m THEN 1 ELSE 0
    IN  /\ file[f] # NULL /\ at[f] = "user"
        /\ acc' = [acc EXCEPT
                     ![d].open_count = @ - 1,
                     ![d].readers = @ - IF "r" \in m THEN 1 ELSE 0,
                     ![d].writers = writers,
                     ![d].master = IF "w" \in m /\ writers = 0 THEN NULL ELSE @]
        /\ file' = [file EXCEPT ![f] = NULL]

libera_cfg_open(f, m) == DevOf[f] = "cfg" /\ Open(f, m)
libera_dsc_open(f, m) == DevOf[f] = "dsc" /\ Open(f, m)
libera_fa_open(f, m)  == DevOf[f] = "fa" /\ Open(f, m)
libera_cfg_release(f) == DevOf[f] = "cfg" /\ Release(f)
libera_dsc_release(f) == DevOf[f] = "dsc" /\ Release(f)
libera_fa_release(f)  == DevOf[f] = "fa" /\ Release(f)

-----------------------------------------------------------------------------
(* The block devices.  Positions and counts are in bytes, a word has four.   *)

BLOCKSIZE(d) == 4 * Len(Block[d])

(* llseek: within the block, and at a word. *)
Llseek(f, newpos) ==
    /\ file[f] # NULL /\ at[f] = "user"
    /\ newpos <= BLOCKSIZE(DevOf[f]) /\ newpos % 4 = 0
    /\ file' = [file EXCEPT ![f].pos = newpos]

libera_dsc_llseek(f, newpos) == DevOf[f] = "dsc" /\ Llseek(f, newpos)
libera_fa_llseek(f, newpos)  == DevOf[f] = "fa" /\ Llseek(f, newpos)

(* The words a call is about: cut at the end of the block; none when it      *)
(* starts there or its count is not whole words.                             *)
Span(f, count) ==
    LET size == BLOCKSIZE(DevOf[f])
        n    == IF count > size - file[f].pos THEN size - file[f].pos ELSE count
    IN  IF n % 4 # 0 THEN {}
        ELSE (file[f].pos \div 4 + 1) .. ((file[f].pos + n) \div 4)

(* read: the registers are copied to dev->buf, and that to the user. *)
BlockRead(f, count, locks) ==
    LET d == DevOf[f]
    IN  /\ file[f] # NULL /\ "r" \in file[f].modes /\ at[f] = "user"
        /\ locks => sem[d] = NULL
        /\ Span(f, count) # {}
        /\ sem' = IF locks THEN [sem EXCEPT ![d] = f] ELSE sem
        /\ buf' = [buf EXCEPT ![d] = [ k \in Span(f, count) |-> dev.reg[Block[d][k]] ]]
        /\ seen' = [seen EXCEPT ![f] = buf'[d]]
        /\ at' = [at EXCEPT ![f] = "reading"]

ReadNoLock(f, count) == BlockRead(f, count, FALSE)

StartRead(f, count) == BlockRead(f, count, TRUE)

(* copy_to_user has copied, or failed with -EFAULT. *)
FinishRead(f) ==
    LET d == DevOf[f]
    IN  /\ at[f] = "reading"
        /\ \/ file' = [file EXCEPT ![f].pos = @ + 4 * Cardinality(DOMAIN seen[f])]
           \/ UNCHANGED file
        /\ sem' = [sem EXCEPT ![d] = NULL]
        /\ at' = [at EXCEPT ![f] = "user"]
        /\ seen' = [seen EXCEPT ![f] = NULL]
        /\ UNCHANGED buf

(* write: the user's words go to dev->buf, or copy_from_user fails, ...      *)
StartWrite(f, count) ==
    LET d == DevOf[f]
    IN  /\ file[f] # NULL /\ "w" \in file[f].modes /\ at[f] = "user"
        /\ sem[d] = NULL
        /\ Span(f, count) # {}
        /\ \E w \in Words : buf' = [buf EXCEPT ![d] = [ k \in Span(f, count) |-> w ]]
        /\ sem' = [sem EXCEPT ![d] = f]
        /\ at' = [at EXCEPT ![f] = "writing"]
        /\ UNCHANGED seen

(* ... and from there to the registers. *)
FinishWrite(f) ==
    LET d == DevOf[f]
    IN  /\ at[f] = "writing"
        /\ dev' = WriteAtom(dev, [ r \in { Block[d][k] : k \in DOMAIN buf[d] } |->
                        buf[d][CHOOSE k \in DOMAIN buf[d] : Block[d][k] = r] ])
        /\ file' = [file EXCEPT ![f].pos = @ + 4 * Cardinality(DOMAIN buf[d])]
        /\ sem' = [sem EXCEPT ![d] = NULL]
        /\ at' = [at EXCEPT ![f] = "user"]
        /\ UNCHANGED << buf, seen >>

libera_dsc_read(f, count) == DevOf[f] = "dsc" /\ StartRead(f, count)
libera_fa_read(f, count)  == DevOf[f] = "fa" /\ StartRead(f, count)
libera_dsc_write(f, count) == DevOf[f] = "dsc" /\ StartWrite(f, count)
libera_fa_write(f, count)  == DevOf[f] = "fa" /\ StartWrite(f, count)

-----------------------------------------------------------------------------
(* libera_init_specific sets the mirror, and with it the FPGA; the           *)
(* parameters of the block RAM and of the PLLs are found, not set.           *)

ParamsInit == [ i \in Params |->
    CASE i = "KX" -> 10000000
      [] i \in {"ILK_XLOW", "PM_XLOW"} -> -1000000
      [] i = "ILK_MODE" -> 3
      [] i \in Limits -> Limit(1900)
      [] i \in {"ILK_OVERFLOW_DUR", "PM_OVERFLOW_DUR"} -> 5
      [] i = "ILK_GAIN_LIMIT" -> 32
      [] i \in {"PMDEC", "SR_CSPI_ENABLE"} -> 1
      [] i = "SP_THRESHOLD" -> 100
      [] OTHER -> 0 ]

RegsInit == [ r \in Regs |->
    IF r \in IlkRegs THEN IlkAtom(ParamsInit)[r]
    ELSE IF r \in PmRegs THEN PmAtom(ParamsInit)[r]
    ELSE IF r = "FA_KX" THEN ParamsInit["KX"] ELSE 0 ]

ConfigInit ==
    /\ dev = [param |-> ParamsInit, reg |-> RegsInit, pm_freezed |-> FALSE]
    /\ acc = [d \in Devices |->
                [master |-> NULL, readers |-> 0, writers |-> 0, open_count |-> 0]]
    /\ sem = [d \in Devices |-> NULL]
    /\ buf = [d \in Devices |-> << >>]
    /\ file = [f \in Files |-> NULL]
    /\ at = [f \in Files |-> "user"]
    /\ seen = [f \in Files |-> NULL]
=============================================================================
