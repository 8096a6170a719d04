----------------------------- MODULE LiberaTrigger -----------------------------
(***************************************************************************)
(* The triggers and the time of the instrument: the SC and MC interrupt    *)
(* handlers, the pairs of stamps they make, and how the time is set        *)
(* (libera_main.c, ebpp.c, the time ioctls of libera_event.c).             *)
(*                                                                         *)
(* The FPGA stamps a trigger with the low bits of the two clocks, SC and   *)
(* MC, in one FIFO for each; it marks there the overflow of the low bits,  *)
(* and interrupts once more half a period after it.  The handler runs with *)
(* interrupts off, but the FPGA goes on at any of its steps.               *)
(***************************************************************************)
EXTENDS Integers, Sequences

CONSTANTS
    P,          \* the period of the low bits, 0x4000000
    Phase,      \* what the SC clock is ahead of the MC clock
    D,          \* lgbl.d * lgbl.dfa
    Delay,      \* 20 * 1024 * D, in which SA starts again
    LOG,        \* TRIG_LOG, the slots of a CircBuf
    Refs,       \* the times that users set
    Worlds,     \* bound: how the triggers come, and how many; see TypeOK
    NULL

ASSUME TriggerAssumption ==
    /\ P \in Nat \ {0, 1} /\ P % 2 = 0
    /\ Phase \in Nat /\ D \in Nat \ {0} /\ Delay \in Nat /\ P <= Delay - (D - 1)
    /\ LOG \in Nat \ {0, 1} /\ Refs \subseteq Nat
    /\ NULL \notin Int /\ \A v \in SUBSET {"SC", "MC", "HELP"} : v # NULL
    /\ Worlds \subseteq [kinds : SUBSET {"TRIGGER", "POST_MORTEM"}, triggers : Nat,
                         ticks : Nat, sets : Nat, spaced : BOOLEAN, PM_MODE : 0 .. 2]

VARIABLES
    world,           \* one of Worlds
    now,             \* the MC clock
    fifo, help,      \* T_SC_STATUS and T_MC_STATUS; the time HELPMC was raised, or NULL
    evgen, sa,       \* T_MC_EVENTGEN armed, or NULL; is SA started?
    vec,             \* int_vec, the handlers still to call; NULL out of the interrupt
    sc_time, mc_time,
    stamp_raw,       \* what a handler made last of the low bits, with the real time
    paired,          \* paired_timestamps, each half with its trigger
    pm_freezed,
    TRIGMODE,
    settime,         \* dev->settime
    head,            \* event->list.head->time
    call,            \* the ioctl under way
    set,             \* (history) the time of the trigger that set LST, and the ref
    done             \* (history) triggers and ioctls so far

clocks  == << now, fifo, help, sa >>
process == << call >>
vars == << world, now, fifo, help, evgen, sa, vec, sc_time, mc_time, stamp_raw, paired,
           pm_freezed, TRIGMODE, settime, head, call, set, done >>

Kinds == {"TRIGGER", "POST_MORTEM"}
Clock(side, t) == IF side = "sc" THEN t + Phase ELSE t
High(t) == t - (t % P)

-----------------------------------------------------------------------------
(* The FPGA.  The handlers are assumed to come within half a period.         *)

InTime ==
    LET late(t) == now + 1 - t >= P \div 2
    IN  /\ \A side \in {"sc", "mc"} : fifo[side] # << >> => ~late(fifo[side][1].at)
        /\ help # NULL => ~late(help)

Quiet == vec = NULL /\ fifo.sc = << >> /\ fifo.mc = << >>

Tick(kinds) ==
    /\ InTime /\ now < world.ticks
    /\ kinds \subseteq world.kinds
    /\ kinds # {} => done.triggers < world.triggers /\ (world.spaced => Quiet)
    /\ now' = now + 1
    /\ fifo' = [side \in {"sc", "mc"} |->
          LET low == Clock(side, now') % P
          IN  IF low = 0 \/ kinds # {}
              THEN Append(fifo[side], [SELF_INC |-> low = 0, TRIG_VECTOR |-> kinds,
                                       low |-> low, at |-> now'])
              ELSE fifo[side]]
    /\ help' = IF now' % P = P \div 2 THEN now' ELSE help
    /\ IF evgen # NULL /\ now' % P = evgen
       THEN evgen' = NULL /\ sa' = TRUE
       ELSE UNCHANGED << evgen, sa >>
    /\ done' = [done EXCEPT !.triggers = @ + IF kinds = {} THEN 0 ELSE 1]
    /\ UNCHANGED << vec, sc_time, mc_time, stamp_raw, paired, pm_freezed, TRIGMODE,
                    settime, head, call, set >>

-----------------------------------------------------------------------------
(* libera_interrupt *)

int_vec ==
    { h \in {"SC", "MC", "HELP"} :
        CASE h = "SC" -> fifo.sc # << >> [] h = "MC" -> fifo.mc # << >>
          [] OTHER -> help # NULL }

(* The vector is read on entry, and again once its handlers have run. *)
libera_interrupt ==
    /\ vec \in {NULL, {}}
    /\ vec = NULL => int_vec # {}
    /\ vec' = IF int_vec = {} THEN NULL ELSE int_vec
    /\ UNCHANGED << clocks, evgen, sc_time, mc_time, stamp_raw, paired, pm_freezed,
                    TRIGMODE, settime, head, process, set, done >>

(* Mutant: MC is served before SC. *)
MCFirst(h) ==
    /\ vec # NULL /\ h \in vec
    /\ h = "SC" => "MC" \notin vec
    /\ h = "HELP" => vec = {"HELP"}

Serves(h) ==
    /\ vec # NULL /\ h \in vec
    /\ h = "MC" => "SC" \notin vec
    /\ h = "HELP" => vec = {"HELP"}

(* A handler leaves when it finds its FIFO empty. *)
Leave(h, side) ==
    /\ Serves(h) /\ fifo[side] = << >>
    /\ vec' = vec \ {h}
    /\ UNCHANGED << clocks, evgen, sc_time, mc_time, stamp_raw, paired, pm_freezed,
                    TRIGMODE, settime, head, process, set, done >>

(* The time of an entry: SELF_INC counts before the low bits are added. *)
(* Mutant: the overflow counts only for the entries to come.            *)
CountLate(side, e, high) == [high |-> high + IF e.SELF_INC THEN P ELSE 0,
                             stamp |-> high + e.low]

Stamp(side, e, high) ==
    LET h == high + IF e.SELF_INC THEN P ELSE 0
    IN  [high |-> h, stamp |-> h + e.low]

putLSTtoCircBuf(q, t, e) ==
    [q EXCEPT !.stamp[q.put] = [@ EXCEPT !.lst = t, !.at.lst = e.at]]
putLMTtoCircBuf(q, t, e) ==
    [q EXCEPT !.stamp[q.put] = [@ EXCEPT !.lmt = t, !.at.lmt = e.at], !.put = (@ + 1) % LOG]
getFromCircBuf(q) == q.stamp[(q.put + LOG - 1) % LOG]

(* The triggers of an entry whose stamp is kept. *)
Stored(k, e) == k \in e.TRIG_VECTOR /\ ~(k = "POST_MORTEM" /\ pm_freezed)

(* One entry of the SC FIFO: the first halves of the pairs. *)
libera_sc_handler ==
    /\ Serves("SC") /\ fifo.sc # << >>
    /\ LET e == Head(fifo.sc)
           s == Stamp("sc", e, sc_time)
           t == s.stamp + settime.lst.off
       IN  /\ fifo' = [fifo EXCEPT !.sc = Tail(@)]
           /\ sc_time' = s.high
           /\ stamp_raw' = [stamp |-> s.stamp, time |-> Clock("sc", e.at)]
           /\ paired' = [k \in Kinds |->
                IF ~Stored(k, e) THEN paired[k]
                ELSE putLSTtoCircBuf(paired[k],
                         IF k = "TRIGGER" /\ TRIGMODE = "SET" THEN s.stamp ELSE t, e)]
    /\ UNCHANGED << now, help, sa, evgen, vec, mc_time, pm_freezed, TRIGMODE, settime,
                    head, process, set, done >>

(* libera_set_LST and libera_set_LMT, from the pair of the trigger: the new  *)
(* offsets, and when SA is to start again.                                   *)
libera_set_LST(trig, s) ==
    IF "ST" \in s.update THEN [s EXCEPT !.lst.off = s.lst.ref - s.lst.scphi - trig.lst] ELSE s

libera_set_LMT(trig, s) ==
    IF "MT" \in s.update
    THEN LET all == s.lmt.ref - s.lmt.mcphi - trig.lmt + s.lmt.off_pll
         IN  [s EXCEPT !.lmt.off_pll = all % D, !.lmt.off = all - (all % D)]
    ELSE s

SAStart(trig, old, new) == trig.lmt + Delay - (new.lmt.off_pll - old.lmt.off_pll)

(* SELF_INC: the start is scheduled when it comes in the second half of this *)
(* period.  Mutant: the middle belongs to neither half.                      *)
ScheduleMiddle(high) ==
    IF high <= head /\ head < high + P /\ head - high > P \div 2 THEN head - high ELSE evgen

libera_mc_selfinc_specific(high) ==
    IF high <= head /\ head < high + P /\ head - high >= P \div 2 THEN head - high ELSE evgen

(* One entry of the MC FIFO: the second halves, which complete the pairs.    *)
(* In the mode SET a trigger sets the time.                                  *)
libera_mc_handler ==
    /\ Serves("MC") /\ fifo.mc # << >>
    /\ LET e == Head(fifo.mc)
           s == Stamp("mc", e, mc_time)
           t == s.stamp + settime.lmt.off
           sets == "TRIGGER" \in e.TRIG_VECTOR /\ TRIGMODE = "SET"
           put == [k \in Kinds |->
                     IF ~Stored(k, e) THEN paired[k]
                     ELSE putLMTtoCircBuf(paired[k],
                              IF k = "TRIGGER" /\ sets THEN s.stamp ELSE t, e)]
           trig == getFromCircBuf(put["TRIGGER"])
           new == [libera_set_LMT(trig, libera_set_LST(trig, settime)) EXCEPT !.update = {}]
       IN  /\ fifo' = [fifo EXCEPT !.mc = Tail(@)]
           /\ mc_time' = s.high
           /\ stamp_raw' = [stamp |-> s.stamp, time |-> e.at]
           /\ evgen' = IF e.SELF_INC THEN libera_mc_selfinc_specific(s.high) ELSE evgen
           /\ paired' = put
           /\ pm_freezed' = (pm_freezed \/ (Stored("POST_MORTEM", e) /\ world.PM_MODE # 0))
           /\ IF sets
              THEN /\ settime' = new
                   /\ TRIGMODE' = "GET"
                   /\ set' = IF "ST" \in settime.update
                             THEN [at |-> Clock("sc", e.at),
                                   ref |-> settime.lst.ref - settime.lst.scphi]
                             ELSE set
                   /\ IF "MT" \in settime.update
                      THEN sa' = FALSE /\ head' = SAStart(trig, settime, new)
                      ELSE UNCHANGED << sa, head >>
              ELSE UNCHANGED << settime, TRIGMODE, set, sa, head >>
    /\ UNCHANGED << now, help, vec, sc_time, process, done >>

(* HELPMC, in the middle of a period: the start is scheduled when it comes   *)
(* in the first half of the next.                                            *)
libera_mchelp_handler_specific ==
    /\ Serves("HELP")
    /\ help' = NULL
    /\ LET next == mc_time + P
       IN  evgen' = IF next <= head /\ head < next + P /\ head - next < P \div 2
                    THEN head - next ELSE evgen
    /\ vec' = {}
    /\ UNCHANGED << now, fifo, sa, sc_time, mc_time, stamp_raw, paired, pm_freezed,
                    TRIGMODE, settime, head, process, set, done >>

-----------------------------------------------------------------------------
(* The ioctls, which any interrupt may cut: SET_ST and SET_MT store the time *)
(* that the next trigger is to have, ...                                     *)

Sets == {"ST", "MT"}
Begin == vec = NULL /\ call = NULL /\ done.sets < world.sets

SetRef(what, ref) ==
    /\ Begin
    /\ settime' = IF what = "ST" THEN [settime EXCEPT !.lst.ref = ref]
                  ELSE [settime EXCEPT !.lmt.ref = ref]
    /\ call' = [pc |-> "mode", what |-> what, update |-> {}]
    /\ done' = [done EXCEPT !.sets = @ + 1]
    /\ UNCHANGED << clocks, evgen, vec, sc_time, mc_time, stamp_raw, paired, pm_freezed,
                    TRIGMODE, head, set >>

(* ... change the mode, ... *)
SetMode ==
    /\ vec = NULL /\ call # NULL /\ call.pc = "mode"
    /\ TRIGMODE' = "SET"
    /\ call' = [call EXCEPT !.pc = "load"]
    /\ UNCHANGED << clocks, evgen, vec, sc_time, mc_time, stamp_raw, paired, pm_freezed,
                    settime, head, set, done >>

(* ... and say what is to be set: update |= ..., a load and a store. *)
LoadUpdate ==
    /\ vec = NULL /\ call # NULL /\ call.pc = "load"
    /\ call' = [call EXCEPT !.pc = "store", !.update = settime.update \cup {call.what}]
    /\ UNCHANGED << clocks, evgen, vec, sc_time, mc_time, stamp_raw, paired, pm_freezed,
                    TRIGMODE, settime, head, set, done >>

StoreUpdate ==
    /\ vec = NULL /\ call # NULL /\ call.pc = "store"
    /\ settime' = [settime EXCEPT !.update = call.update]
    /\ call' = NULL
    /\ UNCHANGED << clocks, evgen, vec, sc_time, mc_time, stamp_raw, paired, pm_freezed,
                    TRIGMODE, head, set, done >>

(* SET_SCPHI and SET_MCPHI *)
SET_PHI(what, phi) ==
    /\ Begin
    /\ settime' = IF what = "ST" THEN [settime EXCEPT !.lst.scphi = phi]
                  ELSE [settime EXCEPT !.lmt.mcphi = phi]
    /\ done' = [done EXCEPT !.sets = @ + 1]
    /\ UNCHANGED << clocks, evgen, vec, sc_time, mc_time, stamp_raw, paired, pm_freezed,
                    TRIGMODE, head, call, set >>

(* LIBERA_CFG_PM_OVERFLOW_DUR unfreezes the post mortem. *)
Unfreeze ==
    /\ Begin /\ pm_freezed
    /\ pm_freezed' = FALSE
    /\ done' = [done EXCEPT !.sets = @ + 1]
    /\ UNCHANGED << clocks, evgen, vec, sc_time, mc_time, stamp_raw, paired, TRIGMODE,
                    settime, head, call, set >>

-----------------------------------------------------------------------------
Init ==
    /\ world \in Worlds
    /\ now = 0
    /\ fifo = [side \in {"sc", "mc"} |-> << >>] /\ help = NULL
    /\ evgen = NULL /\ sa = FALSE
    /\ vec = NULL
    /\ sc_time = High(Phase) /\ mc_time = 0
    /\ stamp_raw = [stamp |-> 0, time |-> 0]
    /\ paired = [k \in Kinds |->
          [put |-> 0, stamp |-> [i \in 0 .. LOG - 1 |->
              [lst |-> 0, lmt |-> 0, at |-> [lst |-> 0, lmt |-> 0]]]]]
    /\ pm_freezed = FALSE
    /\ TRIGMODE = "GET"
    /\ settime = [update |-> {}, lst |-> [ref |-> 0, scphi |-> 0, off |-> 0],
                  lmt |-> [ref |-> 0, mcphi |-> 0, off |-> 0, off_pll |-> 0]]
    /\ head = 2 * P
    /\ call = NULL
    /\ set = NULL
    /\ done = [triggers |-> 0, sets |-> 0]

Next ==
    /\ UNCHANGED world
    /\ \/ \E kinds \in SUBSET Kinds : Tick(kinds)
       \/ libera_interrupt
       \/ Leave("SC", "sc") \/ Leave("MC", "mc")
       \/ libera_sc_handler \/ libera_mc_handler \/ libera_mchelp_handler_specific
       \/ \E what \in Sets, ref \in Refs : SetRef(what, ref)
       \/ SetMode \/ LoadUpdate \/ StoreUpdate
       \/ \E what \in Sets, phi \in {0, 1} : SET_PHI(what, phi)
       \/ Unfreeze

Spec == Init /\ [][Next]_vars

-----------------------------------------------------------------------------
(* The low bits are extended to the time of the trigger whatever is queued:  *)
(* the overflow is counted in its place between the triggers, and also in    *)
(* the entry that holds both (libera_sc_handler, libera_mc_handler).         *)
StampsExact == stamp_raw.stamp = stamp_raw.time

(* "LST should always be put to CircBuf first", and SC is served before MC:  *)
(* the halves of the pair that users get are of one trigger.                 *)
PairsMatch ==
    \A k \in Kinds : LET pair == getFromCircBuf(paired[k]) IN pair.at.lst = pair.at.lmt

(* So it is when each trigger finds the handler at rest, whichever ioctl is  *)
(* cut, and a set of the system time is then exact: from that trigger on,    *)
(* the time is the reference without the phase, plus what passed.            *)
SpacedTriggersExact ==
    world.spaced =>
        /\ PairsMatch
        /\ set # NULL => set.at + settime.lst.off = set.ref

(* SA, stopped when the machine time is set, starts again: whichever half of *)
(* a period its start comes in, one of the two handlers has armed it in time *)
(* (libera_mc_selfinc_specific, libera_mchelp_handler_specific).             *)
SAStartsAgain == now >= head => sa

=============================================================================
