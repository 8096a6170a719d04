------------------------------ MODULE CspiParams ------------------------------
(***************************************************************************)
(* The parameters of the CSPI library on top of the devices of module      *)
(* LiberaConfig: cspi_setenvparam, the cache of parameters that positions  *)
(* are computed with, and cspi_read, which brings the cache up to date     *)
(* (cspi.c and ebpp.c of cspi/).                                           *)
(*                                                                         *)
(* A process of the application is named by its file of /dev/libera.cfg,   *)
(* which the handles of its Environment share.  Its threads share the      *)
(* mutex of the Environment, the cache and its dirty flag.  A process may  *)
(* be killed at any point.  One parameter is set or got in a step, for a   *)
(* step is one ioctl.  The server of digital signal conditioning, dscd, is *)
(* external: it sets offsets through /dev/libera.dsc and then sends the    *)
(* event CFG with LEVEL.                                                   *)
(***************************************************************************)
EXTENDS LiberaConfig

CONSTANTS
    Threads,    \* the threads of the application
    ProcOf,     \* thread -> its process
    Requests,   \* thread -> what it may set: records [flags, p]
    Readers,    \* the threads that call cspi_read
    Listening,  \* the processes with an event handler
    Offsets,    \* offsets dscd may set
    BlockFiles, \* files of the block devices that processes use
    Counts,     \* byte counts they read or write
    g_decimation, \* what the driver says the decimation of the DDC is
    Worlds      \* bound: which of the above run together

ASSUME ParamsAssumption ==
    /\ ProcOf \in [Threads -> Files]
    /\ \A t \in Threads : DevOf[ProcOf[t]] = "cfg"
    /\ Requests \in [Threads -> SUBSET [flags : SUBSET STRING,
                                        p : [Params \cup DOMAIN Unmirrored -> Int]]]
    /\ Readers \subseteq Threads /\ Listening \subseteq Range(ProcOf)
    /\ Offsets \subseteq Int /\ BlockFiles \subseteq Files /\ Counts \subseteq Nat
    /\ Worlds \subseteq SUBSET (Threads \cup Files)
    /\ g_decimation \in Nat /\ NULL \notin Threads

VARIABLES
    running,    \* the world
    pc, todo,   \* thread -> where it is; what is still to be set, by place in the map
    call,       \* thread -> its request
    ep,         \* thread -> what its update of the cache has got so far
    ok,         \* thread -> whether that update succeeded
    envmutex,   \* process -> the thread that holds environment.mutex
    dirty,      \* process -> _is_cache_dirty
    cache,      \* process -> the cache
    coming,     \* process -> indices of CFG events on their way to its thread
    level,      \* dscd has yet to send the event that follows its offsets
    failed      \* process -> (history) the last update of its cache failed

threadVars == << pc, todo, call, ep, ok >>
procVars   == << envmutex, dirty, cache, coming, failed >>
vars == << configVars, running, threadVars, procVars, level >>

Processes == Range(ProcOf)
Proc(t) == ProcOf[t]
Goto(t, place) == pc' = [pc EXCEPT ![t] = place]

-----------------------------------------------------------------------------
(* Setting parameters *)

(* The order of the maps: base_setenvparam, custom_setenvparam, set_coeff.   *)
ParamMap ==
    << [idx |-> "TRIGMODE", mask |-> "TRIGMODE"], [idx |-> "KX", mask |-> "KX"],
       [idx |-> "XOFFSET", mask |-> "XOFFSET"],
       [idx |-> "ILK_MODE", mask |-> "ILK"], [idx |-> "ILK_XLOW", mask |-> "ILK"],
       [idx |-> "ILK_OVERFLOW_DUR", mask |-> "ILK"],
       [idx |-> "ILK_OVERFLOW_LIMIT", mask |-> "ILK"],
       [idx |-> "ILK_GAIN_LIMIT", mask |-> "ILK"],
       [idx |-> "ILKSTATUS", mask |-> "ILKSTATUS"],
       [idx |-> "PMOFFSET", mask |-> "PMOFFSET"], [idx |-> "PMDEC", mask |-> "PMDEC"],
       [idx |-> "TRIGDELAY", mask |-> "TRIGDELAY"],
       [idx |-> "EXTSWITCH", mask |-> "EXTSWITCH"],
       [idx |-> "SWDELAY", mask |-> "SWDELAY"],
       [idx |-> "DDC_MAFLENGTH", mask |-> "DDC_MAF"],
       [idx |-> "DDC_MAFDELAY", mask |-> "DDC_MAF"],
       [idx |-> "PM_MODE", mask |-> "PM"], [idx |-> "PM_XLOW", mask |-> "PM"],
       [idx |-> "PM_OVERFLOW_LIMIT", mask |-> "PM"],
       [idx |-> "PM_OVERFLOW_DUR", mask |-> "PM"],
       [idx |-> "SR_ENABLE", mask |-> "SR"], [idx |-> "SR_CSPI_ENABLE", mask |-> "SR"],
       [idx |-> "SR_AVERAGE_WINDOW", mask |-> "SR"],
       [idx |-> "SP_THRESHOLD", mask |-> "SP"],
       [idx |-> "NOTCH_FIRST", mask |-> "NOTCH"], [idx |-> "NOTCH_LAST", mask |-> "NOTCH"] >>

(* The places of the parameters a call is about ... *)
handle_params(flags) == { k \in DOMAIN ParamMap : ParamMap[k].mask \in flags }

(* Mutant: the map is walked from its end. *)
LastOf(places) == Max(places)

(* ... of which the first is set next. *)
FirstOf(places) == Min(places)

CACHE_MASK == {"KX", "XOFFSET", "SR", "SP", "LPLLDSTAT", "DSC", "FREV"}

(* The validators.  The gain is looked up in a table, and replaced by the    *)
(* packed gain and attenuation in the caller's structure: a structure that   *)
(* was used before does not pass.                                            *)
ValidBase(i, v) ==
    CASE i = "KX" -> v < 2^29
      [] i = "XOFFSET" -> -2^29 <= v /\ v < 2^29
      [] i = "ILK_MODE" -> v \in {0, 1, 3}
      [] i = "PMOFFSET" -> -2^19 < v /\ v < 2^19
      [] i = "TRIGDELAY" -> v \in 0 .. 16383
      [] i = "PMDEC" -> v \in {1, 64}
      [] i \in {"DDC_MAFLENGTH", "DDC_MAFDELAY"} -> 0 <= v /\ v < g_decimation
      [] OTHER -> TRUE

ValidLimit(i, v, used) ==
    CASE i \in {"ILK_XLOW", "PM_XLOW"} -> -2^24 <= v /\ v < 2^24
      [] i \in {"SR_ENABLE", "SR_CSPI_ENABLE"} -> v \in {0, 1}
      [] i = "SR_AVERAGE_WINDOW" -> v \in {0, 1, 2, 4, 8, 16}
      [] i = "PM_MODE" -> v \in {0, 1, 2}
      [] i = "SP_THRESHOLD" -> -2^15 <= v /\ v < 2^15
      [] i \in Limits -> 0 <= v /\ v < 32767
      [] i \in {"ILK_OVERFLOW_DUR", "PM_OVERFLOW_DUR"} -> 0 <= v /\ v < 1024
      [] i = "ILK_GAIN_LIMIT" -> ~used
      [] OTHER -> TRUE

Valid(i, v, used) == ValidBase(i, v) /\ ValidLimit(i, v, used)

(* cspi_setenvparam takes the mutex. *)
cspi_setenvparam(t) ==
    /\ pc[t] = "user" /\ file[Proc(t)] # NULL
    /\ envmutex[Proc(t)] = NULL
    /\ envmutex' = [envmutex EXCEPT ![Proc(t)] = t]
    /\ \E r \in Requests[t] : \E used \in IF "ILK" \in r.flags THEN BOOLEAN ELSE {FALSE} :
         /\ call' = [call EXCEPT ![t] = [flags |-> r.flags, p |-> r.p, used |-> used]]
         /\ todo' = [todo EXCEPT ![t] = handle_params(r.flags)]
    /\ Goto(t, "setting")
    /\ UNCHANGED << dev, acc, file, ep, ok, dirty, cache, coming, level, failed >>

(* The events signal_handler_hook looks for. *)
HookCases == {"KX", "XOFFSET", "LEVEL", "DSC", "SR_CSPI_ENABLE", "SR_AVERAGE_WINDOW",
              "SP_THRESHOLD"}

(* libera_send_event(LIBERA_EVENT_CFG, i); the event daemon hands it on.     *)
SendCfg(i) ==
    coming' = [pr \in Processes |->
                 IF pr \in Listening /\ file[pr] # NULL
                 THEN coming[pr] \cup ({i} \cap HookCases) ELSE coming[pr]]

(* set_param and the ioctl: -EPERM unless the file is the master.  The first *)
(* failure ends the call.                                                    *)
set_param(t) ==
    /\ pc[t] = "setting" /\ todo[t] # {}
    /\ LET k == FirstOf(todo[t])
           i == ParamMap[k].idx
           v == call[t].p[i]
           r == SetCfg(dev, i, v)
           sets == /\ Valid(i, v, call[t].used)
                   /\ acc["cfg"].master = Proc(t)
                   /\ r.ok
       IN  IF sets
           THEN /\ dev' = r.dev
                /\ SendCfg(i)
                /\ todo' = [todo EXCEPT ![t] = @ \ {k}]
           ELSE /\ todo' = [todo EXCEPT ![t] = {}]
                /\ UNCHANGED << dev, coming >>
    /\ UNCHANGED << acc, file, pc, call, ep, ok, envmutex, dirty, cache, level, failed >>

(* The messages to dscd and to the PLL daemon, which change neither device   *)
(* nor cache, and the end of custom_setenvparam.                             *)
custom_setenvparam(t) ==
    /\ pc[t] = "setting" /\ todo[t] = {}
    /\ dirty' = [dirty EXCEPT ![Proc(t)] = @ \/ call[t].flags \cap CACHE_MASK # {}]
    /\ envmutex' = [envmutex EXCEPT ![Proc(t)] = NULL]
    /\ call' = [call EXCEPT ![t] = NULL]
    /\ Goto(t, "user")
    /\ UNCHANGED << dev, acc, file, todo, ep, ok, cache, coming, level, failed >>

-----------------------------------------------------------------------------
(* The cache *)

(* The event thread runs signal_handler_hook. *)
signal_handler_hook(pr) ==
    /\ \E i \in coming[pr] : coming' = [coming EXCEPT ![pr] = @ \ {i}]
    /\ dirty' = [dirty EXCEPT ![pr] = TRUE]
    /\ UNCHANGED << dev, acc, file, threadVars, envmutex, cache, level, failed >>

(* custom_initop, called before the read and after it: "first", "second".    *)
custom_initop(t) ==
    /\ pc[t] \in {"first", "second"}
    /\ IF dirty[Proc(t)]
       THEN /\ dirty' = [dirty EXCEPT ![Proc(t)] = FALSE]
            /\ Goto(t, IF pc[t] = "first" THEN "lock1" ELSE "lock2")
            /\ UNCHANGED ok
       ELSE /\ Goto(t, IF pc[t] = "first" THEN "read" ELSE "op")
            /\ ok' = [ok EXCEPT ![t] = TRUE]
            /\ UNCHANGED dirty
    /\ UNCHANGED << dev, acc, file, todo, call, ep, envmutex, cache, coming, level, failed >>

(* ebpp_update_cache: one parameter after the other, with the mutex.         *)
StartUpdate(t) ==
    /\ pc[t] \in {"lock1", "lock2"} /\ envmutex[Proc(t)] = NULL
    /\ envmutex' = [envmutex EXCEPT ![Proc(t)] = t]
    /\ ep' = [ep EXCEPT ![t] = [x |-> dev.param["XOFFSET"], sr |-> 0]]
    /\ Goto(t, IF pc[t] = "lock1" THEN "get1" ELSE "get2")
    /\ UNCHANGED << dev, acc, file, todo, call, ok, dirty, cache, coming, level, failed >>

get_param(t) ==
    /\ pc[t] \in {"get1", "get2"}
    /\ ep' = [ep EXCEPT ![t].sr = dev.param["SR_AVERAGE_WINDOW"]]
    /\ Goto(t, IF pc[t] = "get1" THEN "ask1" ELSE "ask2")
    /\ UNCHANGED << dev, acc, file, todo, call, ok, procVars, level >>

(* dscd and the PLL daemon are asked last.  Without their answers the cache  *)
(* stays as it is.                                                           *)
UpdateFails(t) ==
    /\ pc[t] \in {"ask1", "ask2"}
    /\ ok' = [ok EXCEPT ![t] = FALSE]
    /\ failed' = [failed EXCEPT ![Proc(t)] = TRUE]
    /\ envmutex' = [envmutex EXCEPT ![Proc(t)] = NULL]
    /\ ep' = [ep EXCEPT ![t] = NULL]
    /\ Goto(t, IF pc[t] = "ask1" THEN "read" ELSE "op")
    /\ UNCHANGED << dev, acc, file, todo, call, dirty, cache, coming, level >>

StoreOffsets(t) ==
    /\ pc[t] \in {"ask1", "ask2"}
    /\ cache' = [cache EXCEPT ![Proc(t)].x = ep[t].x]
    /\ Goto(t, IF pc[t] = "ask1" THEN "bcd1" ELSE "bcd2")
    /\ UNCHANGED << dev, acc, file, todo, call, ep, ok, envmutex, dirty, coming, level, failed >>

StoreCache(t) ==
    /\ pc[t] \in {"bcd1", "bcd2"}
    /\ cache' = [cache EXCEPT ![Proc(t)] =
                    [x |-> @.x + dev.param["BCD_XOFFSET"], sr |-> ep[t].sr]]
    /\ ok' = [ok EXCEPT ![t] = TRUE]
    /\ failed' = [failed EXCEPT ![Proc(t)] = FALSE]
    /\ envmutex' = [envmutex EXCEPT ![Proc(t)] = NULL]
    /\ Goto(t, IF pc[t] = "bcd1" THEN "read" ELSE "op")
    /\ ep' = [ep EXCEPT ![t] = NULL]
    /\ UNCHANGED << dev, acc, file, todo, call, coming, level >>

(* Mutant: the flag is cleared when the update is done. *)
UpdateClears(t) == StoreCache(t) /\ dirty' = [dirty EXCEPT ![Proc(t)] = FALSE]

ebpp_update_cache(t) == StoreCache(t) /\ UNCHANGED dirty

-----------------------------------------------------------------------------
(* cspi_read on a connection of mode DD.  The operator is chosen by          *)
(* custom_getdefaultop, which brings the cache up to date and ignores        *)
(* whether it could; so does read_dd, after the data have come, and returns  *)
(* the error.                                                                *)

cspi_read(t) ==
    /\ t \in Readers /\ pc[t] = "user" /\ file[Proc(t)] # NULL
    /\ Goto(t, "first")
    /\ UNCHANGED << dev, acc, file, todo, call, ep, ok, procVars, level >>

read_dd(t) ==
    /\ pc[t] = "read"
    /\ Goto(t, "second")
    /\ UNCHANGED << dev, acc, file, todo, call, ep, ok, procVars, level >>

(* The operator computes positions with the cache, and the read returns; or  *)
(* it returns the error of custom_initop.                                    *)
ApplyOp(t) ==
    /\ pc[t] = "op"
    /\ Goto(t, "user")
    /\ ok' = [ok EXCEPT ![t] = TRUE]
    /\ UNCHANGED << dev, acc, file, todo, call, ep, procVars, level >>

-----------------------------------------------------------------------------
(* Processes and dscd *)

(* cspi_allochandle opens /dev/libera.cfg and marks the cache dirty.         *)
InitEnv(pr) ==
    /\ \E m \in Modes[pr] : libera_cfg_open(pr, m)
    /\ dirty' = [dirty EXCEPT ![pr] = TRUE]
    /\ UNCHANGED << dev, threadVars, envmutex, cache, coming, level, failed >>

(* The process frees its handle or is killed. *)
Exit(pr) ==
    /\ libera_cfg_release(pr)
    /\ pc' = [t \in Threads |-> IF Proc(t) = pr THEN "user" ELSE pc[t]]
    /\ todo' = [t \in Threads |-> IF Proc(t) = pr THEN {} ELSE todo[t]]
    /\ call' = [t \in Threads |-> IF Proc(t) = pr THEN NULL ELSE call[t]]
    /\ ep' = [t \in Threads |-> IF Proc(t) = pr THEN NULL ELSE ep[t]]
    /\ ok' = [t \in Threads |-> IF Proc(t) = pr THEN TRUE ELSE ok[t]]
    /\ envmutex' = [envmutex EXCEPT ![pr] = NULL]
    /\ dirty' = [dirty EXCEPT ![pr] = FALSE]
    /\ cache' = [cache EXCEPT ![pr] = [x |-> 0, sr |-> 0]]
    /\ coming' = [coming EXCEPT ![pr] = {}]
    /\ failed' = [failed EXCEPT ![pr] = FALSE]
    /\ UNCHANGED << dev, level >>

libera_dsc_ioctl_offsets(f) ==
    /\ DevOf[f] = "dsc" /\ acc["dsc"].master = f
    /\ \E v \in Offsets :
         /\ v # dev.param["BCD_XOFFSET"]
         /\ dev' = check_and_update(dev, v)
    /\ level' = TRUE
    /\ UNCHANGED << acc, file, threadVars, procVars >>

libera_dsc_ioctl_event(f) ==
    /\ DevOf[f] = "dsc" /\ acc["dsc"].master = f /\ level
    /\ SendCfg("LEVEL")
    /\ level' = FALSE
    /\ UNCHANGED << dev, acc, file, threadVars, envmutex, dirty, cache, failed >>

OpenOrClose(f) ==
    /\ \/ \E m \in Modes[f] : libera_dsc_open(f, m) \/ libera_fa_open(f, m)
       \/ libera_dsc_release(f) \/ libera_fa_release(f)
    /\ UNCHANGED << dev, threadVars, procVars, level >>

Blocks(f) ==
    \/ /\ \E pos \in 0 .. 8 : libera_dsc_llseek(f, pos) \/ libera_fa_llseek(f, pos)
       /\ UNCHANGED << dev, acc, blockVars >>
    \/ /\ \E n \in Counts : libera_dsc_read(f, n) \/ libera_fa_read(f, n)
                            \/ libera_dsc_write(f, n) \/ libera_fa_write(f, n)
       /\ UNCHANGED << dev, accessVars >>
    \/ FinishRead(f) /\ UNCHANGED << dev, acc >>
    \/ FinishWrite(f) /\ UNCHANGED acc

-----------------------------------------------------------------------------
Init ==
    /\ ConfigInit
    /\ running \in Worlds
    /\ pc = [t \in Threads |-> "user"] /\ todo = [t \in Threads |-> {}]
    /\ call = [t \in Threads |-> NULL] /\ ep = [t \in Threads |-> NULL]
    /\ ok = [t \in Threads |-> TRUE]
    /\ envmutex = [pr \in Processes |-> NULL]
    /\ dirty = [pr \in Processes |-> FALSE]
    /\ cache = [pr \in Processes |-> [x |-> 0, sr |-> 0]]
    /\ coming = [pr \in Processes |-> {}]
    /\ level = FALSE
    /\ failed = [pr \in Processes |-> FALSE]

ThreadStep(t) ==
    \/ cspi_setenvparam(t) \/ set_param(t) \/ custom_setenvparam(t)
    \/ cspi_read(t) \/ custom_initop(t) \/ StartUpdate(t) \/ get_param(t)
    \/ UpdateFails(t) \/ StoreOffsets(t) \/ ebpp_update_cache(t)
    \/ read_dd(t) \/ ApplyOp(t)

Next ==
    /\ UNCHANGED running
    /\ \/ /\ \/ \E t \in Threads \cap running : ThreadStep(t)
             \/ \E pr \in Processes \cap running :
                  InitEnv(pr) \/ Exit(pr) \/ signal_handler_hook(pr)
             \/ \E f \in (Files \ Processes) \cap running :
                  OpenOrClose(f) \/ libera_dsc_ioctl_offsets(f) \/ libera_dsc_ioctl_event(f)
          /\ UNCHANGED blockVars
       \/ \E f \in BlockFiles \cap running :
            Blocks(f) /\ UNCHANGED << threadVars, procVars, level >>

Spec == Init /\ [][Next]_vars

-----------------------------------------------------------------------------
ParamsTypeOK ==
    /\ DOMAIN dev.param = Params /\ DOMAIN dev.reg = Regs
    /\ \A d \in Devices :
         /\ acc[d].master \in Files \cup {NULL} /\ sem[d] \in Files \cup {NULL}
         /\ acc[d].writers \in {0, 1}
         /\ acc[d].open_count = Cardinality({ f \in Files : DevOf[f] = d /\ file[f] # NULL })
    /\ \A pr \in Processes : coming[pr] \subseteq HookCases

(* The offset the FPGA works with is the sum of what users set through       *)
(* libera.cfg and what dscd sets through libera.dsc, in whatever order, and  *)
(* the device has a master when, and only when, a file is open for writing   *)
(* (libera_cfg_set_specific, check_and_update, open and release).            *)
OffsetsAdd ==
    /\ ParamsTypeOK
    /\ dev.reg["FA_X"] = dev.param["XOFFSET"] + dev.param["BCD_XOFFSET"]
    /\ \A d \in Devices :
         acc[d].master # NULL <=> \E f \in Files :
             DevOf[f] = d /\ file[f] # NULL /\ "w" \in file[f].modes

(* What a request asks the FPGA for. *)
Asked(r) ==
    [ i \in Params |-> IF i \in Limits THEN Limit(r.p[i])
                       ELSE IF i \in DOMAIN r.p THEN r.p[i] ELSE 0 ]
Requested(mask, atom(_)) ==
    {atom(ParamsInit)} \cup
    { atom(Asked(r)) : r \in { q \in UNION Range(Requests) : mask \in q.flags } }

(* The thresholds of the interlock, and of the post mortem, that the FPGA    *)
(* has are those of one request, never a mixture: not when a member is       *)
(* refused half way, nor when the process is killed and another sets its own *)
(* (set_param through CommitIlk and CommitPm).                               *)
AtomsOfOneRequest ==
    /\ [ r \in IlkRegs |-> dev.reg[r] ] \in Requested("ILK", IlkAtom)
    /\ [ r \in PmRegs |-> dev.reg[r] ] \in Requested("PM", PmAtom)

Updating(pr) ==
    \E t \in Threads : Proc(t) = pr /\ pc[t] \in
        {"lock1", "lock2", "get1", "get2", "ask1", "ask2", "bcd1", "bcd2"}

(* A process whose flag is clear, with no event on its way and no update     *)
(* under way, computes positions with the offset the FPGA has, unless its    *)
(* last update failed (signal_handler_hook, custom_initop,                   *)
(* ebpp_update_cache, libera_dsc_ioctl).                                     *)
CacheFresh ==
    \A pr \in Listening :
        file[pr] # NULL /\ ~dirty[pr] /\ coming[pr] = {} /\ ~level
        /\ ~Updating(pr) /\ ~failed[pr]
        => /\ cache[pr].x = dev.reg["FA_X"]
           /\ cache[pr].sr = dev.param["SR_AVERAGE_WINDOW"]

(* What a read of a block copies to its user is what the registers held when *)
(* it read them, though dev->buf is one for all the files of the device and  *)
(* the copying may sleep (libera_dsc_read, libera_fa_read).                  *)
ReadDelivers ==
    \A f \in Files : at[f] = "reading" => buf[DevOf[f]] = seen[f]

(* A read that returns CSPI_OK computed its positions with a cache that was  *)
(* brought up to date.  The comment of libera_dsc_ioctl relies on it: the    *)
(* event "will cause CSPI to update cached parameters".                      *)
OkMeansUpdated ==
    \A t \in Readers : pc[t] = "op" /\ ok[t] => ~failed[Proc(t)]
=============================================================================
