----------------------------- MODULE ChaosDriver -----------------------------
(***************************************************************************)
(* The CHAOS driver of the instrument (LiberaBrillianceCSPIDriver) and the *)
(* control unit above it: the commands default, acquire, env and time, of  *)
(* which one at a time is being executed.                                  *)
(*                                                                         *)
(* A command's setHandler runs once; then the scheduler of the framework,  *)
(* which is not in the repository, calls its acquireHandler again and      *)
(* again until the handler ends the command, or until a newer command      *)
(* kills it between two calls (SUBMIT_AND_Kill, daqLiberaClient.cpp).  The *)
(* default command runs whenever no other does.                            *)
(*                                                                         *)
(* A step is one call of a handler: only the wait for a trigger lets       *)
(* another thread in, the event thread of the CSPI library.  Of the CSPI   *)
(* connection there is what the driver's calls depend on; CspiEnv and      *)
(* CspiParams model the library itself.                                    *)
(***************************************************************************)
EXTENDS Integers, FiniteSets

CONSTANTS
    Modes,        \* the mode words that commands ask for, as sets of bits
    Loops,        \* the numbers of loops that commands ask for
    DeviceFails,  \* whether calls on the devices may fail
    MaxCount      \* bound: ACQUISITION counts up to here, past all loops that end

Devices == {"libera.dd", "libera.sa", "libera.pm", "libera.adc"}
None == "none"

ASSUME ChaosAssumption ==
    /\ Modes \subseteq SUBSET {"DD", "SA", "ADC", "PM", "AVG", "CONTINUOUS",
                               "SINGLEPASS", "TRIGGERED"}
    /\ Loops \subseteq Int /\ DeviceFails \in BOOLEAN
    /\ MaxCount \in Nat /\ \A n \in Loops : n + 1 < MaxCount

VARIABLES
    drv,      \* cfg of the driver: operation, mode, want_trigger, sized
              \*   (datasize > 0), want (the bits want_setmt and want_setst)
    env,      \* env_handle: "none", "held", or "lost" to a locked mutex
    con,      \* con_handle: allocated, mode, fd, and whether the event thread
              \*   calls event_callback for it
    seen,     \* _event_id = CSPI_EVENT_TRIGGET
    unit,     \* of the control unit: "down", "up", or "stuck" in initIO
    cmd,      \* the command: kind, loops, asked, phase, timed, and nodata:
              \*   the published data set it is to read into has no buffer
    MODE,     \* published: MODE # 0
    ACQUISITION,  \* published, counted by the command
    error,    \* published, as a set of flags
    hollow,   \* an acquisition was counted that read nothing
    left,     \* how the last acquisition ended
    resent    \* the halves of a time that the last SETTIME sent without being asked

devVars == << drv, con >>
dataVars == << MODE, ACQUISITION, error, hollow >>
chaosVars == << devVars, env, seen, unit, cmd, dataVars, left, resent >>

(* The constructors of liberaconfig and of the driver. *)
LiberaBrillianceCSPIDriver ==
    [operation |-> "deinit", mode |-> "UNKNOWN", want_trigger |-> FALSE,
     sized |-> FALSE, want |-> {}]

NoCon == [allocated |-> FALSE, mode |-> "UNKNOWN", fd |-> None, listening |-> FALSE]

(* A command as it is created; only an acquisition counts loops. *)
Command(kind) ==
    [kind |-> kind, loops |-> 0, asked |-> 0, phase |-> "run",
     timed |-> FALSE, nodata |-> FALSE]

ChaosInit ==
    /\ drv = LiberaBrillianceCSPIDriver /\ env = "none" /\ con = NoCon
    /\ seen = FALSE
    /\ unit = "down" /\ cmd = Command(None)
    /\ MODE = FALSE /\ ACQUISITION = 0 /\ error = {} /\ hollow = FALSE
    /\ left = "none" /\ resent = {}

-----------------------------------------------------------------------------
(* The CSPI connection *)

(* get_devicename *)
get_devicename(mode) ==
    CASE mode \in {"DD", "AVERAGE"} -> "libera.dd"
      [] mode = "SA" -> "libera.sa"
      [] mode = "PM" -> "libera.pm"
      [] OTHER -> "libera.adc"

(* cspi_disconnect closes the descriptor first and would keep it if close() *)
(* failed.  Neither libera.dd nor libera.sa has a flush operation, and the  *)
(* kernel ignores what release() returns, so the close of an open           *)
(* descriptor succeeds; without one the library refuses and changes nothing. *)
cspi_disconnect(c) == [c EXCEPT !.fd = None, !.mode = "UNKNOWN"]

(* What iop does at its end when the operation is acquire: sets the mode of *)
(* the connection, and with a trigger its handler and event mask, then      *)
(* connects.  Without a trigger an old handler and mask stay.  The outcomes *)
(* are the connection that results and whether the calls succeeded.         *)
Connect(d, c) ==
    LET set == [c EXCEPT !.mode = d.mode, !.listening = @ \/ d.want_trigger]
        failed == << set, FALSE >>
        connected == << [set EXCEPT !.fd = get_devicename(d.mode)], TRUE >>
    IN  IF c.fd # None THEN {failed}
        ELSE IF DeviceFails THEN {failed, connected} ELSE {connected}

(* What the calls of the library that read() makes may give: data, an error *)
(* that the caller sees, or "nothing": the codes of CSPI are negative, and  *)
(* read() returns -rc, which is positive.  Only the warning that the read   *)
(* is incomplete is positive.  cspi_seek refuses all modes but DD.          *)
CspiRead(d, c) ==
    IF c.fd = None \/ c.mode # d.mode \/ d.mode \notin {"DD", "SA"} THEN {"nothing"}
    ELSE IF ~DeviceFails THEN {"data"}
    ELSE IF d.mode = "SA" THEN {"data", "nothing"} ELSE {"data", "nothing", "error"}

-----------------------------------------------------------------------------
(* The driver *)

iop_STOP(d) == [d EXCEPT !.operation = "unknown"]

(* The bits are looked at one after the other, and the last one counts.     *)
(* AVG is looked for in the operation code and never found; CONTINUOUS and  *)
(* SINGLEPASS count only with ADC.                                          *)
DriverMode(bits, old) ==
    CASE {"ADC", "SINGLEPASS"} \subseteq bits -> "ADC_SP"
      [] {"ADC", "CONTINUOUS"} \subseteq bits /\ "SINGLEPASS" \notin bits -> "ADC_CW"
      [] bits \cap {"ADC", "CONTINUOUS", "SINGLEPASS"} = {"ADC"} -> "ADC"
      [] "ADC" \notin bits /\ "PM" \in bits -> "PM"
      [] bits \cap {"ADC", "PM", "SA"} = {"SA"} -> "SA"
      [] bits \cap {"ADC", "PM", "SA", "DD"} = {"DD"} -> "DD"
      [] OTHER -> old

iop_ACQUIRE(d, bits) ==
    LET known == bits \cap {"DD", "SA", "PM", "ADC"} # {}
    IN  [operation |-> IF known THEN "acquire" ELSE d.operation,
         mode |-> DriverMode(bits, d.mode), want_trigger |-> "TRIGGERED" \in bits,
         sized |-> d.sized \/ known, want |-> d.want]

(* read() does something only while the operation is to acquire. *)
Acquiring(d) == d.operation = "acquire" /\ d.sized

(* initIO.  After a call that failed the next one returns 0 at once; the    *)
(* lock of the environment may be held for ever (deinitIO).                 *)
initIO ==
    /\ unit = "down"
    /\ \/ /\ drv.operation # "deinit"
          /\ unit' = "up" /\ cmd' = Command("default")
          /\ UNCHANGED << drv, env, con >>
       \/ /\ drv.operation = "deinit"
          /\ drv' = [drv EXCEPT !.operation = "init", !.sized = FALSE]
          /\ \/ /\ env = "lost"
                /\ unit' = "stuck"
                /\ UNCHANGED << env, con, cmd >>
             \/ /\ env # "lost"
                /\ env' = "held" /\ con' = [NoCon EXCEPT !.allocated = TRUE]
                /\ unit' = "up" /\ cmd' = Command("default")
             \/ /\ env # "lost" /\ DeviceFails
                /\ env' \in {"none", "held"}
                /\ UNCHANGED << con, unit, cmd >>
    /\ UNCHANGED << seen, dataVars, left, resent >>

(* unitDeinit leaves the driver as it is. *)
unitDeinit ==
    /\ unit = "up" /\ cmd.phase = "run"
    /\ unit' = "down" /\ cmd' = Command(None)
    /\ left' = IF cmd.kind = "acquire" THEN "killed" ELSE left
    /\ UNCHANGED << devVars, env, seen, dataVars, resent >>

(* The destructor calls deinitIO, which frees the environment first: while  *)
(* the connection is allocated that fails, and leaves the lock taken.       *)
deinitIO ==
    /\ unit = "down" /\ drv.operation # "deinit"
    /\ drv' = LiberaBrillianceCSPIDriver
    /\ env' = IF env = "held" /\ ~con.allocated THEN "none"
              ELSE IF env = "held" THEN "lost" ELSE env
    /\ con' = NoCon
    /\ left' = "none"
    /\ UNCHANGED << seen, unit, cmd, dataVars, resent >>

-----------------------------------------------------------------------------
(* The command acquire *)

(* A command can be submitted to a unit that is up; it kills the one that   *)
(* runs.  Without both handles what the driver does is undefined.           *)
Submits ==
    /\ unit = "up" /\ cmd.phase = "run"
    /\ env = "held" /\ con.allocated

Killed == IF cmd.kind = "acquire" THEN "killed" ELSE left

(* The mode words for which setHandler sizes a data set. *)
Supported(bits) == bits \cap {"DD", "SA", "CONTINUOUS", "SINGLEPASS", "AVG"} # {}

(* enable:0, a missing mode, and a mode that is not supported. *)
AcquireRefused ==
    /\ Submits
    /\ drv' = iop_STOP(drv) /\ con' = cspi_disconnect(con)
    /\ cmd' = Command("default")
    /\ left' = "refused"
    /\ \/ MODE' = FALSE /\ error' = {}
       \/ error' = {} /\ UNCHANGED MODE
       \/ /\ \E bits \in Modes : ~Supported(bits)
          /\ error' = {"SWCONFIG"} /\ UNCHANGED MODE
    /\ UNCHANGED << env, seen, unit, ACQUISITION, hollow, resent >>

(* The command as its setHandler leaves it. *)
Acquisition(loops, timed, nodata) ==
    [kind |-> "acquire", loops |-> loops, asked |-> loops, phase |-> "run",
     timed |-> timed, nodata |-> nodata]

(* Mutants: an acquisition that runs is not stopped first; the count of the *)
(* acquisition before is kept.                                              *)
StartWithoutStop(bits, loops, timed, nodata) ==
    /\ Submits /\ Supported(bits) /\ (nodata => "DD" \in bits)
    /\ drv' = iop_ACQUIRE(drv, bits)
    /\ \E outcome \in IF Acquiring(drv') THEN Connect(drv', con) ELSE {<< con, TRUE >>} :
          /\ con' = outcome[1]
          /\ cmd' = IF outcome[2] THEN Acquisition(loops, timed, nodata)
                    ELSE Command("default")
          /\ MODE' = (outcome[2] \/ MODE)
          /\ ACQUISITION' = IF outcome[2] THEN 0 ELSE ACQUISITION
    /\ error' = {} /\ hollow' = FALSE
    /\ left' = IF cmd.kind = "acquire" THEN "killed" ELSE "none"
    /\ UNCHANGED << env, seen, unit, resent >>

CountNotReset(bits, loops, timed, nodata) ==
    LET acquiring == iop_ACQUIRE(iop_STOP(drv), bits)
        stopped == cspi_disconnect(con)
    IN  /\ Submits /\ Supported(bits) /\ (nodata => "DD" \in bits)
        /\ drv' = acquiring
        /\ \E outcome \in IF acquiring.operation = "acquire"
                          THEN Connect(acquiring, stopped) ELSE {<< stopped, TRUE >>} :
              /\ con' = outcome[1]
              /\ cmd' = IF outcome[2] THEN Acquisition(loops, timed, nodata)
                        ELSE Command("default")
              /\ MODE' = (outcome[2] \/ MODE)
        /\ error' = {} /\ hollow' = FALSE
        /\ left' = IF cmd.kind = "acquire" THEN "killed" ELSE "none"
        /\ UNCHANGED << env, seen, unit, ACQUISITION, resent >>

(* setHandler: STOP, SET_SAMPLES, SET_OFFSET, ACQUIRE.  The data sets are   *)
(* emptied first and sized again only for a command that gives samples; the *)
(* handler looks for the buffer of "DD" alone (nodata).                     *)
AcquireStarts(bits, loops, timed, nodata) ==
    LET acquiring == iop_ACQUIRE(iop_STOP(drv), bits)
        stopped == cspi_disconnect(con)
    IN  /\ Submits /\ Supported(bits) /\ (nodata => "DD" \in bits)
        /\ drv' = acquiring
        /\ \E outcome \in IF acquiring.operation = "acquire"
                          THEN Connect(acquiring, stopped) ELSE {<< stopped, TRUE >>} :
              /\ con' = outcome[1]
              /\ cmd' = IF outcome[2] THEN Acquisition(loops, timed, nodata)
                        ELSE Command("default")
              /\ MODE' = (outcome[2] \/ MODE)
              /\ ACQUISITION' = IF outcome[2] THEN 0 ELSE ACQUISITION
        /\ error' = {} /\ hollow' = FALSE
        /\ left' = IF cmd.kind = "acquire" THEN "killed" ELSE "none"
        /\ UNCHANGED << env, seen, unit, resent >>

(* acquireHandler, the duration over: the connection is left as it is. *)
AcquireExpires ==
    /\ cmd.kind = "acquire" /\ cmd.phase = "run" /\ cmd.timed
    /\ MODE' = FALSE
    /\ cmd' = Command("default") /\ left' = "expired"
    /\ UNCHANGED << devVars, env, seen, unit, ACQUISITION, error, hollow, resent >>

(* acquireHandler, "DD" without a buffer: the command ends with an error,   *)
(* and the driver is not told to stop.                                      *)
NoDataset ==
    /\ cmd.kind = "acquire" /\ cmd.phase = "run" /\ cmd.nodata
    /\ MODE' = FALSE /\ error' = error \cup {"ALLOCATE_DATASET"}
    /\ cmd' = Command("default") /\ left' = "nodata"
    /\ UNCHANGED << devVars, env, seen, unit, ACQUISITION, hollow, resent >>

(* wait_trigger waits first, and tests _event_id then. *)
wait_trigger ==
    /\ cmd.kind = "acquire" /\ cmd.phase = "run" /\ ~cmd.nodata
    /\ Acquiring(drv) /\ drv.want_trigger
    /\ cmd' = [cmd EXCEPT !.phase = "wait"]
    /\ UNCHANGED << devVars, env, seen, unit, dataVars, left, resent >>

(* event_callback: who does not wait yet misses the signal. *)
event_callback ==
    /\ con.listening
    /\ seen' = TRUE
    /\ cmd' = IF cmd.phase = "wait" THEN [cmd EXCEPT !.phase = "woken"] ELSE cmd
    /\ UNCHANGED << devVars, env, unit, dataVars, left, resent >>

(* A wait for a condition may also end by itself (POSIX); _event_id may     *)
(* still be that of an earlier trigger.                                     *)
WakesForNothing ==
    /\ cmd.phase = "wait" /\ seen
    /\ cmd' = [cmd EXCEPT !.phase = "woken"]
    /\ UNCHANGED << devVars, env, seen, unit, dataVars, left, resent >>

Count == IF ACQUISITION = MaxCount THEN ACQUISITION ELSE ACQUISITION + 1

(* Mutants: an error of read() ends the command without STOP; the loops are *)
(* not counted down.                                                        *)
HandlerAs(result, stops, last, then) ==
    LET errors == error \cup (IF result = "error" THEN {"READING"} ELSE {})
    IN  /\ ACQUISITION' = IF result = "error" THEN ACQUISITION ELSE Count
        /\ hollow' = (hollow \/ result = "nothing")
        /\ error' = errors
        /\ IF last \/ errors # {}
           THEN /\ MODE' = FALSE
                /\ cmd' = Command("default")
                /\ left' = IF errors = {} THEN "ended" ELSE "failed"
                /\ IF stops \/ last
                   THEN drv' = iop_STOP(drv) /\ con' = cspi_disconnect(con)
                   ELSE UNCHANGED devVars
           ELSE /\ cmd' = [cmd EXCEPT !.phase = "run", !.loops = then]
                /\ UNCHANGED << devVars, MODE, left >>

ErrorWithoutStop(result) ==
    HandlerAs(result, FALSE, cmd.loops = 0, IF cmd.loops > 0 THEN cmd.loops - 1 ELSE cmd.loops)

LoopsNeverCounted(result) == HandlerAs(result, TRUE, cmd.loops = 0, cmd.loops)

(* acquireHandler, from the result of read() on. *)
AcquireDone(result) ==
    LET errors == error \cup (IF result = "error" THEN {"READING"} ELSE {})
    IN  /\ ACQUISITION' = IF result = "error" THEN ACQUISITION ELSE Count
        /\ hollow' = (hollow \/ result = "nothing")
        /\ error' = errors
        /\ IF cmd.loops = 0 \/ errors # {}
           THEN /\ drv' = iop_STOP(drv) /\ con' = cspi_disconnect(con)
                /\ MODE' = FALSE
                /\ cmd' = Command("default")
                /\ left' = IF errors = {} THEN "ended" ELSE "failed"
           ELSE /\ cmd' = [cmd EXCEPT !.phase = "run",
                                      !.loops = IF @ > 0 THEN @ - 1 ELSE @]
                /\ UNCHANGED << devVars, MODE, left >>

(* read() returns 0 when the driver does not acquire. *)
read ==
    /\ cmd.kind = "acquire"
    /\ \/ cmd.phase = "run" /\ ~cmd.nodata /\ ~(Acquiring(drv) /\ drv.want_trigger)
       \/ cmd.phase = "woken"
    /\ \E result \in IF Acquiring(drv) THEN CspiRead(drv, con) ELSE {"nothing"} :
          AcquireDone(result)
    /\ UNCHANGED << env, seen, unit, resent >>

(* 30 seconds without a trigger: ETIMEDOUT is positive, -rc is negative. *)
TriggerTimeout ==
    /\ cmd.phase = "wait"
    /\ AcquireDone("error")
    /\ UNCHANGED << env, seen, unit, resent >>

acquireHandler ==
    AcquireExpires \/ NoDataset \/ wait_trigger \/ read \/ TriggerTimeout

-----------------------------------------------------------------------------
(* The other commands *)

(* GETENV changes the operation, whatever it was. *)
iop_GETENV(d) == [d EXCEPT !.operation = "listenv"]

(* setHandler of the command default, which a client submits. *)
DefaultStarts ==
    /\ Submits
    /\ error' = {}
    /\ cmd' = Command("default") /\ left' = Killed
    /\ UNCHANGED << devVars, env, seen, unit, MODE, ACQUISITION, hollow, resent >>

(* acquireHandler of the command default. *)
DefaultHandler ==
    /\ unit = "up" /\ env = "held" /\ con.allocated
    /\ cmd.kind = "default"
    /\ drv' = iop_GETENV(drv)
    /\ UNCHANGED << env, con, seen, unit, cmd, dataVars, left, resent >>

(* SETENV changes the operation as well. *)
iop_SETENV(d) == [d EXCEPT !.operation = "setenv"]

(* Command env: STOP, a SETENV for each parameter, GETENV.  A SETENV that   *)
(* fails ends it.                                                           *)
EnvCommand ==
    /\ Submits
    /\ con' = cspi_disconnect(con)
    /\ \/ error' = {} /\ drv' = iop_GETENV(iop_STOP(drv))
       \/ /\ DeviceFails
          /\ error' = {"SETTING_ENV"} /\ drv' = iop_SETENV(drv)
    /\ cmd' = Command("default") /\ left' = Killed
    /\ UNCHANGED << env, seen, unit, MODE, ACQUISITION, hollow, resent >>

(* The bits that assign_time sets in the mask are never cleared. *)
assign_time(d, asked) == [d EXCEPT !.want = @ \cup asked]

iop_SETTIME(d, asked) == [assign_time(d, asked) EXCEPT !.operation = "settime"]

(* Command time: SETTIME, if the command gives a time.  assign_time may set *)
(* the first bit and fail on the second, and so may the calls on the device. *)
TimeCommand ==
    /\ Submits
    /\ \/ /\ error' = {} /\ cmd' = Command("time")
          /\ UNCHANGED << drv, resent >>
       \/ \E asked \in SUBSET {"MT", "ST"} :
             /\ drv' = iop_SETTIME(drv, asked)
             /\ \/ /\ error' = {}
                   /\ resent' = drv.want \ asked
                   /\ cmd' = Command("time")
                \/ /\ "ST" \notin asked \/ DeviceFails
                   /\ error' = {"SETTING_ENV"}
                   /\ cmd' = Command("default")
                   /\ UNCHANGED resent
    /\ left' = Killed
    /\ UNCHANGED << env, con, seen, unit, MODE, ACQUISITION, hollow >>

(* acquireHandler of the command time. *)
TimeHandler ==
    /\ cmd.kind = "time"
    /\ cmd' = Command("default")
    /\ UNCHANGED << devVars, env, seen, unit, dataVars, left, resent >>

-----------------------------------------------------------------------------

ChaosNext ==
    \/ initIO \/ unitDeinit \/ deinitIO
    \/ AcquireRefused
    \/ \E bits \in Modes, loops \in Loops, timed, nodata \in BOOLEAN :
          AcquireStarts(bits, loops, timed, nodata)
    \/ acquireHandler
    \/ event_callback \/ WakesForNothing
    \/ DefaultStarts \/ DefaultHandler \/ EnvCommand \/ TimeCommand \/ TimeHandler

ChaosSpec == ChaosInit /\ [][ChaosNext]_chaosVars

(* The framework calls the handler of a running command again and again,    *)
(* and a wait ends after 30 seconds.  No trigger and no command has to come. *)
FairChaosSpec == ChaosSpec /\ WF_chaosVars(acquireHandler)

-----------------------------------------------------------------------------

(* The variables have the types of their C++ declarations. *)
ChaosTypeOK ==
    /\ drv.operation \in {"unknown", "init", "deinit", "acquire", "setenv", "listenv", "settime"}
    /\ drv.mode \in {"UNKNOWN", "DD", "SA", "PM", "ADC", "ADC_CW", "ADC_SP"}
    /\ con.fd \in Devices \cup {None} /\ con.mode \in {drv.mode, "UNKNOWN"}
    /\ env \in {"none", "held", "lost"} /\ unit \in {"down", "up", "stuck"}
    /\ cmd.kind \in {None, "default", "acquire", "time"}
    /\ cmd.phase \in {"run", "wait", "woken"} /\ cmd.loops \in Int
    /\ ACQUISITION \in Nat

(* An open connection is to the device of its mode, and of the mode that    *)
(* the driver reads in, whatever commands have come and gone without STOP.  *)
DeviceOfMode ==
    /\ ChaosTypeOK
    /\ con.fd # None => con.fd = get_devicename(con.mode) /\ con.mode = drv.mode

(* A connection that no acquisition uses any more is closed: an acquisition *)
(* that ends by its loops, by an error of read() or by a lost trigger stops *)
(* the driver.  The endings that do not are these three: the duration is    *)
(* over, a command that sends no STOP kills it, or its data set has no      *)
(* buffer.                                                                  *)
EndDisconnects ==
    con.fd # None => cmd.kind = "acquire" \/ left \in {"expired", "killed", "nodata"}

(* An acquisition that ends by its loops has published as many as the       *)
(* command asks for, or one more (the client's option "acquires loops"),    *)
(* whatever the acquisition that it replaced had counted.                   *)
LoopsServed ==
    [][cmd.kind = "acquire" /\ left' = "ended" =>
          ACQUISITION' \in cmd.asked .. cmd.asked + 1]_chaosVars

(* The same, exactly: the loops are tested before they are counted down, so *)
(* that such an acquisition publishes one more than it was asked for.       *)
LoopsPlusOne ==
    [][cmd.kind = "acquire" /\ left' = "ended" =>
          ACQUISITION' = cmd.asked + 1]_chaosVars

(* A step after which an acquisition has just been started: the start, or  *)
(* the first trigger ever, if it comes right after it.                      *)
Restarts ==
    /\ cmd'.kind = "acquire" /\ cmd'.phase = "run" /\ cmd'.loops = cmd'.asked
    /\ ACQUISITION' = 0

(* An acquisition of so many loops ends, with triggers or without: no read  *)
(* waits for ever, and no error keeps the command going.  Only clients that *)
(* start acquisitions again and again, and one without a number of loops,   *)
(* can take its place.                                                      *)
AcquireEnds ==
    \/ []<><<Restarts>>_chaosVars
    \/ (cmd.kind = "acquire" /\ cmd.asked >= 0) ~> (cmd.kind # "acquire" \/ cmd.asked < 0)

(* "the number of succesful read items, negative error"                     *)
(* (LiberaBrillianceCSPIDriver.h, of read): what the command counts as an   *)
(* acquisition has read data.                                               *)
CountedIsRead == ~hollow

(* "0 if success, error otherwise" (LiberaBrillianceCSPIDriver.h, of        *)
(* initIO): a unit that is up has both handles.                             *)
ReadyMeansHandles == unit = "up" => env = "held" /\ con.allocated

(* The time that is set is the one that the command gives. *)
SentIsAsked == resent = {}

=============================================================================
