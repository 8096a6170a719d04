----------------------------- MODULE CspiDaemons -----------------------------
(***************************************************************************)
(* How the CSPI library talks to its two daemons (cspi/ebpp.c).            *)
(*                                                                         *)
(* dscd is asked through one fifo, answers through a fifo that bears the   *)
(* number of the process that asked, and is waited for without a limit.    *)
(* lplld gets its commands through one fifo and reports its status through *)
(* another, which all processes share; readers exclude each other with     *)
(* flock and give up after a few tries, so that a report may come when     *)
(* nobody waits for it any more.                                           *)
(*                                                                         *)
(* The daemons are external, modelled from how the library uses them: each *)
(* may stop and start again at any point, dscd waits until its client      *)
(* opens the fifo of the answer, and lplld writes a report, "this raw byte *)
(* stream" of lplld.h, at once but as late as it likes.  A fifo nobody has *)
(* open is empty.  A process may be killed at any point.                   *)
(***************************************************************************)
EXTENDS Integers, Sequences, SequencesExt

CONSTANTS
    Threads,        \* the threads of the applications
    ProcOf,         \* thread -> its process
    Writers,        \* the processes that have /dev/libera.cfg open O_RDWR
    Calls,          \* bound: thread -> the calls it may make: [set, msgs, pll]
    Worlds,         \* bound: which threads run together
    PartSize,       \* the words of a report's three parts
    Tries,          \* times an empty status fifo is read (5 in the code)
    DscdRoom,       \* requests the fifo of dscd takes
    Commands,       \* bound: commands that wait for lplld
    Reports,        \* bound: reports that wait in the status fifo
    NULL

ASSUME DaemonsAssumption ==
    /\ NULL \notin Threads
    /\ \A t \in Threads : \A c \in Calls[t] :
          c.msgs \in Seq([type : STRING, valid : BOOLEAN])
    /\ Writers \subseteq { ProcOf[t] : t \in Threads }
    /\ Worlds \subseteq SUBSET Threads
    /\ PartSize \in [1 .. 3 -> Nat \ {0}] /\ Tries \in Nat \ {0}
    /\ {DscdRoom, Commands, Reports} \subseteq Nat \ {0}

VARIABLES
    running,    \* the world
    pc,         \* thread -> where it is
    call,       \* thread -> its call
    todo,       \* thread -> messages to dscd still to be exchanged
    errno,      \* thread -> whether its errno is EAGAIN
    reading,    \* thread -> [part, len, tries, words]: its read of a report
    ok,         \* thread -> whether its call has succeeded so far
    stale,      \* thread -> (history) its errno was EAGAIN before the clearing
    owed,       \* thread -> (history) queries were unanswered after the clearing
    envmutex,   \* process -> the thread that holds environment.mutex
    flocked,    \* the thread that holds the lock of the status fifo
    dscd,       \* dscd runs
    requests,   \* the fifo of dscd
    answer,     \* process -> what its own fifo has
    lplld,      \* lplld runs
    commands,   \* the fifo of its commands: "set" or the thread that queries
    status      \* the fifo of its reports: words [by, at]

callVars == << call, todo, errno, reading, ok, stale, owed >>
dscdVars == << dscd, requests, answer >>
lplldVars == << lplld, commands, status >>
vars == << running, pc, callVars, envmutex, flocked, dscdVars, lplldVars >>

Processes == { ProcOf[t] : t \in Threads }
Goto(t, place) == pc' = [pc EXCEPT ![t] = place]
Smaller(a, b) == IF a < b THEN a ELSE b

-----------------------------------------------------------------------------
(* Calls of the library *)

(* cspi_getenvparam, cspi_setenvparam and the update of the cache. *)
Call(t) ==
    /\ pc[t] = "user"
    /\ \E c \in Calls[t] :
         /\ call' = [call EXCEPT ![t] = c]
         /\ todo' = [todo EXCEPT ![t] = c.msgs]
    /\ \E e \in {errno[t], FALSE} : errno' = [errno EXCEPT ![t] = e]
    /\ Goto(t, "lock")
    /\ UNCHANGED << reading, ok, stale, owed, envmutex, flocked, dscdVars, lplldVars >>

(* Mutant: the mutex is not taken. *)
LockNothing(t) ==
    /\ pc[t] = "lock"
    /\ Goto(t, "dsc")
    /\ UNCHANGED << callVars, envmutex, flocked, dscdVars, lplldVars >>

LockEnv(t) ==
    /\ pc[t] = "lock" /\ envmutex[ProcOf[t]] = NULL
    /\ envmutex' = [envmutex EXCEPT ![ProcOf[t]] = t]
    /\ Goto(t, "dsc")
    /\ UNCHANGED << callVars, flocked, dscdVars, lplldVars >>

UnlockEnv(t) ==
    /\ pc[t] = "return"
    /\ envmutex' = [envmutex EXCEPT ![ProcOf[t]] = NULL]
    /\ todo' = [todo EXCEPT ![t] = << >>] /\ call' = [call EXCEPT ![t] = NULL]
    /\ ok' = [ok EXCEPT ![t] = TRUE]
    /\ Goto(t, "user")
    /\ UNCHANGED << errno, reading, stale, owed, flocked, dscdVars, lplldVars >>

(* The call returns its error. *)
Fails(t) == ok' = [ok EXCEPT ![t] = FALSE] /\ Goto(t, "return")

-----------------------------------------------------------------------------
(* dscd *)

(* Nothing is set through a file that is not O_RDWR, the settings of lplld   *)
(* included, for they come after.                                            *)
ebpp_setdscparam(t) ==
    /\ pc[t] = "dsc" /\ call[t].set /\ ProcOf[t] \notin Writers
    /\ Fails(t)
    /\ UNCHANGED << call, todo, errno, reading, stale, owed,
                    envmutex, flocked, dscdVars, lplldVars >>

(* One message after the other; an invalid one ends the call, but not what   *)
(* was sent before it.  mkfifo, and a write to dscd that does not wait.      *)
ebpp_dsc_handle_params(t) ==
    /\ pc[t] = "dsc" /\ (call[t].set => ProcOf[t] \in Writers)
    /\ todo[t] # << >>
    /\ IF Head(todo[t]).valid /\ dscd /\ Len(requests) < DscdRoom
       THEN /\ requests' = Append(requests,
                   [pid |-> ProcOf[t], type |-> Head(todo[t]).type])
            /\ Goto(t, "await")
            /\ UNCHANGED << ok, errno >>
       ELSE /\ Fails(t)
            /\ errno' = [errno EXCEPT ![t] =
                            IF Head(todo[t]).valid THEN dscd ELSE @]
            /\ UNCHANGED requests
    /\ UNCHANGED << call, todo, reading, stale, owed, envmutex, flocked,
                    dscd, answer, lplldVars >>

(* The answer has come, or the end of the file.  Its type is not looked at.  *)
ebpp_dsc_message(t) ==
    /\ pc[t] = "await" /\ answer[ProcOf[t]] # NULL
    /\ answer' = [answer EXCEPT ![ProcOf[t]] = NULL]
    /\ IF answer[ProcOf[t]].ok
       THEN todo' = [todo EXCEPT ![t] = Tail(@)] /\ Goto(t, "dsc") /\ UNCHANGED ok
       ELSE Fails(t) /\ UNCHANGED todo
    /\ UNCHANGED << call, errno, reading, stale, owed, envmutex, flocked,
                    dscd, requests, lplldVars >>

Awaits(pr) == \E t \in Threads : ProcOf[t] = pr /\ pc[t] = "await"

Answer ==
    /\ dscd /\ requests # << >>
    /\ LET r == Head(requests)
       IN  /\ requests' = Tail(requests)
           /\ IF r.pid = NULL
              THEN UNCHANGED answer
              ELSE /\ Awaits(r.pid) /\ answer[r.pid] = NULL
                   /\ \E good \in BOOLEAN :
                        answer' = [answer EXCEPT ![r.pid] = [type |-> r.type, ok |-> good]]
    /\ UNCHANGED << pc, callVars, envmutex, flocked, dscd, lplldVars >>

(* dscd stops, perhaps between opening the fifo of the answer and writing.   *)
DscdStops ==
    /\ dscd /\ dscd' = FALSE
    /\ requests' = << >>
    /\ answer' \in {answer} \cup
         { [answer EXCEPT ![pr] = [type |-> NULL, ok |-> FALSE]] :
             pr \in { p \in Processes : /\ requests # << >> /\ p = Head(requests).pid
                                        /\ Awaits(p) /\ answer[p] = NULL } }
    /\ UNCHANGED << pc, callVars, envmutex, flocked, lplldVars >>

DscdStarts ==
    /\ ~dscd /\ dscd' = TRUE
    /\ UNCHANGED << pc, callVars, envmutex, flocked, requests, answer, lplldVars >>

-----------------------------------------------------------------------------
(* lplld *)

ValidPll(name, v) ==
    CASE name = "mtvcxoffs" -> v \in -500 .. 500
      [] name = "mtncoshft" -> v \in {0, 1}
      [] name = "mtphsoffs" -> v \in -6250 .. 6250
      [] name \in {"mtunlcktr", "stunlcktr"} -> v \in 1 .. 30000
      [] name = "mtsyncin" -> v >= 0

(* With the messages exchanged: all the settings are one command, which is   *)
(* not sent when one is invalid; a query begins with the open of the fifo,   *)
(* which may fail.                                                           *)
ebpp_set_pllparam(t) ==
    /\ pc[t] = "dsc" /\ call[t].set /\ ProcOf[t] \in Writers /\ todo[t] = << >>
    /\ CASE call[t].pll = << >> -> Goto(t, "return") /\ UNCHANGED ok
         [] \E s \in Range(call[t].pll) : ~ValidPll(s[1], s[2]) -> Fails(t)
         [] OTHER -> Goto(t, "command") /\ UNCHANGED ok
    /\ UNCHANGED << call, todo, errno, reading, stale, owed,
                    envmutex, flocked, dscdVars, lplldVars >>

ebpp_get_pllparam(t) ==
    /\ pc[t] = "dsc" /\ ~call[t].set /\ todo[t] = << >>
    /\ \/ Goto(t, IF call[t].pll # << >> THEN "flock" ELSE "return") /\ UNCHANGED ok
       \/ call[t].pll # << >> /\ Fails(t)
    /\ UNCHANGED << call, todo, errno, reading, stale, owed,
                    envmutex, flocked, dscdVars, lplldVars >>

FileLock(t) ==
    /\ pc[t] = "flock" /\ flocked = NULL
    /\ flocked' = t
    /\ stale' = [stale EXCEPT ![t] = errno[t]]
    /\ Goto(t, "clear")
    /\ UNCHANGED << call, todo, errno, reading, ok, owed, envmutex, dscdVars, lplldVars >>

(* One read of the status fifo: at most n words; with none there, EAGAIN     *)
(* while lplld has the fifo open and 0 words when it has not.                *)
ReadWords(n) == SubSeq(status, 1, Smaller(n, Len(status)))
RestAfter(n) == SubSeq(status, Smaller(n, Len(status)) + 1, Len(status))
Again == status = << >> /\ lplld
Report == PartSize[1] + PartSize[2] + PartSize[3]

Query(c) == c # "set"
Cleared(t) ==
    /\ Goto(t, "command")
    /\ owed' = [owed EXCEPT ![t] = \E k \in DOMAIN commands : Query(commands[k])]

(* Mutant: one read, whatever errno is. *)
ClearOnce(t) ==
    /\ pc[t] = "clear"
    /\ status' = RestAfter(Report)
    /\ errno' = [errno EXCEPT ![t] = @ \/ Again]
    /\ Cleared(t)
    /\ UNCHANGED << call, todo, reading, ok, stale, envmutex, flocked,
                    dscdVars, lplld, commands >>

(* while (ret >= 0 && errno != EAGAIN): the loop ends when errno is EAGAIN,  *)
(* be it from this read or from an earlier one.                              *)
ebpp_pll_clearstatus(t) ==
    /\ pc[t] = "clear"
    /\ status # << >> \/ lplld \/ errno[t]
    /\ status' = RestAfter(Report)
    /\ errno' = [errno EXCEPT ![t] = @ \/ Again]
    /\ IF errno'[t] THEN Cleared(t) ELSE UNCHANGED << pc, owed >>
    /\ UNCHANGED << call, todo, reading, ok, stale, envmutex, flocked,
                    dscdVars, lplld, commands >>

(* fopen waits for lplld. *)
ebpp_pll_setcmd(t) ==
    /\ pc[t] = "command" /\ lplld /\ Len(commands) < Commands
    /\ commands' = Append(commands, IF call[t].set THEN "set" ELSE t)
    /\ IF call[t].set
       THEN Goto(t, "return") /\ UNCHANGED reading
       ELSE /\ Goto(t, "status")
            /\ reading' = [reading EXCEPT ![t] =
                             [part |-> 1, len |-> 0, tries |-> Tries, words |-> << >>]]
    /\ UNCHANGED << call, todo, errno, ok, stale, owed, envmutex, flocked,
                    dscdVars, lplld, status >>

(* Mutant: the tries are not counted. *)
TryForEver(r) == [r EXCEPT !.tries = @]

Try(r) == [r EXCEPT !.tries = @ - 1]

(* One read of a part of the report, until it is whole or the tries are used *)
(* up; a read asks for the whole part again, whatever it has got.            *)
read_pll_status_buffer(t) ==
    LET r == reading[t]
        size == PartSize[r.part]
        got == ReadWords(size)
        len == r.len + Len(got)
    IN  /\ pc[t] = "status"
        /\ status # << >> \/ lplld
        /\ status' = RestAfter(size)
        /\ errno' = [errno EXCEPT ![t] = @ \/ Again]
        /\ \/ /\ Again
              /\ reading' = [reading EXCEPT ![t] = Try(r)]
              /\ IF reading'[t].tries = 0
                 THEN Goto(t, "unflock") /\ ok' = [ok EXCEPT ![t] = FALSE]
                 ELSE UNCHANGED << pc, ok >>
           \/ /\ ~Again /\ len < size
              /\ reading' = [reading EXCEPT ![t] =
                                [r EXCEPT !.len = len, !.words = @ \o got]]
              /\ UNCHANGED << pc, ok >>
           \/ /\ ~Again /\ len >= size
              /\ reading' = [reading EXCEPT ![t] =
                    [part |-> IF r.part < 3 THEN r.part + 1 ELSE 3, len |-> 0,
                     tries |-> Tries, words |-> r.words \o got]]
              /\ ok' = [ok EXCEPT ![t] = (len = size)]
              /\ IF len = size /\ r.part < 3 THEN UNCHANGED pc ELSE Goto(t, "unflock")
        /\ UNCHANGED << call, todo, stale, owed, envmutex, flocked,
                        dscdVars, lplld, commands >>

HasFifo(t) ==
    \/ pc[t] \in {"flock", "clear", "status", "unflock"}
    \/ (pc[t] = "command" /\ ~call[t].set)

(* What is left in the status fifo when the threads us have it open no more. *)
LeftWithout(us) ==
    IF lplld \/ \E u \in Threads \ us : HasFifo(u) THEN status ELSE << >>

FileUnlock(t) ==
    /\ pc[t] = "unflock"
    /\ flocked' = NULL
    /\ status' = LeftWithout({t})
    /\ reading' = [reading EXCEPT ![t] = NULL]
    /\ stale' = [stale EXCEPT ![t] = FALSE] /\ owed' = [owed EXCEPT ![t] = FALSE]
    /\ Goto(t, "return")
    /\ UNCHANGED << call, todo, errno, ok, envmutex, dscdVars, lplld, commands >>

(* flock fails: a signal came while it waited, or there are no more locks.   *)
FlockFails(t) ==
    /\ pc[t] = "flock"
    /\ status' = LeftWithout({t})
    /\ Fails(t)
    /\ UNCHANGED << call, todo, errno, reading, stale, owed, envmutex, flocked,
                    dscdVars, lplld, commands >>

(* lplld waits for nobody: a report for which there is no room is lost.      *)
lplld_command ==
    /\ lplld /\ commands # << >>
    /\ LET c == Head(commands)
       IN  /\ commands' = Tail(commands)
           /\ IF Query(c) /\ Len(status) + Report <= Reports * Report
              THEN status' = status \o [ i \in 1 .. Report |-> [by |-> c, at |-> i] ]
              ELSE UNCHANGED status
    /\ UNCHANGED << pc, callVars, envmutex, flocked, dscdVars, lplld >>

LplldStops ==
    /\ lplld /\ lplld' = FALSE
    /\ commands' = << >>
    /\ status' = IF \E t \in Threads : HasFifo(t) THEN status ELSE << >>
    /\ UNCHANGED << pc, callVars, envmutex, flocked, dscdVars >>

LplldStarts ==
    /\ ~lplld /\ lplld' = TRUE
    /\ UNCHANGED << pc, callVars, envmutex, flocked, dscdVars, commands, status >>

-----------------------------------------------------------------------------
(* A process is killed, and another one takes its place. *)
Kill(pr) ==
    LET us == { t \in Threads : ProcOf[t] = pr }
        Reset(f, v) == [ t \in Threads |-> IF t \in us THEN v ELSE f[t] ]
    IN  /\ \E t \in us : pc[t] # "user"
        /\ pc' = Reset(pc, "user") /\ call' = Reset(call, NULL)
        /\ todo' = Reset(todo, << >>) /\ errno' = Reset(errno, FALSE)
        /\ reading' = Reset(reading, NULL) /\ ok' = Reset(ok, TRUE)
        /\ stale' = Reset(stale, FALSE) /\ owed' = Reset(owed, FALSE)
        /\ envmutex' = [envmutex EXCEPT ![pr] = NULL]
        /\ flocked' = IF flocked \in us THEN NULL ELSE flocked
        /\ requests' = [ k \in DOMAIN requests |->
                           IF requests[k].pid = pr THEN [requests[k] EXCEPT !.pid = NULL]
                           ELSE requests[k] ]
        /\ answer' = [answer EXCEPT ![pr] = NULL]
        /\ status' = LeftWithout(us)
        /\ UNCHANGED << dscd, lplld, commands >>

Init ==
    /\ running \in Worlds
    /\ pc = [t \in Threads |-> "user"] /\ call = [t \in Threads |-> NULL]
    /\ todo = [t \in Threads |-> << >>] /\ errno = [t \in Threads |-> FALSE]
    /\ reading = [t \in Threads |-> NULL] /\ ok = [t \in Threads |-> TRUE]
    /\ stale = [t \in Threads |-> FALSE] /\ owed = [t \in Threads |-> FALSE]
    /\ envmutex = [pr \in Processes |-> NULL] /\ flocked = NULL
    /\ dscd \in BOOLEAN /\ requests = << >>
    /\ answer = [pr \in Processes |-> NULL]
    /\ lplld \in BOOLEAN /\ commands = << >> /\ status = << >>

ThreadStep(t) ==
    \/ LockEnv(t) \/ UnlockEnv(t)
    \/ ebpp_setdscparam(t) \/ ebpp_dsc_handle_params(t) \/ ebpp_dsc_message(t)
    \/ ebpp_set_pllparam(t) \/ ebpp_get_pllparam(t)
    \/ FileLock(t) \/ ebpp_pll_clearstatus(t) \/ ebpp_pll_setcmd(t)
    \/ read_pll_status_buffer(t) \/ FileUnlock(t)

Next ==
    /\ UNCHANGED running
    /\ \/ \E t \in running : Call(t) \/ ThreadStep(t) \/ FlockFails(t)
       \/ \E pr \in Processes : Kill(pr)
       \/ Answer \/ DscdStops \/ DscdStarts
       \/ lplld_command \/ LplldStops \/ LplldStarts

Spec == Init /\ [][Next]_vars

(* A thread whose step is possible again and again takes it, the mutex and   *)
(* the lock are given to each in turn, dscd answers, and lplld does not stay *)
(* away.  Neither that lplld reports is assumed, nor that flock fails.       *)
FairSpec ==
    /\ Spec
    /\ \A t \in Threads : SF_vars(UNCHANGED running /\ ThreadStep(t))
    /\ WF_vars(UNCHANGED running /\ (Answer \/ DscdStarts))
    /\ WF_vars(UNCHANGED running /\ LplldStarts)
    /\ WF_vars(UNCHANGED running /\ lplld_command)

-----------------------------------------------------------------------------
Words == [by : Threads, at : 1 .. Report]

DaemonsTypeOK ==
    /\ envmutex \in [Processes -> Threads \cup {NULL}]
    /\ flocked \in Threads \cup {NULL}
    /\ \A k \in DOMAIN status : status[k] \in Words
    /\ \A k \in DOMAIN commands : commands[k] \in Threads \cup {"set"}
    /\ \A t \in Threads :
         /\ errno[t] \in BOOLEAN
         /\ reading[t] # NULL => reading[t].tries \in 0 .. Tries
         /\ pc[t] \in {"clear", "status", "unflock"} => flocked = t

(* A process has one fifo for its answers, which do not say what they are    *)
(* for: whatever its threads ask at a time, and whoever is killed, the       *)
(* answer that waits in it is the one to the question that was asked         *)
(* (ebpp_dsc_message, under the mutex of the Environment).                   *)
AnswerIsMine ==
    /\ DaemonsTypeOK
    /\ \A t \in Threads : pc[t] = "await" /\ answer[ProcOf[t]] # NULL =>
         answer[ProcOf[t]].type \in {Head(todo[t]).type, NULL}

(* A query that returns CSPI_OK returns one whole report, though reports of  *)
(* queries that gave up, and the rest of one whose reader was killed, may    *)
(* have been in the fifo; and its own report, unless queries were unanswered *)
(* when it began.  This needs that errno was not EAGAIN when it began        *)
(* (ebpp_pll_clearstatus, read_pll_status_buffer, ebpp_get_pllparam).        *)
StatusIsMine ==
    \A t \in Threads : pc[t] = "unflock" /\ ok[t] /\ ~stale[t] =>
        \E u \in IF owed[t] THEN Threads ELSE {t} :
            reading[t].words = [ i \in 1 .. Report |-> [by |-> u, at |-> i] ]

(* The same whatever errno was: "Read LPLLD staus pipe until it is empty".   *)
StatusIsMineAlways ==
    \A t \in Threads : pc[t] = "unflock" /\ ok[t] /\ ~owed[t] =>
        reading[t].words = [ i \in 1 .. Report |-> [by |-> t, at |-> i] ]

(* dscd has lost the request of a thread of this process. *)
Stranded(pr) ==
    /\ Awaits(pr) /\ answer[pr] = NULL
    /\ \A k \in DOMAIN requests : requests[k].pid # pr

(* Every call returns, however late lplld is and whenever it is restarted,   *)
(* unless dscd stopped with the request of a thread of its process           *)
(* (cspi_getenvparam, cspi_setenvparam, ebpp_update_cache).                  *)
DaemonCallReturns ==
    \A t \in Threads : pc[t] # "user" ~> pc[t] = "user" \/ Stranded(ProcOf[t])
=============================================================================
