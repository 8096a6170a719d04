--------------------------- MODULE CspiDaemonsProofs ---------------------------
(***************************************************************************)
(* Theorems about the calls of the CSPI library to its daemons, for any    *)
(* number of processes and threads, and any calls.                         *)
(*                                                                         *)
(* Answers do not say what they answer.  That the one in the fifo of a     *)
(* process is to its question rests on the mutex of the Environment, which *)
(* a thread holds from its question to its answer; on dscd having at most  *)
(* one request of a process, of a thread that still waits; and on the      *)
(* process that is killed taking its fifo with it.                         *)
(*                                                                         *)
(* That a query reads one whole report, its own if no other was            *)
(* unanswered, rests on the lock of the status fifo, held from the         *)
(* clearing on; on the clearing going on until the fifo is empty; and on   *)
(* lplld writing whole reports only.                                       *)
(***************************************************************************)
EXTENDS CspiDaemons, SequenceTheorems, TLAPS

Places == {"user", "lock", "dsc", "await", "flock", "clear", "command", "status",
           "unflock", "return"}

Messages == [type : STRING, valid : BOOLEAN]
AllCalls == UNION { Calls[t] : t \in Threads }
Readings == [part : 1 .. 3, len : Nat, tries : 0 .. Tries, words : Seq(Words)]
Requests == [pid : Processes \cup {NULL}, type : STRING]
Answers == [type : STRING \cup {NULL}, ok : BOOLEAN]

ThreadTypes ==
    /\ pc \in [Threads -> Places] /\ call \in [Threads -> AllCalls \cup {NULL}]
    /\ todo \in [Threads -> Seq(Messages)] /\ errno \in [Threads -> BOOLEAN]
    /\ reading \in [Threads -> Readings \cup {NULL}]
    /\ envmutex \in [Processes -> Threads \cup {NULL}] /\ flocked \in Threads \cup {NULL}

DscdTypes ==
    /\ dscd \in BOOLEAN /\ requests \in Seq(Requests)
    /\ answer \in [Processes -> Answers \cup {NULL}]

LplldTypes ==
    /\ lplld \in BOOLEAN /\ commands \in Seq(Threads \cup {"set"})
    /\ status \in Seq(Words)

(* The mutex of the Environment is held through the whole call, the lock of *)
(* the status fifo from the clearing to the end of the report.              *)
EnvLocked ==
    \A t \in Threads : pc[t] \notin {"user", "lock"} => envmutex[ProcOf[t]] = t

HasLock(t) ==
    \/ pc[t] \in {"clear", "status", "unflock"}
    \/ (pc[t] = "command" /\ ~call[t].set)

FifoLocked ==
    /\ \A t \in Threads : HasLock(t) => flocked = t
    /\ \A t \in Threads : pc[t] = "flock" => ~call[t].set

(* A report is read while there are tries left, an answer is waited for     *)
(* while its message is still to be exchanged.                              *)
InProgress ==
    \A t \in Threads :
        /\ pc[t] = "status" => reading[t] \in Readings /\ reading[t].tries > 0
        /\ pc[t] = "await" => todo[t] # << >>

(* Whom a request of dscd is from: a thread that has asked nothing since,   *)
(* and whose answer has not come.                                           *)
RequestsAwaited ==
    \A k \in 1 .. Len(requests) : requests[k].pid # NULL =>
        /\ \E t \in Threads : /\ ProcOf[t] = requests[k].pid /\ pc[t] = "await"
                               /\ requests[k].type = Head(todo[t]).type
        /\ answer[requests[k].pid] = NULL

RequestsApart ==
    \A j, k \in 1 .. Len(requests) :
        j # k /\ requests[j].pid # NULL => requests[j].pid # requests[k].pid

AnswersAwaited ==
    /\ \A pr \in Processes : answer[pr] # NULL => Awaits(pr)
    /\ \A t \in Threads : pc[t] = "await" /\ answer[ProcOf[t]] # NULL =>
         answer[ProcOf[t]].type \in {Head(todo[t]).type, NULL}

Locks == EnvLocked /\ FifoLocked
Asked == RequestsAwaited /\ RequestsApart /\ AnswersAwaited
DaemonsInv ==
    /\ running \in Worlds
    /\ ThreadTypes /\ DscdTypes /\ LplldTypes
    /\ Locks /\ InProgress /\ Asked

-----------------------------------------------------------------------------
(* Nobody is in a call when the processes start.                            *)
LEMMA InitDaemonsInv == Init => DaemonsInv
<1> SUFFICES ASSUME Init PROVE DaemonsInv
  OBVIOUS
<1>1. ThreadTypes /\ DscdTypes /\ LplldTypes
  BY DEF Init, ThreadTypes, DscdTypes, LplldTypes, Places
<1>2. Locks /\ InProgress /\ Asked
  BY DEF Init, Locks, EnvLocked, FifoLocked, HasLock, InProgress, Asked, RequestsAwaited,
         RequestsApart, AnswersAwaited
<1> QED
  BY <1>1, <1>2 DEF Init, DaemonsInv

(* Two threads of a process are not both in a call. *)
LEMMA Alone ==
    ASSUME EnvLocked, NEW t \in Threads, NEW u \in Threads, ProcOf[t] = ProcOf[u],
           pc[t] \notin {"user", "lock"}, pc[u] \notin {"user", "lock"}
    PROVE  t = u
  BY DEF EnvLocked

-----------------------------------------------------------------------------
(* Types *)

(* What is assumed of the sizes.                                            *)
LEMMA Sizes ==
    /\ PartSize \in [1 .. 3 -> Nat \ {0}] /\ Report \in Nat
    /\ Tries \in Nat /\ Tries > 0 /\ NULL \notin Threads
  BY DaemonsAssumption DEF Report

(* A read of the status fifo gives words, and leaves words.                 *)
LEMMA ReportTypes ==
    ASSUME ThreadTypes, LplldTypes, NEW n \in Nat
    PROVE  /\ ReadWords(n) \in Seq(Words) /\ RestAfter(n) \in Seq(Words)
           /\ Len(ReadWords(n)) \in Nat
<1>1. Smaller(n, Len(status)) \in 0 .. Len(status)
  BY DEF Smaller, LplldTypes
<1> QED
  BY <1>1 DEF ReadWords, RestAfter, LplldTypes

(* One read of a part of the report.                                        *)
LEMMA ReadSteps ==
    ASSUME ThreadTypes, LplldTypes, InProgress, NEW t \in Threads, read_pll_status_buffer(t)
    PROVE  /\ pc[t] = "status" /\ status' \in Seq(Words) /\ errno' \in [Threads -> BOOLEAN]
           /\ \E r \in Readings :
                 /\ reading' = [reading EXCEPT ![t] = r]
                 /\ \/ pc' = [pc EXCEPT ![t] = "unflock"]
                    \/ pc' = pc /\ r.tries > 0
<1> DEFINE r == reading[t]
           size == PartSize[r.part]
           got == ReadWords(size)
           len == r.len + Len(got)
           tried == Try(r)
           more == [r EXCEPT !.len = len, !.words = r.words \o got]
           next == [part |-> IF r.part < 3 THEN r.part + 1 ELSE 3, len |-> 0,
                    tries |-> Tries, words |-> r.words \o got]
<1>1. r \in Readings /\ r.tries > 0 /\ size \in Nat /\ pc[t] = "status"
  BY Sizes DEF read_pll_status_buffer, InProgress, Readings
<1>2. got \in Seq(Words) /\ Len(got) \in Nat /\ status' \in Seq(Words)
  BY <1>1, ReportTypes DEF read_pll_status_buffer
<1>3. errno' \in [Threads -> BOOLEAN]
  <2>1. errno' = [errno EXCEPT ![t] = @ \/ Again]
    BY DEF read_pll_status_buffer
  <2>2. (errno[t] \/ Again) \in BOOLEAN
    OBVIOUS
  <2> QED
    BY <2>1, <2>2 DEF ThreadTypes
<1>4. tried \in Readings /\ tried.tries = r.tries - 1
  <2>1. r.tries - 1 \in 0 .. Tries
    BY <1>1, Sizes DEF Readings
  <2> QED
    BY <1>1, <2>1 DEF Readings, Try
<1>5. more \in Readings /\ more.tries > 0
  <2> DEFINE w == r.words \o got
             one == [r EXCEPT !.len = len]
             two == [one EXCEPT !.words = w]
  <2>1. len \in Nat /\ w \in Seq(Words)
    BY <1>1, <1>2 DEF Readings
  <2>2. one \in Readings /\ one.tries > 0
    BY <1>1, <2>1 DEF Readings
  <2>3. two \in Readings /\ two.tries > 0
    BY <2>1, <2>2 DEF Readings
  <2>4. two = more
    BY <1>1 DEF Readings
  <2> QED
    BY <2>3, <2>4
<1>6. next \in Readings /\ next.tries > 0
  BY <1>1, <1>2, Sizes DEF Readings
<1>7. (~Again /\ len < size) \/ Again \/ (~Again /\ len >= size)
  BY <1>1, <1>2 DEF Readings
<1>8. CASE Again
  <2> HIDE DEF got, more, next
  <2>0. /\ reading' = [reading EXCEPT ![t] = Try(r)]
        /\ IF reading'[t].tries = 0
           THEN Goto(t, "unflock") /\ ok' = [ok EXCEPT ![t] = FALSE]
           ELSE UNCHANGED << pc, ok >>
    BY <1>8 DEF read_pll_status_buffer
  <2>1. /\ reading' = [reading EXCEPT ![t] = tried]
        /\ IF reading'[t].tries = 0 THEN pc' = [pc EXCEPT ![t] = "unflock"] ELSE pc' = pc
    BY <2>0 DEF Goto
  <2>2. reading'[t] = tried
    BY <2>1 DEF ThreadTypes
  <2>3. tried.tries = 0 \/ tried.tries > 0
    BY <1>1, <1>4 DEF Readings
  <2> HIDE DEF tried
  <2> QED
    BY <1>1, <1>2, <1>3, <1>4, <2>1, <2>2, <2>3
<1>9. CASE ~Again /\ len < size
  <2> HIDE DEF got
  <2>1. reading' = [reading EXCEPT ![t] = more] /\ pc' = pc
    <3>1. ~(len >= size)
      BY <1>1, <1>2, <1>9 DEF Readings
    <3> QED
      BY <1>9, <3>1 DEF read_pll_status_buffer, got
  <2> HIDE DEF more
  <2> QED
    BY <1>1, <1>2, <1>3, <1>5, <2>1
<1>10. CASE ~Again /\ len >= size
  <2> HIDE DEF got
  <2>1. ~(len < size)
    BY <1>1, <1>2, <1>10 DEF Readings
  <2>2. /\ reading' = [reading EXCEPT ![t] = next]
        /\ pc' = pc \/ pc' = [pc EXCEPT ![t] = "unflock"]
    BY <1>10, <2>1 DEF read_pll_status_buffer, Goto, got
  <2> HIDE DEF next
  <2> QED
    BY <1>1, <1>2, <1>3, <1>6, <2>2
<1> QED
  BY <1>7, <1>8, <1>9, <1>10

(* A step of a thread keeps the types.                                      *)
LEMMA ThreadKeepsTypes ==
    ASSUME ThreadTypes, DscdTypes, LplldTypes, InProgress,
           NEW t \in Threads, Call(t) \/ ThreadStep(t) \/ FlockFails(t)
    PROVE  ThreadTypes' /\ DscdTypes' /\ LplldTypes'
<1>. USE DEF ThreadTypes, DscdTypes, LplldTypes, Goto, Places, callVars,
         dscdVars, lplldVars
<1>1. CASE Call(t)
  <2>1. PICK c \in Calls[t] : call' = [call EXCEPT ![t] = c] /\ todo' = [todo EXCEPT ![t] = c.msgs]
    BY <1>1 DEF Call
  <2>2. call' \in [Threads -> AllCalls \cup {NULL}] /\ todo' \in [Threads -> Seq(Messages)]
    BY <2>1, DaemonsAssumption DEF AllCalls, Messages
  <2>3. errno' \in [Threads -> BOOLEAN]
    BY <1>1 DEF Call
  <2> QED
    BY <1>1, <2>2, <2>3 DEF Call
<1>2. CASE LockEnv(t)
  BY <1>2 DEF LockEnv
<1>3. CASE UnlockEnv(t)
  <2>1. << >> \in Seq(Messages)
    OBVIOUS
  <2>2. todo' \in [Threads -> Seq(Messages)]
    BY <1>3, <2>1 DEF UnlockEnv
  <2>3. envmutex' \in [Processes -> Threads \cup {NULL}] /\ call' \in [Threads -> AllCalls \cup {NULL}]
    BY <1>3 DEF UnlockEnv
  <2>4. pc' \in [Threads -> Places]
    BY <1>3 DEF UnlockEnv
  <2> QED
    BY <1>3, <2>2, <2>3, <2>4 DEF UnlockEnv
<1>4. CASE ebpp_setdscparam(t)
  BY <1>4 DEF ebpp_setdscparam, Fails
<1>5. CASE ebpp_dsc_handle_params(t)
  <2>1. Head(todo[t]) \in Messages /\ ProcOf[t] \in Processes
    BY <1>5 DEF ebpp_dsc_handle_params, Processes
  <2>2. [pid |-> ProcOf[t], type |-> Head(todo[t]).type] \in Requests
    BY <2>1 DEF Requests, Messages
  <2>3. requests' \in Seq(Requests)
    <3> DEFINE r == [pid |-> ProcOf[t], type |-> Head(todo[t]).type]
    <3>1. requests' = Append(requests, r) \/ requests' = requests
      BY <1>5 DEF ebpp_dsc_handle_params
    <3>2. r \in Requests
      BY <2>2
    <3>3. requests \in Seq(Requests)
      OBVIOUS
    <3> HIDE DEF r
    <3> QED
      BY ONLY <3>1, <3>2, <3>3
  <2>4. errno' \in [Threads -> BOOLEAN] /\ pc' \in [Threads -> Places]
    BY <1>5 DEF ebpp_dsc_handle_params, Fails
  <2> QED
    BY <1>5, <2>3, <2>4 DEF ebpp_dsc_handle_params
<1>6. CASE ebpp_dsc_message(t)
  <2>1. pc' \in [Threads -> Places]
    BY <1>6 DEF ebpp_dsc_message, Fails
  <2>2. todo' = [todo EXCEPT ![t] = Tail(@)] \/ todo' = todo
    BY <1>6 DEF ebpp_dsc_message
  <2>3. todo[t] # << >> => Tail(todo[t]) \in Seq(Messages)
    OBVIOUS
  <2>4. todo' \in [Threads -> Seq(Messages)]
    BY <1>6, <2>2, <2>3 DEF ebpp_dsc_message, InProgress
  <2>5. answer' \in [Processes -> Answers \cup {NULL}]
    BY <1>6 DEF ebpp_dsc_message
  <2> QED
    BY <1>6, <2>1, <2>4, <2>5 DEF ebpp_dsc_message, Fails
<1>7. CASE ebpp_set_pllparam(t) \/ ebpp_get_pllparam(t)
  BY <1>7 DEF ebpp_set_pllparam, ebpp_get_pllparam, Fails
<1>8. CASE FileLock(t)
  BY <1>8 DEF FileLock
<1>9. CASE ebpp_pll_clearstatus(t)
  <2>2. status' \in Seq(Words)
    BY <1>9, Sizes, ReportTypes DEF ebpp_pll_clearstatus
  <2> QED
    BY <1>9, <2>2 DEF ebpp_pll_clearstatus, Cleared, Again
<1>10. CASE ebpp_pll_setcmd(t)
  <2>1. commands' \in Seq(Threads \cup {"set"})
    BY <1>10 DEF ebpp_pll_setcmd
  <2>2. [part |-> 1, len |-> 0, tries |-> Tries, words |-> << >>] \in Readings
    BY Sizes DEF Readings
  <2>3. reading' \in [Threads -> Readings \cup {NULL}]
    BY <1>10, <2>2 DEF ebpp_pll_setcmd
  <2> QED
    BY <1>10, <2>1, <2>3 DEF ebpp_pll_setcmd
<1>11. CASE read_pll_status_buffer(t)
  <2>1. /\ status' \in Seq(Words) /\ errno' \in [Threads -> BOOLEAN]
        /\ \E r \in Readings : reading' = [reading EXCEPT ![t] = r]
        /\ pc' = pc \/ pc' = [pc EXCEPT ![t] = "unflock"]
    BY <1>11, ReadSteps
  <2> QED
    <3>1. UNCHANGED << call, todo, envmutex, flocked, dscdVars, lplld, commands >>
      BY <1>11 DEF read_pll_status_buffer
    <3> QED
      BY <2>1, <3>1
<1>12. CASE FileUnlock(t)
  <2>1. status' \in Seq(Words)
    BY <1>12 DEF FileUnlock, LeftWithout
  <2> QED
    BY <1>12, <2>1 DEF FileUnlock
<1>13. CASE FlockFails(t)
  <2>1. status' \in Seq(Words)
    BY <1>13 DEF FlockFails, LeftWithout
  <2> QED
    BY <1>13, <2>1 DEF FlockFails, Fails
<1> QED
  BY <1>1, <1>2, <1>3, <1>4, <1>5, <1>6, <1>7, <1>8, <1>9, <1>10, <1>11, <1>12, <1>13
     DEF ThreadStep

(* So does a step of a daemon.                                              *)
LEMMA DaemonKeepsTypes ==
    ASSUME DscdTypes, LplldTypes,
           Answer \/ DscdStops \/ DscdStarts \/ lplld_command \/ LplldStops \/ LplldStarts
    PROVE  DscdTypes' /\ LplldTypes'
<1>. USE DEF DscdTypes, LplldTypes, dscdVars, lplldVars
<1>1. CASE Answer
  <2>1. Head(requests) \in Requests /\ requests' \in Seq(Requests)
    BY <1>1 DEF Answer
  <2>2. \A good \in BOOLEAN : [type |-> Head(requests).type, ok |-> good] \in Answers
    BY <2>1 DEF Requests, Answers
  <2>3. answer' \in [Processes -> Answers \cup {NULL}]
    BY <1>1, <2>2 DEF Answer
  <2> QED
    BY <1>1, <2>1, <2>3 DEF Answer
<1>2. CASE DscdStops
  <2>1. [type |-> NULL, ok |-> FALSE] \in Answers
    BY DEF Answers
  <2>2. answer' \in [Processes -> Answers \cup {NULL}]
    BY <1>2, <2>1 DEF DscdStops
  <2>3. requests' \in Seq(Requests)
    BY <1>2 DEF DscdStops
  <2> QED
    BY <1>2, <2>2, <2>3 DEF DscdStops
<1>3. CASE DscdStarts
  BY <1>3 DEF DscdStarts
<1>4. CASE lplld_command
  <2> DEFINE c == Head(commands)
             report == [ i \in 1 .. Report |-> [by |-> c, at |-> i] ]
  <2>1. c \in Threads \cup {"set"} /\ commands' \in Seq(Threads \cup {"set"})
    BY <1>4 DEF lplld_command
  <2>2. Query(c) => report \in Seq(Words)
    <3> SUFFICES ASSUME Query(c) PROVE report \in Seq(Words)
      OBVIOUS
    <3>1. c \in Threads
      BY <2>1 DEF Query
    <3>2. \A i \in 1 .. Report : [by |-> c, at |-> i] \in Words
      BY <3>1 DEF Words
    <3> QED
      BY <3>2, Sizes
  <2>3. status' = status \/ (Query(c) /\ status' = status \o report)
    BY <1>4 DEF lplld_command
  <2>4. status' \in Seq(Words)
    <3>1. status \in Seq(Words)
      OBVIOUS
    <3>2. CASE status' = status
      BY <3>1, <3>2
    <3>3. CASE Query(c) /\ status' = status \o report
      <4>1. report \in Seq(Words)
        BY <2>2, <3>3
      <4> HIDE DEF report
      <4> QED
        BY ONLY <3>1, <3>3, <4>1
    <3> QED
      BY <2>3, <3>2, <3>3
  <2> QED
    BY <1>4, <2>1, <2>4 DEF lplld_command
<1>5. CASE LplldStops
  <2>1. lplld' = FALSE /\ commands' = << >> /\ (status' = status \/ status' = << >>)
    BY <1>5 DEF LplldStops
  <2>2. << >> \in Seq(Words) /\ << >> \in Seq(Threads \cup {"set"})
    OBVIOUS
  <2>3. status' \in Seq(Words) /\ commands' \in Seq(Threads \cup {"set"}) /\ lplld' \in BOOLEAN
    BY <2>1, <2>2
  <2>4. UNCHANGED << dscd, requests, answer >>
    BY <1>5 DEF LplldStops
  <2> QED
    BY <2>3, <2>4
<1>6. CASE LplldStarts
  BY <1>6 DEF LplldStarts
<1> QED
  BY <1>1, <1>2, <1>3, <1>4, <1>5, <1>6

(* So does the end of a process.                                            *)
LEMMA KillKeepsTypes ==
    ASSUME ThreadTypes, DscdTypes, LplldTypes, NEW pr \in Processes, Kill(pr)
    PROVE  ThreadTypes' /\ DscdTypes' /\ LplldTypes'
<1>1. ThreadTypes'
  <2>1. /\ pc' = [t \in Threads |-> IF ProcOf[t] = pr THEN "user" ELSE pc[t]]
        /\ call' = [t \in Threads |-> IF ProcOf[t] = pr THEN NULL ELSE call[t]]
        /\ todo' = [t \in Threads |-> IF ProcOf[t] = pr THEN << >> ELSE todo[t]]
        /\ errno' = [t \in Threads |-> IF ProcOf[t] = pr THEN FALSE ELSE errno[t]]
        /\ reading' = [t \in Threads |-> IF ProcOf[t] = pr THEN NULL ELSE reading[t]]
        /\ envmutex' = [envmutex EXCEPT ![pr] = NULL]
        /\ flocked' = flocked \/ flocked' = NULL
    BY DEF Kill
  <2>2. pc' \in [Threads -> Places] /\ call' \in [Threads -> AllCalls \cup {NULL}]
    BY <2>1 DEF ThreadTypes, Places
  <2>3. todo' \in [Threads -> Seq(Messages)]
    BY <2>1 DEF ThreadTypes
  <2>4. errno' \in [Threads -> BOOLEAN] /\ reading' \in [Threads -> Readings \cup {NULL}]
    BY <2>1 DEF ThreadTypes
  <2>5. envmutex' \in [Processes -> Threads \cup {NULL}] /\ flocked' \in Threads \cup {NULL}
    BY <2>1 DEF ThreadTypes
  <2> QED
    BY <2>2, <2>3, <2>4, <2>5 DEF ThreadTypes
<1>2. requests' \in Seq(Requests)
  <2>1. /\ requests' = [ k \in DOMAIN requests |->
                           IF requests[k].pid = pr THEN [requests[k] EXCEPT !.pid = NULL]
                           ELSE requests[k] ]
        /\ requests \in Seq(Requests)
    BY DEF Kill, DscdTypes
  <2>2. \A k \in DOMAIN requests : requests'[k] \in Requests
    <3> SUFFICES ASSUME NEW k \in DOMAIN requests PROVE requests'[k] \in Requests
      OBVIOUS
    <3> DEFINE r == requests[k]
    <3>1. r \in Requests
      BY <2>1
    <3>2. [r EXCEPT !.pid = NULL] \in Requests
      BY <3>1 DEF Requests
    <3>3. requests'[k] = IF r.pid = pr THEN [r EXCEPT !.pid = NULL] ELSE r
      BY <2>1
    <3> HIDE DEF r
    <3> QED
      BY <3>1, <3>2, <3>3
  <2>3. Len(requests) \in Nat /\ DOMAIN requests = 1 .. Len(requests)
    BY <2>1
  <2> QED
    BY <2>1, <2>2, <2>3
<1>3. answer' \in [Processes -> Answers \cup {NULL}] /\ status' \in Seq(Words)
  BY DEF Kill, DscdTypes, LplldTypes, LeftWithout
<1> QED
  BY <1>1, <1>2, <1>3 DEF Kill, DscdTypes, LplldTypes

-----------------------------------------------------------------------------
(* The locks *)

(* A step of one thread that leaves the locks alone.                        *)
LEMMA LocksSame ==
    ASSUME ThreadTypes, ThreadTypes', Locks, NEW t \in Threads,
           UNCHANGED << envmutex, flocked >>,
           \A u \in Threads : u # t => pc'[u] = pc[u] /\ call'[u] = call[u],
           pc'[t] \notin {"user", "lock"} => pc[t] \notin {"user", "lock"},
           HasLock(t)' => HasLock(t),
           pc'[t] = "flock" => ~call'[t].set
    PROVE  Locks'
  BY DEF Locks, EnvLocked, FifoLocked, HasLock

(* The mutex and the lock of the status fifo are taken when they are free   *)
(* and given back by the thread that has them.                              *)
LEMMA ThreadKeepsLocks ==
    ASSUME ThreadTypes, ThreadTypes', LplldTypes, InProgress, Locks,
           NEW t \in Threads, Call(t) \/ ThreadStep(t) \/ FlockFails(t)
    PROVE  Locks'
<1>. USE DEF Goto, HasLock
<1>1. CASE Call(t)
  <2>1. UNCHANGED << envmutex, flocked >> /\ pc' = [pc EXCEPT ![t] = "lock"]
    BY <1>1 DEF Call
  <2>2. \A u \in Threads : u # t => call'[u] = call[u]
    BY <1>1 DEF Call, ThreadTypes
  <2> QED
    BY <2>1, <2>2, LocksSame DEF ThreadTypes
<1>2. CASE LockEnv(t)
  <2>1. /\ envmutex[ProcOf[t]] = NULL /\ envmutex' = [envmutex EXCEPT ![ProcOf[t]] = t]
        /\ pc' = [pc EXCEPT ![t] = "dsc"] /\ UNCHANGED << call, flocked >>
    BY <1>2 DEF LockEnv, callVars
  <2>2. EnvLocked'
    BY <2>1, Sizes DEF Locks, EnvLocked, ThreadTypes, Processes
  <2>3. FifoLocked'
    BY <2>1 DEF Locks, FifoLocked, ThreadTypes
  <2> QED
    BY <2>2, <2>3 DEF Locks
<1>3. CASE UnlockEnv(t)
  <2>1. /\ pc[t] = "return" /\ envmutex' = [envmutex EXCEPT ![ProcOf[t]] = NULL]
        /\ pc' = [pc EXCEPT ![t] = "user"] /\ call' = [call EXCEPT ![t] = NULL]
        /\ UNCHANGED flocked
    BY <1>3 DEF UnlockEnv
  <2>2. EnvLocked'
    BY <2>1 DEF Locks, EnvLocked, ThreadTypes, Processes
  <2>3. FifoLocked'
    BY <2>1 DEF Locks, FifoLocked, ThreadTypes
  <2> QED
    BY <2>2, <2>3 DEF Locks
<1>4. CASE ebpp_setdscparam(t) \/ ebpp_dsc_handle_params(t) \/ ebpp_dsc_message(t)
  <2>1. /\ UNCHANGED << envmutex, flocked, call >> /\ pc[t] \in {"dsc", "await"}
        /\ \E place \in {"dsc", "await", "return"} : pc' = [pc EXCEPT ![t] = place]
    BY <1>4 DEF ebpp_setdscparam, ebpp_dsc_handle_params, ebpp_dsc_message, Fails
  <2> QED
    BY <2>1, LocksSame DEF ThreadTypes
<1>5. CASE ebpp_set_pllparam(t)
  <2>1. /\ UNCHANGED << envmutex, flocked, call >> /\ pc[t] = "dsc" /\ call[t].set
        /\ \E place \in {"command", "return"} : pc' = [pc EXCEPT ![t] = place]
    BY <1>5 DEF ebpp_set_pllparam, Fails
  <2> QED
    BY <2>1, LocksSame DEF ThreadTypes
<1>6. CASE ebpp_get_pllparam(t)
  <2>1. /\ UNCHANGED << envmutex, flocked, call >> /\ pc[t] = "dsc" /\ ~call[t].set
        /\ \E place \in {"flock", "return"} : pc' = [pc EXCEPT ![t] = place]
    BY <1>6 DEF ebpp_get_pllparam, Fails
  <2> QED
    BY <2>1, LocksSame DEF ThreadTypes
<1>7. CASE FileLock(t)
  <2>1. /\ UNCHANGED << envmutex, call >> /\ pc[t] = "flock" /\ flocked = NULL
        /\ flocked' = t /\ pc' = [pc EXCEPT ![t] = "clear"]
    BY <1>7 DEF FileLock
  <2> QED
    BY <2>1, Sizes DEF Locks, EnvLocked, FifoLocked, ThreadTypes
<1>8. CASE ebpp_pll_clearstatus(t)
  <2>1. /\ UNCHANGED << envmutex, flocked, call >> /\ pc[t] = "clear"
        /\ pc' = pc \/ pc' = [pc EXCEPT ![t] = "command"]
    BY <1>8 DEF ebpp_pll_clearstatus, Cleared
  <2> QED
    BY <2>1, LocksSame DEF ThreadTypes
<1>9. CASE ebpp_pll_setcmd(t)
  <2>1. /\ UNCHANGED << envmutex, flocked, call >> /\ pc[t] = "command"
        /\ pc' = [pc EXCEPT ![t] = IF call[t].set THEN "return" ELSE "status"]
    BY <1>9 DEF ebpp_pll_setcmd
  <2> QED
    BY <2>1, LocksSame DEF ThreadTypes
<1>10. CASE read_pll_status_buffer(t)
  <2>1. /\ UNCHANGED << envmutex, flocked, call >> /\ pc[t] = "status"
    BY <1>10 DEF read_pll_status_buffer
  <2>2. pc' = pc \/ pc' = [pc EXCEPT ![t] = "unflock"]
    BY <1>10, ReadSteps
  <2> QED
    BY <2>1, <2>2, LocksSame DEF ThreadTypes
<1>11. CASE FileUnlock(t)
  <2>1. /\ UNCHANGED << envmutex, call >> /\ pc[t] = "unflock" /\ flocked' = NULL
        /\ pc' = [pc EXCEPT ![t] = "return"]
    BY <1>11 DEF FileUnlock
  <2> QED
    BY <2>1 DEF Locks, EnvLocked, FifoLocked, ThreadTypes
<1>12. CASE FlockFails(t)
  <2>1. /\ UNCHANGED << envmutex, flocked, call >> /\ pc[t] = "flock"
        /\ pc' = [pc EXCEPT ![t] = "return"]
    BY <1>12 DEF FlockFails, Fails
  <2> QED
    BY <2>1, LocksSame DEF ThreadTypes
<1> QED
  BY <1>1, <1>2, <1>3, <1>4, <1>5, <1>6, <1>7, <1>8, <1>9, <1>10, <1>11, <1>12 DEF ThreadStep

(* A process that is killed gives its locks back.                           *)
LEMMA KillKeepsLocks ==
    ASSUME ThreadTypes, Locks, NEW pr \in Processes, Kill(pr)
    PROVE  Locks'
<1>1. EnvLocked'
  BY DEF Kill, Locks, EnvLocked, ThreadTypes, Processes
<1>2. FifoLocked'
  BY DEF Kill, Locks, FifoLocked, HasLock, ThreadTypes
<1> QED
  BY <1>1, <1>2 DEF Locks

-----------------------------------------------------------------------------
(* A report is read while tries are left, an answer awaited for a message.  *)
LEMMA InProgressKept ==
    ASSUME ThreadTypes, LplldTypes, InProgress, ThreadTypes',
           NEW t \in Threads, Call(t) \/ ThreadStep(t) \/ FlockFails(t)
    PROVE  InProgress'
<1>. USE DEF Goto
<1>1. CASE read_pll_status_buffer(t)
  <2>1. PICK r \in Readings :
                 /\ reading' = [reading EXCEPT ![t] = r]
                 /\ \/ pc' = [pc EXCEPT ![t] = "unflock"]
                    \/ pc' = pc /\ r.tries > 0
    BY <1>1, ReadSteps
  <2>2. todo' = todo
    BY <1>1 DEF read_pll_status_buffer
  <2> QED
    BY <2>1, <2>2 DEF InProgress, ThreadTypes
<1>2. CASE ebpp_pll_setcmd(t)
  <2> DEFINE r == [part |-> 1, len |-> 0, tries |-> Tries, words |-> << >>]
  <2>1. r \in Readings /\ r.tries > 0
    BY Sizes DEF Readings
  <2>2. /\ todo' = todo
        /\ \/ pc' = [pc EXCEPT ![t] = "return"] /\ reading' = reading
           \/ pc' = [pc EXCEPT ![t] = "status"] /\ reading' = [reading EXCEPT ![t] = r]
    BY <1>2 DEF ebpp_pll_setcmd
  <2> HIDE DEF r
  <2> QED
    BY <2>1, <2>2 DEF InProgress, ThreadTypes
<1>3. CASE ebpp_dsc_handle_params(t)
  <2>1. todo' = todo /\ reading' = reading /\ todo[t] # << >>
    BY <1>3 DEF ebpp_dsc_handle_params
  <2>2. \E place \in {"await", "return"} : pc' = [pc EXCEPT ![t] = place]
    BY <1>3 DEF ebpp_dsc_handle_params, Fails
  <2> QED
    BY <2>1, <2>2 DEF InProgress, ThreadTypes
<1>4. CASE Call(t) \/ LockEnv(t) \/ UnlockEnv(t)
  <2>1. /\ \A u \in Threads : u # t => pc'[u] = pc[u] /\ todo'[u] = todo[u]
        /\ reading' = reading /\ pc'[t] \in {"lock", "dsc", "user"}
    BY <1>4 DEF Call, LockEnv, UnlockEnv, callVars, ThreadTypes
  <2> QED
    BY <2>1 DEF InProgress
<1>5. CASE ebpp_dsc_message(t)
  <2>1. /\ \A u \in Threads : u # t => pc'[u] = pc[u] /\ todo'[u] = todo[u]
        /\ reading' = reading /\ pc'[t] \in {"dsc", "return"}
    BY <1>5 DEF ebpp_dsc_message, Fails, ThreadTypes
  <2> QED
    BY <2>1 DEF InProgress
<1>6. CASE \/ ebpp_setdscparam(t) \/ ebpp_set_pllparam(t) \/ ebpp_get_pllparam(t)
           \/ FileLock(t) \/ FlockFails(t) \/ ebpp_pll_clearstatus(t)
  <2>1. /\ \A u \in Threads : u # t => pc'[u] = pc[u]
        /\ todo' = todo /\ reading' = reading
        /\ pc'[t] \in {"return", "command", "flock", "clear"}
    BY <1>6 DEF ebpp_setdscparam, ebpp_set_pllparam, ebpp_get_pllparam, FileLock,
                FlockFails, ebpp_pll_clearstatus, Cleared, Fails, callVars, ThreadTypes
  <2> QED
    BY <2>1 DEF InProgress
<1>7. CASE FileUnlock(t)
  <2>1. /\ \A u \in Threads : u # t => pc'[u] = pc[u] /\ reading'[u] = reading[u]
        /\ todo' = todo /\ pc'[t] = "return"
    BY <1>7 DEF FileUnlock, ThreadTypes
  <2> QED
    BY <2>1 DEF InProgress
<1> QED
  BY <1>1, <1>2, <1>3, <1>4, <1>5, <1>6, <1>7 DEF ThreadStep

-----------------------------------------------------------------------------
(* Questions and answers *)

(* A step that neither asks nor answers.                                    *)
LEMMA AskedSame ==
    ASSUME Asked, UNCHANGED << requests, answer >>,
           \A u \in Threads : pc'[u] = "await" <=> pc[u] = "await",
           \A u \in Threads : pc[u] = "await" => todo'[u] = todo[u]
    PROVE  Asked'
<1>1. RequestsAwaited'
  BY DEF Asked, RequestsAwaited
<1>2. RequestsApart'
  BY DEF Asked, RequestsApart
<1>3. AnswersAwaited'
  BY DEF Asked, AnswersAwaited, Awaits
<1> QED
  BY <1>1, <1>2, <1>3 DEF Asked

(* ebpp_dsc_handle_params: the one request of the process that has the mutex. *)
LEMMA RequestKeepsAsked ==
    ASSUME ThreadTypes, DscdTypes, Locks, Asked, NEW t \in Threads, ebpp_dsc_handle_params(t)
    PROVE  Asked'
<1> DEFINE pid == ProcOf[t]
           r == [pid |-> pid, type |-> Head(todo[t]).type]
<1>1. pc[t] = "dsc" /\ UNCHANGED << todo, answer >>
  BY DEF ebpp_dsc_handle_params
<1>2. CASE UNCHANGED requests /\ pc' = [pc EXCEPT ![t] = "return"]
  BY <1>1, <1>2, AskedSame DEF ThreadTypes
<1>3. CASE requests' = Append(requests, r) /\ pc' = [pc EXCEPT ![t] = "await"]
  <2>1. ~Awaits(pid)
    BY <1>1, Alone DEF Awaits, Locks
  <2>2. answer[pid] = NULL
    BY <2>1 DEF Asked, AnswersAwaited, Processes
  <2>3. \A k \in 1 .. Len(requests) : requests[k].pid # NULL => requests[k].pid # pid
    BY <2>1 DEF Asked, RequestsAwaited, Awaits
  <2>4. /\ Len(requests) \in Nat /\ Len(requests') = Len(requests) + 1
        /\ requests'[Len(requests) + 1] = r
        /\ \A k \in 1 .. Len(requests) : requests'[k] = requests[k]
    <3>1. requests \in Seq(Requests)
      BY DEF DscdTypes
    <3> HIDE DEF r
    <3> QED
      BY <1>3, <3>1
  <2>5. r.pid = pid /\ r.type = Head(todo[t]).type
    OBVIOUS
  <2>6. RequestsAwaited'
    <3> SUFFICES ASSUME NEW k \in 1 .. Len(requests'), requests'[k].pid # NULL
                 PROVE  /\ \E u \in Threads :
                             /\ ProcOf[u] = requests'[k].pid /\ pc'[u] = "await"
                             /\ requests'[k].type = Head(todo'[u]).type
                        /\ answer'[requests'[k].pid] = NULL
      BY DEF RequestsAwaited
    <3>1. CASE k = Len(requests) + 1
      <4>1. requests'[k] = r
        BY <2>4, <3>1
      <4> HIDE DEF r
      <4> QED
        BY <1>1, <1>3, <2>2, <2>5, <4>1 DEF ThreadTypes
    <3>2. CASE k \in 1 .. Len(requests)
      <4>1. PICK u \in Threads : /\ ProcOf[u] = requests[k].pid /\ pc[u] = "await"
                                 /\ requests[k].type = Head(todo[u]).type
        BY <2>4, <3>2 DEF Asked, RequestsAwaited
      <4>2. pc'[u] = "await"
        BY <1>1, <1>3, <4>1 DEF ThreadTypes
      <4> QED
        BY <1>1, <2>4, <3>2, <4>1, <4>2 DEF Asked, RequestsAwaited
    <3> QED
      BY <2>4, <3>1, <3>2
  <2>7. RequestsApart'
    <3> HIDE DEF r
    <3> QED
      BY <2>3, <2>4, <2>5 DEF Asked, RequestsApart
  <2>8. AnswersAwaited'
    <3>1. \A pr \in Processes : answer'[pr] # NULL => Awaits(pr)'
      BY <1>1, <1>3 DEF Asked, AnswersAwaited, Awaits, ThreadTypes
    <3>2. \A u \in Threads : pc'[u] = "await" /\ answer'[ProcOf[u]] # NULL =>
              answer'[ProcOf[u]].type \in {Head(todo'[u]).type, NULL}
      BY <1>1, <1>3, <2>2 DEF Asked, AnswersAwaited, ThreadTypes
    <3> QED
      BY <3>1, <3>2 DEF AnswersAwaited
  <2> QED
    BY <2>6, <2>7, <2>8 DEF Asked
<1> QED
  BY <1>2, <1>3 DEF ebpp_dsc_handle_params, Fails, Goto

(* ebpp_dsc_message: the answer is taken by the thread that waits for it.   *)
LEMMA MessageKeepsAsked ==
    ASSUME ThreadTypes, DscdTypes, Locks, Asked, NEW t \in Threads, ebpp_dsc_message(t)
    PROVE  Asked'
<1> DEFINE pid == ProcOf[t]
<1>1. /\ pc[t] = "await" /\ answer[pid] # NULL /\ pid \in Processes
      /\ answer' = [answer EXCEPT ![pid] = NULL] /\ UNCHANGED requests
      /\ \E place \in {"dsc", "return"} : pc' = [pc EXCEPT ![t] = place]
      /\ \A u \in Threads : u # t => todo'[u] = todo[u]
  BY DEF ebpp_dsc_message, Fails, Goto, ThreadTypes, Processes
<1>2. \A u \in Threads : pc'[u] = "await" <=> pc[u] = "await" /\ u # t
  BY <1>1 DEF ThreadTypes
<1>3. \A u \in Threads : pc[u] = "await" /\ ProcOf[u] = pid => u = t
  BY <1>1, Alone DEF Locks
<1>4. RequestsAwaited'
  <2> SUFFICES ASSUME NEW k \in 1 .. Len(requests), requests[k].pid # NULL
               PROVE  /\ \E u \in Threads :
                           /\ ProcOf[u] = requests[k].pid /\ pc'[u] = "await"
                           /\ requests[k].type = Head(todo'[u]).type
                      /\ answer'[requests[k].pid] = NULL
    BY <1>1 DEF RequestsAwaited
  <2>1. answer[requests[k].pid] = NULL /\ requests[k].pid # pid
    BY <1>1 DEF Asked, RequestsAwaited
  <2>2. PICK u \in Threads : /\ ProcOf[u] = requests[k].pid /\ pc[u] = "await"
                             /\ requests[k].type = Head(todo[u]).type
    BY DEF Asked, RequestsAwaited
  <2>3. u # t /\ ProcOf[u] \in Processes
    BY <2>1, <2>2 DEF Processes
  <2> QED
    BY <1>1, <1>2, <2>1, <2>2, <2>3 DEF DscdTypes
<1>5. RequestsApart'
  BY <1>1 DEF Asked, RequestsApart
<1>6. AnswersAwaited'
  <2>1. ASSUME NEW pr \in Processes, answer'[pr] # NULL PROVE Awaits(pr)'
    <3>1. pr # pid /\ answer[pr] # NULL
      BY <1>1, <2>1 DEF DscdTypes
    <3>2. PICK u \in Threads : ProcOf[u] = pr /\ pc[u] = "await"
      BY <3>1 DEF Asked, AnswersAwaited, Awaits
    <3> QED
      BY <1>2, <3>1, <3>2 DEF Awaits
  <2>2. ASSUME NEW u \in Threads, pc'[u] = "await", answer'[ProcOf[u]] # NULL
        PROVE  answer'[ProcOf[u]].type \in {Head(todo'[u]).type, NULL}
    <3>1. pc[u] = "await" /\ u # t /\ ProcOf[u] # pid /\ ProcOf[u] \in Processes
      BY <1>2, <1>3, <2>2 DEF Processes
    <3> QED
      BY <1>1, <2>2, <3>1 DEF Asked, AnswersAwaited, DscdTypes
  <2> QED
    BY <2>1, <2>2 DEF AnswersAwaited
<1> QED
  BY <1>4, <1>5, <1>6 DEF Asked

(* No other step of a thread touches requests and answers.                  *)
LEMMA ThreadKeepsAsked ==
    ASSUME ThreadTypes, DscdTypes, LplldTypes, InProgress, Locks, Asked,
           NEW t \in Threads, Call(t) \/ ThreadStep(t) \/ FlockFails(t)
    PROVE  Asked'
<1>. USE DEF Goto
<1>1. CASE ebpp_dsc_handle_params(t)
  BY <1>1, RequestKeepsAsked
<1>2. CASE ebpp_dsc_message(t)
  BY <1>2, MessageKeepsAsked
<1>3. CASE Call(t) \/ LockEnv(t) \/ UnlockEnv(t)
  <2>1. /\ pc[t] \in {"user", "lock", "return"} /\ UNCHANGED << requests, answer >>
        /\ \E place \in {"lock", "dsc", "user"} : pc' = [pc EXCEPT ![t] = place]
        /\ \A u \in Threads : u # t => todo'[u] = todo[u]
    BY <1>3 DEF Call, LockEnv, UnlockEnv, callVars, dscdVars, ThreadTypes
  <2>2. \A u \in Threads : /\ pc'[u] = "await" <=> pc[u] = "await"
                           /\ pc[u] = "await" => u # t
    BY <2>1 DEF ThreadTypes
  <2> QED
    BY <2>1, <2>2, AskedSame
<1>4. CASE read_pll_status_buffer(t)
  <2>1. pc[t] = "status" /\ (pc' = pc \/ pc' = [pc EXCEPT ![t] = "unflock"])
    BY <1>4, ReadSteps
  <2>2. UNCHANGED << requests, answer, todo >>
    BY <1>4 DEF read_pll_status_buffer, dscdVars
  <2> QED
    BY <2>1, <2>2, AskedSame DEF ThreadTypes
<1>5. CASE \/ ebpp_setdscparam(t) \/ ebpp_set_pllparam(t) \/ ebpp_get_pllparam(t)
           \/ FileLock(t) \/ ebpp_pll_clearstatus(t) \/ ebpp_pll_setcmd(t) \/ FileUnlock(t)
           \/ FlockFails(t)
  <2>1. /\ pc[t] # "await" /\ pc'[t] # "await" /\ UNCHANGED << requests, answer, todo >>
        /\ \A u \in Threads : u # t => pc'[u] = pc[u]
    BY <1>5 DEF ebpp_setdscparam, ebpp_set_pllparam, ebpp_get_pllparam, FileLock,
                ebpp_pll_clearstatus, ebpp_pll_setcmd, FileUnlock, FlockFails,
                Cleared, Fails, callVars, dscdVars, ThreadTypes
  <2> QED
    BY <2>1, AskedSame
<1> QED
  BY <1>1, <1>2, <1>3, <1>4, <1>5 DEF ThreadStep

(* dscd answers the one request of the process, to whom still waits.        *)
LEMMA AnswerKeepsAsked ==
    ASSUME DscdTypes, ThreadTypes, Locks, Asked, Answer
    PROVE  Asked'
<1> DEFINE r == Head(requests)
<1>1. /\ requests # << >> /\ requests' = Tail(requests) /\ UNCHANGED << pc, todo >>
      /\ requests \in Seq(Requests)
  BY DEF Answer, callVars, DscdTypes
<1>2. /\ Len(requests) \in Nat \ {0} /\ r = requests[1] /\ r \in Requests
      /\ Len(requests') = Len(requests) - 1
      /\ \A k \in 1 .. Len(requests') : requests'[k] = requests[k + 1] /\ k + 1 \in 2 .. Len(requests)
  BY <1>1
<1>3. RequestsApart'
  BY <1>2 DEF Asked, RequestsApart
<1>4. CASE r.pid = NULL
  <2>1. answer' = answer
    BY <1>4 DEF Answer
  <2>2. RequestsAwaited'
    BY <1>1, <1>2, <2>1 DEF Asked, RequestsAwaited
  <2>3. AnswersAwaited'
    BY <1>1, <2>1 DEF Asked, AnswersAwaited, Awaits
  <2> QED
    BY <1>3, <2>2, <2>3 DEF Asked
<1>5. CASE r.pid # NULL
  <2>1. PICK good \in BOOLEAN :
            answer' = [answer EXCEPT ![r.pid] = [type |-> r.type, ok |-> good]]
    BY <1>5 DEF Answer
  <2>2. Awaits(r.pid) /\ r.pid \in Processes
    BY <1>2, <1>5 DEF Answer, Requests
  <2>3. RequestsAwaited'
    <3> SUFFICES ASSUME NEW k \in 1 .. Len(requests'), requests'[k].pid # NULL
                 PROVE  /\ \E u \in Threads :
                             /\ ProcOf[u] = requests'[k].pid /\ pc'[u] = "await"
                             /\ requests'[k].type = Head(todo'[u]).type
                        /\ answer'[requests'[k].pid] = NULL
      BY DEF RequestsAwaited
    <3>1. k + 1 \in 1 .. Len(requests) /\ k + 1 # 1 /\ requests'[k] = requests[k + 1]
      BY <1>2
    <3>2. requests[k + 1].pid # r.pid
      BY <1>2, <1>5, <3>1 DEF Asked, RequestsApart
    <3>3. /\ \E u \in Threads : /\ ProcOf[u] = requests[k + 1].pid /\ pc[u] = "await"
                                 /\ requests[k + 1].type = Head(todo[u]).type
          /\ answer[requests[k + 1].pid] = NULL
      BY <3>1 DEF Asked, RequestsAwaited
    <3>4. requests[k + 1].pid \in Processes
      BY <3>3 DEF Processes
    <3> QED
      BY <1>1, <2>1, <3>1, <3>2, <3>3, <3>4 DEF DscdTypes
  <2>4. PICK u \in Threads : /\ ProcOf[u] = r.pid /\ pc[u] = "await"
                             /\ r.type = Head(todo[u]).type
    BY <1>2, <1>5 DEF Asked, RequestsAwaited
  <2>5. AnswersAwaited'
    <3>1. \A pr \in Processes : answer'[pr] # NULL => Awaits(pr)'
      BY <1>1, <2>1, <2>2 DEF Asked, AnswersAwaited, Awaits, DscdTypes
    <3>2. ASSUME NEW w \in Threads, pc'[w] = "await", answer'[ProcOf[w]] # NULL
          PROVE  answer'[ProcOf[w]].type \in {Head(todo'[w]).type, NULL}
      <4>1. CASE ProcOf[w] = r.pid
        <5>1. w = u
          BY <1>1, <2>4, <3>2, <4>1, Alone DEF Locks
        <5>2. answer'[ProcOf[w]] = [type |-> r.type, ok |-> good]
          BY <2>1, <2>2, <4>1 DEF DscdTypes
        <5> QED
          BY <1>1, <2>4, <5>1, <5>2
      <4>2. CASE ProcOf[w] # r.pid
        BY <1>1, <2>1, <3>2, <4>2 DEF Asked, AnswersAwaited, DscdTypes, Processes
      <4> QED
        BY <4>1, <4>2
    <3> QED
      BY <3>1, <3>2 DEF AnswersAwaited
  <2> QED
    BY <1>3, <2>3, <2>5 DEF Asked
<1> QED
  BY <1>4, <1>5

(* dscd takes the requests away with it, and may leave the end of the file. *)
LEMMA DscdStopsKeepsAsked ==
    ASSUME DscdTypes, Asked, DscdStops
    PROVE  Asked'
<1>1. requests' = << >> /\ UNCHANGED << pc, todo >>
  BY DEF DscdStops, callVars
<1>2. RequestsAwaited' /\ RequestsApart'
  BY <1>1 DEF RequestsAwaited, RequestsApart
<1>3. CASE answer' = answer
  BY <1>1, <1>2, <1>3 DEF Asked, AnswersAwaited, Awaits
<1>4. ASSUME NEW pr \in Processes, Awaits(pr),
             answer' = [answer EXCEPT ![pr] = [type |-> NULL, ok |-> FALSE]]
      PROVE  AnswersAwaited'
  BY <1>1, <1>4 DEF Asked, AnswersAwaited, Awaits, DscdTypes, Processes
<1> QED
  BY <1>2, <1>3, <1>4 DEF DscdStops, Asked

(* The process that is killed takes what it has asked, and its answer, away. *)
LEMMA KillKeepsAsked ==
    ASSUME ThreadTypes, DscdTypes, Asked, NEW pr \in Processes, Kill(pr)
    PROVE  Asked'
<1>1. /\ \A t \in Threads : pc'[t] = "await" => pc[t] = "await" /\ ProcOf[t] # pr
      /\ \A t \in Threads : ProcOf[t] # pr => pc'[t] = pc[t] /\ todo'[t] = todo[t]
      /\ answer' = [answer EXCEPT ![pr] = NULL]
  BY DEF Kill, ThreadTypes
<1>2. /\ Len(requests') = Len(requests)
      /\ \A k \in 1 .. Len(requests) :
            requests'[k].pid # NULL => requests[k].pid # pr /\ requests'[k] = requests[k]
  <2>1. requests \in Seq(Requests)
    BY DEF DscdTypes
  <2>2. requests' = [ k \in DOMAIN requests |->
                        IF requests[k].pid = pr THEN [requests[k] EXCEPT !.pid = NULL]
                        ELSE requests[k] ]
    BY DEF Kill
  <2>3. DOMAIN requests = 1 .. Len(requests) /\ Len(requests) \in Nat
    BY <2>1
  <2>4. Len(requests') = Len(requests)
    BY <2>2, <2>3
  <2>5. ASSUME NEW k \in 1 .. Len(requests), requests'[k].pid # NULL
        PROVE  requests[k].pid # pr /\ requests'[k] = requests[k]
    <3>1. requests[k] \in Requests
      BY <2>1
    <3>2. requests'[k] = IF requests[k].pid = pr THEN [requests[k] EXCEPT !.pid = NULL]
                         ELSE requests[k]
      BY <2>2, <2>3
    <3>3. [requests[k] EXCEPT !.pid = NULL].pid = NULL
      BY <3>1 DEF Requests
    <3> QED
      BY <2>5, <3>2, <3>3
  <2> QED
    BY <2>4, <2>5
<1>3. RequestsAwaited'
  <2> SUFFICES ASSUME NEW k \in 1 .. Len(requests), requests'[k].pid # NULL
               PROVE  /\ \E u \in Threads :
                           /\ ProcOf[u] = requests'[k].pid /\ pc'[u] = "await"
                           /\ requests'[k].type = Head(todo'[u]).type
                      /\ answer'[requests'[k].pid] = NULL
    BY <1>2 DEF RequestsAwaited
  <2>1. requests[k].pid # pr /\ requests'[k] = requests[k]
    BY <1>2
  <2>2. /\ \E u \in Threads : /\ ProcOf[u] = requests[k].pid /\ pc[u] = "await"
                               /\ requests[k].type = Head(todo[u]).type
        /\ answer[requests[k].pid] = NULL
    BY <2>1 DEF Asked, RequestsAwaited
  <2>3. requests[k].pid \in Processes
    BY <2>2 DEF Processes
  <2> QED
    BY <1>1, <2>1, <2>2, <2>3 DEF DscdTypes
<1>4. RequestsApart'
  BY <1>2 DEF Asked, RequestsApart
<1>5. AnswersAwaited'
  BY <1>1 DEF Asked, AnswersAwaited, Awaits, DscdTypes, Processes
<1> QED
  BY <1>3, <1>4, <1>5 DEF Asked

-----------------------------------------------------------------------------
(* Every step keeps the invariant.                                          *)
LEMMA NextKeepsDaemonsInv == DaemonsInv /\ [Next]_vars => DaemonsInv'
<1> SUFFICES ASSUME DaemonsInv, [Next]_vars PROVE DaemonsInv'
  OBVIOUS
<1> ThreadTypes /\ DscdTypes /\ LplldTypes /\ Locks /\ InProgress /\ Asked
  BY DEF DaemonsInv
<1>0. running' = running /\ running \in Worlds
  BY DEF DaemonsInv, Next, vars
<1>1. ASSUME NEW t \in Threads, Call(t) \/ ThreadStep(t) \/ FlockFails(t) PROVE DaemonsInv'
  <2>1. ThreadTypes' /\ DscdTypes' /\ LplldTypes'
    BY <1>1, ThreadKeepsTypes
  <2>2. Locks' /\ InProgress' /\ Asked'
    BY <1>1, <2>1, ThreadKeepsLocks, InProgressKept, ThreadKeepsAsked
  <2> QED
    BY <1>0, <2>1, <2>2 DEF DaemonsInv
<1>2. ASSUME NEW pr \in Processes, Kill(pr) PROVE DaemonsInv'
  <2>1. ThreadTypes' /\ DscdTypes' /\ LplldTypes'
    BY <1>2, KillKeepsTypes
  <2>2. Locks' /\ Asked'
    BY <1>2, KillKeepsLocks, KillKeepsAsked
  <2>3. InProgress'
    BY <1>2 DEF Kill, InProgress, ThreadTypes
  <2> QED
    BY <1>0, <2>1, <2>2, <2>3 DEF DaemonsInv
<1>3. CASE Answer \/ DscdStops \/ DscdStarts \/ lplld_command \/ LplldStops \/ LplldStarts
  <2>1. UNCHANGED << pc, callVars, envmutex, flocked >>
    BY <1>3 DEF Answer, DscdStops, DscdStarts, lplld_command, LplldStops, LplldStarts
  <2>2. ThreadTypes' /\ Locks' /\ InProgress'
    BY <2>1 DEF callVars, ThreadTypes, Locks, EnvLocked, FifoLocked, HasLock, InProgress
  <2>3. DscdTypes' /\ LplldTypes'
    BY <1>3, DaemonKeepsTypes
  <2>4. Asked'
    <3>1. CASE Answer
      BY <3>1, AnswerKeepsAsked
    <3>2. CASE DscdStops
      BY <3>2, DscdStopsKeepsAsked
    <3>3. CASE UNCHANGED << requests, answer >>
      BY <2>1, <3>3, AskedSame DEF callVars
    <3> QED
      BY <1>3, <3>1, <3>2, <3>3 DEF DscdStarts, lplld_command, LplldStops, LplldStarts, dscdVars
  <2> QED
    BY <1>0, <2>2, <2>3, <2>4 DEF DaemonsInv
<1>4. CASE UNCHANGED vars
  <2>1. UNCHANGED << pc, callVars, envmutex, flocked, dscdVars, lplldVars >>
    BY <1>4 DEF vars
  <2>2. ThreadTypes' /\ Locks' /\ InProgress' /\ DscdTypes' /\ LplldTypes'
    BY <2>1 DEF callVars, dscdVars, lplldVars, ThreadTypes, DscdTypes, LplldTypes, Locks,
                EnvLocked, FifoLocked, HasLock, InProgress
  <2>3. Asked'
    BY <2>1, AskedSame DEF callVars, dscdVars
  <2> QED
    BY <1>0, <2>2, <2>3 DEF DaemonsInv
<1>5. Next => \/ \E t \in Threads : Call(t) \/ ThreadStep(t) \/ FlockFails(t)
              \/ \E pr \in Processes : Kill(pr)
              \/ Answer \/ DscdStops \/ DscdStarts
              \/ lplld_command \/ LplldStops \/ LplldStarts
  BY <1>0, DaemonsAssumption DEF Next
<1> QED
  BY <1>1, <1>2, <1>3, <1>4, <1>5

-----------------------------------------------------------------------------
(* The mutex and flock are held where they should be, a request has a       *)
(* thread that waits for its answer in ebpp_dsc_message, and an answer the  *)
(* one whose request it was for, whoever is killed and whatever restarts.   *)
THEOREM CallsConsistent == Spec => []DaemonsInv
<1> QED
  BY InitDaemonsInv, NextKeepsDaemonsInv, PTL DEF Spec

(* ebpp_dsc_message: the answer in the fifo of a process is the one to what *)
(* the thread that waits for it asked, though its type is not looked at.    *)
THEOREM AnswerAlwaysMine == Spec => []AnswerIsMine
<1>1. DaemonsInv => AnswerIsMine
  <2> SUFFICES ASSUME DaemonsInv PROVE AnswerIsMine
    OBVIOUS
  <2>1. DaemonsTypeOK
    <3>1. ThreadTypes /\ LplldTypes /\ FifoLocked
      BY DEF DaemonsInv, Locks
    <3>2. /\ \A k \in DOMAIN status : status[k] \in Words
          /\ \A k \in DOMAIN commands : commands[k] \in Threads \cup {"set"}
      BY <3>1 DEF LplldTypes
    <3>3. \A t \in Threads : reading[t] # NULL => reading[t].tries \in 0 .. Tries
      BY <3>1 DEF ThreadTypes, Readings
    <3> QED
      BY <3>1, <3>2, <3>3 DEF DaemonsTypeOK, ThreadTypes, FifoLocked, HasLock
  <2> QED
    BY <2>1 DEF DaemonsInv, Asked, AnswersAwaited, AnswerIsMine
<1> QED
  BY <1>1, CallsConsistent, PTL

-----------------------------------------------------------------------------
(* The report of lplld *)

(* The report on the query of c. *)
ReportOn(c) == [i \in 1 .. Report |-> [by |-> c, at |-> i]]

(* Words of which none is missing at the front, of a report for one of us.    *)
Begins(s, us) ==
    s = << >> \/ \E u \in us : /\ Len(s) >= Report
                               /\ \A i \in 1 .. Report : s[i] = [by |-> u, at |-> i]

Asker(t) == IF owed[t] THEN Threads ELSE {t}

(* The words of the parts before part n. *)
Before(n) == IF n = 1 THEN 0 ELSE IF n = 2 THEN PartSize[1] ELSE PartSize[1] + PartSize[2]

(* lplld has no query to answer but those of t. *)
OnlyMine(t) == \A k \in 1 .. Len(commands) : Query(commands[k]) => commands[k] = t

(* What a thread that has cleared the status fifo finds in it, with what it   *)
(* has read: nothing, or whole reports, its own ones if no query was          *)
(* unanswered.  It cleared the fifo unless its errno was EAGAIN before.       *)
StatusOf(t) ==
    /\ pc[t] = "clear" /\ ~stale[t] => ~errno[t]
    /\ (pc[t] = "status" \/ (pc[t] = "command" /\ ~call[t].set)) /\ ~owed[t] => OnlyMine(t)
    /\ pc[t] = "command" /\ ~call[t].set /\ ~stale[t] => Begins(status, Asker(t))
    /\ pc[t] = "status" /\ ~stale[t] =>
         /\ Begins(reading[t].words \o status, Asker(t))
         /\ Len(reading[t].words) = Before(reading[t].part) + reading[t].len
    /\ pc[t] = "unflock" /\ ok[t] /\ ~stale[t] =>
         \E u \in Asker(t) : reading[t].words = ReportOn(u)

HistoryTypes ==
    /\ stale \in [Threads -> BOOLEAN] /\ owed \in [Threads -> BOOLEAN]
    /\ ok \in [Threads -> BOOLEAN]

StatusInv == DaemonsInv /\ HistoryTypes /\ \A t \in Threads : StatusOf(t)

(* A read and what it leaves are what was there. *)
LEMMA ReadAndRest ==
    ASSUME status \in Seq(Words), NEW n \in Nat
    PROVE  /\ ReadWords(n) \o RestAfter(n) = status
           /\ ReadWords(n) \in Seq(Words) /\ RestAfter(n) \in Seq(Words)
           /\ status = << >> => ReadWords(n) = << >> /\ RestAfter(n) = << >>
<1> DEFINE m == Smaller(n, Len(status))
           k == Len(status)
<1>1. k \in Nat /\ m \in 0 .. k
  BY LenProperties DEF Smaller
<1> HIDE DEF m, k
<1>2. /\ SubSeq(status, 1, m) \in Seq(Words) /\ Len(SubSeq(status, 1, m)) = m
      /\ \A i \in 1 .. m : SubSeq(status, 1, m)[i] = status[i]
  <2>1. \A i \in 1 .. m : status[i] \in Words
    BY <1>1, ElementOfSeq DEF k
  <2>2. 1 \in Int /\ m \in Int
    BY <1>1
  <2>3. /\ SubSeq(status, 1, m) \in Seq(Words)
        /\ Len(SubSeq(status, 1, m)) = IF 1 <= m THEN m - 1 + 1 ELSE 0
        /\ \A i \in 1 .. m - 1 + 1 : SubSeq(status, 1, m)[i] = status[1 + i - 1]
    BY <2>1, <2>2, SubSeqProperties
  <2> QED BY <1>1, <2>3
<1>3. /\ SubSeq(status, m + 1, k) \in Seq(Words) /\ Len(SubSeq(status, m + 1, k)) = k - m
      /\ \A i \in 1 .. k - m : SubSeq(status, m + 1, k)[i] = status[m + i]
  <2> DEFINE l == m + 1
  <2>1. \A i \in l .. k : status[i] \in Words
    BY <1>1, ElementOfSeq DEF k
  <2>2. l \in Int /\ k \in Int
    BY <1>1
  <2> HIDE DEF l
  <2>3. /\ SubSeq(status, l, k) \in Seq(Words)
        /\ Len(SubSeq(status, l, k)) = IF l <= k THEN k - l + 1 ELSE 0
        /\ \A i \in 1 .. k - l + 1 : SubSeq(status, l, k)[i] = status[l + i - 1]
    BY <2>1, <2>2, SubSeqProperties
  <2> QED BY <1>1, <2>3 DEF l
<1>4. ReadWords(n) = SubSeq(status, 1, m) /\ RestAfter(n) = SubSeq(status, m + 1, k)
  BY DEF ReadWords, RestAfter, m, k
<1> DEFINE a == ReadWords(n)
           b == RestAfter(n)
<1> HIDE DEF a, b
<1>5. /\ a \o b \in Seq(Words) /\ Len(a \o b) = Len(a) + Len(b)
      /\ \A i \in 1 .. Len(a) + Len(b) : (a \o b)[i] = IF i <= Len(a) THEN a[i] ELSE b[i - Len(a)]
  <2>1. a \in Seq(Words) /\ b \in Seq(Words)
    BY <1>2, <1>3, <1>4 DEF a, b
  <2> QED
    BY <2>1, ConcatProperties
<1>6. Len(a) = m /\ Len(b) = k - m
  BY <1>2, <1>3, <1>4 DEF a, b
<1>7. \A i \in 1 .. Len(status) : (a \o b)[i] = status[i]
  <2> SUFFICES ASSUME NEW i \in 1 .. k PROVE (a \o b)[i] = status[i]
    BY DEF k
  <2>1. CASE i <= m
    BY <1>1, <1>2, <1>4, <1>5, <1>6, <2>1 DEF a, b
  <2>2. CASE ~(i <= m)
    <3>1. i - m \in 1 .. k - m /\ m + (i - m) = i
      BY <1>1, <2>2
    <3>2. b[i - m] = status[m + (i - m)]
      BY <1>3, <1>4, <3>1 DEF b
    <3>3. (a \o b)[i] = b[i - m]
      BY <1>1, <1>5, <1>6, <2>2
    <3> QED BY <3>1, <3>2, <3>3
  <2> QED BY <2>1, <2>2
<1>8. Len(a \o b) = Len(status)
  BY <1>1, <1>5, <1>6 DEF k
<1>9. a \o b = status
  BY <1>5, <1>7, <1>8, SeqEqual
<1>10. ASSUME status = << >> PROVE a = << >> /\ b = << >>
  <2>1. k = 0 /\ m = 0
    BY <1>1, <1>10 DEF k
  <2>2. Len(a) = 0 /\ Len(b) = 0 /\ a \in Seq(Words) /\ b \in Seq(Words)
    BY <1>2, <1>3, <1>4, <1>6, <2>1 DEF a, b
  <2> QED BY <2>2, EmptySeq
<1> QED BY <1>2, <1>3, <1>4, <1>9, <1>10 DEF a, b

(* The report on a query is a sequence of words, from the first on.         *)
LEMMA ReportIs ==
    ASSUME NEW c \in Threads
    PROVE  /\ ReportOn(c) \in Seq(Words) /\ Len(ReportOn(c)) = Report
           /\ \A i \in 1 .. Report : ReportOn(c)[i] = [by |-> c, at |-> i]
           /\ Report \in Nat /\ Report > 0
<1>1. Report \in Nat /\ Report > 0
  BY DaemonsAssumption DEF Report
<1> DEFINE w == ReportOn(c)
<1>2. w \in [1 .. Report -> Words] /\ \A i \in 1 .. Report : w[i] = [by |-> c, at |-> i]
  BY <1>1 DEF ReportOn, Words
<1> HIDE DEF w
<1>3. w \in Seq(Words)
  BY <1>1, <1>2, SeqDef
<1>4. Len(w) = Report
  <2>1. Len(w) \in Nat /\ DOMAIN w = 1 .. Len(w)
    BY <1>3, LenProperties
  <2>2. DOMAIN w = 1 .. Report
    BY <1>2
  <2>3. ASSUME NEW m \in Nat, 1 .. m = 1 .. Report PROVE m = Report
    <3>1. \A j \in Int : j \in 1 .. m <=> j \in 1 .. Report
      BY <2>3
    <3> QED BY <1>1, <3>1
  <2> QED BY <2>1, <2>2, <2>3
<1> QED BY <1>1, <1>2, <1>3, <1>4 DEF w

(* A whole report behind whole reports. *)
LEMMA BeginsMore ==
    ASSUME NEW us \in SUBSET Threads, NEW s \in Seq(Words), Begins(s, us), NEW c \in us
    PROVE  Begins(s \o ReportOn(c), us)
<1> DEFINE r == ReportOn(c)
<1>1. /\ r \in Seq(Words) /\ Len(r) = Report
      /\ \A i \in 1 .. Report : r[i] = [by |-> c, at |-> i]
      /\ Report \in Nat
  BY ReportIs
<1> HIDE DEF r
<1>2. /\ Len(s \o r) = Len(s) + Len(r)
      /\ \A i \in 1 .. Len(s) + Len(r) : (s \o r)[i] = IF i <= Len(s) THEN s[i] ELSE r[i - Len(s)]
  BY <1>1, ConcatProperties
<1>3. Len(s) \in Nat
  BY LenProperties
<1>4. CASE s = << >>
  <2>1. s \o r = r
    BY <1>1, <1>4, ConcatEmptySeq
  <2> QED BY <1>1, <2>1 DEF Begins, r
<1>5. CASE s # << >>
  <2>1. PICK u \in us : Len(s) >= Report /\ \A i \in 1 .. Report : s[i] = [by |-> u, at |-> i]
    BY <1>5 DEF Begins
  <2>2. \A i \in 1 .. Report : (s \o r)[i] = s[i]
    BY <1>1, <1>2, <1>3, <2>1
  <2>3. Len(s \o r) >= Report
    BY <1>1, <1>2, <1>3, <2>1
  <2> QED BY <2>1, <2>2, <2>3 DEF Begins, r
<1> QED BY <1>4, <1>5

(* As many words as a report has, from the front, are a report. *)
LEMMA BeginsWhole ==
    ASSUME NEW us \in SUBSET Threads, NEW a \in Seq(Words), NEW b \in Seq(Words),
           Begins(a \o b, us), Len(a) = Report
    PROVE  \E u \in us : a = ReportOn(u)
<1>1. Report \in Nat /\ Report > 0
  BY DaemonsAssumption DEF Report
<1>2. /\ Len(a \o b) = Len(a) + Len(b)
      /\ \A i \in 1 .. Len(a) + Len(b) : (a \o b)[i] = IF i <= Len(a) THEN a[i] ELSE b[i - Len(a)]
      /\ Len(b) \in Nat
  BY ConcatProperties, LenProperties
<1>3. a \o b # << >>
  <2>1. Len(a \o b) > 0
    BY <1>1, <1>2
  <2>2. Len(<< >>) = 0
    BY EmptySeq
  <2> QED BY <2>1, <2>2
<1>4. PICK u \in us : \A i \in 1 .. Report : (a \o b)[i] = [by |-> u, at |-> i]
  BY <1>3 DEF Begins
<1>5. ASSUME NEW i \in 1 .. Report PROVE a[i] = [by |-> u, at |-> i]
  <2>1. i \in 1 .. Len(a) + Len(b) /\ i <= Len(a)
    BY <1>1, <1>2
  <2>2. (a \o b)[i] = a[i]
    BY <1>2, <2>1
  <2> QED
    BY <1>4, <2>2
<1> DEFINE r == ReportOn(u)
<1>6. /\ r \in Seq(Words) /\ Len(r) = Report
      /\ \A i \in 1 .. Report : r[i] = [by |-> u, at |-> i]
  BY ReportIs
<1> HIDE DEF r
<1>7. a = r
  BY <1>5, <1>6, SeqEqual
<1> QED BY <1>7 DEF r

-----------------------------------------------------------------------------
(* What the steps of others leave alone *)

(* The thread's own state stays. *)
Kept(u) ==
    /\ pc'[u] = pc[u] /\ call'[u] = call[u] /\ errno'[u] = errno[u]
    /\ reading'[u] = reading[u] /\ ok'[u] = ok[u]
    /\ stale'[u] = stale[u] /\ owed'[u] = owed[u]

(* Neither the thread's own state nor the fifos of lplld change for it. *)
LEMMA SameStatus ==
    ASSUME NEW u \in Threads, StatusOf(u), Kept(u), status' = status,
           OnlyMine(u) => OnlyMine(u)'
    PROVE  StatusOf(u)'
<1>. USE DEF Kept, StatusOf
<1>1. (pc[u] = "clear" /\ ~stale[u] => ~errno[u])'
  OBVIOUS
<1>2. ((pc[u] = "status" \/ (pc[u] = "command" /\ ~call[u].set)) /\ ~owed[u] => OnlyMine(u))'
  OBVIOUS
<1>3. (pc[u] = "command" /\ ~call[u].set /\ ~stale[u] => Begins(status, Asker(u)))'
  BY DEF Asker, Begins
<1>4. (pc[u] = "status" /\ ~stale[u] =>
          /\ Begins(reading[u].words \o status, Asker(u))
          /\ Len(reading[u].words) = Before(reading[u].part) + reading[u].len)'
  <2> SUFFICES ASSUME pc'[u] = "status", ~stale'[u]
               PROVE  /\ Begins(reading'[u].words \o status', Asker(u)')
                      /\ Len(reading'[u].words) = Before(reading'[u].part) + reading'[u].len
    BY DEF Begins, Before
  <2>1. Asker(u)' = Asker(u)
    BY DEF Asker
  <2>2. Begins(reading[u].words \o status, Asker(u))
    OBVIOUS
  <2>3. Len(reading[u].words) = Before(reading[u].part) + reading[u].len
    OBVIOUS
  <2>4. reading'[u] = reading[u] /\ status' = status
    OBVIOUS
  <2> QED
    BY ONLY <2>1, <2>2, <2>3, <2>4
<1>5. (pc[u] = "unflock" /\ ok[u] /\ ~stale[u] =>
          \E v \in Asker(u) : reading[u].words = ReportOn(v))'
  BY DEF Asker, ReportOn
<1> QED
  BY <1>1, <1>2, <1>3, <1>4, <1>5

(* Nothing is said of a thread that does not have the lock of the fifo. *)
LEMMA FarStatus ==
    ASSUME NEW u \in Threads, ~HasLock(u)'
    PROVE  StatusOf(u)'
  BY DEF HasLock, StatusOf

(* A step of a thread is its own. *)
LEMMA OthersKept ==
    ASSUME ThreadTypes, HistoryTypes, NEW t \in Threads, NEW u \in Threads \ {t},
           Call(t) \/ ThreadStep(t) \/ FlockFails(t)
    PROVE  Kept(u)
<1>. USE DEF Kept, Goto, Fails, callVars, ThreadTypes, HistoryTypes
<1>1. CASE Call(t)
  BY <1>1 DEF Call
<1>2. CASE LockEnv(t) \/ UnlockEnv(t)
  BY <1>2 DEF LockEnv, UnlockEnv
<1>3. CASE ebpp_setdscparam(t)
  BY <1>3 DEF ebpp_setdscparam
<1>4. CASE ebpp_dsc_handle_params(t)
  BY <1>4 DEF ebpp_dsc_handle_params
<1>5. CASE ebpp_dsc_message(t)
  BY <1>5 DEF ebpp_dsc_message
<1>6. CASE ebpp_set_pllparam(t) \/ ebpp_get_pllparam(t)
  BY <1>6 DEF ebpp_set_pllparam, ebpp_get_pllparam
<1>7. CASE FileLock(t)
  BY <1>7 DEF FileLock
<1>8. CASE ebpp_pll_clearstatus(t)
  BY <1>8 DEF ebpp_pll_clearstatus, Cleared
<1>9. CASE ebpp_pll_setcmd(t)
  BY <1>9 DEF ebpp_pll_setcmd
<1>10. CASE read_pll_status_buffer(t)
  <2>1. /\ errno'[u] = errno[u] /\ reading'[u] = reading[u]
        /\ pc'[u] = pc[u] /\ ok'[u] = ok[u]
    BY <1>10 DEF read_pll_status_buffer
  <2> QED
    BY <1>10, <2>1 DEF read_pll_status_buffer
<1>11. CASE FileUnlock(t) \/ FlockFails(t)
  BY <1>11 DEF FileUnlock, FlockFails
<1> QED
  BY <1>1, <1>2, <1>3, <1>4, <1>5, <1>6, <1>7, <1>8, <1>9, <1>10, <1>11 DEF ThreadStep

(* What a thread does without the lock of the status fifo touches neither it *)
(* nor a query.                                                              *)
LEMMA StepsWithoutFifo ==
    ASSUME ThreadTypes, LplldTypes, NEW t \in Threads,
           \/ Call(t) \/ LockEnv(t) \/ UnlockEnv(t)
           \/ ebpp_setdscparam(t) \/ ebpp_dsc_handle_params(t) \/ ebpp_dsc_message(t)
           \/ ebpp_set_pllparam(t) \/ ebpp_get_pllparam(t)
    PROVE  ~HasLock(t)' /\ UNCHANGED << status, commands >>
<1>. USE DEF Goto, Fails, callVars, lplldVars, ThreadTypes, HasLock
<1>1. CASE Call(t)
  BY <1>1 DEF Call
<1>2. CASE LockEnv(t) \/ UnlockEnv(t)
  BY <1>2 DEF LockEnv, UnlockEnv
<1>3. CASE ebpp_setdscparam(t) \/ ebpp_dsc_handle_params(t) \/ ebpp_dsc_message(t)
  BY <1>3 DEF ebpp_setdscparam, ebpp_dsc_handle_params, ebpp_dsc_message
<1>4. CASE ebpp_set_pllparam(t)
  BY <1>4 DEF ebpp_set_pllparam
<1>5. CASE ebpp_get_pllparam(t)
  BY <1>5 DEF ebpp_get_pllparam
<1> QED
  BY <1>1, <1>2, <1>3, <1>4, <1>5

(* The queries in the fifo of the commands are still the thread's after one  *)
(* more command of its own, or a setting.                                    *)
LEMMA MineMore ==
    ASSUME LplldTypes, NEW u \in Threads, OnlyMine(u), NEW c \in {"set", u},
           commands' = Append(commands, c)
    PROVE  OnlyMine(u)'
<1>1. /\ Len(commands') = Len(commands) + 1 /\ Len(commands) \in Nat
      /\ \A k \in 1 .. Len(commands) : commands'[k] = commands[k]
      /\ commands'[Len(commands) + 1] = c
  BY DEF LplldTypes
<1>2. ASSUME NEW k \in 1 .. Len(commands'), Query(commands'[k]) PROVE commands'[k] = u
  <2>1. CASE k = Len(commands) + 1
    BY <1>1, <1>2, <2>1 DEF Query
  <2>2. CASE k # Len(commands) + 1
    <3>1. k \in 1 .. Len(commands)
      BY <1>1, <2>2
    <3> QED
      BY <1>1, <1>2, <3>1 DEF OnlyMine
  <2> QED
    BY <2>1, <2>2
<1> QED
  BY <1>2 DEF OnlyMine

-----------------------------------------------------------------------------
(* The steps of the thread that has the lock *)

(* ebpp_pll_clearstatus: the loop ends, errno set, with the fifo empty.     *)
LEMMA ClearKeepsStatus ==
    ASSUME ThreadTypes, LplldTypes, HistoryTypes, NEW t \in Threads, StatusOf(t),
           ebpp_pll_clearstatus(t)
    PROVE  StatusOf(t)'
<1>1. /\ pc[t] = "clear" /\ status' = RestAfter(Report) /\ UNCHANGED << stale, commands, call >>
      /\ errno'[t] = (errno[t] \/ Again) /\ (stale[t] \/ ~errno[t])
      /\ IF errno'[t] THEN Cleared(t) ELSE UNCHANGED << pc, owed >>
  BY DEF ebpp_pll_clearstatus, ThreadTypes, StatusOf
<1>2. CASE ~errno'[t]
  <2>1. pc'[t] = "clear" /\ ~errno'[t]
    BY <1>1, <1>2
  <2> QED
    BY <2>1 DEF StatusOf
<1>3. CASE errno'[t]
  <2>1. pc'[t] = "command"
    BY <1>1, <1>3 DEF Cleared, Goto, ThreadTypes
  <2>2. ~stale'[t] => status' = << >>
    <3> SUFFICES ASSUME ~stale'[t] PROVE status' = << >>
      OBVIOUS
    <3>2. status = << >>
      BY <1>1, <1>3 DEF Again
    <3> QED
      BY <1>1, <3>2, ReadAndRest, Sizes DEF LplldTypes
  <2>3. ~owed'[t] => OnlyMine(t)'
    <3>1. owed'[t] = \E k \in DOMAIN commands : Query(commands[k])
      BY <1>1, <1>3 DEF Cleared, HistoryTypes
    <3>2. DOMAIN commands = 1 .. Len(commands)
      BY DEF LplldTypes
    <3> QED
      BY <1>1, <3>1, <3>2 DEF OnlyMine
  <2> QED
    BY <2>1, <2>2, <2>3 DEF StatusOf, Begins
<1> QED
  BY <1>2, <1>3

(* The query is sent: from here on the fifo has nothing but answers to it,   *)
(* if no other query is on its way.                                          *)
LEMMA SetcmdKeepsStatus ==
    ASSUME ThreadTypes, LplldTypes, HistoryTypes, NEW t \in Threads, StatusOf(t),
           ebpp_pll_setcmd(t)
    PROVE  StatusOf(t)'
<1>1. /\ pc[t] = "command" /\ status' = status /\ UNCHANGED << stale, owed, call >>
  BY DEF ebpp_pll_setcmd
<1>2. CASE call[t].set
  <2>1. pc'[t] = "return"
    BY <1>2 DEF ebpp_pll_setcmd, Goto, ThreadTypes
  <2> QED
    BY <2>1 DEF StatusOf
<1>3. CASE ~call[t].set
  <2>1. /\ pc'[t] = "status" /\ commands' = Append(commands, t)
        /\ reading'[t] = [part |-> 1, len |-> 0, tries |-> Tries, words |-> << >>]
    BY <1>3 DEF ebpp_pll_setcmd, Goto, ThreadTypes
  <2>2. ~owed'[t] => OnlyMine(t)'
    BY <1>1, <1>3, <2>1, MineMore DEF StatusOf
  <2>3. ASSUME ~stale'[t]
        PROVE  /\ Begins(reading'[t].words \o status', Asker(t)')
               /\ Len(reading'[t].words) = Before(reading'[t].part) + reading'[t].len
    <3>1. Begins(status, Asker(t)) /\ Asker(t)' = Asker(t)
      BY <1>1, <1>3, <2>3 DEF StatusOf, Asker
    <3>2. << >> \o status = status
      BY ConcatEmptySeq DEF LplldTypes
    <3>3. Len(<< >>) = 0 /\ Before(1) = 0
      BY DEF Before
    <3> QED
      BY <1>1, <2>1, <3>1, <3>2, <3>3
  <2> QED
    BY <2>1, <2>2, <2>3 DEF StatusOf, Begins, Before
<1> QED
  BY <1>2, <1>3

(* A read of the report takes words from the fifo to what has been read; the *)
(* three parts make the report.                                              *)
LEMMA ReadKeepsStatus ==
    ASSUME ThreadTypes, LplldTypes, HistoryTypes, InProgress, NEW t \in Threads, StatusOf(t),
           read_pll_status_buffer(t)
    PROVE  StatusOf(t)'
<1> DEFINE r == reading[t]
           size == PartSize[r.part]
           got == ReadWords(size)
           rest == RestAfter(size)
           len == r.len + Len(got)
           words == r.words \o got
           next == [part |-> IF r.part < 3 THEN r.part + 1 ELSE 3, len |-> 0,
                    tries |-> Tries, words |-> words]
<1>1. /\ r \in Readings /\ pc[t] = "status" /\ size \in Nat
      /\ r.part \in 1 .. 3 /\ r.len \in Nat /\ r.words \in Seq(Words)
      /\ PartSize[1] \in Nat /\ PartSize[2] \in Nat /\ PartSize[3] \in Nat
  BY Sizes DEF read_pll_status_buffer, InProgress, Readings
<1>2. /\ got \o rest = status /\ got \in Seq(Words) /\ rest \in Seq(Words)
      /\ status = << >> => rest = << >>
  BY <1>1, ReadAndRest DEF LplldTypes
<1>3. status' = rest /\ UNCHANGED << call, stale, owed, commands >>
  BY DEF read_pll_status_buffer
<1>4. \/ /\ Again
         /\ reading' = [reading EXCEPT ![t] = Try(r)]
         /\ IF reading'[t].tries = 0
            THEN Goto(t, "unflock") /\ ok' = [ok EXCEPT ![t] = FALSE]
            ELSE UNCHANGED << pc, ok >>
      \/ /\ ~Again /\ len < size
         /\ reading' = [reading EXCEPT ![t] = [r EXCEPT !.len = len, !.words = words]]
         /\ UNCHANGED << pc, ok >>
      \/ /\ ~Again /\ len >= size
         /\ reading' = [reading EXCEPT ![t] = next]
         /\ ok' = [ok EXCEPT ![t] = (len = size)]
         /\ IF len = size /\ r.part < 3 THEN UNCHANGED pc ELSE Goto(t, "unflock")
  <2> HIDE DEF got, rest
  <2> QED
    BY <1>1 DEF read_pll_status_buffer, got, Readings
<1>5. /\ words \in Seq(Words) /\ Len(words) = Len(r.words) + Len(got)
      /\ Len(got) \in Nat /\ Len(r.words) \in Nat
      /\ words \o rest = r.words \o status
  <2>1. words \o rest = r.words \o (got \o rest)
    <3> DEFINE w == r.words
    <3>1. w \in Seq(Words) /\ got \in Seq(Words) /\ rest \in Seq(Words)
      BY <1>1, <1>2
    <3> HIDE DEF got, rest, w
    <3>2. (w \o got) \o rest = w \o (got \o rest)
      BY ONLY <3>1, ConcatAssociative
    <3> QED
      BY <3>2 DEF w
  <2> HIDE DEF got, rest, r
  <2> QED
    BY <1>1, <1>2, <2>1, ConcatProperties, LenProperties
<1>6. ~stale[t] => /\ Begins(r.words \o status, Asker(t))
                   /\ Len(r.words) = Before(r.part) + r.len
  BY <1>1 DEF StatusOf
<1>7. Asker(t)' = Asker(t) /\ Asker(t) \in SUBSET Threads /\ (~owed[t] => OnlyMine(t)')
  BY <1>1, <1>3 DEF Asker, StatusOf, OnlyMine
<1>8. ASSUME pc'[t] = "status",
             /\ ~stale[t] => /\ Begins(reading'[t].words \o rest, Asker(t))
                             /\ Len(reading'[t].words) = Before(reading'[t].part) + reading'[t].len
      PROVE  StatusOf(t)'
  <2> HIDE DEF rest
  <2>1. /\ ~stale'[t] => Begins(reading'[t].words \o status', Asker(t)')
        /\ ~stale'[t] => Len(reading'[t].words) = Before(reading'[t].part) + reading'[t].len
    BY <1>3, <1>7, <1>8
  <2>2. Before(reading[t].part)' = Before(reading'[t].part)
    BY DEF Before
  <2> QED
    BY <1>3, <1>7, <1>8, <2>1, <2>2 DEF StatusOf
<1>9. ASSUME pc'[t] = "unflock",
             ok'[t] /\ ~stale[t] => \E u \in Asker(t) : reading'[t].words = ReportOn(u)
      PROVE  StatusOf(t)'
  BY <1>3, <1>7, <1>9 DEF StatusOf, ReportOn
<1> HIDE DEF got, rest, words, r
<1>0. /\ Before(r.part) \in Nat
      /\ r.part < 3 => Before(r.part) + size = Before(r.part + 1)
      /\ Before(3) + PartSize[3] = Report
      /\ ~stale[t] => Len(words) = Before(r.part) + len
  <2>1. /\ Before(r.part) \in Nat
        /\ r.part < 3 => Before(r.part) + size = Before(r.part + 1)
        /\ Before(3) + PartSize[3] = Report
    <3>1. r.part = 1 \/ r.part = 2 \/ r.part = 3
      BY <1>1
    <3>2. Before(1) = 0 /\ Before(2) = PartSize[1] /\ Before(3) = PartSize[1] + PartSize[2]
      BY DEF Before
    <3> QED
      BY <1>1, <3>1, <3>2 DEF Report
  <2>2. ~stale[t] => Len(r.words) = Before(r.part) + r.len
    BY <1>6
  <2> DEFINE w == Len(r.words)
             g == Len(got)
             b == Before(r.part)
             l == r.len
  <2>3. w \in Nat /\ g \in Nat /\ l \in Nat /\ b \in Nat
    BY <1>1, <1>5, <2>1
  <2> HIDE DEF w, g, b, l
  <2>4. w = b + l => w + g = b + (l + g)
    BY <2>3
  <2>5. Len(words) = w + g /\ len = l + g
    BY <1>5 DEF w, g, l
  <2> QED
    BY <2>1, <2>2, <2>4, <2>5 DEF w, b, l
<1>10. CASE Again
  <2>1. /\ reading' = [reading EXCEPT ![t] = Try(r)]
        /\ IF reading'[t].tries = 0
           THEN pc' = [pc EXCEPT ![t] = "unflock"] /\ ok' = [ok EXCEPT ![t] = FALSE]
           ELSE UNCHANGED << pc, ok >>
    BY <1>4, <1>10 DEF Goto
  <2>2. /\ reading'[t].words = r.words /\ reading'[t].part = r.part /\ reading'[t].len = r.len
    BY <1>1, <2>1 DEF ThreadTypes, Readings, Try
  <2>3. rest = status
    BY <1>2, <1>10 DEF Again
  <2>4. CASE reading'[t].tries = 0
    <3>1. pc'[t] = "unflock" /\ ~ok'[t]
      BY <2>1, <2>4 DEF ThreadTypes, HistoryTypes
    <3> QED
      BY <1>9, <3>1
  <2>5. CASE reading'[t].tries # 0
    <3>1. pc'[t] = "status"
      BY <1>1, <2>1, <2>5
    <3> QED
      BY <1>6, <1>8, <2>2, <2>3, <3>1
  <2> QED
    BY <2>4, <2>5
<1>11. ASSUME ~Again, len < size,
              reading' = [reading EXCEPT ![t] = [r EXCEPT !.len = len, !.words = words]],
              UNCHANGED << pc, ok >>
       PROVE  StatusOf(t)'
  <2>1. /\ reading'[t].words = words /\ reading'[t].part = r.part /\ reading'[t].len = len
    <3>1. reading'[t] = [r EXCEPT !.len = len, !.words = words]
      BY <1>11 DEF ThreadTypes
    <3> QED
      BY <1>1, <3>1 DEF Readings
  <2> QED
    BY <1>0, <1>1, <1>5, <1>6, <1>8, <1>11, <2>1
<1>12. ASSUME ~Again, len >= size, reading' = [reading EXCEPT ![t] = next],
              ok' = [ok EXCEPT ![t] = (len = size)],
              IF len = size /\ r.part < 3 THEN UNCHANGED pc ELSE Goto(t, "unflock")
       PROVE  StatusOf(t)'
  <2>1. reading'[t] = next /\ reading'[t].words = words
    BY <1>12 DEF ThreadTypes
  <2>2. CASE len = size /\ r.part < 3
    <3>1. pc'[t] = "status" /\ reading'[t].part = r.part + 1 /\ reading'[t].len = 0
      BY <1>1, <1>12, <2>1, <2>2
    <3>2. ~stale[t] => Len(words) = Before(r.part + 1) + 0
      <4>1. Before(r.part) + size = Before(r.part + 1) /\ Before(r.part) + size \in Nat
        BY <1>0, <1>1, <2>2
      <4>2. ~stale[t] => Len(words) = Before(r.part) + size
        BY <1>0, <2>2
      <4> HIDE DEF size
      <4> QED
        BY <4>1, <4>2
    <3> QED
      BY <1>5, <1>6, <1>8, <2>1, <3>1, <3>2
  <2>3. CASE ~(len = size /\ r.part < 3)
    <3>1. pc'[t] = "unflock" /\ (ok'[t] <=> len = size)
      BY <1>12, <2>3 DEF Goto, ThreadTypes, HistoryTypes
    <3>2. ASSUME ok'[t], ~stale[t] PROVE \E u \in Asker(t) : words = ReportOn(u)
      <4>1. len = size /\ r.part = 3
        BY <1>1, <2>3, <3>1, <3>2
      <4>2. Len(words) = Report
        BY <1>0, <3>2, <4>1
      <4>3. Begins(words \o rest, Asker(t))
        BY <1>5, <1>6, <3>2
      <4> QED
        BY <1>2, <1>5, <1>7, <4>2, <4>3, BeginsWhole
    <3> QED
      BY <1>9, <2>1, <3>1, <3>2
  <2> QED
    BY <2>2, <2>3
<1> QED
  BY <1>4, <1>10, <1>11, <1>12

-----------------------------------------------------------------------------
(* Steps of threads keep the types of the history variables.                *)
LEMMA HistoryTypesKept ==
    ASSUME HistoryTypes, NEW t \in Threads, Call(t) \/ ThreadStep(t) \/ FlockFails(t), ThreadTypes
    PROVE  HistoryTypes'
<1>. USE DEF HistoryTypes, Goto, Fails, callVars
<1>1. CASE Call(t) \/ LockEnv(t) \/ UnlockEnv(t)
  BY <1>1 DEF Call, LockEnv, UnlockEnv
<1>2. CASE ebpp_setdscparam(t) \/ ebpp_dsc_handle_params(t) \/ ebpp_dsc_message(t)
  BY <1>2 DEF ebpp_setdscparam, ebpp_dsc_handle_params, ebpp_dsc_message
<1>3. CASE ebpp_set_pllparam(t) \/ ebpp_get_pllparam(t)
  BY <1>3 DEF ebpp_set_pllparam, ebpp_get_pllparam
<1>4. CASE FileLock(t) \/ FlockFails(t) \/ FileUnlock(t) \/ ebpp_pll_setcmd(t)
  BY <1>4 DEF FileLock, FlockFails, FileUnlock, ebpp_pll_setcmd, ThreadTypes
<1>5. CASE ebpp_pll_clearstatus(t)
  <2>1. (\E k \in DOMAIN commands : Query(commands[k])) \in BOOLEAN
    OBVIOUS
  <2>2. owed' \in [Threads -> BOOLEAN]
    BY <1>5, <2>1 DEF ebpp_pll_clearstatus, Cleared
  <2> QED
    BY <1>5, <2>2 DEF ebpp_pll_clearstatus
<1>6. CASE read_pll_status_buffer(t)
  <2>1. ok' = ok \/ \E b \in BOOLEAN : ok' = [ok EXCEPT ![t] = b]
    BY <1>6 DEF read_pll_status_buffer
  <2>2. ok' \in [Threads -> BOOLEAN]
    BY <2>1
  <2> QED
    BY <1>6, <2>2 DEF read_pll_status_buffer
<1> QED
  BY <1>1, <1>2, <1>3, <1>4, <1>5, <1>6 DEF ThreadStep

(* Whoever has the lock keeps its own part, and the others have nothing to  *)
(* keep.                                                                    *)
LEMMA ThreadKeepsStatus ==
    ASSUME StatusInv, NEW t \in Threads, Call(t) \/ ThreadStep(t) \/ FlockFails(t), NEW u \in Threads
    PROVE  StatusOf(u)'
<1>1. /\ ThreadTypes /\ LplldTypes /\ HistoryTypes /\ InProgress /\ FifoLocked
      /\ StatusOf(t) /\ StatusOf(u)
  BY DEF StatusInv, DaemonsInv, Locks
<1>2. CASE \/ Call(t) \/ LockEnv(t) \/ UnlockEnv(t)
           \/ ebpp_setdscparam(t) \/ ebpp_dsc_handle_params(t) \/ ebpp_dsc_message(t)
           \/ ebpp_set_pllparam(t) \/ ebpp_get_pllparam(t)
  <2>1. ~HasLock(t)' /\ UNCHANGED << status, commands >>
    BY <1>1, <1>2, StepsWithoutFifo
  <2>2. CASE u = t
    BY <2>1, <2>2, FarStatus
  <2>3. CASE u # t
    <3>1. Kept(u) /\ (OnlyMine(u) => OnlyMine(u)')
      BY <1>1, <2>1, <2>3, OthersKept DEF OnlyMine
    <3> QED
      BY <1>1, <2>1, <3>1, SameStatus
  <2> QED
    BY <2>2, <2>3
<1>3. CASE FileLock(t)
  <2>1. UNCHANGED << status, commands >>
    BY <1>3 DEF FileLock, lplldVars
  <2>2. CASE u = t
    <3>1. pc'[t] = "clear" /\ stale'[t] = errno[t] /\ errno' = errno
      BY <1>1, <1>3 DEF FileLock, Goto, ThreadTypes, HistoryTypes
    <3> QED
      BY <2>2, <3>1 DEF StatusOf
  <2>3. CASE u # t
    <3>1. Kept(u) /\ (OnlyMine(u) => OnlyMine(u)')
      BY <1>1, <1>3, <2>1, <2>3, OthersKept DEF OnlyMine, ThreadStep
    <3> QED
      BY <1>1, <2>1, <3>1, SameStatus
  <2> QED
    BY <2>2, <2>3
<1>4. CASE ebpp_pll_setcmd(t) /\ call[t].set
  <2>1. status' = status /\ commands' = Append(commands, "set")
    BY <1>4 DEF ebpp_pll_setcmd
  <2>2. CASE u = t
    BY <1>1, <1>4, <2>2, SetcmdKeepsStatus
  <2>3. CASE u # t
    <3>1. Kept(u) /\ (OnlyMine(u) => OnlyMine(u)')
      BY <1>1, <1>4, <2>1, <2>3, OthersKept, MineMore DEF ThreadStep
    <3> QED
      BY <1>1, <2>1, <3>1, SameStatus
  <2> QED
    BY <2>2, <2>3
<1>5. CASE \/ ebpp_pll_clearstatus(t) \/ (ebpp_pll_setcmd(t) /\ ~call[t].set)
           \/ read_pll_status_buffer(t) \/ FileUnlock(t)
  <2>1. HasLock(t)
    BY <1>5 DEF HasLock, ebpp_pll_clearstatus, ebpp_pll_setcmd, read_pll_status_buffer, FileUnlock
  <2>2. CASE u = t
    <3>1. CASE FileUnlock(t)
      <4>1. pc'[t] = "return"
        BY <1>1, <3>1 DEF FileUnlock, Goto, ThreadTypes
      <4> QED
        BY <2>2, <4>1, FarStatus DEF HasLock
    <3> QED
      BY <1>1, <1>5, <2>2, <3>1, ClearKeepsStatus, SetcmdKeepsStatus, ReadKeepsStatus
  <2>3. CASE u # t
    <3>1. ~HasLock(u)
      BY <1>1, <2>1, <2>3 DEF FifoLocked
    <3>2. Kept(u)
      BY <1>1, <1>5, <2>3, OthersKept DEF ThreadStep
    <3>3. ~HasLock(u)'
      BY <3>1, <3>2 DEF Kept, HasLock
    <3> QED
      BY <3>3, FarStatus
  <2> QED
    BY <2>2, <2>3
<1>6. CASE FlockFails(t)
  <2>1. pc'[t] = "return" /\ ~HasLock(t) /\ UNCHANGED commands
    BY <1>1, <1>6 DEF FlockFails, Fails, Goto, HasLock, ThreadTypes
  <2>2. CASE u = t
    BY <2>1, <2>2, FarStatus DEF HasLock
  <2>3. CASE u # t
    <3>1. Kept(u) /\ (OnlyMine(u) => OnlyMine(u)')
      BY <1>1, <1>6, <2>1, <2>3, OthersKept DEF OnlyMine
    <3>2. CASE HasLock(u)
      <4>1. HasFifo(u)
        BY <3>2 DEF HasLock, HasFifo
      <4>2. status' = status
        BY <1>6, <2>3, <4>1 DEF FlockFails, LeftWithout
      <4> QED
        BY <1>1, <2>1, <3>1, <4>2, SameStatus
    <3>3. CASE ~HasLock(u)
      BY <3>1, <3>3, FarStatus DEF Kept, HasLock
    <3> QED
      BY <3>2, <3>3
  <2> QED
    BY <2>2, <2>3
<1> QED
  BY <1>2, <1>3, <1>4, <1>5, <1>6 DEF ThreadStep

(* lplld reports whole reports, to those only whose query it had.            *)
LEMMA CommandKeepsStatus ==
    ASSUME StatusInv, lplld_command, NEW u \in Threads
    PROVE  StatusOf(u)'
<1> DEFINE c == Head(commands)
<1>1. /\ commands # << >> /\ commands' = Tail(commands)
      /\ UNCHANGED << pc, call, errno, reading, ok, stale, owed >>
      /\ status' = status \/ (Query(c) /\ status' = status \o ReportOn(c))
  BY DEF lplld_command, callVars, ReportOn
<1>2. /\ ThreadTypes /\ LplldTypes /\ InProgress /\ StatusOf(u)
      /\ commands \in Seq(Threads \cup {"set"}) /\ status \in Seq(Words)
  BY DEF StatusInv, DaemonsInv, LplldTypes
<1>3. /\ c = commands[1] /\ c \in Threads \cup {"set"} /\ 1 \in 1 .. Len(commands)
      /\ Len(commands') = Len(commands) - 1
      /\ \A k \in 1 .. Len(commands') : commands'[k] = commands[k + 1] /\ k + 1 \in 1 .. Len(commands)
  BY <1>1, <1>2
<1>4. Kept(u) /\ (OnlyMine(u) => OnlyMine(u)')
  BY <1>1, <1>3 DEF Kept, OnlyMine
<1> HIDE DEF c
<1>5. CASE status' = status
  BY <1>2, <1>4, <1>5, SameStatus
<1>6. CASE Query(c) /\ status' = status \o ReportOn(c)
  <2>1. c \in Threads /\ Asker(u) \in SUBSET Threads /\ Asker(u)' = Asker(u)
    BY <1>1, <1>3, <1>6 DEF Query, Asker
  <2>2. (pc[u] = "status" \/ (pc[u] = "command" /\ ~call[u].set)) => c \in Asker(u)
    <3> SUFFICES ASSUME pc[u] = "status" \/ (pc[u] = "command" /\ ~call[u].set), ~owed[u]
                 PROVE  c = u
      BY <2>1 DEF Asker
    <3>1. OnlyMine(u)
      BY <1>2 DEF StatusOf
    <3> QED
      BY <1>3, <1>6, <3>1 DEF OnlyMine
  <2>3. ReportOn(c) \in Seq(Words)
    BY <2>1, ReportIs
  <2>4. ASSUME pc[u] = "command", ~call[u].set, ~stale[u] PROVE Begins(status', Asker(u))
    <3>1. Begins(status, Asker(u)) /\ c \in Asker(u)
      BY <1>2, <2>2, <2>4 DEF StatusOf
    <3> QED
      BY <1>2, <1>6, <2>1, <3>1, BeginsMore
  <2>5. ASSUME pc[u] = "status", ~stale[u]
        PROVE  /\ Begins(reading[u].words \o status', Asker(u))
               /\ Len(reading[u].words) = Before(reading[u].part) + reading[u].len
    <3> DEFINE w == reading[u].words
               r == ReportOn(c)
    <3>1. /\ Begins(w \o status, Asker(u)) /\ c \in Asker(u)
          /\ Len(w) = Before(reading[u].part) + reading[u].len
      BY <1>2, <2>2, <2>5 DEF StatusOf
    <3>2. w \in Seq(Words) /\ r \in Seq(Words)
      BY <1>2, <2>3, <2>5 DEF InProgress, Readings
    <3> HIDE DEF w, r
    <3>3. (w \o status) \o r = w \o (status \o r) /\ w \o status \in Seq(Words)
      BY <1>2, <3>2, ConcatAssociative, ConcatProperties
    <3>4. Begins((w \o status) \o r, Asker(u))
      BY <2>1, <3>1, <3>3, BeginsMore DEF r
    <3>5. status' = status \o r
      BY <1>6 DEF r
    <3> QED
      BY <3>1, <3>3, <3>4, <3>5 DEF w
  <2>6. ASSUME pc[u] = "unflock", ok[u], ~stale[u]
        PROVE  \E v \in Asker(u) : reading[u].words = ReportOn(v)
    BY <1>2, <2>6 DEF StatusOf
  <2>7. pc[u] = "clear" /\ ~stale[u] => ~errno[u]
    BY <1>2 DEF StatusOf
  <2>8. (pc[u] = "status" \/ (pc[u] = "command" /\ ~call[u].set)) /\ ~owed[u] => OnlyMine(u)'
    BY <1>2, <1>4 DEF StatusOf
  <2>9. /\ Before(reading[u].part)' = Before(reading[u].part)
        /\ \A v \in Threads : ReportOn(v)' = ReportOn(v)
    BY <1>1 DEF Before, ReportOn
  <2> QED
    BY <1>1, <2>1, <2>4, <2>5, <2>6, <2>7, <2>8, <2>9 DEF StatusOf, ReportOn
<1> QED
  BY <1>1, <1>5, <1>6

(* A fifo that a thread has open keeps what is in it when others go away.    *)
LEMMA LeavingKeepsStatus ==
    ASSUME StatusInv, LplldStops \/ \E pr \in Processes : Kill(pr), NEW u \in Threads
    PROVE  StatusOf(u)'
<1>1. ThreadTypes /\ HistoryTypes /\ StatusOf(u)
  BY DEF StatusInv, DaemonsInv
<1>2. HasLock(u) => HasFifo(u)
  BY DEF HasLock, HasFifo
<1>3. CASE LplldStops
  <2>1. Kept(u) /\ commands' = << >> /\ (HasFifo(u) => status' = status)
    BY <1>3 DEF LplldStops, callVars, Kept
  <2>2. OnlyMine(u)'
    BY <2>1 DEF OnlyMine
  <2>3. CASE HasLock(u)
    BY <1>1, <1>2, <2>1, <2>2, <2>3, SameStatus
  <2>4. CASE ~HasLock(u)
    BY <2>1, <2>4, FarStatus DEF Kept, HasLock
  <2> QED
    BY <2>3, <2>4
<1>4. ASSUME NEW pr \in Processes, Kill(pr) PROVE StatusOf(u)'
  <2>1. CASE ProcOf[u] = pr
    <3>1. pc'[u] = "user"
      BY <1>1, <1>4, <2>1 DEF Kill
    <3> QED
      BY <3>1, FarStatus DEF HasLock
  <2>2. CASE ProcOf[u] # pr
    <3>1. Kept(u) /\ commands' = commands /\ (HasFifo(u) => status' = status)
      BY <1>4, <2>2 DEF Kill, Kept, LeftWithout
    <3>2. CASE HasLock(u)
      BY <1>1, <1>2, <3>1, <3>2, SameStatus DEF OnlyMine
    <3>3. CASE ~HasLock(u)
      BY <3>1, <3>3, FarStatus DEF Kept, HasLock
    <3> QED
      BY <3>2, <3>3
  <2> QED
    BY <2>1, <2>2
<1> QED
  BY <1>3, <1>4

(* Every step keeps what is in the status fifo in order.                    *)
LEMMA NextKeepsStatusInv == StatusInv /\ [Next]_vars => StatusInv'
<1> SUFFICES ASSUME StatusInv, [Next]_vars PROVE StatusInv'
  OBVIOUS
<1>1. DaemonsInv' /\ ThreadTypes /\ HistoryTypes /\ \A u \in Threads : StatusOf(u)
  BY NextKeepsDaemonsInv DEF StatusInv, DaemonsInv
<1>2. ASSUME NEW t \in Threads, Call(t) \/ ThreadStep(t) \/ FlockFails(t) PROVE StatusInv'
  BY <1>1, <1>2, HistoryTypesKept, ThreadKeepsStatus DEF StatusInv
<1>3. ASSUME NEW pr \in Processes, Kill(pr) PROVE StatusInv'
  <2>1. HistoryTypes'
    BY <1>1, <1>3 DEF Kill, HistoryTypes
  <2> QED
    BY <1>1, <1>3, <2>1, LeavingKeepsStatus DEF StatusInv
<1>4. CASE lplld_command \/ LplldStops
  <2>1. HistoryTypes'
    BY <1>1, <1>4 DEF lplld_command, LplldStops, callVars, HistoryTypes
  <2> QED
    BY <1>1, <1>4, <2>1, CommandKeepsStatus, LeavingKeepsStatus DEF StatusInv
<1>5. CASE Answer \/ DscdStops \/ DscdStarts \/ LplldStarts \/ UNCHANGED vars
  <2>1. UNCHANGED << pc, call, errno, reading, ok, stale, owed, status, commands >>
    BY <1>5 DEF Answer, DscdStops, DscdStarts, LplldStarts, vars, callVars, lplldVars
  <2>2. ASSUME NEW u \in Threads PROVE StatusOf(u)'
    BY <1>1, <2>1, SameStatus DEF Kept, OnlyMine
  <2> QED
    BY <1>1, <2>1, <2>2 DEF StatusInv, HistoryTypes
<1>6. [Next]_vars => \/ \E t \in Threads : Call(t) \/ ThreadStep(t) \/ FlockFails(t)
                     \/ \E pr \in Processes : Kill(pr)
                     \/ Answer \/ DscdStops \/ DscdStarts
                     \/ lplld_command \/ LplldStops \/ LplldStarts \/ UNCHANGED vars
  <2>1. running \in Worlds
    BY DEF StatusInv, DaemonsInv
  <2> QED
    BY <2>1, DaemonsAssumption DEF Next
<1> QED
  BY <1>2, <1>3, <1>4, <1>5, <1>6

(* A thread that has cleared the status fifo, with errno not EAGAIN before,  *)
(* reads whole reports from it, from the first word on: no rest of a report  *)
(* of another reader, and no report of another query than its own unless     *)
(* queries were unanswered then.                                             *)
THEOREM ReportsWhole == Spec => []StatusInv
<1>1. Init => StatusInv
  <2> SUFFICES ASSUME Init PROVE StatusInv
    OBVIOUS
  <2>1. HistoryTypes /\ \A t \in Threads : StatusOf(t)
    BY DEF Init, HistoryTypes, StatusOf
  <2> QED
    BY <2>1, InitDaemonsInv DEF StatusInv
<1> QED
  BY <1>1, NextKeepsStatusInv, PTL DEF Spec

(* read_pll_status_buffer: a query that has read its three parts has one     *)
(* whole report, its own unless queries were unanswered when it began.       *)
THEOREM StatusAlwaysMine == Spec => []StatusIsMine
<1>1. StatusInv => StatusIsMine
  BY DEF StatusInv, StatusOf, Asker, ReportOn, StatusIsMine
<1> QED
  BY <1>1, ReportsWhole, PTL

================================================================================
