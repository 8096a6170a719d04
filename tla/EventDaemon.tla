------------------------------ MODULE EventDaemon ------------------------------
(***************************************************************************)
(* The event daemon (eventd.c) and the processes that listen to it         *)
(* (cspi_events.c, remove_con of cspi.c).                                  *)
(*                                                                         *)
(* A connection with an event handler joins by writing its process, its    *)
(* identifier and its event mask into the daemon's request fifo; an empty  *)
(* mask leaves.  The daemon hands each event of /dev/libera.event to the   *)
(* fifos of the processes that listen.  A process creates its fifo with    *)
(* its first handler; its event thread removes it in the end, and so does  *)
(* the daemon with each listener it removes.                               *)
(*                                                                         *)
(* Processes and daemon share nothing but the fifos, the file names and    *)
(* the process table; a step is one system call on these.  Requests and    *)
(* events are smaller than PIPE_BUF: a read or a write of one is whole.    *)
(***************************************************************************)
EXTENDS Integers, FiniteSets, SequencesExt

CONSTANTS
    Procs,       \* processes that use CSPI; no process id is used again
    NULL,        \* the process id 0 of a connection without a handler
    Kinds,       \* the kinds of events
    INIT_MASK,   \* the kinds the daemon always asks the device for
    Masks,       \* bound: the masks that connections ask for
    MaxId,       \* bound: connections each process allocates
    REQ_ROOM,    \* bound: requests the request fifo holds
    Busy,        \* bound: the processes that do more than make one handler
    Mortal,      \* bound: the processes that may die at any time
    Faulty,      \* bound: the processes for which pthread_create may fail
    Signals,     \* bound: whether termination signals reach the daemon
    MaxStarts    \* bound: how often the daemon is started

ASSUME EventdAssumption ==
    /\ NULL \notin Procs
    /\ INIT_MASK \subseteq Kinds /\ Masks \subseteq SUBSET Kinds
    /\ Busy \subseteq Procs /\ Mortal \subseteq Procs /\ Faulty \subseteq Procs
    /\ Signals \in BOOLEAN
    /\ \A p \in Procs : MaxId[p] \in Nat
    /\ REQ_ROOM \in Nat \ {0} /\ MaxStarts \in Nat

VARIABLES
    daemon,      \* where run() is: "select", "walk", "send", "request",
                 \* "close", "reopen"; or "dead"
    starts,      \* how often the daemon was started
    listeners,   \* the list, from listener_head on
    mask,        \* the event mask of the device
    event,       \* the event the device has ready, or NULL
    ev, todo,    \* the event handle_event dispatches; the listeners from q on
    wfd,         \* the fifo open for writing still has its reader
    ready,       \* FD_ISSET(request_fd)
    reqq, hup,   \* the request fifo: its content; a writer came since it was opened
    pc, request, \* process -> where it is in the library; the request it sends
    last,        \* process -> the identifier of its last connection
    cons,        \* process -> its connections
    handled,     \* process -> its connections with a handler
    thread,      \* process -> "none", "start", "run", "unlink" or "exited"
    file,        \* process -> what its fifo's name leads to: "none", a fifo its
                 \* thread has open to "read", one that is "unread", or one with
                 \* a reading end that no thread of the process "leaked"
    asked,       \* process -> connection it has -> the last mask it has written
    failures     \* "discarded", "exited", "killed": what has gone wrong

daemonVars == << daemon, starts, listeners, mask, event, ev, todo, wfd, ready >>
procVars   == << pc, request, last, cons, handled, thread >>
vars == << daemonVars, reqq, hup, procVars, file, asked, failures >>

Ids == UNION { 1 .. MaxId[p] : p \in Procs }

Request(p, u, m) == [pid |-> p, uid |-> u, mask |-> m]

Alive(p) == p = NULL \/ pc[p] # "dead"

(* The fifo of a process can be opened for writing without blocking. *)
HasReader(p) == file[p] \in {"read", "leaked"}

(* The two ends of the request fifo. *)
Writers == { p \in Procs : pc[p] \in {"write", "close"} }

Reader == daemon \notin {"dead", "reopen"}

Init ==
    /\ daemon = "dead" /\ starts = 0
    /\ listeners = << >> /\ mask = {} /\ event = NULL
    /\ ev = NULL /\ todo = << >> /\ wfd = FALSE /\ ready = FALSE
    /\ reqq = << >> /\ hup = FALSE
    /\ pc = [p \in Procs |-> "user"]
    /\ request = [p \in Procs |-> NULL]
    /\ last = [p \in Procs |-> 0]
    /\ cons = [p \in Procs |-> {}] /\ handled = [p \in Procs |-> {}]
    /\ thread = [p \in Procs |-> "none"]
    /\ file = [p \in Procs |-> "none"]
    /\ asked = [p \in Procs |-> [u \in Ids |-> {}]]
    /\ failures = {}

-----------------------------------------------------------------------------
(* The list of listeners *)

Same(l, r) == l.pid = r.pid /\ l.uid = r.uid

(* Mutant: a process is found by its id alone. *)
FindByPid(r) == { i \in DOMAIN listeners : listeners[i].pid = r.pid }

find_listener(r) == { i \in DOMAIN listeners : Same(listeners[i], r) }

(* remove_listener, of a listener that is in the list or not. *)
Without(l) ==
    LET found == find_listener(l)
    IN  IF found = {} THEN listeners ELSE RemoveAt(listeners, CHOOSE i \in found : TRUE)

(* What becomes of the list when a request is handled. *)
AfterRequest(r) ==
    LET found == find_listener(r)
    IN  IF r.mask = {}
        THEN Without(r)
        ELSE IF found = {}
        THEN << r >> \o listeners
        ELSE [i \in DOMAIN listeners |-> IF i \in found
                                         THEN [listeners[i] EXCEPT !.mask = r.mask]
                                         ELSE listeners[i]]

Union(list) == UNION { list[i].mask : i \in DOMAIN list }

(* remove_listener unlinks the fifo of the listener's process. *)
Unlink(pids) == [p \in Procs |-> IF p \in pids THEN "none" ELSE file[p]]

-----------------------------------------------------------------------------
(* The daemon *)

(* What the request fifo holds once its last end is closed: nothing. *)
Drop(readerStays, writersStay) ==
    IF readerStays \/ writersStay
    THEN UNCHANGED << reqq, failures >>
    ELSE /\ reqq' = << >>
         /\ failures' = IF reqq = << >> THEN failures ELSE failures \cup {"discarded"}

Gone(files, how) ==
    /\ daemon' = "dead"
    /\ listeners' = << >> /\ todo' = << >>
    /\ mask' = {} /\ event' = NULL /\ ev' = NULL
    /\ ready' = FALSE /\ wfd' = FALSE /\ hup' = FALSE
    /\ file' = files
    /\ reqq' = IF Writers = {} THEN << >> ELSE reqq
    /\ failures' = failures \cup {how}
    /\ UNCHANGED << starts, procVars, asked >>

(* cleanup(), at exit and on a termination signal: the device is silenced   *)
(* and the list released, and with it the fifos of the processes.           *)
cleanup == Gone(Unlink({ listeners[i].pid : i \in DOMAIN listeners }), "exited")

(* The handler runs between two system calls.  In the middle of a change of *)
(* the list it would meet half-linked or freed listeners, whose outcome C   *)
(* does not define; that is not modelled.                                   *)
signal_handler == Signals /\ daemon # "dead" /\ cleanup

(* init(), and run() up to its loop. *)
init ==
    /\ daemon = "dead" /\ starts < MaxStarts
    /\ starts' = starts + 1
    /\ daemon' = "select"
    /\ mask' = INIT_MASK
    /\ hup' = (Writers # {})
    /\ UNCHANGED << listeners, event, ev, todo, wfd, ready, reqq, procVars, file,
                    asked, failures >>

(* The device has an event for the daemon. *)
EventOccurs ==
    /\ event = NULL
    /\ \E k \in mask : event' = k
    /\ UNCHANGED << daemon, starts, listeners, mask, ev, todo, wfd, ready, reqq,
                    hup, procVars, file, asked, failures >>

Readable == reqq # << >> \/ (hup /\ Writers = {})

(* Mutant: requests are looked at only when there is no event. *)
SelectEventFirst ==
    /\ daemon = "select"
    /\ event # NULL \/ Readable
    /\ ready' = (Readable /\ event = NULL)
    /\ IF event # NULL
       THEN daemon' = "walk" /\ ev' = event /\ event' = NULL /\ todo' = listeners
       ELSE daemon' = "request" /\ UNCHANGED << ev, event, todo >>
    /\ UNCHANGED << starts, listeners, mask, wfd, reqq, hup, procVars, file,
                    asked, failures >>

(* select() and the read of an event, which nobody else takes. *)
Select ==
    /\ daemon = "select"
    /\ event # NULL \/ Readable
    /\ ready' = Readable
    /\ IF event # NULL
       THEN daemon' = "walk" /\ ev' = event /\ event' = NULL /\ todo' = listeners
       ELSE daemon' = "request" /\ UNCHANGED << ev, event, todo >>
    /\ UNCHANGED << starts, listeners, mask, wfd, reqq, hup, procVars, file,
                    asked, failures >>

(* handle_event, one listener at a time; then the requests, if select()     *)
(* saw any.                                                                 *)
WalkEnds ==
    /\ daemon = "walk" /\ todo = << >>
    /\ daemon' = IF ready THEN "request" ELSE "select"
    /\ ev' = NULL
    /\ UNCHANGED << starts, listeners, mask, event, todo, wfd, ready, reqq, hup,
                    procVars, file, asked, failures >>

(* Mutant: a ghost takes the other listeners of its process with it. *)
RemoveAllOfPid ==
    /\ daemon = "walk" /\ todo # << >>
    /\ LET q == Head(todo)
       IN  IF ev \notin q.mask
           THEN UNCHANGED << daemon, wfd, listeners, file >>
           ELSE IF HasReader(q.pid)
           THEN daemon' = "send" /\ wfd' = TRUE /\ UNCHANGED << listeners, file >>
           ELSE /\ listeners' = SelectSeq(listeners, LAMBDA l : l.pid # q.pid)
                /\ file' = Unlink({q.pid})
                /\ UNCHANGED << daemon, wfd >>
    /\ todo' = IF daemon' = "send" THEN todo ELSE Tail(todo)
    /\ UNCHANGED << starts, mask, event, ev, ready, reqq, hup, procVars, asked,
                    failures >>

(* Mutant: a listener whose fifo cannot be opened is kept. *)
KeepGhosts ==
    /\ daemon = "walk" /\ todo # << >>
    /\ LET q == Head(todo)
       IN  IF ev \in q.mask /\ HasReader(q.pid)
           THEN daemon' = "send" /\ wfd' = TRUE
           ELSE UNCHANGED << daemon, wfd >>
    /\ todo' = IF daemon' = "send" THEN todo ELSE Tail(todo)
    /\ UNCHANGED << starts, listeners, mask, event, ev, ready, reqq, hup, procVars,
                    file, asked, failures >>

(* A listener that asked for the event: its fifo is opened without          *)
(* blocking.  When there is none (ENOENT), or nobody reads it (ENXIO), the  *)
(* listener is a ghost and removed, after q has gone on to the next.        *)
TryListener ==
    /\ daemon = "walk" /\ todo # << >>
    /\ LET q == Head(todo)
       IN  IF ev \notin q.mask
           THEN UNCHANGED << daemon, wfd, listeners, file >>
           ELSE IF HasReader(q.pid)
           THEN daemon' = "send" /\ wfd' = TRUE /\ UNCHANGED << listeners, file >>
           ELSE /\ listeners' = Without(q)
                /\ file' = Unlink({q.pid})
                /\ UNCHANGED << daemon, wfd >>
    /\ todo' = IF daemon' = "send" THEN todo ELSE Tail(todo)
    /\ UNCHANGED << starts, mask, event, ev, ready, reqq, hup, procVars, asked,
                    failures >>

(* The event is written, or does not fit (EAGAIN).  If the reader has left  *)
(* since, the write raises SIGPIPE, which the daemon does not handle.       *)
SendEvent ==
    /\ daemon = "send"
    /\ IF wfd
       THEN /\ daemon' = "walk"
            /\ todo' = Tail(todo)
            /\ wfd' = FALSE
            /\ UNCHANGED << starts, listeners, mask, event, ev, ready, reqq, hup,
                            procVars, file, asked, failures >>
       ELSE Gone(file, "killed")

(* Mutant: the mask of the device is that of the last request. *)
MaskOfRequest ==
    /\ daemon = "request" /\ reqq # << >>
    /\ reqq' = Tail(reqq)
    /\ LET r == Head(reqq)
       IN  /\ listeners' = AfterRequest(r)
           /\ mask' = INIT_MASK \cup r.mask
           /\ file' = IF r.mask = {} /\ find_listener(r) # {}
                      THEN Unlink({r.pid}) ELSE file
    /\ daemon' = "select" /\ ready' = FALSE
    /\ UNCHANGED << starts, event, ev, todo, wfd, hup, procVars, asked, failures >>

(* handle_request.  One of a process that is gone is ignored. *)
handle_request ==
    /\ daemon = "request" /\ reqq # << >>
    /\ reqq' = Tail(reqq)
    /\ LET r == Head(reqq)
       IN  IF Alive(r.pid)
           THEN /\ listeners' = AfterRequest(r)
                /\ mask' = INIT_MASK \cup Union(listeners')
                /\ file' = IF r.mask = {} /\ find_listener(r) # {}
                           THEN Unlink({r.pid}) ELSE file
           ELSE UNCHANGED << listeners, mask, file >>
    /\ daemon' = "select" /\ ready' = FALSE
    /\ UNCHANGED << starts, event, ev, todo, wfd, hup, procVars, asked, failures >>

(* read() returns 0: the fifo has no writer, and is to be opened anew. *)
EndOfRequests ==
    /\ daemon = "request" /\ reqq = << >> /\ Writers = {}
    /\ daemon' = "close" /\ ready' = FALSE
    /\ UNCHANGED << starts, listeners, mask, event, ev, todo, wfd, reqq, hup,
                    procVars, file, asked, failures >>

(* A writer has come since select() and has not written yet: read() fails   *)
(* with EAGAIN, which ends the daemon.                                      *)
RequestFails ==
    /\ daemon = "request" /\ reqq = << >> /\ Writers # {}
    /\ cleanup

CloseRequests ==
    /\ daemon = "close"
    /\ daemon' = "reopen"
    /\ Drop(FALSE, Writers # {})
    /\ UNCHANGED << starts, listeners, mask, event, ev, todo, wfd, ready, hup,
                    procVars, file, asked >>

ReopenRequests ==
    /\ daemon = "reopen"
    /\ daemon' = "select"
    /\ hup' = (Writers # {})
    /\ UNCHANGED << starts, listeners, mask, event, ev, todo, wfd, ready, reqq,
                    procVars, file, asked, failures >>

run ==
    \/ Select \/ WalkEnds \/ TryListener \/ SendEvent \/ handle_request
    \/ EndOfRequests \/ RequestFails \/ CloseRequests \/ ReopenRequests

-----------------------------------------------------------------------------
(* A process that uses CSPI *)

Goto(p, place) == pc' = [pc EXCEPT ![p] = place]

ProcStep(p, place) ==
    /\ pc[p] = place
    /\ UNCHANGED << starts, listeners, mask, event, ev, todo, ready >>

(* A new connection, and a handler with some mask for it or an old one.     *)
(* Without an event thread an empty mask asks for nothing.                  *)
base_setconparam(p) ==
    /\ ProcStep(p, "user")
    /\ p \in Busy \/ cons[p] = {}
    /\ \E u \in cons[p] \cup ({last[p] + 1} \cap 1 .. MaxId[p]), m \in Masks :
          /\ last' = [last EXCEPT ![p] = IF u > @ THEN u ELSE @]
          /\ cons' = [cons EXCEPT ![p] = @ \cup {u}]
          /\ handled' = [handled EXCEPT ![p] = @ \cup {u}]
          /\ IF thread[p] = "none" /\ m = {}
             THEN UNCHANGED << pc, request >>
             ELSE /\ Goto(p, IF thread[p] = "none" THEN "mkfifo" ELSE "open")
                  /\ request' = [request EXCEPT ![p] = Request(p, u, m)]
    /\ UNCHANGED << daemon, wfd, reqq, hup, thread, file, asked, failures >>

(* A new connection without a handler. *)
base_initcon(p) ==
    /\ ProcStep(p, "user")
    /\ p \in Busy /\ last[p] < MaxId[p]
    /\ last' = [last EXCEPT ![p] = @ + 1]
    /\ cons' = [cons EXCEPT ![p] = @ \cup {last'[p]}]
    /\ UNCHANGED << daemon, wfd, reqq, hup, pc, request, handled, thread, file,
                    asked, failures >>

(* create_event_pipe: the name first, which the daemon may remove before    *)
(* the fifo is opened; then create_event_thread.                            *)
MakeFifo(p) ==
    /\ ProcStep(p, "mkfifo")
    /\ file' = [file EXCEPT ![p] = IF @ = "none" THEN "unread" ELSE @]
    /\ Goto(p, "openfifo")
    /\ UNCHANGED << daemon, wfd, reqq, hup, request, last, cons, handled, thread,
                    asked, failures >>

create_event_pipe(p) ==
    /\ ProcStep(p, "openfifo")
    /\ IF file[p] = "none"
       THEN /\ Goto(p, "user")
            /\ request' = [request EXCEPT ![p] = NULL]
            /\ UNCHANGED << file, thread >>
       ELSE /\ Goto(p, "open")
            /\ file' = [file EXCEPT ![p] = IF @ = "leaked" THEN @ ELSE "read"]
            /\ thread' = [thread EXCEPT ![p] = "start"]
            /\ UNCHANGED request
    /\ UNCHANGED << daemon, wfd, reqq, hup, last, cons, handled, asked, failures >>

(* pthread_create fails, and is taken to leave evaction as it is: the call  *)
(* ends without a request, and nobody closes the reading end.               *)
NoEventThread(p) ==
    /\ ProcStep(p, "openfifo")
    /\ p \in Faulty /\ file[p] # "none"
    /\ Goto(p, "user")
    /\ request' = [request EXCEPT ![p] = NULL]
    /\ file' = [file EXCEPT ![p] = "leaked"]
    /\ UNCHANGED << daemon, wfd, reqq, hup, last, cons, handled, thread, asked,
                    failures >>

(* do_event_handler_registration: the open waits until the daemon reads. *)
OpenRequests(p) ==
    /\ ProcStep(p, "open")
    /\ Reader
    /\ hup' = TRUE
    /\ Goto(p, "write")
    /\ UNCHANGED << daemon, wfd, reqq, request, last, cons, handled, thread, file,
                    asked, failures >>

WriteRequest(p) ==
    /\ ProcStep(p, "write")
    /\ Reader /\ Len(reqq) < REQ_ROOM
    /\ reqq' = Append(reqq, request[p])
    /\ asked' = [asked EXCEPT ![p][request[p].uid] = request[p].mask]
    /\ Goto(p, "close")
    /\ UNCHANGED << daemon, wfd, hup, request, last, cons, handled, thread, file,
                    failures >>

(* After the last connection has left, the event thread is joined. *)
CloseRequest(p) ==
    /\ ProcStep(p, "close")
    /\ request' = [request EXCEPT ![p] = NULL]
    /\ Goto(p, IF cons[p] = {} /\ thread[p] # "none" THEN "join" ELSE "user")
    /\ Drop(Reader, Writers # {p})
    /\ UNCHANGED << daemon, wfd, hup, last, cons, handled, thread, file, asked >>

(* The daemon has closed the fifo since the open: the write fails, or       *)
(* raises SIGPIPE, as the process has it.                                   *)
WriteFails(p) ==
    /\ ProcStep(p, "write")
    /\ ~Reader
    /\ Goto(p, "close")
    /\ UNCHANGED << daemon, wfd, reqq, hup, request, last, cons, handled, thread,
                    file, asked, failures >>

(* Nothing is sent for a connection that is not the last one, and for a     *)
(* last one without a handler its process id, which is still 0.             *)
remove_con(p) ==
    /\ ProcStep(p, "user")
    /\ p \in Busy
    /\ \E u \in cons[p] :
          /\ cons' = [cons EXCEPT ![p] = @ \ {u}]
          /\ handled' = [handled EXCEPT ![p] = @ \ {u}]
          /\ IF cons[p] = {u}
             THEN /\ Goto(p, "open")
                  /\ request' = [request EXCEPT ![p] =
                        Request(IF u \in handled[p] THEN p ELSE NULL, u, {})]
             ELSE UNCHANGED << pc, request >>
          /\ asked' = [asked EXCEPT ![p][u] = {}]
    /\ UNCHANGED << daemon, wfd, reqq, hup, last, thread, file, failures >>

pthread_join(p) ==
    /\ ProcStep(p, "join")
    /\ thread[p] = "exited"
    /\ thread' = [thread EXCEPT ![p] = "none"]
    /\ Goto(p, "user")
    /\ UNCHANGED << daemon, wfd, reqq, hup, request, last, cons, handled, file,
                    asked, failures >>

(* A reading end of a process's fifo is closed.  If it was the last one,    *)
(* the name, if it is still there, leads to a fifo without a reader, and so *)
(* does what the daemon may just have opened.                               *)
ReaderLeaves(p, last_one) ==
    IF last_one
    THEN /\ file' = [file EXCEPT ![p] = IF HasReader(p) THEN "unread" ELSE @]
         /\ wfd' = (wfd /\ Head(todo).pid # p)
    ELSE UNCHANGED << file, wfd >>

(* event_thread opens the writing end by name, reads until it is told to    *)
(* end, and removes the name.                                               *)
event_thread(p) ==
    /\ pc[p] # "dead"
    /\ \/ /\ thread[p] = "start" /\ HasReader(p)
          /\ thread' = [thread EXCEPT ![p] = "run"]
          /\ UNCHANGED << file, wfd >>
       \/ /\ \/ thread[p] = "start" /\ ~HasReader(p)
             \/ thread[p] = "run" /\ pc[p] = "join"
          /\ thread' = [thread EXCEPT ![p] = "unlink"]
          /\ ReaderLeaves(p, file[p] # "leaked")
       \/ /\ thread[p] = "unlink"
          /\ thread' = [thread EXCEPT ![p] = "exited"]
          /\ file' = Unlink({p})
          /\ UNCHANGED wfd
    /\ UNCHANGED << daemon, starts, listeners, mask, event, ev, todo, ready, reqq,
                    hup, pc, request, last, cons, handled, asked, failures >>

(* The process ends, wherever it is, or is killed by SIGPIPE. *)
Dies(p) ==
    /\ pc[p] # "dead"
    /\ p \in Mortal \/ (pc[p] = "write" /\ ~Reader)
    /\ Goto(p, "dead")
    /\ request' = [request EXCEPT ![p] = NULL]
    /\ asked' = [asked EXCEPT ![p] = [u \in Ids |-> {}]]
    /\ last' = [last EXCEPT ![p] = 0]
    /\ cons' = [cons EXCEPT ![p] = {}] /\ handled' = [handled EXCEPT ![p] = {}]
    /\ thread' = [thread EXCEPT ![p] = "none"]
    /\ ReaderLeaves(p, TRUE)
    /\ IF p \in Writers THEN Drop(Reader, Writers # {p}) ELSE UNCHANGED << reqq, failures >>
    /\ UNCHANGED << daemon, starts, listeners, mask, event, ev, todo, ready, hup >>

(* What a call goes on to do once it has begun. *)
InCall(p) ==
    \/ MakeFifo(p) \/ create_event_pipe(p) \/ NoEventThread(p)
    \/ OpenRequests(p) \/ WriteRequest(p) \/ WriteFails(p) \/ CloseRequest(p)
    \/ pthread_join(p)

Next ==
    \/ init \/ run \/ signal_handler \/ EventOccurs
    \/ \E p \in Procs :
          \/ base_initcon(p) \/ base_setconparam(p) \/ remove_con(p)
          \/ InCall(p) \/ event_thread(p) \/ Dies(p)

Spec == Init /\ [][Next]_vars

(* The daemon runs, and so does a process inside the library and its event  *)
(* thread; an open that waits for a reader gets one that comes again and    *)
(* again, and so does a write that waits for room.  Nobody has to start the *)
(* daemon, no process has to call, no event has to come.                    *)
Fairness ==
    /\ WF_vars(run)
    /\ \A p \in Procs : SF_vars(InCall(p)) /\ WF_vars(event_thread(p))

FairSpec == Spec /\ Fairness

-----------------------------------------------------------------------------

Listener == [pid : Procs \cup {NULL}, uid : Ids, mask : SUBSET Kinds]

(* The types of the daemon's and the library's data; only a connection has  *)
(* a handler.                                                               *)
EventdTypeOK ==
    /\ daemon \in {"select", "walk", "send", "request", "close", "reopen", "dead"}
    /\ starts \in 0 .. MaxStarts
    /\ listeners \in Seq(Listener) /\ todo \in Seq(Listener) /\ reqq \in Seq(Listener)
    /\ mask \in SUBSET Kinds
    /\ event \in Kinds \cup {NULL} /\ ev \in Kinds \cup {NULL}
    /\ wfd \in BOOLEAN /\ ready \in BOOLEAN /\ hup \in BOOLEAN
    /\ pc \in [Procs -> {"user", "mkfifo", "openfifo", "open", "write", "close",
                         "join", "dead"}]
    /\ request \in [Procs -> Listener \cup {NULL}]
    /\ last \in [Procs -> Nat]
    /\ cons \in [Procs -> SUBSET Ids]
    /\ handled \in [Procs -> SUBSET Ids] /\ \A p \in Procs : handled[p] \subseteq cons[p]
    /\ thread \in [Procs -> {"none", "start", "run", "unlink", "exited"}]
    /\ file \in [Procs -> {"none", "read", "unread", "leaked"}]
    /\ asked \in [Procs -> [Ids -> SUBSET Kinds]]
    /\ failures \in SUBSET {"discarded", "exited", "killed"}

(* While the daemon runs, the device is asked for whatever any listener     *)
(* wants, though the mask is computed from the list only after requests.    *)
MaskCoversListeners ==
    EventdTypeOK /\ (daemon # "dead" => INIT_MASK \cup Union(listeners) \subseteq mask)

(* The walk over the listeners, which removes some on its way, goes on to   *)
(* listeners that are still in the list, each of them once.                 *)
WalkOnListeners ==
    /\ \A i \in DOMAIN todo : \E j \in DOMAIN listeners : listeners[j] = todo[i]
    /\ \A i, j \in DOMAIN listeners : Same(listeners[i], listeners[j]) => i = j

(* A connection that has joined is a listener with the mask it last asked   *)
(* for, once its request is read, as long as its process's fifo is intact   *)
(* and the daemon neither ended nor threw requests away.                    *)
JoinedIsListed ==
    failures = {} =>
        \A p \in Procs : \A u \in cons[p] :
            /\ HasReader(p) /\ asked[p][u] # {}
            /\ \A i \in DOMAIN reqq : ~Same(reqq[i], Request(p, u, {}))
            => \E i \in DOMAIN listeners : listeners[i] = Request(p, u, asked[p][u])

(* A call that joins or leaves returns, though its open waits for the       *)
(* daemon, its write for room, and the daemon is busy with events; only a   *)
(* daemon that does not run can stop it.                                    *)
RegistrationReturns ==
    \A p \in Procs :
        pc[p] \notin {"user", "dead"} ~> pc[p] \in {"user", "dead"} \/ daemon = "dead"

(* A process that has died does not stay a listener: the events that it     *)
(* asked for, if they go on coming, have its listeners removed.             *)
GhostsRemoved ==
    \A k \in UNION Masks :
        []<>(ev = k) =>
            \A p \in Procs :
                pc[p] = "dead" ~>
                    \/ daemon = "dead"
                    \/ \A i \in DOMAIN listeners :
                          listeners[i].pid = p => k \notin listeners[i].mask

(* "To inform application about an async. event in the underlying layers,   *)
(* an event handler for each connection is called" (cspi.h): while a        *)
(* process's event thread runs for a connection that has joined, the daemon *)
(* can open the process's fifo.                                             *)
RunningThreadIsReached ==
    failures = {} =>
        \A p \in Procs :
            thread[p] = "run" /\ (\E u \in cons[p] : asked[p][u] # {}) => HasReader(p)

(* No request is thrown away with the fifo that held it. *)
NoRequestDiscarded == "discarded" \notin failures

(* "assumed that fd == -1" where a write has failed (eventd.c): the writes  *)
(* of the daemon never meet a fifo without a reader.                        *)
WriteHasReader == "killed" \notin failures

=============================================================================
