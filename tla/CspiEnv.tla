-------------------------------- MODULE CspiEnv --------------------------------
(***************************************************************************)
(* Environment and connection handles of the CSPI library (cspi.c) and the *)
(* thread that dispatches events to the connections (cspi_events.c).       *)
(*                                                                         *)
(* There is one Environment: allocating an environment handle counts it in *)
(* usage_count, and the first handle opens /dev/libera.cfg.  Connections   *)
(* are kept in a doubly linked list of the Environment.  The mutex of the  *)
(* Environment protects the counts and the list; the event thread walks    *)
(* the list without it.                                                    *)
(*                                                                         *)
(* A step is what runs under one locking of the mutex, or between two.     *)
(***************************************************************************)
EXTENDS Integers, FiniteSets

CONSTANTS
    Callers,        \* the threads of the application
    Conns,          \* addresses malloc may return for a Connection
    Fds,            \* descriptors open() may return for /dev/libera.cfg
    NIL,
    MaxCons,        \* bound: connections allocated at a time
    Active,         \* bound: the connections that are opened or given a handler
    DeviceFails,    \* whether system calls on the devices may fail
    FreesConsFirst  \* whether a thread frees its connections before its handle

ASSUME CspiAssumption ==
    /\ NIL \notin Callers \cup Conns \cup Fds
    /\ IsFiniteSet(Callers) /\ IsFiniteSet(Conns)
    /\ MaxCons \in Nat /\ Active \subseteq Conns
    /\ DeviceFails \in BOOLEAN /\ FreesConsFirst \in BOOLEAN

VARIABLES
    mutex,             \* the thread that holds e->mutex
    usage_count, fd,   \* of the Environment; fd is NIL for -1
    open_fds,          \* descriptors of /dev/libera.cfg not yet closed
    head, next, prev, connection_count,   \* the list of connections
    allocated,         \* the connections malloc'ed and not yet free'd
    owner,             \* con -> the thread that allocated it
    connected,         \* the connections with an open device
    handler,           \* the connections with an event handler
    holds,             \* the threads that hold an environment handle
    stage, cur,        \* thread -> where it is in the library; on which con
    evaction,          \* environment.evaction # -1
    termination,
    ev, walked         \* where the event thread is; its connection in the walk

envVars  == << usage_count, fd, open_fds, holds >>
listVars == << head, next, prev, connection_count, allocated >>
conVars  == << owner, connected, handler >>
evVars   == << evaction, termination, ev, walked >>
cspiVars == << mutex, envVars, listVars, conVars, stage, cur, evVars >>

EnvInit ==
    /\ mutex = NIL
    /\ usage_count = 0 /\ fd = NIL /\ open_fds = {} /\ holds = {}
    /\ head = NIL /\ connection_count = 0 /\ allocated = {}
    /\ next = [c \in Conns |-> NIL] /\ prev = [c \in Conns |-> NIL]
    /\ owner = [c \in Conns |-> NIL] /\ connected = {} /\ handler = {}
    /\ stage = [t \in Callers |-> "user"] /\ cur = [t \in Callers |-> NIL]
    /\ evaction = FALSE /\ termination = FALSE /\ ev = "none" /\ walked = NIL

MoveTo(t, place) == stage' = [stage EXCEPT ![t] = place]

Owned(t) == { c \in allocated : owner[c] = t }

-----------------------------------------------------------------------------
(* Environment handles *)

(* base_initenv: the first handle opens the device, if a descriptor is left. *)
OpenCfg ==
    IF usage_count = 0
    THEN \/ /\ fd' \in Fds \ open_fds
            /\ open_fds' = open_fds \cup {fd'}
         \/ /\ DeviceFails \/ Fds \subseteq open_fds
            /\ fd' = NIL
            /\ UNCHANGED open_fds
    ELSE UNCHANGED << fd, open_fds >>

(* The ioctls that follow fail on a bad descriptor, or because the driver   *)
(* is not the right one; free_env then takes the handle back.               *)
alloc_env(t) ==
    /\ stage[t] = "user" /\ t \notin holds
    /\ mutex = NIL
    /\ usage_count' = usage_count + 1
    /\ OpenCfg
    /\ \/ /\ fd' # NIL
          /\ holds' = holds \cup {t}
          /\ UNCHANGED stage
       \/ /\ fd' = NIL \/ DeviceFails
          /\ MoveTo(t, "undo")
          /\ UNCHANGED holds
    /\ UNCHANGED << mutex, listVars, conVars, cur, evVars >>

(* Mutant: destroy_env closes the device with every handle. *)
DestroyCloses(t) ==
    /\ stage[t] = "user" /\ t \in holds
    /\ FreesConsFirst => Owned(t) = {}
    /\ mutex = NIL
    /\ open_fds' = open_fds \ {fd} /\ fd' = NIL
    /\ MoveTo(t, "destroyed")
    /\ UNCHANGED << mutex, usage_count, holds, listVars, conVars, cur, evVars >>

(* destroy_env, the first half of freeing a handle.  With connections left  *)
(* it returns CSPI_E_SEQUENCE, and the mutex stays locked.                  *)
destroy_env(t) ==
    /\ stage[t] = "user" /\ t \in holds
    /\ FreesConsFirst => Owned(t) = {}
    /\ mutex = NIL
    /\ \/ /\ usage_count # 1
          /\ MoveTo(t, "destroyed")
          /\ UNCHANGED << mutex, fd, open_fds >>
       \/ /\ usage_count = 1 /\ connection_count = 0
          /\ open_fds' = open_fds \ {fd}
          /\ fd' = NIL
          /\ MoveTo(t, "destroyed")
          /\ UNCHANGED mutex
       \/ /\ usage_count = 1 /\ connection_count # 0
          /\ mutex' = t
          /\ UNCHANGED << fd, open_fds, stage >>
    /\ UNCHANGED << usage_count, holds, listVars, conVars, cur, evVars >>

(* free_env, the second half, under the mutex once more. *)
free_env(t) ==
    /\ stage[t] \in {"undo", "destroyed"}
    /\ mutex = NIL
    /\ usage_count' = usage_count - 1
    /\ holds' = holds \ {t}
    /\ MoveTo(t, "user")
    /\ UNCHANGED << mutex, fd, open_fds, listVars, conVars, cur, evVars >>

-----------------------------------------------------------------------------
(* Connection handles *)

(* Mutant: the old head is not linked back. *)
InsertWithoutBackLink(t) ==
    /\ stage[t] = "user" /\ t \in holds
    /\ mutex = NIL
    /\ \E c \in Conns \ allocated :
          /\ allocated' = allocated \cup {c}
          /\ owner' = [owner EXCEPT ![c] = t]
          /\ next' = [next EXCEPT ![c] = head]
          /\ head' = c
          /\ connection_count' = connection_count + 1
    /\ UNCHANGED << mutex, envVars, prev, connected, handler, stage, cur, evVars >>

(* insert_con puts the new connection at the head. *)
alloc_con(t) ==
    /\ stage[t] = "user" /\ t \in holds
    /\ mutex = NIL
    /\ Cardinality(allocated) < MaxCons
    /\ \E c \in Conns \ allocated :
          /\ allocated' = allocated \cup {c}
          /\ owner' = [owner EXCEPT ![c] = t]
          /\ next' = [next EXCEPT ![c] = head]
          /\ prev' = [x \in Conns |-> IF x = c THEN NIL
                                     ELSE IF x = head THEN c ELSE prev[x]]
          /\ head' = c
          /\ connection_count' = connection_count + 1
    /\ UNCHANGED << mutex, envVars, connected, handler, stage, cur, evVars >>

cspi_connect(t) ==
    /\ stage[t] = "user"
    /\ \E c \in (Owned(t) \cap Active) \ connected : connected' = connected \cup {c}
    /\ UNCHANGED << mutex, envVars, listVars, owner, handler, stage, cur, evVars >>

cspi_disconnect(t) ==
    /\ stage[t] = "user"
    /\ \E c \in Owned(t) \cap connected : connected' = connected \ {c}
    /\ UNCHANGED << mutex, envVars, listVars, owner, handler, stage, cur, evVars >>

(* cspi_setconparam with a handler: the event thread may see it before the  *)
(* mutex is locked.                                                         *)
base_setconparam(t) ==
    /\ stage[t] = "user"
    /\ \E c \in Owned(t) \cap Active :
          /\ handler' = handler \cup {c}
          /\ cur' = [cur EXCEPT ![t] = c]
    /\ MoveTo(t, "handler")
    /\ UNCHANGED << mutex, envVars, listVars, owner, connected, evVars >>

(* The first handler starts the thread, unless its event mask is empty or   *)
(* the pipe cannot be created.                                              *)
create_event_thread(t) ==
    /\ stage[t] = "handler"
    /\ mutex = NIL
    /\ \/ /\ ~evaction
          /\ evaction' = TRUE
          /\ termination' = FALSE
          /\ ev' = "start"
       \/ UNCHANGED << evaction, termination, ev >>
    /\ MoveTo(t, "user")
    /\ cur' = [cur EXCEPT ![t] = NIL]
    /\ UNCHANGED << mutex, envVars, listVars, conVars, walked >>

(* Mutant: remove_con joins the event thread without telling it to end. *)
RemoveWithoutFlag(t) ==
    /\ stage[t] = "user"
    /\ mutex = NIL
    /\ \E c \in Owned(t) \ connected :
          /\ next' = [x \in Conns |-> IF x = c THEN NIL
                                     ELSE IF x = prev[c] THEN next[c] ELSE next[x]]
          /\ prev' = [x \in Conns |-> IF x = c THEN NIL
                                     ELSE IF x = next[c] THEN prev[c] ELSE prev[x]]
          /\ head' = IF head = c THEN next[c] ELSE head
          /\ cur' = [cur EXCEPT ![t] = c]
    /\ connection_count' = connection_count - 1
    /\ IF connection_count = 1 /\ evaction
       THEN mutex' = t /\ MoveTo(t, "join")
       ELSE MoveTo(t, "free") /\ UNCHANGED mutex
    /\ UNCHANGED << envVars, allocated, conVars, evaction, termination, ev, walked >>

(* remove_con; with the last connection destroy_event_thread joins the      *)
(* event thread, and the mutex is held meanwhile.                           *)
remove_con(t) ==
    /\ stage[t] = "user"
    /\ mutex = NIL
    /\ \E c \in Owned(t) \ connected :
          /\ next' = [x \in Conns |-> IF x = c THEN NIL
                                     ELSE IF x = prev[c] THEN next[c] ELSE next[x]]
          /\ prev' = [x \in Conns |-> IF x = c THEN NIL
                                     ELSE IF x = next[c] THEN prev[c] ELSE prev[x]]
          /\ head' = IF head = c THEN next[c] ELSE head
          /\ cur' = [cur EXCEPT ![t] = c]
    /\ connection_count' = connection_count - 1
    /\ IF connection_count = 1 /\ evaction
       THEN termination' = TRUE /\ mutex' = t /\ MoveTo(t, "join")
       ELSE MoveTo(t, "free") /\ UNCHANGED << termination, mutex >>
    /\ UNCHANGED << envVars, allocated, conVars, evaction, ev, walked >>

pthread_join(t) ==
    /\ stage[t] = "join"
    /\ ev = "exited"
    /\ ev' = "none" /\ evaction' = FALSE
    /\ mutex' = NIL
    /\ MoveTo(t, "free")
    /\ UNCHANGED << envVars, listVars, conVars, cur, termination, walked >>

free_con(t) ==
    /\ stage[t] = "free"
    /\ allocated' = allocated \ {cur[t]}
    /\ handler' = handler \ {cur[t]}
    /\ owner' = [owner EXCEPT ![cur[t]] = NIL]
    /\ cur' = [cur EXCEPT ![t] = NIL]
    /\ MoveTo(t, "user")
    /\ UNCHANGED << mutex, envVars, head, next, prev, connection_count, connected,
                    evVars >>

-----------------------------------------------------------------------------
(* event_thread *)

(* Opens the pipe for writing, or gives up, and evaction stays as it is. *)
EventThreadStarts ==
    /\ ev = "start"
    /\ \/ ev' = "select"
       \/ DeviceFails /\ ev' = "exited"
    /\ UNCHANGED << mutex, envVars, listVars, conVars, stage, cur, evaction, termination, walked >>

EventArrives ==
    /\ ev = "select" /\ ~termination
    /\ walked' = head
    /\ ev' = "walk"
    /\ UNCHANGED << mutex, envVars, listVars, conVars, stage, cur, evaction, termination >>

(* Calls the handler of the connection, if it has one, and goes on to the   *)
(* next; a handler that returns 0 ends the walk.                            *)
Dispatch ==
    /\ ev = "walk"
    /\ \/ /\ walked = NIL
          /\ ev' = "select"
          /\ UNCHANGED walked
       \/ /\ walked # NIL
          /\ walked' = next[walked]
          /\ UNCHANGED ev
       \/ /\ walked \in handler
          /\ walked' = NIL
          /\ ev' = "select"
    /\ UNCHANGED << mutex, envVars, listVars, conVars, stage, cur, evaction, termination >>

EventThreadExits ==
    /\ ev = "select" /\ termination
    /\ ev' = "exited"
    /\ UNCHANGED << mutex, envVars, listVars, conVars, stage, cur, evaction, termination, walked >>

event_thread == EventThreadStarts \/ EventArrives \/ Dispatch \/ EventThreadExits

-----------------------------------------------------------------------------

cspi_allochandle(t) == alloc_env(t) \/ alloc_con(t)

cspi_freehandle(t) == destroy_env(t) \/ remove_con(t)

(* What a call still has to do once it has begun. *)
Finish(t) ==
    free_env(t) \/ create_event_thread(t) \/ pthread_join(t) \/ free_con(t)

EnvNext ==
    \/ \E t \in Callers :
          \/ cspi_allochandle(t) \/ cspi_freehandle(t) \/ Finish(t)
          \/ cspi_connect(t) \/ cspi_disconnect(t) \/ base_setconparam(t)
    \/ event_thread

EnvSpec == EnvInit /\ [][EnvNext]_cspiVars

(* A thread inside the library goes on, and gets the mutex in its turn; the *)
(* event thread runs, and the handlers it calls return.  No call, and no    *)
(* event, ever has to come.                                                 *)
Fairness ==
    /\ \A t \in Callers : SF_cspiVars(Finish(t))
    /\ WF_cspiVars(EventThreadStarts) /\ WF_cspiVars(Dispatch) /\ WF_cspiVars(EventThreadExits)

FairSpec == EnvSpec /\ Fairness

-----------------------------------------------------------------------------

(* The variables have the types of their C declarations; counts are not     *)
(* negative.                                                                *)
CspiTypeOK ==
    /\ mutex \in Callers \cup {NIL}
    /\ usage_count \in Nat /\ connection_count \in Nat
    /\ fd \in Fds \cup {NIL} /\ open_fds \in SUBSET Fds
    /\ head \in Conns \cup {NIL}
    /\ next \in [Conns -> Conns \cup {NIL}] /\ prev \in [Conns -> Conns \cup {NIL}]
    /\ allocated \in SUBSET Conns /\ owner \in [Conns -> Callers \cup {NIL}]
    /\ connected \in SUBSET allocated /\ handler \in SUBSET allocated
    /\ holds \in SUBSET Callers
    /\ stage \in [Callers -> {"user", "undo", "destroyed", "handler", "join", "free"}]
    /\ cur \in [Callers -> Conns \cup {NIL}]
    /\ evaction \in BOOLEAN /\ termination \in BOOLEAN
    /\ ev \in {"none", "start", "select", "walk", "exited"} /\ walked \in Conns \cup {NIL}

Leaving == { cur[t] : t \in {u \in Callers : stage[u] \in {"join", "free"}} }

Listed == allocated \ Leaving

(* The connections the links lead to, from the head on. *)
Reached ==
    LET after[i \in 0 .. Cardinality(Conns)] ==
            IF i = 0 THEN head
            ELSE IF after[i - 1] = NIL THEN NIL ELSE next[after[i - 1]]
    IN  { after[i] : i \in DOMAIN after } \ {NIL}

(* insert_con and remove_con keep the list whole, whoever comes and goes in *)
(* whatever order: the links lead to exactly the connections that are not   *)
(* freed, both ways, and connection_count, which decides when the device is *)
(* closed and the thread stopped, counts them.                              *)
ListWellFormed ==
    /\ Reached = Listed
    /\ connection_count = Cardinality(Listed)
    /\ \A c \in Listed : prev[c] = NIL <=> c = head
    /\ \A c, d \in Listed : next[c] = d <=> prev[d] = c

(* usage_count counts the handles that are held, or about to be given back. *)
UsageCountsHandles ==
    usage_count = Cardinality(holds \cup {t \in Callers : stage[t] = "undo"})

(* The list of connections and the two counts, which decide when the thread *)
(* is stopped and the device closed, tell what threads really hold.         *)
EnvironmentConsistent == CspiTypeOK /\ ListWellFormed /\ UsageCountsHandles

(* While a handle is held, and is not being given back, the device of the   *)
(* Environment is open: no parameter call gets a bad descriptor because     *)
(* another thread has just freed its handle.                                *)
HandleHasDevice ==
    \A t \in holds : stage[t] # "destroyed" => fd # NIL /\ fd \in open_fds

(* "Otherwise, the function returns CSPI_E_SEQUENCE and the environment and *)
(* any active connection remain valid" (cspi.h): the mutex is only ever     *)
(* held by a thread that is inside the library, waiting for the join.       *)
MutexReleased == mutex # NIL => stage[mutex] = "join"

(* "Changes to the environment are implemented in a thread-safe manner"     *)
(* (cspi_impl.h): when the last handle is freed, the configuration device   *)
(* has been closed.                                                         *)
CfgFdNotLeaked == usage_count = 0 => open_fds = {}

(* "Thus, each connection on the environment can run in its own thread"     *)
(* (cspi_impl.h): the connection whose handler the event thread looks at    *)
(* has not been freed by the thread that owns it.                           *)
EventThreadOnLive == ev = "walk" /\ walked # NIL => walked \in allocated

(* A call that has begun returns: the join under the mutex ends, for the    *)
(* event thread needs no lock and sees the termination flag.  The one thing *)
(* that may stop it for good is the mutex that CSPI_E_SEQUENCE left locked. *)
CallReturns ==
    \A t \in Callers :
        (stage[t] # "user") ~> (stage[t] = "user" \/ ~MutexReleased)

=============================================================================
