----------------------------- MODULE LiberaSAPipes -----------------------------
(***************************************************************************)
(* The registry of listener pipes of /dev/libera.sa (libera_sa.c).         *)
(*                                                                         *)
(* Every successful open() allocates one struct sa_local, the software     *)
(* pipe between the SA tasklet and that reader, and stores its address in  *)
(* a fixed table that the tasklet walks.  The free slot to use next is     *)
(* cached in pipe->next and the number of occupied slots in                *)
(* pipe->registered; release() undoes both.  All of it runs under          *)
(* dev->sem, so an open or a release is one step; the tasklet, which takes *)
(* no lock, only reads the table, one pointer at a time.                   *)
(***************************************************************************)
EXTENDS Integers, FiniteSets

CONSTANTS
    LIBERA_SA_MAX_READERS,  \* slots of the table
    Files,                  \* struct file objects of /dev/libera.sa
    SaLocals,               \* addresses kmalloc may return for a struct sa_local
    NULL                    \* the null pointer

ASSUME MaxReadersAssumption == LIBERA_SA_MAX_READERS \in Nat \ {0}

ASSUME NullAssumption == NULL \notin SaLocals /\ NULL \notin Files

VARIABLES
    sa_pipe,      \* pipe->sa_pipe: slot -> registered struct sa_local or NULL
    next,         \* pipe->next: the slot the next registration will use
    registered,   \* pipe->registered
    f_version,    \* file->f_version: the file's struct sa_local
    opened,       \* the files whose open() succeeded and are not yet released
    allocated,    \* the struct sa_local kmalloc'ed and not yet kfree'd
    readers,      \* dev->readers
    open_count,   \* dev->open_count
    master_filp,  \* dev->master_filp
    ret           \* the value the last open() or release() returned

pipesVars == << sa_pipe, next, registered, f_version, opened, allocated,
                readers, open_count, master_filp, ret >>

Slots == 0 .. LIBERA_SA_MAX_READERS - 1

FreeSlots(table) == { i \in Slots : table[i] = NULL }

Occupied == { i \in Slots : sa_pipe[i] # NULL }

-----------------------------------------------------------------------------

PipesInit ==
    /\ sa_pipe = [i \in Slots |-> NULL]
    /\ next = 0
    /\ registered = 0
    /\ f_version = [f \in Files |-> NULL]
    /\ opened = {}
    /\ allocated = {}
    /\ readers = 0
    /\ open_count = 0
    /\ master_filp = NULL
    /\ ret = "0"

(* Stores the pipe in the cached slot, then scans for the lowest free one;  *)
(* when the table has just become full the cache keeps the slot just taken. *)
libera_register_pipe(p) ==
    LET table == [sa_pipe EXCEPT ![next] = p]
        free  == FreeSlots(table)
    IN  /\ sa_pipe' = table
        /\ registered' = registered + 1
        /\ IF free = {}
           THEN next' = next
           ELSE next' \in { i \in free : \A j \in free : i <= j }

(* Mutants: release() forgets the cached slot, or empties whatever slot is  *)
(* occupied first.                                                          *)
UnregisterKeepsNext(p) ==
    \E i \in Slots :
        /\ sa_pipe[i] = p
        /\ sa_pipe' = [sa_pipe EXCEPT ![i] = NULL]
        /\ registered' = registered - 1
        /\ next' = next

UnregisterFirst(p) ==
    \E i \in Occupied :
        /\ \A j \in Occupied : i <= j
        /\ sa_pipe' = [sa_pipe EXCEPT ![i] = NULL]
        /\ registered' = registered - 1
        /\ next' = i

(* Frees the slot that holds p and remembers it for the next registration. *)
libera_unregister_pipe(p) ==
    \E i \in Slots :
        /\ sa_pipe[i] = p
        /\ \A j \in Slots : j < i => sa_pipe[j] # p
        /\ sa_pipe' = [sa_pipe EXCEPT ![i] = NULL]
        /\ registered' = registered - 1
        /\ next' = i

Registered(p) == \E i \in Slots : sa_pipe[i] = p

-----------------------------------------------------------------------------

(* open() for reading, with room in the table and memory for the pipe. *)
libera_sa_open(f) ==
    /\ f \notin opened
    /\ registered < LIBERA_SA_MAX_READERS
    /\ \E p \in SaLocals \ allocated :
          /\ allocated' = allocated \cup {p}
          /\ f_version' = [f_version EXCEPT ![f] = p]
          /\ libera_register_pipe(p)
    /\ master_filp' = IF master_filp = NULL THEN f ELSE master_filp
    /\ readers' = readers + 1
    /\ open_count' = open_count + 1
    /\ opened' = opened \cup {f}
    /\ ret' = "0"

(* The early returns of open(): a writer, a full table, no memory.  Each    *)
(* gives dev->sem back and changes nothing.                                 *)
libera_sa_open_refused(f) ==
    /\ f \notin opened
    /\ \/ ret' = "EACCES"
       \/ registered >= LIBERA_SA_MAX_READERS /\ ret' = "EBUSY"
       \/ registered < LIBERA_SA_MAX_READERS /\ ret' = "ENOMEM"
    /\ UNCHANGED << sa_pipe, next, registered, f_version, opened, allocated,
                    readers, open_count, master_filp >>

(* Mutant: release() does not free the pipe. *)
ReleaseLeaks(f) ==
    /\ f \in opened
    /\ libera_unregister_pipe(f_version[f])
    /\ f_version' = [f_version EXCEPT ![f] = NULL]
    /\ open_count' = open_count - 1 /\ readers' = readers - 1
    /\ master_filp' = IF readers = 1 THEN NULL ELSE master_filp
    /\ opened' = opened \ {f}
    /\ ret' = "0"
    /\ UNCHANGED allocated

(* The last close().  A pipe that is not in the table is neither freed nor  *)
(* forgotten, but the counters are decremented all the same (label out).    *)
libera_sa_release(f) ==
    /\ f \in opened
    /\ IF Registered(f_version[f])
       THEN /\ libera_unregister_pipe(f_version[f])
            /\ allocated' = allocated \ {f_version[f]}
            /\ f_version' = [f_version EXCEPT ![f] = NULL]
       ELSE UNCHANGED << sa_pipe, next, registered, allocated, f_version >>
    /\ open_count' = open_count - 1
    /\ readers' = readers - 1
    /\ master_filp' = IF readers = 1 THEN NULL ELSE master_filp
    /\ opened' = opened \ {f}
    /\ ret' = "0"

PipesNext ==
    \E f \in Files :
        \/ libera_sa_open(f)
        \/ libera_sa_open_refused(f)
        \/ libera_sa_release(f)

PipesSpec == PipesInit /\ [][PipesNext]_pipesVars

-----------------------------------------------------------------------------

(* The variables have the types of their C declarations; counts are not     *)
(* negative.                                                                *)
PipesTypeOK ==
    /\ sa_pipe \in [Slots -> SaLocals \cup {NULL}]
    /\ next \in Slots
    /\ registered \in Nat
    /\ f_version \in [Files -> SaLocals \cup {NULL}]
    /\ opened \in SUBSET Files
    /\ allocated \in SUBSET SaLocals
    /\ readers \in Nat
    /\ open_count \in Nat
    /\ master_filp \in Files \cup {NULL}
    /\ ret \in {"0", "EACCES", "EBUSY", "ENOMEM"}

(* As long as the table has room, the cached slot is a free one: the store  *)
(* in libera_register_pipe never overwrites the pipe of another reader.     *)
NextSlotIsFree ==
    registered < LIBERA_SA_MAX_READERS => sa_pipe[next] = NULL

(* The three counters and the table agree: registered is the number of      *)
(* occupied slots and of open files.  open() tests only the counter, so a   *)
(* drift refuses readers while slots are free, or overwrites a slot.        *)
CountersAgree ==
    /\ registered = Cardinality(Occupied)
    /\ readers = Cardinality(opened)
    /\ open_count = readers
    /\ registered = readers

(* Each open file has exactly one slot and each occupied slot exactly one   *)
(* open file: no reader is left without data and no pipe outlives its file. *)
OneSlotPerFile ==
    /\ \A f \in opened : \E i \in Slots : sa_pipe[i] = f_version[f]
    /\ \A i \in Occupied : \E f \in opened : f_version[f] = sa_pipe[i]
    /\ \A i, j \in Occupied : sa_pipe[i] = sa_pipe[j] => i = j
    /\ \A f, g \in opened : f_version[f] = f_version[g] => f = g

(* The tasklet dereferences every non-null slot without a lock: each must   *)
(* point to memory that is still allocated, and no allocation is lost when  *)
(* the file that owns it is gone.                                           *)
NoDanglingPipe == allocated = { sa_pipe[i] : i \in Occupied }

(* open() answers -EBUSY only when every slot really holds a pipe. *)
BusyOnlyWhenFull ==
    [][ret' = "EBUSY" => Occupied = Slots]_pipesVars

(* The device has a master file exactly while it has readers. *)
MasterWhileOpen == (master_filp = NULL) <=> (opened = {})

(* The table, its cached slot, the three counters, the master and the open  *)
(* files tell one story, whatever the order of opens and releases.          *)
RegistryConsistent ==
    NextSlotIsFree /\ CountersAgree /\ OneSlotPerFile /\ MasterWhileOpen

=============================================================================
