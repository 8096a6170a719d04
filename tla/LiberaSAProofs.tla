----------------------------- MODULE LiberaSAProofs ----------------------------
(***************************************************************************)
(* Theorems about the SA device: the registry of its pipes, for any number *)
(* of slots, files and addresses, and the whole device, for any number of  *)
(* readers, ring slots and signals.                                        *)
(*                                                                         *)
(* No single invariant of LiberaSAPipes is inductive.  That the cached     *)
(* slot is free after an open needs the counter to be exact; that the      *)
(* counter is exact after a release needs the released pipe to be in one   *)
(* slot; that it is needs the pipes in the table to be those of the open   *)
(* files; and that two files do not share a pipe needs the table to hold   *)
(* nothing but allocated memory.  So they are proved together.             *)
(*                                                                         *)
(* The device moves the registry only by opening and releasing files, so   *)
(* PipesInv holds in it too.  With it, the argument                        *)
(* that no wakeup is lost is: a reader goes to sleep on an empty pipe; the *)
(* pipe of a sleeping reader belongs to an open file, so it is in the      *)
(* table; the tasklet is the only one to fill a pipe, it fills those in    *)
(* the table, and it makes their readers runnable in the same step.        *)
(*                                                                         *)
(* The copy loop of read() may sleep between counting, taking and copying. *)
(* That nothing it counted is gone and that two readers do not copy the    *)
(* same atom needs the mutex to be held all along (MutexHeld).  From this  *)
(* follows that the device implements the stream of SAStream: its rings    *)
(* are windows of their arrays (Window), storing behind the window appends *)
(* to it, going on by one slot takes its head, and the tasklet never       *)
(* stores into the slot that a reader copies from.                         *)
(***************************************************************************)
EXTENDS LiberaSA, FiniteSetTheorems, SequenceTheorems, TLAPS

-----------------------------------------------------------------------------
(* The registry *)

(* An open file has a pipe, and only finitely many files are open. *)
OpenFilesHavePipes ==
    /\ IsFiniteSet(opened)
    /\ \A f \in opened : f_version[f] # NULL

PipesInv ==
    /\ PipesTypeOK
    /\ NextSlotIsFree
    /\ CountersAgree
    /\ OneSlotPerFile
    /\ NoDanglingPipe
    /\ MasterWhileOpen
    /\ OpenFilesHavePipes

(* The table is finite: LIBERA_SA_MAX_READERS slots. *)
LEMMA SlotsFinite ==
    /\ IsFiniteSet(Slots)
    /\ Cardinality(Slots) = LIBERA_SA_MAX_READERS
<1> DEFINE last == LIBERA_SA_MAX_READERS - 1
<1>1. LIBERA_SA_MAX_READERS \in Int /\ last \in Int /\ ~(0 > last)
  BY MaxReadersAssumption
<1>2. /\ IsFiniteSet(0 .. last)
      /\ Cardinality(0 .. last) = last - 0 + 1
  BY <1>1, FS_Interval
<1> QED
  BY <1>1, <1>2 DEF Slots

(* Any set of slots is finite, and it is all of them once it has as many.  *)
LEMMA SlotSets ==
    ASSUME NEW S \in SUBSET Slots
    PROVE  /\ IsFiniteSet(S)
           /\ Cardinality(S) \in Nat
           /\ Cardinality(S) <= LIBERA_SA_MAX_READERS
           /\ Cardinality(S) = LIBERA_SA_MAX_READERS => S = Slots
<1>1. /\ IsFiniteSet(S)
      /\ Cardinality(S) <= Cardinality(Slots)
      /\ Cardinality(Slots) = Cardinality(S) => Slots = S
  BY SlotsFinite, FS_Subset
<1> QED
  BY <1>1, SlotsFinite, FS_CardinalityType

(* libera_sa_open preserves the invariant. *)
LEMMA OpenPreserves ==
    ASSUME PipesInv, NEW f \in Files, libera_sa_open(f)
    PROVE  PipesInv'
<1> USE DEF PipesInv
<1>1. PICK p \in SaLocals \ allocated :
          /\ allocated' = allocated \cup {p}
          /\ f_version' = [f_version EXCEPT ![f] = p]
          /\ libera_register_pipe(p)
  BY DEF libera_sa_open
<1>2. /\ f \notin opened /\ opened' = opened \cup {f}
      /\ registered < LIBERA_SA_MAX_READERS
      /\ readers' = readers + 1 /\ open_count' = open_count + 1
      /\ master_filp' = IF master_filp = NULL THEN f ELSE master_filp
      /\ ret' = "0"
  BY DEF libera_sa_open
<1>3. /\ sa_pipe' = [sa_pipe EXCEPT ![next] = p]
      /\ registered' = registered + 1
      /\ FreeSlots(sa_pipe') = {} => next' = next
      /\ FreeSlots(sa_pipe') # {} => next' \in FreeSlots(sa_pipe')
  BY <1>1 DEF libera_register_pipe
<1>4. p # NULL /\ f # NULL
  BY NullAssumption
<1>5. next \in Slots /\ sa_pipe[next] = NULL
  BY <1>2 DEF PipesTypeOK, NextSlotIsFree
<1>6. \A i \in Slots : sa_pipe'[i] = IF i = next THEN p ELSE sa_pipe[i]
  BY <1>3 DEF PipesTypeOK
<1>7. \A g \in Files : f_version'[g] = IF g = f THEN p ELSE f_version[g]
  BY <1>1 DEF PipesTypeOK
<1>8. opened \subseteq Files
  BY DEF PipesTypeOK
<1>9. \A i \in Slots : sa_pipe[i] # p
  BY <1>4 DEF NoDanglingPipe, Occupied
<1>10. \A g \in opened : f_version[g] # p
  BY <1>9 DEF OneSlotPerFile
<1>11. Occupied' = Occupied \cup {next}
  BY <1>4, <1>5, <1>6 DEF Occupied
<1>12. next \notin Occupied /\ Occupied \in SUBSET Slots
  BY <1>5 DEF Occupied
<1>13. PipesTypeOK'
  <2>1. next' \in Slots
    BY <1>3, <1>5 DEF FreeSlots
  <2>2. sa_pipe' \in [Slots -> SaLocals \cup {NULL}]
    BY <1>3 DEF PipesTypeOK
  <2>3. f_version' \in [Files -> SaLocals \cup {NULL}]
    BY <1>1 DEF PipesTypeOK
  <2> QED
    BY <1>1, <1>2, <1>3, <2>1, <2>2, <2>3 DEF PipesTypeOK
<1>14. CountersAgree'
  <2>1. Cardinality(Occupied') = Cardinality(Occupied) + 1
    BY <1>11, <1>12, SlotSets, FS_AddElement
  <2>2. Cardinality(opened') = Cardinality(opened) + 1
    BY <1>2, FS_AddElement DEF OpenFilesHavePipes
  <2> QED
    BY <2>1, <2>2, <1>2, <1>3 DEF CountersAgree
<1>15. NextSlotIsFree'
  <2> SUFFICES ASSUME registered' < LIBERA_SA_MAX_READERS
               PROVE  sa_pipe'[next'] = NULL
    BY DEF NextSlotIsFree
  <2>1. Occupied' # Slots
    <3> SUFFICES ASSUME Occupied' = Slots PROVE FALSE
      OBVIOUS
    <3>1. Cardinality(Occupied') = LIBERA_SA_MAX_READERS
      BY SlotsFinite
    <3>2. Cardinality(Occupied') = registered'
      BY <1>14 DEF CountersAgree
    <3>3. registered' \in Nat
      BY <1>13 DEF PipesTypeOK
    <3> QED
      BY <3>1, <3>2, <3>3, MaxReadersAssumption
  <2>2. FreeSlots(sa_pipe') # {}
    BY <2>1 DEF FreeSlots, Occupied
  <2> QED
    BY <2>2, <1>3 DEF FreeSlots
<1>16. OneSlotPerFile'
  <2>1. \A g \in opened' : \E i \in Slots : sa_pipe'[i] = f_version'[g]
    <3> TAKE g \in opened'
    <3>1. CASE g = f
      BY <3>1, <1>5, <1>6, <1>7
    <3>2. CASE g # f
      <4>1. PICK i \in Slots : sa_pipe[i] = f_version[g]
        BY <3>2, <1>2 DEF OneSlotPerFile
      <4>2. i # next
        BY <4>1, <3>2, <1>2, <1>5 DEF OpenFilesHavePipes
      <4> QED
        BY <4>1, <4>2, <3>2, <1>2, <1>6, <1>7, <1>8
    <3> QED
      BY <3>1, <3>2
  <2>2. \A i \in Occupied' : \E g \in opened' : f_version'[g] = sa_pipe'[i]
    <3> TAKE i \in Occupied'
    <3>1. CASE i = next
      BY <3>1, <1>2, <1>5, <1>6, <1>7
    <3>2. CASE i # next
      <4>1. i \in Occupied
        BY <3>2, <1>11
      <4>2. PICK g \in opened : f_version[g] = sa_pipe[i]
        BY <4>1 DEF OneSlotPerFile
      <4> QED
        BY <4>1, <4>2, <3>2, <1>2, <1>6, <1>7, <1>8, <1>12
    <3> QED
      BY <3>1, <3>2
  <2>3. \A i, j \in Occupied' : sa_pipe'[i] = sa_pipe'[j] => i = j
    BY <1>5, <1>6, <1>9, <1>11, <1>12 DEF OneSlotPerFile
  <2>4. \A g, h \in opened' : f_version'[g] = f_version'[h] => g = h
    BY <1>2, <1>7, <1>8, <1>10 DEF OneSlotPerFile
  <2> QED
    BY <2>1, <2>2, <2>3, <2>4 DEF OneSlotPerFile
<1>17. NoDanglingPipe'
  <2>1. \A x : x \in { sa_pipe'[i] : i \in Occupied' } <=> x \in allocated \cup {p}
    BY <1>6, <1>11, <1>12, <1>5 DEF NoDanglingPipe
  <2> QED
    BY <2>1, <1>1 DEF NoDanglingPipe
<1>18. MasterWhileOpen'
  BY <1>2, <1>4 DEF MasterWhileOpen
<1>19. OpenFilesHavePipes'
  <2>1. IsFiniteSet(opened')
    BY <1>2, FS_AddElement DEF OpenFilesHavePipes
  <2>2. \A g \in opened' : f_version'[g] # NULL
    BY <1>2, <1>4, <1>7, <1>8 DEF OpenFilesHavePipes
  <2> QED
    BY <2>1, <2>2 DEF OpenFilesHavePipes
<1> QED
  BY <1>13, <1>14, <1>15, <1>16, <1>17, <1>18, <1>19

(* libera_sa_release preserves the invariant; its pipe is always found. *)
LEMMA ReleasePreserves ==
    ASSUME PipesInv, NEW f \in Files, libera_sa_release(f)
    PROVE  PipesInv'
<1> USE DEF PipesInv
<1>1. f \in opened /\ opened' = opened \ {f}
  BY DEF libera_sa_release
<1>2. Registered(f_version[f])
  BY <1>1 DEF OneSlotPerFile, Registered
<1>3. /\ libera_unregister_pipe(f_version[f])
      /\ allocated' = allocated \ {f_version[f]}
      /\ f_version' = [f_version EXCEPT ![f] = NULL]
      /\ open_count' = open_count - 1 /\ readers' = readers - 1
      /\ master_filp' = IF readers = 1 THEN NULL ELSE master_filp
      /\ ret' = "0"
  BY <1>2 DEF libera_sa_release
<1>4. PICK k \in Slots :
          /\ sa_pipe[k] = f_version[f]
          /\ sa_pipe' = [sa_pipe EXCEPT ![k] = NULL]
          /\ registered' = registered - 1
          /\ next' = k
  BY <1>3 DEF libera_unregister_pipe
<1>5. f_version[f] # NULL
  BY <1>1 DEF OpenFilesHavePipes
<1>6. \A i \in Slots : sa_pipe'[i] = IF i = k THEN NULL ELSE sa_pipe[i]
  BY <1>4 DEF PipesTypeOK
<1>7. \A g \in Files : f_version'[g] = IF g = f THEN NULL ELSE f_version[g]
  BY <1>3 DEF PipesTypeOK
<1>8. opened \subseteq Files
  BY DEF PipesTypeOK
<1>9. Occupied' = Occupied \ {k}
  BY <1>6 DEF Occupied
<1>10. k \in Occupied /\ Occupied \in SUBSET Slots
  BY <1>4, <1>5 DEF Occupied
<1>11. \A i \in Slots : i # k => sa_pipe[i] # f_version[f]
  BY <1>4, <1>5, <1>10 DEF OneSlotPerFile, Occupied
<1>12. Cardinality(Occupied') = Cardinality(Occupied) - 1
  BY <1>9, <1>10, SlotSets, FS_RemoveElement
<1>13. /\ IsFiniteSet(opened')
       /\ Cardinality(opened') = Cardinality(opened) - 1
       /\ Cardinality(opened') \in Nat
  BY <1>1, FS_RemoveElement, FS_CardinalityType DEF OpenFilesHavePipes
<1>14. CountersAgree'
  BY <1>3, <1>4, <1>12, <1>13 DEF CountersAgree
<1>15. PipesTypeOK'
  <2>1. sa_pipe' \in [Slots -> SaLocals \cup {NULL}]
    BY <1>4 DEF PipesTypeOK
  <2>2. f_version' \in [Files -> SaLocals \cup {NULL}]
    BY <1>3 DEF PipesTypeOK
  <2>3. registered' \in Nat /\ readers' \in Nat /\ open_count' \in Nat
    BY <1>13, <1>14 DEF CountersAgree
  <2> QED
    BY <1>1, <1>3, <1>4, <2>1, <2>2, <2>3 DEF PipesTypeOK
<1>16. NextSlotIsFree'
  BY <1>4, <1>6 DEF NextSlotIsFree
<1>17. OneSlotPerFile'
  <2>1. \A g \in opened' : \E i \in Slots : sa_pipe'[i] = f_version'[g]
    <3> TAKE g \in opened'
    <3>1. g \in opened /\ g # f
      BY <1>1
    <3>2. f_version[g] # f_version[f]
      BY <3>1, <1>1 DEF OneSlotPerFile
    <3>3. PICK i \in Slots : sa_pipe[i] = f_version[g]
      BY <3>1 DEF OneSlotPerFile
    <3>4. i # k
      BY <3>2, <3>3, <1>4
    <3> QED
      BY <3>1, <3>3, <3>4, <1>6, <1>7, <1>8
  <2>2. \A i \in Occupied' : \E g \in opened' : f_version'[g] = sa_pipe'[i]
    <3> TAKE i \in Occupied'
    <3>1. i \in Occupied /\ i \in Slots /\ i # k
      BY <1>9, <1>10
    <3>2. PICK g \in opened : f_version[g] = sa_pipe[i]
      BY <3>1 DEF OneSlotPerFile
    <3>3. g # f
      BY <3>1, <3>2, <1>11
    <3> QED
      BY <3>1, <3>2, <3>3, <1>1, <1>6, <1>7, <1>8
  <2>3. \A i, j \in Occupied' : sa_pipe'[i] = sa_pipe'[j] => i = j
    BY <1>6, <1>9, <1>10 DEF OneSlotPerFile
  <2>4. \A g, h \in opened' : f_version'[g] = f_version'[h] => g = h
    BY <1>1, <1>7, <1>8 DEF OneSlotPerFile
  <2> QED
    BY <2>1, <2>2, <2>3, <2>4 DEF OneSlotPerFile
<1>18. NoDanglingPipe'
  <2>1. \A x : x \in { sa_pipe'[i] : i \in Occupied' }
               <=> x \in allocated \ {f_version[f]}
    BY <1>4, <1>6, <1>9, <1>10, <1>11 DEF NoDanglingPipe
  <2> QED
    BY <2>1, <1>3 DEF NoDanglingPipe
<1>19. MasterWhileOpen'
  <2>1. CASE readers = 1
    <3>1. Cardinality(opened') = 0
      <4>1. Cardinality(opened) = 1
        BY <2>1 DEF CountersAgree
      <4> QED
        BY <4>1, <1>13
    <3>2. opened' = {}
      BY <3>1, <1>13, FS_EmptySet
    <3> QED
      BY <2>1, <3>2, <1>3 DEF MasterWhileOpen
  <2>2. CASE readers # 1
    <3>1. Cardinality(opened') # 0
      BY <2>2, <1>13 DEF CountersAgree, PipesTypeOK
    <3>2. opened' # {}
      BY <3>1, FS_EmptySet
    <3>3. master_filp' = master_filp /\ master_filp # NULL
      BY <2>2, <1>1, <1>3 DEF MasterWhileOpen
    <3> QED
      BY <3>2, <3>3 DEF MasterWhileOpen
  <2> QED
    BY <2>1, <2>2
<1>20. OpenFilesHavePipes'
  BY <1>1, <1>7, <1>8, <1>13 DEF OpenFilesHavePipes
<1> QED
  BY <1>14, <1>15, <1>16, <1>17, <1>18, <1>19, <1>20

(* An open that is turned away and a step of some other part of the system *)
(* change nothing the invariant speaks of.                                 *)
LEMMA UnchangedPreserves ==
    ASSUME PipesInv,
           UNCHANGED << sa_pipe, next, registered, f_version, opened,
                        allocated, readers, open_count, master_filp >>,
           ret' \in {"0", "EACCES", "EBUSY", "ENOMEM"}
    PROVE  PipesInv'
<1> USE DEF PipesInv
<1>1. Occupied' = Occupied
  BY DEF Occupied
<1>2. PipesTypeOK'
  BY DEF PipesTypeOK
<1>3. NextSlotIsFree' /\ MasterWhileOpen' /\ OpenFilesHavePipes'
  BY DEF NextSlotIsFree, MasterWhileOpen, OpenFilesHavePipes
<1>4. CountersAgree' /\ NoDanglingPipe'
  BY <1>1 DEF CountersAgree, NoDanglingPipe
<1>5. OneSlotPerFile'
  BY <1>1 DEF OneSlotPerFile
<1> QED
  BY <1>2, <1>3, <1>4, <1>5

(* module_init leaves an empty table, which satisfies the invariant. *)
LEMMA InitEstablishes == PipesInit => PipesInv
<1> SUFFICES ASSUME PipesInit PROVE PipesInv
  OBVIOUS
<1> USE DEF PipesInit
<1>1. Occupied = {}
  BY DEF Occupied
<1>2. 0 \in Slots
  BY MaxReadersAssumption DEF Slots
<1>3. PipesTypeOK
  BY <1>2 DEF PipesTypeOK
<1>4. NextSlotIsFree
  BY <1>2 DEF NextSlotIsFree
<1>5. CountersAgree
  BY <1>1, FS_EmptySet DEF CountersAgree
<1>6. OneSlotPerFile /\ NoDanglingPipe
  BY <1>1 DEF OneSlotPerFile, NoDanglingPipe
<1>7. MasterWhileOpen /\ OpenFilesHavePipes
  BY FS_EmptySet DEF MasterWhileOpen, OpenFilesHavePipes
<1> QED
  BY <1>3, <1>4, <1>5, <1>6, <1>7 DEF PipesInv

(* The invariant is inductive. *)
LEMMA StepPreserves == PipesInv /\ [PipesNext]_pipesVars => PipesInv'
<1> SUFFICES ASSUME PipesInv, [PipesNext]_pipesVars PROVE PipesInv'
  OBVIOUS
<1>1. ASSUME NEW f \in Files, libera_sa_open(f) PROVE PipesInv'
  BY <1>1, OpenPreserves
<1>2. ASSUME NEW f \in Files, libera_sa_open_refused(f) PROVE PipesInv'
  BY <1>2, UnchangedPreserves DEF libera_sa_open_refused
<1>3. ASSUME NEW f \in Files, libera_sa_release(f) PROVE PipesInv'
  BY <1>3, ReleasePreserves
<1>4. CASE UNCHANGED pipesVars
  BY <1>4, UnchangedPreserves DEF pipesVars, PipesInv, PipesTypeOK
<1> QED
  BY <1>1, <1>2, <1>3, <1>4 DEF PipesNext

(* Whatever the order of opens, refusals and releases, the registry keeps   *)
(* all its invariants at once.                                              *)
THEOREM RegistryInvariant == PipesSpec => []PipesInv
<1>1. PipesInit => PipesInv
  BY InitEstablishes
<1>2. PipesInv /\ [PipesNext]_pipesVars => PipesInv'
  BY StepPreserves
<1> QED
  BY <1>1, <1>2, PTL DEF PipesSpec

(* The registry's fields keep their types; no counter becomes negative. *)
THEOREM PipesTypeCorrect == PipesSpec => []PipesTypeOK
<1>1. PipesInv => PipesTypeOK
  BY DEF PipesInv
<1> QED
  BY <1>1, RegistryInvariant, PTL

(* libera_register_pipe never overwrites the pipe of another reader;        *)
(* registered, readers, open_count, the table and the open files agree; each *)
(* open file has one slot of its own, and release() always finds it.         *)
THEOREM RegistryAlwaysConsistent == PipesSpec => []RegistryConsistent
<1>1. PipesInv => RegistryConsistent
  BY DEF PipesInv, RegistryConsistent
<1> QED
  BY <1>1, RegistryInvariant, PTL

(* The tasklet, which walks the table without a lock, finds only memory     *)
(* that is allocated, and no sa_local leaks.                                *)
THEOREM TableNeverDangles == PipesSpec => []NoDanglingPipe
<1>1. PipesInv => NoDanglingPipe
  BY DEF PipesInv
<1> QED
  BY <1>1, RegistryInvariant, PTL

(* open() returns -EBUSY only if LIBERA_SA_MAX_READERS pipes are in use. *)
THEOREM BusyMeansFull == PipesSpec => BusyOnlyWhenFull
<1>1. PipesInv /\ [PipesNext]_pipesVars
        => [ret' = "EBUSY" => Occupied = Slots]_pipesVars
  <2> SUFFICES ASSUME PipesInv, PipesNext, ret' = "EBUSY"
               PROVE  Occupied = Slots
    OBVIOUS
  <2>1. PICK f \in Files : libera_sa_open_refused(f)
    BY DEF PipesNext, libera_sa_open, libera_sa_release
  <2>2. registered >= LIBERA_SA_MAX_READERS
    BY <2>1 DEF libera_sa_open_refused
  <2>3. Occupied \in SUBSET Slots /\ registered = Cardinality(Occupied)
    BY DEF Occupied, PipesInv, CountersAgree
  <2>4. /\ Cardinality(Occupied) \in Nat
        /\ Cardinality(Occupied) <= LIBERA_SA_MAX_READERS
        /\ Cardinality(Occupied) = LIBERA_SA_MAX_READERS => Occupied = Slots
    BY <2>3, SlotSets
  <2> QED
    BY <2>2, <2>3, <2>4, MaxReadersAssumption
<1> QED
  BY <1>1, RegistryInvariant, PTL DEF PipesSpec, BusyOnlyWhenFull

-----------------------------------------------------------------------------
(* The device *)

(* A thread inside read() has a file, and the file is open. *)
ReadersHoldFiles == \A t \in Threads : pc[t] # "user" => file[t] \in opened

(* The copy loop copies only what it still has to. *)
CopyingWants == \A t \in Threads : pc[t] = "copying" => want[t] > 0

DeviceInv ==
    /\ PipesInv
    /\ TypeOK
    /\ ReadersHoldFiles
    /\ CopyingWants
    /\ NoLostWakeup

-----------------------------------------------------------------------------

(* Every step of the device is one of the registry, or leaves it alone.    *)
LEMMA StepMovesPipes == [Next]_vars => [PipesNext]_pipesVars
<1> SUFFICES ASSUME [Next]_vars PROVE [PipesNext]_pipesVars
  OBVIOUS
<1> USE DEF pipesVars
<1>1. CASE SampleReady
  BY <1>1 DEF SampleReady
<1>2. CASE Interrupts
  BY <1>2 DEF Interrupts, libera_sa_handler, TaskletStart, TaskletDispatch, TaskletTest
<1>3. ASSUME NEW t \in Threads, libera_sa_read(t) PROVE UNCHANGED pipesVars
  BY <1>3 DEF libera_sa_read, ReadCall, ReadLock, ReadLockInterrupted, ReadCheck,
       ReadPrepare, ReadRecheck, ReadWake, ReadRelock, ReadCount, ReadTake,
       ReadCopy, ReadStep
<1>4. ASSUME NEW t \in Threads, Signal(t) PROVE UNCHANGED pipesVars
  BY <1>4 DEF Signal
<1>5. ASSUME NEW f \in Files, Open(f) \/ OpenRefused(f) \/ Release(f)
      PROVE  PipesNext
  BY <1>5 DEF Open, OpenRefused, Release, PipesNext
<1>6. CASE UNCHANGED vars
  BY <1>6 DEF vars
<1> QED
  BY <1>1, <1>2, <1>3, <1>4, <1>5, <1>6 DEF Next

-----------------------------------------------------------------------------

(* The ring indices stay within the ring. *)
LEMMA ModRange ==
    ASSUME NEW n \in Nat \ {0}, NEW a \in Nat
    PROVE  a % n \in 0 .. n - 1
OBVIOUS

(* The values of a pipe's ring. *)
Rings == [data : [0 .. SA_LOG - 1 -> Atoms \cup {NoAtom}],
          put : 0 .. SA_LOG - 1, get : 0 .. SA_LOG - 1]

(* What the tasklet writes into a ring and what a reader leaves of it is    *)
(* again a ring, the number of atoms in it is a number, and there is always *)
(* "room" for one atom as free_saFIFO counts it.                            *)
LEMMA RingOperations ==
    ASSUME NEW q \in Rings
    PROVE  /\ len_saFIFO(q) \in 0 .. SA_LOG - 1
           /\ getFrom_saFIFO(q) \in Rings
           /\ \A a \in Atoms \cup {NoAtom} : libera_pipe_write(q, a) \in Rings
           /\ libera_pipe_write_ret(q) # "EFAULT"
<1> USE RingAssumption
<1>1. /\ q.put \in 0 .. SA_LOG - 1 /\ q.get \in 0 .. SA_LOG - 1
      /\ q.data \in [0 .. SA_LOG - 1 -> Atoms \cup {NoAtom}]
  BY DEF Rings
<1>2. q.put + SA_LOG - q.get \in Nat /\ q.put + 1 \in Nat /\ q.get + 1 \in Nat
  BY <1>1
<1>3. len_saFIFO(q) \in 0 .. SA_LOG - 1
  BY <1>2, ModRange DEF len_saFIFO
<1>4. getFrom_saFIFO(q) \in Rings
  <2>1. (q.get + 1) % SA_LOG \in 0 .. SA_LOG - 1
    BY <1>2, ModRange
  <2> QED
    BY <1>1, <2>1 DEF getFrom_saFIFO, Rings
<1>5. ASSUME NEW a \in Atoms \cup {NoAtom} PROVE libera_pipe_write(q, a) \in Rings
  <2>1. (q.put + 1) % SA_LOG \in 0 .. SA_LOG - 1
    BY <1>2, ModRange
  <2>2. putTo_saFIFO(q, a) \in Rings
    BY <1>1, <2>1 DEF putTo_saFIFO, Rings
  <2> QED
    BY <2>2 DEF libera_pipe_write
<1>6. libera_pipe_write_ret(q) # "EFAULT"
  BY <1>3 DEF libera_pipe_write_ret, free_saFIFO
<1> QED
  BY <1>3, <1>4, <1>5, <1>6

-----------------------------------------------------------------------------

(* Steps of the FPGA and of the interrupt do not touch pipes or readers. *)
LEMMA CapturePreserves ==
    ASSUME DeviceInv,
           SampleReady \/ libera_sa_handler \/ TaskletStart \/ TaskletTest
    PROVE  TypeOK' /\ ReadersHoldFiles' /\ CopyingWants' /\ NoLostWakeup'
<1> USE RingAssumption, SampleAssumption
<1>1. UNCHANGED << pipesVars, readVars, pipe >>
  BY DEF SampleReady, libera_sa_handler, TaskletStart, TaskletTest
<1>2. ReadersHoldFiles' /\ CopyingWants' /\ NoLostWakeup'
  BY <1>1 DEF DeviceInv, ReadersHoldFiles, CopyingWants, NoLostWakeup, Empty, Pipe,
              readVars, pipesVars
<1>3. PipesTypeOK'
  BY <1>1 DEF DeviceInv, TypeOK, PipesTypeOK, pipesVars
<1>4. TypeOK
  BY DEF DeviceInv
<1>5. /\ produced \in Atoms
      /\ fpga \in {<< >>} \cup { << a >> : a \in Atoms }
      /\ buf_head \in 0 .. SA_FIFO_DEPTH - 1
      /\ irqs \in 0 .. IrqsPerTasklet
      /\ unreported \in BOOLEAN
      /\ buf \in [0 .. SA_FIFO_DEPTH - 1 -> Atoms \cup {NoAtom}]
  BY <1>4 DEF TypeOK
<1>6. /\ sem' = sem /\ pc' = pc /\ file' = file /\ want' = want /\ tstate' = tstate
      /\ sig' = sig /\ delivered' = delivered /\ pipe' = pipe
  BY <1>1 DEF readVars
<1>7. TypeOK'
  <2>1. CASE SampleReady
    <3>1. produced' \in Atoms
      <4>1. produced + 1 \in Nat /\ AtomIds \in Nat \ {0}
        BY <1>5 DEF Atoms
      <4>2. (produced + 1) % AtomIds \in 0 .. AtomIds - 1
        BY <4>1, ModRange
      <4> QED
        BY <4>2, <2>1 DEF SampleReady, Atoms
    <3>2. fpga' \in {<< >>} \cup { << a >> : a \in Atoms }
      BY <2>1, <1>5 DEF SampleReady
    <3>3. unreported' \in BOOLEAN
      BY <2>1, <1>5 DEF SampleReady
    <3> QED
      BY <2>1, <3>1, <3>2, <3>3, <1>3, <1>4, <1>6 DEF SampleReady, TypeOK
  <2>2. CASE libera_sa_handler
    <3>1. libera_sa_incr_atom(buf_head) \in 0 .. SA_FIFO_DEPTH - 1
      <4>1. buf_head + 1 \in Nat /\ SA_FIFO_DEPTH \in Nat \ {0}
        BY <1>5
      <4> QED
        BY <4>1, ModRange DEF libera_sa_incr_atom
    <3>2. PICK a \in Atoms : fpga = << a >>
      BY <2>2, <1>5 DEF libera_sa_handler
    <3>3. buf' \in [0 .. SA_FIFO_DEPTH - 1 -> Atoms \cup {NoAtom}]
      BY <2>2, <3>2, <1>5 DEF libera_sa_handler
    <3>4. irqs' \in 0 .. IrqsPerTasklet
      <4>1. CASE bh = "idle"
        BY <4>1, <2>2, <1>5 DEF libera_sa_handler
      <4>2. CASE bh # "idle"
        BY <4>2, <2>2, <1>5 DEF libera_sa_handler
      <4> QED
        BY <4>1, <4>2
    <3> QED
      BY <2>2, <3>1, <3>3, <3>4, <1>3, <1>4, <1>6 DEF libera_sa_handler, TypeOK
  <2>3. CASE TaskletStart
    <3>1. /\ sched' = FALSE /\ inputovr' = FALSE /\ bh' = "dispatch" /\ irqs' = 0
          /\ UNCHANGED << sampleVars, buf, buf_head, buf_tail >>
      BY <2>3, Zenon DEF TaskletStart
    <3>2. irqs' \in 0 .. IrqsPerTasklet
      BY <3>1
    <3>3. unreported' \in BOOLEAN
      <4>1. unreported' = IF inputovr THEN FALSE ELSE unreported
        BY <2>3, Zenon DEF TaskletStart
      <4> QED
        BY <4>1, <1>5
    <3> QED
      BY <3>1, <3>2, <3>3, <1>3, <1>4, <1>6 DEF TypeOK, sampleVars
  <2>4. CASE TaskletTest
    BY <2>4, <1>3, <1>4, <1>6 DEF TaskletTest, sampleVars, TypeOK
  <2> QED
    BY <2>1, <2>2, <2>3, <2>4
<1> QED
  BY <1>2, <1>7

(* The tasklet fills pipes, and wakes the readers of every pipe it fills. *)
LEMMA DispatchPreserves ==
    ASSUME DeviceInv, TaskletDispatch
    PROVE  TypeOK' /\ ReadersHoldFiles' /\ CopyingWants' /\ NoLostWakeup'
<1> USE RingAssumption DEF DeviceInv
<1>1. /\ UNCHANGED << pipesVars, sampleVars, buf, buf_head, inputovr, sched, irqs,
                      pc, file, want, sig, sem, delivered >>
      /\ bh' = "test"
      /\ pipe' = [p \in SaLocals |->
                    IF Registered(p) THEN libera_pipe_write(pipe[p], buf[buf_tail])
                    ELSE pipe[p]]
      /\ tstate' = [t \in Threads |-> IF t \in Woken THEN "running" ELSE tstate[t]]
  BY DEF TaskletDispatch
<1>2. buf[buf_tail] \in Atoms \cup {NoAtom}
  BY DEF TypeOK
<1>3. \A p \in SaLocals : pipe[p] \in Rings
  BY DEF TypeOK, Rings
<1>4. ReadersHoldFiles' /\ CopyingWants'
  BY <1>1 DEF ReadersHoldFiles, CopyingWants, pipesVars
<1>5. TypeOK'
  <2>1. PipesTypeOK'
    BY <1>1 DEF TypeOK, PipesTypeOK, pipesVars
  <2>2. pipe' \in [SaLocals -> Rings]
    BY <1>1, <1>2, <1>3, RingOperations
  <2>3. tstate' \in [Threads -> {"running", "interruptible"}]
    BY <1>1 DEF TypeOK
  <2>4. buf_tail' \in 0 .. SA_FIFO_DEPTH - 1
    BY ModRange DEF TaskletDispatch, libera_sa_incr_atom, TypeOK
  <2>5. unreported' \in BOOLEAN
    BY DEF TaskletDispatch, TypeOK
  <2> QED
    BY <1>1, <2>1, <2>2, <2>3, <2>4, <2>5 DEF TypeOK, Rings, sampleVars
<1>6. NoLostWakeup'
  <2> SUFFICES ASSUME NEW t \in Threads,
                      pc'[t] = "sleep", tstate'[t] = "interruptible"
               PROVE  FALSE
    BY DEF NoLostWakeup
  <2>1. pc[t] = "sleep" /\ tstate[t] = "interruptible" /\ t \notin Woken
    BY <1>1 DEF TypeOK
  <2>2. file[t] \in opened
    BY <2>1 DEF ReadersHoldFiles
  <2>3. Registered(f_version[file[t]])
    BY <2>2 DEF PipesInv, OneSlotPerFile, Registered
  <2>4. f_version[file[t]] \in SaLocals
    BY <2>2 DEF PipesInv, PipesTypeOK, OpenFilesHavePipes
  <2>5. libera_pipe_write_ret(Pipe(file[t])) # "EFAULT"
    BY <2>4, <1>3, RingOperations DEF Pipe
  <2> QED
    BY <2>1, <2>3, <2>5 DEF Woken
<1> QED
  BY <1>4, <1>5, <1>6

-----------------------------------------------------------------------------
(* The readers *)

(* The readers' part of TypeOK. *)
ReaderTypeOK ==
    /\ pipe \in [SaLocals -> Rings]
    /\ sem \in [SaLocals -> Threads \cup {NULL}]
    /\ pc \in [Threads -> Places]
    /\ file \in [Threads -> Files \cup {NULL}]
    /\ want \in [Threads -> 0 .. MaxCount]
    /\ tstate \in [Threads -> {"running", "interruptible"}]
    /\ sig \in [Threads -> BOOLEAN]
    /\ delivered \in [Files -> Atoms \cup {NoAtom}]

(* A step of read() keeps DeviceInv when it keeps the readers' own part.    *)
LEMMA ReaderFrame ==
    ASSUME TypeOK, UNCHANGED << pipesVars, sampleVars, ringVars >>, ReaderTypeOK'
    PROVE  TypeOK'
BY DEF TypeOK, PipesTypeOK, ReaderTypeOK, Rings, pipesVars, sampleVars, ringVars

(* What DeviceInv says about a thread inside read(). *)
LEMMA ReaderHasPipe ==
    ASSUME DeviceInv, NEW t \in Threads, pc[t] # "user"
    PROVE  /\ file[t] \in opened /\ file[t] \in Files
           /\ f_version[file[t]] \in SaLocals
           /\ Registered(f_version[file[t]])
           /\ Pipe(file[t]) \in Rings
<1>1. file[t] \in opened /\ file[t] \in Files
  BY DEF DeviceInv, ReadersHoldFiles, PipesInv, PipesTypeOK
<1>2. f_version[file[t]] \in SaLocals
  BY <1>1 DEF DeviceInv, PipesInv, PipesTypeOK, OpenFilesHavePipes
<1>3. Registered(f_version[file[t]])
  BY <1>1 DEF DeviceInv, PipesInv, OneSlotPerFile, Registered
<1>4. Pipe(file[t]) \in Rings
  BY <1>2 DEF DeviceInv, TypeOK, Rings, Pipe
<1> QED
  BY <1>1, <1>2, <1>3, <1>4

(* A step of thread t that leaves the pipes alone loses no wakeup unless it *)
(* is t itself that goes to sleep.                                          *)
LEMMA OthersStillWake ==
    ASSUME DeviceInv, NEW t \in Threads, UNCHANGED << pipesVars, pipe >>,
           \A u \in Threads \ {t} :
               pc'[u] = pc[u] /\ file'[u] = file[u] /\ tstate'[u] = tstate[u],
           pc'[t] = "sleep" /\ tstate'[t] = "interruptible" => Empty(file'[t])
    PROVE  NoLostWakeup'
BY DEF DeviceInv, NoLostWakeup, Empty, Pipe, pipesVars

(* unlock and return, seen as types. *)
LEMMA UnlockTypes ==
    ASSUME DeviceInv, NEW t \in Threads, pc[t] # "user", UnlockAndReturn(t)
    PROVE  /\ sem' \in [SaLocals -> Threads \cup {NULL}]
           /\ pc' \in [Threads -> Places]
           /\ file' \in [Threads -> Files \cup {NULL}]
           /\ want' \in [Threads -> 0 .. MaxCount]
           /\ sig' \in [Threads -> BOOLEAN]
           /\ pc'[t] = "user"
           /\ \A u \in Threads \ {t} :
                 pc'[u] = pc[u] /\ file'[u] = file[u] /\ want'[u] = want[u]
<1>1. TypeOK
  BY DEF DeviceInv
<1>2. /\ pc' = [pc EXCEPT ![t] = "user"] /\ pc \in [Threads -> Places]
      /\ sem' = [sem EXCEPT ![f_version[file[t]]] = NULL]
      /\ sem \in [SaLocals -> Threads \cup {NULL}]
      /\ file' = [file EXCEPT ![t] = NULL] /\ file \in [Threads -> Files \cup {NULL}]
      /\ want' = [want EXCEPT ![t] = 0] /\ want \in [Threads -> 0 .. MaxCount]
      /\ sig' = [sig EXCEPT ![t] = FALSE] /\ sig \in [Threads -> BOOLEAN]
  BY <1>1 DEF UnlockAndReturn, Goto, TypeOK
<1>3. pc' \in [Threads -> Places]
  BY <1>2 DEF Places
<1>4. sem' \in [SaLocals -> Threads \cup {NULL}]
  BY <1>2
<1>5. file' \in [Threads -> Files \cup {NULL}] /\ sig' \in [Threads -> BOOLEAN]
  BY <1>2
<1>6. want' \in [Threads -> 0 .. MaxCount]
  BY <1>2, ReaderAssumption
<1> QED
  BY <1>2, <1>3, <1>4, <1>5, <1>6

(* The steps of read() that neither touch a pipe nor leave the function. *)
LEMMA QuietReadPreserves ==
    ASSUME DeviceInv, NEW t \in Threads,
           \/ ReadCall(t) \/ ReadLock(t) \/ ReadLockInterrupted(t)
           \/ ReadPrepare(t) \/ ReadWake(t) \/ ReadRelock(t) \/ ReadCount(t)
    PROVE  TypeOK' /\ ReadersHoldFiles' /\ CopyingWants' /\ NoLostWakeup'
<1>1. TypeOK
  BY DEF DeviceInv
<1>2. /\ UNCHANGED << pipesVars, sampleVars, ringVars >> /\ pipe' = pipe
      /\ delivered' = delivered
  BY DEF ReadCall, ReadLock, ReadLockInterrupted, ReadPrepare, ReadWake,
         ReadRelock, ReadCount, ReadStep
<1>3. opened' = opened
  BY <1>2 DEF pipesVars
<1>4. pipe' \in [SaLocals -> Rings] /\ delivered' \in [Files -> Atoms \cup {NoAtom}]
  BY <1>1, <1>2 DEF TypeOK, Rings
<1>5. /\ sem \in [SaLocals -> Threads \cup {NULL}] /\ pc \in [Threads -> Places]
      /\ file \in [Threads -> Files \cup {NULL}] /\ want \in [Threads -> 0 .. MaxCount]
      /\ tstate \in [Threads -> {"running", "interruptible"}]
      /\ sig \in [Threads -> BOOLEAN] /\ opened \subseteq Files
  BY <1>1 DEF TypeOK, PipesTypeOK
<1>6. /\ sem' \in [SaLocals -> Threads \cup {NULL}] /\ pc' \in [Threads -> Places]
      /\ file' \in [Threads -> Files \cup {NULL}] /\ want' \in [Threads -> 0 .. MaxCount]
      /\ tstate' \in [Threads -> {"running", "interruptible"}]
      /\ sig' \in [Threads -> BOOLEAN]
      /\ \A u \in Threads \ {t} :
            /\ pc'[u] = pc[u] /\ file'[u] = file[u]
            /\ tstate'[u] = tstate[u] /\ want'[u] = want[u]
      /\ pc'[t] # "sleep" /\ pc'[t] # "copying"
      /\ pc'[t] # "user" => file'[t] \in opened
  <2>1. CASE ReadCall(t)
    BY <2>1, <1>5, ReaderAssumption DEF ReadCall, ReadStep, Goto, Places
  <2>2. CASE ReadLock(t) \/ ReadWake(t) \/ ReadPrepare(t) \/ ReadRelock(t)
    <3>1. pc[t] # "user" /\ file[t] \in opened
      BY <2>2 DEF ReadLock, ReadWake, ReadPrepare, ReadRelock, ReadStep,
                  DeviceInv, ReadersHoldFiles
    <3> QED
      BY <2>2, <3>1, <1>5 DEF ReadLock, ReadWake, ReadPrepare, ReadRelock,
                              ReadStep, Goto, Places
  <2>3. CASE ReadLockInterrupted(t)
    BY <2>3, <1>5, ReaderAssumption DEF ReadLockInterrupted, ReadStep, Goto, Places
  <2>4. CASE ReadCount(t)
    <3>1. pc[t] # "user"
      BY <2>4 DEF ReadCount, ReadStep
    <3>2. len_saFIFO(Pipe(file[t])) \in 0 .. SA_LOG - 1 /\ file[t] \in opened
      BY <3>1, ReaderHasPipe, RingOperations
    <3>3. (IF want[t] < len_saFIFO(Pipe(file[t])) THEN want[t]
           ELSE len_saFIFO(Pipe(file[t]))) \in 0 .. MaxCount
      BY <3>2, <1>5, RingAssumption, ReaderAssumption
    <3> QED
      BY <2>4, <3>2, <3>3, <1>5 DEF ReadCount, ReadStep, Goto, Places
  <2> QED
    BY <2>1, <2>2, <2>3, <2>4
<1>7. TypeOK'
  BY <1>1, <1>2, <1>4, <1>6, ReaderFrame DEF ReaderTypeOK
<1>8. ReadersHoldFiles' /\ CopyingWants'
  BY <1>3, <1>6 DEF DeviceInv, ReadersHoldFiles, CopyingWants
<1>9. NoLostWakeup'
  BY <1>2, <1>6, OthersStillWake
<1> QED
  BY <1>7, <1>8, <1>9

(* The steps of read() that may unlock, sleep, or take an atom. *)
LEMMA BusyReadPreserves ==
    ASSUME DeviceInv, NEW t \in Threads,
           ReadCheck(t) \/ ReadRecheck(t) \/ ReadTake(t) \/ ReadCopy(t)
    PROVE  TypeOK' /\ ReadersHoldFiles' /\ CopyingWants' /\ NoLostWakeup'
<1>1. TypeOK
  BY DEF DeviceInv
<1>2. UNCHANGED << pipesVars, sampleVars, ringVars >> /\ pc[t] # "user"
  BY DEF ReadCheck, ReadRecheck, ReadTake, ReadCopy, ReadStep
<1>3. /\ opened' = opened /\ f_version' = f_version
      /\ file[t] \in opened /\ Pipe(file[t]) \in Rings
      /\ f_version[file[t]] \in SaLocals
  BY <1>2, ReaderHasPipe DEF pipesVars
<1>4. /\ sem \in [SaLocals -> Threads \cup {NULL}] /\ pc \in [Threads -> Places]
      /\ file \in [Threads -> Files \cup {NULL}] /\ want \in [Threads -> 0 .. MaxCount]
      /\ tstate \in [Threads -> {"running", "interruptible"}]
      /\ sig \in [Threads -> BOOLEAN] /\ pipe \in [SaLocals -> Rings]
      /\ delivered \in [Files -> Atoms \cup {NoAtom}] /\ file[t] \in Files
  BY <1>1, <1>2, ReaderHasPipe DEF TypeOK, Rings
<1>5. CASE UnlockAndReturn(t)
  <2>1. /\ sem' \in [SaLocals -> Threads \cup {NULL}] /\ pc' \in [Threads -> Places]
        /\ file' \in [Threads -> Files \cup {NULL}]
        /\ want' \in [Threads -> 0 .. MaxCount] /\ sig' \in [Threads -> BOOLEAN]
        /\ pc'[t] = "user"
        /\ \A u \in Threads \ {t} :
              pc'[u] = pc[u] /\ file'[u] = file[u] /\ want'[u] = want[u]
    BY <1>2, <1>5, UnlockTypes
  <2>2. /\ pipe' = pipe /\ delivered' = delivered
        /\ tstate' \in [Threads -> {"running", "interruptible"}]
        /\ \A u \in Threads \ {t} : tstate'[u] = tstate[u]
    <3>1. pc'[t] # "copying"
      BY <2>1
    <3>2. pc'[t] # "copy"
      BY <2>1
    <3> QED
      BY <3>1, <3>2, <1>4 DEF ReadCheck, ReadRecheck, ReadTake, ReadCopy, Goto
  <2>3. TypeOK'
    BY <1>1, <1>2, <1>4, <2>1, <2>2, ReaderFrame DEF ReaderTypeOK
  <2>4. ReadersHoldFiles' /\ CopyingWants'
    BY <1>3, <2>1 DEF DeviceInv, ReadersHoldFiles, CopyingWants
  <2>5. NoLostWakeup'
    BY <1>2, <2>1, <2>2, OthersStillWake
  <2> QED
    BY <2>3, <2>4, <2>5
<1>6. CASE ReadCheck(t) /\ ~UnlockAndReturn(t)
  <2>1. /\ UNCHANGED << file, want, sig, sem, pipe, tstate, delivered >>
        /\ pc' \in [Threads -> Places]
        /\ pc'[t] \in {"count", "prepare"}
        /\ \A u \in Threads \ {t} : pc'[u] = pc[u]
    BY <1>4, <1>6 DEF ReadCheck, Goto, Places
  <2>2. TypeOK'
    BY <1>1, <1>2, <1>4, <2>1, ReaderFrame DEF ReaderTypeOK
  <2>3. ReadersHoldFiles' /\ CopyingWants'
    BY <1>3, <2>1 DEF DeviceInv, ReadersHoldFiles, CopyingWants
  <2>4. NoLostWakeup'
    BY <1>2, <2>1, OthersStillWake
  <2> QED
    BY <2>2, <2>3, <2>4
<1>7. CASE ReadRecheck(t) /\ ~UnlockAndReturn(t)
  <2>1. /\ UNCHANGED << file, want, sig, pipe, delivered >>
        /\ sem' \in [SaLocals -> Threads \cup {NULL}]
        /\ pc' \in [Threads -> Places]
        /\ tstate' \in [Threads -> {"running", "interruptible"}]
        /\ pc'[t] = "count" \/ (pc'[t] = "sleep" /\ Empty(file[t]))
        /\ \A u \in Threads \ {t} : pc'[u] = pc[u] /\ tstate'[u] = tstate[u]
    BY <1>4, <1>7 DEF ReadRecheck, Goto, Places
  <2>2. TypeOK'
    BY <1>1, <1>2, <1>4, <2>1, ReaderFrame DEF ReaderTypeOK
  <2>3. ReadersHoldFiles' /\ CopyingWants'
    BY <1>3, <2>1 DEF DeviceInv, ReadersHoldFiles, CopyingWants
  <2>4. pc'[t] = "sleep" => Empty(file'[t])
    BY <2>1
  <2>5. NoLostWakeup'
    <3>1. (Empty(file[t]))' <=> Empty(file[t])
      BY <2>1, <1>3 DEF Empty, Pipe
    <3> QED
      BY <3>1, <1>2, <2>1, <2>4, OthersStillWake
  <2> QED
    BY <2>2, <2>3, <2>5
<1>8. CASE ReadTake(t) /\ ~UnlockAndReturn(t)
  <2>1. /\ want[t] > 0 /\ ~Empty(file[t])
        /\ pipe' = [pipe EXCEPT ![f_version[file[t]]] = getFrom_saFIFO(@)]
        /\ pc' = [pc EXCEPT ![t] = "copying"]
        /\ UNCHANGED << file, want, sig, sem, tstate, delivered >>
    BY <1>8 DEF ReadTake, Goto
  <2>2. pipe' \in [SaLocals -> Rings]
    <3>1. getFrom_saFIFO(pipe[f_version[file[t]]]) \in Rings
      BY <1>3, RingOperations DEF Pipe
    <3> QED
      BY <3>1, <2>1, <1>4
  <2>3. pc' \in [Threads -> Places] /\ pc'[t] = "copying"
        /\ \A u \in Threads \ {t} : pc'[u] = pc[u]
    BY <2>1, <1>4 DEF Places
  <2>4. TypeOK'
    BY <1>1, <1>2, <1>4, <2>1, <2>2, <2>3, ReaderFrame DEF ReaderTypeOK
  <2>5. ReadersHoldFiles' /\ CopyingWants'
    BY <1>3, <2>1, <2>3 DEF DeviceInv, ReadersHoldFiles, CopyingWants
  <2>6. NoLostWakeup'
    <3> SUFFICES ASSUME NEW u \in Threads,
                        pc'[u] = "sleep", tstate'[u] = "interruptible"
                 PROVE  Empty(file[u])'
      BY <2>1 DEF NoLostWakeup
    <3>1. pc[u] = "sleep" /\ tstate[u] = "interruptible" /\ file'[u] = file[u]
      BY <2>1, <2>3
    <3>2. Empty(file[u]) /\ f_version[file[u]] \in SaLocals
      BY <3>1, ReaderHasPipe DEF DeviceInv, NoLostWakeup
    <3>3. f_version[file[u]] # f_version[file[t]]
      BY <3>2, <2>1 DEF Empty, Pipe
    <3>4. pipe'[f_version[file[u]]] = pipe[f_version[file[u]]]
      BY <3>2, <3>3, <2>1, <1>4
    <3> QED
      BY <3>1, <3>2, <3>4, <1>3 DEF Empty, Pipe
  <2> QED
    BY <2>4, <2>5, <2>6
<1>9. CASE ReadCopy(t) /\ ~UnlockAndReturn(t)
  <2>1. /\ delivered' = [delivered EXCEPT ![file[t]] =
                           Pipe(file[t]).data[Pipe(file[t]).get]]
        /\ want' = [want EXCEPT ![t] = @ - 1]
        /\ pc' = [pc EXCEPT ![t] = "copy"]
        /\ UNCHANGED << file, sig, sem, pipe, tstate >>
    BY <1>9 DEF ReadCopy, Goto
  <2>2. want[t] > 0
    BY <1>9 DEF ReadCopy, ReadStep, DeviceInv, CopyingWants
  <2>3. want' \in [Threads -> 0 .. MaxCount]
    <3>1. want[t] - 1 \in 0 .. MaxCount
      BY <2>2, <1>4, ReaderAssumption
    <3> QED
      BY <3>1, <2>1, <1>4
  <2>4. delivered' \in [Files -> Atoms \cup {NoAtom}]
    <3>1. Pipe(file[t]).data[Pipe(file[t]).get] \in Atoms \cup {NoAtom}
      BY <1>3 DEF Rings
    <3> QED
      BY <3>1, <2>1, <1>4
  <2>5. pc' \in [Threads -> Places] /\ pc'[t] = "copy"
        /\ \A u \in Threads \ {t} : pc'[u] = pc[u] /\ want'[u] = want[u]
    BY <2>1, <1>4 DEF Places
  <2>6. TypeOK'
    BY <1>1, <1>2, <1>4, <2>1, <2>3, <2>4, <2>5, ReaderFrame DEF ReaderTypeOK
  <2>7. ReadersHoldFiles' /\ CopyingWants'
    BY <1>3, <2>1, <2>5 DEF DeviceInv, ReadersHoldFiles, CopyingWants
  <2>8. NoLostWakeup'
    BY <1>2, <2>1, <2>5, OthersStillWake
  <2> QED
    BY <2>6, <2>7, <2>8
<1> QED
  BY <1>5, <1>6, <1>7, <1>8, <1>9

(* A signal only makes a thread runnable. *)
LEMMA SignalPreserves ==
    ASSUME DeviceInv, NEW t \in Threads, Signal(t)
    PROVE  TypeOK' /\ ReadersHoldFiles' /\ CopyingWants' /\ NoLostWakeup'
<1>1. /\ UNCHANGED << pipesVars, sampleVars, ringVars, pipe, pc, file, want, sem,
                      delivered >>
      /\ sig' = [sig EXCEPT ![t] = TRUE]
      /\ tstate' = [tstate EXCEPT ![t] = "running"]
  BY DEF Signal
<1>2. TypeOK
  BY DEF DeviceInv
<1>3. TypeOK'
  BY <1>1, <1>2, ReaderFrame DEF ReaderTypeOK, TypeOK, Rings
<1>4. ReadersHoldFiles' /\ CopyingWants'
  BY <1>1 DEF DeviceInv, ReadersHoldFiles, CopyingWants, pipesVars
<1>5. NoLostWakeup'
  BY <1>1, <1>2, OthersStillWake DEF TypeOK
<1> QED
  BY <1>3, <1>4, <1>5

(* Opening and releasing a file disturb no reader of another file. *)
LEMMA FilePreserves ==
    ASSUME DeviceInv, PipesInv', NEW f \in Files,
           Open(f) \/ OpenRefused(f) \/ Release(f)
    PROVE  TypeOK' /\ ReadersHoldFiles' /\ CopyingWants' /\ NoLostWakeup'
<1>1. TypeOK /\ PipesTypeOK'
  BY DEF DeviceInv, PipesInv
<1>2. UNCHANGED << sampleVars, ringVars, pc, file, want, tstate, sig >>
  BY DEF Open, OpenRefused, Release, readVars
<1>3. \A t \in Threads : pc[t] # "user" =>
         file[t] \in opened' /\ f_version'[file[t]] = f_version[file[t]]
  <2> SUFFICES ASSUME NEW t \in Threads, pc[t] # "user"
               PROVE  file[t] \in opened' /\ f_version'[file[t]] = f_version[file[t]]
    OBVIOUS
  <2>1. file[t] \in opened /\ file[t] \in Files
    BY ReaderHasPipe
  <2>2. CASE Open(f)
    <3>1. file[t] # f
      BY <2>1, <2>2 DEF Open, libera_sa_open
    <3> QED
      BY <2>1, <2>2, <3>1, <1>1 DEF Open, libera_sa_open, TypeOK, PipesTypeOK
  <2>3. CASE OpenRefused(f)
    BY <2>1, <2>3 DEF OpenRefused, libera_sa_open_refused
  <2>4. CASE Release(f)
    <3>1. file[t] # f
      BY <2>4 DEF Release
    <3> QED
      BY <2>1, <2>4, <3>1, <1>1 DEF Release, libera_sa_release, TypeOK, PipesTypeOK
  <2> QED
    BY <2>2, <2>3, <2>4
<1>4. ReadersHoldFiles' /\ CopyingWants'
  BY <1>2, <1>3 DEF DeviceInv, ReadersHoldFiles, CopyingWants
<1>5. EmptyFIFO \in Rings /\ EmptyFIFO.put = EmptyFIFO.get
  BY RingAssumption DEF EmptyFIFO, Rings
<1>6. /\ pipe' \in [SaLocals -> Rings]
      /\ sem' \in [SaLocals -> Threads \cup {NULL}]
      /\ delivered' \in [Files -> Atoms \cup {NoAtom}]
      /\ \A p \in SaLocals : pipe'[p] = pipe[p] \/ pipe'[p] = EmptyFIFO
  <2>1. /\ pipe \in [SaLocals -> Rings] /\ sem \in [SaLocals -> Threads \cup {NULL}]
        /\ delivered \in [Files -> Atoms \cup {NoAtom}]
    BY <1>1 DEF TypeOK, Rings
  <2>2. CASE Open(f)
    <3>1. /\ pipe' = [pipe EXCEPT ![f_version'[f]] = EmptyFIFO]
          /\ sem' = [sem EXCEPT ![f_version'[f]] = NULL]
          /\ delivered' = delivered
      BY <2>2 DEF Open
    <3> QED
      BY <2>1, <3>1, <1>5
  <2>3. CASE OpenRefused(f)
    BY <2>1, <2>3 DEF OpenRefused, readVars
  <2>4. CASE Release(f)
    <3>1. /\ pipe' = [pipe EXCEPT ![f_version[f]] = EmptyFIFO]
          /\ sem' = sem /\ delivered' = [delivered EXCEPT ![f] = NoAtom]
      BY <2>4 DEF Release
    <3> QED
      BY <2>1, <3>1, <1>5
  <2> QED
    BY <2>2, <2>3, <2>4
<1>7. TypeOK'
  BY <1>1, <1>2, <1>6 DEF TypeOK, Rings, sampleVars, ringVars
<1>8. NoLostWakeup'
  <2> SUFFICES ASSUME NEW t \in Threads,
                      pc'[t] = "sleep", tstate'[t] = "interruptible"
               PROVE  Empty(file[t])'
    BY DEF NoLostWakeup
  <2>1. /\ pc[t] = "sleep" /\ tstate[t] = "interruptible" /\ file'[t] = file[t]
        /\ f_version'[file[t]] = f_version[file[t]]
    BY <1>2, <1>3
  <2>2. Empty(file[t]) /\ f_version[file[t]] \in SaLocals
    BY <2>1, ReaderHasPipe DEF DeviceInv, NoLostWakeup
  <2> QED
    BY <2>1, <2>2, <1>5, <1>6 DEF Empty, Pipe
<1> QED
  BY <1>4, <1>7, <1>8

-----------------------------------------------------------------------------

(* The device starts with nobody in read(). *)
LEMMA InitDevice == Init => DeviceInv
<1> SUFFICES ASSUME Init PROVE DeviceInv
  OBVIOUS
<1>1. PipesInv
  BY InitEstablishes DEF Init
<1>2. EmptyFIFO \in Rings
  BY RingAssumption DEF EmptyFIFO, Rings
<1>3. TypeOK
  <2>1. 0 \in Atoms /\ 0 \in 0 .. SA_FIFO_DEPTH - 1 /\ 0 \in 0 .. IrqsPerTasklet
        /\ 0 \in 0 .. MaxCount
    BY RingAssumption, SampleAssumption, ReaderAssumption DEF Atoms
  <2> QED
    BY <1>1, <1>2, <2>1 DEF Init, TypeOK, PipesInv, Places, Rings
<1>4. ReadersHoldFiles /\ CopyingWants /\ NoLostWakeup
  BY DEF Init, ReadersHoldFiles, CopyingWants, NoLostWakeup
<1> QED
  BY <1>1, <1>3, <1>4 DEF DeviceInv

(* The invariant of the device is inductive. *)
LEMMA StepDevice == DeviceInv /\ [Next]_vars => DeviceInv'
<1> SUFFICES ASSUME DeviceInv, [Next]_vars PROVE DeviceInv'
  OBVIOUS
<1>1. PipesInv'
  BY StepMovesPipes, StepPreserves DEF DeviceInv
<1>2. CASE SampleReady \/ libera_sa_handler \/ TaskletStart \/ TaskletTest
  BY <1>1, <1>2, CapturePreserves DEF DeviceInv
<1>3. CASE TaskletDispatch
  BY <1>1, <1>3, DispatchPreserves DEF DeviceInv
<1>4. ASSUME NEW t \in Threads, libera_sa_read(t) PROVE DeviceInv'
  BY <1>1, <1>4, QuietReadPreserves, BusyReadPreserves DEF DeviceInv, libera_sa_read
<1>5. ASSUME NEW t \in Threads, Signal(t) PROVE DeviceInv'
  BY <1>1, <1>5, SignalPreserves DEF DeviceInv
<1>6. ASSUME NEW f \in Files, Open(f) \/ OpenRefused(f) \/ Release(f)
      PROVE  DeviceInv'
  BY <1>1, <1>6, FilePreserves DEF DeviceInv
<1>7. CASE UNCHANGED vars
  <2>1. UNCHANGED << pipesVars, sampleVars, ringVars, readVars, pipe >>
    BY <1>7 DEF vars
  <2>2. TypeOK'
    BY <2>1, ReaderFrame DEF DeviceInv, TypeOK, ReaderTypeOK, Rings, readVars
  <2>3. ReadersHoldFiles' /\ CopyingWants' /\ NoLostWakeup'
    BY <2>1 DEF DeviceInv, ReadersHoldFiles, CopyingWants, NoLostWakeup, Empty,
                Pipe, readVars, pipesVars
  <2> QED
    BY <1>1, <2>2, <2>3 DEF DeviceInv
<1> QED
  BY <1>2, <1>3, <1>4, <1>5, <1>6, <1>7 DEF Next, Interrupts

(* The device's inductive invariant. *)
THEOREM DeviceInvariant == Spec => []DeviceInv
<1>1. Init => DeviceInv
  BY InitDevice
<1>2. DeviceInv /\ [Next]_vars => DeviceInv'
  BY StepDevice
<1> QED
  BY <1>1, <1>2, PTL DEF Spec

(* Every field of the device and of its readers keeps its type: no index    *)
(* leaves its ring, no count becomes negative.                              *)
THEOREM DeviceTypeCorrect == Spec => []TypeOK
<1>1. DeviceInv => TypeOK
  BY DEF DeviceInv
<1> QED
  BY <1>1, DeviceInvariant, PTL

(* No reader sleeps over an atom in its pipe, though the tasklet fills the  *)
(* pipe without the mutex the reader holds while it looks.                  *)
THEOREM WakeupNeverLost == Spec => []NoLostWakeup
<1>1. DeviceInv => NoLostWakeup
  BY DEF DeviceInv
<1> QED
  BY <1>1, DeviceInvariant, PTL

(* A step of the device keeps the memory of an overrun. *)
LEMMA OverrunStep == OverrunRemembered /\ [Next]_vars => OverrunRemembered'
<1> SUFFICES ASSUME OverrunRemembered, [Next]_vars PROVE OverrunRemembered'
  OBVIOUS
<1> USE DEF OverrunRemembered
<1>1. CASE SampleReady
  BY <1>1 DEF SampleReady
<1>2. CASE libera_sa_handler
  BY <1>2 DEF libera_sa_handler
<1>3. CASE TaskletStart
  BY <1>3 DEF TaskletStart, sampleVars
<1>4. CASE TaskletDispatch \/ TaskletTest
  BY <1>4 DEF TaskletDispatch, TaskletTest, sampleVars
<1>5. ASSUME NEW t \in Threads, libera_sa_read(t) \/ Signal(t)
      PROVE  OverrunRemembered'
  <2>1. UNCHANGED << sampleVars, ringVars >>
    BY <1>5 DEF libera_sa_read, ReadCall, ReadLock, ReadLockInterrupted, ReadCheck,
         ReadPrepare, ReadRecheck, ReadWake, ReadRelock, ReadCount, ReadTake,
         ReadCopy, ReadStep, Signal
  <2> QED
    BY <2>1 DEF sampleVars, ringVars
<1>6. ASSUME NEW f \in Files, Open(f) \/ OpenRefused(f) \/ Release(f)
      PROVE  OverrunRemembered'
  BY <1>6 DEF Open, OpenRefused, Release, sampleVars, ringVars
<1>7. CASE UNCHANGED vars
  BY <1>7 DEF vars, sampleVars, ringVars
<1> QED
  BY <1>1, <1>2, <1>3, <1>4, <1>5, <1>6, <1>7 DEF Next, Interrupts

(* An overrun of the FPGA FIFO stays on record, in the status bit or in the *)
(* flag, until the tasklet has sent its event, and a set flag always has a  *)
(* run of the tasklet to come.                                              *)
THEOREM OverrunNeverForgotten == Spec => []OverrunRemembered
<1>1. Init => OverrunRemembered
  BY DEF Init, OverrunRemembered
<1> QED
  BY <1>1, OverrunStep, PTL DEF Spec

(* The room test of a pipe never fails: free_saFIFO counts the slot that    *)
(* always stays empty, so libera_pipe_write never returns -EFAULT and the   *)
(* tasklet's branch that reports the overflow of a pipe is never taken.     *)
THEOREM PipeOverflowNeverReported ==
    Spec => [](\A p \in SaLocals : libera_pipe_write_ret(pipe[p]) # "EFAULT")
<1>1. DeviceInv => \A p \in SaLocals : libera_pipe_write_ret(pipe[p]) # "EFAULT"
  BY RingOperations DEF DeviceInv, TypeOK, Rings
<1> QED
  BY <1>1, DeviceInvariant, PTL

(* The pipe a read() works on is neither freed nor unregistered under it.   *)
THEOREM PipeOutlivesRead == Spec => []ReaderPipeLives
<1>1. DeviceInv => ReaderPipeLives
  <2> SUFFICES ASSUME DeviceInv, NEW t \in Threads, pc[t] # "user"
               PROVE  /\ file[t] \in opened
                      /\ f_version[file[t]] \in allocated
                      /\ Registered(f_version[file[t]])
    BY DEF ReaderPipeLives
  <2>1. file[t] \in opened /\ Registered(f_version[file[t]])
        /\ f_version[file[t]] # NULL
    BY ReaderHasPipe, NullAssumption
  <2>2. f_version[file[t]] \in allocated
    BY <2>1 DEF DeviceInv, PipesInv, NoDanglingPipe, Occupied, Registered
  <2> QED
    BY <2>1, <2>2
<1> QED
  BY <1>1, DeviceInvariant, PTL

-----------------------------------------------------------------------------
(* The copy loop *)

(* The places of read() between mutex_lock and mutex_unlock. *)
Holding == {"check", "prepare", "recheck", "count", "copy", "copying"}

MutexHeld == \A t \in Threads : pc[t] \in Holding => sem[f_version[file[t]]] = t

(* What the copy loop has counted is in the pipe. *)
CountsHold ==
    \A t \in Threads :
        /\ pc[t] = "copy" => want[t] <= len_saFIFO(Pipe(file[t]))
        /\ pc[t] = "copying" => want[t] - 1 <= len_saFIFO(Pipe(file[t]))

CopyInv == DeviceInv /\ MutexHeld /\ CountsHold

(* The remainders that the rings take. *)
LEMMA SmallMod ==
    ASSUME NEW n \in Nat \ {0}, NEW a \in 0 .. n - 1
    PROVE  a % n = a /\ (a + n) % n = a /\ (a + 1) % n = IF a = n - 1 THEN 0 ELSE a + 1
<1>1. a % n = a
  OBVIOUS
<1>2. (a + n) % n = a
  OBVIOUS
<1>3. (a + 1) % n = IF a = n - 1 THEN 0 ELSE a + 1
  <2>1. CASE a = n - 1
    BY <2>1
  <2>2. CASE a # n - 1
    <3>1. a + 1 \in 0 .. n - 1
      BY <2>2
    <3>2. \A b \in 0 .. n - 1 : b % n = b
      OBVIOUS
    <3>3. QED BY <2>2, <3>1, <3>2
  <2>3. QED BY <2>1, <2>2
<1>4. QED BY <1>1, <1>2, <1>3

(* The number of atoms in a ring, without the remainder. *)
LEMMA LenPlain ==
    ASSUME NEW q \in Rings
    PROVE  len_saFIFO(q) = IF q.put >= q.get THEN q.put - q.get ELSE q.put + SA_LOG - q.get
<1> USE RingAssumption
<1>1. q.put \in 0 .. SA_LOG - 1 /\ q.get \in 0 .. SA_LOG - 1
  BY DEF Rings
<1>2. CASE q.put >= q.get
  <2>1. q.put - q.get \in 0 .. SA_LOG - 1
    BY <1>1, <1>2
  <2>2. q.put + SA_LOG - q.get = (q.put - q.get) + SA_LOG
    BY <1>1
  <2>3. ((q.put - q.get) + SA_LOG) % SA_LOG = q.put - q.get
    BY <2>1, SmallMod
  <2>4. QED BY <1>2, <2>2, <2>3 DEF len_saFIFO
<1>3. CASE ~(q.put >= q.get)
  <2>1. q.put + SA_LOG - q.get \in 0 .. SA_LOG - 1
    BY <1>1, <1>3
  <2>2. QED BY <1>3, <2>1, SmallMod DEF len_saFIFO
<1>4. QED BY <1>2, <1>3

(* The tasklet's write takes the slot after put, or does nothing when that is *)
(* the one that stays empty; the others keep what they hold.                  *)
LEMMA WriteAppends ==
    ASSUME NEW q \in Rings, NEW a \in Atoms \cup {NoAtom}
    PROVE  /\ len_saFIFO(q) = SA_LOG - 1 => libera_pipe_write(q, a) = q
           /\ len_saFIFO(q) < SA_LOG - 1 =>
                /\ libera_pipe_write(q, a) =
                     [q EXCEPT !.data[(q.put + 1) % SA_LOG] = a, !.put = (q.put + 1) % SA_LOG]
                /\ len_saFIFO(libera_pipe_write(q, a)) = len_saFIFO(q) + 1
           /\ len_saFIFO(libera_pipe_write(q, a)) >= len_saFIFO(q)
<1> USE RingAssumption
<1>1. /\ q.put \in 0 .. SA_LOG - 1 /\ q.get \in 0 .. SA_LOG - 1
      /\ (q.put + 1) % SA_LOG = IF q.put = SA_LOG - 1 THEN 0 ELSE q.put + 1
  <2>1. q.put \in 0 .. SA_LOG - 1 /\ q.get \in 0 .. SA_LOG - 1
    BY DEF Rings
  <2>2. QED BY <2>1, SmallMod
<1>2. len_saFIFO(q) \in 0 .. SA_LOG - 1
  BY RingOperations
<1>3. free_saFIFO(q) >= 1
  BY <1>2 DEF free_saFIFO
<1>4. libera_pipe_write(q, a) = putTo_saFIFO(q, a)
  BY <1>2, <1>3 DEF libera_pipe_write, free_saFIFO
<1>5. (q.put + 1) % SA_LOG = q.get <=> len_saFIFO(q) = SA_LOG - 1
  BY <1>1, LenPlain
<1> DEFINE more == [q EXCEPT !.data[(q.put + 1) % SA_LOG] = a, !.put = (q.put + 1) % SA_LOG]
<1>6. CASE len_saFIFO(q) = SA_LOG - 1
  <2>1. libera_pipe_write(q, a) = q
    BY <1>4, <1>5, <1>6 DEF putTo_saFIFO
  <2>2. QED BY <1>2, <1>6, <2>1
<1>7. CASE len_saFIFO(q) # SA_LOG - 1
  <2>1. libera_pipe_write(q, a) = more
    BY <1>4, <1>5, <1>7 DEF putTo_saFIFO
  <2>2. more \in Rings
    BY <2>1, RingOperations
  <2>3. more.put = (q.put + 1) % SA_LOG /\ more.get = q.get
    BY DEF Rings
  <2> HIDE DEF more
  <2>4. len_saFIFO(more) = len_saFIFO(q) + 1
    BY <1>1, <1>5, <1>7, <2>2, <2>3, LenPlain
  <2>5. QED BY <1>2, <1>7, <2>1, <2>4 DEF more
<1>8. QED BY <1>6, <1>7

(* read() takes the slot after get. *)
LEMMA TakeShortens ==
    ASSUME NEW q \in Rings, q.put # q.get
    PROVE  /\ len_saFIFO(q) > 0
           /\ len_saFIFO(getFrom_saFIFO(q)) = len_saFIFO(q) - 1
           /\ getFrom_saFIFO(q).get = (q.get + 1) % SA_LOG
           /\ getFrom_saFIFO(q).put = q.put /\ getFrom_saFIFO(q).data = q.data
<1> USE RingAssumption
<1>1. q.put \in 0 .. SA_LOG - 1 /\ q.get \in 0 .. SA_LOG - 1
  BY DEF Rings
<1>2. (q.get + 1) % SA_LOG = IF q.get = SA_LOG - 1 THEN 0 ELSE q.get + 1
  BY <1>1, SmallMod
<1> DEFINE less == getFrom_saFIFO(q)
<1>3. /\ less \in Rings /\ less.get = (q.get + 1) % SA_LOG
      /\ less.put = q.put /\ less.data = q.data
  <2>1. less \in Rings
    BY RingOperations
  <2>2. QED BY <2>1 DEF getFrom_saFIFO, Rings
<1> HIDE DEF less
<1>4. len_saFIFO(q) > 0 /\ len_saFIFO(less) = len_saFIFO(q) - 1
  BY <1>1, <1>2, <1>3, LenPlain
<1>5. QED BY <1>3, <1>4 DEF less

(* Two threads with the mutex of one pipe are one. *)
LEMMA OneHolder ==
    ASSUME MutexHeld, NEW t \in Threads, NEW u \in Threads,
           pc[t] \in Holding, pc[u] \in Holding, f_version[file[t]] = f_version[file[u]]
    PROVE  t = u
  BY DEF MutexHeld

(* A step of read() is about its own thread, and what it does with the mutex. *)
LEMMA ReadMutexSteps ==
    ASSUME DeviceInv, NEW t \in Threads, libera_sa_read(t)
    PROVE  /\ UNCHANGED << pipesVars, sampleVars, ringVars >>
           /\ \A u \in Threads \ {t} :
                pc'[u] = pc[u] /\ file'[u] = file[u] /\ want'[u] = want[u]
           /\ \/ sem' = sem /\ (pc'[t] \in Holding => pc[t] \in Holding /\ file'[t] = file[t])
              \/ /\ sem[f_version[file[t]]] = NULL /\ file' = file /\ pc[t] # "user"
                 /\ sem' = [sem EXCEPT ![f_version[file[t]]] = t]
              \/ /\ pc[t] \in Holding /\ pc'[t] \notin Holding
                 /\ sem' = [sem EXCEPT ![f_version[file[t]]] = NULL]
<1>1. UNCHANGED << pipesVars, sampleVars, ringVars >>
  BY DEF libera_sa_read, ReadCall, ReadLock, ReadLockInterrupted, ReadCheck,
       ReadPrepare, ReadRecheck, ReadWake, ReadRelock, ReadCount, ReadTake,
       ReadCopy, ReadStep
<1>2. /\ pc \in [Threads -> Places] /\ file \in [Threads -> Files \cup {NULL}]
      /\ want \in [Threads -> 0 .. MaxCount]
  BY DEF DeviceInv, TypeOK
<1> DEFINE Others == \A u \in Threads \ {t} :
                        pc'[u] = pc[u] /\ file'[u] = file[u] /\ want'[u] = want[u]
           Kept == sem' = sem /\ (pc'[t] \in Holding => pc[t] \in Holding /\ file'[t] = file[t])
           Taken == /\ sem[f_version[file[t]]] = NULL /\ file' = file /\ pc[t] # "user"
                    /\ sem' = [sem EXCEPT ![f_version[file[t]]] = t]
           Given == /\ pc[t] \in Holding /\ pc'[t] \notin Holding
                    /\ sem' = [sem EXCEPT ![f_version[file[t]]] = NULL]
<1>3. ASSUME UnlockAndReturn(t), pc[t] \in Holding PROVE Others /\ Given
  BY <1>2, <1>3 DEF UnlockAndReturn, Goto, Holding
<1>4. CASE ReadCall(t) \/ ReadLockInterrupted(t)
  BY <1>1, <1>2, <1>4 DEF ReadCall, ReadLockInterrupted, ReadStep, Goto, Holding
<1>5. CASE ReadLock(t) \/ ReadRelock(t)
  BY <1>1, <1>2, <1>5 DEF ReadLock, ReadRelock, ReadStep, Goto, Holding
<1>6. CASE ReadPrepare(t) \/ ReadWake(t) \/ ReadCount(t)
  BY <1>1, <1>2, <1>6 DEF ReadPrepare, ReadWake, ReadCount, ReadStep, Goto, Holding
<1>7. CASE ReadCheck(t)
  <2>1. pc[t] = "check"
    BY <1>7 DEF ReadCheck, ReadStep
  <2>2. CASE UnlockAndReturn(t)
    BY <1>1, <1>3, <2>1, <2>2 DEF Holding
  <2>3. CASE UNCHANGED << file, want, sem >> /\ pc' \in {[pc EXCEPT ![t] = "count"], [pc EXCEPT ![t] = "prepare"]}
    BY <1>1, <1>2, <2>1, <2>3 DEF Holding
  <2>4. QED BY <1>7, <2>2, <2>3 DEF ReadCheck, Goto
<1>8. CASE ReadRecheck(t)
  <2>1. pc[t] = "recheck"
    BY <1>8 DEF ReadRecheck, ReadStep
  <2>2. CASE UnlockAndReturn(t)
    BY <1>1, <1>3, <2>1, <2>2 DEF Holding
  <2>3. CASE UNCHANGED << file, want, sem >> /\ pc' = [pc EXCEPT ![t] = "count"]
    BY <1>1, <1>2, <2>1, <2>3 DEF Holding
  <2>4. CASE /\ UNCHANGED << file, want >> /\ pc' = [pc EXCEPT ![t] = "sleep"]
             /\ sem' = [sem EXCEPT ![f_version[file[t]]] = NULL]
    BY <1>1, <1>2, <2>1, <2>4 DEF Holding
  <2>5. QED BY <1>8, <2>2, <2>3, <2>4 DEF ReadRecheck, Goto
<1>9. CASE ReadTake(t)
  <2>1. pc[t] = "copy"
    BY <1>9 DEF ReadTake, ReadStep
  <2>2. CASE UnlockAndReturn(t)
    BY <1>1, <1>3, <2>1, <2>2 DEF Holding
  <2>3. CASE UNCHANGED << file, want, sem >> /\ pc' = [pc EXCEPT ![t] = "copying"]
    BY <1>1, <1>2, <2>1, <2>3 DEF Holding
  <2>4. QED BY <1>9, <2>2, <2>3 DEF ReadTake, Goto
<1>10. CASE ReadCopy(t)
  <2>1. pc[t] = "copying"
    BY <1>10 DEF ReadCopy, ReadStep
  <2>2. CASE UnlockAndReturn(t)
    BY <1>1, <1>3, <2>1, <2>2 DEF Holding
  <2>3. CASE /\ UNCHANGED << file, sem >> /\ pc' = [pc EXCEPT ![t] = "copy"]
             /\ want' = [want EXCEPT ![t] = @ - 1]
    BY <1>1, <1>2, <2>1, <2>3 DEF Holding
  <2>4. QED BY <1>10, <2>2, <2>3 DEF ReadCopy, Goto
<1>11. QED
  BY <1>4, <1>5, <1>6, <1>7, <1>8, <1>9, <1>10 DEF libera_sa_read

(* Who holds a mutex, for every step of read(). *)
LEMMA ReadKeepsMutex ==
    ASSUME DeviceInv, MutexHeld, NEW t \in Threads, libera_sa_read(t)
    PROVE  MutexHeld'
<1>1. f_version' = f_version /\ sem \in [SaLocals -> Threads \cup {NULL}] /\ NULL \notin Threads
  BY ReadMutexSteps, ReaderAssumption DEF DeviceInv, TypeOK, pipesVars
<1>2. \A u \in Threads \ {t} : pc'[u] = pc[u] /\ file'[u] = file[u]
  BY ReadMutexSteps
<1> DEFINE x == f_version[file[t]]
<1>3. ASSUME NEW u \in Threads \ {t}, pc[u] \in Holding, sem' = [sem EXCEPT ![x] = NULL], pc[t] \in Holding
      PROVE  sem'[f_version[file[u]]] = u
  <2>1. f_version[file[u]] # x
    BY <1>3, OneHolder
  <2>2. f_version[file[u]] \in SaLocals
    BY <1>3, ReaderHasPipe DEF Holding
  <2>3. QED BY <1>1, <1>3, <2>1, <2>2 DEF MutexHeld
<1>4. ASSUME NEW u \in Threads \ {t}, pc[u] \in Holding, sem' = [sem EXCEPT ![x] = t], sem[x] = NULL
      PROVE  sem'[f_version[file[u]]] = u
  <2>1. sem[f_version[file[u]]] = u
    BY <1>4 DEF MutexHeld
  <2>2. f_version[file[u]] # x
    BY <1>1, <1>4, <2>1
  <2>3. f_version[file[u]] \in SaLocals
    BY <1>4, ReaderHasPipe DEF Holding
  <2>4. QED BY <1>1, <1>4, <2>1, <2>2, <2>3
<1>5. CASE sem' = sem /\ (pc'[t] \in Holding => pc[t] \in Holding /\ file'[t] = file[t])
  BY <1>1, <1>2, <1>5 DEF MutexHeld, Holding
<1>6. CASE /\ sem[x] = NULL /\ file' = file /\ pc[t] # "user"
           /\ sem' = [sem EXCEPT ![x] = t]
  <2>1. x \in SaLocals
    BY <1>6, ReaderHasPipe
  <2>2. sem'[x] = t
    BY <1>1, <1>6, <2>1
  <2> HIDE DEF x
  <2>3. \A u \in Threads : pc'[u] \in Holding => sem'[f_version'[file'[u]]] = u
    <3>1. ASSUME NEW u \in Threads, pc'[u] \in Holding PROVE sem'[f_version'[file'[u]]] = u
      <4>1. CASE u = t
        BY <1>1, <1>6, <2>2, <4>1 DEF x
      <4>2. CASE u # t
        BY <1>1, <1>2, <1>4, <1>6, <3>1, <4>2 DEF x
      <4>3. QED BY <4>1, <4>2
    <3>2. QED BY <3>1
  <2>4. QED BY <2>3 DEF MutexHeld, Holding
<1>7. CASE /\ pc[t] \in Holding /\ pc'[t] \notin Holding
           /\ sem' = [sem EXCEPT ![x] = NULL]
  <2> HIDE DEF x
  <2>1. \A u \in Threads : pc'[u] \in Holding => sem'[f_version'[file'[u]]] = u
    <3>1. ASSUME NEW u \in Threads, pc'[u] \in Holding PROVE sem'[f_version'[file'[u]]] = u
      <4>1. u # t
        BY <1>7, <3>1
      <4>2. QED BY <1>1, <1>2, <1>3, <1>7, <3>1, <4>1
    <3>2. QED BY <3>1
  <2>2. QED BY <2>1 DEF MutexHeld, Holding
<1>8. QED BY <1>5, <1>6, <1>7, ReadMutexSteps

(* What is counted, for every step of read(): atoms are taken by who has the  *)
(* mutex only.                                                                *)
LEMMA ReadKeepsCounts ==
    ASSUME CopyInv, NEW t \in Threads, libera_sa_read(t)
    PROVE  CountsHold'
<1>1. /\ DeviceInv /\ MutexHeld /\ CountsHold
      /\ pc \in [Threads -> Places] /\ file \in [Threads -> Files \cup {NULL}]
      /\ want \in [Threads -> 0 .. MaxCount] /\ pipe \in [SaLocals -> Rings]
  BY DEF CopyInv, DeviceInv, TypeOK, Rings
<1>2. f_version' = f_version
  BY <1>1, ReadMutexSteps DEF pipesVars
<1>3. \A u \in Threads \ {t} : pc'[u] = pc[u] /\ file'[u] = file[u] /\ want'[u] = want[u]
  BY <1>1, ReadMutexSteps
<1> DEFINE CountsOf(u) ==
             /\ pc'[u] = "copy" => want'[u] <= len_saFIFO(pipe'[f_version'[file'[u]]])
             /\ pc'[u] = "copying" => want'[u] - 1 <= len_saFIFO(pipe'[f_version'[file'[u]]])
<1>4. ASSUME pipe' = pipe, NEW u \in Threads \ {t} PROVE CountsOf(u)
  BY <1>1, <1>2, <1>3, <1>4 DEF CountsHold, Pipe
<1>5. CountsOf(t) /\ (pipe' = pipe \/ \A u \in Threads \ {t} : CountsOf(u))
  <2>1. CASE \/ ReadCall(t) \/ ReadLock(t) \/ ReadLockInterrupted(t) \/ ReadCheck(t)
             \/ ReadPrepare(t) \/ ReadRecheck(t) \/ ReadWake(t) \/ ReadRelock(t)
    <3>1. pipe' = pipe
      BY <2>1 DEF ReadCall, ReadLock, ReadLockInterrupted, ReadCheck, ReadPrepare,
           ReadRecheck, ReadWake, ReadRelock
    <3>2. pc'[t] \notin {"copy", "copying"}
      BY <1>1, <2>1 DEF ReadCall, ReadLock, ReadLockInterrupted, ReadCheck, ReadPrepare,
           ReadRecheck, ReadWake, ReadRelock, ReadStep, Goto, UnlockAndReturn
    <3>3. QED BY <3>1, <3>2
  <2>2. CASE ReadCount(t)
    <3>1. /\ pipe' = pipe /\ file' = file /\ pc'[t] = "copy" /\ pc[t] = "count"
          /\ want'[t] = IF want[t] < len_saFIFO(Pipe(file[t])) THEN want[t]
                        ELSE len_saFIFO(Pipe(file[t]))
      BY <1>1, <2>2 DEF ReadCount, ReadStep, Goto
    <3>2. len_saFIFO(Pipe(file[t])) \in Int /\ want[t] \in Int
      BY <1>1, <3>1, ReaderHasPipe, RingOperations, RingAssumption
    <3>3. want'[t] <= len_saFIFO(Pipe(file[t]))
      BY <3>1, <3>2
    <3>4. QED BY <1>2, <3>1, <3>3 DEF Pipe
  <2>3. CASE ReadTake(t)
    <3>1. CASE UnlockAndReturn(t) /\ pipe' = pipe
      BY <1>1, <3>1 DEF UnlockAndReturn, Goto
    <3>2. CASE /\ want[t] > 0 /\ ~Empty(file[t])
               /\ pipe' = [pipe EXCEPT ![f_version[file[t]]] = getFrom_saFIFO(@)]
               /\ Goto(t, "copying")
               /\ UNCHANGED << file, want, sig, sem >>
      <4> DEFINE x == f_version[file[t]]
      <4>1. pc[t] = "copy" /\ x \in SaLocals /\ pipe[x] \in Rings
        BY <1>1, <2>3, ReaderHasPipe DEF ReadTake, ReadStep, Pipe
      <4>2. pc' = [pc EXCEPT ![t] = "copying"] /\ pipe[x].put # pipe[x].get
        BY <3>2 DEF Goto, Empty, Pipe
      <4>3. want[t] <= len_saFIFO(pipe[x])
        BY <1>1, <4>1 DEF CountsHold, Pipe
      <4> HIDE DEF x
      <4>4. /\ len_saFIFO(getFrom_saFIFO(pipe[x])) = len_saFIFO(pipe[x]) - 1
            /\ len_saFIFO(pipe[x]) \in Int
        BY <4>1, <4>2, TakeShortens, RingOperations, RingAssumption
      <4>5. pipe'[x] = getFrom_saFIFO(pipe[x]) /\ \A y \in SaLocals : y # x => pipe'[y] = pipe[y]
        BY <1>1, <3>2, <4>1 DEF x
      <4>6. CountsOf(t)
        <5>1. want'[t] - 1 <= len_saFIFO(pipe'[x]) /\ pc'[t] = "copying"
          BY <1>1, <3>2, <4>2, <4>3, <4>4, <4>5
        <5>2. f_version'[file'[t]] = x
          BY <1>2, <3>2 DEF x
        <5>3. QED BY <5>1, <5>2
      <4>7. ASSUME NEW u \in Threads \ {t} PROVE CountsOf(u)
        <5>1. CASE pc[u] \in {"copy", "copying"}
          <6>1. f_version[file[u]] # x
            BY <1>1, <4>1, <5>1, OneHolder DEF Holding, x
          <6>2. f_version[file[u]] \in SaLocals
            BY <1>1, <5>1, ReaderHasPipe
          <6>3. pipe'[f_version[file[u]]] = pipe[f_version[file[u]]]
            BY <4>5, <6>1, <6>2
          <6>4. QED BY <1>1, <1>2, <1>3, <6>3 DEF CountsHold, Pipe
        <5>2. CASE pc[u] \notin {"copy", "copying"}
          BY <1>3, <5>2
        <5>3. QED BY <5>1, <5>2
      <4>8. QED BY <4>6, <4>7
    <3>3. QED BY <2>3, <3>1, <3>2 DEF ReadTake
  <2>4. CASE ReadCopy(t)
    <3>1. CASE UnlockAndReturn(t) /\ pipe' = pipe
      BY <1>1, <3>1 DEF UnlockAndReturn, Goto
    <3>2. CASE /\ pipe' = pipe /\ UNCHANGED << file, sig, sem >> /\ Goto(t, "copy")
               /\ want' = [want EXCEPT ![t] = @ - 1]
      <4>1. pc[t] = "copying"
        BY <2>4 DEF ReadCopy, ReadStep
      <4>2. pc'[t] = "copy" /\ want'[t] = want[t] - 1 /\ want[t] \in Int
        BY <1>1, <3>2 DEF Goto
      <4>3. want[t] - 1 <= len_saFIFO(Pipe(file[t]))
        BY <1>1, <4>1 DEF CountsHold
      <4>4. QED BY <1>2, <3>2, <4>2, <4>3 DEF Pipe
    <3>3. QED BY <2>4, <3>1, <3>2 DEF ReadCopy
  <2>5. QED BY <2>1, <2>2, <2>3, <2>4 DEF libera_sa_read
<1>6. \A u \in Threads : CountsOf(u)
  BY <1>4, <1>5
<1>7. QED BY <1>6 DEF CountsHold, Pipe

(* The tasklet only adds atoms. *)
LEMMA DispatchKeepsCopy ==
    ASSUME CopyInv, TaskletDispatch
    PROVE  MutexHeld' /\ CountsHold'
<1>1. /\ UNCHANGED << f_version, pc, file, want, sem >>
      /\ pipe' = [p \in SaLocals |->
                    IF Registered(p) THEN libera_pipe_write(pipe[p], buf[buf_tail])
                    ELSE pipe[p]]
  BY DEF TaskletDispatch, pipesVars
<1>2. /\ buf[buf_tail] \in Atoms \cup {NoAtom} /\ \A p \in SaLocals : pipe[p] \in Rings
      /\ want \in [Threads -> 0 .. MaxCount]
  BY DEF CopyInv, DeviceInv, TypeOK, Rings
<1>3. MutexHeld'
  BY <1>1 DEF CopyInv, MutexHeld
<1>4. ASSUME NEW p \in SaLocals
      PROVE  /\ len_saFIFO(pipe'[p]) >= len_saFIFO(pipe[p])
             /\ len_saFIFO(pipe'[p]) \in Int /\ len_saFIFO(pipe[p]) \in Int
  <2>1. pipe'[p] \in Rings
    BY <1>1, <1>2, RingOperations
  <2>2. len_saFIFO(pipe'[p]) \in Int /\ len_saFIFO(pipe[p]) \in Int
    BY <1>2, <2>1, RingOperations, RingAssumption
  <2>3. CASE pipe'[p] = pipe[p]
    BY <2>2, <2>3
  <2>4. CASE pipe'[p] = libera_pipe_write(pipe[p], buf[buf_tail])
    BY <1>2, <2>2, <2>4, WriteAppends
  <2>5. QED BY <1>1, <2>2, <2>3, <2>4
<1>5. ASSUME NEW t \in Threads, pc[t] \in {"copy", "copying"}
      PROVE  /\ want[t] \in Int /\ f_version[file[t]] \in SaLocals
             /\ pc[t] = "copy" => want[t] <= len_saFIFO(pipe[f_version[file[t]]])
             /\ pc[t] = "copying" => want[t] - 1 <= len_saFIFO(pipe[f_version[file[t]]])
  BY <1>2, <1>5, ReaderHasPipe DEF CopyInv, CountsHold, Pipe
<1>6. ASSUME NEW t \in Threads
      PROVE  /\ pc'[t] = "copy" => want'[t] <= len_saFIFO(pipe'[f_version'[file'[t]]])
             /\ pc'[t] = "copying" => want'[t] - 1 <= len_saFIFO(pipe'[f_version'[file'[t]]])
  <2>1. CASE pc[t] \in {"copy", "copying"}
    <3> DEFINE x == f_version[file[t]]
               k == len_saFIFO(pipe[x])
               m == len_saFIFO(pipe'[x])
    <3>1. m >= k /\ m \in Int /\ k \in Int
      BY <1>4, <1>5, <2>1
    <3>2. want[t] \in Int /\ (pc[t] = "copy" => want[t] <= k) /\ (pc[t] = "copying" => want[t] - 1 <= k)
      BY <1>5, <2>1
    <3>3. /\ pc'[t] = pc[t] /\ want'[t] = want[t] /\ f_version'[file'[t]] = x
      BY <1>1
    <3> HIDE DEF k, m, x
    <3>4. (pc[t] = "copy" => want[t] <= m) /\ (pc[t] = "copying" => want[t] - 1 <= m)
      BY <3>1, <3>2
    <3>5. QED BY <3>3, <3>4 DEF m
  <2>2. CASE pc[t] \notin {"copy", "copying"}
    BY <1>1, <2>2
  <2>3. QED BY <2>1, <2>2
<1>7. QED BY <1>3, <1>6 DEF CountsHold, Pipe

(* What a file's opening and releasing leave to the threads inside read(). *)
LEMMA FileLeavesReaders ==
    ASSUME DeviceInv, NEW f \in Files, Open(f) \/ OpenRefused(f) \/ Release(f)
    PROVE  /\ UNCHANGED << sampleVars, ringVars, pc, file, want, tstate, sig >>
           /\ \A t \in Threads : pc[t] # "user" =>
                /\ file[t] # f \/ OpenRefused(f)
                /\ f_version'[file[t]] = f_version[file[t]]
                /\ pipe'[f_version[file[t]]] = pipe[f_version[file[t]]]
                /\ sem'[f_version[file[t]]] = sem[f_version[file[t]]]
<1>1. UNCHANGED << sampleVars, ringVars, pc, file, want, tstate, sig >>
  BY DEF Open, OpenRefused, Release, readVars
<1>2. /\ f_version \in [Files -> SaLocals \cup {NULL}] /\ opened \subseteq Files
      /\ pipe \in [SaLocals -> Rings] /\ sem \in [SaLocals -> Threads \cup {NULL}]
  BY DEF DeviceInv, TypeOK, PipesTypeOK, Rings
<1>3. ASSUME NEW t \in Threads, pc[t] # "user"
      PROVE  /\ file[t] # f \/ OpenRefused(f)
             /\ f_version'[file[t]] = f_version[file[t]]
             /\ pipe'[f_version[file[t]]] = pipe[f_version[file[t]]]
             /\ sem'[f_version[file[t]]] = sem[f_version[file[t]]]
  <2>1. /\ file[t] \in opened /\ file[t] \in Files /\ f_version[file[t]] \in SaLocals
        /\ f_version[file[t]] \in allocated
    <3>1. /\ file[t] \in opened /\ file[t] \in Files /\ f_version[file[t]] \in SaLocals
          /\ Registered(f_version[file[t]])
      BY <1>3, ReaderHasPipe
    <3>2. f_version[file[t]] # NULL
      BY <3>1, NullAssumption
    <3>3. f_version[file[t]] \in allocated
      BY <3>1, <3>2 DEF DeviceInv, PipesInv, NoDanglingPipe, Occupied, Registered
    <3>4. QED BY <3>1, <3>3
  <2>2. CASE Open(f)
    <3>1. PICK p \in SaLocals \ allocated : f_version' = [f_version EXCEPT ![f] = p]
      BY <2>2 DEF Open, libera_sa_open
    <3>2. f \notin opened /\ file[t] # f /\ p # f_version[file[t]] /\ f_version'[f] = p
      BY <1>2, <2>1, <2>2, <3>1 DEF Open, libera_sa_open
    <3>3. /\ pipe' = [pipe EXCEPT ![p] = EmptyFIFO] /\ sem' = [sem EXCEPT ![p] = NULL]
      BY <2>2, <3>2 DEF Open
    <3>4. QED BY <1>2, <2>1, <3>1, <3>2, <3>3
  <2>3. CASE OpenRefused(f)
    BY <2>3 DEF OpenRefused, libera_sa_open_refused, readVars
  <2>4. CASE Release(f)
    <3>1. /\ f \in opened /\ file[t] # f /\ sem' = sem
          /\ pipe' = [pipe EXCEPT ![f_version[f]] = EmptyFIFO]
          /\ f_version' = f_version \/ f_version' = [f_version EXCEPT ![f] = NULL]
      BY <2>4 DEF Release, libera_sa_release
    <3>2. f_version[f] # f_version[file[t]]
      BY <2>1, <3>1 DEF DeviceInv, PipesInv, OneSlotPerFile
    <3>3. QED BY <1>2, <2>1, <3>1, <3>2
  <2>5. QED BY <2>2, <2>3, <2>4
<1>4. QED BY <1>1, <1>3

(* The mutex and the counts, for every step of the device. *)
LEMMA StepCopy == CopyInv /\ [Next]_vars => CopyInv'
<1> SUFFICES ASSUME CopyInv, [Next]_vars PROVE MutexHeld' /\ CountsHold'
  BY StepDevice DEF CopyInv
<1>1. DeviceInv /\ MutexHeld /\ CountsHold
  BY DEF CopyInv
<1>2. CASE UNCHANGED << f_version, pc, file, want, sem, pipe >>
  BY <1>1, <1>2 DEF MutexHeld, CountsHold, Pipe
<1>3. CASE SampleReady \/ libera_sa_handler \/ TaskletStart \/ TaskletTest
  <2>1. UNCHANGED << f_version, pc, file, want, sem, pipe >>
    BY <1>3 DEF SampleReady, libera_sa_handler, TaskletStart, TaskletTest, pipesVars, readVars
  <2>2. QED BY <1>2, <2>1
<1>4. CASE TaskletDispatch
  BY <1>4, DispatchKeepsCopy
<1>5. ASSUME NEW t \in Threads, libera_sa_read(t) PROVE MutexHeld' /\ CountsHold'
  BY <1>1, <1>5, ReadKeepsMutex, ReadKeepsCounts
<1>6. ASSUME NEW t \in Threads, Signal(t) PROVE MutexHeld' /\ CountsHold'
  <2>1. UNCHANGED << f_version, pc, file, want, sem, pipe >>
    BY <1>6 DEF Signal, pipesVars
  <2>2. QED BY <1>2, <2>1
<1>7. ASSUME NEW f \in Files, Open(f) \/ OpenRefused(f) \/ Release(f)
      PROVE  MutexHeld' /\ CountsHold'
  <2>1. /\ UNCHANGED << pc, file, want >>
        /\ \A t \in Threads : pc[t] # "user" =>
             /\ f_version'[file[t]] = f_version[file[t]]
             /\ pipe'[f_version[file[t]]] = pipe[f_version[file[t]]]
             /\ sem'[f_version[file[t]]] = sem[f_version[file[t]]]
    BY <1>1, <1>7, FileLeavesReaders
  <2>2. MutexHeld'
    BY <1>1, <2>1 DEF MutexHeld, Holding
  <2>3. CountsHold'
    BY <1>1, <2>1 DEF CountsHold, Pipe
  <2>4. QED BY <2>2, <2>3
<1>8. CASE UNCHANGED vars
  <2>1. UNCHANGED << f_version, pc, file, want, sem, pipe >>
    BY <1>8 DEF vars, pipesVars, readVars
  <2>2. QED BY <1>2, <2>1
<1>9. QED
  BY <1>3, <1>4, <1>5, <1>6, <1>7, <1>8 DEF Next, Interrupts

(* The inductive invariant of the copy loop: the mutex of a pipe is held by   *)
(* the one thread that is between its lock and its unlock.                    *)
THEOREM CopyInvariant == Spec => []CopyInv
<1>1. Init => CopyInv
  <2>1. Init => MutexHeld /\ CountsHold
    BY DEF Init, MutexHeld, CountsHold, Holding
  <2>2. QED BY <2>1, InitDevice DEF CopyInv
<1>2. QED BY <1>1, StepCopy, PTL DEF Spec

(* The atoms that read() counts before its copy loop are there until the loop *)
(* has taken them, though the loop sleeps in copy_to_user, the tasklet writes *)
(* the pipe and other threads read the same file.                             *)
THEOREM CountedAlwaysPresent == Spec => []CountedAtomsPresent
<1>1. CopyInv => CountedAtomsPresent
  BY DEF CopyInv, DeviceInv, CountsHold, CountedAtomsPresent
<1>2. QED BY <1>1, CopyInvariant, PTL

-----------------------------------------------------------------------------
(* The stream *)

(* Where position i of a ring of n slots is.  (A definition, so that the     *)
(* remainder can be left unexpanded.)                                         *)
Slot(i, n) == i % n

(* A remainder of what is less than two rounds. *)
LEMMA RoundMod ==
    ASSUME NEW n \in Nat \ {0}, NEW a \in 0 .. 2 * n - 1
    PROVE  /\ Slot(a, n) = IF a < n THEN a ELSE a - n
           /\ Slot(a, n) \in 0 .. n - 1
<1>1. ASSUME a < n PROVE a % n = a
  BY <1>1, SmallMod
<1>2. ASSUME ~(a < n) PROVE a % n = a - n
  <2>1. a - n \in 0 .. n - 1 /\ a = (a - n) + n
    BY <1>2
  <2>2. ((a - n) + n) % n = a - n
    BY <2>1, SmallMod
  <2>3. QED BY <2>1, <2>2
<1>3. QED BY <1>1, <1>2 DEF Slot

(* What a ring of n slots holds from the slot first on, k of them. *)
Window(data, n, first, k) == [i \in 1 .. k |-> data[Slot(first + i - 1, n)]]

(* The sequence w lists those k cells. *)
Lists(w, S, data, n, first, k) ==
    /\ w \in Seq(S) /\ Len(w) = k
    /\ \A i \in 1 .. k : /\ Slot(first + i - 1, n) \in 0 .. n - 1
                         /\ w[i] = data[Slot(first + i - 1, n)]

(* A window of a ring lists its cells.                                        *)
LEMMA WindowSeq ==
    ASSUME NEW S, NEW n \in Nat \ {0}, NEW data \in [0 .. n - 1 -> S],
           NEW first \in 0 .. n, NEW k \in 0 .. n - 1
    PROVE  Lists(Window(data, n, first, k), S, data, n, first, k)
<1>1. \A i \in 1 .. k : Slot(first + i - 1, n) \in 0 .. n - 1
  <2>1. ASSUME NEW i \in 1 .. k PROVE Slot(first + i - 1, n) \in 0 .. n - 1
    <3>1. first + i - 1 \in 0 .. 2 * n - 1
      OBVIOUS
    <3>2. QED BY <3>1, RoundMod
  <2>2. QED BY <2>1
<1> DEFINE w == Window(data, n, first, k)
<1>2. w \in [1 .. k -> S] /\ \A i \in 1 .. k : w[i] = data[Slot(first + i - 1, n)]
  BY <1>1 DEF Window
<1> HIDE DEF w
<1>3. w \in Seq(S)
  BY <1>2, SeqDef
<1>4. Len(w) = k
  <2>1. Len(w) \in Nat /\ DOMAIN w = 1 .. Len(w)
    BY <1>3, LenProperties
  <2>2. DOMAIN w = 1 .. k
    BY <1>2
  <2>3. ASSUME NEW m \in Nat, 1 .. m = 1 .. k PROVE m = k
    <3>1. k \in Nat
      OBVIOUS
    <3>2. \A j \in Int : j \in 1 .. m <=> j \in 1 .. k
      BY <2>3
    <3>3. QED BY <3>1, <3>2
  <2>4. QED BY <2>1, <2>2, <2>3
<1>5. QED BY <1>1, <1>2, <1>3, <1>4 DEF w, Lists

(* The ring data becomes more when a is stored behind the k cells it holds. *)
StoresBehind(more, a, at, S, data, n, first, k) ==
    /\ n \in Nat \ {0} /\ data \in [0 .. n - 1 -> S] /\ first \in 0 .. n
    /\ k \in 0 .. n - 2 /\ a \in S /\ at \in 0 .. n - 1 /\ at = Slot(first + k, n)
    /\ more = [data EXCEPT ![at] = a]

(* It appends. *)
LEMMA WindowAppend ==
    ASSUME NEW S, NEW n, NEW data, NEW first, NEW k, NEW a, NEW at, NEW more,
           StoresBehind(more, a, at, S, data, n, first, k)
    PROVE  Window(more, n, first, k + 1) = Append(Window(data, n, first, k), a)
<1>0. /\ n \in Nat \ {0} /\ data \in [0 .. n - 1 -> S] /\ first \in 0 .. n
      /\ k \in 0 .. n - 2 /\ a \in S /\ at \in 0 .. n - 1 /\ at = Slot(first + k, n)
      /\ more = [data EXCEPT ![at] = a]
  BY DEF StoresBehind
<1> USE <1>0
<1> DEFINE w == Window(data, n, first, k)
           v == Window(more, n, first, k + 1)
<1>1. /\ more \in [0 .. n - 1 -> S] /\ more[at] = a
      /\ \A j \in 0 .. n - 1 : j # at => more[j] = data[j]
  OBVIOUS
<1>2. /\ w \in Seq(S) /\ Len(w) = k
      /\ \A i \in 1 .. k : /\ Slot(first + i - 1, n) \in 0 .. n - 1
                           /\ w[i] = data[Slot(first + i - 1, n)]
  <2>1. k \in 0 .. n - 1
    OBVIOUS
  <2>2. Lists(w, S, data, n, first, k)
    BY <2>1, WindowSeq
  <2> HIDE DEF w
  <2>3. QED BY <2>2 DEF Lists
<1>3. /\ v \in Seq(S) /\ Len(v) = k + 1
      /\ \A i \in 1 .. k + 1 : v[i] = more[Slot(first + i - 1, n)]
  <2>1. k + 1 \in 0 .. n - 1
    OBVIOUS
  <2>2. Lists(v, S, more, n, first, k + 1)
    BY <1>1, <2>1, WindowSeq
  <2> HIDE DEF v
  <2>3. QED BY <2>2 DEF Lists
<1> HIDE DEF w, v
<1>4. /\ Append(w, a) \in Seq(S) /\ Len(Append(w, a)) = k + 1
      /\ \A i \in 1 .. k : Append(w, a)[i] = w[i]
      /\ Append(w, a)[k + 1] = a
  BY <1>2, AppendProperties
<1>5. ASSUME NEW i \in 1 .. k + 1 PROVE v[i] = Append(w, a)[i]
  <2>1. CASE i = k + 1
    <3>1. first + i - 1 = first + k
      BY <2>1
    <3>2. QED BY <1>1, <1>3, <1>4, <2>1, <3>1
  <2>2. CASE i # k + 1
    <3>1. i \in 1 .. k
      BY <2>2
    <3>2. Slot(first + i - 1, n) # at
      <4>1. first + i - 1 \in 0 .. 2 * n - 1 /\ first + k \in 0 .. 2 * n - 1
        BY <3>1
      <4>2. /\ Slot(first + i - 1, n) = IF first + i - 1 < n THEN first + i - 1 ELSE first + i - 1 - n
            /\ Slot(first + k, n) = IF first + k < n THEN first + k ELSE first + k - n
        BY <4>1, RoundMod
      <4>3. QED BY <3>1, <4>2
    <3>3. QED BY <1>1, <1>2, <1>3, <1>4, <3>1, <3>2
  <2>3. QED BY <2>1, <2>2
<1>6. v = Append(w, a)
  BY <1>3, <1>4, <1>5, SeqEqual
<1>7. QED BY <1>6 DEF v, w

(* Going on from the first of the k cells to the second. *)
GoesOn(second, S, data, n, first, k) ==
    /\ n \in Nat \ {0} /\ data \in [0 .. n - 1 -> S] /\ first \in 0 .. n
    /\ k \in 1 .. n - 1 /\ second \in 0 .. n /\ Slot(second, n) = Slot(first + 1, n)

(* It leaves the tail. *)
LEMMA WindowTail ==
    ASSUME NEW S, NEW n, NEW data, NEW first, NEW k, NEW second,
           GoesOn(second, S, data, n, first, k)
    PROVE  /\ Window(data, n, first, k) # << >>
           /\ Head(Window(data, n, first, k)) = data[Slot(first, n)]
           /\ Window(data, n, second, k - 1) = Tail(Window(data, n, first, k))
<1>0. /\ n \in Nat \ {0} /\ data \in [0 .. n - 1 -> S] /\ first \in 0 .. n
      /\ k \in 1 .. n - 1 /\ second \in 0 .. n /\ Slot(second, n) = Slot(first + 1, n)
  BY DEF GoesOn
<1> USE <1>0
<1> DEFINE w == Window(data, n, first, k)
           v == Window(data, n, second, k - 1)
<1>1. /\ w \in Seq(S) /\ Len(w) = k /\ \A i \in 1 .. k : w[i] = data[Slot(first + i - 1, n)]
  <2>1. k \in 0 .. n - 1
    OBVIOUS
  <2>2. Lists(w, S, data, n, first, k)
    BY <2>1, WindowSeq
  <2> HIDE DEF w
  <2>3. QED BY <2>2 DEF Lists
<1>2. /\ v \in Seq(S) /\ Len(v) = k - 1
      /\ \A i \in 1 .. k - 1 : v[i] = data[Slot(second + i - 1, n)]
  <2>1. k - 1 \in 0 .. n - 1
    OBVIOUS
  <2>2. Lists(v, S, data, n, second, k - 1)
    BY <2>1, WindowSeq
  <2> HIDE DEF v
  <2>3. QED BY <2>2 DEF Lists
<1> HIDE DEF w, v
<1>3. w # << >>
  BY <1>1, EmptySeq
<1>4. Head(w) = data[Slot(first, n)]
  <2>1. Head(w) = w[1] /\ 1 \in 1 .. k /\ first + 1 - 1 = first
    BY <1>1, <1>3
  <2>2. QED BY <1>1, <2>1
<1>5. /\ Tail(w) \in Seq(S) /\ Len(Tail(w)) = k - 1
      /\ \A i \in 1 .. k - 1 : Tail(w)[i] = w[i + 1]
  BY <1>1, <1>3, HeadTailProperties
<1>6. ASSUME NEW i \in 1 .. k - 1 PROVE v[i] = Tail(w)[i]
  <2>1. Slot(second + i - 1, n) = Slot(first + (i + 1) - 1, n)
    <3>1. ASSUME NEW a \in 0 .. 2 * n - 1
          PROVE  Slot(a, n) = IF a < n THEN a ELSE a - n
      BY RoundMod
    <3> DEFINE p == second
               q == first + 1
               r == second + i - 1
               s == first + (i + 1) - 1
    <3>2. /\ p \in 0 .. 2 * n - 1 /\ q \in 0 .. 2 * n - 1
          /\ r \in 0 .. 2 * n - 1 /\ s \in 0 .. 2 * n - 1
      OBVIOUS
    <3>3. Slot(p, n) = IF p < n THEN p ELSE p - n
      BY <3>1, <3>2
    <3>4. Slot(q, n) = IF q < n THEN q ELSE q - n
      BY <3>1, <3>2
    <3>5. Slot(r, n) = IF r < n THEN r ELSE r - n
      BY <3>1, <3>2
    <3>6. Slot(s, n) = IF s < n THEN s ELSE s - n
      BY <3>1, <3>2
    <3>7. r = s \/ r = s + n \/ s = r + n
      BY <3>3, <3>4
    <3>8. QED BY <3>5, <3>6, <3>7
  <2>2. i + 1 \in 1 .. k
    OBVIOUS
  <2>3. QED BY <1>1, <1>2, <1>5, <2>1, <2>2
<1>7. v = Tail(w)
  BY <1>2, <1>5, <1>6, SeqEqual
<1>8. QED BY <1>3, <1>4, <1>7 DEF v, w

(* What a pipe holds, as a window of its ring. *)
LEMMA FifoWindow ==
    ASSUME NEW q \in Rings
    PROVE  /\ FifoContent(q) = Window(q.data, SA_LOG, q.get + 1, len_saFIFO(q))
           /\ q.data \in [0 .. SA_LOG - 1 -> Atoms \cup {NoAtom}]
           /\ q.get + 1 \in 0 .. SA_LOG /\ len_saFIFO(q) \in 0 .. SA_LOG - 1
           /\ SA_LOG \in Nat \ {0}
           /\ FifoContent(q) \in Seq(Atoms \cup {NoAtom})
           /\ Len(FifoContent(q)) = len_saFIFO(q)
<1>1. /\ q.data \in [0 .. SA_LOG - 1 -> Atoms \cup {NoAtom}]
      /\ q.get \in 0 .. SA_LOG - 1 /\ SA_LOG \in Nat \ {0}
      /\ len_saFIFO(q) \in 0 .. SA_LOG - 1
  BY RingOperations, RingAssumption DEF Rings
<1>2. q.get + 1 \in 0 .. SA_LOG
  BY <1>1
<1> DEFINE k == len_saFIFO(q)
<1> HIDE DEF k
<1>3. \A i \in 1 .. k : q.get + i = (q.get + 1) + i - 1
  BY <1>1
<1>4. FifoContent(q) = Window(q.data, SA_LOG, q.get + 1, k)
  BY <1>3 DEF FifoContent, Window, Slot, k
<1>5. Lists(FifoContent(q), Atoms \cup {NoAtom}, q.data, SA_LOG, q.get + 1, k)
  BY <1>1, <1>2, <1>4, WindowSeq DEF k
<1>6. QED BY <1>1, <1>2, <1>4, <1>5 DEF Lists, k

(* The slots of a pipe's ring. *)
LEMMA PipeSlot ==
    ASSUME NEW a \in Int, 0 <= a, a < 2 * SA_LOG
    PROVE  Slot(a, SA_LOG) = IF a < SA_LOG THEN a ELSE a - SA_LOG
<1>1. SA_LOG \in Nat \ {0}
  BY RingAssumption
<1>2. a \in 0 .. 2 * SA_LOG - 1
  BY <1>1
<1>3. QED BY <1>1, <1>2, RoundMod

(* The tasklet's write, as the plain stream sees it; and it does not touch    *)
(* the slot that a reader copies from.                                        *)
LEMMA FifoWrite ==
    ASSUME NEW q \in Rings, NEW a \in Atoms \cup {NoAtom}
    PROVE  /\ FifoContent(libera_pipe_write(q, a)) =
                IF Len(FifoContent(q)) < SA_LOG - 1
                THEN Append(FifoContent(q), a) ELSE FifoContent(q)
           /\ libera_pipe_write(q, a).get = q.get
           /\ libera_pipe_write(q, a).data[q.get] = q.data[q.get]
<1> DEFINE w == libera_pipe_write(q, a)
           k == len_saFIFO(q)
           at == (q.put + 1) % SA_LOG
<1>1. /\ q.data \in [0 .. SA_LOG - 1 -> Atoms \cup {NoAtom}]
      /\ q.get \in 0 .. SA_LOG - 1 /\ q.put \in 0 .. SA_LOG - 1
      /\ SA_LOG \in Nat \ {0} /\ k \in 0 .. SA_LOG - 1 /\ w \in Rings
      /\ Len(FifoContent(q)) = k
  BY FifoWindow, RingOperations DEF Rings
<1>2. CASE k = SA_LOG - 1
  <2>1. w = q
    BY <1>2, WriteAppends
  <2>2. QED BY <1>1, <1>2, <2>1
<1>3. CASE k # SA_LOG - 1
  <2>0. len_saFIFO(q) < SA_LOG - 1
    <3> HIDE DEF k
    <3>1. k < SA_LOG - 1
      BY <1>1, <1>3
    <3>2. QED BY <3>1 DEF k
  <2>1. /\ w = [q EXCEPT !.data[at] = a, !.put = at] /\ len_saFIFO(w) = k + 1
    BY <2>0, WriteAppends
  <2>2. at = IF q.put = SA_LOG - 1 THEN 0 ELSE q.put + 1
    BY <1>1, SmallMod
  <2>3. k = IF q.put >= q.get THEN q.put - q.get ELSE q.put + SA_LOG - q.get
    BY LenPlain
  <2> HIDE DEF k, at
  <2>4. at \in 0 .. SA_LOG - 1 /\ at # q.get
    BY <1>1, <1>3, <2>2, <2>3
  <2>5. w.get = q.get /\ w.data = [q.data EXCEPT ![at] = a]
    BY <2>1 DEF Rings
  <2> HIDE DEF w
  <2>6. at = Slot(q.get + 1 + k, SA_LOG)
    <3> DEFINE b == q.get + 1 + k
    <3>1. b \in Int /\ 0 <= b /\ b < 2 * SA_LOG
      BY <1>1
    <3>2. at = IF b < SA_LOG THEN b ELSE b - SA_LOG
      <4>1. CASE q.put >= q.get
        <5>1. b = q.put + 1
          BY <1>1, <2>3, <4>1
        <5>2. QED BY <1>1, <2>2, <5>1
      <4>2. CASE ~(q.put >= q.get)
        <5>1. b = q.put + 1 + SA_LOG /\ q.put + 1 < SA_LOG
          BY <1>1, <2>3, <4>2
        <5>2. QED BY <1>1, <2>2, <5>1
      <4>3. QED BY <4>1, <4>2
    <3> HIDE DEF b
    <3>3. Slot(b, SA_LOG) = IF b < SA_LOG THEN b ELSE b - SA_LOG
      BY <3>1, PipeSlot
    <3>4. at = Slot(b, SA_LOG)
      BY <3>2, <3>3
    <3>5. QED BY <3>4 DEF b
  <2>7. /\ FifoContent(w) = Window(w.data, SA_LOG, w.get + 1, k + 1)
        /\ FifoContent(q) = Window(q.data, SA_LOG, q.get + 1, k)
    BY <1>1, <2>1, FifoWindow DEF k
  <2>8. Window([q.data EXCEPT ![at] = a], SA_LOG, q.get + 1, k + 1) =
          Append(Window(q.data, SA_LOG, q.get + 1, k), a)
    <3> DEFINE g == q.get + 1
               d == q.data
               S == Atoms \cup {NoAtom}
    <3>1. /\ k \in 0 .. SA_LOG - 2 /\ g \in 0 .. SA_LOG /\ at = Slot(g + k, SA_LOG)
          /\ d \in [0 .. SA_LOG - 1 -> S] /\ a \in S /\ at \in 0 .. SA_LOG - 1
          /\ SA_LOG \in Nat \ {0}
      BY <1>1, <1>3, <2>4, <2>6
    <3> DEFINE e == [d EXCEPT ![at] = a]
    <3>2. StoresBehind(e, a, at, S, d, SA_LOG, g, k)
      BY <3>1 DEF StoresBehind
    <3> HIDE DEF g, d, S, e
    <3>3. Window(e, SA_LOG, g, k + 1) = Append(Window(d, SA_LOG, g, k), a)
      BY <3>2, WindowAppend
    <3>4. QED BY <3>3 DEF g, d, e
  <2>9. w.data[q.get] = q.data[q.get]
    BY <1>1, <2>4, <2>5
  <2>10. FifoContent(w) = Append(FifoContent(q), a)
    BY <2>5, <2>7, <2>8
  <2>11. Len(FifoContent(q)) < SA_LOG - 1
    BY <1>1, <1>3 DEF k
  <2>12. QED BY <2>5, <2>9, <2>10, <2>11 DEF w
<1>4. QED BY <1>2, <1>3

(* What read() takes, as the plain stream sees it. *)
LEMMA FifoTake ==
    ASSUME NEW q \in Rings, q.put # q.get
    PROVE  /\ FifoContent(q) # << >>
           /\ Head(FifoContent(q)) = getFrom_saFIFO(q).data[getFrom_saFIFO(q).get]
           /\ FifoContent(getFrom_saFIFO(q)) = Tail(FifoContent(q))
<1> DEFINE w == getFrom_saFIFO(q)
           k == len_saFIFO(q)
<1>1. /\ q.data \in [0 .. SA_LOG - 1 -> Atoms \cup {NoAtom}]
      /\ q.get \in 0 .. SA_LOG - 1 /\ SA_LOG \in Nat \ {0}
      /\ k \in 0 .. SA_LOG - 1 /\ w \in Rings
  BY FifoWindow, RingOperations DEF Rings
<1>2. /\ k > 0 /\ len_saFIFO(w) = k - 1
      /\ w.get = (q.get + 1) % SA_LOG /\ w.data = q.data
  BY TakeShortens
<1>3. /\ FifoContent(w) = Window(w.data, SA_LOG, w.get + 1, k - 1)
      /\ FifoContent(q) = Window(q.data, SA_LOG, q.get + 1, k)
  BY <1>1, <1>2, FifoWindow
<1> HIDE DEF w, k
<1>4. w.get = IF q.get + 1 < SA_LOG THEN q.get + 1 ELSE q.get + 1 - SA_LOG
  <2> DEFINE g == q.get + 1
  <2>1. g \in Int /\ 0 <= g /\ g < 2 * SA_LOG
    BY <1>1
  <2>2. w.get = Slot(g, SA_LOG)
    BY <1>2 DEF Slot
  <2> HIDE DEF g
  <2>3. w.get = IF g < SA_LOG THEN g ELSE g - SA_LOG
    BY <2>1, <2>2, PipeSlot
  <2>4. QED BY <1>1, <2>3 DEF g
<1> DEFINE x == w.get + 1
           y == (q.get + 1) + 1
<1>5. Slot(x, SA_LOG) = Slot(y, SA_LOG)
  <2>1. /\ x \in Int /\ 0 <= x /\ x < 2 * SA_LOG
        /\ y \in Int /\ 0 <= y /\ y < 2 * SA_LOG
        /\ SA_LOG > 1
    BY <1>1, <1>4, RingAssumption
  <2>2. x = y \/ x = y - SA_LOG
    BY <1>1, <1>4
  <2> HIDE DEF x, y
  <2>3. Slot(x, SA_LOG) = IF x < SA_LOG THEN x ELSE x - SA_LOG
    BY <2>1, PipeSlot
  <2>4. Slot(y, SA_LOG) = IF y < SA_LOG THEN y ELSE y - SA_LOG
    BY <2>1, PipeSlot
  <2>5. QED BY <2>1, <2>2, <2>3, <2>4, <1>1
<1> DEFINE g == q.get + 1
           h == w.get + 1
<1>6. k \in 1 .. SA_LOG - 1 /\ g \in 0 .. SA_LOG /\ h \in 0 .. SA_LOG
  BY <1>1, <1>2, <1>4
<1>7. Slot(g, SA_LOG) = w.get
  BY <1>2 DEF Slot
<1>8. /\ Window(q.data, SA_LOG, g, k) # << >>
      /\ Head(Window(q.data, SA_LOG, g, k)) = q.data[Slot(g, SA_LOG)]
      /\ Window(q.data, SA_LOG, h, k - 1) = Tail(Window(q.data, SA_LOG, g, k))
  <2>1. Slot(h, SA_LOG) = Slot(g + 1, SA_LOG)
    BY <1>5
  <2>2. GoesOn(h, Atoms \cup {NoAtom}, q.data, SA_LOG, g, k)
    BY <1>1, <1>6, <2>1 DEF GoesOn
  <2> HIDE DEF g, h
  <2>3. QED BY <2>2, WindowTail
<1>9. QED BY <1>2, <1>3, <1>7, <1>8 DEF w

(* A pipe that has just been prepared holds nothing. *)
LEMMA FifoEmpty == EmptyFIFO \in Rings /\ FifoContent(EmptyFIFO) = << >>
<1>1. EmptyFIFO \in Rings /\ EmptyFIFO.put = 0 /\ EmptyFIFO.get = 0
  BY RingAssumption DEF EmptyFIFO, Rings
<1>2. len_saFIFO(EmptyFIFO) = 0
  BY <1>1, LenPlain
<1>3. FifoContent(EmptyFIFO) \in Seq(Atoms \cup {NoAtom}) /\ Len(FifoContent(EmptyFIFO)) = 0
  BY <1>1, <1>2, FifoWindow
<1>4. QED BY <1>1, <1>3, EmptySeq

(* The ring between TH and BH, likewise. *)
Distance(h, t) == (h + SA_FIFO_DEPTH - t) % SA_FIFO_DEPTH

RingOf(b, h, t) == Window(b, SA_FIFO_DEPTH, t, Distance(h, t))

RingSlots == 0 .. SA_FIFO_DEPTH - 1

(* How many atoms there are between tail and head, without the remainder.     *)
LEMMA DistancePlain ==
    ASSUME NEW h \in RingSlots, NEW t \in RingSlots
    PROVE  /\ Distance(h, t) = IF h >= t THEN h - t ELSE h + SA_FIFO_DEPTH - t
           /\ Distance(h, t) \in RingSlots
           /\ SA_FIFO_DEPTH \in Nat \ {0, 1}
           /\ \A a \in 0 .. 2 * SA_FIFO_DEPTH - 1 :
                Slot(a, SA_FIFO_DEPTH) = IF a < SA_FIFO_DEPTH THEN a ELSE a - SA_FIFO_DEPTH
<1> USE RingAssumption DEF RingSlots
<1>1. \A a \in 0 .. 2 * SA_FIFO_DEPTH - 1 :
        Slot(a, SA_FIFO_DEPTH) = IF a < SA_FIFO_DEPTH THEN a ELSE a - SA_FIFO_DEPTH
  <2>1. ASSUME NEW a \in 0 .. 2 * SA_FIFO_DEPTH - 1
        PROVE  Slot(a, SA_FIFO_DEPTH) = IF a < SA_FIFO_DEPTH THEN a ELSE a - SA_FIFO_DEPTH
    BY RoundMod
  <2>2. QED BY <2>1
<1> DEFINE a == h + SA_FIFO_DEPTH - t
<1>2. a \in 0 .. 2 * SA_FIFO_DEPTH - 1
  OBVIOUS
<1>3. Distance(h, t) = Slot(a, SA_FIFO_DEPTH)
  BY DEF Distance, Slot
<1> HIDE DEF a
<1>4. Distance(h, t) = IF a < SA_FIFO_DEPTH THEN a ELSE a - SA_FIFO_DEPTH
  BY <1>1, <1>2, <1>3
<1>5. QED BY <1>1, <1>4 DEF a

(* The ring is a sequence of that many atoms.                                 *)
LEMMA RingWindow ==
    ASSUME NEW b \in [RingSlots -> Atoms \cup {NoAtom}], NEW h \in RingSlots, NEW t \in RingSlots
    PROVE  /\ RingOf(b, h, t) \in Seq(Atoms \cup {NoAtom})
           /\ Len(RingOf(b, h, t)) = Distance(h, t)
<1>1. /\ b \in [0 .. SA_FIFO_DEPTH - 1 -> Atoms \cup {NoAtom}] /\ t \in 0 .. SA_FIFO_DEPTH
      /\ SA_FIFO_DEPTH \in Nat \ {0} /\ Distance(h, t) \in 0 .. SA_FIFO_DEPTH - 1
  <2>1. Distance(h, t) \in RingSlots
    BY DistancePlain
  <2>2. QED BY <2>1, RingAssumption DEF RingSlots
<1>2. Lists(RingOf(b, h, t), Atoms \cup {NoAtom}, b, SA_FIFO_DEPTH, t, Distance(h, t))
  BY <1>1, WindowSeq DEF RingOf
<1>3. QED BY <1>2 DEF Lists

StoresAt(more, b, h, a) == more = [b EXCEPT ![h] = a]

(* The interrupt appends to it... *)
LEMMA RingStore ==
    ASSUME NEW b \in [RingSlots -> Atoms \cup {NoAtom}], NEW h \in RingSlots, NEW t \in RingSlots,
           NEW a \in Atoms \cup {NoAtom}, NEW g, g = libera_sa_incr_atom(h), g # t,
           NEW more, StoresAt(more, b, h, a)
    PROVE  RingOf(more, g, t) = Append(RingOf(b, h, t), a)
<1> DEFINE n == SA_FIFO_DEPTH
           k == Distance(h, t)
           S == Atoms \cup {NoAtom}
<1>1. n \in Nat \ {0, 1} /\ h \in 0 .. n - 1 /\ t \in 0 .. n - 1 /\ b \in [0 .. n - 1 -> S] /\ a \in S
  BY RingAssumption DEF RingSlots
<1>2. g = IF h = n - 1 THEN 0 ELSE h + 1
  BY <1>1, SmallMod DEF libera_sa_incr_atom
<1>3. g \in RingSlots
  BY <1>1, <1>2 DEF RingSlots
<1>4. k = IF h >= t THEN h - t ELSE h + n - t
  BY DistancePlain
<1>5. Distance(g, t) = IF g >= t THEN g - t ELSE g + n - t
  BY <1>3, DistancePlain
<1> HIDE DEF n, k
<1>6. k \in 0 .. n - 2 /\ Distance(g, t) = k + 1
  <2>1. CASE h = n - 1
    BY <1>1, <1>2, <1>4, <1>5, <2>1
  <2>2. CASE h # n - 1
    <3>1. g = h + 1
      BY <1>2, <2>2
    <3>2. CASE h >= t
      BY <1>1, <1>4, <1>5, <2>2, <3>1, <3>2
    <3>3. CASE ~(h >= t)
      <4>1. h < t /\ h + 1 # t
        BY <1>1, <3>1, <3>3
      <4>2. k = h + n - t
        BY <1>4, <3>3
      <4>3. ~(g >= t)
        BY <1>1, <3>1, <4>1
      <4>4. QED BY <1>1, <1>5, <3>1, <4>1, <4>2, <4>3
    <3>4. QED BY <3>2, <3>3
  <2>3. QED BY <2>1, <2>2
<1>7. h = Slot(t + k, n)
  <2> DEFINE x == t + k
  <2>1. x \in 0 .. 2 * n - 1 /\ h = IF x < n THEN x ELSE x - n
    BY <1>1, <1>4, <1>6
  <2> HIDE DEF x
  <2>2. Slot(x, n) = IF x < n THEN x ELSE x - n
    BY <2>1, DistancePlain DEF n
  <2>3. h = Slot(x, n)
    BY <2>1, <2>2
  <2>4. QED BY <2>3 DEF x
<1>8. StoresBehind(more, a, h, S, b, n, t, k)
  BY <1>1, <1>6, <1>7 DEF StoresBehind, StoresAt
<1> HIDE DEF S
<1>9. Window(more, n, t, k + 1) = Append(Window(b, n, t, k), a)
  BY <1>8, WindowAppend
<1>10. QED BY <1>6, <1>9 DEF RingOf, n, k

(* ... and the tasklet takes its first. *)
LEMMA RingAdvance ==
    ASSUME NEW b \in [RingSlots -> Atoms \cup {NoAtom}], NEW h \in RingSlots, NEW t \in RingSlots,
           h # t, NEW g, g = libera_sa_incr_atom(t)
    PROVE  /\ RingOf(b, h, t) # << >>
           /\ Head(RingOf(b, h, t)) = b[t]
           /\ RingOf(b, h, g) = Tail(RingOf(b, h, t))
<1> DEFINE n == SA_FIFO_DEPTH
           k == Distance(h, t)
           S == Atoms \cup {NoAtom}
<1>1. n \in Nat \ {0, 1} /\ h \in 0 .. n - 1 /\ t \in 0 .. n - 1 /\ b \in [0 .. n - 1 -> S]
  BY RingAssumption DEF RingSlots
<1>2. g = IF t = n - 1 THEN 0 ELSE t + 1
  BY <1>1, SmallMod DEF libera_sa_incr_atom
<1>3. g \in RingSlots
  BY <1>1, <1>2 DEF RingSlots
<1>4. k = IF h >= t THEN h - t ELSE h + n - t
  BY DistancePlain
<1>5. Distance(h, g) = IF h >= g THEN h - g ELSE h + n - g
  BY <1>3, DistancePlain
<1>6. \A a \in 0 .. 2 * n - 1 : Slot(a, n) = IF a < n THEN a ELSE a - n
  BY DistancePlain
<1> HIDE DEF n, k
<1>7. k \in 1 .. n - 1 /\ Distance(h, g) = k - 1
  <2>1. CASE t = n - 1
    BY <1>1, <1>2, <1>4, <1>5, <2>1
  <2>2. CASE t # n - 1
    <3>1. g = t + 1
      BY <1>2, <2>2
    <3>2. CASE h >= t
      BY <1>1, <1>4, <1>5, <2>2, <3>1, <3>2
    <3>3. CASE ~(h >= t)
      BY <1>1, <1>4, <1>5, <2>2, <3>1, <3>3
    <3>4. QED BY <3>2, <3>3
  <2>3. QED BY <2>1, <2>2
<1>8. Slot(t, n) = t /\ Slot(g, n) = Slot(t + 1, n) /\ g \in 0 .. n
  <2>1. t \in 0 .. 2 * n - 1 /\ g \in 0 .. n - 1 /\ g \in 0 .. 2 * n - 1
    BY <1>1, <1>2
  <2>2. Slot(t, n) = t /\ Slot(g, n) = g
    BY <1>1, <1>6, <2>1
  <2> DEFINE x == t + 1
  <2>3. x \in 0 .. 2 * n - 1 /\ g = IF x < n THEN x ELSE x - n
    BY <1>1, <1>2
  <2> HIDE DEF x
  <2>4. Slot(x, n) = g
    BY <1>6, <2>3
  <2>5. g \in 0 .. n
    BY <1>1, <2>1
  <2>6. QED BY <2>2, <2>4, <2>5 DEF x
<1>9. GoesOn(g, S, b, n, t, k)
  <2>1. t \in 0 .. n
    BY <1>1
  <2>2. QED BY <1>1, <1>7, <1>8, <2>1 DEF GoesOn
<1> HIDE DEF S
<1>10. /\ Window(b, n, t, k) # << >>
       /\ Head(Window(b, n, t, k)) = b[Slot(t, n)]
       /\ Window(b, n, g, k - 1) = Tail(Window(b, n, t, k))
  BY <1>9, WindowTail
<1>11. QED BY <1>7, <1>8, <1>10 DEF RingOf, n, k

(* What the refinement needs of the device: atoms, and nothing else, are in   *)
(* the rings and in the hands of the readers.                                 *)
HandsHold == \A f \in Files : Copying(f) => InHand[f] \in Atoms

StreamInv ==
    /\ CopyInv
    /\ RingContent \in Seq(Atoms)
    /\ Held \in [Files -> Seq(Atoms)]
    /\ HandsHold

(* The ring between TH and BH is a window of buf, before a step and after it. *)
LEMMA RingContentIs ==
    /\ RingContent = RingOf(buf, buf_head, buf_tail)
    /\ RingContent' = RingOf(buf', buf_head', buf_tail')
<1>1. RingContent = RingOf(buf, buf_head, buf_tail)
  BY DEF RingContent, RingOf, Window, Slot, Distance
<1>2. RingContent' = RingOf(buf', buf_head', buf_tail')
  BY DEF RingContent, RingOf, Window, Slot, Distance
<1>3. QED BY <1>1, <1>2

(* The files' part of the stream where no pipe moves. *)
LEMMA HeldFrame ==
    ASSUME UNCHANGED << opened, f_version, pipe >>
    PROVE  Held' = Held
  BY DEF Held, Pipe

(* Nor do the atoms in the readers' hands.                                    *)
LEMMA HandFrame ==
    ASSUME UNCHANGED << f_version, pipe >>, \A f \in Files : Copying(f)' <=> Copying(f)
    PROVE  InHand' = InHand
<1>1. \A f \in Files : Pipe(f)' = Pipe(f)
  BY DEF Pipe
<1>2. QED BY <1>1 DEF InHand

(* A step that leaves all of this alone is none of the stream's.              *)
LEMMA StreamFrame ==
    ASSUME HandsHold,
           UNCHANGED << buf, buf_head, buf_tail, opened, f_version, pipe, delivered >>,
           \A f \in Files : Copying(f)' <=> Copying(f)
    PROVE  UNCHANGED Stream!streamVars /\ HandsHold'
<1>1. RingContent' = RingContent
  BY RingContentIs
<1>2. Held' = Held
  BY HeldFrame
<1>3. InHand' = InHand
  BY HandFrame
<1>4. HandsHold'
  BY <1>3 DEF HandsHold
<1>5. QED BY <1>1, <1>2, <1>3, <1>4 DEF Stream!streamVars

(* The types that the lemmas about the rings ask for. *)
LEMMA StreamTypes ==
    ASSUME StreamInv
    PROVE  /\ buf \in [RingSlots -> Atoms \cup {NoAtom}]
           /\ buf_head \in RingSlots /\ buf_tail \in RingSlots
           /\ RingContent \in Seq(Atoms)
           /\ Held \in [Files -> Seq(Atoms)] /\ InHand \in [Files -> Atoms \cup {NoAtom}]
           /\ \A f \in Files : (InHand[f] = NoAtom) <=> ~Copying(f)
           /\ NoAtom \notin Atoms
           /\ opened \subseteq Files
           /\ \A f \in opened : /\ f_version[f] \in SaLocals /\ Registered(f_version[f])
                                /\ Pipe(f) \in Rings /\ Held[f] = FifoContent(Pipe(f))
           /\ \A f \in Files : Copying(f) => f \in opened
           /\ pipe \in [SaLocals -> Rings]
<1>1. /\ buf \in [RingSlots -> Atoms \cup {NoAtom}]
      /\ buf_head \in RingSlots /\ buf_tail \in RingSlots
      /\ pipe \in [SaLocals -> Rings] /\ opened \subseteq Files
  BY DEF StreamInv, CopyInv, DeviceInv, TypeOK, PipesTypeOK, RingSlots, Rings
<1>2. RingContent \in Seq(Atoms) /\ Held \in [Files -> Seq(Atoms)] /\ HandsHold
  BY DEF StreamInv
<1>3. NoAtom \notin Atoms
  BY SampleAssumption DEF Atoms
<1>4. /\ InHand \in [Files -> Atoms \cup {NoAtom}]
      /\ \A f \in Files : (InHand[f] = NoAtom) <=> ~Copying(f)
  <2>1. /\ InHand = [f \in Files |-> InHand[f]]
        /\ \A f \in Files : ~Copying(f) => InHand[f] = NoAtom
    BY DEF InHand
  <2>2. QED BY <1>2, <1>3, <2>1 DEF HandsHold
<1>5. ASSUME NEW f \in opened
      PROVE  /\ f_version[f] \in SaLocals /\ Registered(f_version[f])
             /\ Pipe(f) \in Rings /\ Held[f] = FifoContent(Pipe(f))
  <2>1. f \in Files /\ f_version[f] \in SaLocals
    BY <1>1 DEF StreamInv, CopyInv, DeviceInv, PipesInv, PipesTypeOK, OpenFilesHavePipes
  <2>2. Registered(f_version[f])
    BY DEF StreamInv, CopyInv, DeviceInv, PipesInv, OneSlotPerFile, Registered
  <2>3. Pipe(f) \in Rings
    BY <1>1, <2>1 DEF Pipe
  <2>4. Held[f] = FifoContent(Pipe(f))
    BY <2>1 DEF Held
  <2>5. QED BY <2>1, <2>2, <2>3, <2>4
<1>6. ASSUME NEW f \in Files, Copying(f) PROVE f \in opened
  <2>1. PICK t \in Threads : pc[t] = "copying" /\ file[t] = f
    BY <1>6 DEF Copying
  <2>2. QED BY <2>1, ReaderHasPipe DEF StreamInv, CopyInv
<1>7. QED BY <1>1, <1>2, <1>3, <1>4, <1>5, <1>6

(* The interrupt is the stream's Capture. *)
LEMMA HandlerCaptures ==
    ASSUME StreamInv, libera_sa_handler
    PROVE  Stream!Capture /\ HandsHold'
<1>1. /\ UNCHANGED << opened, f_version, pipe, delivered, pc, file, buf_tail >>
      /\ buf' = [buf EXCEPT ![buf_head] = Head(fpga)]
      /\ buf_head' = libera_sa_incr_atom(buf_head)
      /\ libera_sa_incr_atom(buf_head) # buf_tail
  BY DEF libera_sa_handler, pipesVars, readVars
<1>2. Head(fpga) \in Atoms
  BY DEF libera_sa_handler, StreamInv, CopyInv, DeviceInv, TypeOK
<1>3. StoresAt(buf', buf, buf_head, Head(fpga))
  BY <1>1 DEF StoresAt
<1>4. /\ buf \in [RingSlots -> Atoms \cup {NoAtom}]
      /\ buf_head \in RingSlots /\ buf_tail \in RingSlots
  BY StreamTypes
<1>5. RingContent' = Append(RingContent, Head(fpga))
  <2> DEFINE a == Head(fpga)
             more == buf'
             g == buf_head'
  <2>1. a \in Atoms \cup {NoAtom} /\ StoresAt(more, buf, buf_head, a)
        /\ g = libera_sa_incr_atom(buf_head) /\ g # buf_tail
    BY <1>1, <1>2, <1>3
  <2> HIDE DEF a, more, g
  <2>2. RingOf(more, g, buf_tail) = Append(RingOf(buf, buf_head, buf_tail), a)
    BY <1>4, <2>1, RingStore
  <2>3. QED BY <1>1, <2>2, RingContentIs DEF a, more, g
<1>6. \A f \in Files : Copying(f)' <=> Copying(f)
  BY <1>1 DEF Copying
<1>7. Held' = Held /\ InHand' = InHand
  BY <1>1, <1>6, HeldFrame, HandFrame
<1>8. HandsHold'
  BY <1>6, <1>7 DEF HandsHold, StreamInv
<1>9. Stream!Capture
  BY <1>1, <1>2, <1>5, <1>7 DEF Stream!Capture
<1>10. QED BY <1>8, <1>9

(* A round of the tasklet's loop is its Offer, provided that there is an atom *)
(* in the ring.                                                               *)
LEMMA DispatchOffers ==
    ASSUME StreamInv, NoStaleDispatch, TaskletDispatch
    PROVE  Stream!Offer /\ HandsHold'
<1> DEFINE a == buf[buf_tail]
<1>1. /\ UNCHANGED << opened, f_version, delivered, pc, file, buf, buf_head >>
      /\ pipe' = [p \in SaLocals |->
                    IF Registered(p) THEN libera_pipe_write(pipe[p], a) ELSE pipe[p]]
      /\ buf_tail' = libera_sa_incr_atom(buf_tail)
      /\ buf_head # buf_tail
  BY DEF TaskletDispatch, NoStaleDispatch, pipesVars
<1>2. /\ buf \in [RingSlots -> Atoms \cup {NoAtom}]
      /\ buf_head \in RingSlots /\ buf_tail \in RingSlots
      /\ Held \in [Files -> Seq(Atoms)] /\ opened \subseteq Files
      /\ RingContent \in Seq(Atoms)
  BY StreamTypes
<1>3. /\ RingContent # << >> /\ Head(RingContent) = a
      /\ RingContent' = Tail(RingContent)
  <2> DEFINE g == buf_tail'
  <2>1. g = libera_sa_incr_atom(buf_tail)
    BY <1>1
  <2> HIDE DEF g
  <2>2. /\ RingOf(buf, buf_head, buf_tail) # << >>
        /\ Head(RingOf(buf, buf_head, buf_tail)) = buf[buf_tail]
        /\ RingOf(buf, buf_head, g) = Tail(RingOf(buf, buf_head, buf_tail))
    BY <1>1, <1>2, <2>1, RingAdvance
  <2>3. QED BY <1>1, <2>2, RingContentIs DEF g
<1>4. a \in Atoms \cup {NoAtom}
  BY <1>2
<1> HIDE DEF a
<1>5. ASSUME NEW f \in opened
      PROVE  /\ FifoContent(Pipe(f)') = IF Len(Held[f]) < SA_LOG - 1
                                        THEN Append(Held[f], a) ELSE Held[f]
             /\ Pipe(f)'.data[Pipe(f)'.get] = Pipe(f).data[Pipe(f).get]
  <2>1. /\ f_version[f] \in SaLocals /\ Registered(f_version[f])
        /\ Pipe(f) \in Rings /\ Held[f] = FifoContent(Pipe(f))
    BY StreamTypes
  <2>2. Pipe(f)' = libera_pipe_write(Pipe(f), a)
    BY <1>1, <2>1 DEF Pipe
  <2> DEFINE q == Pipe(f)
             w == libera_pipe_write(q, a)
  <2>3. q \in Rings /\ Held[f] = FifoContent(q) /\ Pipe(f)' = w
    BY <2>1, <2>2
  <2> HIDE DEF q
  <2>4. /\ FifoContent(w) = IF Len(FifoContent(q)) < SA_LOG - 1
                            THEN Append(FifoContent(q), a) ELSE FifoContent(q)
        /\ w.get = q.get /\ w.data[q.get] = q.data[q.get]
    BY <1>4, <2>3, FifoWrite
  <2> HIDE DEF w
  <2>5. QED BY <2>3, <2>4 DEF q
<1>6. Held' = [f \in Files |->
                 IF f \in opened /\ Len(Held[f]) < SA_LOG - 1
                 THEN Append(Held[f], Head(RingContent)) ELSE Held[f]]
  <2>1. Held' = [f \in Files |-> IF f \in opened THEN FifoContent(Pipe(f)') ELSE << >>]
    BY <1>1 DEF Held
  <2>2. \A f \in Files : f \notin opened => Held[f] = << >>
    BY DEF Held
  <2>3. QED BY <1>2, <1>3, <1>5, <2>1, <2>2
<1>7. \A f \in Files : Copying(f)' <=> Copying(f)
  BY <1>1 DEF Copying
<1>8. InHand' = InHand
  <2>1. \A f \in Files : Copying(f) => Pipe(f)'.data[Pipe(f)'.get] = Pipe(f).data[Pipe(f).get]
    BY <1>5, StreamTypes
  <2>2. InHand' = [f \in Files |-> IF Copying(f)' THEN Pipe(f)'.data[Pipe(f)'.get] ELSE NoAtom]
    BY DEF InHand
  <2>3. QED BY <1>7, <2>1, <2>2 DEF InHand
<1>9. HandsHold'
  BY <1>7, <1>8 DEF HandsHold, StreamInv
<1>10. Stream!Offer
  BY <1>1, <1>3, <1>6, <1>8 DEF Stream!Offer
<1>11. QED BY <1>9, <1>10

(* A step of read() leaves the other threads, and what they copy. *)
LEMMA ReadAlone ==
    ASSUME StreamInv, NEW t \in Threads, libera_sa_read(t)
    PROVE  /\ UNCHANGED << buf, buf_head, buf_tail, opened, f_version >>
           /\ \A u \in Threads \ {t} : pc'[u] = pc[u] /\ file'[u] = file[u]
           /\ \A f \in Files : f # file[t] =>
                (\E u \in Threads \ {t} : pc[u] = "copying" /\ file[u] = f) = Copying(f)
           /\ \A u \in Threads : pc[u] = "copying" /\ pc[t] \in Holding /\ file[u] = file[t] => u = t
           /\ pc[t] \in Holding =>
                /\ file[t] \in opened /\ file[t] \in Files /\ f_version[file[t]] \in SaLocals
                /\ \A g \in opened : f_version[g] = f_version[file[t]] => g = file[t]
           /\ pc \in [Threads -> Places]
<1>1. DeviceInv /\ MutexHeld
  BY DEF StreamInv, CopyInv
<1>2. /\ UNCHANGED << buf, buf_head, buf_tail, opened, f_version >>
      /\ \A u \in Threads \ {t} : pc'[u] = pc[u] /\ file'[u] = file[u]
  BY <1>1, ReadMutexSteps DEF ringVars, pipesVars
<1>3. \A f \in Files : f # file[t] =>
        (\E u \in Threads \ {t} : pc[u] = "copying" /\ file[u] = f) = Copying(f)
  BY DEF Copying
<1>4. \A u \in Threads : pc[u] = "copying" /\ pc[t] \in Holding /\ file[u] = file[t] => u = t
  BY <1>1, OneHolder DEF Holding
<1>5. pc[t] \in Holding =>
        /\ file[t] \in opened /\ file[t] \in Files /\ f_version[file[t]] \in SaLocals
        /\ \A g \in opened : f_version[g] = f_version[file[t]] => g = file[t]
  <2>1. pc[t] \in Holding => pc[t] # "user"
    BY DEF Holding
  <2>2. QED BY <1>1, <2>1, ReaderHasPipe DEF DeviceInv, PipesInv, OneSlotPerFile
<1>6. pc \in [Threads -> Places]
  BY <1>1 DEF DeviceInv, TypeOK
<1>7. QED BY <1>2, <1>3, <1>4, <1>5, <1>6

(* Outside the copy loop's body read() is nothing to the stream. *)
LEMMA ReadStutters ==
    ASSUME StreamInv, NEW t \in Threads, libera_sa_read(t), UNCHANGED << pipe, delivered >>,
           pc[t] # "copying", pc'[t] # "copying"
    PROVE  UNCHANGED Stream!streamVars /\ HandsHold'
<1>1. /\ UNCHANGED << buf, buf_head, buf_tail, opened, f_version >>
      /\ \A u \in Threads \ {t} : pc'[u] = pc[u] /\ file'[u] = file[u]
  BY ReadAlone
<1>2. \A f \in Files : Copying(f)' <=> Copying(f)
  BY <1>1 DEF Copying
<1>3. QED BY <1>1, <1>2, StreamFrame DEF StreamInv

(* Moving the read pointer is the stream's Take. *)
LEMMA ReadTakes ==
    ASSUME StreamInv, NEW t \in Threads, ReadTake(t), pc'[t] = "copying"
    PROVE  Stream!Take(file[t]) /\ HandsHold'
<1> DEFINE x == file[t]
           p == f_version[x]
<1>1. /\ pc[t] = "copy" /\ ~Empty(x) /\ pipe' = [pipe EXCEPT ![p] = getFrom_saFIFO(@)]
      /\ pc' = [pc EXCEPT ![t] = "copying"] /\ UNCHANGED << file, delivered >>
  <2>1. pc \in [Threads -> Places]
    BY DEF StreamInv, CopyInv, DeviceInv, TypeOK
  <2>2. QED BY <2>1 DEF ReadTake, ReadStep, UnlockAndReturn, Goto
<1>2. libera_sa_read(t) /\ pc[t] \in Holding
  BY <1>1 DEF libera_sa_read, Holding
<1>3. /\ UNCHANGED << buf, buf_head, buf_tail, opened, f_version >>
      /\ \A u \in Threads \ {t} : pc'[u] = pc[u] /\ file'[u] = file[u]
      /\ \A u \in Threads : pc[u] = "copying" /\ file[u] = x => u = t
      /\ x \in opened /\ x \in Files /\ p \in SaLocals
      /\ \A g \in opened : f_version[g] = p => g = x
      /\ pc \in [Threads -> Places]
  BY <1>2, ReadAlone
<1>4. /\ Pipe(x) \in Rings /\ Held[x] = FifoContent(Pipe(x)) /\ opened \subseteq Files
      /\ pipe \in [SaLocals -> Rings] /\ Held \in [Files -> Seq(Atoms)]
      /\ InHand \in [Files -> Atoms \cup {NoAtom}]
      /\ \A f \in Files : (InHand[f] = NoAtom) <=> ~Copying(f)
      /\ \A f \in Files : Copying(f) => f \in opened
      /\ \A f \in opened : f_version[f] \in SaLocals
  BY <1>3, StreamTypes
<1>5. ~Copying(x)
  BY <1>1, <1>3 DEF Copying
<1>6. /\ FifoContent(Pipe(x)) # << >>
      /\ Head(FifoContent(Pipe(x))) = Pipe(x)'.data[Pipe(x)'.get]
      /\ FifoContent(Pipe(x)') = Tail(FifoContent(Pipe(x)))
  <2>1. Pipe(x)' = getFrom_saFIFO(Pipe(x))
    BY <1>1, <1>3, <1>4 DEF Pipe
  <2> DEFINE q == Pipe(x)
  <2>2. q \in Rings /\ q.put # q.get
    BY <1>1, <1>4 DEF Empty
  <2> HIDE DEF q
  <2>3. /\ FifoContent(q) # << >>
        /\ Head(FifoContent(q)) = getFrom_saFIFO(q).data[getFrom_saFIFO(q).get]
        /\ FifoContent(getFrom_saFIFO(q)) = Tail(FifoContent(q))
    BY <2>2, FifoTake
  <2>4. QED BY <2>1, <2>3 DEF q
<1>7. \A f \in opened : f # x => Pipe(f)' = Pipe(f)
  BY <1>1, <1>3, <1>4 DEF Pipe
<1>8. \A f \in Files : Copying(f)' <=> (f = x \/ Copying(f))
  BY <1>1, <1>3 DEF Copying
<1>0. x' = x
  BY <1>1
<1> HIDE DEF x
<1>9. Held' = [Held EXCEPT ![x] = Tail(Held[x])]
  <2>1. Held' = [f \in Files |-> IF f \in opened THEN FifoContent(Pipe(f)') ELSE << >>]
    BY <1>3 DEF Held
  <2>2. Held = [f \in Files |-> IF f \in opened THEN FifoContent(Pipe(f)) ELSE << >>]
    BY DEF Held
  <2>3. Held'[x] = Tail(Held[x])
    BY <1>0, <1>3, <1>4, <1>6, <2>1
  <2>4. \A f \in Files : f # x => Held'[f] = Held[f]
    BY <1>7, <2>1, <2>2
  <2>5. Held' = [f \in Files |-> Held'[f]] /\ Held = [f \in Files |-> Held[f]]
    BY <1>4, <2>1
  <2>6. QED BY <2>3, <2>4, <2>5
<1>10. InHand' = [InHand EXCEPT ![x] = Head(Held[x])]
  <2>1. InHand' = [f \in Files |-> IF Copying(f)' THEN Pipe(f)'.data[Pipe(f)'.get] ELSE NoAtom]
    BY DEF InHand
  <2>2. InHand = [f \in Files |-> IF Copying(f) THEN Pipe(f).data[Pipe(f).get] ELSE NoAtom]
    BY DEF InHand
  <2>3. InHand'[x] = Head(Held[x])
    BY <1>0, <1>3, <1>4, <1>6, <1>8, <2>1
  <2>4. \A f \in Files : f # x => InHand'[f] = InHand[f]
    BY <1>4, <1>7, <1>8, <2>1, <2>2
  <2>5. InHand' = [f \in Files |-> InHand'[f]] /\ InHand = [f \in Files |-> InHand[f]]
    BY <1>4, <2>1
  <2>6. QED BY <2>3, <2>4, <2>5
<1>11. RingContent' = RingContent
  BY <1>3, RingContentIs
<1>12. Stream!Take(x)
  BY <1>1, <1>3, <1>4, <1>5, <1>6, <1>9, <1>10, <1>11 DEF Stream!Take
<1>13. HandsHold'
  <2>1. Held[x] \in Seq(Atoms) /\ Held[x] # << >>
    BY <1>3, <1>4, <1>6
  <2>2. Head(Held[x]) \in Atoms
    BY <2>1, HeadTailProperties
  <2>3. QED BY <1>3, <1>4, <1>8, <1>10, <2>2 DEF HandsHold, StreamInv
<1>14. QED BY <1>12, <1>13 DEF x

(* The copy to the user's buffer, done or faulted, is its Deliver. *)
LEMMA ReadDelivers ==
    ASSUME StreamInv, NEW t \in Threads, ReadCopy(t)
    PROVE  Stream!Deliver(file[t]) /\ HandsHold'
<1> DEFINE x == file[t]
<1>1. /\ pc[t] = "copying" /\ UNCHANGED pipe
      /\ \/ delivered' = [delivered EXCEPT ![x] = Pipe(x).data[Pipe(x).get]]
         \/ delivered' = delivered
      /\ pc'[t] # "copying"
  <2>1. pc \in [Threads -> Places]
    BY DEF StreamInv, CopyInv, DeviceInv, TypeOK
  <2>2. QED BY <2>1 DEF ReadCopy, ReadStep, UnlockAndReturn, Goto
<1>2. libera_sa_read(t) /\ pc[t] \in Holding
  BY <1>1 DEF libera_sa_read, Holding
<1>3. /\ UNCHANGED << buf, buf_head, buf_tail, opened, f_version >>
      /\ \A u \in Threads \ {t} : pc'[u] = pc[u] /\ file'[u] = file[u]
      /\ \A u \in Threads : pc[u] = "copying" /\ file[u] = x => u = t
      /\ x \in Files
  BY <1>2, ReadAlone
<1>4. Copying(x)
  BY <1>1 DEF Copying
<1>5. \A f \in Files : Copying(f)' <=> (f # x /\ Copying(f))
  BY <1>1, <1>3 DEF Copying
<1>6. /\ InHand \in [Files -> Atoms \cup {NoAtom}]
      /\ \A f \in Files : (InHand[f] = NoAtom) <=> ~Copying(f)
  BY StreamTypes
<1>7. InHand[x] = Pipe(x).data[Pipe(x).get]
  BY <1>3, <1>4 DEF InHand
<1>8. InHand' = [InHand EXCEPT ![x] = NoAtom]
  <2>1. InHand' = [f \in Files |-> IF Copying(f)' THEN Pipe(f)'.data[Pipe(f)'.get] ELSE NoAtom]
    BY DEF InHand
  <2>2. InHand = [f \in Files |-> IF Copying(f) THEN Pipe(f).data[Pipe(f).get] ELSE NoAtom]
    BY DEF InHand
  <2>3. \A f \in Files : Pipe(f)' = Pipe(f)
    BY <1>1, <1>3 DEF Pipe
  <2>4. QED BY <1>3, <1>5, <1>6, <2>1, <2>2, <2>3
<1>9. Held' = Held /\ RingContent' = RingContent
  BY <1>1, <1>3, HeldFrame, RingContentIs
<1>10. delivered' \in { delivered, [delivered EXCEPT ![x] = InHand[x]] }
  BY <1>1, <1>7
<1> HIDE DEF x
<1>11. Stream!Deliver(x)
  BY <1>3, <1>4, <1>6, <1>8, <1>9, <1>10 DEF Stream!Deliver
<1>12. HandsHold'
  BY <1>5, <1>6, <1>8 DEF HandsHold, StreamInv
<1>13. QED BY <1>11, <1>12 DEF x

(* Each step of read() is a step of the stream or none.                       *)
LEMMA ReadRefines ==
    ASSUME StreamInv, NEW t \in Threads, libera_sa_read(t)
    PROVE  [Stream!Next]_Stream!streamVars /\ HandsHold'
<1>1. pc \in [Threads -> Places] /\ file[t] \in Files \cup {NULL}
  BY DEF StreamInv, CopyInv, DeviceInv, TypeOK
<1>2. ASSUME NEW f, pc[t] \in Holding, f = file[t] PROVE f \in Files
  BY <1>2, ReadAlone
<1>3. CASE ReadCopy(t)
  <2>1. file[t] \in Files
    BY <1>2, <1>3 DEF ReadCopy, ReadStep, Holding
  <2>2. QED BY <1>3, <2>1, ReadDelivers DEF Stream!Next
<1>4. CASE ReadTake(t)
  <2>1. CASE pc'[t] = "copying"
    <3>1. file[t] \in Files
      BY <1>2, <1>4 DEF ReadTake, ReadStep, Holding
    <3>2. QED BY <1>4, <2>1, <3>1, ReadTakes DEF Stream!Next
  <2>2. CASE pc'[t] # "copying"
    <3>1. UNCHANGED << pipe, delivered >> /\ pc[t] # "copying"
      BY <1>1, <1>4, <2>2 DEF ReadTake, ReadStep, Goto
    <3>2. QED BY <2>2, <3>1, ReadStutters
  <2>3. QED BY <2>1, <2>2
<1>5. CASE \/ ReadCall(t) \/ ReadLock(t) \/ ReadLockInterrupted(t)
           \/ ReadCheck(t) \/ ReadPrepare(t) \/ ReadRecheck(t) \/ ReadWake(t)
           \/ ReadRelock(t) \/ ReadCount(t)
  <2>1. UNCHANGED << pipe, delivered >> /\ pc[t] # "copying" /\ pc'[t] # "copying"
    BY <1>1, <1>5 DEF ReadCall, ReadLock, ReadLockInterrupted, ReadCheck, ReadPrepare,
         ReadRecheck, ReadWake, ReadRelock, ReadCount, ReadStep, Goto, UnlockAndReturn
  <2>2. QED BY <2>1, ReadStutters
<1>6. QED BY <1>3, <1>4, <1>5 DEF libera_sa_read

(* What a file's opening and releasing leave to the other open files. *)
LEMMA FileLeavesFiles ==
    ASSUME StreamInv, NEW f \in Files, Open(f) \/ Release(f), NEW g \in opened, g # f
    PROVE  Pipe(g)' = Pipe(g)
<1>1. /\ f_version \in [Files -> SaLocals \cup {NULL}] /\ opened \subseteq Files
      /\ pipe \in [SaLocals -> Rings]
  BY DEF StreamInv, CopyInv, DeviceInv, TypeOK, PipesTypeOK, Rings
<1>2. f_version[g] \in SaLocals /\ g \in Files /\ f_version[g] \in allocated
  BY <1>1, SlotSets DEF StreamInv, CopyInv, DeviceInv, PipesInv, OpenFilesHavePipes,
       OneSlotPerFile, NoDanglingPipe, Occupied
<1>3. CASE Open(f)
  <2>1. PICK p \in SaLocals \ allocated :
          f_version' = [f_version EXCEPT ![f] = p] /\ pipe' = [pipe EXCEPT ![p] = EmptyFIFO]
    <3>1. PICK p \in SaLocals \ allocated : f_version' = [f_version EXCEPT ![f] = p]
      BY <1>3 DEF Open, libera_sa_open
    <3>2. f_version'[f] = p
      BY <1>1, <3>1
    <3>3. QED BY <1>3, <3>1, <3>2 DEF Open
  <2>2. QED BY <1>1, <1>2, <2>1 DEF Pipe
<1>4. CASE Release(f)
  <2>1. f_version' \in {f_version, [f_version EXCEPT ![f] = NULL]} /\ f \in opened
    BY <1>4 DEF Release, libera_sa_release
  <2>2. f_version[f] # f_version[g]
    BY <2>1 DEF StreamInv, CopyInv, DeviceInv, PipesInv, OneSlotPerFile
  <2>3. QED BY <1>1, <1>2, <1>4, <2>1, <2>2 DEF Pipe, Release
<1>5. QED BY <1>3, <1>4

(* No thread is in read() with a file that is opened or released. *)
LEMMA FileNotCopied ==
    ASSUME StreamInv, NEW f \in Files, Open(f) \/ Release(f)
    PROVE  /\ ~Copying(f) /\ \A g \in Files : Copying(g)' <=> Copying(g)
           /\ InHand' = InHand /\ RingContent' = RingContent
<1>1. UNCHANGED << buf, buf_head, buf_tail, pc, file >>
  BY FileLeavesReaders DEF StreamInv, CopyInv, ringVars
<1>2. ~Copying(f)
  <2>1. CASE Open(f)
    <3>1. f \notin opened
      BY <2>1 DEF Open, libera_sa_open
    <3>2. QED BY <3>1, StreamTypes
  <2>2. CASE Release(f)
    BY <2>2 DEF Release, Copying
  <2>3. QED BY <2>1, <2>2
<1>3. \A g \in Files : Copying(g)' <=> Copying(g)
  BY <1>1 DEF Copying
<1>4. \A g \in Files : Copying(g) => Pipe(g)' = Pipe(g)
  BY <1>2, FileLeavesFiles, StreamTypes
<1>5. InHand' = InHand
  <2>1. InHand' = [g \in Files |-> IF Copying(g)' THEN Pipe(g)'.data[Pipe(g)'.get] ELSE NoAtom]
    BY DEF InHand
  <2>2. InHand = [g \in Files |-> IF Copying(g) THEN Pipe(g).data[Pipe(g).get] ELSE NoAtom]
    BY DEF InHand
  <2>3. QED BY <1>3, <1>4, <2>1, <2>2
<1>6. QED BY <1>1, <1>2, <1>3, <1>5, RingContentIs

(* open() is the stream's Open: the new file holds nothing.                   *)
LEMMA OpenRefines ==
    ASSUME StreamInv, NEW f \in Files, Open(f)
    PROVE  Stream!Open(f)
<1>1. /\ f \notin opened /\ opened' = opened \cup {f} /\ delivered' = delivered
      /\ pipe' = [pipe EXCEPT ![f_version'[f]] = EmptyFIFO]
  BY DEF Open, libera_sa_open
<1>2. f_version'[f] \in SaLocals
  <2>1. f_version \in [Files -> SaLocals \cup {NULL}]
    BY DEF StreamInv, CopyInv, DeviceInv, PipesInv, PipesTypeOK
  <2>2. QED BY <2>1 DEF Open, libera_sa_open
<1>3. FifoContent(Pipe(f)') = << >>
  <2>1. pipe \in [SaLocals -> Rings]
    BY StreamTypes
  <2>2. Pipe(f)' = EmptyFIFO
    BY <1>1, <1>2, <2>1 DEF Pipe
  <2>3. QED BY <2>2, FifoEmpty
<1>4. \A g \in opened : Pipe(g)' = Pipe(g)
  BY <1>1, FileLeavesFiles
<1>5. Held' = Held
  <2>1. Held' = [g \in Files |-> IF g \in opened \cup {f} THEN FifoContent(Pipe(g)') ELSE << >>]
    BY <1>1 DEF Held
  <2>2. Held = [g \in Files |-> IF g \in opened THEN FifoContent(Pipe(g)) ELSE << >>]
    BY DEF Held
  <2>3. QED BY <1>1, <1>3, <1>4, <2>1, <2>2
<1>6. InHand' = InHand /\ RingContent' = RingContent
  BY FileNotCopied
<1>7. QED BY <1>1, <1>5, <1>6 DEF Stream!Open

(* release() is its Close: what the file held is gone.                        *)
LEMMA ReleaseRefines ==
    ASSUME StreamInv, NEW f \in Files, Release(f)
    PROVE  Stream!Close(f)
<1>1. /\ f \in opened /\ opened' = opened \ {f}
      /\ delivered' = [delivered EXCEPT ![f] = NoAtom]
  BY DEF Release, libera_sa_release
<1>2. \A g \in opened : g # f => Pipe(g)' = Pipe(g)
  BY FileLeavesFiles
<1>3. Held' = [Held EXCEPT ![f] = << >>]
  <2>1. Held' = [g \in Files |-> IF g \in opened \ {f} THEN FifoContent(Pipe(g)') ELSE << >>]
    BY <1>1 DEF Held
  <2>2. Held = [g \in Files |-> IF g \in opened THEN FifoContent(Pipe(g)) ELSE << >>]
    BY DEF Held
  <2>3. QED BY <1>2, <2>1, <2>2
<1>4. /\ InHand' = InHand /\ RingContent' = RingContent /\ ~Copying(f)
  BY FileNotCopied
<1>5. InHand[f] = NoAtom
  BY <1>4, StreamTypes
<1>6. QED BY <1>1, <1>3, <1>4, <1>5 DEF Stream!Close

(* Every step of the device is a step of the stream or none of it. *)
LEMMA StepRefinesStream ==
    StreamInv /\ NoStaleDispatch /\ [Next]_vars => [Stream!Next]_Stream!streamVars /\ HandsHold'
<1> SUFFICES ASSUME StreamInv, NoStaleDispatch, [Next]_vars
             PROVE  [Stream!Next]_Stream!streamVars /\ HandsHold'
  OBVIOUS
<1>1. ASSUME UNCHANGED << buf, buf_head, buf_tail, opened, f_version, pipe, delivered, pc, file >>
      PROVE  UNCHANGED Stream!streamVars /\ HandsHold'
  <2>1. \A f \in Files : Copying(f)' <=> Copying(f)
    BY <1>1 DEF Copying
  <2>2. QED BY <1>1, <2>1, StreamFrame DEF StreamInv
<1>2. CASE SampleReady \/ TaskletStart \/ TaskletTest \/ UNCHANGED vars
  <2>1. UNCHANGED << buf, buf_head, buf_tail, opened, f_version, pipe, delivered, pc, file >>
    BY <1>2 DEF SampleReady, TaskletStart, TaskletTest, vars, pipesVars, ringVars, readVars
  <2>2. QED BY <1>1, <2>1
<1>3. ASSUME NEW t \in Threads, Signal(t) PROVE UNCHANGED Stream!streamVars /\ HandsHold'
  <2>1. UNCHANGED << buf, buf_head, buf_tail, opened, f_version, pipe, delivered, pc, file >>
    BY <1>3 DEF Signal, pipesVars, ringVars
  <2>2. QED BY <1>1, <2>1
<1>4. ASSUME NEW f \in Files, OpenRefused(f) PROVE UNCHANGED Stream!streamVars /\ HandsHold'
  <2>1. UNCHANGED << buf, buf_head, buf_tail, opened, f_version, pipe, delivered, pc, file >>
    BY <1>4 DEF OpenRefused, libera_sa_open_refused, ringVars, readVars
  <2>2. QED BY <1>1, <2>1
<1>5. CASE libera_sa_handler
  BY <1>5, HandlerCaptures DEF Stream!Next
<1>6. CASE TaskletDispatch
  BY <1>6, DispatchOffers DEF Stream!Next
<1>7. ASSUME NEW t \in Threads, libera_sa_read(t)
      PROVE  [Stream!Next]_Stream!streamVars /\ HandsHold'
  BY <1>7, ReadRefines
<1>8. ASSUME NEW f \in Files, Open(f) \/ Release(f) PROVE Stream!Next /\ HandsHold'
  <2>1. HandsHold'
    BY <1>8, FileNotCopied DEF HandsHold, StreamInv
  <2>2. Stream!Open(f) \/ Stream!Close(f)
    BY <1>8, OpenRefines, ReleaseRefines
  <2>3. QED BY <2>1, <2>2 DEF Stream!Next
<1>9. QED
  BY <1>2, <1>3, <1>4, <1>5, <1>6, <1>7, <1>8 DEF Next, Interrupts

(* The stream keeps its own types. *)
LEMMA StreamKeepsTypes ==
    ASSUME RingContent \in Seq(Atoms), Held \in [Files -> Seq(Atoms)],
           [Stream!Next]_Stream!streamVars
    PROVE  RingContent' \in Seq(Atoms) /\ Held' \in [Files -> Seq(Atoms)]
<1>1. CASE Stream!Capture
  <2>1. PICK a \in Atoms : RingContent' = Append(RingContent, a)
    BY <1>1 DEF Stream!Capture
  <2>2. RingContent' \in Seq(Atoms)
    BY <2>1, AppendProperties
  <2>3. QED BY <1>1, <2>2 DEF Stream!Capture
<1>2. CASE Stream!Offer
  <2>1. /\ RingContent # << >> /\ RingContent' = Tail(RingContent)
        /\ Held' = [f \in Files |-> IF f \in opened /\ Len(Held[f]) < SA_LOG - 1
                                    THEN Append(Held[f], Head(RingContent)) ELSE Held[f]]
    BY <1>2 DEF Stream!Offer
  <2>2. RingContent' \in Seq(Atoms) /\ Head(RingContent) \in Atoms
    BY <2>1, HeadTailProperties
  <2>3. \A f \in Files : Append(Held[f], Head(RingContent)) \in Seq(Atoms)
    BY <2>2, AppendProperties
  <2>4. QED BY <2>1, <2>2, <2>3
<1>3. ASSUME NEW f \in Files, Stream!Open(f) \/ Stream!Close(f) \/ Stream!Take(f) \/ Stream!Deliver(f)
      PROVE  RingContent' \in Seq(Atoms) /\ Held' \in [Files -> Seq(Atoms)]
  <2>1. CASE Stream!Open(f) \/ Stream!Deliver(f)
    BY <2>1 DEF Stream!Open, Stream!Deliver
  <2>2. CASE Stream!Close(f)
    <3>1. Held' = [Held EXCEPT ![f] = << >>] /\ RingContent' = RingContent
      BY <2>2 DEF Stream!Close
    <3>2. << >> \in Seq(Atoms)
      BY EmptySeq
    <3>3. QED BY <3>1, <3>2
  <2>3. CASE Stream!Take(f)
    <3>1. /\ Held' = [Held EXCEPT ![f] = Tail(Held[f])] /\ RingContent' = RingContent
          /\ Held[f] # << >>
      BY <2>3 DEF Stream!Take
    <3>2. Tail(Held[f]) \in Seq(Atoms)
      BY <3>1, HeadTailProperties
    <3>3. QED BY <3>1, <3>2
  <2>4. QED BY <1>3, <2>1, <2>2, <2>3
<1>4. CASE UNCHANGED Stream!streamVars
  BY <1>4 DEF Stream!streamVars
<1>5. QED BY <1>1, <1>2, <1>3, <1>4 DEF Stream!Next

(* The invariant of the refinement, and the refinement, for every step.       *)
LEMMA StepStream ==
    StreamInv /\ NoStaleDispatch /\ [Next]_vars =>
        StreamInv' /\ [Stream!Next]_Stream!streamVars
<1> SUFFICES ASSUME StreamInv, NoStaleDispatch, [Next]_vars
             PROVE  StreamInv' /\ [Stream!Next]_Stream!streamVars
  OBVIOUS
<1>1. [Stream!Next]_Stream!streamVars /\ HandsHold'
  BY StepRefinesStream
<1>2. RingContent' \in Seq(Atoms) /\ Held' \in [Files -> Seq(Atoms)]
  BY <1>1, StreamKeepsTypes DEF StreamInv
<1>3. CopyInv'
  BY StepCopy DEF StreamInv
<1>4. QED BY <1>1, <1>2, <1>3 DEF StreamInv

(* The device starts as the stream does.                                      *)
LEMMA InitStream == Init => StreamInv /\ Stream!Init
<1> SUFFICES ASSUME Init PROVE StreamInv /\ Stream!Init
  OBVIOUS
<1>1. CopyInv
  <2>1. Init => MutexHeld /\ CountsHold
    BY DEF Init, MutexHeld, CountsHold, Holding
  <2>2. QED BY <2>1, InitDevice DEF CopyInv
<1>2. RingContent = << >>
  <2>1. /\ buf \in [RingSlots -> Atoms \cup {NoAtom}]
        /\ buf_head = 0 /\ buf_tail = 0 /\ 0 \in RingSlots
    BY RingAssumption DEF Init, RingSlots
  <2>2. Distance(0, 0) = 0
    BY <2>1, DistancePlain
  <2>3. RingOf(buf, 0, 0) \in Seq(Atoms \cup {NoAtom}) /\ Len(RingOf(buf, 0, 0)) = 0
    BY <2>1, <2>2, RingWindow
  <2>4. RingOf(buf, 0, 0) = << >>
    BY <2>3, EmptySeq
  <2>5. QED BY <2>1, <2>4, RingContentIs
<1>3. opened = {} /\ delivered = [f \in Files |-> NoAtom]
  BY DEF Init, PipesInit
<1>4. \A f \in Files : ~Copying(f)
  BY DEF Init, Copying
<1>5. Held = [f \in Files |-> << >>] /\ InHand = [f \in Files |-> NoAtom]
  BY <1>3, <1>4 DEF Held, InHand
<1>6. << >> \in Seq(Atoms)
  BY EmptySeq
<1>7. StreamInv
  BY <1>1, <1>2, <1>4, <1>5, <1>6 DEF StreamInv, HandsHold
<1>8. QED BY <1>2, <1>3, <1>5, <1>7 DEF Stream!Init

(* The device implements the plain stream: as long as the tasklet hands out   *)
(* only what is in its ring, each atom that the interrupt takes is offered    *)
(* once and in order to every open file, is kept unless the file already      *)
(* holds SA_LOG - 1, and arrives in the user's buffer as it was taken,        *)
(* whatever the number of readers, files, slots and interrupts.               *)
THEOREM DeviceImplementsStream == Spec /\ []NoStaleDispatch => ImplementsStream
<1>1. Init => StreamInv /\ Stream!Init
  BY InitStream
<1>2. StreamInv /\ NoStaleDispatch /\ [Next]_vars =>
        StreamInv' /\ [Stream!Next]_Stream!streamVars
  BY StepStream
<1>3. QED BY <1>1, <1>2, PTL DEF Spec, Stream!Spec, ImplementsStream

-----------------------------------------------------------------------------
(* The ring between TH and BH, when no interrupt comes during a tasklet *)

RingInv ==
    /\ TypeOK
    /\ bh = "idle" /\ sched => buf_tail # buf_head
    /\ NoStaleDispatch
    /\ bh # "idle" => ~sched

(* Every step keeps the ring filled whenever a run of the tasklet is to come. *)
LEMMA RingStep ==
    ASSUME IrqsPerTasklet = 0, RingInv, TypeOK', [Next]_vars
    PROVE  RingInv'
<1>1. CASE UNCHANGED << buf_head, buf_tail, bh, sched >>
  BY <1>1 DEF RingInv, NoStaleDispatch
<1>2. CASE libera_sa_handler
  <2>1. irqs = 0
    BY DEF RingInv, TypeOK
  <2>2. bh = "idle"
    BY <1>2, <2>1 DEF libera_sa_handler
  <2>3. QED BY <1>2, <2>2 DEF libera_sa_handler, RingInv, NoStaleDispatch
<1>3. CASE TaskletStart
  BY <1>3 DEF TaskletStart, RingInv, NoStaleDispatch
<1>4. CASE TaskletDispatch
  BY <1>4 DEF TaskletDispatch, RingInv, NoStaleDispatch
<1>5. CASE TaskletTest
  BY <1>5 DEF TaskletTest, RingInv, NoStaleDispatch
<1>6. CASE SampleReady
  <2>1. UNCHANGED << buf_head, buf_tail, bh, sched >>
    BY <1>6 DEF SampleReady
  <2>2. QED BY <1>1, <2>1
<1>7. ASSUME NEW t \in Threads, libera_sa_read(t) \/ Signal(t) PROVE RingInv'
  <2>1. UNCHANGED ringVars
    BY <1>7 DEF libera_sa_read, ReadCall, ReadLock, ReadLockInterrupted, ReadCheck,
         ReadPrepare, ReadRecheck, ReadWake, ReadRelock, ReadCount, ReadTake,
         ReadCopy, ReadStep, Signal
  <2>2. QED BY <1>1, <2>1 DEF ringVars
<1>8. ASSUME NEW f \in Files, Open(f) \/ OpenRefused(f) \/ Release(f) PROVE RingInv'
  <2>1. UNCHANGED ringVars
    BY <1>8 DEF Open, OpenRefused, Release
  <2>2. QED BY <1>1, <2>1 DEF ringVars
<1>9. CASE UNCHANGED vars
  BY <1>1, <1>9 DEF vars, ringVars
<1>10. QED
  BY <1>2, <1>3, <1>4, <1>5, <1>6, <1>7, <1>8, <1>9 DEF Next, Interrupts

(* When no interrupt comes while the tasklet runs, it never hands out what    *)
(* is not in the ring.                                                        *)
THEOREM NeverStaleWhenUninterrupted ==
    ASSUME IrqsPerTasklet = 0 PROVE Spec => []NoStaleDispatch
<1>1. Init /\ TypeOK => RingInv
  BY DEF Init, RingInv, NoStaleDispatch
<1>2. RingInv /\ TypeOK' /\ [Next]_vars => RingInv'
  BY RingStep
<1>3. Spec => []TypeOK
  BY DeviceInvariant, PTL DEF DeviceInv
<1>4. RingInv => NoStaleDispatch
  BY DEF RingInv
<1>5. QED BY <1>1, <1>2, <1>3, <1>4, PTL DEF Spec

(* And then it implements the stream with no proviso. *)
THEOREM UninterruptedImplementsStream ==
    ASSUME IrqsPerTasklet = 0 PROVE Spec => ImplementsStream
  BY NeverStaleWhenUninterrupted, DeviceImplementsStream, PTL
=============================================================================
