------------------------------ MODULE CspiProofs ------------------------------
(***************************************************************************)
(* Proofs about the CSPI library in a process: its handles (CspiEnv), and  *)
(* the parameters with the devices they go to (CspiParams).                *)
(*                                                                         *)
(* The handles, for any numbers of threads, connections and descriptors.   *)
(* Freeing a handle takes the mutex twice, and an allocation that fails    *)
(* takes its handle back in a second step: HandleHasDevice needs to know   *)
(* that usage_count counts the threads in between as well, so that who     *)
(* closes the device is alone.  The links of the list need that no two     *)
(* threads are freeing the same connection; and that the links lead to     *)
(* every connection needs that they have an order, for a ring apart from   *)
(* the head would have links that agree just as well.                      *)
(*                                                                         *)
(* The parameters, for any files, threads and requests: that offsets set   *)
(* from two sides add up, that a block read delivers what the registers    *)
(* held, that a cache without a cause to be refilled is the FPGA's, and    *)
(* that the thresholds in the FPGA are those of one request.  The          *)
(* invariant has six parts: the mirror (DevInv), who has a device open     *)
(* (AccessInv), the block calls (BlockInv), who holds the mutex of an      *)
(* Environment (ThreadInv), how far a call that sets parameters has come   *)
(* (SettingInv) and what an update of the cache has got (CacheInv).        *)
(***************************************************************************)
EXTENDS CspiEnv, CspiParams, FiniteSetTheorems, WellFoundedInduction, TLAPS

-----------------------------------------------------------------------------
(* Handles and connections (CspiEnv) *)

Stages == {"user", "undo", "destroyed", "handler", "join", "free"}

EnvTypes ==
    /\ usage_count \in Int /\ connection_count \in Int
    /\ fd \in Fds \cup {NIL} /\ open_fds \in SUBSET Fds
    /\ holds \in SUBSET Callers /\ mutex \in Callers \cup {NIL}
    /\ stage \in [Callers -> Stages] /\ cur \in [Callers -> Conns \cup {NIL}]
    /\ allocated \in SUBSET Conns /\ owner \in [Conns -> Callers \cup {NIL}]
    /\ head \in Conns \cup {NIL}
    /\ next \in [Conns -> Conns \cup {NIL}] /\ prev \in [Conns -> Conns \cup {NIL}]

Undoing == { t \in Callers : stage[t] = "undo" }

(* Where a thread is tells whether it holds a handle. *)
HandlesCounted ==
    /\ UsageCountsHandles
    /\ \A t \in Callers : /\ stage[t] = "undo" => t \notin holds
                          /\ stage[t] = "destroyed" => t \in holds

DeviceHeld ==
    /\ fd # NIL => fd \in open_fds
    /\ HandleHasDevice

(* Each thread frees a connection of its own. *)
FreesItsOwn ==
    \A t \in Callers : /\ stage[t] \in {"join", "free"} =>
                            cur[t] \in allocated /\ owner[cur[t]] = t
                       /\ stage[t] = "join" => mutex = t

(* The links agree with each other, and with the connections that are not   *)
(* being freed.                                                             *)
LinksAgree ==
    /\ head \in Listed \cup {NIL}
    /\ \A c \in Listed : next[c] \in Listed \cup {NIL} /\ prev[c] \in Listed \cup {NIL}
    /\ \A c \in Listed : prev[c] = NIL <=> c = head
    /\ \A c, d \in Listed : next[c] = d <=> prev[d] = c

ConnectionsCounted == connection_count = Cardinality(Listed)

EnvInv ==
    EnvTypes /\ HandlesCounted /\ DeviceHeld /\ FreesItsOwn /\ LinksAgree /\ ConnectionsCounted

-----------------------------------------------------------------------------
(* Handles and connections are finitely many. *)
LEMMA Finite ==
    ASSUME EnvTypes
    PROVE  /\ IsFiniteSet(holds \cup Undoing) /\ IsFiniteSet(Listed)
           /\ NIL \notin Callers /\ NIL \notin Conns /\ NIL \notin Fds
<1>1. IsFiniteSet(Callers) /\ IsFiniteSet(Conns)
  BY CspiAssumption
<1>2. holds \cup Undoing \subseteq Callers /\ Listed \subseteq Conns
  BY DEF EnvTypes, Undoing, Listed
<1> QED
  BY <1>1, <1>2, FS_Subset, CspiAssumption

(* At the start there are none. *)
LEMMA InitEnvInv == EnvInit => EnvInv
<1> SUFFICES ASSUME EnvInit PROVE EnvInv
  OBVIOUS
<1>1. EnvTypes
  BY DEF EnvInit, EnvTypes, Stages
<1>2. holds \cup Undoing = {} /\ Listed = {}
  BY DEF EnvInit, Undoing, Listed
<1>3. Cardinality({}) = 0
  BY FS_EmptySet
<1>4. HandlesCounted /\ ConnectionsCounted
  BY <1>2, <1>3 DEF EnvInit, HandlesCounted, UsageCountsHandles, ConnectionsCounted, Undoing
<1>5. DeviceHeld /\ FreesItsOwn /\ LinksAgree
  BY <1>2 DEF EnvInit, DeviceHeld, HandleHasDevice, FreesItsOwn, LinksAgree
<1> QED
  BY <1>1, <1>4, <1>5 DEF EnvInv

-----------------------------------------------------------------------------
(* The two halves of the invariant. *)
HandlesRight == HandlesCounted /\ DeviceHeld
ListRight == FreesItsOwn /\ LinksAgree /\ ConnectionsCounted

(* A step that leaves the handles alone. *)
LEMMA HandlesSame ==
    ASSUME EnvTypes, EnvTypes', HandlesRight, UNCHANGED envVars,
           \A t \in Callers : stage'[t] = "undo" <=> stage[t] = "undo",
           \A t \in Callers : stage'[t] = "destroyed" <=> stage[t] = "destroyed"
    PROVE  HandlesRight'
<1>1. Undoing' = Undoing
  BY DEF Undoing
<1>2. HandlesCounted'
  BY <1>1 DEF HandlesRight, HandlesCounted, UsageCountsHandles, Undoing, envVars
<1>3. DeviceHeld'
  BY DEF HandlesRight, DeviceHeld, HandleHasDevice, envVars, EnvTypes
<1> QED
  BY <1>2, <1>3 DEF HandlesRight

(* A step that leaves the list alone. *)
LEMMA ListSame ==
    ASSUME EnvTypes, EnvTypes', ListRight, UNCHANGED << listVars, owner >>,
           \A t \in Callers : stage'[t] \in {"join", "free"} <=> stage[t] \in {"join", "free"},
           \A t \in Callers : stage[t] \in {"join", "free"} => cur'[t] = cur[t],
           \A t \in Callers : stage'[t] = "join" => mutex' = t
    PROVE  ListRight'
<1>1. Leaving' = Leaving
  BY DEF Leaving
<1>2. Listed' = Listed
  BY <1>1 DEF Listed, listVars
<1>3. FreesItsOwn'
  BY DEF ListRight, FreesItsOwn, listVars
<1>4. LinksAgree' /\ ConnectionsCounted'
  BY <1>2 DEF ListRight, LinksAgree, ConnectionsCounted, listVars
<1> QED
  BY <1>3, <1>4 DEF ListRight

(* No two threads are about to free the same connection. *)
LEMMA FreesAlone ==
    ASSUME EnvTypes, ListRight, NEW t \in Callers, NEW u \in Callers,
           stage[t] \in {"join", "free"}, stage[u] \in {"join", "free"}, cur[t] = cur[u]
    PROVE  t = u
  BY DEF ListRight, FreesItsOwn

-----------------------------------------------------------------------------
(* Each action keeps the types. *)
LEMMA TypesKept ==
    ASSUME EnvTypes, EnvNext
    PROVE  EnvTypes'
<1>. USE CspiAssumption DEF EnvTypes, Stages, MoveTo, Owned
<1>1. ASSUME NEW t \in Callers, alloc_env(t) PROVE EnvTypes'
  <2>1. fd' \in Fds \cup {NIL} /\ open_fds' \in SUBSET Fds
    BY <1>1 DEF alloc_env, OpenCfg
  <2>2. stage' \in [Callers -> Stages] /\ holds' \in SUBSET Callers
    BY <1>1 DEF alloc_env
  <2> QED
    BY <1>1, <2>1, <2>2 DEF alloc_env, listVars, conVars, evVars
<1>2. ASSUME NEW t \in Callers, destroy_env(t) PROVE EnvTypes'
  BY <1>2 DEF destroy_env, listVars, conVars, evVars
<1>3. ASSUME NEW t \in Callers, free_env(t) PROVE EnvTypes'
  BY <1>3 DEF free_env, listVars, conVars, evVars
<1>4. ASSUME NEW t \in Callers, alloc_con(t) PROVE EnvTypes'
  BY <1>4 DEF alloc_con, envVars, evVars
<1>5. ASSUME NEW t \in Callers, remove_con(t) PROVE EnvTypes'
  <2>1. mutex' \in Callers \cup {NIL} /\ stage' \in [Callers -> Stages]
    BY <1>5 DEF remove_con
  <2>2. PICK c \in Owned(t) \ connected :
          /\ next' = [x \in Conns |-> IF x = c THEN NIL
                                     ELSE IF x = prev[c] THEN next[c] ELSE next[x]]
          /\ prev' = [x \in Conns |-> IF x = c THEN NIL
                                     ELSE IF x = next[c] THEN prev[c] ELSE prev[x]]
          /\ head' = IF head = c THEN next[c] ELSE head
          /\ cur' = [cur EXCEPT ![t] = c]
    BY <1>5 DEF remove_con
  <2>3. /\ next' \in [Conns -> Conns \cup {NIL}] /\ prev' \in [Conns -> Conns \cup {NIL}]
        /\ head' \in Conns \cup {NIL} /\ cur' \in [Callers -> Conns \cup {NIL}]
    BY <2>2
  <2> QED
    BY <1>5, <2>1, <2>3 DEF remove_con, envVars, conVars
<1>6. ASSUME NEW t \in Callers, pthread_join(t) PROVE EnvTypes'
  BY <1>6 DEF pthread_join, envVars, listVars, conVars
<1>7. ASSUME NEW t \in Callers, free_con(t) PROVE EnvTypes'
  BY <1>7 DEF free_con, envVars, evVars
<1>8. ASSUME NEW t \in Callers, create_event_thread(t) PROVE EnvTypes'
  BY <1>8 DEF create_event_thread, envVars, listVars, conVars
<1>9. ASSUME NEW t \in Callers, base_setconparam(t) PROVE EnvTypes'
  BY <1>9 DEF base_setconparam, envVars, listVars, evVars
<1>10. ASSUME NEW t \in Callers, cspi_connect(t) \/ cspi_disconnect(t) PROVE EnvTypes'
  BY <1>10 DEF cspi_connect, cspi_disconnect, envVars, listVars, evVars
<1>11. ASSUME event_thread PROVE EnvTypes'
  BY <1>11 DEF event_thread, EventThreadStarts, EventArrives, Dispatch, EventThreadExits,
               envVars, listVars, conVars
<1> QED
  BY <1>1, <1>2, <1>3, <1>4, <1>5, <1>6, <1>7, <1>8, <1>9, <1>10, <1>11
  DEF EnvNext, cspi_allochandle, cspi_freehandle, Finish

-----------------------------------------------------------------------------
(* The handles: three actions change them. *)

(* A handle more, held or about to be taken back. *)
LEMMA alloc_envKeepsHandles ==
    ASSUME EnvTypes, EnvTypes', HandlesRight, NEW t \in Callers, alloc_env(t)
    PROVE  HandlesRight'
<1> DEFINE held == holds \cup Undoing
<1>1. IsFiniteSet(held) /\ usage_count = Cardinality(held)
  BY Finite DEF HandlesRight, HandlesCounted, UsageCountsHandles, Undoing
<1>2. t \notin held
  BY DEF alloc_env, Undoing
<1>3. holds' \cup Undoing' = held \cup {t}
  <2>1. CASE holds' = holds \cup {t} /\ stage' = stage
    BY <2>1 DEF Undoing
  <2>2. CASE holds' = holds /\ stage' = [stage EXCEPT ![t] = "undo"]
    <3>1. Undoing' = Undoing \cup {t}
      BY <2>2 DEF Undoing, EnvTypes
    <3> QED
      BY <2>2, <3>1
  <2> QED
    BY <2>1, <2>2 DEF alloc_env, MoveTo
<1>4. UsageCountsHandles'
  <2>1. Cardinality(held \cup {t}) = usage_count + 1
    BY <1>1, <1>2, FS_AddElement
  <2> QED
    BY <1>3, <2>1 DEF alloc_env, UsageCountsHandles, Undoing
<1>5. HandlesCounted'
  BY <1>4 DEF HandlesRight, HandlesCounted, alloc_env, MoveTo, EnvTypes
<1>6. fd' # NIL => fd' \in open_fds'
  BY DEF HandlesRight, DeviceHeld, alloc_env, OpenCfg
<1>7. ASSUME NEW u \in Callers, u \in holds', stage'[u] # "destroyed"
      PROVE  fd' # NIL
  <2>1. CASE u = t
    BY <1>7, <2>1 DEF alloc_env
  <2>2. CASE u # t
    <3>1. u \in holds /\ fd # NIL
      BY <1>7, <2>2 DEF alloc_env, MoveTo, EnvTypes, HandlesRight, DeviceHeld, HandleHasDevice
    <3>2. usage_count # 0
      BY <1>1, <3>1, FS_EmptySet
    <3> QED
      BY <3>1, <3>2 DEF alloc_env, OpenCfg
  <2> QED
    BY <2>1, <2>2
<1> QED
  BY <1>5, <1>6, <1>7 DEF HandlesRight, DeviceHeld, HandleHasDevice, EnvTypes

(* Who closes the device has the only handle. *)
LEMMA destroy_envKeepsHandles ==
    ASSUME EnvTypes, EnvTypes', HandlesRight, NEW t \in Callers, destroy_env(t)
    PROVE  HandlesRight'
<1> DEFINE held == holds \cup Undoing
<1>1. IsFiniteSet(held) /\ usage_count = Cardinality(held)
  BY Finite DEF HandlesRight, HandlesCounted, UsageCountsHandles, Undoing
<1>2. Undoing' = Undoing /\ holds' = holds
  BY DEF destroy_env, Undoing, MoveTo, EnvTypes
<1>3. HandlesCounted'
  BY <1>2 DEF HandlesRight, HandlesCounted, UsageCountsHandles, Undoing, destroy_env, MoveTo,
              EnvTypes
<1>4. CASE fd' = fd /\ open_fds' = open_fds
  <2>1. \A u \in Callers : stage'[u] # "destroyed" => stage[u] # "destroyed"
    BY DEF destroy_env, MoveTo, EnvTypes
  <2> QED
    BY <1>2, <1>3, <1>4, <2>1 DEF HandlesRight, DeviceHeld, HandleHasDevice, EnvTypes
<1>5. CASE usage_count = 1 /\ fd' = NIL /\ stage' = [stage EXCEPT ![t] = "destroyed"]
  <2>1. held = {t}
    <3>1. t \in held
      BY DEF destroy_env
    <3>2. PICK x : held = {x}
      BY <1>1, <1>5, FS_Singleton
    <3> QED
      BY <3>1, <3>2
  <2>2. \A u \in holds' : stage'[u] = "destroyed"
    BY <1>2, <1>5, <2>1 DEF EnvTypes
  <2> QED
    BY <1>3, <1>5, <2>2 DEF HandlesRight, DeviceHeld, HandleHasDevice
<1> QED
  BY <1>3, <1>4, <1>5 DEF destroy_env, MoveTo, HandlesRight

(* A handle less. *)
LEMMA free_envKeepsHandles ==
    ASSUME EnvTypes, EnvTypes', HandlesRight, NEW t \in Callers, free_env(t)
    PROVE  HandlesRight'
<1> DEFINE held == holds \cup Undoing
<1>1. IsFiniteSet(held) /\ usage_count = Cardinality(held)
  BY Finite DEF HandlesRight, HandlesCounted, UsageCountsHandles, Undoing
<1>2. t \in held
  BY DEF free_env, Undoing, HandlesRight, HandlesCounted
<1>3. holds' \cup Undoing' = held \ {t}
  BY DEF free_env, Undoing, MoveTo, EnvTypes
<1>4. UsageCountsHandles'
  <2>1. Cardinality(held \ {t}) = usage_count - 1
    BY <1>1, <1>2, FS_RemoveElement
  <2> QED
    BY <1>3, <2>1 DEF free_env, UsageCountsHandles, Undoing
<1>5. HandlesCounted'
  BY <1>4 DEF HandlesRight, HandlesCounted, free_env, MoveTo, EnvTypes
<1>6. DeviceHeld'
  BY DEF HandlesRight, DeviceHeld, HandleHasDevice, free_env, MoveTo, EnvTypes
<1> QED
  BY <1>5, <1>6 DEF HandlesRight

-----------------------------------------------------------------------------
(* The list: three actions change it. *)

(* A connection before the head. *)
LEMMA alloc_conKeepsList ==
    ASSUME EnvTypes, EnvTypes', ListRight, NEW t \in Callers, alloc_con(t)
    PROVE  ListRight'
<1>1. PICK c \in Conns \ allocated :
          /\ allocated' = allocated \cup {c}
          /\ owner' = [owner EXCEPT ![c] = t]
          /\ next' = [next EXCEPT ![c] = head]
          /\ prev' = [x \in Conns |-> IF x = c THEN NIL
                                     ELSE IF x = head THEN c ELSE prev[x]]
          /\ head' = c
          /\ connection_count' = connection_count + 1
  BY DEF alloc_con
<1>2. Leaving' = Leaving /\ c \notin Leaving
  BY DEF alloc_con, Leaving, ListRight, FreesItsOwn
<1>3. Listed' = Listed \cup {c} /\ c \notin Listed
  BY <1>1, <1>2 DEF Listed
<1>4. FreesItsOwn'
  BY <1>1 DEF alloc_con, ListRight, FreesItsOwn, EnvTypes
<1>5. ConnectionsCounted'
  <2>1. Cardinality(Listed \cup {c}) = Cardinality(Listed) + 1
    BY <1>3, Finite, FS_AddElement
  <2> QED
    BY <1>1, <1>3, <2>1 DEF ListRight, ConnectionsCounted
<1>6. NIL \notin Conns /\ Listed \subseteq Conns
  BY Finite DEF Listed, EnvTypes
<1>7. LinksAgree'
  <2>1. /\ head' \in Listed' \cup {NIL}
        /\ \A x \in Listed' : next'[x] \in Listed' \cup {NIL} /\ prev'[x] \in Listed' \cup {NIL}
    BY <1>1, <1>3, <1>6 DEF ListRight, LinksAgree, EnvTypes
  <2>2. \A x \in Listed' : prev'[x] = NIL <=> x = head'
    BY <1>1, <1>3, <1>6 DEF ListRight, LinksAgree, EnvTypes
  <2>3. ASSUME NEW x \in Listed', NEW y \in Listed'
        PROVE  next'[x] = y <=> prev'[y] = x
    <3>1. CASE x = c
      BY <1>1, <1>3, <1>6, <3>1 DEF ListRight, LinksAgree, EnvTypes
    <3>2. CASE x # c /\ y = c
      BY <1>1, <1>3, <1>6, <3>2 DEF ListRight, LinksAgree, EnvTypes
    <3>3. CASE x # c /\ y # c
      BY <1>1, <1>3, <1>6, <3>3 DEF ListRight, LinksAgree, EnvTypes
    <3> QED
      BY <3>1, <3>2, <3>3
  <2> QED
    BY <2>1, <2>2, <2>3 DEF LinksAgree
<1> QED
  BY <1>4, <1>5, <1>7 DEF ListRight

(* A connection less, its neighbours linked to each other. *)
LEMMA remove_conKeepsList ==
    ASSUME EnvTypes, EnvTypes', ListRight, NEW t \in Callers, remove_con(t)
    PROVE  ListRight'
<1>1. PICK c \in Owned(t) \ connected :
          /\ next' = [x \in Conns |-> IF x = c THEN NIL
                                     ELSE IF x = prev[c] THEN next[c] ELSE next[x]]
          /\ prev' = [x \in Conns |-> IF x = c THEN NIL
                                     ELSE IF x = next[c] THEN prev[c] ELSE prev[x]]
          /\ head' = IF head = c THEN next[c] ELSE head
          /\ cur' = [cur EXCEPT ![t] = c]
  BY DEF remove_con
<1>2. /\ c \in allocated /\ owner[c] = t /\ stage[t] = "user" /\ mutex = NIL
      /\ allocated' = allocated /\ owner' = owner
      /\ connection_count' = connection_count - 1
  BY DEF remove_con, Owned, conVars
<1>3. \E place \in {"join", "free"} : stage' = [stage EXCEPT ![t] = place]
  BY DEF remove_con, MoveTo
<1>4. c \notin Leaving
  BY <1>2 DEF Leaving, ListRight, FreesItsOwn
<1>5. Leaving' = Leaving \cup {c}
  <2>1. \A x : x \in Leaving' => x \in Leaving \cup {c}
    BY <1>1, <1>3 DEF Leaving, EnvTypes
  <2>2. \A x : x \in Leaving \cup {c} => x \in Leaving'
    BY <1>1, <1>2, <1>3 DEF Leaving, EnvTypes
  <2> QED
    BY <2>1, <2>2
<1>6. Listed' = Listed \ {c} /\ c \in Listed
  BY <1>2, <1>4, <1>5 DEF Listed
<1>7. FreesItsOwn'
  <2>1. ASSUME NEW u \in Callers, stage'[u] \in {"join", "free"}
        PROVE  cur'[u] \in allocated' /\ owner'[cur'[u]] = u
    BY <1>1, <1>2, <1>3, <2>1 DEF ListRight, FreesItsOwn, EnvTypes
  <2>2. ASSUME NEW u \in Callers, stage'[u] = "join" PROVE mutex' = u
    <3>1. CASE u = t
      BY <2>2, <3>1 DEF remove_con, MoveTo, EnvTypes
    <3>2. CASE u # t
      BY <1>2, <1>3, <2>2, <3>2, CspiAssumption DEF ListRight, FreesItsOwn, EnvTypes
    <3> QED
      BY <3>1, <3>2
  <2> QED
    BY <2>1, <2>2 DEF FreesItsOwn
<1>8. ConnectionsCounted'
  <2>1. Cardinality(Listed \ {c}) = Cardinality(Listed) - 1
    BY <1>6, Finite, FS_RemoveElement
  <2> QED
    BY <1>2, <1>6, <2>1 DEF ListRight, ConnectionsCounted
<1>9. NIL \notin Conns /\ Listed \subseteq Conns
  BY Finite DEF Listed, EnvTypes
<1>10. LinksAgree'
  <2>1. /\ head' \in Listed' \cup {NIL}
        /\ \A x \in Listed' : next'[x] \in Listed' \cup {NIL} /\ prev'[x] \in Listed' \cup {NIL}
    BY <1>1, <1>6, <1>9 DEF ListRight, LinksAgree, EnvTypes
  <2>2. \A x \in Listed' : prev'[x] = NIL <=> x = head'
    BY <1>1, <1>6, <1>9 DEF ListRight, LinksAgree, EnvTypes
  <2>3. ASSUME NEW x \in Listed', NEW y \in Listed'
        PROVE  next'[x] = y <=> prev'[y] = x
    BY <1>1, <1>6, <1>9 DEF ListRight, LinksAgree, EnvTypes
  <2> QED
    BY <2>1, <2>2, <2>3 DEF LinksAgree
<1> QED
  BY <1>7, <1>8, <1>10 DEF ListRight

(* What is freed is not in the list any more. *)
LEMMA free_conKeepsList ==
    ASSUME EnvTypes, EnvTypes', ListRight, NEW t \in Callers, free_con(t)
    PROVE  ListRight'
<1>1. /\ stage[t] = "free" /\ cur[t] \in allocated /\ owner[cur[t]] = t
      /\ allocated' = allocated \ {cur[t]} /\ owner' = [owner EXCEPT ![cur[t]] = NIL]
      /\ cur' = [cur EXCEPT ![t] = NIL] /\ stage' = [stage EXCEPT ![t] = "user"]
      /\ UNCHANGED << mutex, head, next, prev, connection_count >>
  BY DEF free_con, ListRight, FreesItsOwn, MoveTo
<1>2. \A u \in Callers : u # t /\ stage[u] \in {"join", "free"} => cur[u] # cur[t]
  BY <1>1, FreesAlone
<1>3. Leaving' = Leaving \ {cur[t]}
  <2>1. \A x : x \in Leaving' => x \in Leaving \ {cur[t]}
    BY <1>1, <1>2 DEF Leaving, EnvTypes
  <2>2. \A x : x \in Leaving \ {cur[t]} => x \in Leaving'
    BY <1>1 DEF Leaving, EnvTypes
  <2> QED
    BY <2>1, <2>2
<1>4. cur[t] \in Leaving
  BY <1>1 DEF Leaving
<1>5. Listed' = Listed
  BY <1>1, <1>3, <1>4 DEF Listed
<1>6. FreesItsOwn'
  BY <1>1, <1>2 DEF ListRight, FreesItsOwn, EnvTypes
<1>7. LinksAgree' /\ ConnectionsCounted'
  BY <1>1, <1>5 DEF ListRight, LinksAgree, ConnectionsCounted
<1> QED
  BY <1>6, <1>7 DEF ListRight

-----------------------------------------------------------------------------
(* Every step keeps the invariant. *)
LEMMA NextKeepsEnvInv == EnvInv /\ [EnvNext]_cspiVars => EnvInv'
<1> SUFFICES ASSUME EnvInv, [EnvNext]_cspiVars PROVE EnvInv'
  OBVIOUS
<1> EnvTypes /\ HandlesRight /\ ListRight
  BY DEF EnvInv, HandlesRight, ListRight
<1>s. CASE UNCHANGED cspiVars
  <2>1. EnvTypes'
    BY <1>s DEF cspiVars, envVars, listVars, conVars, EnvTypes
  <2>2. HandlesRight'
    BY <1>s, <2>1, HandlesSame DEF cspiVars
  <2>3. ListRight'
    BY <1>s, <2>1, ListSame DEF cspiVars, conVars, ListRight, FreesItsOwn
  <2> QED
    BY <2>1, <2>2, <2>3 DEF EnvInv, HandlesRight, ListRight
<1>n. CASE EnvNext
  <2> EnvTypes'
    BY <1>n, TypesKept
  <2> SUFFICES HandlesRight' /\ ListRight'
    BY DEF EnvInv, HandlesRight, ListRight
  <2>1. ASSUME NEW t \in Callers, alloc_env(t) \/ destroy_env(t) \/ free_env(t)
        PROVE  HandlesRight' /\ ListRight'
    <3>1. HandlesRight'
      BY <2>1, alloc_envKeepsHandles, destroy_envKeepsHandles, free_envKeepsHandles
    <3>2. /\ UNCHANGED << listVars, owner, cur >>
          /\ \A u \in Callers : stage'[u] \in {"join", "free"} <=> stage[u] \in {"join", "free"}
          /\ \A u \in Callers : stage'[u] = "join" => stage[u] = "join"
          /\ mutex' = mutex \/ mutex = NIL
      BY <2>1 DEF alloc_env, destroy_env, free_env, MoveTo, EnvTypes, conVars
    <3>3. \A u \in Callers : stage'[u] = "join" => mutex' = u
      BY <3>2, CspiAssumption DEF ListRight, FreesItsOwn
    <3> QED
      BY <3>1, <3>2, <3>3, ListSame
  <2>2. ASSUME NEW t \in Callers, alloc_con(t) \/ remove_con(t) \/ free_con(t)
        PROVE  HandlesRight' /\ ListRight'
    <3>1. ListRight'
      BY <2>2, alloc_conKeepsList, remove_conKeepsList, free_conKeepsList
    <3>2. /\ UNCHANGED envVars
          /\ \A u \in Callers : stage'[u] = "undo" <=> stage[u] = "undo"
          /\ \A u \in Callers : stage'[u] = "destroyed" <=> stage[u] = "destroyed"
      BY <2>2 DEF alloc_con, remove_con, free_con, MoveTo, EnvTypes
    <3> QED
      BY <3>1, <3>2, HandlesSame
  <2>3. ASSUME NEW t \in Callers, pthread_join(t) PROVE HandlesRight' /\ ListRight'
    <3>1. /\ UNCHANGED << envVars, listVars, owner, cur >>
          /\ stage[t] = "join" /\ stage' = [stage EXCEPT ![t] = "free"] /\ mutex' = NIL
      BY <2>3 DEF pthread_join, MoveTo, conVars
    <3>2. \A u \in Callers : stage'[u] # "join"
      BY <3>1 DEF EnvTypes, ListRight, FreesItsOwn
    <3>3. HandlesRight'
      BY <3>1, HandlesSame DEF EnvTypes
    <3>4. ListRight'
      BY <3>1, <3>2, ListSame DEF EnvTypes
    <3> QED
      BY <3>3, <3>4
  <2>4. ASSUME NEW t \in Callers, create_event_thread(t) \/ base_setconparam(t)
        PROVE  HandlesRight' /\ ListRight'
    <3>1. /\ UNCHANGED << mutex, envVars, listVars, owner >>
          /\ stage[t] \in {"user", "handler"}
          /\ \E place \in {"user", "handler"} : stage' = [stage EXCEPT ![t] = place]
          /\ \A u \in Callers : u # t => cur'[u] = cur[u]
      BY <2>4 DEF create_event_thread, base_setconparam, MoveTo, conVars, EnvTypes
    <3>2. HandlesRight'
      BY <3>1, HandlesSame DEF EnvTypes
    <3>3. ListRight'
      <4>1. \A u \in Callers : stage'[u] \in {"join", "free"} <=> stage[u] \in {"join", "free"}
        BY <3>1 DEF EnvTypes
      <4>2. \A u \in Callers : stage[u] \in {"join", "free"} => cur'[u] = cur[u]
        BY <3>1
      <4>3. \A u \in Callers : stage'[u] = "join" => mutex' = u
        BY <3>1 DEF EnvTypes, ListRight, FreesItsOwn
      <4> QED
        BY <3>1, <4>1, <4>2, <4>3, ListSame
    <3> QED
      BY <3>2, <3>3
  <2>5. ASSUME NEW t \in Callers, cspi_connect(t) \/ cspi_disconnect(t)
        PROVE  HandlesRight' /\ ListRight'
    <3>1. UNCHANGED << mutex, envVars, listVars, owner, stage, cur >>
      BY <2>5 DEF cspi_connect, cspi_disconnect
    <3> QED
      BY <3>1, HandlesSame, ListSame DEF ListRight, FreesItsOwn
  <2>6. CASE event_thread
    <3>1. UNCHANGED << mutex, envVars, listVars, owner, stage, cur >>
      BY <2>6 DEF event_thread, EventThreadStarts, EventArrives, Dispatch,
                  EventThreadExits, conVars
    <3> QED
      BY <3>1, HandlesSame, ListSame DEF ListRight, FreesItsOwn
  <2> QED
    BY <1>n, <2>1, <2>2, <2>3, <2>4, <2>5, <2>6
    DEF EnvNext, cspi_allochandle, cspi_freehandle, Finish
<1> QED
  BY <1>s, <1>n

-----------------------------------------------------------------------------
(* cspi_allochandle and cspi_freehandle: the count, the device, the list    *)
(* and the threads in the middle of a call are consistent, in any order.    *)
THEOREM HandlesConsistent == EnvSpec => []EnvInv
<1> QED
  BY InitEnvInv, NextKeepsEnvInv, PTL DEF EnvSpec

(* While a thread holds a handle the device of the Environment is open: no  *)
(* other thread that frees its handle (destroy_env, free_env), or fails to  *)
(* get one (alloc_env), closes it.                                          *)
THEOREM HandlesAlwaysHaveDevice == EnvSpec => []HandleHasDevice
<1>1. EnvInv => HandleHasDevice
  BY DEF EnvInv, DeviceHeld
<1> QED
  BY <1>1, HandlesConsistent, PTL

(* insert_con and remove_con keep the links of the list agreeing both ways, *)
(* and connection_count the number of connections not yet removed.          *)
THEOREM ListAlwaysLinked == EnvSpec => [](LinksAgree /\ ConnectionsCounted)
<1>1. EnvInv => LinksAgree /\ ConnectionsCounted
  BY DEF EnvInv
<1> QED
  BY <1>1, HandlesConsistent, PTL

-----------------------------------------------------------------------------
(* The list has an order *)

(* Along the links the numbers of the connections fall, from some number on. *)
Ordered ==
    \E m \in Nat : \E rank \in [Conns -> 0 .. m] :
        \A c \in Listed : next[c] # NIL => rank[next[c]] < rank[c]

(* The device of a connection is closed before it is freed. *)
ConnectionTypes ==
    /\ connected \in SUBSET allocated /\ handler \in SUBSET allocated
    /\ \A t \in Callers : stage[t] \in {"join", "free"} => cur[t] \notin connected

EventTypes ==
    /\ evaction \in BOOLEAN /\ termination \in BOOLEAN
    /\ ev \in {"none", "start", "select", "walk", "exited"} /\ walked \in Conns \cup {NIL}

WholeInv == EnvInv /\ Ordered /\ ConnectionTypes /\ EventTypes

(* A new connection comes before all others. *)
LEMMA alloc_conKeepsOrder ==
    ASSUME EnvInv, Ordered, NEW t \in Callers, alloc_con(t)
    PROVE  Ordered'
<1>1. EnvTypes /\ ListRight
  BY DEF EnvInv, ListRight
<1>2. PICK c \in Conns \ allocated :
          /\ allocated' = allocated \cup {c}
          /\ next' = [next EXCEPT ![c] = head]
  BY DEF alloc_con
<1>3. Leaving' = Leaving /\ c \notin Leaving
  BY <1>1, <1>2 DEF alloc_con, Leaving, ListRight, FreesItsOwn
<1>4. Listed' = Listed \cup {c} /\ c \notin Listed /\ Listed \subseteq Conns /\ NIL \notin Conns
  BY <1>1, <1>2, <1>3, Finite DEF Listed, EnvTypes
<1>5. PICK m \in Nat : \E rank \in [Conns -> 0 .. m] :
          \A x \in Listed : next[x] # NIL => rank[next[x]] < rank[x]
  BY DEF Ordered
<1>6. PICK rank \in [Conns -> 0 .. m] :
          \A x \in Listed : next[x] # NIL => rank[next[x]] < rank[x]
  BY <1>5
<1> DEFINE first == [rank EXCEPT ![c] = m + 1]
<1>7. /\ first \in [Conns -> 0 .. m + 1] /\ m + 1 \in Nat /\ first[c] = m + 1
      /\ \A x \in Conns : x # c => first[x] = rank[x]
  BY <1>2
<1> HIDE DEF first
<1>8. ASSUME NEW x \in Listed', next'[x] # NIL PROVE first[next'[x]] < first[x]
  <2>1. CASE x = c
    <3>1. next'[x] = head /\ head \in Listed
      BY <1>1, <1>2, <1>8, <2>1 DEF EnvTypes, ListRight, LinksAgree
    <3>2. rank[head] <= m /\ rank[head] \in Nat
      BY <1>4, <1>6, <3>1
    <3> QED
      BY <1>4, <1>5, <1>7, <2>1, <3>1, <3>2
  <2>2. CASE x # c
    <3>1. x \in Listed /\ next'[x] = next[x] /\ next[x] \in Listed
      BY <1>1, <1>2, <1>4, <1>8, <2>2 DEF EnvTypes, ListRight, LinksAgree
    <3> QED
      BY <1>4, <1>6, <1>7, <1>8, <2>2, <3>1
  <2> QED
    BY <2>1, <2>2
<1> QED
  BY <1>7, <1>8 DEF Ordered

(* What is left of the list without a connection keeps its order. *)
LEMMA remove_conKeepsOrder ==
    ASSUME EnvInv, Ordered, NEW t \in Callers, remove_con(t)
    PROVE  Ordered'
<1>1. EnvTypes /\ ListRight
  BY DEF EnvInv, ListRight
<1>2. PICK c \in Owned(t) \ connected :
          /\ next' = [x \in Conns |-> IF x = c THEN NIL
                                     ELSE IF x = prev[c] THEN next[c] ELSE next[x]]
          /\ cur' = [cur EXCEPT ![t] = c]
  BY DEF remove_con
<1>3. /\ c \in allocated /\ owner[c] = t /\ stage[t] = "user" /\ allocated' = allocated
      /\ \E place \in {"join", "free"} : stage' = [stage EXCEPT ![t] = place]
  BY DEF remove_con, Owned, MoveTo
<1>4. Leaving' = Leaving \cup {c} /\ c \notin Leaving
  <2>1. \A x : x \in Leaving' => x \in Leaving \cup {c}
    BY <1>1, <1>2, <1>3 DEF Leaving, EnvTypes
  <2>2. \A x : x \in Leaving \cup {c} => x \in Leaving'
    BY <1>1, <1>2, <1>3 DEF Leaving, EnvTypes
  <2> QED
    BY <1>1, <1>3, <2>1, <2>2 DEF Leaving, ListRight, FreesItsOwn
<1>5. Listed' = Listed \ {c} /\ c \in Listed /\ Listed \subseteq Conns /\ NIL \notin Conns
  BY <1>1, <1>3, <1>4, Finite DEF Listed, EnvTypes
<1>6. PICK m \in Nat : \E rank \in [Conns -> 0 .. m] :
          \A x \in Listed : next[x] # NIL => rank[next[x]] < rank[x]
  BY DEF Ordered
<1>7. PICK rank \in [Conns -> 0 .. m] :
          \A x \in Listed : next[x] # NIL => rank[next[x]] < rank[x]
  BY <1>6
<1>8. \A x \in Conns : rank[x] \in Nat
  BY <1>7
<1>9. ASSUME NEW x \in Listed', next'[x] # NIL PROVE rank[next'[x]] < rank[x]
  <2>1. x \in Listed /\ x # c /\ x \in Conns
    BY <1>5
  <2>2. CASE x = prev[c]
    <3>1. next'[x] = next[c] /\ next[x] = c /\ next[c] \in Listed
      BY <1>1, <1>2, <1>5, <1>9, <2>1, <2>2 DEF ListRight, LinksAgree
    <3>2. rank[next[c]] < rank[c] /\ rank[c] < rank[x]
      BY <1>5, <1>7, <2>1, <3>1
    <3>3. next[c] \in Conns
      BY <1>5, <3>1
    <3> QED
      BY <1>5, <1>8, <2>1, <3>1, <3>2, <3>3
  <2>3. CASE x # prev[c]
    BY <1>2, <1>7, <1>9, <2>1, <2>3
  <2> QED
    BY <2>2, <2>3
<1> QED
  BY <1>7, <1>9 DEF Ordered

(* The other steps leave the list as it is. *)
LEMMA OrderKept ==
    ASSUME EnvInv, Ordered, [EnvNext]_cspiVars
    PROVE  Ordered'
<1>1. EnvTypes /\ ListRight
  BY DEF EnvInv, ListRight
<1>2. ASSUME NEW t \in Callers, alloc_con(t) \/ remove_con(t) PROVE Ordered'
  BY <1>2, alloc_conKeepsOrder, remove_conKeepsOrder
<1>3. ASSUME Listed' = Listed, next' = next PROVE Ordered'
  BY <1>3 DEF Ordered
<1>4. ASSUME UNCHANGED << allocated, next >>,
             \A u \in Callers : stage'[u] \in {"join", "free"} <=> stage[u] \in {"join", "free"},
             \A u \in Callers : stage[u] \in {"join", "free"} => cur'[u] = cur[u]
      PROVE  Ordered'
  <2>1. Leaving' = Leaving
    BY <1>4 DEF Leaving
  <2> QED
    BY <1>3, <1>4, <2>1 DEF Listed
<1>5. ASSUME NEW t \in Callers, alloc_env(t) \/ destroy_env(t) \/ free_env(t) PROVE Ordered'
  BY <1>1, <1>4, <1>5 DEF alloc_env, destroy_env, free_env, MoveTo, EnvTypes, listVars
<1>6. ASSUME NEW t \in Callers, cspi_connect(t) \/ cspi_disconnect(t) PROVE Ordered'
  BY <1>1, <1>4, <1>6 DEF cspi_connect, cspi_disconnect, listVars
<1>7. ASSUME NEW t \in Callers, base_setconparam(t) \/ create_event_thread(t) \/ pthread_join(t)
      PROVE  Ordered'
  BY <1>1, <1>4, <1>7 DEF base_setconparam, create_event_thread, pthread_join, MoveTo, EnvTypes,
                          listVars
<1>8. ASSUME NEW t \in Callers, free_con(t) PROVE Ordered'
  <2>1. /\ stage[t] = "free" /\ allocated' = allocated \ {cur[t]} /\ next' = next
        /\ cur' = [cur EXCEPT ![t] = NIL] /\ stage' = [stage EXCEPT ![t] = "user"]
    BY <1>8 DEF free_con, MoveTo
  <2>2. \A u \in Callers : u # t /\ stage[u] \in {"join", "free"} => cur[u] # cur[t]
    BY <1>1, <2>1, FreesAlone
  <2>3. \A x : x \in Leaving' <=> x \in Leaving \ {cur[t]}
    BY <1>1, <2>1, <2>2 DEF Leaving, EnvTypes
  <2>4. cur[t] \in Leaving
    BY <2>1 DEF Leaving
  <2>5. Listed' = Listed
    BY <2>1, <2>3, <2>4 DEF Listed
  <2> QED
    BY <1>3, <2>1, <2>5
<1>9. CASE event_thread
  BY <1>4, <1>9 DEF event_thread, EventThreadStarts, EventArrives, Dispatch, EventThreadExits,
                    listVars
<1>10. CASE UNCHANGED cspiVars
  BY <1>4, <1>10 DEF cspiVars, listVars
<1> QED
  BY <1>2, <1>5, <1>6, <1>7, <1>8, <1>9, <1>10
  DEF EnvNext, cspi_allochandle, cspi_freehandle, Finish

(* Devices are opened and closed, and handlers set, by the owner only, when  *)
(* it is not freeing the connection.                                         *)
LEMMA ConnectionTypesKept ==
    ASSUME EnvInv, ConnectionTypes, [EnvNext]_cspiVars
    PROVE  ConnectionTypes'
<1>1. EnvTypes /\ ListRight
  BY DEF EnvInv, ListRight
<1>2. ASSUME UNCHANGED << connected, handler >>, allocated \subseteq allocated',
             \A u \in Callers : stage'[u] \in {"join", "free"} <=> stage[u] \in {"join", "free"},
             \A u \in Callers : stage[u] \in {"join", "free"} => cur'[u] = cur[u]
      PROVE  ConnectionTypes'
  BY <1>2 DEF ConnectionTypes
<1>3. ASSUME NEW t \in Callers, alloc_env(t) \/ destroy_env(t) \/ free_env(t)
      PROVE  ConnectionTypes'
  BY <1>1, <1>2, <1>3 DEF alloc_env, destroy_env, free_env, MoveTo, EnvTypes, listVars, conVars
<1>4. ASSUME NEW t \in Callers, alloc_con(t) PROVE ConnectionTypes'
  BY <1>1, <1>2, <1>4 DEF alloc_con
<1>5. ASSUME NEW t \in Callers, cspi_connect(t) PROVE ConnectionTypes'
  <2>1. PICK c \in (Owned(t) \cap Active) \ connected : connected' = connected \cup {c}
    BY <1>5 DEF cspi_connect
  <2>2. /\ stage[t] = "user" /\ owner[c] = t /\ c \in allocated
        /\ UNCHANGED << allocated, handler, stage, cur >>
    BY <1>5, <2>1 DEF cspi_connect, listVars, Owned
  <2>3. \A u \in Callers : stage[u] \in {"join", "free"} => cur[u] # c
    BY <1>1, <2>2 DEF ListRight, FreesItsOwn
  <2> QED
    BY <2>1, <2>2, <2>3 DEF ConnectionTypes
<1>6. ASSUME NEW t \in Callers, cspi_disconnect(t) PROVE ConnectionTypes'
  BY <1>6 DEF cspi_disconnect, listVars, ConnectionTypes
<1>7. ASSUME NEW t \in Callers, base_setconparam(t) PROVE ConnectionTypes'
  <2>1. PICK c \in Owned(t) \cap Active :
           handler' = handler \cup {c} /\ cur' = [cur EXCEPT ![t] = c]
    BY <1>7 DEF base_setconparam
  <2>2. /\ c \in allocated /\ UNCHANGED << allocated, connected >>
        /\ stage' = [stage EXCEPT ![t] = "handler"]
    BY <1>7, <2>1 DEF base_setconparam, listVars, Owned, MoveTo
  <2> QED
    BY <1>1, <2>1, <2>2 DEF ConnectionTypes, EnvTypes
<1>8. ASSUME NEW t \in Callers, create_event_thread(t) PROVE ConnectionTypes'
  BY <1>1, <1>8 DEF create_event_thread, MoveTo, EnvTypes, listVars, conVars, ConnectionTypes
<1>9. ASSUME NEW t \in Callers, remove_con(t) PROVE ConnectionTypes'
  <2>1. PICK c \in Owned(t) \ connected : cur' = [cur EXCEPT ![t] = c]
    BY <1>9 DEF remove_con
  <2>2. /\ UNCHANGED << allocated, connected, handler >>
        /\ \E place \in {"join", "free"} : stage' = [stage EXCEPT ![t] = place]
    BY <1>9 DEF remove_con, conVars, MoveTo
  <2> QED
    BY <1>1, <2>1, <2>2 DEF ConnectionTypes, EnvTypes
<1>10. ASSUME NEW t \in Callers, pthread_join(t) PROVE ConnectionTypes'
  BY <1>1, <1>2, <1>10 DEF pthread_join, MoveTo, EnvTypes, listVars, conVars
<1>11. ASSUME NEW t \in Callers, free_con(t) PROVE ConnectionTypes'
  <2>1. /\ stage[t] = "free" /\ allocated' = allocated \ {cur[t]} /\ handler' = handler \ {cur[t]}
        /\ stage' = [stage EXCEPT ![t] = "user"] /\ cur' = [cur EXCEPT ![t] = NIL]
        /\ connected' = connected
    BY <1>11 DEF free_con, MoveTo
  <2>2. cur[t] \notin connected
    BY <2>1 DEF ConnectionTypes
  <2> QED
    BY <1>1, <2>1, <2>2 DEF ConnectionTypes, EnvTypes
<1>12. CASE event_thread \/ UNCHANGED cspiVars
  BY <1>2, <1>12 DEF event_thread, EventThreadStarts, EventArrives, Dispatch, EventThreadExits,
                     listVars, conVars, cspiVars
<1> QED
  BY <1>3, <1>4, <1>5, <1>6, <1>7, <1>8, <1>9, <1>10, <1>11, <1>12
  DEF EnvNext, cspi_allochandle, cspi_freehandle, Finish

(* The event thread keeps the types of its own variables. *)
LEMMA EventTypesKept ==
    ASSUME EnvInv, ConnectionTypes, EventTypes, [EnvNext]_cspiVars
    PROVE  EventTypes'
<1>. USE DEF EventTypes
<1>1. EnvTypes
  BY DEF EnvInv
<1>2. ASSUME NEW t \in Callers,
             \/ cspi_allochandle(t) \/ destroy_env(t) \/ cspi_connect(t) \/ cspi_disconnect(t)
             \/ base_setconparam(t) \/ free_env(t) \/ free_con(t)
      PROVE  EventTypes'
  BY <1>2 DEF cspi_allochandle, alloc_env, alloc_con, destroy_env, cspi_connect,
              cspi_disconnect, base_setconparam, free_env, free_con, evVars
<1>3. ASSUME NEW t \in Callers, remove_con(t) \/ create_event_thread(t) \/ pthread_join(t)
      PROVE  EventTypes'
  BY <1>3 DEF remove_con, create_event_thread, pthread_join
<1>4. CASE event_thread
  BY <1>1, <1>4 DEF event_thread, EventThreadStarts, EventArrives, Dispatch, EventThreadExits,
                    EnvTypes
<1>5. CASE UNCHANGED cspiVars
  BY <1>5 DEF cspiVars, evVars
<1> QED
  BY <1>2, <1>3, <1>4, <1>5 DEF EnvNext, cspi_freehandle, Finish

-----------------------------------------------------------------------------
(* The links lead to every connection *)

(* The walk from the head on: one connection for each number. *)
IsWalk(f, n) ==
    f = [i \in 0 .. n |-> IF i = 0 THEN head
                          ELSE IF f[i - 1] = NIL THEN NIL ELSE next[f[i - 1]]]

(* Numbers with a property have a first one with it.                         *)
LEMMA FirstNumber ==
    ASSUME NEW T, T \subseteq Nat, T # {}
    PROVE  \E x \in T : \A y \in T : x <= y
<1>1. IsWellFoundedOn(OpToRel(<, Nat), Nat)
  BY NatLessThanWellFounded
<1>2. PICK x \in T : \A y \in T : ~ (<<y, x>> \in OpToRel(<, Nat))
  BY <1>1, WFMin
<1>3. ASSUME NEW y \in T PROVE x <= y
  <2> SUFFICES ASSUME y < x PROVE FALSE
    OBVIOUS
  <2>1. <<y, x>> \in Nat \X Nat /\ <<y, x>>[1] = y /\ <<y, x>>[2] = x
    OBVIOUS
  <2>2. <<y, x>> \in OpToRel(<, Nat)
    BY <2>1 DEF OpToRel
  <2> QED
    BY <1>2, <2>2
<1> QED
  BY <1>3

(* There is a walk of any length. *)
LEMMA WalkExists ==
    ASSUME NEW n \in Nat
    PROVE  \E f : IsWalk(f, n)
<1> DEFINE T == { k \in Nat : ~ \E f : IsWalk(f, k) }
<1>1. SUFFICES ASSUME T # {} PROVE FALSE
  OBVIOUS
<1>2. PICK m \in T : \A y \in T : m <= y
  BY <1>1, FirstNumber
<1>3. m # 0
  <2> DEFINE f == [i \in 0 .. 0 |-> head]
  <2>1. IsWalk(f, 0)
    BY DEF IsWalk
  <2> QED
    BY <2>1
<1>4. m - 1 \in Nat /\ m - 1 \notin T
  BY <1>2, <1>3
<1>5. PICK f : IsWalk(f, m - 1)
  BY <1>4
<1>6. /\ DOMAIN f = 0 .. m - 1
      /\ \A i \in 0 .. m - 1 : f[i] = IF i = 0 THEN head
                                      ELSE IF f[i - 1] = NIL THEN NIL ELSE next[f[i - 1]]
  BY <1>5 DEF IsWalk
<1> DEFINE g == [i \in 0 .. m |-> IF i = m THEN IF f[m - 1] = NIL THEN NIL ELSE next[f[m - 1]]
                                  ELSE f[i]]
           h == [i \in 0 .. m |-> IF i = 0 THEN head
                                  ELSE IF g[i - 1] = NIL THEN NIL ELSE next[g[i - 1]]]
<1>7. ASSUME NEW i \in 0 .. m PROVE g[i] = h[i]
  <2>1. CASE i = m
    <3>1. g[m - 1] = f[m - 1]
      BY <1>4
    <3> QED
      BY <1>3, <2>1, <3>1
  <2>2. CASE i # m /\ i # 0
    <3>1. i \in 0 .. m - 1 /\ i - 1 \in 0 .. m /\ i - 1 # m
      BY <1>4, <2>2
    <3>2. g[i] = f[i] /\ g[i - 1] = f[i - 1]
      BY <2>2, <3>1
    <3> QED
      BY <1>6, <2>2, <3>1, <3>2
  <2>3. CASE i = 0
    BY <1>3, <1>4, <1>6, <2>3
  <2> QED
    BY <2>1, <2>2, <2>3
<1>8. g = h
  BY <1>7
<1>9. IsWalk(g, m)
  BY <1>8 DEF IsWalk
<1> HIDE DEF g
<1> QED
  BY <1>2, <1>9

(* Reached is what a walk comes to. *)
LEMMA ReachedByWalk ==
    ASSUME Cardinality(Conns) \in Nat
    PROVE  \E f : /\ IsWalk(f, Cardinality(Conns))
                  /\ Reached = { f[i] : i \in 0 .. Cardinality(Conns) } \ {NIL}
<1> DEFINE g == CHOOSE f : IsWalk(f, Cardinality(Conns))
<1>1. IsWalk(g, Cardinality(Conns))
  BY WalkExists
<1>2. Reached = { g[i] : i \in DOMAIN g } \ {NIL}
  BY DEF Reached, IsWalk
<1>3. DOMAIN g = 0 .. Cardinality(Conns)
  <2> HIDE DEF g
  <2> QED
    BY <1>1 DEF IsWalk
<1> HIDE DEF g
<1> QED
  BY <1>1, <1>2, <1>3

(* The walk stays on the list. *)
LEMMA WalkListed ==
    ASSUME EnvInv, NEW n \in Nat, NEW f, IsWalk(f, n)
    PROVE  \A i \in 0 .. n : f[i] \in Listed \cup {NIL}
<1>1. LinksAgree
  BY DEF EnvInv
<1>2. \A i \in 0 .. n : f[i] = IF i = 0 THEN head
                               ELSE IF f[i - 1] = NIL THEN NIL ELSE next[f[i - 1]]
  BY DEF IsWalk
<1> DEFINE T == { i \in 0 .. n : f[i] \notin Listed \cup {NIL} }
<1>3. SUFFICES ASSUME T # {} PROVE FALSE
  OBVIOUS
<1>4. PICK i \in T : \A j \in T : i <= j
  <2>1. T \subseteq Nat
    OBVIOUS
  <2> HIDE DEF T
  <2> QED
    BY <1>3, <2>1, FirstNumber
<1>5. i \in 0 .. n /\ i # 0
  BY <1>1, <1>2 DEF LinksAgree
<1>6. f[i - 1] \in Listed \cup {NIL}
  <2>1. i - 1 \in 0 .. n /\ ~(i <= i - 1)
    BY <1>5
  <2> QED
    BY <1>4, <2>1
<1>7. f[i] \in Listed \cup {NIL}
  BY <1>1, <1>2, <1>5, <1>6 DEF LinksAgree
<1> QED
  BY <1>7

(* And never comes back. *)
LEMMA WalkFalls ==
    ASSUME EnvInv, NEW n \in Nat, NEW f, IsWalk(f, n), NEW m \in Nat, NEW rank \in [Conns -> 0 .. m],
           \A c \in Listed : next[c] # NIL => rank[next[c]] < rank[c]
    PROVE  \A j \in 0 .. n : \A i \in 0 .. n :
               i < j /\ f[j] # NIL => f[i] # NIL /\ rank[f[j]] < rank[f[i]]
<1>1. Listed \subseteq Conns /\ NIL \notin Conns
  BY Finite DEF EnvInv, Listed, EnvTypes
<1>2. \A i \in 0 .. n : f[i] = IF i = 0 THEN head
                               ELSE IF f[i - 1] = NIL THEN NIL ELSE next[f[i - 1]]
  BY DEF IsWalk
<1>3. \A i \in 0 .. n : f[i] \in Listed \cup {NIL}
  BY WalkListed
<1>4. \A c \in Conns : rank[c] \in Int
  OBVIOUS
<1> DEFINE Good(i, j) == i < j /\ f[j] # NIL => f[i] # NIL /\ rank[f[j]] < rank[f[i]]
           T == { j \in 0 .. n : \E i \in 0 .. n : ~Good(i, j) }
<1>5. SUFFICES ASSUME T # {} PROVE FALSE
  OBVIOUS
<1>6. PICK j \in T : \A k \in T : j <= k
  <2>1. T \subseteq Nat
    OBVIOUS
  <2> HIDE DEF T
  <2> QED
    BY <1>5, <2>1, FirstNumber
<1>7. PICK i \in 0 .. n : ~Good(i, j)
  BY <1>6
<1>8. i < j /\ f[j] # NIL /\ j \in 0 .. n
  BY <1>6, <1>7
<1>9. j - 1 \in 0 .. n /\ j - 1 \notin T
  <2>1. j - 1 \in 0 .. n /\ ~(j <= j - 1)
    BY <1>8
  <2> HIDE DEF T
  <2> QED
    BY <1>6, <2>1
<1>10. f[j - 1] # NIL /\ f[j] = next[f[j - 1]]
  BY <1>2, <1>8
<1>11. f[j - 1] \in Listed /\ f[j] \in Listed
  BY <1>3, <1>8, <1>9, <1>10
<1>12. rank[f[j]] < rank[f[j - 1]]
  BY <1>8, <1>10, <1>11
<1>13. CASE i = j - 1
  BY <1>7, <1>10, <1>12, <1>13
<1>14. CASE i # j - 1
  <2>1. i < j - 1
    BY <1>8, <1>14
  <2>2. Good(i, j - 1)
    BY <1>9
  <2>3. f[i] # NIL /\ rank[f[j - 1]] < rank[f[i]]
    BY <1>10, <2>1, <2>2
  <2>4. f[i] \in Listed
    BY <1>3, <2>3
  <2>5. rank[f[j]] < rank[f[i]]
    BY <1>1, <1>4, <1>11, <1>12, <2>3, <2>4
  <2> QED
    BY <1>7, <2>3, <2>5
<1> QED
  BY <1>13, <1>14

(* There are not as many connections as the walk has numbers: it ends. *)
LEMMA WalkEnds ==
    ASSUME EnvInv, Ordered, NEW f, IsWalk(f, Cardinality(Conns))
    PROVE  f[Cardinality(Conns)] = NIL
<1> DEFINE n == Cardinality(Conns)
<1>1. IsFiniteSet(Conns) /\ n \in Nat
  BY CspiAssumption, FS_CardinalityType
<1>2. PICK m \in Nat : \E rank \in [Conns -> 0 .. m] :
          \A x \in Listed : next[x] # NIL => rank[next[x]] < rank[x]
  BY DEF Ordered
<1>3. PICK rank \in [Conns -> 0 .. m] :
          \A x \in Listed : next[x] # NIL => rank[next[x]] < rank[x]
  BY <1>2
<1> SUFFICES ASSUME f[n] # NIL PROVE FALSE
  OBVIOUS
<1>4. IsWalk(f, n)
  OBVIOUS
<1> HIDE DEF n
<1>5. \A j \in 0 .. n : \A i \in 0 .. n :
          i < j /\ f[j] # NIL => f[i] # NIL /\ rank[f[j]] < rank[f[i]]
  BY <1>1, <1>3, <1>4, WalkFalls
<1>6. \A i \in 0 .. n : f[i] \in Listed \cup {NIL}
  BY <1>1, <1>4, WalkListed
<1>7. Listed \subseteq Conns
  BY DEF EnvInv, Listed, EnvTypes
<1>8. \A i \in 0 .. n : f[i] \in Conns
  <2> SUFFICES ASSUME NEW i \in 0 .. n PROVE f[i] # NIL
    BY <1>6, <1>7
  <2>1. CASE i = n
    BY <2>1
  <2>2. CASE i # n
    <3>1. i < n /\ n \in 0 .. n
      BY <1>1, <2>2
    <3> QED
      BY <1>5, <3>1
  <2> QED
    BY <2>1, <2>2
<1>9. f \in [0 .. n -> Conns]
  BY <1>4, <1>8 DEF IsWalk
<1>10. IsFiniteSet(0 .. n) /\ Cardinality(0 .. n) = n + 1
  BY <1>1, FS_Interval
<1>11. Cardinality(Conns) < Cardinality(0 .. n)
  BY <1>1, <1>10 DEF n
<1>12. PICK x \in 0 .. n, y \in 0 .. n : x # y /\ f[x] = f[y]
  BY <1>1, <1>9, <1>10, <1>11, FS_PigeonHole
<1>13. rank[f[x]] \in Int /\ rank[f[y]] \in Int /\ f[x] # NIL /\ f[y] # NIL
  <2>1. NIL \notin Conns
    BY CspiAssumption
  <2> QED
    BY <1>3, <1>8, <2>1
<1>14. rank[f[x]] < rank[f[y]] \/ rank[f[y]] < rank[f[x]]
  <2>1. x < y \/ y < x
    BY <1>12
  <2> QED
    BY <1>5, <1>13, <2>1
<1> QED
  BY <1>12, <1>13, <1>14

(* Of the connections the walk does not come to, the one with the greatest  *)
(* number would have one before it to which the walk does not come either.   *)
LEMMA ReachedIsListed ==
    ASSUME EnvInv, Ordered
    PROVE  Reached = Listed
<1> DEFINE n == Cardinality(Conns)
<1>1. IsFiniteSet(Conns) /\ n \in Nat /\ LinksAgree /\ Listed \subseteq Conns /\ NIL \notin Conns
  BY CspiAssumption, FS_CardinalityType, Finite DEF EnvInv, Listed, EnvTypes
<1>2. PICK f : IsWalk(f, n) /\ Reached = { f[i] : i \in 0 .. n } \ {NIL}
  BY <1>1, ReachedByWalk
<1>3. f[n] = NIL
  BY <1>2, WalkEnds
<1> HIDE DEF n
<1>4. \A i \in 0 .. n : f[i] \in Listed \cup {NIL}
  BY <1>1, <1>2, WalkListed
<1>5. Reached \subseteq Listed
  BY <1>2, <1>4
<1>6. \A i \in 0 .. n : f[i] = IF i = 0 THEN head
                               ELSE IF f[i - 1] = NIL THEN NIL ELSE next[f[i - 1]]
  BY <1>2 DEF IsWalk
<1>7. PICK m \in Nat : \E rank \in [Conns -> 0 .. m] :
          \A x \in Listed : next[x] # NIL => rank[next[x]] < rank[x]
  BY DEF Ordered
<1>8. PICK rank \in [Conns -> 0 .. m] :
          \A x \in Listed : next[x] # NIL => rank[next[x]] < rank[x]
  BY <1>7
<1> DEFINE U == Listed \ Reached
           T == { m - rank[u] : u \in U }
<1>9. ASSUME U # {} PROVE FALSE
  <2>1. T \subseteq Nat /\ T # {}
    BY <1>1, <1>8, <1>9
  <2>2. PICK k \in T : \A l \in T : k <= l
    <3> HIDE DEF T
    <3> QED
      BY <2>1, FirstNumber
  <2>3. PICK u \in U : k = m - rank[u]
    BY <2>2
  <2>4. u \in Listed /\ u # head
    <3>1. 0 \in 0 .. n /\ f[0] = head
      BY <1>1, <1>6
    <3>2. u # NIL
      BY <1>1, <2>3
    <3> QED
      BY <1>2, <2>3, <3>1, <3>2
  <2> DEFINE p == prev[u]
  <2>5. p \in Listed /\ next[p] = u /\ p # NIL
    BY <1>1, <2>4 DEF LinksAgree
  <2>6. rank[u] < rank[p] /\ rank[u] \in 0 .. m /\ rank[p] \in 0 .. m
    BY <1>1, <1>8, <2>4, <2>5
  <2> HIDE DEF p, T
  <2>7. p \notin U
    <3> SUFFICES ASSUME p \in U PROVE FALSE
      OBVIOUS
    <3>1. m - rank[p] \in T
      BY DEF T
    <3>2. m - rank[u] <= m - rank[p]
      BY <2>2, <2>3, <3>1
    <3> QED
      BY <1>7, <2>6, <3>2
  <2>8. PICK i \in 0 .. n : f[i] = p
    BY <1>2, <2>5, <2>7
  <2>9. i + 1 \in 0 .. n /\ i + 1 # 0 /\ (i + 1) - 1 = i
    <3>1. i # n
      BY <1>3, <2>5, <2>8
    <3> QED
      BY <1>1, <3>1
  <2>10. f[i + 1] = u
    BY <1>6, <2>5, <2>8, <2>9
  <2>11. u \in Reached
    BY <1>1, <1>2, <2>4, <2>9, <2>10
  <2> QED
    BY <2>3, <2>11
<1> QED
  BY <1>5, <1>9

-----------------------------------------------------------------------------
(* cspi_allochandle and cspi_freehandle keep the list whole: it has an order *)
(* that ends, and what is connected or has a handler is allocated.           *)
THEOREM ListAlwaysWhole == EnvSpec => []WholeInv
<1>1. EnvInit => WholeInv
  <2> SUFFICES ASSUME EnvInit PROVE WholeInv
    OBVIOUS
  <2>1. Ordered
    <3>1. Listed = {}
      BY DEF EnvInit, Listed
    <3>2. [c \in Conns |-> 0] \in [Conns -> 0 .. 0]
      OBVIOUS
    <3> QED
      BY <3>1, <3>2 DEF Ordered
  <2>2. ConnectionTypes /\ EventTypes
    BY DEF EnvInit, ConnectionTypes, EventTypes
  <2> QED
    BY <2>1, <2>2, InitEnvInv DEF WholeInv
<1>2. WholeInv /\ [EnvNext]_cspiVars => WholeInv'
  <2> SUFFICES ASSUME WholeInv, [EnvNext]_cspiVars PROVE WholeInv'
    OBVIOUS
  <2>1. EnvInv /\ Ordered /\ ConnectionTypes /\ EventTypes
    BY DEF WholeInv
  <2> QED
    BY <2>1, NextKeepsEnvInv, OrderKept, ConnectionTypesKept, EventTypesKept DEF WholeInv
<1> QED
  BY <1>1, <1>2, PTL DEF EnvSpec

(* insert_con, remove_con, alloc_env and free_env: the links lead from the   *)
(* head to exactly the connections that are not freed, and the two counts    *)
(* tell what threads hold, in any order of the calls.                        *)
THEOREM EnvironmentAlwaysConsistent == EnvSpec => []EnvironmentConsistent
<1>1. WholeInv => EnvironmentConsistent
  <2> SUFFICES ASSUME WholeInv PROVE EnvironmentConsistent
    OBVIOUS
  <2>1. EnvInv /\ Ordered /\ ConnectionTypes /\ EventTypes /\ EnvTypes
    BY DEF WholeInv, EnvInv
  <2>2. ListWellFormed
    BY <2>1, ReachedIsListed DEF ListWellFormed, EnvInv, LinksAgree, ConnectionsCounted
  <2>3. UsageCountsHandles
    BY <2>1 DEF EnvInv, HandlesCounted
  <2>4. usage_count \in Nat /\ connection_count \in Nat
    <3>1. IsFiniteSet(holds \cup Undoing) /\ IsFiniteSet(Listed)
      BY <2>1, Finite
    <3>2. Cardinality(holds \cup Undoing) \in Nat /\ Cardinality(Listed) \in Nat
      BY <3>1, FS_CardinalityType
    <3> QED
      BY <2>2, <2>3, <3>2 DEF ListWellFormed, UsageCountsHandles, Undoing
  <2>5. CspiTypeOK
    BY <2>1, <2>4 DEF CspiTypeOK, EnvTypes, Stages, ConnectionTypes, EventTypes
  <2> QED
    BY <2>2, <2>3, <2>5 DEF EnvironmentConsistent
<1> QED
  BY <1>1, ListAlwaysWhole, PTL


-----------------------------------------------------------------------------
(* Parameters (CspiParams): the inductive invariant *)

DevShape(d) ==
    /\ DOMAIN d = {"param", "reg", "pm_freezed"}
    /\ DOMAIN d.param = Params /\ DOMAIN d.reg = Regs

Added(d) ==
    /\ d.param["XOFFSET"] \in Int /\ d.param["BCD_XOFFSET"] \in Int
    /\ d.reg["FA_X"] = d.param["XOFFSET"] + d.param["BCD_XOFFSET"]

DevInv == DevShape(dev) /\ Added(dev)

FileRecords == [modes : SUBSET {"r", "w"}, pos : Nat]
AccRecords == [master : Files \cup {NULL}, readers : Int, writers : {0, 1}, open_count : Nat]

OpenFiles(d) == { f \in Files : DevOf[f] = d /\ file[f] # NULL }
Writes(f) == file[f] # NULL /\ "w" \in file[f].modes

AccessInv ==
    /\ acc \in [Devices -> AccRecords]
    /\ file \in [Files -> FileRecords \cup {NULL}]
    /\ \A d \in Devices :
         /\ acc[d].open_count = Cardinality(OpenFiles(d))
         /\ acc[d].writers = IF acc[d].master = NULL THEN 0 ELSE 1
         /\ acc[d].master # NULL => DevOf[acc[d].master] = d /\ Writes(acc[d].master)
    /\ \A f \in Files : Writes(f) => acc[DevOf[f]].master = f

(* A block call under way has the semaphore, and the buffer to itself. *)
BlockInv ==
    /\ sem \in [Devices -> Files \cup {NULL}] /\ at \in [Files -> {"user", "reading", "writing"}]
    /\ DOMAIN buf = Devices /\ DOMAIN seen = Files
    /\ \A f \in Files : at[f] # "user" =>
         /\ sem[DevOf[f]] = f /\ file[f] # NULL
         /\ DOMAIN buf[DevOf[f]] \subseteq DOMAIN Block[DevOf[f]]
         /\ at[f] = "reading" => seen[f] = buf[DevOf[f]]

Getting == {"get1", "get2"}
Asking  == {"ask1", "ask2"}
Storing == {"bcd1", "bcd2"}
Waiting == {"lock1", "lock2"}
Holding == {"setting"} \cup Getting \cup Asking \cup Storing

Places  == Holding \cup Waiting \cup {"user", "first", "second", "read", "op"}

(* A thread in a call has the environment open, and its mutex where it should. *)
MutexInv ==
    /\ pc \in [Threads -> Places] /\ DOMAIN envmutex = Processes
    /\ \A t \in Threads :
         /\ pc[t] \in Holding => envmutex[Proc(t)] = t
         /\ pc[t] # "user" => file[Proc(t)] # NULL

CallTypes ==
    /\ DOMAIN todo = Threads /\ DOMAIN call = Threads /\ DOMAIN ep = Threads /\ DOMAIN ok = Threads
    /\ dirty \in [Processes -> BOOLEAN] /\ coming \in [Processes -> SUBSET HookCases]
    /\ DOMAIN cache = Processes /\ \A pr \in Processes : DOMAIN cache[pr] = {"x", "sr"}
    /\ failed \in [Processes -> BOOLEAN] /\ level \in BOOLEAN

ThreadInv == MutexInv /\ CallTypes

(* The mirrored members of the two atoms, but for those that commit them. *)
Members == Staged \cup Limits \cup {"ILK_OVERFLOW_DUR"}

(* A call that has set something, and goes on, has set every chosen parameter *)
(* before the next; its file is the master.                                   *)
HasSet(t) == handle_params(call[t].flags) \ todo[t]

Settled(t, k) ==
    /\ \A j \in todo[t] : k < j
    /\ acc["cfg"].master = Proc(t)
    /\ ParamMap[k].idx \in Members =>
         dev.param[ParamMap[k].idx] = Asked(call[t])[ParamMap[k].idx]

SettingOf(t) ==
    /\ \E r \in Requests[t] : call[t].flags = r.flags /\ call[t].p = r.p
    /\ todo[t] \subseteq handle_params(call[t].flags)
    /\ todo[t] # {} => \A k \in HasSet(t) : Settled(t, k)

SettingInv == \A t \in Threads : pc[t] = "setting" => SettingOf(t)

(* Nothing has changed, or will be heard of, that makes pr refill its cache. *)
Quiet(pr) == file[pr] # NULL /\ ~dirty[pr] /\ coming[pr] = {} /\ ~level

Sr == dev.param["SR_AVERAGE_WINDOW"]

(* Then a thread is about to refill it, or has got what is in the FPGA, or it *)
(* is refilled.                                                               *)
Awaits(pr) == \E t \in Threads : Proc(t) = pr /\ pc[t] \in Waiting

Got(t) ==
    \/ pc[t] \in Getting /\ ep[t] = [x |-> dev.param["XOFFSET"], sr |-> 0]
    \/ pc[t] \in Asking /\ ep[t] = [x |-> dev.param["XOFFSET"], sr |-> Sr]
    \/ pc[t] \in Storing /\ cache[Proc(t)].x = dev.param["XOFFSET"] /\ ep[t].sr = Sr

Refilled(pr) ==
    /\ ~Updating(pr)
    /\ failed[pr] \/ (cache[pr].x = dev.reg["FA_X"] /\ cache[pr].sr = Sr)

CacheOf(pr) == Awaits(pr) \/ (\E t \in Threads : Proc(t) = pr /\ Got(t)) \/ Refilled(pr)

CacheInv == \A pr \in Listening : Quiet(pr) => CacheOf(pr)

ParamsInv ==
    /\ DevInv /\ AccessInv /\ BlockInv /\ ThreadInv /\ SettingInv /\ CacheInv
    /\ AtomsOfOneRequest

-----------------------------------------------------------------------------
(* What setting a parameter does *)

(* Mirroring a parameter changes that parameter (Mirror). *)
LEMMA MirrorSets ==
    ASSUME NEW d, DevShape(d), NEW i \in Params, NEW v
    PROVE  /\ DevShape(Mirror(d, i, v)) /\ Mirror(d, i, v).reg = d.reg
           /\ \A j \in Params : Mirror(d, i, v).param[j] = IF j = i THEN v ELSE d.param[j]
  BY DEF DevShape, Mirror

(* Writing a register changes that register (writel). *)
LEMMA WritelSets ==
    ASSUME NEW d, DevShape(d), NEW r \in Regs, NEW v
    PROVE  /\ DevShape(writel(d, v, r)) /\ writel(d, v, r).param = d.param
           /\ \A q \in Regs : writel(d, v, r).reg[q] = IF q = r THEN v ELSE d.reg[q]
  BY DEF DevShape, writel

(* Writing an atom changes its registers (ebpp_set_ilk, ebpp_set_pm). *)
LEMMA WriteAtomSets ==
    ASSUME NEW d, DevShape(d), NEW a
    PROVE  /\ DevShape(WriteAtom(d, a)) /\ WriteAtom(d, a).param = d.param
           /\ \A q \in Regs : WriteAtom(d, a).reg[q] = IF q \in DOMAIN a THEN a[q] ELSE d.reg[q]
  BY DEF DevShape, WriteAtom

(* The registers of each kind, and that their names differ. *)
LEMMA RegNames ==
    /\ IlkRegs \subseteq Regs /\ PmRegs \subseteq Regs /\ IlkRegs \cap PmRegs = {}
    /\ {"FA_X", "FA_AVE_WIN", "FA_ENABLE", "DSC_SW_SOURCE"} \subseteq Regs
    /\ \A i \in DOMAIN Direct : Direct[i].reg \in Regs
    /\ \A i \in DOMAIN Unmirrored : Unmirrored[i] \in Regs
    /\ "FA_X" \notin IlkRegs \cup PmRegs
<1>1. /\ IlkRegs \subseteq Regs /\ PmRegs \subseteq Regs
      /\ {"FA_X", "FA_AVE_WIN"} \subseteq Regs
      /\ { Direct[i].reg : i \in DOMAIN Direct } \subseteq Regs
      /\ Range(Unmirrored) \subseteq Regs /\ Range(Block.dsc) \subseteq Regs
  BY DEF Regs
<1>2. IlkRegs \cap PmRegs = {} /\ "FA_X" \notin IlkRegs \cup PmRegs
  BY DEF IlkRegs, PmRegs
<1>3. \A i \in DOMAIN Direct : Direct[i].reg \in Regs
  BY <1>1
<1>4. \A i \in DOMAIN Unmirrored : Unmirrored[i] \in Regs
  BY <1>1 DEF Range
<1>5. "FA_ENABLE" \in Regs
  <2>1. "SR_ENABLE" \in DOMAIN Direct /\ Direct["SR_ENABLE"].reg = "FA_ENABLE"
    BY DEF Direct
  <2>2. QED BY <1>3, <2>1
<1>6. "DSC_SW_SOURCE" \in Regs
  <2>1. 2 \in DOMAIN Block.dsc /\ Block.dsc[2] = "DSC_SW_SOURCE"
    BY DEF Block
  <2>2. QED BY <1>1, <2>1 DEF Range
<1>7. QED BY <1>1, <1>2, <1>3, <1>4, <1>5, <1>6

(* What no parameter but its own changes: the offset, the thresholds. *)
Own == IlkRegs \cup PmRegs \cup {"FA_X"}

(* Registers of other parameters, and of the blocks, are none of these. *)
LEMMA OtherRegs ==
    /\ \A i \in DOMAIN Direct : Direct[i].reg \notin Own
    /\ \A i \in DOMAIN Unmirrored : Unmirrored[i] \notin Own
    /\ {"FA_AVE_WIN", "FA_ENABLE", "DSC_SW_SOURCE", "FA_NOTCH_FIRST", "FA_NOTCH_LAST"} \cap Own = {}
    /\ \A d \in Devices : \A k \in DOMAIN Block[d] : Block[d][k] \notin Own
  BY DEF Own, IlkRegs, PmRegs, Direct, Unmirrored, Devices, Block

(* How the devices that a setting leaves differ from those it found. *)
SetFrom(d, n, i, v) ==
    /\ DevShape(n) /\ Added(n)
    /\ \A j \in Params \ {i} : n.param[j] = d.param[j]
    /\ i \in Members => n.param[i] = IF i \in Limits THEN Limit(v) ELSE v
    /\ i # "XOFFSET" => n.reg["FA_X"] = d.reg["FA_X"]
    /\ IF i = "ILK_GAIN_LIMIT"
       THEN n.param[i] = v /\ \A r \in IlkRegs : n.reg[r] = IlkAtom(n.param)[r]
       ELSE \A r \in IlkRegs : n.reg[r] = d.reg[r]
    /\ IF i = "PM_OVERFLOW_DUR"
       THEN n.param[i] = v /\ \A r \in PmRegs : n.reg[r] = PmAtom(n.param)[r]
       ELSE \A r \in PmRegs : n.reg[r] = d.reg[r]

(* Mirroring, and writing registers that no property is about. *)
LEMMA PlainSetting ==
    ASSUME NEW d, DevShape(d), Added(d), NEW n, DevShape(n), NEW i \in Params,
           i \notin {"XOFFSET", "BCD_XOFFSET", "ILK_GAIN_LIMIT", "PM_OVERFLOW_DUR"}, NEW v,
           \A j \in Params \ {i} : n.param[j] = d.param[j],
           i \in Members => n.param[i] = IF i \in Limits THEN Limit(v) ELSE v,
           \A r \in Own : n.reg[r] = d.reg[r]
    PROVE  SetFrom(d, n, i, v)
<1>1. "XOFFSET" \in Params \ {i} /\ "BCD_XOFFSET" \in Params \ {i}
  BY DEF Params
<1>2. n.reg["FA_X"] = d.reg["FA_X"]
      /\ (\A r \in IlkRegs : n.reg[r] = d.reg[r]) /\ (\A r \in PmRegs : n.reg[r] = d.reg[r])
  BY DEF Own
<1>3. Added(n)
  BY <1>1, <1>2 DEF Added
<1>4. QED BY <1>2, <1>3 DEF SetFrom

(* The parameters of each kind, and that their names differ. *)
LEMMA ParamNames ==
    /\ Members \subseteq Params /\ DOMAIN Direct \subseteq Params /\ Software \subseteq Params
    /\ {"XOFFSET", "BCD_XOFFSET", "ILK_GAIN_LIMIT", "PM_OVERFLOW_DUR", "ILKSTATUS", "TRIGMODE",
        "EXTSWITCH", "SR_AVERAGE_WINDOW", "SR_ENABLE", "NOTCH_FIRST", "NOTCH_LAST"} \subseteq Params
    /\ Range(Coefficients) = {"NOTCH_FIRST", "NOTCH_LAST"}
    /\ (DOMAIN Direct \cup Software \cup Range(Coefficients)) \cap
         (Members \cup {"XOFFSET", "BCD_XOFFSET", "ILK_GAIN_LIMIT", "PM_OVERFLOW_DUR",
                        "SR_AVERAGE_WINDOW"}) = {}
    /\ Members \cap {"XOFFSET", "BCD_XOFFSET", "ILK_GAIN_LIMIT", "PM_OVERFLOW_DUR",
                     "SR_AVERAGE_WINDOW", "ILKSTATUS", "TRIGMODE", "EXTSWITCH", "SCPLL"} = {}
    /\ DOMAIN Unmirrored \cap Params = {}
<1>1. Range(Coefficients) = {"NOTCH_FIRST", "NOTCH_LAST"}
  <2>1. /\ DOMAIN Coefficients = {1, 2}
        /\ Coefficients[1] = "NOTCH_FIRST" /\ Coefficients[2] = "NOTCH_LAST"
    BY DEF Coefficients
  <2>2. QED BY <2>1 DEF Range
<1>2. DOMAIN Direct = {"KX", "SWDELAY", "SR_ENABLE", "TRIGDELAY"}
  BY DEF Direct
<1>3. DOMAIN Unmirrored = {"DDC_MAFLENGTH", "DDC_MAFDELAY"}
  BY DEF Unmirrored
<1>4. /\ Members \subseteq Params /\ DOMAIN Direct \subseteq Params /\ Software \subseteq Params
      /\ {"XOFFSET", "BCD_XOFFSET", "ILK_GAIN_LIMIT", "PM_OVERFLOW_DUR", "ILKSTATUS", "TRIGMODE",
          "EXTSWITCH", "SR_AVERAGE_WINDOW"} \subseteq Params
      /\ {"NOTCH_FIRST", "NOTCH_LAST"} \subseteq Params
  BY <1>1 DEF Params, Members
<1>5. "SR_ENABLE" \in Params
  BY <1>2, <1>4
<1>6. (DOMAIN Direct \cup Software \cup Range(Coefficients)) \cap
         (Members \cup {"XOFFSET", "BCD_XOFFSET", "ILK_GAIN_LIMIT", "PM_OVERFLOW_DUR",
                        "SR_AVERAGE_WINDOW"}) = {}
  BY <1>1, <1>2 DEF Software, Members, Staged, Ilk, Pm, Limits
<1>7. Members \cap {"XOFFSET", "BCD_XOFFSET", "ILK_GAIN_LIMIT", "PM_OVERFLOW_DUR",
                     "SR_AVERAGE_WINDOW", "ILKSTATUS", "TRIGMODE", "EXTSWITCH", "SCPLL"} = {}
  BY DEF Members, Staged, Ilk, Pm, Limits
<1>8. DOMAIN Unmirrored \cap Params = {}
  BY <1>1, <1>2, <1>3 DEF Params, Staged, Ilk, Pm, Limits, Software
<1>9. QED BY <1>1, <1>4, <1>5, <1>6, <1>7, <1>8

(* The thresholds are written with their last member (ebpp_set_ilk).          *)
LEMMA CommitIlkSets ==
    ASSUME NEW d, DevShape(d), Added(d), NEW v
    PROVE  SetFrom(d, CommitIlk(d, v).dev, "ILK_GAIN_LIMIT", v)
<1> DEFINE m == Mirror(d, "ILK_GAIN_LIMIT", v)
           n == WriteAtom(m, IlkAtom(m.param))
<1>1. "ILK_GAIN_LIMIT" \in Params /\ "XOFFSET" \in Params /\ "BCD_XOFFSET" \in Params
      /\ "ILK_GAIN_LIMIT" \notin Members
  BY ParamNames
<1>2. /\ DevShape(m) /\ m.reg = d.reg
      /\ \A j \in Params : m.param[j] = IF j = "ILK_GAIN_LIMIT" THEN v ELSE d.param[j]
  BY <1>1, MirrorSets
<1>3. /\ DevShape(n) /\ n.param = m.param
      /\ \A q \in Regs : n.reg[q] = IF q \in DOMAIN IlkAtom(m.param)
                                    THEN IlkAtom(m.param)[q] ELSE m.reg[q]
  BY <1>2, WriteAtomSets
<1>4. DOMAIN IlkAtom(m.param) = IlkRegs
  BY DEF IlkAtom
<1>5. CommitIlk(d, v).dev = n
  BY DEF CommitIlk, Done
<1> HIDE DEF m, n
<1>6. n.reg["FA_X"] = d.reg["FA_X"] /\ (\A r \in PmRegs : n.reg[r] = d.reg[r])
      /\ \A r \in IlkRegs : n.reg[r] = IlkAtom(n.param)[r]
  BY <1>2, <1>3, <1>4, RegNames
<1>7. Added(n)
  BY <1>1, <1>2, <1>3, <1>6 DEF Added
<1>8. SetFrom(d, n, "ILK_GAIN_LIMIT", v)
  BY <1>1, <1>2, <1>3, <1>6, <1>7 DEF SetFrom
<1>9. QED BY <1>5, <1>8

(* Likewise for the post mortem (ebpp_set_pm). *)
LEMMA CommitPmSets ==
    ASSUME NEW d, DevShape(d), Added(d), NEW v, v <= pmdur
    PROVE  SetFrom(d, CommitPm(d, v).dev, "PM_OVERFLOW_DUR", v)
<1> DEFINE m == Mirror(d, "PM_OVERFLOW_DUR", v)
           w == WriteAtom(m, PmAtom(m.param))
           n == [w EXCEPT !.pm_freezed = FALSE]
<1>1. "PM_OVERFLOW_DUR" \in Params /\ "XOFFSET" \in Params /\ "BCD_XOFFSET" \in Params
      /\ "PM_OVERFLOW_DUR" \notin Members
  BY ParamNames
<1>2. /\ DevShape(m) /\ m.reg = d.reg
      /\ \A j \in Params : m.param[j] = IF j = "PM_OVERFLOW_DUR" THEN v ELSE d.param[j]
  BY <1>1, MirrorSets
<1>3. /\ DevShape(w) /\ w.param = m.param
      /\ \A q \in Regs : w.reg[q] = IF q \in DOMAIN PmAtom(m.param)
                                    THEN PmAtom(m.param)[q] ELSE m.reg[q]
  BY <1>2, WriteAtomSets
<1>4. DOMAIN PmAtom(m.param) = PmRegs
  BY DEF PmAtom
<1>5. CommitPm(d, v).dev = n
  BY DEF CommitPm, Done
<1> HIDE DEF m, w
<1>6. DevShape(n) /\ n.param = w.param /\ n.reg = w.reg
  BY <1>3 DEF DevShape
<1> HIDE DEF n
<1>7. n.reg["FA_X"] = d.reg["FA_X"] /\ (\A r \in IlkRegs : n.reg[r] = d.reg[r])
      /\ \A r \in PmRegs : n.reg[r] = PmAtom(n.param)[r]
  BY <1>2, <1>3, <1>4, <1>6, RegNames
<1>8. Added(n)
  BY <1>1, <1>2, <1>3, <1>6, <1>7 DEF Added
<1>9. SetFrom(d, n, "PM_OVERFLOW_DUR", v)
  BY <1>1, <1>2, <1>3, <1>6, <1>7, <1>8 DEF SetFrom
<1>10. QED BY <1>5, <1>9

(* The user's offset is written with dscd's added (libera_cfg_set_specific). *)
LEMMA SetOffsetSets ==
    ASSUME NEW d, DevShape(d), Added(d), NEW v \in Int
    PROVE  SetFrom(d, SetOffset(d, v).dev, "XOFFSET", v)
<1> DEFINE m == Mirror(d, "XOFFSET", v)
           n == writel(m, v + m.param["BCD_XOFFSET"], "FA_X")
<1>1. "XOFFSET" \in Params /\ "BCD_XOFFSET" \in Params /\ "XOFFSET" \notin Members
  BY ParamNames
<1>2. /\ DevShape(m) /\ m.reg = d.reg
      /\ \A j \in Params : m.param[j] = IF j = "XOFFSET" THEN v ELSE d.param[j]
  BY <1>1, MirrorSets
<1>3. /\ DevShape(n) /\ n.param = m.param
      /\ \A q \in Regs : n.reg[q] = IF q = "FA_X" THEN v + m.param["BCD_XOFFSET"] ELSE m.reg[q]
  BY <1>2, WritelSets, RegNames
<1>4. SetOffset(d, v).dev = n
  BY DEF SetOffset, Done
<1> HIDE DEF m, n
<1>5. /\ n.reg["FA_X"] = v + d.param["BCD_XOFFSET"]
      /\ \A r \in IlkRegs \cup PmRegs : n.reg[r] = d.reg[r]
  BY <1>1, <1>2, <1>3, RegNames
<1>6. Added(n)
  BY <1>1, <1>2, <1>3, <1>5 DEF Added
<1>7. SetFrom(d, n, "XOFFSET", v)
  BY <1>1, <1>2, <1>3, <1>5, <1>6 DEF SetFrom
<1>8. QED BY <1>4, <1>7

(* Setting the window of the averages keeps offsets and thresholds. *)
LEMMA SetAverageWindowSets ==
    ASSUME NEW d, DevShape(d), Added(d), NEW v
    PROVE  SetFrom(d, SetAverageWindow(d, v).dev, "SR_AVERAGE_WINDOW", v)
<1> DEFINE i == "SR_AVERAGE_WINDOW"
           p == Mirror(d, i, v)
           m == writel(p, v % 32, "FA_AVE_WIN")
           w == writel(m, 1, "FA_ENABLE")
           n == SetAverageWindow(d, v).dev
<1>1. i \in Params /\ i \notin Members
  BY ParamNames
<1>2. /\ DevShape(p) /\ p.reg = d.reg
      /\ \A j \in Params : p.param[j] = IF j = i THEN v ELSE d.param[j]
  BY <1>1, MirrorSets
<1>3. /\ DevShape(m) /\ m.param = p.param
      /\ \A q \in Regs : m.reg[q] = IF q = "FA_AVE_WIN" THEN v % 32 ELSE p.reg[q]
  BY <1>2, WritelSets, RegNames
<1>4. /\ DevShape(w) /\ w.param = m.param
      /\ \A q \in Regs : w.reg[q] = IF q = "FA_ENABLE" THEN 1 ELSE m.reg[q]
  BY <1>3, WritelSets, RegNames
<1>5. n = m \/ n = w
  BY DEF SetAverageWindow, Done
<1> HIDE DEF p, m, w, n
<1>6. \A r \in Own : r \in Regs /\ r # "FA_AVE_WIN" /\ r # "FA_ENABLE"
  BY RegNames, OtherRegs DEF Own
<1>7. /\ DevShape(n) /\ (\A j \in Params \ {i} : n.param[j] = d.param[j])
      /\ \A r \in Own : n.reg[r] = d.reg[r]
  BY <1>2, <1>3, <1>4, <1>5, <1>6
<1>8. SetFrom(d, n, i, v)
  BY <1>1, <1>7, PlainSetting
<1>9. QED BY <1>8 DEF n

(* The switch shares its register with a block; thresholds are kept. *)
LEMMA SetSwitchSets ==
    ASSUME NEW d, DevShape(d), Added(d), NEW v
    PROVE  SetFrom(d, SetSwitch(d, v).dev, "EXTSWITCH", v)
<1> DEFINE i == "EXTSWITCH"
           p == Mirror(d, i, v)
           s == d.reg["DSC_SW_SOURCE"] % DSC_SW_EXTERNAL
           word == IF v # 0 THEN s + DSC_SW_EXTERNAL ELSE s
           n == writel(p, word, "DSC_SW_SOURCE")
<1>1. i \in Params /\ i \notin Members
  BY ParamNames
<1>2. /\ DevShape(p) /\ p.reg = d.reg
      /\ \A j \in Params : p.param[j] = IF j = i THEN v ELSE d.param[j]
  BY <1>1, MirrorSets
<1>3. SetSwitch(d, v).dev = n
  BY DEF SetSwitch, Done
<1> HIDE DEF word, p
<1>4. /\ DevShape(n) /\ n.param = p.param
      /\ \A q \in Regs : n.reg[q] = IF q = "DSC_SW_SOURCE" THEN word ELSE p.reg[q]
  BY <1>2, WritelSets, RegNames
<1> HIDE DEF n
<1>6. \A r \in Own : r \in Regs /\ r # "DSC_SW_SOURCE"
  BY RegNames, OtherRegs DEF Own
<1>7. /\ DevShape(n) /\ (\A j \in Params \ {i} : n.param[j] = d.param[j])
      /\ \A r \in Own : n.reg[r] = d.reg[r]
  BY <1>2, <1>4, <1>6
<1>8. SetFrom(d, n, i, v)
  BY <1>1, <1>7, PlainSetting
<1>9. QED BY <1>3, <1>8

(* A coefficient of the filter touches the registers of the filter. *)
LEMMA SetCoefficientSets ==
    ASSUME NEW d, DevShape(d), Added(d), NEW i \in Range(Coefficients), NEW v
    PROVE  SetFrom(d, SetCoefficient(d, i, v).dev, i, v)
<1> DEFINE m == Mirror(d, i, v)
           a == [ r \in {"FA_NOTCH_FIRST", "FA_NOTCH_LAST"} |->
                    m.param[IF r = "FA_NOTCH_FIRST" THEN "NOTCH_FIRST" ELSE i] ]
           w == WriteAtom(m, a)
           n == SetCoefficient(d, i, v).dev
<1>1. /\ i \in Params /\ i \notin Members
      /\ i \notin {"XOFFSET", "BCD_XOFFSET", "ILK_GAIN_LIMIT", "PM_OVERFLOW_DUR"}
  BY ParamNames
<1>2. /\ DevShape(m) /\ m.reg = d.reg
      /\ \A j \in Params : m.param[j] = IF j = i THEN v ELSE d.param[j]
  BY <1>1, MirrorSets
<1>3. n = w \/ n = m
  BY DEF SetCoefficient, Done
<1>4. DOMAIN a = {"FA_NOTCH_FIRST", "FA_NOTCH_LAST"}
  OBVIOUS
<1> HIDE DEF a, m
<1>5. /\ DevShape(w) /\ w.param = m.param
      /\ \A q \in Regs : w.reg[q] = IF q \in DOMAIN a THEN a[q] ELSE m.reg[q]
  BY <1>2, WriteAtomSets
<1> HIDE DEF w, n
<1>6. \A r \in Own : r \in Regs /\ r \notin DOMAIN a
  BY <1>4, RegNames, OtherRegs DEF Own
<1>7. /\ DevShape(n) /\ (\A j \in Params \ {i} : n.param[j] = d.param[j])
      /\ \A r \in Own : n.reg[r] = d.reg[r]
  BY <1>2, <1>3, <1>5, <1>6
<1>8. SetFrom(d, n, i, v)
  BY <1>1, <1>7, PlainSetting
<1>9. QED BY <1>8 DEF n

(* A parameter with a register of its own. *)
LEMMA DirectSets ==
    ASSUME NEW d, DevShape(d), Added(d), NEW i \in DOMAIN Direct, NEW v, NEW u
    PROVE  SetFrom(d, writel(Mirror(d, i, v), u, Direct[i].reg), i, v)
<1> DEFINE p == Mirror(d, i, v)
           n == writel(p, u, Direct[i].reg)
<1>1. /\ i \in Params /\ i \notin Members
      /\ i \notin {"XOFFSET", "BCD_XOFFSET", "ILK_GAIN_LIMIT", "PM_OVERFLOW_DUR"}
  BY ParamNames
<1>2. /\ DevShape(p) /\ p.reg = d.reg
      /\ \A j \in Params : p.param[j] = IF j = i THEN v ELSE d.param[j]
  BY <1>1, MirrorSets
<1> HIDE DEF p
<1>3. /\ DevShape(n) /\ n.param = p.param
      /\ \A q \in Regs : n.reg[q] = IF q = Direct[i].reg THEN u ELSE p.reg[q]
  BY <1>2, WritelSets, RegNames
<1> HIDE DEF n
<1>4. \A r \in Own : r \in Regs /\ r # Direct[i].reg
  BY RegNames, OtherRegs DEF Own
<1>5. /\ DevShape(n) /\ (\A j \in Params \ {i} : n.param[j] = d.param[j])
      /\ \A r \in Own : n.reg[r] = d.reg[r]
  BY <1>2, <1>3, <1>4
<1>6. SetFrom(d, n, i, v)
  BY <1>1, <1>5, PlainSetting
<1>7. QED BY <1>6 DEF n, p

(* A parameter that is mirrored, and no more. *)
LEMMA MirroredSets ==
    ASSUME NEW d, DevShape(d), Added(d), NEW i \in Params, NEW v, NEW u,
           i \notin {"XOFFSET", "BCD_XOFFSET", "ILK_GAIN_LIMIT", "PM_OVERFLOW_DUR"},
           i \in Members => u = IF i \in Limits THEN Limit(v) ELSE v
    PROVE  SetFrom(d, Mirror(d, i, u), i, v)
<1> DEFINE n == Mirror(d, i, u)
<1>1. /\ DevShape(n) /\ n.reg = d.reg
      /\ \A j \in Params : n.param[j] = IF j = i THEN u ELSE d.param[j]
  BY MirrorSets
<1> HIDE DEF n
<1>2. SetFrom(d, n, i, v)
  BY <1>1, PlainSetting
<1>3. QED BY <1>2 DEF n

(* The delay and the length of the filter are in the FPGA only. *)
LEMMA UnmirroredSets ==
    ASSUME NEW d, DevShape(d), Added(d), NEW i \in DOMAIN Unmirrored, NEW v
    PROVE  SetFrom(d, writel(d, v, Unmirrored[i]), i, v)
<1> DEFINE n == writel(d, v, Unmirrored[i])
<1>1. /\ DevShape(n) /\ n.param = d.param
      /\ \A q \in Regs : n.reg[q] = IF q = Unmirrored[i] THEN v ELSE d.reg[q]
  BY WritelSets, RegNames
<1> HIDE DEF n
<1>2. i \notin Params /\ i \notin Members /\ i # "XOFFSET" /\ i # "ILK_GAIN_LIMIT"
      /\ i # "PM_OVERFLOW_DUR"
  BY ParamNames
<1>3. n.reg["FA_X"] = d.reg["FA_X"]
      /\ (\A r \in IlkRegs : n.reg[r] = d.reg[r]) /\ (\A r \in PmRegs : n.reg[r] = d.reg[r])
  <2>1. \A r \in Own : r \in Regs /\ r # Unmirrored[i]
    BY RegNames, OtherRegs DEF Own
  <2>2. QED BY <1>1, <2>1 DEF Own
<1>4. Added(n)
  BY <1>1, <1>3 DEF Added
<1>5. SetFrom(d, n, i, v)
  BY <1>1, <1>2, <1>3, <1>4 DEF SetFrom
<1>6. QED BY <1>5 DEF n

(* The names of each kind of parameter: no name is of two kinds. *)
LEMMA Kinds ==
    /\ DOMAIN Direct = {"KX", "SWDELAY", "SR_ENABLE", "TRIGDELAY"}
    /\ Staged \cup Software = {"ILK_XLOW", "ILK_MODE", "PM_MODE", "PM_XLOW", "PMOFFSET", "PMDEC",
                               "SR_CSPI_ENABLE", "SP_THRESHOLD"}
    /\ Limits = {"ILK_OVERFLOW_LIMIT", "PM_OVERFLOW_LIMIT"}
    /\ DOMAIN Unmirrored = {"DDC_MAFLENGTH", "DDC_MAFDELAY"}
    /\ Range(Coefficients) = {"NOTCH_FIRST", "NOTCH_LAST"}
  BY ParamNames DEF Direct, Staged, Ilk, Pm, Software, Limits, Unmirrored

(* Whatever is set, offsets keep their sum, thresholds change with their last *)
(* member only, and then to the mirrored members (libera_cfg_cmd).            *)
LEMMA SetCfgSets ==
    ASSUME NEW d, DevShape(d), Added(d), NEW i \in Params \cup DOMAIN Unmirrored, NEW v \in Int,
           SetCfg(d, i, v).ok
    PROVE  SetFrom(d, SetCfg(d, i, v).dev, i, v)
<1> DEFINE r == SetCfg(d, i, v)
<1>1. CASE i = "TRIGMODE"
  <2>1. r.dev = Mirror(d, i, v)
    BY <1>1 DEF SetCfg, Done
  <2>2. QED BY <1>1, <2>1, MirroredSets, ParamNames
<1>2. CASE i = "SCPLL"
  <2>1. ~r.ok
    BY <1>2 DEF SetCfg, Refused
  <2>2. QED BY <2>1
<1>3. ASSUME i \notin {"TRIGMODE", "SCPLL"} PROVE r = libera_cfg_set_specific(d, i, v)
  BY <1>3 DEF SetCfg
<1>4. CASE i = "XOFFSET"
  <2>1. r = SetOffset(d, v)
    BY <1>3, <1>4, Kinds DEF libera_cfg_set_specific
  <2>2. QED BY <1>4, <2>1, SetOffsetSets
<1>5. CASE i \in DOMAIN Direct
  <2>1. i \in Params /\ i \notin {"TRIGMODE", "SCPLL", "XOFFSET"}
    BY <1>5 DEF Direct, Params
  <2>2. r.dev = writel(Mirror(d, i, v), v % Direct[i].mod, Direct[i].reg)
    BY <1>3, <1>5, <2>1, Kinds DEF libera_cfg_set_specific, Done
  <2>3. QED BY <1>5, <2>2, DirectSets
<1>6. CASE i \in Staged \cup Software
  <2>1. i \notin {"TRIGMODE", "SCPLL", "XOFFSET", "BCD_XOFFSET"} /\ i \notin DOMAIN Direct
    BY <1>6 DEF Direct, Staged, Ilk, Pm, Software
  <2>2. r.dev = Mirror(d, i, v)
    BY <1>3, <1>6, <2>1, Kinds DEF libera_cfg_set_specific, Done
  <2>3. i \in Params /\ i \notin Limits /\ i # "ILK_GAIN_LIMIT" /\ i # "PM_OVERFLOW_DUR"
    BY <1>6, ParamNames DEF Staged, Ilk, Pm, Software, Limits, Members
  <2>4. QED BY <2>1, <2>2, <2>3, MirroredSets
<1>7. CASE i \in Limits
  <2>1. /\ i \in Params /\ i \notin {"TRIGMODE", "SCPLL", "XOFFSET", "BCD_XOFFSET",
                                     "ILK_GAIN_LIMIT", "PM_OVERFLOW_DUR"}
        /\ i \notin DOMAIN Direct /\ i \notin Staged \cup Software
    BY <1>7, ParamNames DEF Direct, Staged, Ilk, Pm, Software, Limits, Members
  <2>2. r = SetLimit(d, i, v)
    BY <1>3, <1>7, <2>1, Kinds DEF libera_cfg_set_specific
  <2>3. r.dev = Mirror(d, i, Limit(v))
    BY <2>2 DEF SetLimit, Done, Refused
  <2>4. QED BY <1>7, <2>1, <2>3, MirroredSets
<1>8. CASE i = "ILK_OVERFLOW_DUR"
  <2>1. i \notin DOMAIN Direct /\ i \notin Staged \cup Software /\ i \notin Limits
    BY <1>8 DEF Direct, Staged, Ilk, Pm, Software, Limits
  <2>2. r = SetIlkDuration(d, v)
    BY <1>3, <1>8, <2>1, Kinds DEF libera_cfg_set_specific
  <2>3. r.dev = Mirror(d, i, v)
    BY <1>8, <2>2 DEF SetIlkDuration, Done, Refused
  <2>4. i \in Params
    BY <1>8, ParamNames DEF Members
  <2>5. QED BY <1>8, <2>1, <2>3, <2>4, MirroredSets
<1>9. CASE i \in {"ILK_GAIN_LIMIT", "PM_OVERFLOW_DUR"}
  <2>1. i \notin DOMAIN Direct /\ i \notin Staged \cup Software /\ i \notin Limits
    BY <1>9 DEF Direct, Staged, Ilk, Pm, Software, Limits
  <2>2. CASE i = "ILK_GAIN_LIMIT"
    <3>1. r = CommitIlk(d, v)
      BY <1>3, <2>1, <2>2, Kinds DEF libera_cfg_set_specific
    <3>2. QED BY <2>2, <3>1, CommitIlkSets
  <2>3. CASE i = "PM_OVERFLOW_DUR"
    <3>1. r = CommitPm(d, v)
      BY <1>3, <2>1, <2>3, Kinds DEF libera_cfg_set_specific
    <3>2. v <= pmdur
      BY <3>1 DEF CommitPm, Done, Refused
    <3>3. QED BY <2>3, <3>1, <3>2, CommitPmSets
  <2>4. QED BY <1>9, <2>2, <2>3
<1>10. CASE i \in {"ILKSTATUS", "EXTSWITCH", "SR_AVERAGE_WINDOW"}
  <2>1. /\ i \notin DOMAIN Direct /\ i \notin Staged \cup Software /\ i \notin Limits
        /\ i \in Params /\ i \notin Members /\ i \notin DOMAIN Unmirrored
    BY <1>10, ParamNames DEF Direct, Staged, Ilk, Pm, Software, Limits
  <2>2. CASE i = "ILKSTATUS"
    <3>1. r.dev = Mirror(d, i, 0)
      BY <1>3, <2>1, <2>2, Kinds DEF libera_cfg_set_specific, Done
    <3>2. QED BY <2>1, <2>2, <3>1, MirroredSets
  <2>3. CASE i = "EXTSWITCH"
    <3>1. r = SetSwitch(d, v)
      BY <1>3, <2>1, <2>3, Kinds DEF libera_cfg_set_specific
    <3>2. QED BY <2>3, <3>1, SetSwitchSets
  <2>4. CASE i = "SR_AVERAGE_WINDOW"
    <3>1. r = SetAverageWindow(d, v)
      BY <1>3, <2>1, <2>4, Kinds DEF libera_cfg_set_specific
    <3>2. QED BY <2>4, <3>1, SetAverageWindowSets
  <2>5. QED BY <1>10, <2>2, <2>3, <2>4
<1> DEFINE Single == {"TRIGMODE", "SCPLL", "XOFFSET", "ILK_OVERFLOW_DUR", "ILK_GAIN_LIMIT",
                      "PM_OVERFLOW_DUR", "ILKSTATUS", "EXTSWITCH", "SR_AVERAGE_WINDOW"}
<1>11. CASE i \in DOMAIN Unmirrored
  <2>1. i \notin Params
    BY <1>11, ParamNames
  <2>2. i \notin DOMAIN Direct /\ i \notin Staged \cup Software \cup Limits /\ i \notin Single
    BY <1>11 DEF Unmirrored, Direct, Staged, Ilk, Pm, Software, Limits
  <2>3. r.dev = writel(d, v, Unmirrored[i])
    BY <1>3, <1>11, <2>2, Kinds DEF libera_cfg_set_specific, Done
  <2>4. QED BY <1>11, <2>3, UnmirroredSets
<1>12. CASE i \in Range(Coefficients)
  <2>1. /\ i \notin DOMAIN Direct /\ i \notin Staged \cup Software \cup Limits
        /\ i \notin Single /\ i \notin DOMAIN Unmirrored
    BY <1>12, ParamNames DEF Unmirrored, Direct, Staged, Ilk, Pm, Software, Limits
  <2>2. r = SetCoefficient(d, i, v)
    BY <1>3, <1>12, <2>1, Kinds DEF libera_cfg_set_specific
  <2>3. QED BY <1>12, <2>2, SetCoefficientSets
<1>13. CASE /\ i \notin Single /\ i \notin DOMAIN Direct /\ i \notin Staged \cup Software
            /\ i \notin Limits /\ i \notin DOMAIN Unmirrored /\ i \notin Range(Coefficients)
  <2>1. ~r.ok
    BY <1>3, <1>13, Kinds DEF libera_cfg_set_specific, Refused
  <2>2. QED BY <2>1
<1>14. QED
  BY <1>1, <1>2, <1>4, <1>5, <1>6, <1>7, <1>8, <1>9, <1>10, <1>11, <1>12, <1>13

-----------------------------------------------------------------------------
(* Who has a device open *)

(* The block of a device is a finite sequence of registers. *)
LEMMA BlockFinite ==
    ASSUME NEW d \in Devices
    PROVE  /\ Len(Block[d]) \in Nat /\ DOMAIN Block[d] = 1 .. Len(Block[d])
           /\ \A S : S \subseteq DOMAIN Block[d] => IsFiniteSet(S) /\ Cardinality(S) \in Nat
<1>1. Block[d] \in Seq({"DSC_MODE", "DSC_SW_SOURCE", "FAI_0", "FAI_1"})
  <2>1. CASE d = "cfg"
    BY <2>1 DEF Block
  <2>2. CASE d = "dsc"
    BY <2>2 DEF Block
  <2>3. CASE d = "fa"
    BY <2>3 DEF Block
  <2>4. QED BY <2>1, <2>2, <2>3 DEF Devices
<1>2. Len(Block[d]) \in Nat /\ DOMAIN Block[d] = 1 .. Len(Block[d])
  BY <1>1
<1>3. IsFiniteSet(DOMAIN Block[d])
  <2> DEFINE n == Len(Block[d])
  <2>1. n \in Int /\ DOMAIN Block[d] = 1 .. n
    BY <1>2
  <2> HIDE DEF n
  <2>2. IsFiniteSet(1 .. n)
    BY <2>1, FS_Interval
  <2>3. QED BY <2>1, <2>2
<1>4. QED BY <1>2, <1>3, FS_Subset, FS_CardinalityType

(* A call is about words of the block (Span). *)
LEMMA SpanInBlock ==
    ASSUME AccessInv, NEW f \in Files, file[f] # NULL, NEW n \in Nat
    PROVE  Span(f, n) \subseteq DOMAIN Block[DevOf[f]]
<1>1. DevOf[f] \in Devices
  BY ConfigAssumption DEF Devices
<1>2. file[f].pos \in Nat
  BY DEF AccessInv, FileRecords
<1> DEFINE L == Len(Block[DevOf[f]])
           p == file[f].pos
<1>3. L \in Nat /\ DOMAIN Block[DevOf[f]] = 1 .. L
  BY <1>1, BlockFinite
<1> HIDE DEF L, p
<1>4. Span(f, n) \subseteq
        (p \div 4 + 1) .. ((p + (IF n > 4 * L - p THEN 4 * L - p ELSE n)) \div 4)
  BY DEF Span, BLOCKSIZE, L, p
<1>5. p \in Nat
  BY <1>2 DEF p
<1>6. ASSUME NEW k \in (p \div 4 + 1) .. ((p + (IF n > 4 * L - p THEN 4 * L - p ELSE n)) \div 4)
      PROVE  k \in 1 .. L
  BY <1>3, <1>5, <1>6
<1>7. QED BY <1>3, <1>4, <1>6

(* What a step may do to who has a device open, and where in it. *)
Moved(f) == \E n \in Nat : file[f] # NULL /\ file' = [file EXCEPT ![f].pos = n]

(* What a step may do to the files: nothing, open one, release one, move it.  *)
LEMMA AccessStep ==
    ASSUME AccessInv, BlockInv, [Next]_vars
    PROVE  \/ UNCHANGED << acc, file >>
           \/ \E f \in Files : \E m \in Modes[f] : Open(f, m)
           \/ \E f \in Files : Release(f)
           \/ acc' = acc /\ \E f \in Files : Moved(f)
<1>1. Processes \subseteq Files /\ BlockFiles \subseteq Files
  BY ParamsAssumption DEF Processes, Range
<1>2. CASE UNCHANGED vars
  BY <1>2 DEF vars, configVars, accessVars
<1>3. ASSUME NEW t \in Threads, ThreadStep(t) PROVE UNCHANGED << acc, file >>
  BY <1>3 DEF ThreadStep, cspi_setenvparam, set_param, custom_setenvparam, cspi_read,
      custom_initop, StartUpdate, get_param, UpdateFails, StoreOffsets, ebpp_update_cache,
      StoreCache, read_dd, ApplyOp
<1>4. ASSUME NEW pr \in Processes, InitEnv(pr) \/ Exit(pr) \/ signal_handler_hook(pr)
      PROVE  \/ UNCHANGED << acc, file >>
             \/ \E m \in Modes[pr] : Open(pr, m)
             \/ Release(pr)
  BY <1>4 DEF InitEnv, Exit, signal_handler_hook, libera_cfg_open, libera_cfg_release
<1>5. ASSUME NEW f \in Files,
             OpenOrClose(f) \/ libera_dsc_ioctl_offsets(f) \/ libera_dsc_ioctl_event(f)
      PROVE  \/ UNCHANGED << acc, file >>
             \/ \E m \in Modes[f] : Open(f, m)
             \/ Release(f)
  BY <1>5 DEF OpenOrClose, libera_dsc_ioctl_offsets, libera_dsc_ioctl_event, libera_dsc_open,
      libera_fa_open, libera_dsc_release, libera_fa_release
<1>6. ASSUME NEW f \in Files, Blocks(f)
      PROVE  UNCHANGED << acc, file >> \/ (acc' = acc /\ Moved(f))
  <2>1. ASSUME NEW pos \in 0 .. 8, libera_dsc_llseek(f, pos) \/ libera_fa_llseek(f, pos)
        PROVE  Moved(f)
    BY <2>1 DEF libera_dsc_llseek, libera_fa_llseek, Llseek, Moved
  <2>2. ASSUME at[f] # "user" PROVE file[f] # NULL /\ file[f].pos \in Nat /\ DevOf[f] \in Devices
    BY <2>2, ConfigAssumption DEF BlockInv, AccessInv, FileRecords, Devices
  <2>3. ASSUME at[f] # "user", NEW S, S \subseteq DOMAIN Block[DevOf[f]],
               file' = [file EXCEPT ![f].pos = @ + 4 * Cardinality(S)]
        PROVE  Moved(f)
    <3>1. Cardinality(S) \in Nat
      BY <2>2, <2>3, BlockFinite
    <3>2. file[f].pos + 4 * Cardinality(S) \in Nat
      BY <3>1, <2>2, <2>3
    <3>3. f \in DOMAIN file
      BY DEF AccessInv
    <3>4. QED BY <2>2, <2>3, <3>2, <3>3 DEF Moved
  <2>4. ASSUME FinishRead(f) PROVE UNCHANGED file \/ Moved(f)
    <3>1. at[f] = "reading" /\ DOMAIN seen[f] \subseteq DOMAIN Block[DevOf[f]]
      BY <2>4 DEF FinishRead, BlockInv
    <3>2. QED BY <2>3, <2>4, <3>1 DEF FinishRead
  <2>5. ASSUME FinishWrite(f) PROVE Moved(f)
    <3>1. at[f] = "writing" /\ DOMAIN buf[DevOf[f]] \subseteq DOMAIN Block[DevOf[f]]
      BY <2>5 DEF FinishWrite, BlockInv
    <3>2. QED BY <2>3, <2>5, <3>1 DEF FinishWrite
  <2>6. QED BY <1>6, <2>1, <2>4, <2>5 DEF Blocks, accessVars
<1>7. QED BY <1>1, <1>2, <1>3, <1>4, <1>5, <1>6 DEF Next

(* Opening: there was no writer, or the newcomer is none (libera_cfg_open). *)
LEMMA OpenKeeps ==
    ASSUME AccessInv, NEW f \in Files, NEW m \in Modes[f], Open(f, m)
    PROVE  AccessInv'
<1> DEFINE d == DevOf[f]
<1>1. d \in Devices /\ m \subseteq {"r", "w"} /\ NULL \notin Files \cup FileRecords
  BY ConfigAssumption DEF Devices, FileRecords
<1>2. /\ file[f] = NULL /\ ("w" \in m => acc[d].master = NULL)
      /\ file' = [file EXCEPT ![f] = [modes |-> m, pos |-> 0]]
      /\ acc' = [acc EXCEPT ![d].master = IF "w" \in m THEN f ELSE @,
                            ![d].writers = @ + IF "w" \in m THEN 1 ELSE 0,
                            ![d].readers = @ + IF "r" \in m THEN 1 ELSE 0,
                            ![d].open_count = @ + 1]
  BY DEF Open
<1> HIDE DEF d
<1>3. /\ file' \in [Files -> FileRecords \cup {NULL}]
      /\ file'[f].modes = m /\ file'[f] # NULL
      /\ \A g \in Files \ {f} : file'[g] = file[g]
  BY <1>1, <1>2 DEF AccessInv, FileRecords
<1>4. /\ DOMAIN acc' = Devices /\ \A e \in Devices \ {d} : acc'[e] = acc[e]
      /\ acc'[d].master = IF "w" \in m THEN f ELSE acc[d].master
      /\ acc'[d].writers = acc[d].writers + IF "w" \in m THEN 1 ELSE 0
      /\ acc'[d].open_count = acc[d].open_count + 1
  BY <1>1, <1>2 DEF AccessInv, AccRecords
<1>5. acc[d].writers = IF acc[d].master = NULL THEN 0 ELSE 1
  BY <1>1 DEF AccessInv
<1>6. acc' \in [Devices -> AccRecords]
  <2>1. acc[d] \in AccRecords
    BY <1>1 DEF AccessInv
  <2>2. acc'[d] = [master |-> IF "w" \in m THEN f ELSE acc[d].master,
                   readers |-> acc[d].readers + IF "r" \in m THEN 1 ELSE 0,
                   writers |-> acc[d].writers + IF "w" \in m THEN 1 ELSE 0,
                   open_count |-> acc[d].open_count + 1]
    BY <1>1, <1>2, <2>1 DEF AccessInv, AccRecords
  <2>3. acc'[d] \in AccRecords
    <3>1. acc[d].writers + (IF "w" \in m THEN 1 ELSE 0) \in {0, 1}
      BY <1>2, <1>5
    <3>2. QED BY <2>1, <2>2, <3>1 DEF AccRecords
  <2>4. QED BY <1>2, <1>4, <2>3 DEF AccessInv
<1>7. \A g \in Files : Writes(g)' <=> Writes(g) \/ (g = f /\ "w" \in m)
  BY <1>2, <1>3 DEF Writes
<1>8. ASSUME NEW e \in Devices
      PROVE  acc'[e].open_count = Cardinality(OpenFiles(e)')
  <2>1. IsFiniteSet(OpenFiles(e)) /\ acc[e].open_count = Cardinality(OpenFiles(e))
    BY ConfigAssumption, FS_Subset DEF OpenFiles, AccessInv
  <2>2. CASE e = d
    <3>1. f \notin OpenFiles(e) /\ OpenFiles(e)' = OpenFiles(e) \cup {f}
      BY <1>2, <1>3, <2>2 DEF OpenFiles, d
    <3>2. QED BY <1>4, <2>1, <2>2, <3>1, FS_AddElement
  <2>3. CASE e # d
    <3>1. OpenFiles(e)' = OpenFiles(e)
      BY <1>3, <2>3 DEF OpenFiles, d
    <3>2. QED BY <1>4, <2>1, <2>3, <3>1
  <2>4. QED BY <2>2, <2>3
<1>9. ASSUME NEW e \in Devices
      PROVE  /\ acc'[e].writers = IF acc'[e].master = NULL THEN 0 ELSE 1
             /\ (acc[e].master # NULL => DevOf[acc[e].master] = e /\ Writes(acc[e].master))'
  <2>1. acc[e].master # NULL => DevOf[acc[e].master] = e /\ Writes(acc[e].master)
    BY DEF AccessInv
  <2>2. acc[e].master \in Files \cup {NULL}
    BY DEF AccessInv, AccRecords
  <2>3. (acc[e].master # NULL => DevOf[acc[e].master] = e /\ Writes(acc[e].master))'
    <3>1. CASE e = d /\ "w" \in m
      <4>1. acc'[e].master = f
        BY <1>4, <3>1
      <4>2. Writes(f)'
        BY <1>7, <3>1
      <4>3. QED BY <3>1, <4>1, <4>2 DEF d
    <3>2. CASE ~(e = d /\ "w" \in m)
      <4>1. acc'[e].master = acc[e].master
        BY <1>4, <3>2
      <4>2. \A g \in Files : Writes(g) => file'[g] # NULL /\ "w" \in file'[g].modes
        BY <1>7 DEF Writes
      <4>3. QED BY <2>1, <2>2, <4>1, <4>2 DEF Writes
    <3>3. QED BY <3>1, <3>2
  <2>4. acc'[e].writers = IF acc'[e].master = NULL THEN 0 ELSE 1
    <3>1. acc[e].writers = IF acc[e].master = NULL THEN 0 ELSE 1
      BY DEF AccessInv
    <3>2. f # NULL
      BY <1>1
    <3>3. QED BY <1>2, <1>4, <3>1, <3>2
  <2>5. QED BY <2>3, <2>4
<1>10. ASSUME NEW g \in Files, Writes(g)' PROVE acc'[DevOf[g]].master = g
  <2>1. DevOf[g] \in Devices
    BY ConfigAssumption DEF Devices
  <2>2. CASE g = f
    BY <1>2, <1>3, <1>4, <1>10, <2>2 DEF Writes, d
  <2>3. CASE g # f
    <3>1. Writes(g) /\ acc[DevOf[g]].master = g
      BY <1>7, <1>10, <2>3 DEF AccessInv
    <3>2. g # NULL
      BY <1>1
    <3>3. QED BY <1>2, <1>4, <2>1, <3>1, <3>2 DEF d
  <2>4. QED BY <2>2, <2>3
<1>11. QED BY <1>3, <1>6, <1>8, <1>9, <1>10 DEF AccessInv

(* Closing: the writer, if it was one, was the master (libera_cfg_release). *)
LEMMA ReleaseKeeps ==
    ASSUME AccessInv, NEW f \in Files, Release(f)
    PROVE  AccessInv'
<1> DEFINE d == DevOf[f]
           m == file[f].modes
           left == acc[d].writers - IF "w" \in m THEN 1 ELSE 0
<1>1. d \in Devices /\ NULL \notin Files \cup FileRecords
  BY ConfigAssumption DEF Devices, FileRecords
<1>2. /\ file[f] # NULL /\ file' = [file EXCEPT ![f] = NULL]
      /\ acc' = [acc EXCEPT ![d].open_count = @ - 1,
                            ![d].readers = @ - IF "r" \in m THEN 1 ELSE 0,
                            ![d].writers = left,
                            ![d].master = IF "w" \in m /\ left = 0 THEN NULL ELSE @]
  BY DEF Release
<1>3. /\ file' \in [Files -> FileRecords \cup {NULL}] /\ file'[f] = NULL
      /\ \A g \in Files \ {f} : file'[g] = file[g]
  BY <1>2 DEF AccessInv
<1>4. acc[d].writers = (IF acc[d].master = NULL THEN 0 ELSE 1) /\ acc[d] \in AccRecords
  BY <1>1 DEF AccessInv
<1>5. "w" \in m => acc[d].master = f /\ left = 0
  <2>1. "w" \in m => acc[d].master = f
    BY <1>2 DEF AccessInv, Writes
  <2>2. f # NULL
    BY <1>1
  <2>3. QED BY <1>4, <2>1, <2>2
<1>6. ("w" \notin m => left = acc[d].writers) /\ left \in {0, 1}
  BY <1>4, <1>5 DEF AccRecords
<1>7. OpenFiles(d) = OpenFiles(d)' \cup {f} /\ f \notin OpenFiles(d)'
      /\ f \in OpenFiles(d) /\ OpenFiles(d)' = OpenFiles(d) \ {f}
  BY <1>2, <1>3 DEF OpenFiles
<1>8. IsFiniteSet(OpenFiles(d)) /\ acc[d].open_count = Cardinality(OpenFiles(d))
  BY <1>1, ConfigAssumption, FS_Subset DEF OpenFiles, AccessInv
<1>9. /\ Cardinality(OpenFiles(d)') = acc[d].open_count - 1
      /\ acc[d].open_count - 1 \in Nat
  <2>1. Cardinality(OpenFiles(d)') = Cardinality(OpenFiles(d)) - 1
    BY <1>7, <1>8, FS_RemoveElement
  <2>2. IsFiniteSet(OpenFiles(d)')
    BY <1>7, <1>8, FS_RemoveElement
  <2>3. QED BY <1>8, <2>1, <2>2, FS_CardinalityType
<1> HIDE DEF d, m, left
<1>10. acc'[d] = [master |-> IF "w" \in m /\ left = 0 THEN NULL ELSE acc[d].master,
                  readers |-> acc[d].readers - IF "r" \in m THEN 1 ELSE 0,
                  writers |-> left, open_count |-> acc[d].open_count - 1]
  BY <1>1, <1>2, <1>4 DEF AccessInv, AccRecords
<1>11. /\ DOMAIN acc' = Devices /\ \A e \in Devices \ {d} : acc'[e] = acc[e]
       /\ acc'[d].master = IF "w" \in m THEN NULL ELSE acc[d].master
       /\ acc'[d].writers = left /\ acc'[d].open_count = acc[d].open_count - 1
  BY <1>1, <1>2, <1>5, <1>10 DEF AccessInv
<1>12. acc' \in [Devices -> AccRecords]
  <2>1. acc'[d] \in AccRecords
    BY <1>4, <1>6, <1>9, <1>10 DEF AccRecords
  <2>2. QED BY <1>1, <1>2, <1>11, <2>1 DEF AccessInv
<1>13. \A g \in Files : Writes(g)' <=> Writes(g) /\ g # f
  BY <1>3 DEF Writes
<1>14. \A g \in Files \ {f} : Writes(g) => file'[g] # NULL /\ "w" \in file'[g].modes
  BY <1>3 DEF Writes
<1>15. ASSUME NEW e \in Devices
       PROVE  acc'[e].open_count = Cardinality(OpenFiles(e)')
  <2>1. CASE e = d
    BY <1>9, <1>11, <2>1
  <2>2. CASE e # d
    <3>1. OpenFiles(e)' = OpenFiles(e)
      BY <1>3, <2>2 DEF OpenFiles, d
    <3>2. QED BY <1>11, <2>2, <3>1 DEF AccessInv
  <2>3. QED BY <2>1, <2>2
<1>16. ASSUME NEW e \in Devices
       PROVE  /\ acc'[e].writers = IF acc'[e].master = NULL THEN 0 ELSE 1
              /\ (acc[e].master # NULL => DevOf[acc[e].master] = e /\ Writes(acc[e].master))'
  <2>1. acc[e].master # NULL => DevOf[acc[e].master] = e /\ Writes(acc[e].master)
    BY DEF AccessInv
  <2>2. acc[e].master \in Files \cup {NULL}
        /\ acc[e].writers = IF acc[e].master = NULL THEN 0 ELSE 1
    BY DEF AccessInv, AccRecords
  <2>3. CASE e = d /\ "w" \in m
    BY <1>5, <1>11, <2>3
  <2>4. CASE ~(e = d /\ "w" \in m)
    <3>1. acc'[e].master = acc[e].master /\ acc'[e].writers = acc[e].writers
      BY <1>6, <1>11, <2>4
    <3>2. acc[e].master # f
      <4>1. e # d /\ acc[e].master # NULL => DevOf[acc[e].master] # d
        BY <2>1
      <4>2. f # NULL /\ DevOf[f] = d
        BY <1>1 DEF d
      <4>3. "w" \notin m => ~Writes(f)
        BY DEF Writes, m
      <4>4. QED BY <2>1, <2>4, <4>1, <4>2, <4>3
    <3>3. QED BY <1>14, <2>1, <2>2, <3>1, <3>2 DEF Writes
  <2>5. QED BY <2>3, <2>4
<1>17. ASSUME NEW g \in Files, Writes(g)' PROVE acc'[DevOf[g]].master = g
  <2>1. DevOf[g] \in Devices /\ g # f /\ Writes(g)
    BY <1>13, <1>17, ConfigAssumption DEF Devices
  <2>2. acc[DevOf[g]].master = g
    BY <2>1 DEF AccessInv
  <2>3. QED BY <1>5, <1>11, <2>1, <2>2
<1>18. QED BY <1>3, <1>12, <1>15, <1>16, <1>17 DEF AccessInv

(* Moving the position of an open file changes nobody's access. *)
LEMMA MovedKeeps ==
    ASSUME AccessInv, NEW f \in Files, Moved(f), acc' = acc
    PROVE  AccessInv'
<1>1. PICK n \in Nat : file[f] # NULL /\ file' = [file EXCEPT ![f].pos = n]
  BY DEF Moved
<1>2. NULL \notin FileRecords
  BY ConfigAssumption DEF FileRecords
<1>3. file[f] \in FileRecords
  BY <1>1 DEF AccessInv
<1>4. /\ file' \in [Files -> FileRecords \cup {NULL}] /\ file'[f] # NULL
      /\ file'[f].modes = file[f].modes
      /\ \A g \in Files \ {f} : file'[g] = file[g]
  BY <1>1, <1>2, <1>3 DEF AccessInv, FileRecords
<1>5. \A e \in Devices : OpenFiles(e)' = OpenFiles(e)
  BY <1>1, <1>4 DEF OpenFiles
<1>6. \A g \in Files : (file'[g] # NULL <=> file[g] # NULL) /\ file'[g].modes = file[g].modes
  BY <1>1, <1>4
<1>7. \A e \in Devices :
        /\ acc'[e].open_count = Cardinality(OpenFiles(e)')
        /\ acc'[e].writers = IF acc'[e].master = NULL THEN 0 ELSE 1
  BY <1>5 DEF AccessInv
<1>8. \A e \in Devices :
        (acc[e].master # NULL => DevOf[acc[e].master] = e /\ Writes(acc[e].master))'
  BY <1>6 DEF AccessInv, AccRecords, Writes
<1>9. \A g \in Files : Writes(g)' => acc'[DevOf[g]].master = g
  BY <1>6 DEF AccessInv, Writes
<1>10. acc' \in [Devices -> AccRecords]
  BY DEF AccessInv
<1>11. QED BY <1>4, <1>7, <1>8, <1>9, <1>10 DEF AccessInv

(* The access to the devices, for every step. *)
LEMMA AccessInvariant ==
    ASSUME AccessInv, BlockInv, [Next]_vars
    PROVE  AccessInv'
<1>1. CASE UNCHANGED << acc, file >>
  BY <1>1 DEF AccessInv, Writes, OpenFiles
<1>2. ASSUME NEW f \in Files, acc' = acc, Moved(f) PROVE AccessInv'
  BY <1>2, MovedKeeps
<1>3. QED BY <1>1, <1>2, AccessStep, OpenKeeps, ReleaseKeeps

-----------------------------------------------------------------------------
(* The block calls *)

(* A block call keeps the files open that are; nobody closes one under way. *)
LEMMA OpenWhileCalled ==
    ASSUME AccessInv, BlockInv, [Next]_vars, NEW f \in Files, file[f] # NULL, at[f] # "user"
    PROVE  file'[f] # NULL
<1>1. NULL \notin FileRecords
  BY ConfigAssumption DEF FileRecords
<1>2. CASE UNCHANGED << acc, file >>
  BY <1>2
<1>3. ASSUME NEW g \in Files, NEW m \in Modes[g], Open(g, m) PROVE file'[f] # NULL
  BY <1>3 DEF Open, AccessInv
<1>4. ASSUME NEW g \in Files, Release(g) PROVE file'[f] # NULL
  BY <1>4 DEF Release, AccessInv
<1>5. ASSUME NEW g \in Files, Moved(g) PROVE file'[f] # NULL
  <2>1. PICK n \in Nat : file[g] # NULL /\ file' = [file EXCEPT ![g].pos = n]
    BY <1>5 DEF Moved
  <2>2. file[g] \in FileRecords
    BY <2>1 DEF AccessInv
  <2>3. file'[g] \in FileRecords /\ (g # f => file'[f] = file[f])
    BY <2>1, <2>2 DEF AccessInv, FileRecords
  <2>4. QED BY <1>1, <2>3
<1>6. QED BY <1>2, <1>3, <1>4, <1>5, AccessStep

(* A call that starts finds the semaphore free (StartRead, StartWrite). *)
LEMMA StartKeeps ==
    ASSUME BlockInv, NEW f \in Files, sem[DevOf[f]] = NULL, file[f] # NULL,
           \A g \in Files : at[g] # "user" => file'[g] # NULL, file' = file,
           NEW b, DOMAIN b \subseteq DOMAIN Block[DevOf[f]], NEW place \in {"reading", "writing"},
           sem' = [sem EXCEPT ![DevOf[f]] = f], buf' = [buf EXCEPT ![DevOf[f]] = b],
           at' = [at EXCEPT ![f] = place], DOMAIN seen' = Files,
           seen' = IF place = "reading" THEN [seen EXCEPT ![f] = b] ELSE seen
    PROVE  BlockInv'
<1>1. DevOf \in [Files -> Devices] /\ NULL \notin Files
  BY ConfigAssumption DEF Devices
<1>2. \A g \in Files : DevOf[g] = DevOf[f] => at[g] = "user"
  BY <1>1 DEF BlockInv
<1>3. /\ sem' \in [Devices -> Files \cup {NULL}] /\ at' \in [Files -> {"user", "reading", "writing"}]
      /\ DOMAIN buf' = Devices
  BY <1>1 DEF BlockInv
<1>4. ASSUME NEW g \in Files, at'[g] # "user"
      PROVE  /\ sem'[DevOf[g]] = g /\ file'[g] # NULL
             /\ DOMAIN buf'[DevOf[g]] \subseteq DOMAIN Block[DevOf[g]]
             /\ at'[g] = "reading" => seen'[g] = buf'[DevOf[g]]
  <2>1. CASE g = f
    BY <1>1, <2>1 DEF BlockInv
  <2>2. CASE g # f
    <3>1. at[g] # "user" /\ at'[g] = at[g] /\ DevOf[g] # DevOf[f]
      BY <1>2, <1>4, <2>2 DEF BlockInv
    <3>2. sem'[DevOf[g]] = sem[DevOf[g]] /\ buf'[DevOf[g]] = buf[DevOf[g]] /\ seen'[g] = seen[g]
      BY <1>1, <2>2, <3>1 DEF BlockInv
    <3>3. QED BY <3>1, <3>2 DEF BlockInv
  <2>3. QED BY <2>1, <2>2
<1>5. QED BY <1>3, <1>4 DEF BlockInv

(* A call that ends frees it, and leaves the buffer (FinishRead, FinishWrite). *)
LEMMA FinishKeeps ==
    ASSUME BlockInv, NEW f \in Files, at[f] # "user",
           \A g \in Files : at[g] # "user" => file'[g] # NULL,
           sem' = [sem EXCEPT ![DevOf[f]] = NULL], at' = [at EXCEPT ![f] = "user"],
           buf' = buf, seen' = [seen EXCEPT ![f] = NULL] \/ seen' = seen
    PROVE  BlockInv'
<1>1. DevOf \in [Files -> Devices] /\ NULL \notin Files
  BY ConfigAssumption DEF Devices
<1>2. /\ sem' \in [Devices -> Files \cup {NULL}] /\ at' \in [Files -> {"user", "reading", "writing"}]
      /\ DOMAIN buf' = Devices /\ DOMAIN seen' = Files
  BY <1>1 DEF BlockInv
<1>3. ASSUME NEW g \in Files, at'[g] # "user"
      PROVE  /\ sem'[DevOf[g]] = g /\ file'[g] # NULL
             /\ DOMAIN buf'[DevOf[g]] \subseteq DOMAIN Block[DevOf[g]]
             /\ at'[g] = "reading" => seen'[g] = buf'[DevOf[g]]
  <2>1. g # f /\ at[g] # "user" /\ at'[g] = at[g]
    BY <1>3 DEF BlockInv
  <2>2. DevOf[g] # DevOf[f]
    BY <2>1 DEF BlockInv
  <2>3. sem'[DevOf[g]] = sem[DevOf[g]] /\ seen'[g] = seen[g]
    BY <1>1, <2>1, <2>2 DEF BlockInv
  <2>4. QED BY <2>1, <2>3 DEF BlockInv
<1>4. QED BY <1>2, <1>3 DEF BlockInv

(* The block calls, for every step. *)
LEMMA BlockInvariant ==
    ASSUME AccessInv, BlockInv, [Next]_vars
    PROVE  BlockInv'
<1>1. \A g \in Files : at[g] # "user" => file'[g] # NULL
  BY OpenWhileCalled DEF BlockInv
<1>2. CASE UNCHANGED blockVars
  BY <1>1, <1>2 DEF BlockInv, blockVars
<1>3. ASSUME NEW f \in Files, NEW n \in Nat, StartRead(f, n), file' = file PROVE BlockInv'
  <2> DEFINE b == [ k \in Span(f, n) |-> dev.reg[Block[DevOf[f]][k]] ]
  <2>1. DOMAIN b \subseteq DOMAIN Block[DevOf[f]]
    BY <1>3, SpanInBlock DEF StartRead, BlockRead
  <2>2. /\ sem[DevOf[f]] = NULL /\ file[f] # NULL
        /\ sem' = [sem EXCEPT ![DevOf[f]] = f] /\ buf' = [buf EXCEPT ![DevOf[f]] = b]
        /\ at' = [at EXCEPT ![f] = "reading"] /\ seen' = [seen EXCEPT ![f] = buf'[DevOf[f]]]
    BY <1>3 DEF StartRead, BlockRead
  <2>3. DevOf[f] \in Devices
    BY ConfigAssumption DEF Devices
  <2> HIDE DEF b
  <2>4. seen' = [seen EXCEPT ![f] = b] /\ DOMAIN seen' = Files
    BY <2>2, <2>3 DEF BlockInv
  <2>5. QED BY <1>1, <1>3, <2>1, <2>2, <2>4, StartKeeps
<1>4. ASSUME NEW f \in Files, NEW n \in Nat, StartWrite(f, n), file' = file PROVE BlockInv'
  <2>1. PICK w \in Words : buf' = [buf EXCEPT ![DevOf[f]] = [ k \in Span(f, n) |-> w ]]
    BY <1>4 DEF StartWrite
  <2> DEFINE b == [ k \in Span(f, n) |-> w ]
  <2>2. DOMAIN b \subseteq DOMAIN Block[DevOf[f]]
    BY <1>4, SpanInBlock DEF StartWrite
  <2>3. /\ sem[DevOf[f]] = NULL /\ file[f] # NULL
        /\ sem' = [sem EXCEPT ![DevOf[f]] = f] /\ buf' = [buf EXCEPT ![DevOf[f]] = b]
        /\ at' = [at EXCEPT ![f] = "writing"] /\ seen' = seen
    BY <1>4, <2>1 DEF StartWrite
  <2> HIDE DEF b
  <2>4. DOMAIN seen' = Files
    BY <2>3 DEF BlockInv
  <2>5. QED BY <1>1, <1>4, <2>2, <2>3, <2>4, StartKeeps
<1>5. ASSUME NEW f \in Files, FinishRead(f) PROVE BlockInv'
  <2>1. /\ at[f] # "user" /\ sem' = [sem EXCEPT ![DevOf[f]] = NULL]
        /\ at' = [at EXCEPT ![f] = "user"] /\ buf' = buf /\ seen' = [seen EXCEPT ![f] = NULL]
    BY <1>5 DEF FinishRead
  <2>2. QED BY <1>1, <2>1, FinishKeeps
<1>6. ASSUME NEW f \in Files, FinishWrite(f) PROVE BlockInv'
  <2>1. /\ at[f] # "user" /\ sem' = [sem EXCEPT ![DevOf[f]] = NULL]
        /\ at' = [at EXCEPT ![f] = "user"] /\ buf' = buf /\ seen' = seen
    BY <1>6 DEF FinishWrite
  <2>2. QED BY <1>1, <2>1, FinishKeeps
<1>7. ASSUME NEW f \in BlockFiles, Blocks(f) PROVE BlockInv'
  <2>1. f \in Files /\ Counts \subseteq Nat
    BY ParamsAssumption
  <2>2. ASSUME NEW n \in Counts, libera_dsc_read(f, n) \/ libera_fa_read(f, n), file' = file
        PROVE  BlockInv'
    BY <1>3, <2>1, <2>2 DEF libera_dsc_read, libera_fa_read
  <2>3. ASSUME NEW n \in Counts, libera_dsc_write(f, n) \/ libera_fa_write(f, n), file' = file
        PROVE  BlockInv'
    BY <1>4, <2>1, <2>3 DEF libera_dsc_write, libera_fa_write
  <2>4. CASE UNCHANGED blockVars
    BY <1>2, <2>4
  <2>5. QED BY <1>5, <1>6, <1>7, <2>1, <2>2, <2>3, <2>4 DEF Blocks, accessVars
<1>8. QED BY <1>2, <1>7 DEF Next, vars, configVars

-----------------------------------------------------------------------------
(* The mirror and the registers *)

(* A nonempty set of places has a first (handle_params). *)
LEMMA FirstOfIsFirst ==
    ASSUME NEW T, T \subseteq Nat, T # {}
    PROVE  FirstOf(T) \in T /\ \A k \in T : FirstOf(T) <= k
<1>1. IsWellFoundedOn(OpToRel(<, Nat), Nat)
  BY NatLessThanWellFounded
<1>2. PICK x \in T : \A y \in T : ~ (<<y, x>> \in OpToRel(<, Nat))
  BY <1>1, WFMin
<1>3. \A y \in T : x <= y
  <2>1. ASSUME NEW y \in T, y < x PROVE FALSE
    <3>1. <<y, x>> \in Nat \X Nat /\ <<y, x>>[1] = y /\ <<y, x>>[2] = x
      OBVIOUS
    <3>2. <<y, x>> \in OpToRel(<, Nat)
      BY <2>1, <3>1 DEF OpToRel
    <3>3. QED BY <1>2, <3>2
  <2>2. QED BY <2>1
<1>4. QED BY <1>3 DEF FirstOf, Min

(* The map has the members of an atom before the one that commits it, under  *)
(* the same mask.                                                            *)
LEMMA MapOrder ==
    /\ DOMAIN ParamMap = 1 .. 26
    /\ \A k \in 1 .. 26 : ParamMap[k].idx \in Params \cup DOMAIN Unmirrored
    /\ \A k \in 1 .. 26 : ParamMap[k].idx = "ILK_GAIN_LIMIT" => k = 8 /\ ParamMap[k].mask = "ILK"
    /\ \A k \in 1 .. 26 : ParamMap[k].idx = "PM_OVERFLOW_DUR" => k = 20 /\ ParamMap[k].mask = "PM"
    /\ \A k \in 4 .. 7 : ParamMap[k].mask = "ILK"
    /\ \A k \in 17 .. 19 : ParamMap[k].mask = "PM"
    /\ ParamMap[4].idx = "ILK_MODE" /\ ParamMap[5].idx = "ILK_XLOW"
    /\ ParamMap[6].idx = "ILK_OVERFLOW_DUR" /\ ParamMap[7].idx = "ILK_OVERFLOW_LIMIT"
    /\ ParamMap[17].idx = "PM_MODE" /\ ParamMap[18].idx = "PM_XLOW"
    /\ ParamMap[19].idx = "PM_OVERFLOW_LIMIT"
<1>1. DOMAIN ParamMap = 1 .. 26
  BY DEF ParamMap
<1>2. \A k \in 1 .. 26 : ParamMap[k].idx \in
        {"TRIGMODE", "KX", "XOFFSET", "ILK_MODE", "ILK_XLOW", "ILK_OVERFLOW_DUR",
         "ILK_OVERFLOW_LIMIT", "ILK_GAIN_LIMIT", "ILKSTATUS", "PMOFFSET", "PMDEC", "TRIGDELAY",
         "EXTSWITCH", "SWDELAY", "DDC_MAFLENGTH", "DDC_MAFDELAY", "PM_MODE", "PM_XLOW",
         "PM_OVERFLOW_LIMIT", "PM_OVERFLOW_DUR", "SR_ENABLE", "SR_CSPI_ENABLE",
         "SR_AVERAGE_WINDOW", "SP_THRESHOLD", "NOTCH_FIRST", "NOTCH_LAST"}
  BY DEF ParamMap
<1>3. {"TRIGMODE", "KX", "XOFFSET", "ILK_MODE", "ILK_XLOW", "ILK_OVERFLOW_DUR",
       "ILK_OVERFLOW_LIMIT", "ILK_GAIN_LIMIT", "ILKSTATUS", "PMOFFSET", "PMDEC", "TRIGDELAY",
       "EXTSWITCH", "SWDELAY", "DDC_MAFLENGTH", "DDC_MAFDELAY", "PM_MODE", "PM_XLOW",
       "PM_OVERFLOW_LIMIT", "PM_OVERFLOW_DUR", "SR_ENABLE", "SR_CSPI_ENABLE",
       "SR_AVERAGE_WINDOW", "SP_THRESHOLD", "NOTCH_FIRST", "NOTCH_LAST"}
       \subseteq Params \cup DOMAIN Unmirrored
  BY Kinds DEF Params, Staged, Ilk, Pm, Limits, Software
<1>4. \A k \in 1 .. 26 : ParamMap[k].idx = "ILK_GAIN_LIMIT" => k = 8
  BY DEF ParamMap
<1>5. \A k \in 1 .. 26 : ParamMap[k].idx = "PM_OVERFLOW_DUR" => k = 20
  BY DEF ParamMap
<1>6. /\ ParamMap[8].mask = "ILK" /\ ParamMap[20].mask = "PM"
      /\ ParamMap[4] = [idx |-> "ILK_MODE", mask |-> "ILK"]
      /\ ParamMap[5] = [idx |-> "ILK_XLOW", mask |-> "ILK"]
      /\ ParamMap[6] = [idx |-> "ILK_OVERFLOW_DUR", mask |-> "ILK"]
      /\ ParamMap[7] = [idx |-> "ILK_OVERFLOW_LIMIT", mask |-> "ILK"]
      /\ ParamMap[17] = [idx |-> "PM_MODE", mask |-> "PM"]
      /\ ParamMap[18] = [idx |-> "PM_XLOW", mask |-> "PM"]
      /\ ParamMap[19] = [idx |-> "PM_OVERFLOW_LIMIT", mask |-> "PM"]
  BY DEF ParamMap
<1>7. (\A k \in 4 .. 7 : k \in {4, 5, 6, 7}) /\ (\A k \in 17 .. 19 : k \in {17, 18, 19})
  OBVIOUS
<1>8. (\A k \in 4 .. 7 : ParamMap[k].mask = "ILK") /\ (\A k \in 17 .. 19 : ParamMap[k].mask = "PM")
  BY <1>6, <1>7
<1>9. \A k \in 1 .. 26 : ParamMap[k].idx \in Params \cup DOMAIN Unmirrored
  BY <1>2, <1>3
<1>10. QED BY <1>1, <1>4, <1>5, <1>6, <1>8, <1>9

(* The parameter a call sets next, and to what. *)
Index(t) == ParamMap[FirstOf(todo[t])].idx
Value(t) == call[t].p[Index(t)]

SetsOne(t) ==
    /\ pc[t] = "setting" /\ todo[t] # {} /\ acc["cfg"].master = Proc(t)
    /\ SetCfg(dev, Index(t), Value(t)).ok /\ dev' = SetCfg(dev, Index(t), Value(t)).dev
    /\ SendCfg(Index(t))
    /\ todo' = [todo EXCEPT ![t] = @ \ {FirstOf(todo[t])}]
    /\ UNCHANGED << acc, file, pc, call, ep, ok, envmutex, dirty, cache, level, failed >>

(* The steps that change a parameter or a register. *)
LEMMA DevStep ==
    ASSUME [Next]_vars
    PROVE  \/ dev' = dev
           \/ \E t \in Threads : SetsOne(t)
           \/ \E v \in Offsets : /\ dev' = check_and_update(dev, v) /\ level' = TRUE
                                 /\ UNCHANGED << acc, file, threadVars, procVars >>
           \/ \E f \in Files : FinishWrite(f) /\ UNCHANGED << acc, threadVars, procVars, level >>
<1>1. CASE UNCHANGED vars
  BY <1>1 DEF vars, configVars
<1>2. ASSUME NEW t \in Threads, set_param(t) PROVE dev' = dev \/ SetsOne(t)
  BY <1>2 DEF set_param, SetsOne, Index, Value
<1>3. ASSUME NEW t \in Threads, ThreadStep(t) PROVE dev' = dev \/ SetsOne(t)
  <2>1. CASE set_param(t)
    BY <1>2, <2>1
  <2>2. CASE ~set_param(t)
    BY <1>3, <2>2 DEF ThreadStep, cspi_setenvparam, custom_setenvparam, cspi_read,
        custom_initop, StartUpdate, get_param, UpdateFails, StoreOffsets, ebpp_update_cache,
        StoreCache, read_dd, ApplyOp
  <2>3. QED BY <2>1, <2>2
<1>4. ASSUME NEW pr, InitEnv(pr) \/ Exit(pr) \/ signal_handler_hook(pr) PROVE dev' = dev
  BY <1>4 DEF InitEnv, Exit, signal_handler_hook
<1>5. ASSUME NEW f, OpenOrClose(f) \/ libera_dsc_ioctl_event(f) PROVE dev' = dev
  BY <1>5 DEF OpenOrClose, libera_dsc_ioctl_event
<1>6. ASSUME NEW f, libera_dsc_ioctl_offsets(f)
      PROVE  \E v \in Offsets : /\ dev' = check_and_update(dev, v) /\ level' = TRUE
                                /\ UNCHANGED << acc, file, threadVars, procVars >>
  BY <1>6 DEF libera_dsc_ioctl_offsets
<1>7. ASSUME NEW f, Blocks(f) PROVE dev' = dev \/ (FinishWrite(f) /\ UNCHANGED acc)
  BY <1>7 DEF Blocks
<1>8. BlockFiles \subseteq Files
  BY ParamsAssumption
<1>9. QED BY <1>1, <1>3, <1>4, <1>5, <1>6, <1>7, <1>8 DEF Next

(* What is set next is a parameter, to a value its request has. *)
LEMMA NextToSet ==
    ASSUME SettingInv, NEW t \in Threads, pc[t] = "setting", todo[t] # {}
    PROVE  /\ FirstOf(todo[t]) \in todo[t] /\ \A k \in todo[t] : FirstOf(todo[t]) <= k
           /\ todo[t] \subseteq 1 .. 26
           /\ Index(t) \in Params \cup DOMAIN Unmirrored /\ Value(t) \in Int
           /\ DOMAIN call[t].p = Params \cup DOMAIN Unmirrored
<1>1. PICK r \in Requests[t] : call[t].flags = r.flags /\ call[t].p = r.p
  BY DEF SettingInv, SettingOf
<1>2. call[t].p \in [Params \cup DOMAIN Unmirrored -> Int]
  <2>1. r \in [flags : SUBSET STRING, p : [Params \cup DOMAIN Unmirrored -> Int]]
    BY ParamsAssumption
  <2>2. r.p \in [Params \cup DOMAIN Unmirrored -> Int]
    BY <2>1
  <2>3. QED BY <1>1, <2>2
<1>3. todo[t] \subseteq 1 .. 26
  BY MapOrder DEF SettingInv, SettingOf, handle_params
<1>4. FirstOf(todo[t]) \in todo[t] /\ \A k \in todo[t] : FirstOf(todo[t]) <= k
  <2>1. todo[t] \subseteq Nat
    BY <1>3
  <2>2. QED BY <2>1, FirstOfIsFirst
<1>5. Index(t) \in Params \cup DOMAIN Unmirrored
  BY <1>3, <1>4, MapOrder DEF Index
<1>6. QED BY <1>2, <1>3, <1>4, <1>5 DEF Value

(* What a call sets is what SetCfgSets says. *)
LEMMA SetsOneSets ==
    ASSUME DevInv, SettingInv, NEW t \in Threads, SetsOne(t)
    PROVE  SetFrom(dev, dev', Index(t), Value(t))
  BY NextToSet, SetCfgSets DEF SetsOne, DevInv

(* dscd's offset is written with the user's added (check_and_update). *)
LEMMA UpdateSets ==
    ASSUME DevInv, NEW v \in Offsets, dev' = check_and_update(dev, v)
    PROVE  /\ DevInv' /\ \A j \in Params \ {"BCD_XOFFSET"} : dev'.param[j] = dev.param[j]
           /\ \A r \in IlkRegs \cup PmRegs : dev'.reg[r] = dev.reg[r]
<1>1. CASE v = dev.param["BCD_XOFFSET"]
  <2>1. dev' = dev
    BY <1>1 DEF check_and_update
  <2>2. QED BY <2>1 DEF DevInv
<1>2. CASE v # dev.param["BCD_XOFFSET"]
  <2> DEFINE m == Mirror(dev, "BCD_XOFFSET", v)
             n == writel(m, v + m.param["XOFFSET"], "FA_X")
  <2>1. "XOFFSET" \in Params /\ "BCD_XOFFSET" \in Params /\ v \in Int
    BY ParamNames, ParamsAssumption
  <2>2. /\ DevShape(m) /\ m.reg = dev.reg
        /\ \A j \in Params : m.param[j] = IF j = "BCD_XOFFSET" THEN v ELSE dev.param[j]
    BY <2>1, MirrorSets DEF DevInv
  <2>3. dev' = n
    BY <1>2 DEF check_and_update
  <2> HIDE DEF m
  <2>4. /\ DevShape(n) /\ n.param = m.param
        /\ \A q \in Regs : n.reg[q] = IF q = "FA_X" THEN v + m.param["XOFFSET"] ELSE m.reg[q]
    BY <2>2, WritelSets, RegNames
  <2> HIDE DEF n
  <2>5. /\ n.reg["FA_X"] = v + dev.param["XOFFSET"]
        /\ \A r \in IlkRegs \cup PmRegs : n.reg[r] = dev.reg[r]
    BY <2>1, <2>2, <2>4, RegNames
  <2>6. Added(n)
    BY <2>1, <2>2, <2>4, <2>5 DEF Added, DevInv
  <2>7. QED BY <2>2, <2>3, <2>4, <2>5, <2>6 DEF DevInv
<1>3. QED BY <1>1, <1>2

(* A block write reaches registers of the block only (libera_dsc_write). *)
LEMMA FinishWriteSets ==
    ASSUME DevInv, BlockInv, NEW f \in Files, FinishWrite(f)
    PROVE  DevInv' /\ dev'.param = dev.param /\ \A r \in Own : dev'.reg[r] = dev.reg[r]
<1> DEFINE b == buf[DevOf[f]]
           a == [ r \in { Block[DevOf[f]][k] : k \in DOMAIN b } |->
                    b[CHOOSE k \in DOMAIN b : Block[DevOf[f]][k] = r] ]
<1>1. dev' = WriteAtom(dev, a) /\ at[f] = "writing"
  BY DEF FinishWrite
<1>2. DOMAIN a = { Block[DevOf[f]][k] : k \in DOMAIN b }
  OBVIOUS
<1>3. DOMAIN b \subseteq DOMAIN Block[DevOf[f]] /\ DevOf[f] \in Devices
  BY <1>1, ConfigAssumption DEF BlockInv, Devices
<1> HIDE DEF a, b
<1>4. /\ DevShape(dev') /\ dev'.param = dev.param
      /\ \A q \in Regs : dev'.reg[q] = IF q \in DOMAIN a THEN a[q] ELSE dev.reg[q]
  BY <1>1, WriteAtomSets DEF DevInv
<1>5. \A r \in Own : r \in Regs /\ r \notin DOMAIN a
  BY <1>2, <1>3, RegNames, OtherRegs DEF Own
<1>6. \A r \in Own : dev'.reg[r] = dev.reg[r]
  BY <1>4, <1>5
<1>7. Added(dev')
  BY <1>4, <1>6 DEF Added, DevInv, Own
<1>8. QED BY <1>4, <1>6, <1>7 DEF DevInv

(* The mirror and the sum of the offsets, for every step. *)
LEMMA DevInvariant ==
    ASSUME DevInv, BlockInv, SettingInv, [Next]_vars
    PROVE  DevInv'
<1>1. ASSUME NEW t \in Threads, SetsOne(t) PROVE DevInv'
  BY <1>1, SetsOneSets DEF SetFrom, DevInv
<1>2. CASE dev' = dev
  BY <1>2 DEF DevInv
<1>3. QED BY <1>1, <1>2, DevStep, UpdateSets, FinishWriteSets

-----------------------------------------------------------------------------
(* The threads of a process *)

(* The process of a thread has a file of /dev/libera.cfg. *)
LEMMA ProcOfThread ==
    /\ \A t \in Threads : Proc(t) \in Processes /\ Proc(t) \in Files /\ DevOf[Proc(t)] = "cfg"
    /\ Processes \subseteq Files /\ Listening \subseteq Processes /\ NULL \notin Threads
    /\ \A pr \in Processes : DevOf[pr] = "cfg"
  BY ParamsAssumption DEF Proc, Processes, Range

(* A thread goes on: with the mutex as it was, taking it, or giving it up. *)
LEMMA ThreadMoves ==
    ASSUME MutexInv, NEW t \in Threads, NEW place \in Places, pc' = [pc EXCEPT ![t] = place],
           file' = file, file[Proc(t)] # NULL,
           \/ envmutex' = envmutex /\ (place \in Holding => pc[t] \in Holding)
           \/ envmutex[Proc(t)] = NULL /\ envmutex' = [envmutex EXCEPT ![Proc(t)] = t]
           \/ /\ pc[t] \in Holding /\ place \notin Holding
              /\ envmutex' = [envmutex EXCEPT ![Proc(t)] = NULL]
    PROVE  MutexInv'
<1>1. pc' \in [Threads -> Places] /\ DOMAIN envmutex' = Processes
  BY DEF MutexInv
<1>2. ASSUME NEW s \in Threads
      PROVE  /\ pc'[s] \in Holding => envmutex'[Proc(s)] = s
             /\ pc'[s] # "user" => file'[Proc(s)] # NULL
  <2>1. CASE s = t
    BY <2>1, ProcOfThread DEF MutexInv
  <2>2. CASE s # t
    BY <2>2, ProcOfThread DEF MutexInv
  <2>3. QED BY <2>1, <2>2
<1>3. QED BY <1>1, <1>2 DEF MutexInv

(* The places of each kind. *)
LEMMA PlaceNames ==
    /\ {"setting", "get1", "get2", "ask1", "ask2", "bcd1", "bcd2"} = Holding
    /\ {"lock1", "lock2"} = Waiting /\ Holding \cap Waiting = {}
    /\ {"user", "first", "second", "read", "op"} \subseteq Places \ (Holding \cup Waiting)
    /\ Holding \subseteq Places /\ Waiting \subseteq Places
  BY DEF Places, Holding, Waiting, Getting, Asking, Storing

(* What a thread does keeps the mutex with who holds it (environment.mutex). *)
LEMMA ThreadStepKeeps ==
    ASSUME ThreadInv, NEW t \in Threads, ThreadStep(t)
    PROVE  ThreadInv'
<1>0. MutexInv /\ (pc[t] # "user" => file[Proc(t)] # NULL)
  BY DEF ThreadInv, MutexInv
<1>1. CASE cspi_setenvparam(t)
  <2>1. MutexInv'
    BY <1>0, <1>1, PlaceNames, ThreadMoves DEF cspi_setenvparam, Goto
  <2>2. QED BY <1>1, <2>1 DEF cspi_setenvparam, ThreadInv, CallTypes
<1>2. CASE set_param(t)
  <2>1. coming' \in [Processes -> SUBSET HookCases]
    BY <1>2 DEF set_param, SendCfg, ThreadInv, CallTypes
  <2>2. DOMAIN todo' = Threads
    BY <1>2 DEF set_param, ThreadInv, CallTypes
  <2>3. UNCHANGED << file, pc, call, ep, ok, envmutex, dirty, cache, level, failed >>
    BY <1>2 DEF set_param
  <2>4. MutexInv'
    BY <1>0, <2>3 DEF MutexInv
  <2>5. CallTypes'
    BY <2>1, <2>2, <2>3 DEF ThreadInv, CallTypes
  <2>6. QED BY <2>4, <2>5 DEF ThreadInv
<1>3. CASE custom_setenvparam(t)
  <2>1. MutexInv'
    BY <1>0, <1>3, PlaceNames, ThreadMoves DEF custom_setenvparam, Goto
  <2>2. dirty' \in [Processes -> BOOLEAN]
    BY <1>3 DEF custom_setenvparam, ThreadInv, CallTypes
  <2>3. QED BY <1>3, <2>1, <2>2 DEF custom_setenvparam, ThreadInv, CallTypes
<1>4. CASE cspi_read(t)
  <2>1. MutexInv'
    BY <1>0, <1>4, PlaceNames, ThreadMoves DEF cspi_read, Goto, procVars
  <2>2. QED BY <1>4, <2>1 DEF cspi_read, ThreadInv, CallTypes, procVars
<1>5. CASE custom_initop(t)
  <2>1. PICK place \in Places \ Holding : pc' = [pc EXCEPT ![t] = place]
    BY <1>5, PlaceNames DEF custom_initop, Goto
  <2>2. pc[t] # "user" /\ file' = file /\ envmutex' = envmutex
    BY <1>5 DEF custom_initop
  <2>3. MutexInv'
    BY <1>0, <2>1, <2>2, ThreadMoves
  <2>4. QED BY <1>5, <2>3 DEF custom_initop, ThreadInv, CallTypes
<1>6. CASE StartUpdate(t)
  <2>1. PICK place \in Places : pc' = [pc EXCEPT ![t] = place]
    BY <1>6, PlaceNames DEF StartUpdate, Goto
  <2>2. /\ pc[t] # "user" /\ file' = file
        /\ envmutex[Proc(t)] = NULL /\ envmutex' = [envmutex EXCEPT ![Proc(t)] = t]
    BY <1>6 DEF StartUpdate
  <2>3. MutexInv'
    BY <1>0, <2>1, <2>2, ThreadMoves
  <2>4. QED BY <1>6, <2>3 DEF StartUpdate, ThreadInv, CallTypes
<1>7. CASE get_param(t) \/ StoreOffsets(t)
  <2>1. PICK place \in Places : pc' = [pc EXCEPT ![t] = place]
    BY <1>7, PlaceNames DEF get_param, StoreOffsets, Goto
  <2>2. pc[t] \in Holding /\ pc[t] # "user" /\ file' = file /\ envmutex' = envmutex
    BY <1>7, PlaceNames DEF get_param, StoreOffsets, procVars
  <2>3. MutexInv'
    BY <1>0, <2>1, <2>2, ThreadMoves
  <2>4. QED BY <1>7, <2>3 DEF get_param, StoreOffsets, ThreadInv, CallTypes, procVars
<1>8. CASE UpdateFails(t) \/ ebpp_update_cache(t)
  <2>1. PICK place \in Places \ Holding : pc' = [pc EXCEPT ![t] = place]
    BY <1>8, PlaceNames DEF UpdateFails, ebpp_update_cache, StoreCache, Goto
  <2>2. /\ pc[t] \in Holding /\ pc[t] # "user" /\ file' = file
        /\ envmutex' = [envmutex EXCEPT ![Proc(t)] = NULL]
    BY <1>8, PlaceNames DEF UpdateFails, ebpp_update_cache, StoreCache
  <2>3. MutexInv'
    BY <1>0, <2>1, <2>2, ThreadMoves
  <2>4. QED BY <1>8, <2>3 DEF UpdateFails, ebpp_update_cache, StoreCache, ThreadInv, CallTypes
<1>9. CASE read_dd(t) \/ ApplyOp(t)
  <2>1. PICK place \in Places \ Holding : pc' = [pc EXCEPT ![t] = place]
    BY <1>9, PlaceNames DEF read_dd, ApplyOp, Goto
  <2>2. pc[t] # "user" /\ file' = file /\ envmutex' = envmutex
    BY <1>9 DEF read_dd, ApplyOp, procVars
  <2>3. MutexInv'
    BY <1>0, <2>1, <2>2, ThreadMoves
  <2>4. QED BY <1>9, <2>3 DEF read_dd, ApplyOp, ThreadInv, CallTypes, procVars
<1>10. QED
  BY <1>1, <1>2, <1>3, <1>4, <1>5, <1>6, <1>7, <1>8, <1>9 DEF ThreadStep

(* An end of the process takes its threads and its mutex along. *)
LEMMA ExitKeeps ==
    ASSUME ThreadInv, AccessInv, NEW pr \in Processes, Exit(pr)
    PROVE  ThreadInv'
<1>1. /\ file' = [file EXCEPT ![pr] = NULL] /\ DOMAIN file = Files
      /\ pc' = [t \in Threads |-> IF Proc(t) = pr THEN "user" ELSE pc[t]]
      /\ envmutex' = [envmutex EXCEPT ![pr] = NULL]
      /\ dirty' = [dirty EXCEPT ![pr] = FALSE]
      /\ cache' = [cache EXCEPT ![pr] = [x |-> 0, sr |-> 0]]
      /\ coming' = [coming EXCEPT ![pr] = {}]
      /\ failed' = [failed EXCEPT ![pr] = FALSE] /\ level' = level
      /\ DOMAIN todo' = Threads /\ DOMAIN call' = Threads /\ DOMAIN ep' = Threads
      /\ DOMAIN ok' = Threads
  BY DEF Exit, libera_cfg_release, Release, AccessInv
<1>2. pc' \in [Threads -> Places] /\ DOMAIN envmutex' = Processes
  BY <1>1, PlaceNames DEF ThreadInv, MutexInv
<1>3. ASSUME NEW t \in Threads
      PROVE  /\ pc'[t] \in Holding => envmutex'[Proc(t)] = t
             /\ pc'[t] # "user" => file'[Proc(t)] # NULL
  <2>1. CASE Proc(t) = pr
    BY <1>1, <2>1, PlaceNames
  <2>2. CASE Proc(t) # pr
    BY <1>1, <2>2, ProcOfThread DEF ThreadInv, MutexInv
  <2>3. QED BY <2>1, <2>2
<1>4. CallTypes'
  BY <1>1 DEF ThreadInv, CallTypes
<1>5. QED BY <1>2, <1>3, <1>4 DEF ThreadInv, MutexInv

(* A file that is not closed by its own process stays open. *)
LEMMA StillOpen ==
    ASSUME AccessInv, BlockInv, [Next]_vars, NEW f \in Files, file[f] # NULL, file'[f] = NULL
    PROVE  Release(f)
<1>1. NULL \notin FileRecords
  BY ConfigAssumption DEF FileRecords
<1>2. ASSUME NEW g \in Files, NEW m \in Modes[g], Open(g, m) PROVE FALSE
  BY <1>2 DEF Open, AccessInv
<1>3. ASSUME NEW g \in Files, Release(g) PROVE g = f
  BY <1>3 DEF Release, AccessInv
<1>4. ASSUME NEW g \in Files, Moved(g) PROVE FALSE
  <2>1. PICK n \in Nat : file[g] # NULL /\ file' = [file EXCEPT ![g].pos = n]
    BY <1>4 DEF Moved
  <2>2. file[g] \in FileRecords
    BY <2>1 DEF AccessInv
  <2>3. file'[g] \in FileRecords /\ (g # f => file'[f] = file[f])
    BY <2>1, <2>2 DEF AccessInv, FileRecords
  <2>4. QED BY <1>1, <2>3
<1>5. QED BY <1>2, <1>3, <1>4, AccessStep

(* The threads and the mutexes, for every step. *)
LEMMA ThreadInvariant ==
    ASSUME AccessInv, BlockInv, ThreadInv, [Next]_vars
    PROVE  ThreadInv'
<1>1. CASE UNCHANGED vars
  BY <1>1 DEF ThreadInv, MutexInv, CallTypes, vars, configVars, accessVars, threadVars, procVars
<1>2. ASSUME UNCHANGED << pc, envmutex >>, CallTypes',
             \A pr \in Processes : file[pr] # NULL => file'[pr] # NULL
      PROVE  ThreadInv'
  BY <1>2, ProcOfThread DEF ThreadInv, MutexInv
<1>3. ASSUME NEW pr \in Processes, InitEnv(pr) PROVE ThreadInv'
  <2>1. /\ UNCHANGED << pc, todo, call, ep, ok, envmutex, cache, coming, level, failed >>
        /\ dirty' = [dirty EXCEPT ![pr] = TRUE]
    BY <1>3 DEF InitEnv, threadVars
  <2>2. \A p \in Processes : file[p] # NULL => file'[p] # NULL
    <3>1. PICK m \in Modes[pr] : Open(pr, m)
      BY <1>3 DEF InitEnv, libera_cfg_open
    <3>2. file' = [file EXCEPT ![pr] = [modes |-> m, pos |-> 0]] /\ file[pr] = NULL
      BY <3>1 DEF Open
    <3>3. QED BY <3>2, ProcOfThread DEF AccessInv
  <2>3. CallTypes'
    BY <2>1 DEF ThreadInv, CallTypes
  <2>4. QED BY <1>2, <2>1, <2>2, <2>3
<1>4. ASSUME NEW pr \in Processes, signal_handler_hook(pr) PROVE ThreadInv'
  <2>1. /\ UNCHANGED << file, pc, todo, call, ep, ok, envmutex, cache, level, failed >>
        /\ dirty' = [dirty EXCEPT ![pr] = TRUE]
        /\ \E i \in coming[pr] : coming' = [coming EXCEPT ![pr] = @ \ {i}]
    BY <1>4 DEF signal_handler_hook, threadVars
  <2>2. CallTypes'
    BY <2>1 DEF ThreadInv, CallTypes
  <2>3. QED BY <1>2, <2>1, <2>2
<1>5. ASSUME NEW f \in Files \ Processes, OpenOrClose(f) PROVE ThreadInv'
  <2>1. UNCHANGED << pc, todo, call, ep, ok, envmutex, dirty, cache, coming, level, failed >>
    BY <1>5 DEF OpenOrClose, threadVars, procVars
  <2>2. \A p \in Files : p # f => file'[p] = file[p]
    BY <1>5 DEF OpenOrClose, libera_dsc_open, libera_fa_open, libera_dsc_release,
        libera_fa_release, Open, Release, AccessInv
  <2>3. \A p \in Processes : file'[p] = file[p]
    BY <2>2, ProcOfThread
  <2>4. CallTypes'
    BY <2>1 DEF ThreadInv, CallTypes
  <2>5. QED BY <1>2, <2>1, <2>3, <2>4
<1>6. ASSUME NEW f, libera_dsc_ioctl_offsets(f) PROVE ThreadInv'
  BY <1>6 DEF libera_dsc_ioctl_offsets, ThreadInv, MutexInv, CallTypes, threadVars, procVars
<1>7. ASSUME NEW f, libera_dsc_ioctl_event(f) PROVE ThreadInv'
  <2>1. UNCHANGED << file, pc, todo, call, ep, ok, envmutex, dirty, cache, failed >> /\ level' = FALSE
    BY <1>7 DEF libera_dsc_ioctl_event, threadVars
  <2>2. coming' \in [Processes -> SUBSET HookCases]
    BY <1>7 DEF libera_dsc_ioctl_event, SendCfg, ThreadInv, CallTypes
  <2>3. CallTypes'
    BY <2>1, <2>2 DEF ThreadInv, CallTypes
  <2>4. QED BY <1>2, <2>1, <2>3
<1>8. ASSUME NEW f \in Files, Blocks(f), UNCHANGED << threadVars, procVars, level >> PROVE ThreadInv'
  <2>1. CallTypes'
    BY <1>8 DEF ThreadInv, CallTypes, threadVars, procVars
  <2>2. ASSUME NEW g \in Files, Release(g) PROVE acc' # acc
    <3>1. DevOf[g] \in Devices
      BY ConfigAssumption DEF Devices
    <3>2. acc'[DevOf[g]].open_count = acc[DevOf[g]].open_count - 1
      BY <2>2, <3>1 DEF Release, AccessInv, AccRecords
    <3>3. acc[DevOf[g]].open_count \in Nat
      BY <3>1 DEF AccessInv, AccRecords
    <3>4. QED BY <3>2, <3>3
  <2>3. acc' = acc
    BY <1>8 DEF Blocks, accessVars
  <2>4. [Next]_vars
    OBVIOUS
  <2>5. \A p \in Processes : file[p] # NULL => file'[p] # NULL
    BY <2>2, <2>3, <2>4, StillOpen, ProcOfThread
  <2>6. QED BY <1>2, <1>8, <2>1, <2>5 DEF threadVars, procVars
<1>9. BlockFiles \subseteq Files
  BY ParamsAssumption
<1>10. QED
  BY <1>1, <1>3, <1>4, <1>5, <1>6, <1>7, <1>8, <1>9, ThreadStepKeeps, ExitKeeps DEF Next

-----------------------------------------------------------------------------
(* Calls that set parameters *)

(* The master stays one while its file is open (libera_cfg_open, _release). *)
LEMMA MasterStays ==
    ASSUME AccessInv, BlockInv, [Next]_vars, NEW f \in Files, acc["cfg"].master = f,
           file'[f] # NULL
    PROVE  acc'["cfg"].master = f
<1>1. DevOf \in [Files -> Devices] /\ "cfg" \in Devices /\ f # NULL
  BY ConfigAssumption DEF Devices
<1>2. ASSUME NEW g \in Files, NEW m \in Modes[g], Open(g, m) PROVE acc'["cfg"].master = f
  <2>1. /\ "w" \in m => acc[DevOf[g]].master = NULL
        /\ acc' = [acc EXCEPT ![DevOf[g]].master = IF "w" \in m THEN g ELSE @,
                              ![DevOf[g]].writers = @ + IF "w" \in m THEN 1 ELSE 0,
                              ![DevOf[g]].readers = @ + IF "r" \in m THEN 1 ELSE 0,
                              ![DevOf[g]].open_count = @ + 1]
    BY <1>2 DEF Open
  <2>2. acc'["cfg"].master = IF DevOf[g] = "cfg" /\ "w" \in m THEN g ELSE acc["cfg"].master
    BY <1>1, <2>1 DEF AccessInv, AccRecords
  <2>3. QED BY <1>1, <2>1, <2>2
<1>3. ASSUME NEW g \in Files, Release(g) PROVE acc'["cfg"].master = f
  <2>1. /\ file[g] # NULL /\ file' = [file EXCEPT ![g] = NULL]
        /\ \/ "w" \notin file[g].modes /\ acc'[DevOf[g]].master = acc[DevOf[g]].master
           \/ "w" \in file[g].modes
        /\ \A d \in Devices : d # DevOf[g] => acc'[d] = acc[d]
    BY <1>1, <1>3 DEF Release, AccessInv, AccRecords
  <2>2. g # f
    BY <2>1 DEF AccessInv
  <2>3. "w" \in file[g].modes => DevOf[g] # "cfg"
    BY <2>1, <2>2 DEF AccessInv, Writes
  <2>4. QED BY <1>1, <2>1, <2>3
<1>4. QED BY <1>2, <1>3, AccessStep

(* A call that this step does not go on with keeps what it has set. *)
LEMMA OthersKeep ==
    ASSUME SettingInv, NEW s \in Threads, pc[s] = "setting", call'[s] = call[s], todo'[s] = todo[s],
           todo[s] # {} /\ HasSet(s) # {} =>
               /\ acc'["cfg"].master = Proc(s)
               /\ \A i \in Members : dev'.param[i] = dev.param[i]
    PROVE  SettingOf(s)'
<1>1. SettingOf(s)
  BY DEF SettingInv
<1>2. HasSet(s)' = HasSet(s)
  BY DEF HasSet, handle_params
<1>3. ASSUME todo[s] # {}, NEW k \in HasSet(s) PROVE Settled(s, k)'
  <2>1. Settled(s, k)
    BY <1>1, <1>3 DEF SettingOf
  <2>2. /\ acc'["cfg"].master = Proc(s)
        /\ \A i \in Members : dev'.param[i] = dev.param[i]
    BY <1>3
  <2>3. QED BY <2>1, <2>2 DEF Settled, Asked
<1>4. QED BY <1>1, <1>2, <1>3 DEF SettingOf, handle_params

(* A call that goes on has set one parameter more (set_param). *)
LEMMA SetterKeeps ==
    ASSUME DevInv, ThreadInv, SettingInv, NEW t \in Threads, SetsOne(t)
    PROVE  SettingOf(t)'
<1> DEFINE c == FirstOf(todo[t])
<1>1. /\ pc[t] = "setting" /\ todo[t] # {} /\ acc["cfg"].master = Proc(t)
      /\ todo' = [todo EXCEPT ![t] = @ \ {c}] /\ call' = call /\ acc' = acc
  BY DEF SetsOne
<1>2. /\ c \in todo[t] /\ (\A k \in todo[t] : c <= k) /\ todo[t] \subseteq 1 .. 26
      /\ Index(t) \in Params \cup DOMAIN Unmirrored
      /\ DOMAIN call[t].p = Params \cup DOMAIN Unmirrored
  BY <1>1, NextToSet
<1>3. SetFrom(dev, dev', Index(t), Value(t))
  BY SetsOneSets
<1>4. SettingOf(t)
  BY <1>1 DEF SettingInv
<1>5. todo'[t] = todo[t] \ {c} /\ Index(t) = ParamMap[c].idx
  BY <1>1 DEF ThreadInv, CallTypes, Index
<1> HIDE DEF c
<1>6. HasSet(t)' = HasSet(t) \cup {c} /\ handle_params(call[t].flags) \subseteq 1 .. 26
  BY <1>1, <1>2, <1>4, <1>5, MapOrder DEF HasSet, SettingOf, handle_params
<1>7. ASSUME NEW i \in Members, i # Index(t) PROVE dev'.param[i] = dev.param[i]
  BY <1>3, <1>7, ParamNames DEF SetFrom
<1>8. Index(t) \in Members => dev'.param[Index(t)] = Asked(call[t])[Index(t)]
  <2>1. ASSUME Index(t) \in Members
        PROVE  Asked(call[t])[Index(t)] = IF Index(t) \in Limits THEN Limit(Value(t)) ELSE Value(t)
    BY <1>2, <2>1, ParamNames DEF Asked, Value
  <2>2. QED BY <1>3, <2>1 DEF SetFrom
<1>9. ASSUME NEW k \in HasSet(t) \cup {c} PROVE Settled(t, k)'
  <2>1. CASE k = c
    <3>1. \A j \in todo'[t] : c < j
      BY <1>2, <1>5
    <3>2. ParamMap[k].idx \in Members => dev'.param[ParamMap[k].idx] = Asked(call[t])[ParamMap[k].idx]
      BY <1>5, <1>8, <2>1
    <3>3. QED BY <1>1, <2>1, <3>1, <3>2 DEF Settled, Asked
  <2>2. CASE k \in HasSet(t)
    <3>1. Settled(t, k)
      BY <1>1, <1>4, <2>2 DEF SettingOf
    <3>2. \A j \in todo'[t] : k < j
      BY <1>5, <3>1 DEF Settled
    <3>3. ParamMap[k].idx \in Members => dev'.param[ParamMap[k].idx] = Asked(call[t])[ParamMap[k].idx]
      BY <1>7, <1>8, <3>1 DEF Settled
    <3>4. QED BY <1>1, <3>2, <3>3 DEF Settled, Asked
  <2>3. QED BY <2>1, <2>2
<1>10. \E r \in Requests[t] : call'[t].flags = r.flags /\ call'[t].p = r.p
  BY <1>1, <1>4 DEF SettingOf
<1>11. todo'[t] \subseteq handle_params(call'[t].flags)
  BY <1>1, <1>4, <1>5 DEF SettingOf
<1>12. (todo[t] # {} => \A k \in HasSet(t) : Settled(t, k))'
  BY <1>6, <1>9 DEF Settled, Asked, HasSet, handle_params
<1>13. QED BY <1>10, <1>11, <1>12 DEF SettingOf, handle_params

(* The steps that a call in "setting" sees. *)
LEMMA SettingStep ==
    ASSUME ThreadInv, [Next]_vars, NEW s \in Threads, pc'[s] = "setting"
    PROVE  \/ pc[s] = "setting" /\ call'[s] = call[s] /\ todo'[s] = todo[s]
           \/ cspi_setenvparam(s)
           \/ pc[s] = "setting" /\ call'[s] = call[s] /\ todo'[s] = {}
           \/ SetsOne(s)
<1> DEFINE Same == pc[s] = "setting" /\ call'[s] = call[s] /\ todo'[s] = todo[s]
           Ended == pc[s] = "setting" /\ call'[s] = call[s] /\ todo'[s] = {}
           Result == Same \/ cspi_setenvparam(s) \/ Ended \/ SetsOne(s)
<1> SUFFICES Result
  OBVIOUS
<1>1. CASE UNCHANGED threadVars
  <2>1. Same
    BY <1>1 DEF threadVars
  <2>2. QED BY <2>1
<1>2. ASSUME NEW t \in Threads, set_param(t) PROVE Result
  <2>1. CASE t = s
    <3>1. SetsOne(s) \/ Ended
      BY <1>2, <2>1 DEF set_param, SetsOne, Index, Value, ThreadInv, CallTypes
    <3>2. QED BY <3>1
  <2>2. CASE t # s
    <3>1. Same
      BY <1>2, <2>2 DEF set_param, ThreadInv, CallTypes
    <3>2. QED BY <3>1
  <2>3. QED BY <2>1, <2>2
<1>3. ASSUME NEW t \in Threads, cspi_setenvparam(t) PROVE Result
  <2>1. CASE t # s
    <3>1. Same
      BY <1>3, <2>1 DEF cspi_setenvparam, Goto, ThreadInv, CallTypes, MutexInv
    <3>2. QED BY <3>1
  <2>2. QED BY <1>3, <2>1
<1>4. ASSUME NEW t \in Threads, custom_setenvparam(t) PROVE Result
  <2>1. Same
    BY <1>4 DEF custom_setenvparam, Goto, ThreadInv, CallTypes, MutexInv
  <2>2. QED BY <2>1
<1>5. ASSUME NEW t \in Threads,
             \/ cspi_read(t) \/ custom_initop(t) \/ StartUpdate(t) \/ get_param(t)
             \/ UpdateFails(t) \/ StoreOffsets(t) \/ ebpp_update_cache(t)
             \/ read_dd(t) \/ ApplyOp(t)
      PROVE  Result
  <2>1. UNCHANGED << call, todo >>
    BY <1>5 DEF cspi_read, custom_initop, StartUpdate, get_param, UpdateFails, StoreOffsets,
        ebpp_update_cache, StoreCache, read_dd, ApplyOp
  <2>2. \E place \in Places \ {"setting"} : pc' = [pc EXCEPT ![t] = place]
    BY <1>5, PlaceNames DEF cspi_read, custom_initop, StartUpdate, get_param, UpdateFails,
        StoreOffsets, ebpp_update_cache, StoreCache, read_dd, ApplyOp, Goto
  <2>3. Same
    BY <2>1, <2>2 DEF ThreadInv, MutexInv
  <2>4. QED BY <2>3
<1>6. ASSUME NEW pr, Exit(pr) PROVE Result
  <2>1. Same
    BY <1>6 DEF Exit
  <2>2. QED BY <2>1
<1>7. ASSUME NEW pr, InitEnv(pr) \/ signal_handler_hook(pr) PROVE Result
  <2>1. UNCHANGED threadVars
    BY <1>7 DEF InitEnv, signal_handler_hook
  <2>2. QED BY <1>1, <2>1
<1>8. ASSUME NEW f, OpenOrClose(f) \/ libera_dsc_ioctl_offsets(f) \/ libera_dsc_ioctl_event(f)
      PROVE  Result
  <2>1. UNCHANGED threadVars
    BY <1>8 DEF OpenOrClose, libera_dsc_ioctl_offsets, libera_dsc_ioctl_event
  <2>2. QED BY <1>1, <2>1
<1> HIDE DEF Result
<1>9. ASSUME NEW t \in Threads, ThreadStep(t) PROVE Result
  <2>1. CASE set_param(t) \/ cspi_setenvparam(t) \/ custom_setenvparam(t)
    BY <1>2, <1>3, <1>4, <2>1
  <2>2. CASE \/ cspi_read(t) \/ custom_initop(t) \/ StartUpdate(t) \/ get_param(t)
             \/ UpdateFails(t) \/ StoreOffsets(t) \/ ebpp_update_cache(t)
             \/ read_dd(t) \/ ApplyOp(t)
    BY <1>5, <2>2
  <2>3. QED BY <1>9, <2>1, <2>2 DEF ThreadStep
<1>10. CASE UNCHANGED vars
  <2>1. UNCHANGED threadVars
    BY <1>10 DEF vars
  <2>2. QED BY <1>1, <2>1
<1>11. CASE UNCHANGED << threadVars, procVars, level >>
  <2>1. UNCHANGED threadVars
    BY <1>11
  <2>2. QED BY <1>1, <2>1
<1>12. CASE Next
  <2>1. CASE \E t \in Threads \cap running : ThreadStep(t)
    BY <1>9, <2>1
  <2>2. CASE \E pr \in Processes \cap running :
               InitEnv(pr) \/ Exit(pr) \/ signal_handler_hook(pr)
    BY <1>6, <1>7, <2>2
  <2>3. CASE \E f \in (Files \ Processes) \cap running :
               OpenOrClose(f) \/ libera_dsc_ioctl_offsets(f) \/ libera_dsc_ioctl_event(f)
    BY <1>8, <2>3
  <2>4. CASE UNCHANGED << threadVars, procVars, level >>
    BY <1>11, <2>4
  <2>5. QED BY <1>12, <2>1, <2>2, <2>3, <2>4 DEF Next
<1>13. QED BY <1>10, <1>12

(* The calls that set parameters, for every step. *)
LEMMA SettingInvariant ==
    ASSUME DevInv, AccessInv, BlockInv, ThreadInv, SettingInv, ThreadInv', [Next]_vars
    PROVE  SettingInv'
<1> SUFFICES ASSUME NEW s \in Threads, pc'[s] = "setting" PROVE SettingOf(s)'
  BY DEF SettingInv
<1>1. CASE cspi_setenvparam(s)
  <2>1. PICK r \in Requests[s], used \in BOOLEAN :
          /\ call' = [call EXCEPT ![s] = [flags |-> r.flags, p |-> r.p, used |-> used]]
          /\ todo' = [todo EXCEPT ![s] = handle_params(r.flags)]
    BY <1>1 DEF cspi_setenvparam
  <2>2. call'[s].flags = r.flags /\ call'[s].p = r.p /\ todo'[s] = handle_params(r.flags)
    BY <2>1 DEF ThreadInv, CallTypes
  <2>3. HasSet(s)' = {}
    BY <2>2 DEF HasSet, handle_params
  <2>4. QED BY <2>2, <2>3 DEF SettingOf, handle_params
<1>2. CASE pc[s] = "setting" /\ call'[s] = call[s] /\ todo'[s] = {}
  BY <1>2 DEF SettingInv, SettingOf
<1>3. CASE SetsOne(s)
  BY <1>3, SetterKeeps
<1>4. CASE pc[s] = "setting" /\ call'[s] = call[s] /\ todo'[s] = todo[s]
  <2>1. ASSUME todo[s] # {}, HasSet(s) # {}
        PROVE  /\ acc'["cfg"].master = Proc(s)
               /\ \A i \in Members : dev'.param[i] = dev.param[i]
    <3>1. acc["cfg"].master = Proc(s)
      BY <1>4, <2>1 DEF SettingInv, SettingOf, Settled
    <3>2. file'[Proc(s)] # NULL
      BY DEF ThreadInv, MutexInv
    <3>3. acc'["cfg"].master = Proc(s)
      BY <3>1, <3>2, MasterStays, ProcOfThread
    <3>4. ASSUME NEW t \in Threads, SetsOne(t) PROVE FALSE
      <4>1. Proc(t) = Proc(s) /\ pc[t] = "setting"
        BY <3>1, <3>4 DEF SetsOne
      <4>2. t = s
        BY <1>4, <4>1, PlaceNames DEF ThreadInv, MutexInv
      <4>3. FirstOf(todo[s]) \in todo[s] /\ todo'[s] = todo[s] \ {FirstOf(todo[s])}
        BY <1>4, <2>1, <3>4, <4>2, NextToSet DEF SetsOne, ThreadInv, CallTypes
      <4>4. QED BY <1>4, <4>3
    <3>5. ASSUME NEW v \in Offsets, dev' = check_and_update(dev, v)
          PROVE  \A i \in Members : dev'.param[i] = dev.param[i]
      BY <3>5, UpdateSets, ParamNames
    <3>6. ASSUME NEW f \in Files, FinishWrite(f)
          PROVE  \A i \in Members : dev'.param[i] = dev.param[i]
      BY <3>6, FinishWriteSets
    <3>7. QED BY <3>3, <3>4, <3>5, <3>6, DevStep
  <2>2. QED BY <1>4, <2>1, OthersKeep
<1>5. QED BY <1>1, <1>2, <1>3, <1>4, SettingStep

(* The thresholds in the FPGA are one request's (ebpp_set_ilk, ebpp_set_pm).  *)
LEMMA RequestedAsked ==
    ASSUME ThreadInv, SettingInv, NEW t \in Threads, pc[t] = "setting"
    PROVE  /\ "ILK" \in call[t].flags => IlkAtom(Asked(call[t])) \in Requested("ILK", IlkAtom)
           /\ "PM" \in call[t].flags => PmAtom(Asked(call[t])) \in Requested("PM", PmAtom)
<1>1. PICK r \in Requests[t] : call[t].flags = r.flags /\ call[t].p = r.p
  BY DEF SettingInv, SettingOf
<1>2. r \in UNION Range(Requests)
  BY ParamsAssumption DEF Range
<1>3. Asked(call[t]) = Asked(r)
  BY <1>1 DEF Asked
<1>4. "ILK" \in call[t].flags => IlkAtom(Asked(call[t])) \in Requested("ILK", IlkAtom)
  BY <1>1, <1>2, <1>3 DEF Requested
<1>5. "PM" \in call[t].flags => PmAtom(Asked(call[t])) \in Requested("PM", PmAtom)
  BY <1>1, <1>2, <1>3 DEF Requested
<1>6. QED BY <1>4, <1>5

(* An atom is the function of its registers. *)
LEMMA AtomsAreFunctions ==
    ASSUME NEW p
    PROVE  /\ IlkAtom(p) = [ r \in IlkRegs |-> IlkAtom(p)[r] ]
           /\ PmAtom(p) = [ r \in PmRegs |-> PmAtom(p)[r] ]
<1>1. IlkAtom(p) = [ r \in IlkRegs |-> IlkAtom(p)[r] ]
  <2> DEFINE V == { p["ILK_XLOW"], p["ILK_MODE"], p["ILK_GAIN_LIMIT"] % 2^16,
                    scale_kadc(p["ILK_OVERFLOW_LIMIT"]), p["ILK_OVERFLOW_DUR"] }
  <2>1. IlkAtom(p) \in [IlkRegs -> V]
    BY DEF IlkAtom, IlkRegs
  <2> HIDE DEF V
  <2>2. QED BY <2>1
<1>2. PmAtom(p) = [ r \in PmRegs |-> PmAtom(p)[r] ]
  <2> DEFINE V == { p["PM_XLOW"], p["PM_MODE"] % 4, scale_kadc(p["PM_OVERFLOW_LIMIT"]),
                    p["PM_OVERFLOW_DUR"] }
  <2>1. PmAtom(p) \in [PmRegs -> V]
    BY DEF PmAtom, PmRegs
  <2> HIDE DEF V
  <2>2. QED BY <2>1
<1>3. QED BY <1>1, <1>2

(* When the last member of an atom is set, the others are mirrored. *)
LEMMA CommitWritesAsked ==
    ASSUME DevInv, SettingInv, NEW t \in Threads, SetsOne(t)
    PROVE  /\ Index(t) = "ILK_GAIN_LIMIT" =>
                /\ "ILK" \in call[t].flags
                /\ [ r \in IlkRegs |-> dev'.reg[r] ] = IlkAtom(Asked(call[t]))
           /\ Index(t) = "PM_OVERFLOW_DUR" =>
                /\ "PM" \in call[t].flags
                /\ [ r \in PmRegs |-> dev'.reg[r] ] = PmAtom(Asked(call[t]))
<1> DEFINE c == FirstOf(todo[t])
           a == Asked(call[t])
<1>1. /\ c \in todo[t] /\ (\A k \in todo[t] : c <= k) /\ todo[t] \subseteq 1 .. 26
      /\ Index(t) = ParamMap[c].idx /\ DOMAIN call[t].p = Params \cup DOMAIN Unmirrored
      /\ todo[t] # {} /\ pc[t] = "setting"
  BY NextToSet DEF SetsOne, Index
<1>2. SettingOf(t) /\ SetFrom(dev, dev', Index(t), Value(t))
  BY <1>1, SetsOneSets DEF SettingInv
<1>3. c \in handle_params(call[t].flags) /\ ParamMap[c].mask \in call[t].flags
  BY <1>1, <1>2 DEF SettingOf, handle_params
<1> HIDE DEF c, a
<1>4. ASSUME NEW k \in 1 .. 26, k < c, ParamMap[k].mask = ParamMap[c].mask,
             ParamMap[k].idx \in Members
      PROVE  dev.param[ParamMap[k].idx] = a[ParamMap[k].idx]
  <2>1. k \in HasSet(t)
    BY <1>1, <1>3, <1>4, MapOrder DEF HasSet, handle_params
  <2>2. QED BY <1>1, <1>2, <1>4, <2>1 DEF SettingOf, Settled, a
<1>5. ASSUME Index(t) = "ILK_GAIN_LIMIT"
      PROVE  /\ "ILK" \in call[t].flags
             /\ [ r \in IlkRegs |-> dev'.reg[r] ] = IlkAtom(a)
  <2>1. c = 8 /\ ParamMap[c].mask = "ILK"
    BY <1>1, <1>5, MapOrder
  <2>2. {"ILK_MODE", "ILK_XLOW", "ILK_OVERFLOW_DUR", "ILK_OVERFLOW_LIMIT"} \subseteq Members
    BY DEF Members, Staged, Ilk, Limits
  <2>3. /\ dev.param["ILK_MODE"] = a["ILK_MODE"] /\ dev.param["ILK_XLOW"] = a["ILK_XLOW"]
        /\ dev.param["ILK_OVERFLOW_DUR"] = a["ILK_OVERFLOW_DUR"]
        /\ dev.param["ILK_OVERFLOW_LIMIT"] = a["ILK_OVERFLOW_LIMIT"]
    BY <1>4, <2>1, <2>2, MapOrder
  <2>4. \A i \in Members : dev'.param[i] = dev.param[i]
    BY <1>2, <1>5, ParamNames DEF SetFrom
  <2>5. dev'.param["ILK_GAIN_LIMIT"] = a["ILK_GAIN_LIMIT"]
    <3>1. dev'.param["ILK_GAIN_LIMIT"] = call[t].p["ILK_GAIN_LIMIT"]
      BY <1>2, <1>5 DEF SetFrom, Value
    <3>2. a["ILK_GAIN_LIMIT"] = call[t].p["ILK_GAIN_LIMIT"]
      BY <1>1, ParamNames DEF a, Asked, Limits
    <3>3. QED BY <3>1, <3>2
  <2>6. \A r \in IlkRegs : dev'.reg[r] = IlkAtom(dev'.param)[r]
    BY <1>2, <1>5 DEF SetFrom
  <2>7. IlkAtom(dev'.param) = IlkAtom(a)
    <3>1. /\ dev'.param["ILK_MODE"] = a["ILK_MODE"] /\ dev'.param["ILK_XLOW"] = a["ILK_XLOW"]
          /\ dev'.param["ILK_OVERFLOW_DUR"] = a["ILK_OVERFLOW_DUR"]
          /\ dev'.param["ILK_OVERFLOW_LIMIT"] = a["ILK_OVERFLOW_LIMIT"]
      BY <2>2, <2>3, <2>4
    <3>2. QED BY <2>5, <3>1 DEF IlkAtom
  <2>8. IlkAtom(a) = [ r \in IlkRegs |-> IlkAtom(a)[r] ]
    BY AtomsAreFunctions
  <2>9. [ r \in IlkRegs |-> dev'.reg[r] ] = IlkAtom(a)
    BY <2>6, <2>7, <2>8
  <2>10. QED BY <1>3, <2>1, <2>9
<1>6. ASSUME Index(t) = "PM_OVERFLOW_DUR"
      PROVE  /\ "PM" \in call[t].flags
             /\ [ r \in PmRegs |-> dev'.reg[r] ] = PmAtom(a)
  <2>1. c = 20 /\ ParamMap[c].mask = "PM"
    BY <1>1, <1>6, MapOrder
  <2>2. {"PM_MODE", "PM_XLOW", "PM_OVERFLOW_LIMIT"} \subseteq Members
    BY DEF Members, Staged, Pm, Limits
  <2>3. /\ dev.param["PM_MODE"] = a["PM_MODE"] /\ dev.param["PM_XLOW"] = a["PM_XLOW"]
        /\ dev.param["PM_OVERFLOW_LIMIT"] = a["PM_OVERFLOW_LIMIT"]
    BY <1>4, <2>1, <2>2, MapOrder
  <2>4. \A i \in Members : dev'.param[i] = dev.param[i]
    BY <1>2, <1>6, ParamNames DEF SetFrom
  <2>5. dev'.param["PM_OVERFLOW_DUR"] = a["PM_OVERFLOW_DUR"]
    <3>1. dev'.param["PM_OVERFLOW_DUR"] = call[t].p["PM_OVERFLOW_DUR"]
      BY <1>2, <1>6 DEF SetFrom, Value
    <3>2. a["PM_OVERFLOW_DUR"] = call[t].p["PM_OVERFLOW_DUR"]
      BY <1>1, ParamNames DEF a, Asked, Limits
    <3>3. QED BY <3>1, <3>2
  <2>6. \A r \in PmRegs : dev'.reg[r] = PmAtom(dev'.param)[r]
    BY <1>2, <1>6 DEF SetFrom
  <2>7. PmAtom(dev'.param) = PmAtom(a)
    <3>1. /\ dev'.param["PM_MODE"] = a["PM_MODE"] /\ dev'.param["PM_XLOW"] = a["PM_XLOW"]
          /\ dev'.param["PM_OVERFLOW_LIMIT"] = a["PM_OVERFLOW_LIMIT"]
      BY <2>2, <2>3, <2>4
    <3>2. QED BY <2>5, <3>1 DEF PmAtom
  <2>8. PmAtom(a) = [ r \in PmRegs |-> PmAtom(a)[r] ]
    BY AtomsAreFunctions
  <2>9. [ r \in PmRegs |-> dev'.reg[r] ] = PmAtom(a)
    BY <2>6, <2>7, <2>8
  <2>10. QED BY <1>3, <2>1, <2>9
<1>7. QED BY <1>5, <1>6 DEF a

(* The thresholds, for every step. *)
LEMMA AtomsInvariant ==
    ASSUME DevInv, BlockInv, ThreadInv, SettingInv, AtomsOfOneRequest, [Next]_vars
    PROVE  AtomsOfOneRequest'
<1>1. ASSUME \A r \in IlkRegs \cup PmRegs : dev'.reg[r] = dev.reg[r] PROVE AtomsOfOneRequest'
  <2>1. /\ [ r \in IlkRegs |-> dev'.reg[r] ] = [ r \in IlkRegs |-> dev.reg[r] ]
        /\ [ r \in PmRegs |-> dev'.reg[r] ] = [ r \in PmRegs |-> dev.reg[r] ]
    BY <1>1
  <2>2. QED BY <2>1 DEF AtomsOfOneRequest
<1>2. ASSUME NEW t \in Threads, SetsOne(t) PROVE AtomsOfOneRequest'
  <2>1. SetFrom(dev, dev', Index(t), Value(t)) /\ pc[t] = "setting"
    BY <1>2, SetsOneSets DEF SetsOne
  <2>2. [ r \in IlkRegs |-> dev'.reg[r] ] \in Requested("ILK", IlkAtom)
    <3>1. CASE Index(t) = "ILK_GAIN_LIMIT"
      BY <1>2, <2>1, <3>1, CommitWritesAsked, RequestedAsked
    <3>2. CASE Index(t) # "ILK_GAIN_LIMIT"
      <4>1. \A r \in IlkRegs : dev'.reg[r] = dev.reg[r]
        BY <2>1, <3>2 DEF SetFrom
      <4>2. [ r \in IlkRegs |-> dev'.reg[r] ] = [ r \in IlkRegs |-> dev.reg[r] ]
        BY <4>1
      <4>3. QED BY <4>2 DEF AtomsOfOneRequest
    <3>3. QED BY <3>1, <3>2
  <2>3. [ r \in PmRegs |-> dev'.reg[r] ] \in Requested("PM", PmAtom)
    <3>1. CASE Index(t) = "PM_OVERFLOW_DUR"
      BY <1>2, <2>1, <3>1, CommitWritesAsked, RequestedAsked
    <3>2. CASE Index(t) # "PM_OVERFLOW_DUR"
      <4>1. \A r \in PmRegs : dev'.reg[r] = dev.reg[r]
        BY <2>1, <3>2 DEF SetFrom
      <4>2. [ r \in PmRegs |-> dev'.reg[r] ] = [ r \in PmRegs |-> dev.reg[r] ]
        BY <4>1
      <4>3. QED BY <4>2 DEF AtomsOfOneRequest
    <3>3. QED BY <3>1, <3>2
  <2>4. QED BY <2>2, <2>3 DEF AtomsOfOneRequest
<1>3. ASSUME NEW v \in Offsets, dev' = check_and_update(dev, v) PROVE AtomsOfOneRequest'
  BY <1>1, <1>3, UpdateSets
<1>4. ASSUME NEW f \in Files, FinishWrite(f) PROVE AtomsOfOneRequest'
  BY <1>1, <1>4, FinishWriteSets DEF Own
<1>5. CASE dev' = dev
  BY <1>1, <1>5
<1>6. QED BY <1>2, <1>3, <1>4, <1>5, DevStep

-----------------------------------------------------------------------------
(* The cache *)

Idle == {"user", "setting", "first", "second", "read", "op"}

(* A step that is not about the cache of pr. *)
Elsewhere(pr) ==
    /\ Quiet(pr)' => Quiet(pr)
    /\ \A t \in Threads : Proc(t) = pr =>
         \/ pc'[t] = pc[t] /\ ep'[t] = ep[t]
         \/ pc[t] \in Idle /\ pc'[t] \in Idle
    /\ cache'[pr] = cache[pr] /\ failed'[pr] = failed[pr]
    /\ dev'.param["XOFFSET"] = dev.param["XOFFSET"] /\ dev'.reg["FA_X"] = dev.reg["FA_X"]
    /\ Sr' = Sr

(* Such a step leaves it as it is. *)
LEMMA ElsewhereKeeps ==
    ASSUME CacheInv, NEW pr \in Listening, Elsewhere(pr), Quiet(pr)'
    PROVE  CacheOf(pr)'
<1>1. CacheOf(pr)
  BY DEF CacheInv, Elsewhere
<1>2. Idle \cap (Waiting \cup Getting \cup Asking \cup Storing) = {}
  BY DEF Idle, Waiting, Getting, Asking, Storing
<1>3. CASE Awaits(pr)
  <2>1. Awaits(pr)'
    BY <1>2, <1>3 DEF Awaits, Elsewhere
  <2>2. QED BY <2>1 DEF CacheOf
<1>4. ASSUME NEW t \in Threads, Proc(t) = pr, Got(t) PROVE CacheOf(pr)'
  <2>1. pc'[t] = pc[t] /\ ep'[t] = ep[t]
    BY <1>2, <1>4 DEF Got, Elsewhere
  <2>2. Got(t)'
    BY <1>4, <2>1 DEF Got, Elsewhere
  <2>3. QED BY <1>4, <2>2 DEF CacheOf
<1>5. CASE Refilled(pr)
  <2>1. ~Updating(pr)'
    BY <1>5 DEF Refilled, Updating, Elsewhere, Idle
  <2>2. Refilled(pr)'
    BY <1>5, <2>1 DEF Refilled, Elsewhere
  <2>3. QED BY <2>2 DEF CacheOf
<1>6. QED BY <1>1, <1>3, <1>4, <1>5 DEF CacheOf

(* Only one thread of a process updates its cache at a time (the mutex of the *)
(* Environment); while it does, it has what is in the FPGA, or another waits. *)
LEMMA Updater ==
    ASSUME ThreadInv, CacheInv, NEW t \in Threads, Proc(t) \in Listening, Quiet(Proc(t)),
           pc[t] \in Getting \cup Asking \cup Storing,
           NEW place, pc' = [pc EXCEPT ![t] = place]
    PROVE  \/ Awaits(Proc(t))'
           \/ Got(t) /\ (place \in Idle => ~Updating(Proc(t))')
<1>1. CASE Awaits(Proc(t))
  <2>1. PICK s \in Threads : Proc(s) = Proc(t) /\ pc[s] \in Waiting
    BY <1>1 DEF Awaits
  <2>2. s # t
    BY <2>1 DEF Waiting, Getting, Asking, Storing
  <2>3. pc'[s] = pc[s]
    BY <2>2 DEF ThreadInv, MutexInv
  <2>4. QED BY <2>1, <2>3 DEF Awaits
<1>2. CASE ~Awaits(Proc(t))
  <2>1. ASSUME NEW s \in Threads, Proc(s) = Proc(t), pc[s] \in Getting \cup Asking \cup Storing
        PROVE  s = t
    BY <2>1 DEF ThreadInv, MutexInv, Holding
  <2>2. ~Refilled(Proc(t))
    BY DEF Refilled, Updating, Getting, Asking, Storing
  <2>3. CacheOf(Proc(t))
    BY DEF CacheInv
  <2>4. Got(t)
    BY <1>2, <2>1, <2>2, <2>3 DEF CacheOf, Got
  <2>5. ASSUME place \in Idle PROVE ~Updating(Proc(t))'
    <3>1. ASSUME NEW s \in Threads, Proc(s) = Proc(t)
          PROVE  pc'[s] \notin Waiting \cup Getting \cup Asking \cup Storing
      <4>1. CASE s = t
        BY <2>5, <4>1 DEF ThreadInv, MutexInv, Idle, Waiting, Getting, Asking, Storing
      <4>2. CASE s # t
        <5>1. pc'[s] = pc[s]
          BY <4>2 DEF ThreadInv, MutexInv
        <5>2. QED BY <1>2, <2>1, <3>1, <4>2, <5>1 DEF Awaits
      <4>3. QED BY <4>1, <4>2
    <3>2. QED BY <3>1 DEF Updating, Waiting, Getting, Asking, Storing
  <2>6. QED BY <2>4, <2>5
<1>3. QED BY <1>1, <1>2

(* The steps of a thread of pr that are about the cache. *)
LEMMA UpdateKeeps ==
    ASSUME DevInv, ThreadInv, ThreadInv', CacheInv, NEW t \in Threads, Proc(t) \in Listening,
           StartUpdate(t) \/ get_param(t) \/ UpdateFails(t) \/ StoreOffsets(t) \/ ebpp_update_cache(t),
           Quiet(Proc(t))'
    PROVE  CacheOf(Proc(t))'
<1> DEFINE pr == Proc(t)
<1>1. Quiet(pr) /\ dev' = dev
  BY DEF StartUpdate, get_param, UpdateFails, StoreOffsets, ebpp_update_cache, StoreCache, Quiet,
      procVars
<1>2. DOMAIN pc = Threads /\ DOMAIN ep = Threads /\ DOMAIN cache = Processes
      /\ DOMAIN failed = Processes /\ pr \in Processes
  BY ProcOfThread DEF ThreadInv, MutexInv, CallTypes
<1>3. CASE StartUpdate(t)
  <2>1. pc'[t] \in Getting /\ ep'[t] = [x |-> dev.param["XOFFSET"], sr |-> 0]
    BY <1>2, <1>3 DEF StartUpdate, Goto, Getting
  <2>2. Got(t)'
    BY <1>1, <2>1 DEF Got
  <2>3. QED BY <2>2 DEF CacheOf
<1>4. CASE get_param(t)
  <2>1. PICK place \in Asking : pc' = [pc EXCEPT ![t] = place]
    BY <1>4 DEF get_param, Goto, Asking
  <2>2. pc[t] \in Getting /\ ep' = [ep EXCEPT ![t].sr = Sr]
    BY <1>4 DEF get_param, Getting, Sr
  <2>3. CASE Got(t)
    <3>1. ep[t] = [x |-> dev.param["XOFFSET"], sr |-> 0]
      BY <2>2, <2>3 DEF Got, Getting, Asking, Storing
    <3>2. pc'[t] \in Asking /\ ep'[t] = [x |-> dev.param["XOFFSET"], sr |-> Sr]
      BY <1>2, <2>1, <2>2, <3>1
    <3>3. Got(t)'
      BY <1>1, <3>2 DEF Got, Sr
    <3>4. QED BY <3>3 DEF CacheOf
  <2>4. QED BY <1>1, <2>1, <2>2, <2>3, Updater DEF CacheOf
<1>5. CASE UpdateFails(t)
  <2>1. PICK place \in Idle : pc' = [pc EXCEPT ![t] = place]
    BY <1>5 DEF UpdateFails, Goto, Idle
  <2>2. pc[t] \in Asking /\ failed'[pr] = TRUE
    BY <1>2, <1>5 DEF UpdateFails, Asking
  <2>3. CASE ~Updating(pr)'
    BY <2>2, <2>3 DEF CacheOf, Refilled
  <2>4. QED BY <1>1, <2>1, <2>2, <2>3, Updater DEF CacheOf
<1>6. CASE StoreOffsets(t)
  <2>1. PICK place \in Storing : pc' = [pc EXCEPT ![t] = place]
    BY <1>6 DEF StoreOffsets, Goto, Storing
  <2>2. pc[t] \in Asking /\ ep' = ep /\ cache' = [cache EXCEPT ![pr].x = ep[t].x]
    BY <1>6 DEF StoreOffsets, Asking
  <2>3. CASE Got(t)
    <3>1. ep[t].x = dev.param["XOFFSET"] /\ ep[t].sr = Sr
      BY <2>2, <2>3 DEF Got, Getting, Asking, Storing
    <3>2. DOMAIN cache[pr] = {"x", "sr"}
      BY <1>2 DEF ThreadInv, CallTypes
    <3>3. pc'[t] \in Storing /\ cache'[pr].x = dev.param["XOFFSET"] /\ ep'[t].sr = Sr
      BY <1>2, <2>1, <2>2, <3>1, <3>2
    <3>4. Got(t)'
      BY <1>1, <3>3 DEF Got, Sr
    <3>5. QED BY <3>4 DEF CacheOf
  <2>4. QED BY <1>1, <2>1, <2>2, <2>3, Updater DEF CacheOf
<1>7. CASE ebpp_update_cache(t)
  <2>1. PICK place \in Idle : pc' = [pc EXCEPT ![t] = place]
    BY <1>7 DEF ebpp_update_cache, StoreCache, Goto, Idle
  <2>2. /\ pc[t] \in Storing
        /\ cache'[pr] = [x |-> cache[pr].x + dev.param["BCD_XOFFSET"], sr |-> ep[t].sr]
    BY <1>2, <1>7 DEF ebpp_update_cache, StoreCache, Storing
  <2>3. CASE Got(t) /\ ~Updating(pr)'
    <3>1. cache[pr].x = dev.param["XOFFSET"] /\ ep[t].sr = Sr
      BY <2>2, <2>3 DEF Got, Getting, Asking, Storing
    <3>2. cache'[pr].x = dev.reg["FA_X"] /\ cache'[pr].sr = Sr
      BY <2>2, <3>1 DEF DevInv, Added
    <3>3. Refilled(pr)'
      BY <1>1, <2>3, <3>2 DEF Refilled, Sr
    <3>4. QED BY <3>3 DEF CacheOf
  <2>4. QED BY <1>1, <2>1, <2>2, <2>3, Updater DEF CacheOf
<1>8. QED BY <1>3, <1>4, <1>5, <1>6, <1>7

(* The other steps of threads: they are not about the cache, or they leave a  *)
(* cause to refill it (set_param sends CFG, custom_initop goes to refill it). *)
LEMMA ThreadCacheKeeps ==
    ASSUME DevInv, ThreadInv, SettingInv, ThreadInv', CacheInv, NEW t \in Threads, ThreadStep(t),
           NEW pr \in Listening, Quiet(pr)'
    PROVE  CacheOf(pr)'
<1> USE DEF Sr
<1>1. /\ DOMAIN pc = Threads /\ DOMAIN ep = Threads /\ DOMAIN cache = Processes
      /\ DOMAIN failed = Processes /\ DOMAIN dirty = Processes /\ DOMAIN coming = Processes
      /\ pr \in Processes /\ Proc(t) \in Processes
  BY ProcOfThread DEF ThreadInv, MutexInv, CallTypes
<1>2. CASE \/ cspi_setenvparam(t) \/ cspi_read(t) \/ read_dd(t) \/ ApplyOp(t)
  <2>1. /\ pc[t] \in Idle /\ \E place \in Idle : pc' = [pc EXCEPT ![t] = place]
        /\ UNCHANGED << dev, file, ep, dirty, cache, coming, level, failed >>
    BY <1>2 DEF cspi_setenvparam, cspi_read, read_dd, ApplyOp, Goto, Idle, procVars
  <2>2. Elsewhere(pr)
    BY <1>1, <2>1 DEF Elsewhere, Quiet
  <2>3. QED BY <2>2, ElsewhereKeeps
<1>3. CASE custom_setenvparam(t)
  <2>1. /\ pc[t] \in Idle /\ \E place \in Idle : pc' = [pc EXCEPT ![t] = place]
        /\ UNCHANGED << dev, file, ep, cache, coming, level, failed >>
        /\ dirty[pr] => dirty'[pr]
    BY <1>1, <1>3 DEF custom_setenvparam, Goto, Idle
  <2>2. Elsewhere(pr)
    BY <1>1, <2>1 DEF Elsewhere, Quiet
  <2>3. QED BY <2>2, ElsewhereKeeps
<1>4. CASE set_param(t)
  <2>1. UNCHANGED << file, pc, ep, dirty, cache, level, failed >>
    BY <1>4 DEF set_param
  <2>2. CASE UNCHANGED << dev, coming >>
    <3>1. Elsewhere(pr)
      BY <2>1, <2>2 DEF Elsewhere, Quiet
    <3>2. QED BY <3>1, ElsewhereKeeps
  <2>3. CASE SetsOne(t)
    <3>1. /\ coming' = [p \in Processes |->
                 IF p \in Listening /\ file[p] # NULL
                 THEN coming[p] \cup ({Index(t)} \cap HookCases) ELSE coming[p]]
      BY <2>3 DEF SetsOne, SendCfg
    <3>2. coming[pr] = {} /\ Index(t) \notin HookCases
      BY <1>1, <2>1, <3>1 DEF Quiet
    <3>3. Index(t) # "XOFFSET" /\ Index(t) # "SR_AVERAGE_WINDOW"
      BY <3>2 DEF HookCases
    <3>4. SetFrom(dev, dev', Index(t), Value(t))
      BY <2>3, SetsOneSets
    <3>5. "XOFFSET" \in Params \ {Index(t)} /\ "SR_AVERAGE_WINDOW" \in Params \ {Index(t)}
      BY <3>3, ParamNames
    <3>6. Elsewhere(pr)
      BY <2>1, <3>2, <3>3, <3>4, <3>5 DEF Elsewhere, Quiet, SetFrom
    <3>7. QED BY <3>6, ElsewhereKeeps
  <2>4. QED BY <1>4, <2>2, <2>3 DEF set_param, SetsOne, Index, Value
<1>5. CASE custom_initop(t)
  <2>1. UNCHANGED << dev, file, ep, cache, coming, level, failed >> /\ pc[t] \in Idle
    BY <1>5 DEF custom_initop, Idle
  <2>2. CASE Proc(t) = pr /\ dirty[pr]
    <3>1. pc'[t] \in Waiting
      BY <1>1, <1>5, <2>2 DEF custom_initop, Goto, Waiting
    <3>2. QED BY <2>2, <3>1 DEF CacheOf, Awaits
  <2>3. CASE Proc(t) # pr
    <3>1. dirty'[pr] = dirty[pr] /\ \A s \in Threads : s # t => pc'[s] = pc[s]
      BY <1>1, <1>5, <2>3 DEF custom_initop, Goto
    <3>2. Elsewhere(pr)
      BY <2>1, <2>3, <3>1 DEF Elsewhere, Quiet
    <3>3. QED BY <3>2, ElsewhereKeeps
  <2>4. CASE Proc(t) = pr /\ ~dirty[pr]
    <3>1. dirty' = dirty /\ \E place \in Idle : pc' = [pc EXCEPT ![t] = place]
      BY <1>5, <2>4 DEF custom_initop, Goto, Idle
    <3>2. Elsewhere(pr)
      BY <1>1, <2>1, <3>1 DEF Elsewhere, Quiet
    <3>3. QED BY <3>2, ElsewhereKeeps
  <2>5. QED BY <2>2, <2>3, <2>4
<1>6. CASE \/ StartUpdate(t) \/ get_param(t) \/ UpdateFails(t) \/ StoreOffsets(t)
           \/ ebpp_update_cache(t)
  <2>1. CASE Proc(t) = pr
    BY <1>6, <2>1, UpdateKeeps
  <2>2. CASE Proc(t) # pr
    <3>1. /\ UNCHANGED << dev, file, dirty, coming, level >>
          /\ cache'[pr] = cache[pr] /\ failed'[pr] = failed[pr]
          /\ \A s \in Threads : s # t => pc'[s] = pc[s] /\ ep'[s] = ep[s]
      BY <1>1, <1>6, <2>2 DEF StartUpdate, get_param, UpdateFails, StoreOffsets,
          ebpp_update_cache, StoreCache, Goto, procVars
    <3>2. Elsewhere(pr)
      BY <2>2, <3>1 DEF Elsewhere, Quiet
    <3>3. QED BY <3>2, ElsewhereKeeps
  <2>3. QED BY <2>1, <2>2
<1>7. QED BY <1>2, <1>3, <1>4, <1>5, <1>6 DEF ThreadStep

(* Processes that come, go or hear of an event. *)
LEMMA ProcessCacheKeeps ==
    ASSUME AccessInv, ThreadInv, CacheInv, NEW p \in Processes,
           InitEnv(p) \/ Exit(p) \/ signal_handler_hook(p),
           NEW pr \in Listening, Quiet(pr)'
    PROVE  CacheOf(pr)'
<1> USE DEF Sr
<1>1. /\ DOMAIN pc = Threads /\ DOMAIN ep = Threads /\ DOMAIN cache = Processes
      /\ DOMAIN failed = Processes /\ DOMAIN dirty = Processes /\ DOMAIN coming = Processes
      /\ DOMAIN file = Files /\ pr \in Processes /\ pr \in Files /\ p \in Files
  BY ProcOfThread DEF ThreadInv, MutexInv, CallTypes, AccessInv
<1>2. p # pr
  <2>1. CASE InitEnv(p)
    BY <1>1, <2>1 DEF InitEnv, Quiet
  <2>2. CASE Exit(p)
    BY <1>1, <2>2 DEF Exit, libera_cfg_release, Release, Quiet
  <2>3. CASE signal_handler_hook(p)
    BY <1>1, <2>3 DEF signal_handler_hook, Quiet
  <2>4. QED BY <2>1, <2>2, <2>3
<1>3. /\ dev' = dev /\ level' = level /\ file'[pr] = file[pr]
      /\ dirty'[pr] = dirty[pr] /\ coming'[pr] = coming[pr]
      /\ cache'[pr] = cache[pr] /\ failed'[pr] = failed[pr]
      /\ \A t \in Threads : Proc(t) = pr => pc'[t] = pc[t] /\ ep'[t] = ep[t]
  <2>1. CASE InitEnv(p)
    BY <1>1, <1>2, <2>1 DEF InitEnv, libera_cfg_open, Open, threadVars
  <2>2. CASE Exit(p)
    BY <1>1, <1>2, <2>2 DEF Exit, libera_cfg_release, Release
  <2>3. CASE signal_handler_hook(p)
    BY <1>1, <1>2, <2>3 DEF signal_handler_hook, threadVars
  <2>4. QED BY <2>1, <2>2, <2>3
<1>4. Elsewhere(pr)
  BY <1>3 DEF Elsewhere, Quiet
<1>5. QED BY <1>4, ElsewhereKeeps

(* dscd announces its offsets (libera_dsc_ioctl), files of other devices come *)
(* and go, and block calls reach registers the cache has nothing of.          *)
LEMMA DeviceCacheKeeps ==
    ASSUME DevInv, AccessInv, BlockInv, ThreadInv, CacheInv, [Next]_vars, NEW f \in Files,
           \/ f \notin Processes /\ OpenOrClose(f)
           \/ libera_dsc_ioctl_offsets(f) \/ libera_dsc_ioctl_event(f)
           \/ Blocks(f) /\ UNCHANGED << threadVars, procVars, level >>,
           NEW pr \in Listening, Quiet(pr)'
    PROVE  CacheOf(pr)'
<1> USE DEF Sr
<1>1. DOMAIN coming = Processes /\ DOMAIN file = Files /\ pr \in Processes /\ pr \in Files
  BY ProcOfThread DEF ThreadInv, CallTypes, AccessInv
<1>2. CASE f \notin Processes /\ OpenOrClose(f)
  <2>1. file'[pr] = file[pr]
    BY <1>1, <1>2 DEF OpenOrClose, libera_dsc_open, libera_fa_open, libera_dsc_release,
        libera_fa_release, Open, Release
  <2>2. UNCHANGED << dev, pc, ep, dirty, cache, coming, failed, level >>
    BY <1>2 DEF OpenOrClose, threadVars, procVars
  <2>3. Elsewhere(pr)
    BY <2>1, <2>2 DEF Elsewhere, Quiet
  <2>4. QED BY <2>3, ElsewhereKeeps
<1>3. CASE libera_dsc_ioctl_offsets(f)
  BY <1>3 DEF libera_dsc_ioctl_offsets, Quiet
<1>4. CASE libera_dsc_ioctl_event(f)
  <2>1. "LEVEL" \in coming'[pr]
    BY <1>1, <1>4 DEF libera_dsc_ioctl_event, SendCfg, HookCases, Quiet
  <2>2. QED BY <2>1 DEF Quiet
<1>5. CASE Blocks(f) /\ UNCHANGED << threadVars, procVars, level >>
  <2>1. file'[pr] # NULL => file[pr] # NULL
    <3>1. ASSUME NEW g \in Files, NEW m \in Modes[g], Open(g, m) PROVE acc' # acc
      <4>1. DevOf[g] \in Devices
        BY ConfigAssumption DEF Devices
      <4>2. acc'[DevOf[g]].open_count = acc[DevOf[g]].open_count + 1
        BY <3>1, <4>1 DEF Open, AccessInv, AccRecords
      <4>3. acc[DevOf[g]].open_count \in Nat
        BY <4>1 DEF AccessInv, AccRecords
      <4>4. QED BY <4>2, <4>3
    <3>2. ASSUME NEW g \in Files, Release(g) PROVE file'[pr] # NULL => file[pr] # NULL
      BY <1>1, <3>2 DEF Release
    <3>3. ASSUME NEW g \in Files, Moved(g) PROVE file'[pr] # NULL => file[pr] # NULL
      BY <1>1, <3>3 DEF Moved
    <3>4. acc' = acc
      BY <1>5 DEF Blocks, accessVars
    <3>5. QED BY <3>1, <3>2, <3>3, <3>4, AccessStep
  <2>2. dev' = dev \/ FinishWrite(f)
    BY <1>5 DEF Blocks
  <2>3. /\ dev'.param["XOFFSET"] = dev.param["XOFFSET"] /\ dev'.reg["FA_X"] = dev.reg["FA_X"]
        /\ Sr' = Sr
    BY <2>2, FinishWriteSets DEF Own
  <2>4. UNCHANGED << pc, ep, dirty, cache, coming, failed, level >>
    BY <1>5 DEF threadVars, procVars
  <2>5. Elsewhere(pr)
    BY <2>1, <2>3, <2>4 DEF Elsewhere, Quiet
  <2>6. QED BY <2>5, ElsewhereKeeps
<1>6. QED BY <1>2, <1>3, <1>4, <1>5

(* The cache, for every step. *)
LEMMA CacheInvariant ==
    ASSUME DevInv, AccessInv, BlockInv, ThreadInv, SettingInv, ThreadInv', CacheInv, [Next]_vars
    PROVE  CacheInv'
<1> SUFFICES ASSUME NEW pr \in Listening, Quiet(pr)' PROVE CacheOf(pr)'
  BY DEF CacheInv
<1>1. CASE UNCHANGED vars
  <2>1. Elsewhere(pr)
    BY <1>1 DEF Elsewhere, Quiet, Sr, vars, configVars, accessVars, threadVars, procVars
  <2>2. QED BY <2>1, ElsewhereKeeps
<1>2. ASSUME NEW t \in Threads, ThreadStep(t) PROVE CacheOf(pr)'
  BY <1>2, ThreadCacheKeeps
<1>3. ASSUME NEW p \in Processes, InitEnv(p) \/ Exit(p) \/ signal_handler_hook(p)
      PROVE  CacheOf(pr)'
  BY <1>3, ProcessCacheKeeps
<1>4. ASSUME NEW f \in Files,
             \/ f \notin Processes /\ OpenOrClose(f)
             \/ libera_dsc_ioctl_offsets(f) \/ libera_dsc_ioctl_event(f)
             \/ Blocks(f) /\ UNCHANGED << threadVars, procVars, level >>
      PROVE  CacheOf(pr)'
  BY <1>4, DeviceCacheKeeps
<1>5. BlockFiles \subseteq Files
  BY ParamsAssumption
<1>6. QED BY <1>1, <1>2, <1>3, <1>4, <1>5 DEF Next

-----------------------------------------------------------------------------
(* All together *)

(* The devices as the driver sets them up (libera_init_specific).             *)
LEMMA ParamsInvInit ==
    ASSUME Init
    PROVE  ParamsInv
<1>1. /\ dev = [param |-> ParamsInit, reg |-> RegsInit, pm_freezed |-> FALSE]
      /\ acc = [d \in Devices |->
                  [master |-> NULL, readers |-> 0, writers |-> 0, open_count |-> 0]]
      /\ sem = [d \in Devices |-> NULL] /\ buf = [d \in Devices |-> << >>]
      /\ file = [f \in Files |-> NULL] /\ at = [f \in Files |-> "user"]
      /\ seen = [f \in Files |-> NULL]
  BY DEF Init, ConfigInit
<1>2. DevInv
  <2>1. "XOFFSET" \in Params /\ "BCD_XOFFSET" \in Params
    BY ParamNames
  <2>2. ParamsInit["XOFFSET"] = 0 /\ ParamsInit["BCD_XOFFSET"] = 0
    BY <2>1, Kinds DEF ParamsInit
  <2>3. RegsInit["FA_X"] = 0
    BY RegNames DEF RegsInit
  <2>4. DOMAIN ParamsInit = Params /\ DOMAIN RegsInit = Regs
    BY DEF ParamsInit, RegsInit
  <2>5. dev.param = ParamsInit /\ dev.reg = RegsInit /\ DOMAIN dev = {"param", "reg", "pm_freezed"}
    BY <1>1
  <2>6. QED BY <2>2, <2>3, <2>4, <2>5 DEF DevInv, DevShape, Added
<1>3. AccessInv
  <2>1. \A d \in Devices : OpenFiles(d) = {}
    BY <1>1 DEF OpenFiles
  <2>2. Cardinality({}) = 0
    BY FS_EmptySet
  <2>3. acc \in [Devices -> AccRecords]
    BY <1>1 DEF AccRecords
  <2>4. QED BY <1>1, <2>1, <2>2, <2>3 DEF AccessInv, Writes
<1>4. BlockInv
  BY <1>1 DEF BlockInv
<1>5. ThreadInv /\ SettingInv
  BY PlaceNames DEF Init, ThreadInv, MutexInv, CallTypes, SettingInv, Places
<1>6. CacheInv
  BY <1>1, ProcOfThread DEF CacheInv, Quiet
<1>7. AtomsOfOneRequest
  <2>1. dev.reg = RegsInit
    BY <1>1
  <2>2. [ r \in IlkRegs |-> RegsInit[r] ] = IlkAtom(ParamsInit)
    BY RegNames DEF RegsInit, IlkAtom
  <2>3. \A r \in PmRegs : RegsInit[r] = PmAtom(ParamsInit)[r]
    BY RegNames DEF RegsInit
  <2>4. [ r \in PmRegs |-> RegsInit[r] ] = PmAtom(ParamsInit)
    BY <2>3 DEF PmAtom
  <2>5. /\ IlkAtom(ParamsInit) \in Requested("ILK", IlkAtom)
        /\ PmAtom(ParamsInit) \in Requested("PM", PmAtom)
    BY DEF Requested
  <2>6. QED BY <2>1, <2>2, <2>4, <2>5 DEF AtomsOfOneRequest
<1>8. QED BY <1>2, <1>3, <1>4, <1>5, <1>6, <1>7 DEF ParamsInv

(* Every step keeps the invariant. *)
LEMMA ParamsInvStep ==
    ASSUME ParamsInv, [Next]_vars
    PROVE  ParamsInv'
<1>1. ThreadInv'
  BY ThreadInvariant DEF ParamsInv
<1>2. QED
  BY <1>1, DevInvariant, AccessInvariant, BlockInvariant, SettingInvariant, CacheInvariant,
     AtomsInvariant DEF ParamsInv

(* The inductive invariant: mirror, files, block calls, mutexes, calls that   *)
(* set parameters and cache (libera.cfg, libera.dsc, libera.fa and cspi.c).   *)
THEOREM ParamsInvariant == Spec => []ParamsInv
<1>1. Init => ParamsInv
  BY ParamsInvInit
<1>2. ParamsInv /\ [Next]_vars => ParamsInv'
  BY ParamsInvStep
<1>3. QED BY <1>1, <1>2, PTL DEF Spec

(* The FPGA works with the sum of the users' offset and dscd's, and a device  *)
(* has a master exactly while a file is open for writing                      *)
(* (libera_cfg_set_specific, check_and_update, libera_*_open and _release).   *)
THEOREM OffsetsAlwaysAdd == Spec => []OffsetsAdd
<1>1. ASSUME ParamsInv PROVE OffsetsAdd
  <2>1. /\ DevInv /\ AccessInv /\ sem \in [Devices -> Files \cup {NULL}]
        /\ coming \in [Processes -> SUBSET HookCases]
    BY <1>1 DEF ParamsInv, BlockInv, ThreadInv, CallTypes
  <2>2. ParamsTypeOK
    <3>1. DOMAIN dev.param = Params /\ DOMAIN dev.reg = Regs
      BY <2>1 DEF DevInv, DevShape
    <3>2. ASSUME NEW d \in Devices
          PROVE  /\ acc[d].master \in Files \cup {NULL} /\ sem[d] \in Files \cup {NULL}
                 /\ acc[d].writers \in {0, 1}
                 /\ acc[d].open_count = Cardinality({ f \in Files : DevOf[f] = d /\ file[f] # NULL })
      <4>1. acc[d] \in AccRecords /\ acc[d].open_count = Cardinality(OpenFiles(d))
        BY <2>1 DEF AccessInv
      <4>2. QED BY <2>1, <4>1 DEF AccRecords, OpenFiles
    <3>3. \A pr \in Processes : coming[pr] \subseteq HookCases
      BY <2>1
    <3>4. QED BY <3>1, <3>2, <3>3 DEF ParamsTypeOK
  <2>3. dev.reg["FA_X"] = dev.param["XOFFSET"] + dev.param["BCD_XOFFSET"]
    BY <2>1 DEF DevInv, Added
  <2>4. ASSUME NEW d \in Devices
        PROVE  acc[d].master # NULL <=> \E f \in Files :
                 DevOf[f] = d /\ file[f] # NULL /\ "w" \in file[f].modes
    <3>1. acc[d].master \in Files \cup {NULL} /\ NULL \notin Files
      BY <2>1, ConfigAssumption DEF AccessInv, AccRecords
    <3>2. QED BY <2>1, <3>1 DEF AccessInv, Writes
  <2>5. QED BY <2>2, <2>3, <2>4 DEF OffsetsAdd
<1>2. QED BY <1>1, ParamsInvariant, PTL

(* The thresholds the FPGA has are always those of one request: a call that   *)
(* comes to the member that commits them has set the others, and nobody else  *)
(* could meanwhile (set_param, CommitIlk, CommitPm).                          *)
THEOREM AtomsAlwaysOfOneRequest == Spec => []AtomsOfOneRequest
<1>1. ParamsInv => AtomsOfOneRequest
  BY DEF ParamsInv
<1>2. QED BY <1>1, ParamsInvariant, PTL

(* A process that nothing tells to refill its cache has in it what the FPGA   *)
(* has, whoever changed that (signal_handler_hook, custom_initop,             *)
(* ebpp_update_cache, libera_dsc_ioctl).                                      *)
THEOREM CacheAlwaysFresh == Spec => []CacheFresh
<1>1. ASSUME ParamsInv PROVE CacheFresh
  <2>1. ASSUME NEW pr \in Listening, Quiet(pr), ~Updating(pr), ~failed[pr]
        PROVE  cache[pr].x = dev.reg["FA_X"] /\ cache[pr].sr = Sr
    <3>1. CacheOf(pr)
      BY <1>1, <2>1 DEF ParamsInv, CacheInv
    <3>2. ~Awaits(pr) /\ ~ \E t \in Threads : Proc(t) = pr /\ Got(t)
      BY <2>1 DEF Updating, Awaits, Got, Waiting, Getting, Asking, Storing
    <3>3. QED BY <2>1, <3>1, <3>2 DEF CacheOf, Refilled
  <2>2. QED BY <2>1 DEF CacheFresh, Quiet, Sr
<1>2. QED BY <1>1, ParamsInvariant, PTL

(* A block read delivers what the registers held: the buffer is one for all   *)
(* files of the device, the semaphore keeps it (libera_dsc_read).             *)
THEOREM ReadAlwaysDelivers == Spec => []ReadDelivers
<1>1. ParamsInv => ReadDelivers
  BY DEF ParamsInv, BlockInv, ReadDelivers
<1>2. QED BY <1>1, ParamsInvariant, PTL
=============================================================================
