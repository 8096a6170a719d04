----------------------------- MODULE ProgramsProofs -----------------------------
(***************************************************************************)
(* Proofs about the two programs that use the library and the driver.      *)
(*                                                                         *)
(* The event daemon: that its device mask covers its listeners, that its   *)
(* walk over them survives its own removals, and that who has joined is in *)
(* the list.  All for any processes, connections, kinds of events and      *)
(* length of the request fifo.  The last needs to know where a request is  *)
(* on its way: the last one of a connection in the fifo has the mask the   *)
(* connection last asked for, and a process has asked for nothing before   *)
(* its fifo is there.                                                      *)
(*                                                                         *)
(* The CHAOS driver and its commands, for any mode words, any numbers of   *)
(* loops and any bound on the count.  DeviceOfMode and EndDisconnects need *)
(* to know where an acquisition can be: only on a unit that is up, and in  *)
(* the wait for a trigger only while it is the command that runs.          *)
(* LoopsServed needs what the published count and the loops still to come  *)
(* add up to.                                                              *)
(***************************************************************************)
EXTENDS ChaosDriver, EventDaemon, SequenceTheorems, TLAPS

-----------------------------------------------------------------------------
(* The event daemon: the inductive invariant *)

Distinct(list) == \A i, j \in DOMAIN list : Same(list[i], list[j]) => i = j

In(l, list) == \E j \in DOMAIN list : list[j] = l

(* The list, and what is left of the walk over it. *)
ListInv ==
    /\ Distinct(listeners) /\ Distinct(todo)
    /\ \A i \in DOMAIN todo : In(todo[i], listeners)
    /\ daemon \notin {"walk", "send"} => todo = << >>
    /\ daemon = "send" => todo # << >>
    /\ daemon = "dead" => listeners = << >>
    /\ daemon # "dead" => INIT_MASK \cup Union(listeners) \subseteq mask

Calling == {"mkfifo", "openfifo", "open", "write"}

(* What a process asks for is for a connection it has, and it asks for        *)
(* nothing before its event thread is there.                                  *)
ProcInvOf(p) ==
    /\ pc[p] \in Calling =>
         /\ request[p] \in Listener /\ request[p].pid \in {p, NULL}
         /\ request[p].mask # {} => request[p].pid = p /\ request[p].uid \in cons[p]
    /\ pc[p] \in {"mkfifo", "openfifo"} => thread[p] = "none"
    /\ pc[p] \in {"open", "write"} /\ thread[p] = "none" => request[p].mask = {}
    /\ thread[p] = "none" => \A u \in Ids : asked[p][u] = {}
    /\ \A u \in Ids : asked[p][u] # {} => u \in cons[p]
    /\ pc[p] \in {"join", "dead"} => cons[p] = {}

ProcInv == \A p \in Procs : ProcInvOf(p)

(* The requests of a connection that are on their way. *)
Pending(p, u) == { i \in DOMAIN reqq : Same(reqq[i], Request(p, u, {})) }

(* The last of them has what the connection asked for last; without any, the  *)
(* daemon has it, as long as the process's fifo is there.                     *)
JoinedOf(p, u) ==
    /\ \A i \in Pending(p, u) :
         (\A j \in Pending(p, u) : j <= i) => reqq[i].mask = asked[p][u]
    /\ Pending(p, u) = {} /\ HasReader(p) =>
         In(Request(p, u, asked[p][u]), listeners)

JoinedInv ==
    failures = {} => \A p \in Procs : \A u \in Ids : asked[p][u] # {} => JoinedOf(p, u)

EventdInv == EventdTypeOK /\ ListInv /\ ProcInv /\ JoinedInv

-----------------------------------------------------------------------------
(* Sequences *)

(* Taking one element out moves the later ones up (remove_listener). *)
LEMMA RemoveAtMoves ==
    ASSUME NEW S, NEW s \in Seq(S), NEW i \in DOMAIN s
    PROVE  /\ RemoveAt(s, i) \in Seq(S) /\ Len(RemoveAt(s, i)) = Len(s) - 1
           /\ \A j \in DOMAIN RemoveAt(s, i) :
                RemoveAt(s, i)[j] = IF j < i THEN s[j] ELSE s[j + 1]
<1> DEFINE n == Len(s)
           a == SubSeq(s, 1, i - 1)
           b == SubSeq(s, i + 1, n)
<1>1. n \in Nat /\ i \in 1 .. n /\ \A j \in 1 .. n : s[j] \in S
  BY LenProperties, ElementOfSeq
<1>2. /\ a \in Seq(S) /\ Len(a) = i - 1
      /\ \A j \in 1 .. i - 1 : a[j] = s[j]
  <2>1. 1 \in Int /\ i - 1 \in Int /\ \A j \in 1 .. i - 1 : s[j] \in S
    BY <1>1
  <2>2. /\ a \in Seq(S) /\ Len(a) = IF 1 <= i - 1 THEN i - 1 - 1 + 1 ELSE 0
        /\ \A j \in 1 .. i - 1 - 1 + 1 : a[j] = s[1 + j - 1]
    BY <2>1, SubSeqProperties
  <2>3. QED BY <1>1, <2>2
<1>3. /\ b \in Seq(S) /\ Len(b) = n - i
      /\ \A j \in 1 .. n - i : b[j] = s[i + j]
  <2>1. i + 1 \in Int /\ n \in Int /\ \A j \in i + 1 .. n : s[j] \in S
    BY <1>1
  <2>2. /\ b \in Seq(S) /\ Len(b) = IF i + 1 <= n THEN n - (i + 1) + 1 ELSE 0
        /\ \A j \in 1 .. n - (i + 1) + 1 : b[j] = s[(i + 1) + j - 1]
    BY <2>1, SubSeqProperties
  <2>3. QED BY <1>1, <2>2
<1>4. RemoveAt(s, i) = a \o b
  BY DEF RemoveAt
<1> HIDE DEF n, a, b
<1>5. /\ a \o b \in Seq(S) /\ Len(a \o b) = Len(a) + Len(b)
      /\ \A j \in 1 .. Len(a) + Len(b) : (a \o b)[j] = IF j <= Len(a) THEN a[j] ELSE b[j - Len(a)]
  BY <1>2, <1>3, ConcatProperties
<1>6. Len(a) + Len(b) = n - 1
  BY <1>1, <1>2, <1>3
<1>7. DOMAIN (a \o b) = 1 .. n - 1
  BY <1>5, <1>6, LenProperties
<1>8. ASSUME NEW j \in 1 .. n - 1 PROVE (a \o b)[j] = IF j < i THEN s[j] ELSE s[j + 1]
  <2>1. CASE j < i
    BY <1>1, <1>2, <1>5, <1>6, <2>1
  <2>2. CASE ~(j < i)
    <3>1. j - (i - 1) \in 1 .. n - i /\ i + (j - (i - 1)) = j + 1
      BY <1>1, <2>2
    <3>2. (a \o b)[j] = b[j - (i - 1)]
      BY <1>1, <1>2, <1>5, <1>6, <2>2
    <3>3. QED BY <1>3, <2>2, <3>1, <3>2
  <2>3. QED BY <2>1, <2>2
<1>9. QED BY <1>4, <1>5, <1>6, <1>7, <1>8 DEF n

(* Putting one in front moves the others back (insert_listener). *)
LEMMA InsertMoves ==
    ASSUME NEW S, NEW s \in Seq(S), NEW e \in S
    PROVE  /\ << e >> \o s \in Seq(S) /\ Len(<< e >> \o s) = Len(s) + 1
           /\ (<< e >> \o s)[1] = e
           /\ \A j \in DOMAIN s : j + 1 \in DOMAIN (<< e >> \o s) /\ (<< e >> \o s)[j + 1] = s[j]
           /\ \A j \in DOMAIN (<< e >> \o s) : j # 1 => j - 1 \in DOMAIN s
                                                    /\ (<< e >> \o s)[j] = s[j - 1]
<1>1. << e >> \in Seq(S) /\ Len(<< e >>) = 1 /\ << e >>[1] = e
  OBVIOUS
<1>2. Len(s) \in Nat /\ DOMAIN s = 1 .. Len(s)
  BY LenProperties
<1> DEFINE t == << e >> \o s
<1>3. /\ t \in Seq(S) /\ Len(t) = 1 + Len(s)
      /\ \A j \in 1 .. 1 + Len(s) : t[j] = IF j <= 1 THEN << e >>[j] ELSE s[j - 1]
  BY <1>1, ConcatProperties
<1>4. DOMAIN t = 1 .. 1 + Len(s)
  BY <1>3, LenProperties
<1> HIDE DEF t
<1>5. t[1] = e
  BY <1>1, <1>2, <1>3
<1>6. ASSUME NEW j \in DOMAIN s PROVE j + 1 \in DOMAIN t /\ t[j + 1] = s[j]
  BY <1>2, <1>3, <1>4
<1>7. ASSUME NEW j \in DOMAIN t, j # 1 PROVE j - 1 \in DOMAIN s /\ t[j] = s[j - 1]
  BY <1>2, <1>3, <1>4, <1>7
<1>8. QED BY <1>2, <1>3, <1>5, <1>6, <1>7 DEF t

(* Taking the first away moves the others up (the request fifo, the walk). *)
LEMMA TailMoves ==
    ASSUME NEW S, NEW s \in Seq(S), s # << >>
    PROVE  /\ Tail(s) \in Seq(S) /\ Head(s) = s[1] /\ Head(s) \in S /\ 1 \in DOMAIN s
           /\ \A j \in DOMAIN Tail(s) : j + 1 \in DOMAIN s /\ Tail(s)[j] = s[j + 1] /\ j + 1 # 1
           /\ \A j \in DOMAIN s : j # 1 => j - 1 \in DOMAIN Tail(s) /\ Tail(s)[j - 1] = s[j]
<1>1. /\ Head(s) \in S /\ Tail(s) \in Seq(S) /\ Len(Tail(s)) = Len(s) - 1
      /\ \A j \in 1 .. Len(Tail(s)) : Tail(s)[j] = s[j + 1]
  BY HeadTailProperties
<1>2. /\ Len(s) \in Nat \ {0} /\ DOMAIN s = 1 .. Len(s) /\ DOMAIN Tail(s) = 1 .. Len(s) - 1
  BY <1>1, EmptySeq, LenProperties
<1>3. Head(s) = s[1]
  OBVIOUS
<1>4. ASSUME NEW j \in DOMAIN Tail(s)
      PROVE  j + 1 \in DOMAIN s /\ Tail(s)[j] = s[j + 1] /\ j + 1 # 1
  BY <1>1, <1>2
<1>5. ASSUME NEW j \in DOMAIN s, j # 1 PROVE j - 1 \in DOMAIN Tail(s) /\ Tail(s)[j - 1] = s[j]
  <2>1. j - 1 \in DOMAIN Tail(s) /\ (j - 1) + 1 = j
    BY <1>2, <1>5
  <2>2. QED BY <1>4, <2>1
<1>6. QED BY <1>1, <1>2, <1>3, <1>4, <1>5

-----------------------------------------------------------------------------
(* The list of listeners *)

(* remove_listener takes the one listener of a connection away. *)
LEMMA WithoutRemoves ==
    ASSUME listeners \in Seq(Listener), Distinct(listeners), NEW r
    PROVE  /\ Without(r) \in Seq(Listener) /\ Distinct(Without(r))
           /\ \A l : In(l, Without(r)) <=> In(l, listeners) /\ ~Same(l, r)
<1>1. CASE find_listener(r) = {}
  <2>1. Without(r) = listeners
    BY <1>1 DEF Without
  <2>2. \A i \in DOMAIN listeners : ~Same(listeners[i], r)
    BY <1>1 DEF find_listener
  <2>3. QED BY <2>1, <2>2 DEF In
<1>2. CASE find_listener(r) # {}
  <2>1. PICK i \in find_listener(r) : Without(r) = RemoveAt(listeners, i)
    BY <1>2 DEF Without
  <2>2. i \in DOMAIN listeners /\ Same(listeners[i], r)
    BY <2>1 DEF find_listener
  <2> DEFINE rest == RemoveAt(listeners, i)
             n == Len(listeners)
  <2>3. /\ rest \in Seq(Listener) /\ Len(rest) = n - 1
        /\ \A j \in DOMAIN rest : rest[j] = IF j < i THEN listeners[j] ELSE listeners[j + 1]
    BY <2>2, RemoveAtMoves
  <2>4. n \in Nat /\ DOMAIN listeners = 1 .. n /\ DOMAIN rest = 1 .. n - 1 /\ i \in 1 .. n
    BY <2>2, <2>3, LenProperties
  <2> HIDE DEF rest, n
  <2>5. ASSUME NEW j \in DOMAIN rest
        PROVE  \E k \in DOMAIN listeners : /\ k # i /\ rest[j] = listeners[k]
                                           /\ k = IF j < i THEN j ELSE j + 1
    <3>1. CASE j < i
      <4>1. j \in DOMAIN listeners /\ j # i /\ rest[j] = listeners[j]
        BY <2>3, <2>4, <3>1
      <4>2. QED BY <3>1, <4>1
    <3>2. CASE ~(j < i)
      <4>1. j + 1 \in DOMAIN listeners /\ j + 1 # i /\ rest[j] = listeners[j + 1]
        BY <2>3, <2>4, <3>2
      <4>2. QED BY <3>2, <4>1
    <3>3. QED BY <3>1, <3>2
  <2>6. ASSUME NEW k \in DOMAIN listeners, k # i PROVE In(listeners[k], rest)
    <3>1. CASE k < i
      <4>1. k \in DOMAIN rest /\ rest[k] = listeners[k]
        BY <2>3, <2>4, <3>1
      <4>2. QED BY <4>1 DEF In
    <3>2. CASE ~(k < i)
      <4>1. k - 1 \in DOMAIN rest /\ ~(k - 1 < i) /\ (k - 1) + 1 = k
        BY <2>4, <2>6, <3>2
      <4>2. rest[k - 1] = listeners[k]
        BY <2>3, <4>1
      <4>3. QED BY <4>1, <4>2 DEF In
    <3>3. QED BY <3>1, <3>2
  <2>7. Distinct(rest)
    <3>1. ASSUME NEW j \in DOMAIN rest, NEW k \in DOMAIN rest, Same(rest[j], rest[k]) PROVE j = k
      <4>1. PICK j1 \in DOMAIN listeners : /\ rest[j] = listeners[j1]
                                           /\ j1 = IF j < i THEN j ELSE j + 1
        BY <2>5
      <4>2. PICK k1 \in DOMAIN listeners : /\ rest[k] = listeners[k1]
                                           /\ k1 = IF k < i THEN k ELSE k + 1
        BY <2>5
      <4>3. j1 = k1
        BY <3>1, <4>1, <4>2 DEF Distinct
      <4>4. QED BY <2>4, <4>1, <4>2, <4>3
    <3>2. QED BY <3>1 DEF Distinct
  <2>8. \A k \in DOMAIN listeners : Same(listeners[k], r) => k = i
    BY <2>2 DEF Same, Distinct
  <2>9. \A l : In(l, rest) <=> In(l, listeners) /\ ~Same(l, r)
    BY <2>2, <2>5, <2>6, <2>8 DEF In
  <2>10. QED BY <2>1, <2>3, <2>7, <2>9 DEF rest
<1>3. QED BY <1>1, <1>2

(* A request changes the entry of its connection only, and one that asks for  *)
(* events is then in the list (handle_request).                               *)
LEMMA AfterRequestHas ==
    ASSUME listeners \in Seq(Listener), Distinct(listeners), NEW r \in Listener
    PROVE  /\ AfterRequest(r) \in Seq(Listener) /\ Distinct(AfterRequest(r))
           /\ \A l : ~Same(l, r) => (In(l, AfterRequest(r)) <=> In(l, listeners))
           /\ r.mask # {} => In(r, AfterRequest(r))
<1>1. CASE r.mask = {}
  BY <1>1, WithoutRemoves DEF AfterRequest
<1>2. CASE r.mask # {} /\ find_listener(r) = {}
  <2> DEFINE more == << r >> \o listeners
  <2>1. AfterRequest(r) = more
    BY <1>2 DEF AfterRequest
  <2>2. /\ more \in Seq(Listener) /\ more[1] = r
        /\ \A j \in DOMAIN listeners : j + 1 \in DOMAIN more /\ more[j + 1] = listeners[j]
        /\ \A j \in DOMAIN more : j # 1 => j - 1 \in DOMAIN listeners /\ more[j] = listeners[j - 1]
    BY InsertMoves
  <2>3. 1 \in DOMAIN more /\ \A j \in DOMAIN more : j \in Int
    <3>1. Len(more) = Len(listeners) + 1 /\ Len(listeners) \in Nat
      BY InsertMoves, LenProperties
    <3>2. DOMAIN more = 1 .. Len(more)
      BY <2>2, LenProperties
    <3>3. QED BY <3>1, <3>2
  <2> HIDE DEF more
  <2>4. \A j \in DOMAIN listeners : ~Same(listeners[j], r)
    BY <1>2 DEF find_listener
  <2>5. Distinct(more)
    <3>1. ASSUME NEW j \in DOMAIN more, NEW k \in DOMAIN more, Same(more[j], more[k]) PROVE j = k
      <4>1. CASE j # 1 /\ k # 1
        <5>1. j - 1 = k - 1
          BY <2>2, <3>1, <4>1 DEF Distinct
        <5>2. QED BY <2>3, <5>1
      <4>2. CASE j = 1 /\ k # 1
        BY <2>2, <2>4, <3>1, <4>2 DEF Same
      <4>3. CASE j # 1 /\ k = 1
        BY <2>2, <2>4, <3>1, <4>3 DEF Same
      <4>4. QED BY <4>1, <4>2, <4>3
    <3>2. QED BY <3>1 DEF Distinct
  <2>6. In(r, more)
    BY <2>2, <2>3 DEF In
  <2>7. \A l : ~Same(l, r) => (In(l, more) <=> In(l, listeners))
    BY <2>2, <2>3 DEF In, Same
  <2>8. QED BY <2>1, <2>2, <2>5, <2>6, <2>7
<1>3. CASE r.mask # {} /\ find_listener(r) # {}
  <2> DEFINE found == find_listener(r)
             list == [i \in DOMAIN listeners |-> IF i \in found
                        THEN [listeners[i] EXCEPT !.mask = r.mask] ELSE listeners[i]]
  <2>1. AfterRequest(r) = list
    BY <1>3 DEF AfterRequest
  <2>2. \A i \in DOMAIN listeners : listeners[i] \in Listener
    BY LenProperties
  <2>3. \A i \in found : i \in DOMAIN listeners /\ Same(listeners[i], r)
    BY DEF find_listener
  <2>4. \A i \in found : [listeners[i] EXCEPT !.mask = r.mask] = r
    BY <2>2, <2>3 DEF Listener, Same
  <2>5. /\ DOMAIN list = DOMAIN listeners
        /\ \A i \in DOMAIN listeners : list[i] = IF i \in found THEN r ELSE listeners[i]
    BY <2>4
  <2>6. list \in Seq(Listener)
    <3>1. Len(listeners) \in Nat /\ DOMAIN listeners = 1 .. Len(listeners)
      BY LenProperties
    <3>2. list \in [1 .. Len(listeners) -> Listener]
      BY <2>2, <2>5, <3>1
    <3>3. QED BY <3>1, <3>2, SeqDef
  <2> HIDE DEF list
  <2>7. \A i \in DOMAIN listeners : Same(list[i], listeners[i])
    BY <2>3, <2>5 DEF Same
  <2>8. Distinct(list)
    BY <2>5, <2>7 DEF Distinct, Same
  <2>9. In(r, list)
    BY <1>3, <2>3, <2>5 DEF In
  <2>10. \A l : ~Same(l, r) => (In(l, list) <=> In(l, listeners))
    BY <2>3, <2>5 DEF In, Same
  <2>11. QED BY <2>1, <2>6, <2>8, <2>9, <2>10
<1>4. QED BY <1>1, <1>2, <1>3

-----------------------------------------------------------------------------
(* Types *)

(* What the daemon does to its data. *)
LEMMA DaemonTypes ==
    ASSUME EventdTypeOK, ListInv, run \/ init \/ signal_handler \/ EventOccurs
    PROVE  EventdTypeOK'
<1> USE DEF EventdTypeOK
<1>1. ASSUME NEW how \in {"exited", "killed"}, NEW files \in [Procs -> {"none", "read", "unread", "leaked"}],
             Gone(files, how)
      PROVE  EventdTypeOK'
  <2>1. << >> \in Seq(Listener)
    BY EmptySeq
  <2>2. failures' \in SUBSET {"discarded", "exited", "killed"}
    BY <1>1 DEF Gone
  <2>3. reqq' \in Seq(Listener)
    BY <1>1, <2>1 DEF Gone
  <2>4. QED BY <1>1, <2>1, <2>2, <2>3 DEF Gone, procVars
<1>2. ASSUME cleanup PROVE EventdTypeOK'
  <2>1. \A pids : Unlink(pids) \in [Procs -> {"none", "read", "unread", "leaked"}]
    BY DEF Unlink
  <2>2. QED BY <1>1, <1>2, <2>1 DEF cleanup
<1>3. CASE signal_handler
  BY <1>2, <1>3 DEF signal_handler
<1>4. CASE init
  BY <1>4, EventdAssumption DEF init, procVars
<1>5. CASE EventOccurs
  BY <1>5 DEF EventOccurs, procVars
<1>6. CASE Select
  BY <1>6 DEF Select, Readable, procVars
<1>7. CASE WalkEnds
  BY <1>7 DEF WalkEnds, procVars
<1>8. CASE TryListener
  <2>1. Without(Head(todo)) \in Seq(Listener)
    BY WithoutRemoves DEF ListInv
  <2>2. Tail(todo) \in Seq(Listener)
    BY <1>8, TailMoves DEF TryListener
  <2>3. \A pids : Unlink(pids) \in [Procs -> {"none", "read", "unread", "leaked"}]
    BY DEF Unlink
  <2>4. daemon' \in {"select", "walk", "send", "request", "close", "reopen", "dead"}
        /\ wfd' \in BOOLEAN /\ listeners' \in Seq(Listener)
        /\ file' \in [Procs -> {"none", "read", "unread", "leaked"}] /\ todo' \in Seq(Listener)
    BY <1>8, <2>1, <2>2, <2>3 DEF TryListener
  <2>5. UNCHANGED << starts, mask, event, ev, ready, reqq, hup, procVars, asked, failures >>
    BY <1>8 DEF TryListener
  <2>6. QED BY <2>4, <2>5 DEF procVars
<1>9. CASE SendEvent
  <2>1. CASE Gone(file, "killed")
    BY <1>1, <2>1
  <2>2. CASE wfd
    <3>1. todo # << >>
      BY <1>9, <2>2 DEF SendEvent, ListInv
    <3>2. Tail(todo) \in Seq(Listener)
      BY <3>1, TailMoves
    <3>3. QED BY <1>9, <2>2, <3>2 DEF SendEvent, procVars
  <2>3. QED BY <1>9, <2>1, <2>2 DEF SendEvent
<1>10. CASE handle_request
  <2>1. Head(reqq) \in Listener /\ Tail(reqq) \in Seq(Listener)
    BY <1>10, TailMoves DEF handle_request
  <2>2. AfterRequest(Head(reqq)) \in Seq(Listener)
    BY <2>1, AfterRequestHas DEF ListInv
  <2>3. listeners' \in Seq(Listener)
    BY <1>10, <2>2 DEF handle_request
  <2>4. Union(listeners') \subseteq Kinds
    <3>1. \A i \in DOMAIN listeners' : listeners'[i] \in Listener
      BY <2>3, LenProperties
    <3>2. QED BY <3>1 DEF Union, Listener
  <2>5. mask' \in SUBSET Kinds
    BY <1>10, <2>4, EventdAssumption DEF handle_request
  <2>6. \A pids : Unlink(pids) \in [Procs -> {"none", "read", "unread", "leaked"}]
    BY DEF Unlink
  <2>7. file' \in [Procs -> {"none", "read", "unread", "leaked"}]
    BY <1>10, <2>6 DEF handle_request
  <2>8. QED BY <1>10, <2>1, <2>3, <2>5, <2>7 DEF handle_request, procVars
<1>11. CASE EndOfRequests \/ ReopenRequests
  BY <1>11 DEF EndOfRequests, ReopenRequests, procVars
<1>12. CASE CloseRequests
  <2>1. reqq' \in Seq(Listener) /\ failures' \in SUBSET {"discarded", "exited", "killed"}
    BY <1>12, EmptySeq DEF CloseRequests, Drop
  <2>2. QED BY <1>12, <2>1 DEF CloseRequests, procVars
<1>13. CASE RequestFails
  BY <1>2, <1>13 DEF RequestFails
<1>14. QED
  BY <1>3, <1>4, <1>5, <1>6, <1>7, <1>8, <1>9, <1>10, <1>11, <1>12, <1>13 DEF run

(* What a process and its event thread do to theirs. *)
LEMMA ProcTypes ==
    ASSUME EventdTypeOK, ProcInv, NEW p \in Procs,
           \/ base_initcon(p) \/ base_setconparam(p) \/ remove_con(p)
           \/ InCall(p) \/ event_thread(p) \/ Dies(p)
    PROVE  EventdTypeOK'
<1> USE DEF EventdTypeOK
<1>0. /\ \A u \in 1 .. MaxId[p] : u \in Ids /\ u \in Int
      /\ Masks \subseteq SUBSET Kinds /\ last[p] \in Nat
  BY EventdAssumption DEF Ids
<1>1. CASE base_initcon(p)
  <2>1. last[p] + 1 \in Nat /\ last[p] + 1 \in Ids
    BY <1>0, <1>1, EventdAssumption DEF base_initcon
  <2>2. QED BY <1>1, <2>1 DEF base_initcon, ProcStep
<1>2. CASE base_setconparam(p)
  <2>1. PICK u \in cons[p] \cup ({last[p] + 1} \cap 1 .. MaxId[p]), k \in Masks :
          /\ last' = [last EXCEPT ![p] = IF u > @ THEN u ELSE @]
          /\ cons' = [cons EXCEPT ![p] = @ \cup {u}]
          /\ handled' = [handled EXCEPT ![p] = @ \cup {u}]
          /\ IF thread[p] = "none" /\ k = {}
             THEN UNCHANGED << pc, request >>
             ELSE /\ Goto(p, IF thread[p] = "none" THEN "mkfifo" ELSE "open")
                  /\ request' = [request EXCEPT ![p] = Request(p, u, k)]
    BY <1>2 DEF base_setconparam
  <2>2. u \in Ids /\ u \in Nat
    BY <1>0 DEF Ids
  <2>3. Request(p, u, k) \in Listener
    BY <1>0, <2>2 DEF Request, Listener
  <2>4. last' \in [Procs -> Nat]
    BY <2>1, <2>2
  <2>5. /\ pc' \in [Procs -> {"user", "mkfifo", "openfifo", "open", "write", "close", "join", "dead"}]
        /\ request' \in [Procs -> Listener \cup {NULL}]
    <3>1. CASE UNCHANGED << pc, request >>
      BY <3>1
    <3>2. CASE /\ \E place \in {"mkfifo", "open"} : pc' = [pc EXCEPT ![p] = place]
               /\ request' = [request EXCEPT ![p] = Request(p, u, k)]
      BY <2>3, <3>2
    <3>3. QED BY <2>1, <3>1, <3>2 DEF Goto
  <2>6. /\ cons' \in [Procs -> SUBSET Ids] /\ handled' \in [Procs -> SUBSET Ids]
        /\ \A q \in Procs : handled'[q] \subseteq cons'[q]
    BY <2>1, <2>2
  <2>7. QED BY <1>2, <2>4, <2>5, <2>6 DEF base_setconparam, ProcStep
<1>3. CASE remove_con(p)
  <2>1. PICK u \in cons[p] :
          /\ cons' = [cons EXCEPT ![p] = @ \ {u}]
          /\ handled' = [handled EXCEPT ![p] = @ \ {u}]
          /\ IF cons[p] = {u}
             THEN /\ Goto(p, "open")
                  /\ request' = [request EXCEPT ![p] =
                        Request(IF u \in handled[p] THEN p ELSE NULL, u, {})]
             ELSE UNCHANGED << pc, request >>
          /\ asked' = [asked EXCEPT ![p][u] = {}]
    BY <1>3 DEF remove_con
  <2>2. u \in Ids
    OBVIOUS
  <2>3. Request(IF u \in handled[p] THEN p ELSE NULL, u, {}) \in Listener
    BY <2>2 DEF Request, Listener
  <2>4. /\ pc' \in [Procs -> {"user", "mkfifo", "openfifo", "open", "write", "close", "join", "dead"}]
        /\ request' \in [Procs -> Listener \cup {NULL}]
    <3>1. CASE UNCHANGED << pc, request >>
      BY <3>1
    <3>2. ASSUME NEW r \in Listener, pc' = [pc EXCEPT ![p] = "open"],
                 request' = [request EXCEPT ![p] = r]
          PROVE  /\ pc' \in [Procs -> {"user", "mkfifo", "openfifo", "open", "write", "close", "join", "dead"}]
                 /\ request' \in [Procs -> Listener \cup {NULL}]
      BY <3>2
    <3>3. QED BY <2>1, <2>3, <3>1, <3>2 DEF Goto
  <2>5. /\ cons' \in [Procs -> SUBSET Ids] /\ handled' \in [Procs -> SUBSET Ids]
        /\ \A q \in Procs : handled'[q] \subseteq cons'[q]
    BY <2>1
  <2>6. asked' \in [Procs -> [Ids -> SUBSET Kinds]]
    BY <2>1, <2>2
  <2>7. QED BY <1>3, <2>4, <2>5, <2>6 DEF remove_con, ProcStep
<1>4. CASE MakeFifo(p) \/ OpenRequests(p) \/ WriteFails(p)
  BY <1>4 DEF MakeFifo, OpenRequests, WriteFails, ProcStep, Goto
<1>5. CASE create_event_pipe(p) \/ NoEventThread(p)
  BY <1>5 DEF create_event_pipe, NoEventThread, ProcStep, Goto
<1>6. CASE WriteRequest(p)
  <2>1. request[p] \in Listener
    BY <1>6 DEF WriteRequest, ProcStep, ProcInv, ProcInvOf, Calling
  <2>2. request[p].uid \in Ids /\ request[p].mask \in SUBSET Kinds
    BY <2>1 DEF Listener
  <2>3. reqq' \in Seq(Listener)
    BY <1>6, <2>1, AppendProperties DEF WriteRequest
  <2>4. asked' \in [Procs -> [Ids -> SUBSET Kinds]]
    BY <1>6, <2>2 DEF WriteRequest
  <2>5. QED BY <1>6, <2>3, <2>4 DEF WriteRequest, ProcStep, Goto
<1>7. ASSUME NEW r, NEW w, Drop(r, w) \/ UNCHANGED << reqq, failures >>
      PROVE  reqq' \in Seq(Listener) /\ failures' \in SUBSET {"discarded", "exited", "killed"}
  BY <1>7, EmptySeq DEF Drop
<1>8. CASE CloseRequest(p)
  <2>1. reqq' \in Seq(Listener) /\ failures' \in SUBSET {"discarded", "exited", "killed"}
    BY <1>7, <1>8 DEF CloseRequest
  <2>2. QED BY <1>8, <2>1 DEF CloseRequest, ProcStep, Goto
<1>9. CASE pthread_join(p)
  BY <1>9 DEF pthread_join, ProcStep, Goto
<1>10. ASSUME NEW last_one, ReaderLeaves(p, last_one)
       PROVE  file' \in [Procs -> {"none", "read", "unread", "leaked"}] /\ wfd' \in BOOLEAN
  BY <1>10 DEF ReaderLeaves
<1>11. CASE event_thread(p)
  <2>1. file' \in [Procs -> {"none", "read", "unread", "leaked"}] /\ wfd' \in BOOLEAN
    BY <1>10, <1>11 DEF event_thread, Unlink
  <2>2. thread' \in [Procs -> {"none", "start", "run", "unlink", "exited"}]
    BY <1>11 DEF event_thread
  <2>3. QED BY <1>11, <2>1, <2>2 DEF event_thread
<1>12. CASE Dies(p)
  <2>1. reqq' \in Seq(Listener) /\ failures' \in SUBSET {"discarded", "exited", "killed"}
    BY <1>7, <1>12 DEF Dies
  <2>2. file' \in [Procs -> {"none", "read", "unread", "leaked"}] /\ wfd' \in BOOLEAN
    BY <1>10, <1>12 DEF Dies
  <2>3. /\ asked' \in [Procs -> [Ids -> SUBSET Kinds]]
        /\ cons' \in [Procs -> SUBSET Ids] /\ handled' \in [Procs -> SUBSET Ids]
        /\ \A q \in Procs : handled'[q] \subseteq cons'[q]
    BY <1>12 DEF Dies
  <2>4. QED BY <1>12, <2>1, <2>2, <2>3 DEF Dies, Goto
<1>13. QED
  BY <1>1, <1>2, <1>3, <1>4, <1>5, <1>6, <1>8, <1>9, <1>11, <1>12 DEF InCall

(* Every step keeps the types. *)
LEMMA TypesInvariant ==
    ASSUME EventdTypeOK, ListInv, ProcInv, [Next]_vars
    PROVE  EventdTypeOK'
<1>1. CASE UNCHANGED vars
  BY <1>1 DEF EventdTypeOK, vars, daemonVars, procVars
<1>2. QED BY <1>1, DaemonTypes, ProcTypes DEF Next

-----------------------------------------------------------------------------
(* The walk and the mask *)

(* Processes do not touch what is the daemon's own. *)
LEMMA ProcessesLeaveIt ==
    ASSUME NEW p \in Procs,
           \/ base_initcon(p) \/ base_setconparam(p) \/ remove_con(p)
           \/ InCall(p) \/ event_thread(p) \/ Dies(p)
    PROVE  UNCHANGED << daemon, listeners, todo, mask >>
  BY DEF base_initcon, base_setconparam, remove_con, InCall, event_thread, Dies, ProcStep,
     MakeFifo, create_event_pipe, NoEventThread, OpenRequests, WriteRequest, WriteFails,
     CloseRequest, pthread_join

(* The walk and the mask, for every step (handle_event, handle_request). *)
LEMMA ListInvariant ==
    ASSUME EventdTypeOK, ListInv, [Next]_vars
    PROVE  ListInv'
<1> USE DEF ListInv
<1>1. CASE UNCHANGED << daemon, listeners, todo, mask >>
  BY <1>1 DEF Distinct, In, Union
<1>2. Distinct(<< >>) /\ Union(<< >>) = {}
  BY DEF Distinct, Union
<1>3. ASSUME NEW files, NEW how, Gone(files, how) PROVE ListInv'
  BY <1>2, <1>3 DEF Gone, Distinct
<1>4. ASSUME cleanup PROVE ListInv'
  BY <1>3, <1>4 DEF cleanup
<1>5. CASE init
  BY <1>2, <1>5 DEF init, Distinct
<1>6. CASE Select
  <2>1. CASE daemon' = "walk" /\ todo' = listeners
    BY <1>6, <2>1 DEF Select, Distinct, In, Union
  <2>2. CASE daemon' = "request" /\ todo' = todo
    BY <1>6, <2>2 DEF Select, Distinct, In, Union
  <2>3. QED BY <1>6, <2>1, <2>2 DEF Select
<1>7. CASE WalkEnds
  BY <1>7 DEF WalkEnds, Distinct, In, Union
<1>8. ASSUME todo # << >>
      PROVE  /\ Distinct(Tail(todo))
             /\ \A i \in DOMAIN Tail(todo) : /\ In(Tail(todo)[i], listeners)
                                             /\ ~Same(Tail(todo)[i], Head(todo))
  <2>1. /\ Head(todo) = todo[1] /\ 1 \in DOMAIN todo
        /\ \A j \in DOMAIN Tail(todo) : j + 1 \in DOMAIN todo /\ Tail(todo)[j] = todo[j + 1]
                                        /\ j + 1 # 1
    BY <1>8, TailMoves DEF EventdTypeOK
  <2>2. \A j \in DOMAIN Tail(todo) : j \in Int
    <3>1. Tail(todo) \in Seq(Listener)
      BY <1>8, TailMoves DEF EventdTypeOK
    <3>2. DOMAIN Tail(todo) = 1 .. Len(Tail(todo))
      BY <3>1, LenProperties
    <3>3. QED BY <3>2
  <2>3. ASSUME NEW i \in DOMAIN Tail(todo), NEW j \in DOMAIN Tail(todo),
               Same(Tail(todo)[i], Tail(todo)[j])
        PROVE  i = j
    <3>1. i + 1 = j + 1
      BY <2>1, <2>3 DEF Distinct
    <3>2. QED BY <2>2, <3>1
  <2>4. QED BY <2>1, <2>3 DEF Distinct
<1>9. CASE TryListener
  <2>1. todo # << >> /\ daemon = "walk" /\ mask' = mask
    BY <1>9 DEF TryListener
  <2>2. CASE daemon' = "send" /\ UNCHANGED << listeners, todo >>
    BY <2>1, <2>2 DEF Distinct, In, Union
  <2>3. CASE daemon' = daemon /\ listeners' = listeners /\ todo' = Tail(todo)
    BY <1>8, <2>1, <2>3 DEF Distinct, In, Union
  <2>4. CASE daemon' = daemon /\ listeners' = Without(Head(todo)) /\ todo' = Tail(todo)
    <3>1. /\ Distinct(listeners')
          /\ \A l : In(l, listeners') <=> In(l, listeners) /\ ~Same(l, Head(todo))
      BY <2>4, WithoutRemoves DEF EventdTypeOK
    <3>2. Union(listeners') \subseteq Union(listeners)
      BY <3>1 DEF Union, In
    <3>3. \A i \in DOMAIN todo' : In(todo'[i], listeners')
      BY <1>8, <2>1, <2>4, <3>1
    <3>4. Distinct(todo')
      BY <1>8, <2>1, <2>4
    <3>5. QED BY <2>1, <2>4, <3>1, <3>2, <3>3, <3>4 DEF In, Distinct
  <2>5. QED BY <1>9, <2>1, <2>2, <2>3, <2>4 DEF TryListener
<1>10. CASE SendEvent
  <2>1. CASE Gone(file, "killed")
    BY <1>3, <2>1
  <2>2. CASE daemon' = "walk" /\ todo' = Tail(todo) /\ UNCHANGED << listeners, mask >>
    <3>1. todo # << >> /\ daemon = "send"
      BY <1>10 DEF SendEvent
    <3>2. QED BY <1>8, <2>2, <3>1 DEF Distinct, In, Union
  <2>3. QED BY <1>10, <2>1, <2>2 DEF SendEvent
<1>11. CASE handle_request
  <2>1. daemon = "request" /\ daemon' = "select" /\ todo' = todo /\ todo = << >>
    BY <1>11 DEF handle_request
  <2>2. CASE UNCHANGED << listeners, mask >>
    BY <2>1, <2>2 DEF Distinct, In, Union
  <2>3. CASE /\ listeners' = AfterRequest(Head(reqq))
             /\ mask' = INIT_MASK \cup Union(listeners')
    <3>1. Head(reqq) \in Listener
      BY <1>11, TailMoves DEF handle_request, EventdTypeOK
    <3>2. Distinct(listeners')
      BY <2>3, <3>1, AfterRequestHas DEF EventdTypeOK
    <3>3. QED BY <1>2, <2>1, <2>3, <3>2 DEF Distinct, Union
  <2>4. QED BY <1>11, <2>2, <2>3 DEF handle_request
<1>12. CASE EventOccurs \/ EndOfRequests \/ CloseRequests \/ ReopenRequests
  BY <1>12 DEF EventOccurs, EndOfRequests, CloseRequests, ReopenRequests, Distinct, In, Union
<1>13. CASE RequestFails \/ signal_handler
  BY <1>4, <1>13 DEF RequestFails, signal_handler
<1>14. CASE UNCHANGED vars
  BY <1>1, <1>14 DEF vars, daemonVars
<1>15. QED
  BY <1>1, <1>5, <1>6, <1>7, <1>9, <1>10, <1>11, <1>12, <1>13, <1>14, ProcessesLeaveIt
     DEF Next, run

-----------------------------------------------------------------------------
(* The processes *)

(* The daemon does not touch what is the processes' own. *)
LEMMA DaemonLeavesThem ==
    ASSUME run \/ init \/ signal_handler \/ EventOccurs
    PROVE  UNCHANGED << procVars, asked >>
  BY DEF run, init, signal_handler, EventOccurs, Select, WalkEnds, TryListener, SendEvent,
     handle_request, EndOfRequests, RequestFails, CloseRequests, ReopenRequests, cleanup, Gone

(* A step of one process is not about another. *)
LEMMA OthersLeaveIt ==
    ASSUME EventdTypeOK, NEW p \in Procs,
           \/ base_initcon(p) \/ base_setconparam(p) \/ remove_con(p)
           \/ InCall(p) \/ event_thread(p) \/ Dies(p),
           NEW q \in Procs, q # p
    PROVE  /\ pc'[q] = pc[q] /\ request'[q] = request[q] /\ cons'[q] = cons[q]
           /\ thread'[q] = thread[q] /\ asked'[q] = asked[q] /\ file'[q] = file[q]
<1> USE DEF EventdTypeOK
<1>1. pc'[q] = pc[q] /\ request'[q] = request[q]
  BY DEF base_initcon, base_setconparam, remove_con, InCall, event_thread, Dies, ProcStep, Goto,
     MakeFifo, create_event_pipe, NoEventThread, OpenRequests, WriteRequest, WriteFails,
     CloseRequest, pthread_join
<1>2. cons'[q] = cons[q] /\ thread'[q] = thread[q]
  BY DEF base_initcon, base_setconparam, remove_con, InCall, event_thread, Dies,
     MakeFifo, create_event_pipe, NoEventThread, OpenRequests, WriteRequest, WriteFails,
     CloseRequest, pthread_join
<1>3. asked'[q] = asked[q] /\ file'[q] = file[q]
  BY DEF base_initcon, base_setconparam, remove_con, InCall, event_thread, Dies,
     MakeFifo, create_event_pipe, NoEventThread, OpenRequests, WriteRequest, WriteFails,
     CloseRequest, pthread_join, ReaderLeaves, Unlink
<1>4. QED BY <1>1, <1>2, <1>3

(* What a process asks for, for each of its own steps. *)
LEMMA OwnStepKeeps ==
    ASSUME EventdTypeOK, NEW p \in Procs, ProcInvOf(p),
           \/ base_initcon(p) \/ base_setconparam(p) \/ remove_con(p)
           \/ InCall(p) \/ event_thread(p) \/ Dies(p)
    PROVE  ProcInvOf(p)'
<1> USE DEF EventdTypeOK
<1>1. CASE base_initcon(p)
  BY <1>1 DEF base_initcon, ProcStep, ProcInvOf, Calling
<1>2. CASE base_setconparam(p)
  <2>1. PICK u \in cons[p] \cup ({last[p] + 1} \cap 1 .. MaxId[p]), k \in Masks :
          /\ cons' = [cons EXCEPT ![p] = @ \cup {u}]
          /\ IF thread[p] = "none" /\ k = {}
             THEN UNCHANGED << pc, request >>
             ELSE /\ Goto(p, IF thread[p] = "none" THEN "mkfifo" ELSE "open")
                  /\ request' = [request EXCEPT ![p] = Request(p, u, k)]
    BY <1>2 DEF base_setconparam
  <2>2. Request(p, u, k) \in Listener
    BY EventdAssumption DEF Request, Listener, Ids
  <2>3. pc[p] = "user" /\ UNCHANGED << thread, asked >>
    BY <1>2 DEF base_setconparam, ProcStep
  <2>4. cons'[p] = cons[p] \cup {u}
    BY <2>1
  <2>5. CASE UNCHANGED << pc, request >>
    BY <2>3, <2>4, <2>5 DEF ProcInvOf, Calling
  <2>6. CASE /\ pc'[p] = IF thread[p] = "none" THEN "mkfifo" ELSE "open"
             /\ request'[p] = Request(p, u, k)
    <3>1. /\ Request(p, u, k).pid = p /\ Request(p, u, k).uid = u
      BY DEF Request
    <3>2. QED BY <2>2, <2>3, <2>4, <2>6, <3>1 DEF ProcInvOf, Calling
  <2>7. QED BY <2>1, <2>5, <2>6 DEF Goto
<1>3. CASE remove_con(p)
  <2>1. PICK u \in cons[p] :
          /\ cons' = [cons EXCEPT ![p] = @ \ {u}]
          /\ IF cons[p] = {u}
             THEN /\ Goto(p, "open")
                  /\ request' = [request EXCEPT ![p] =
                        Request(IF u \in handled[p] THEN p ELSE NULL, u, {})]
             ELSE UNCHANGED << pc, request >>
          /\ asked' = [asked EXCEPT ![p][u] = {}]
    BY <1>3 DEF remove_con
  <2> DEFINE r == Request(IF u \in handled[p] THEN p ELSE NULL, u, {})
  <2>2. r \in Listener /\ r.pid \in {p, NULL} /\ r.mask = {}
    BY DEF Request, Listener
  <2>3. pc[p] = "user" /\ UNCHANGED thread
    BY <1>3 DEF remove_con, ProcStep
  <2> HIDE DEF r
  <2>4. cons'[p] = cons[p] \ {u} /\ \A v \in Ids : asked'[p][v] = IF v = u THEN {} ELSE asked[p][v]
    BY <2>1
  <2>5. CASE UNCHANGED << pc, request >>
    BY <2>3, <2>4, <2>5 DEF ProcInvOf, Calling
  <2>6. CASE pc'[p] = "open" /\ request'[p] = r
    BY <2>2, <2>3, <2>4, <2>6 DEF ProcInvOf, Calling
  <2>7. QED BY <2>1, <2>5, <2>6 DEF Goto, r
<1>4. CASE MakeFifo(p) \/ OpenRequests(p) \/ WriteFails(p)
  BY <1>4 DEF MakeFifo, OpenRequests, WriteFails, ProcStep, Goto, ProcInvOf, Calling
<1>5. CASE create_event_pipe(p) \/ NoEventThread(p)
  BY <1>5 DEF create_event_pipe, NoEventThread, ProcStep, Goto, ProcInvOf, Calling
<1>6. CASE WriteRequest(p)
  <2>1. pc[p] = "write" /\ pc'[p] = "close" /\ UNCHANGED << cons, thread >>
    BY <1>6 DEF WriteRequest, ProcStep, Goto
  <2>2. request[p] \in Listener /\ (request[p].mask # {} => request[p].uid \in cons[p])
    BY <2>1 DEF ProcInvOf, Calling
  <2>3. \A u \in Ids : asked'[p][u] = IF u = request[p].uid THEN request[p].mask ELSE asked[p][u]
    BY <1>6 DEF WriteRequest
  <2>4. QED BY <2>1, <2>2, <2>3 DEF ProcInvOf, Calling
<1>7. CASE CloseRequest(p)
  BY <1>7 DEF CloseRequest, ProcStep, Goto, ProcInvOf, Calling
<1>8. CASE pthread_join(p)
  BY <1>8 DEF pthread_join, ProcStep, Goto, ProcInvOf, Calling
<1>9. CASE event_thread(p)
  BY <1>9 DEF event_thread, ProcInvOf, Calling
<1>10. CASE Dies(p)
  BY <1>10 DEF Dies, Goto, ProcInvOf, Calling
<1>11. QED
  BY <1>1, <1>2, <1>3, <1>4, <1>5, <1>6, <1>7, <1>8, <1>9, <1>10 DEF InCall

(* The processes, for every step. *)
LEMMA ProcInvariant ==
    ASSUME EventdTypeOK, ProcInv, [Next]_vars
    PROVE  ProcInv'
<1>1. CASE UNCHANGED << procVars, asked >>
  BY <1>1 DEF ProcInv, ProcInvOf, procVars
<1>2. ASSUME NEW p \in Procs,
             \/ base_initcon(p) \/ base_setconparam(p) \/ remove_con(p)
             \/ InCall(p) \/ event_thread(p) \/ Dies(p),
             NEW q \in Procs
      PROVE  ProcInvOf(q)'
  <2>1. CASE q = p
    BY <1>2, <2>1, OwnStepKeeps DEF ProcInv
  <2>2. CASE q # p
    BY <1>2, <2>2, OthersLeaveIt DEF ProcInv, ProcInvOf
  <2>3. QED BY <2>1, <2>2
<1>3. CASE UNCHANGED vars
  BY <1>1, <1>3 DEF vars
<1>4. QED BY <1>1, <1>2, <1>3, DaemonLeavesThem DEF Next, ProcInv

-----------------------------------------------------------------------------
(* Who has joined is listed *)

(* What does not disturb the listing of a connection. *)
LEMMA PairKept ==
    ASSUME NEW p \in Procs, NEW u \in Ids, JoinedOf(p, u),
           asked'[p][u] = asked[p][u], reqq' = reqq,
           HasReader(p)' =>
               /\ HasReader(p)
               /\ In(Request(p, u, asked[p][u]), listeners) =>
                      In(Request(p, u, asked[p][u]), listeners')
    PROVE  JoinedOf(p, u)'
<1>1. Pending(p, u)' = Pending(p, u)
  BY DEF Pending, Same, Request
<1>2. QED BY <1>1 DEF JoinedOf, Request, In

(* And of all of them. *)
LEMMA QuietKeeps ==
    ASSUME EventdTypeOK, JoinedInv, failures' = {} => failures = {} /\ reqq' = reqq,
           \A p \in Procs : \A u \in Ids :
               asked'[p][u] # {} =>
                   /\ asked'[p][u] = asked[p][u]
                   /\ HasReader(p)' =>
                          /\ HasReader(p)
                          /\ In(Request(p, u, asked[p][u]), listeners) =>
                                 In(Request(p, u, asked[p][u]), listeners')
    PROVE  JoinedInv'
<1>1. ASSUME failures' = {}, NEW p \in Procs, NEW u \in Ids, asked'[p][u] # {}
      PROVE  JoinedOf(p, u)'
  <2>1. JoinedOf(p, u)
    BY <1>1 DEF JoinedInv
  <2>2. QED BY <1>1, <2>1, PairKept
<1>2. QED BY <1>1 DEF JoinedInv

(* A request that is read changes the listing of its connection only, to what *)
(* the connection last asked for if it was the last on its way.               *)
LEMMA RequestListed ==
    ASSUME EventdInv, handle_request, NEW p \in Procs, NEW u \in Ids,
           asked[p][u] # {}, JoinedOf(p, u)
    PROVE  JoinedOf(p, u)'
<1> DEFINE r == Head(reqq)
<1>1. /\ reqq # << >> /\ reqq' = Tail(reqq) /\ asked' = asked
      /\ IF Alive(r.pid) THEN listeners' = AfterRequest(r) ELSE listeners' = listeners
      /\ HasReader(p)' => HasReader(p)
  BY DEF handle_request, Unlink, HasReader
<1>2. listeners \in Seq(Listener) /\ Distinct(listeners) /\ reqq \in Seq(Listener)
  BY DEF EventdInv, EventdTypeOK, ListInv
<1>3. r = reqq[1] /\ r \in Listener /\ 1 \in DOMAIN reqq
  BY <1>1, <1>2, TailMoves
<1>4. /\ \A j \in DOMAIN reqq' : j + 1 \in DOMAIN reqq /\ reqq'[j] = reqq[j + 1]
      /\ \A j \in DOMAIN reqq : j # 1 => j - 1 \in DOMAIN reqq' /\ reqq'[j - 1] = reqq[j]
      /\ \A j \in DOMAIN reqq : j \in Nat /\ j >= 1
      /\ \A j \in DOMAIN reqq' : j \in Nat /\ j >= 1
  <2>1. reqq' \in Seq(Listener)
    BY <1>1, <1>2, TailMoves
  <2>2. DOMAIN reqq = 1 .. Len(reqq) /\ DOMAIN reqq' = 1 .. Len(reqq')
    BY <1>2, <2>1, LenProperties
  <2>3. QED BY <1>1, <1>2, <2>2, TailMoves
<1> HIDE DEF r
<1>5. Pending(p, u)' = { i \in DOMAIN reqq' : Same(reqq'[i], Request(p, u, {})) }
  BY DEF Pending, Same, Request
<1>6. /\ \A i \in Pending(p, u)' : i + 1 \in Pending(p, u)
      /\ \A j \in Pending(p, u) : j # 1 => j - 1 \in Pending(p, u)'
  BY <1>4, <1>5 DEF Pending, Same
<1>7. ASSUME NEW i \in Pending(p, u)', \A j \in Pending(p, u)' : j <= i
      PROVE  reqq'[i] .mask = asked'[p][u]
  <2>1. i + 1 \in Pending(p, u) /\ i \in DOMAIN reqq'
    BY <1>5, <1>6
  <2>2. ASSUME NEW j \in Pending(p, u) PROVE j <= i + 1
    <3>1. j \in Nat /\ i \in Nat
      BY <1>4, <1>5 DEF Pending
    <3>2. CASE j = 1
      BY <3>1, <3>2
    <3>3. CASE j # 1
      <4>1. j - 1 <= i
        BY <1>6, <1>7, <3>3
      <4>2. QED BY <3>1, <4>1
    <3>4. QED BY <3>2, <3>3
  <2>3. reqq[i + 1] .mask = asked[p][u]
    BY <2>1, <2>2 DEF JoinedOf
  <2>4. QED BY <1>1, <1>4, <2>1, <2>3
<1>8. ASSUME Pending(p, u)' = {}, HasReader(p)'
      PROVE  In(Request(p, u, asked[p][u]), listeners')
  <2>1. \A j \in Pending(p, u) : j = 1
    BY <1>6, <1>8
  <2>2. CASE 1 \in Pending(p, u)
    <3>1. r.mask = asked[p][u]
      BY <1>3, <2>1, <2>2 DEF JoinedOf
    <3>2. r.pid = p /\ r.uid = u
      BY <1>3, <2>2 DEF Pending, Same, Request
    <3>3. r = Request(p, u, asked[p][u])
      BY <1>3, <3>1, <3>2 DEF Listener, Request
    <3>4. Alive(p)
      BY DEF Alive, EventdInv, ProcInv, ProcInvOf
    <3>5. In(r, AfterRequest(r))
      BY <1>2, <1>3, <3>1, AfterRequestHas
    <3>6. QED BY <1>1, <3>2, <3>3, <3>4, <3>5 DEF r
  <2>3. CASE 1 \notin Pending(p, u)
    <3>1. Pending(p, u) = {}
      BY <2>1, <2>3
    <3>2. In(Request(p, u, asked[p][u]), listeners)
      BY <1>1, <1>8, <3>1 DEF JoinedOf
    <3>3. ~Same(Request(p, u, asked[p][u]), r)
      BY <1>3, <2>3 DEF Pending, Same, Request
    <3>4. In(Request(p, u, asked[p][u]), AfterRequest(r))
      BY <1>2, <1>3, <3>2, <3>3, AfterRequestHas
    <3>5. QED BY <1>1, <3>2, <3>4 DEF r
  <2>4. QED BY <2>2, <2>3
<1>9. QED BY <1>1, <1>7, <1>8 DEF JoinedOf, Request, In

(* A ghost takes nobody with it whose fifo is there. *)
LEMMA GhostKeeps ==
    ASSUME EventdInv, TryListener
    PROVE  JoinedInv'
<1> DEFINE q == Head(todo)
<1>1. /\ asked' = asked /\ reqq' = reqq /\ failures' = failures
      /\ \/ listeners' = listeners /\ file' = file
         \/ listeners' = Without(q) /\ file' = Unlink({q.pid})
  BY DEF TryListener
<1>2. listeners \in Seq(Listener) /\ Distinct(listeners) /\ EventdTypeOK /\ JoinedInv
  BY DEF EventdInv, EventdTypeOK, ListInv
<1> HIDE DEF q
<1>3. ASSUME NEW p \in Procs, NEW u \in Ids, HasReader(p)'
      PROVE  /\ HasReader(p)
             /\ In(Request(p, u, asked[p][u]), listeners) =>
                    In(Request(p, u, asked[p][u]), listeners')
  <2>1. CASE listeners' = listeners /\ file' = file
    BY <1>3, <2>1 DEF HasReader
  <2>2. CASE listeners' = Without(q) /\ file' = Unlink({q.pid})
    <3>1. p # q.pid /\ HasReader(p)
      BY <1>3, <2>2 DEF Unlink, HasReader
    <3>2. ~Same(Request(p, u, asked[p][u]), q)
      BY <3>1 DEF Same, Request
    <3>3. QED BY <1>2, <2>2, <3>1, <3>2, WithoutRemoves
  <2>3. QED BY <1>1, <2>1, <2>2
<1>4. QED BY <1>1, <1>2, <1>3, QuietKeeps

(* The listing, for every step of the daemon. *)
LEMMA DaemonKeepsJoined ==
    ASSUME EventdInv, run \/ init \/ signal_handler \/ EventOccurs
    PROVE  JoinedInv'
<1>1. ASSUME NEW files, NEW how, Gone(files, how) PROVE JoinedInv'
  BY <1>1 DEF Gone, JoinedInv
<1>2. CASE handle_request
  <2>1. failures' = failures /\ asked' = asked
    BY <1>2 DEF handle_request
  <2>2. QED BY <1>2, <2>1, RequestListed DEF JoinedInv, EventdInv
<1>3. CASE SendEvent
  <2>1. CASE Gone(file, "killed")
    BY <1>1, <2>1
  <2>2. CASE UNCHANGED << listeners, reqq, file, asked, failures >>
    BY <2>2, QuietKeeps DEF EventdInv, HasReader
  <2>3. QED BY <1>3, <2>1, <2>2 DEF SendEvent
<1>4. CASE CloseRequests
  <2>1. UNCHANGED << listeners, file, asked >>
    BY <1>4 DEF CloseRequests
  <2>2. failures' = {} => failures = {} /\ reqq' = reqq
    BY <1>4 DEF CloseRequests, Drop
  <2>3. QED BY <2>1, <2>2, QuietKeeps DEF EventdInv, HasReader
<1>5. CASE init \/ EventOccurs \/ Select \/ WalkEnds \/ EndOfRequests \/ ReopenRequests
  <2>1. UNCHANGED << listeners, reqq, file, asked, failures >>
    BY <1>5 DEF init, EventOccurs, Select, WalkEnds, EndOfRequests, ReopenRequests
  <2>2. QED BY <2>1, QuietKeeps DEF EventdInv, HasReader
<1>6. CASE RequestFails \/ signal_handler
  BY <1>1, <1>6 DEF RequestFails, signal_handler, cleanup
<1>7. QED
  BY <1>2, <1>3, <1>4, <1>5, <1>6, GhostKeeps DEF run

(* A request that is written is the last of its connection, and of no other. *)
LEMMA WriteListed ==
    ASSUME EventdInv, NEW p \in Procs, WriteRequest(p)
    PROVE  JoinedInv'
<1> DEFINE r == request[p]
<1>1. /\ reqq' = Append(reqq, r) /\ failures' = failures
      /\ \A q \in Procs : HasReader(q)' = HasReader(q)
      /\ listeners' = listeners /\ pc[p] = "write"
      /\ asked' = [asked EXCEPT ![p][r.uid] = r.mask]
  BY DEF WriteRequest, ProcStep, HasReader
<1>2. reqq \in Seq(Listener) /\ asked \in [Procs -> [Ids -> SUBSET Kinds]]
  BY DEF EventdInv, EventdTypeOK
<1>3. r \in Listener /\ r.pid \in {p, NULL} /\ (r.mask # {} => r.pid = p)
  BY <1>1 DEF EventdInv, ProcInv, ProcInvOf, Calling
<1> HIDE DEF r
<1>4. /\ \A i \in DOMAIN reqq : i \in DOMAIN reqq' /\ reqq'[i] = reqq[i]
      /\ \A i \in DOMAIN reqq' : i <= Len(reqq) + 1 /\ (i # Len(reqq) + 1 => i \in DOMAIN reqq)
      /\ Len(reqq) + 1 \in DOMAIN reqq' /\ reqq'[Len(reqq) + 1] = r
      /\ \A i \in DOMAIN reqq' : i \in Nat
      /\ Len(reqq) + 1 \notin DOMAIN reqq
  <2>1. /\ reqq' \in Seq(Listener) /\ Len(reqq') = Len(reqq) + 1
        /\ \A i \in 1 .. Len(reqq) : reqq'[i] = reqq[i]
        /\ reqq'[Len(reqq) + 1] = r
    BY <1>1, <1>2, <1>3, AppendProperties
  <2>2. Len(reqq) \in Nat /\ DOMAIN reqq = 1 .. Len(reqq) /\ DOMAIN reqq' = 1 .. Len(reqq')
    BY <1>2, <2>1, LenProperties
  <2>3. QED BY <2>1, <2>2
<1>5. \A q \in Procs : \A u \in Ids :
        asked'[q][u] = IF q = p /\ u = r.uid THEN r.mask ELSE asked[q][u]
  BY <1>1, <1>2
<1>6. ASSUME failures' = {}, NEW q \in Procs, NEW u \in Ids, asked'[q][u] # {}
      PROVE  JoinedOf(q, u)'
  <2> DEFINE after == { i \in DOMAIN reqq' : Same(reqq'[i], Request(q, u, {})) }
  <2>1. Pending(q, u)' = after
    BY DEF Pending, Same, Request
  <2>2. CASE q = p /\ u = r.uid
    <3>1. r.mask # {} /\ asked'[q][u] = r.mask /\ r.pid = p
      BY <1>3, <1>5, <1>6, <2>2
    <3>2. Len(reqq) + 1 \in after
      BY <1>4, <2>2, <3>1 DEF Same, Request
    <3>3. \A i \in after : (\A j \in after : j <= i) => i = Len(reqq) + 1
      <4>1. ASSUME NEW i \in after, \A j \in after : j <= i PROVE i = Len(reqq) + 1
        <5>1. Len(reqq) + 1 <= i /\ i <= Len(reqq) + 1 /\ i \in Nat /\ Len(reqq) + 1 \in Nat
          BY <1>4, <3>2, <4>1
        <5>2. QED BY <5>1
      <4>2. QED BY <4>1
    <3> HIDE DEF after
    <3>4. QED BY <1>4, <2>1, <3>1, <3>2, <3>3 DEF JoinedOf
  <2>3. CASE ~(q = p /\ u = r.uid)
    <3>1. asked'[q][u] = asked[q][u] /\ JoinedOf(q, u)
      BY <1>1, <1>5, <1>6, <2>3 DEF EventdInv, JoinedInv
    <3>2. ~Same(r, Request(q, u, {}))
      <4>1. NULL \notin Procs
        BY EventdAssumption
      <4>2. QED BY <1>3, <2>3, <4>1 DEF Same, Request
    <3>3. after = Pending(q, u)
      BY <1>4, <3>2 DEF Pending
    <3>4. \A i \in Pending(q, u) : reqq'[i] = reqq[i]
      BY <1>4 DEF Pending
    <3>5. QED BY <1>1, <2>1, <3>1, <3>3, <3>4 DEF JoinedOf, In, Request
  <2>4. QED BY <2>2, <2>3
<1>7. QED BY <1>6 DEF JoinedInv

(* The listing, for every step of a process. *)
LEMMA ProcessKeepsJoined ==
    ASSUME EventdInv, NEW p \in Procs,
           \/ base_initcon(p) \/ base_setconparam(p) \/ remove_con(p)
           \/ InCall(p) \/ event_thread(p) \/ Dies(p)
    PROVE  JoinedInv'
<1>1. /\ EventdTypeOK /\ JoinedInv /\ ProcInvOf(p)
      /\ file \in [Procs -> {"none", "read", "unread", "leaked"}]
      /\ asked \in [Procs -> [Ids -> SUBSET Kinds]]
  BY DEF EventdInv, EventdTypeOK, ProcInv
<1>2. listeners' = listeners
  BY ProcessesLeaveIt
<1>3. CASE WriteRequest(p)
  BY <1>3, WriteListed
<1>4. ASSUME failures' = {} => failures = {} /\ reqq' = reqq,
             \A u \in Ids : asked'[p][u] # {} => /\ asked'[p][u] = asked[p][u]
                                                 /\ HasReader(p)' => HasReader(p)
      PROVE  JoinedInv'
  <2>1. ASSUME NEW q \in Procs, NEW u \in Ids, asked'[q][u] # {}
        PROVE  /\ asked'[q][u] = asked[q][u]
               /\ HasReader(q)' => HasReader(q)
    <3>1. CASE q = p
      BY <1>4, <2>1, <3>1
    <3>2. CASE q # p
      BY <1>1, <3>2, OthersLeaveIt DEF HasReader
    <3>3. QED BY <3>1, <3>2
  <2>2. QED BY <1>1, <1>2, <1>4, <2>1, QuietKeeps
<1>5. CASE \/ base_initcon(p) \/ base_setconparam(p) \/ MakeFifo(p) \/ OpenRequests(p)
           \/ WriteFails(p) \/ pthread_join(p) \/ event_thread(p)
  <2>1. UNCHANGED << reqq, failures, asked >>
    BY <1>5 DEF base_initcon, base_setconparam, MakeFifo, OpenRequests, WriteFails,
         pthread_join, event_thread
  <2>2. HasReader(p)' => HasReader(p)
    BY <1>1, <1>5 DEF base_initcon, base_setconparam, MakeFifo, OpenRequests, WriteFails,
         pthread_join, event_thread, ReaderLeaves, Unlink, HasReader
  <2>3. QED BY <1>4, <2>1, <2>2
<1>6. CASE remove_con(p)
  <2>1. PICK u \in cons[p] : asked' = [asked EXCEPT ![p][u] = {}]
    BY <1>6 DEF remove_con
  <2>2. UNCHANGED << reqq, failures, file >> /\ HasReader(p)' = HasReader(p)
    BY <1>6 DEF remove_con, HasReader
  <2>3. \A v \in Ids : asked'[p][v] # {} => asked'[p][v] = asked[p][v]
    BY <1>1, <2>1
  <2>4. QED BY <1>4, <2>2, <2>3
<1>7. CASE create_event_pipe(p) \/ NoEventThread(p)
  <2>1. \A u \in Ids : asked[p][u] = {}
    BY <1>1, <1>7 DEF create_event_pipe, NoEventThread, ProcStep, ProcInvOf
  <2>2. UNCHANGED << reqq, failures, asked >>
    BY <1>7 DEF create_event_pipe, NoEventThread
  <2>3. QED BY <1>4, <2>1, <2>2
<1>8. CASE CloseRequest(p)
  <2>1. UNCHANGED << asked, file >> /\ HasReader(p)' = HasReader(p)
    BY <1>8 DEF CloseRequest, HasReader
  <2>2. failures' = {} => failures = {} /\ reqq' = reqq
    BY <1>8 DEF CloseRequest, Drop
  <2>3. QED BY <1>4, <2>1, <2>2
<1>9. CASE Dies(p)
  <2>1. failures' = {} => failures = {} /\ reqq' = reqq
    BY <1>9 DEF Dies, Drop
  <2>2. \A u \in Ids : asked'[p][u] = {}
    BY <1>1, <1>9 DEF Dies
  <2>3. QED BY <1>4, <2>1, <2>2
<1>10. QED
  BY <1>3, <1>5, <1>6, <1>7, <1>8, <1>9 DEF InCall

-----------------------------------------------------------------------------
(* The theorems *)

(* The processes have asked for nothing before the daemon has ever run. *)
LEMMA InitHolds == Init => EventdInv
<1> SUFFICES ASSUME Init PROVE EventdInv
  OBVIOUS
<1>1. << >> \in Seq(Listener)
  BY EmptySeq
<1>2. EventdTypeOK
  <2>1. /\ daemon = "dead" /\ starts \in 0 .. MaxStarts
        /\ listeners \in Seq(Listener) /\ todo \in Seq(Listener) /\ reqq \in Seq(Listener)
        /\ mask \in SUBSET Kinds /\ event = NULL /\ ev = NULL
        /\ wfd = FALSE /\ ready = FALSE /\ hup = FALSE
    BY <1>1, EventdAssumption DEF Init
  <2>2. /\ pc \in [Procs -> {"user"}] /\ request \in [Procs -> {NULL}]
        /\ last \in [Procs -> Nat] /\ cons \in [Procs -> SUBSET Ids]
        /\ handled \in [Procs -> SUBSET Ids] /\ \A p \in Procs : handled[p] \subseteq cons[p]
        /\ thread \in [Procs -> {"none"}] /\ file \in [Procs -> {"none"}]
    BY DEF Init
  <2>3. asked \in [Procs -> [Ids -> SUBSET Kinds]] /\ failures = {}
    BY DEF Init
  <2>4. QED BY <2>1, <2>2, <2>3 DEF EventdTypeOK
<1>3. ListInv
  BY DEF Init, ListInv, Distinct
<1>4. \A p \in Procs : \A u \in Ids : asked[p][u] = {}
  BY DEF Init
<1>5. ProcInv
  BY <1>4 DEF Init, ProcInv, ProcInvOf, Calling
<1>6. QED BY <1>2, <1>3, <1>4, <1>5 DEF EventdInv, JoinedInv

(* Every step keeps the whole. *)
LEMMA StepHolds == EventdInv /\ [Next]_vars => EventdInv'
<1> SUFFICES ASSUME EventdInv, [Next]_vars PROVE EventdInv'
  OBVIOUS
<1>1. EventdTypeOK' /\ ListInv' /\ ProcInv'
  BY TypesInvariant, ListInvariant, ProcInvariant DEF EventdInv
<1>2. JoinedInv'
  <2>1. CASE UNCHANGED vars
    <3>1. UNCHANGED << listeners, reqq, file, asked, failures >>
      BY <2>1 DEF vars, daemonVars
    <3>2. QED BY <3>1, QuietKeeps DEF EventdInv, HasReader
  <2>2. QED BY <2>1, DaemonKeepsJoined, ProcessKeepsJoined DEF Next
<1>3. QED BY <1>1, <1>2 DEF EventdInv

(* The daemon's list, its walk and its mask, what the processes are about to  *)
(* ask for and what is on its way are all consistent, whatever the daemon and *)
(* the processes do between two system calls.                                 *)
THEOREM EventdInvariant == Spec => []EventdInv
  BY InitHolds, StepHolds, PTL DEF Spec

(* While eventd runs, the device is asked for every kind of event that any    *)
(* listener wants, though handle_request alone computes the mask and          *)
(* handle_event removes listeners without it.                                 *)
THEOREM MaskAlwaysCovers == Spec => []MaskCoversListeners
<1>1. EventdInv => MaskCoversListeners
  BY DEF EventdInv, ListInv, MaskCoversListeners
<1>2. QED BY <1>1, EventdInvariant, PTL

(* handle_event's walk, which takes the next listener before it removes one,  *)
(* never goes on to a listener that is no longer in the list, and the list    *)
(* has each connection once.                                                  *)
THEOREM WalkAlwaysOnListeners == Spec => []WalkOnListeners
<1>1. EventdInv => WalkOnListeners
  BY DEF EventdInv, ListInv, WalkOnListeners, Distinct, In
<1>2. QED BY <1>1, EventdInvariant, PTL

(* A connection that has joined is a listener with the mask it asked for      *)
(* last, as soon as none of its requests is on its way: requests of several   *)
(* processes, ghosts that are removed and processes that leave do not disturb *)
(* it while its fifo is there and the daemon has lost nothing.                *)
THEOREM JoinedAlwaysListed == Spec => []JoinedIsListed
<1>1. ASSUME EventdInv PROVE JoinedIsListed
  <2>1. ASSUME failures = {}, NEW p \in Procs, NEW u \in cons[p],
               HasReader(p), asked[p][u] # {},
               \A i \in DOMAIN reqq : ~Same(reqq[i], Request(p, u, {}))
        PROVE  \E i \in DOMAIN listeners : listeners[i] = Request(p, u, asked[p][u])
    <3>1. u \in Ids
      BY <1>1 DEF EventdInv, EventdTypeOK
    <3>2. JoinedOf(p, u)
      BY <1>1, <2>1, <3>1 DEF EventdInv, JoinedInv
    <3>3. Pending(p, u) = {}
      BY <2>1 DEF Pending
    <3>4. QED BY <2>1, <3>2, <3>3 DEF JoinedOf, In
  <2>2. QED BY <2>1 DEF JoinedIsListed
<1>2. QED BY <1>1, EventdInvariant, PTL

-----------------------------------------------------------------------------
(* The CHAOS driver: the inductive invariant *)

Bits == {"DD", "SA", "ADC", "PM", "AVG", "CONTINUOUS", "SINGLEPASS", "TRIGGERED"}
Operations == {"unknown", "init", "deinit", "acquire", "setenv", "listenv", "settime"}
DriverModes == {"UNKNOWN", "DD", "SA", "PM", "ADC", "ADC_CW", "ADC_SP"}

Drivers == [operation : Operations, mode : DriverModes, want_trigger : BOOLEAN,
            sized : BOOLEAN, want : SUBSET {"MT", "ST"}]
Connections == [allocated : BOOLEAN, mode : DriverModes,
                fd : Devices \cup {None}, listening : BOOLEAN]
CommandsOf == [kind : {None, "default", "acquire", "time"},
               loops : Int, asked : Int, phase : {"run", "wait", "woken"},
               timed : BOOLEAN, nodata : BOOLEAN]

(* The endings of an acquisition that leave its connection open. *)
Excuses == {"expired", "killed", "nodata"}

Types ==
    /\ drv \in Drivers /\ con \in Connections /\ cmd \in CommandsOf
    /\ env \in {"none", "held", "lost"} /\ unit \in {"down", "up", "stuck"}
    /\ ACQUISITION \in Nat

(* An open connection belongs to the mode of the driver. *)
Agrees(d, c) ==
    /\ c.mode \in {d.mode, "UNKNOWN"}
    /\ c.fd # None => c.fd = get_devicename(c.mode) /\ c.mode = d.mode

(* Where an acquisition can be. *)
AcquiringUnitIsUp ==
    /\ cmd.phase # "run" => cmd.kind = "acquire"
    /\ unit # "up" => cmd.kind # "acquire"

(* What was counted and what is to come are what was asked for. *)
LoopsAddUp ==
    cmd.kind = "acquire" =>
        /\ left # "ended"
        /\ cmd.asked \in Loops
        /\ IF cmd.asked >= 0
           THEN cmd.loops >= 0 /\ ACQUISITION = cmd.asked - cmd.loops
           ELSE cmd.loops = cmd.asked

ChaosInv ==
    /\ Types
    /\ Agrees(drv, con)
    /\ EndDisconnects
    /\ AcquiringUnitIsUp
    /\ LoopsAddUp

-----------------------------------------------------------------------------
(* What the operators of the driver return. *)

(* iop_ACQUIRE leaves a driver with a mode that DriverMode knows. *)
LEMMA AcquireTypes ==
    ASSUME NEW d \in Drivers, NEW bits \in SUBSET Bits
    PROVE  iop_ACQUIRE(d, bits) \in Drivers
<1>1. DriverMode(bits, d.mode) \in DriverModes
  BY DEF DriverMode, DriverModes, Drivers
<1>2. /\ d.operation \in Operations /\ d.sized \in BOOLEAN
      /\ d.want \in SUBSET {"MT", "ST"}
  BY DEF Drivers
<1> DEFINE known == bits \cap {"DD", "SA", "PM", "ADC"} # {}
<1>3. /\ (IF known THEN "acquire" ELSE d.operation) \in Operations
      /\ (d.sized \/ known) \in BOOLEAN /\ ("TRIGGERED" \in bits) \in BOOLEAN
  BY <1>2 DEF Operations
<1> QED
  BY <1>1, <1>2, <1>3 DEF Drivers, iop_ACQUIRE

(* iop_STOP changes the operation, not the mode. *)
LEMMA StopTypes ==
    ASSUME NEW d \in Drivers
    PROVE  iop_STOP(d) \in Drivers /\ iop_STOP(d).mode = d.mode
  BY DEF iop_STOP, Drivers, Operations

(* cspi_disconnect leaves a connection without device and without mode. *)
LEMMA DisconnectTypes ==
    ASSUME NEW c \in Connections
    PROVE  /\ cspi_disconnect(c) \in Connections
           /\ cspi_disconnect(c).fd = None /\ cspi_disconnect(c).mode = "UNKNOWN"
  BY DEF cspi_disconnect, Connections, DriverModes

(* Connect leaves a closed connection closed, or opens the device of the    *)
(* mode it sets; it succeeds only with the device open.                     *)
LEMMA ConnectResult ==
    ASSUME NEW d \in Drivers, NEW c \in Connections, c.fd = None,
           NEW o \in Connect(d, c)
    PROVE  /\ o[1] \in Connections
           /\ Agrees(d, o[1])
           /\ ~o[2] => o[1].fd = None
<1> DEFINE set == [c EXCEPT !.mode = d.mode, !.listening = @ \/ d.want_trigger]
           open == [set EXCEPT !.fd = get_devicename(d.mode)]
<1>1. o = << set, FALSE >> \/ o = << open, TRUE >>
  BY DEF Connect
<1>2. set \in Connections /\ set.fd = None /\ set.mode = d.mode
  BY DEF Connections, Drivers
<1>3. get_devicename(d.mode) \in Devices
  BY DEF get_devicename, Devices
<1>4. /\ open \in Connections /\ open.mode = d.mode
      /\ open.fd = get_devicename(d.mode)
  BY <1>2, <1>3 DEF Connections
<1>5. CASE o = << set, FALSE >>
  BY <1>2, <1>5 DEF Agrees
<1>6. CASE o = << open, TRUE >>
  BY <1>4, <1>6 DEF Agrees
<1> QED
  BY <1>1, <1>5, <1>6

(* A command begins in its first phase. *)
LEMMA CommandTypes ==
    ASSUME NEW kind \in {None, "default", "acquire", "time"}
    PROVE  /\ Command(kind) \in CommandsOf
           /\ Command(kind).kind = kind /\ Command(kind).phase = "run"
  BY DEF Command, CommandsOf

-----------------------------------------------------------------------------
(* Before the unit is up nothing is connected and no command runs. *)
LEMMA InitChaosInv == ChaosInit => ChaosInv
<1> SUFFICES ASSUME ChaosInit PROVE ChaosInv
  OBVIOUS
<1>1. Types
  BY CommandTypes DEF ChaosInit, Types, LiberaBrillianceCSPIDriver, NoCon, Drivers,
     Connections, Operations, DriverModes
<1>2. con.fd = None /\ con.mode = "UNKNOWN" /\ cmd.kind = None /\ cmd.phase = "run"
  BY CommandTypes DEF ChaosInit, NoCon
<1> QED
  BY <1>1, <1>2 DEF ChaosInv, Agrees, EndDisconnects, AcquiringUnitIsUp, LoopsAddUp, None

(* A step after which no acquisition runs keeps the invariant when it       *)
(* leaves the connection closed, or its past excuses that it is open.       *)
LEMMA AfterCommand ==
    ASSUME NEW kind \in {None, "default", "time"}, cmd' = Command(kind),
           drv' \in Drivers, con' \in Connections, Agrees(drv', con'),
           env' \in {"none", "held", "lost"}, unit' \in {"down", "up", "stuck"},
           ACQUISITION' \in Nat,
           con'.fd # None => left' \in Excuses
    PROVE  ChaosInv'
<1>1. cmd' \in CommandsOf /\ cmd'.kind # "acquire" /\ cmd'.phase = "run"
  BY CommandTypes DEF None
<1>2. Types'
  BY <1>1 DEF Types
<1>3. EndDisconnects' /\ AcquiringUnitIsUp' /\ LoopsAddUp'
  BY <1>1 DEF EndDisconnects, AcquiringUnitIsUp, LoopsAddUp, Excuses
<1> QED
  BY <1>2, <1>3 DEF ChaosInv

(* A driver that only changes its operation, or the bits it wants, still    *)
(* agrees with its connection.                                              *)
LEMMA OperationTypes ==
    ASSUME NEW d \in Drivers, NEW halves \in SUBSET {"MT", "ST"}
    PROVE  /\ iop_GETENV(d) \in Drivers /\ iop_GETENV(d).mode = d.mode
           /\ iop_SETENV(d) \in Drivers /\ iop_SETENV(d).mode = d.mode
           /\ iop_SETTIME(d, halves) \in Drivers /\ iop_SETTIME(d, halves).mode = d.mode
<1>1. d.want \cup halves \in SUBSET {"MT", "ST"}
  BY DEF Drivers
<1> QED
  BY <1>1 DEF iop_GETENV, iop_SETENV, iop_SETTIME, assign_time, Drivers, Operations

(* A killed acquisition, or what was before it, excuses an open connection. *)
LEMMA KilledExcuses ==
    ASSUME EndDisconnects, con.fd # None
    PROVE  Killed \in Excuses
  BY DEF EndDisconnects, Killed, Excuses

-----------------------------------------------------------------------------
(* The steps of the unit. *)

(* The unit goes up or down, and the driver is set up or given up with it. *)
LEMMA UnitSteps ==
    ASSUME ChaosInv, initIO \/ unitDeinit \/ deinitIO
    PROVE  ChaosInv'
<1>1. CASE unitDeinit
  <2>1. left' \in Excuses \/ con.fd = None
    BY <1>1 DEF unitDeinit, ChaosInv, EndDisconnects, Excuses
  <2> QED
    BY <1>1, <2>1, AfterCommand DEF unitDeinit, ChaosInv, Types, devVars, dataVars
<1>2. CASE deinitIO
  <2>1. drv' \in Drivers /\ con' \in Connections
    BY <1>2 DEF deinitIO, LiberaBrillianceCSPIDriver, NoCon, Drivers, Connections,
       Operations, DriverModes
  <2>2. con'.fd = None /\ con'.mode = "UNKNOWN"
    BY <1>2 DEF deinitIO, NoCon
  <2>3. cmd' = cmd /\ unit' = unit /\ ACQUISITION' = ACQUISITION /\ left' = "none"
    BY <1>2 DEF deinitIO, dataVars
  <2>4. cmd.kind # "acquire"
    BY <1>2 DEF deinitIO, ChaosInv, AcquiringUnitIsUp
  <2>5. env' \in {"none", "held", "lost"}
    BY <1>2 DEF deinitIO, ChaosInv, Types
  <2>6. Types' /\ Agrees(drv, con)'
    BY <2>1, <2>2, <2>3, <2>5 DEF ChaosInv, Types, Agrees
  <2>7. EndDisconnects' /\ AcquiringUnitIsUp' /\ LoopsAddUp'
    BY <2>2, <2>3, <2>4 DEF ChaosInv, EndDisconnects, AcquiringUnitIsUp, LoopsAddUp
  <2> QED
    BY <2>6, <2>7 DEF ChaosInv
<1>3. CASE initIO
  <2>1. /\ unit = "down" /\ cmd.kind # "acquire"
        /\ UNCHANGED << ACQUISITION, left >>
    BY <1>3 DEF initIO, dataVars, ChaosInv, AcquiringUnitIsUp
  <2>2. /\ con.fd # None => left' \in Excuses
        /\ drv \in Drivers /\ con \in Connections /\ Agrees(drv, con)
        /\ env \in {"none", "held", "lost"} /\ ACQUISITION' \in Nat
    BY <2>1 DEF ChaosInv, Types, EndDisconnects, Excuses
  <2>3. CASE drv' = drv /\ con' = con /\ env' = env /\ unit' = "up"
             /\ cmd' = Command("default")
    BY <2>2, <2>3, AfterCommand
  <2> DEFINE Ready == [drv EXCEPT !.operation = "init", !.sized = FALSE]
  <2>4. Ready \in Drivers /\ Ready.mode = drv.mode
    BY <2>2 DEF Drivers, Operations
  <2>5. CASE /\ drv' = Ready /\ env' = "held" /\ unit' = "up"
             /\ con' = [NoCon EXCEPT !.allocated = TRUE] /\ cmd' = Command("default")
    <3>1. con' \in Connections /\ con'.fd = None /\ con'.mode = "UNKNOWN"
      BY <2>5 DEF NoCon, Connections, DriverModes
    <3>2. Agrees(drv', con')
      BY <3>1 DEF Agrees
    <3> QED
      BY <2>2, <2>4, <2>5, <3>1, <3>2, AfterCommand
  <2>6. CASE /\ drv' = Ready /\ con' = con /\ cmd' = cmd
             /\ env' \in {"none", "held", "lost"} /\ unit' \in {"down", "stuck"}
    <3>1. Types' /\ Agrees(drv, con)'
      BY <2>2, <2>4, <2>6 DEF ChaosInv, Types, Agrees
    <3>2. EndDisconnects' /\ AcquiringUnitIsUp' /\ LoopsAddUp'
      BY <2>1, <2>2, <2>6 DEF ChaosInv, EndDisconnects, AcquiringUnitIsUp, LoopsAddUp, Excuses
    <3> QED
      BY <3>1, <3>2 DEF ChaosInv
  <2>7. \/ drv' = drv /\ con' = con /\ env' = env /\ unit' = "up"
           /\ cmd' = Command("default")
        \/ /\ drv' = Ready /\ env' = "held" /\ unit' = "up"
           /\ con' = [NoCon EXCEPT !.allocated = TRUE] /\ cmd' = Command("default")
        \/ /\ drv' = Ready /\ con' = con /\ cmd' = cmd
           /\ env' \in {"none", "held", "lost"} /\ unit' \in {"down", "stuck"}
    BY <1>3, <2>2 DEF initIO
  <2> QED
    BY <2>3, <2>5, <2>6, <2>7
<1> QED
  BY <1>1, <1>2, <1>3

(* The steps of the commands default, env and time. *)
LEMMA OtherSteps ==
    ASSUME ChaosInv,
           \/ DefaultStarts \/ DefaultHandler \/ EnvCommand \/ TimeCommand \/ TimeHandler
    PROVE  ChaosInv'
<1>1. /\ drv \in Drivers /\ con \in Connections /\ Agrees(drv, con)
      /\ env \in {"none", "held", "lost"} /\ ACQUISITION \in Nat
      /\ unit \in {"down", "up", "stuck"} /\ EndDisconnects
  BY DEF ChaosInv, Types
<1>2. CASE DefaultStarts
  BY <1>1, <1>2, AfterCommand, KilledExcuses DEF DefaultStarts, devVars
<1>3. CASE TimeHandler
  BY <1>1, <1>3, AfterCommand DEF TimeHandler, devVars, dataVars, EndDisconnects, Excuses
<1>4. CASE TimeCommand
  <2>1. drv' = drv \/ \E halves \in SUBSET {"MT", "ST"} : drv' = iop_SETTIME(drv, halves)
    BY <1>4 DEF TimeCommand
  <2>2. drv' \in Drivers /\ drv'.mode = drv.mode
    BY <1>1, <2>1, OperationTypes
  <2>3. PICK kind \in {"default", "time"} : cmd' = Command(kind)
    BY <1>4 DEF TimeCommand
  <2>4. /\ left' = Killed
        /\ UNCHANGED << env, con, unit, ACQUISITION >>
    BY <1>4 DEF TimeCommand
  <2>5. Agrees(drv', con')
    BY <1>1, <2>2, <2>4 DEF Agrees
  <2> QED
    BY <1>1, <2>2, <2>3, <2>4, <2>5, AfterCommand, KilledExcuses
<1>5. CASE EnvCommand
  <2>1. con' = cspi_disconnect(con) /\ cmd' = Command("default")
        /\ UNCHANGED << env, unit, ACQUISITION >>
    BY <1>5 DEF EnvCommand
  <2>2. drv' = iop_GETENV(iop_STOP(drv)) \/ drv' = iop_SETENV(drv)
    BY <1>5 DEF EnvCommand
  <2>3. drv' \in Drivers
    BY <1>1, <2>2, OperationTypes, StopTypes
  <2>4. con' \in Connections /\ con'.fd = None /\ con'.mode = "UNKNOWN"
    BY <1>1, <2>1, DisconnectTypes
  <2>5. Agrees(drv', con')
    BY <2>4 DEF Agrees
  <2> QED
    BY <1>1, <2>1, <2>3, <2>4, <2>5, AfterCommand
<1>6. CASE DefaultHandler
  <2>1. /\ drv' = iop_GETENV(drv) /\ cmd.kind = "default"
        /\ UNCHANGED << env, con, unit, cmd, ACQUISITION, left >>
    BY <1>6 DEF DefaultHandler, dataVars
  <2>2. drv' \in Drivers /\ drv'.mode = drv.mode
    BY <1>1, <2>1, OperationTypes
  <2>3. Types' /\ Agrees(drv, con)'
    BY <1>1, <2>1, <2>2 DEF ChaosInv, Types, Agrees
  <2>4. EndDisconnects' /\ AcquiringUnitIsUp' /\ LoopsAddUp'
    BY <1>1, <2>1 DEF ChaosInv, EndDisconnects, AcquiringUnitIsUp, LoopsAddUp
  <2> QED
    BY <2>3, <2>4 DEF ChaosInv
<1> QED
  BY <1>2, <1>3, <1>4, <1>5, <1>6

-----------------------------------------------------------------------------
(* The steps of the command acquire. *)

(* A refused acquisition has stopped the one before and closed its          *)
(* connection.                                                              *)
LEMMA RefusedStep ==
    ASSUME ChaosInv, AcquireRefused
    PROVE  ChaosInv'
<1>1. /\ drv' = iop_STOP(drv) /\ con' = cspi_disconnect(con)
      /\ cmd' = Command("default")
      /\ UNCHANGED << env, unit, ACQUISITION >>
  BY DEF AcquireRefused
<1>2. /\ drv' \in Drivers /\ con' \in Connections
      /\ con'.fd = None /\ con'.mode = "UNKNOWN"
  BY <1>1, DisconnectTypes, StopTypes DEF ChaosInv, Types
<1>3. Agrees(drv', con')
  BY <1>2 DEF Agrees
<1> QED
  BY <1>1, <1>2, <1>3, AfterCommand DEF ChaosInv, Types

(* An acquisition stops the one before it and connects, in the mode it asks *)
(* for.                                                                     *)
LEMMA StartSteps ==
    ASSUME ChaosInv, NEW bits \in Modes, NEW loops \in Loops, NEW timed \in BOOLEAN,
           NEW nodata \in BOOLEAN, AcquireStarts(bits, loops, timed, nodata)
    PROVE  ChaosInv'
<1>1. /\ drv \in Drivers /\ con \in Connections
      /\ env \in {"none", "held", "lost"} /\ ACQUISITION \in Nat
      /\ unit \in {"down", "up", "stuck"} /\ cmd \in CommandsOf
  BY DEF ChaosInv, Types
<1> DEFINE stopped == cspi_disconnect(con)
<1>2. /\ stopped \in Connections /\ stopped.fd = None /\ stopped.mode = "UNKNOWN"
      /\ iop_STOP(drv) \in Drivers
  BY <1>1, DisconnectTypes, StopTypes
<1> DEFINE acquiring == iop_ACQUIRE(iop_STOP(drv), bits)
<1>3. bits \in SUBSET Bits /\ loops \in Int
  BY ChaosAssumption DEF Bits
<1>4. acquiring \in Drivers
  BY <1>2, <1>3, AcquireTypes
<1> DEFINE outcomes == IF acquiring.operation = "acquire"
                       THEN Connect(acquiring, stopped) ELSE {<< stopped, TRUE >>}
           running == Acquisition(loops, timed, nodata)
<1>5. PICK outcome \in outcomes :
        /\ con' = outcome[1]
        /\ cmd' = IF outcome[2] THEN running ELSE Command("default")
        /\ ACQUISITION' = IF outcome[2] THEN 0 ELSE ACQUISITION
  BY DEF AcquireStarts
<1>6. /\ drv' = acquiring /\ unit = "up" /\ left' \in {"killed", "none"}
      /\ UNCHANGED << env, unit >>
  BY DEF AcquireStarts, Submits
<1>7. /\ con' \in Connections /\ Agrees(drv', con')
      /\ outcome[2] \/ con'.fd = None
  <2>1. CASE acquiring.operation = "acquire"
    BY <1>2, <1>4, <1>5, <1>6, <2>1, ConnectResult
  <2>2. CASE acquiring.operation # "acquire"
    BY <1>2, <1>5, <1>6, <2>2 DEF Agrees
  <2> QED
    BY <2>1, <2>2
<1>8. CASE outcome[2]
  <2>1. /\ running \in CommandsOf /\ running.kind = "acquire"
        /\ running.phase = "run" /\ running.loops = loops /\ running.asked = loops
    BY <1>3 DEF Acquisition, CommandsOf
  <2>2. cmd' = running /\ ACQUISITION' = 0
    BY <1>5, <1>8
  <2>3. Types'
    BY <1>1, <1>4, <1>6, <1>7, <2>1, <2>2 DEF Types
  <2>4. EndDisconnects' /\ AcquiringUnitIsUp'
    BY <1>6, <2>1, <2>2 DEF EndDisconnects, AcquiringUnitIsUp
  <2>5. LoopsAddUp'
    BY <1>3, <1>6, <2>1, <2>2 DEF LoopsAddUp
  <2> QED
    BY <1>7, <2>3, <2>4, <2>5 DEF ChaosInv
<1>9. CASE ~outcome[2]
  <2>1. con'.fd = None /\ cmd' = Command("default") /\ ACQUISITION' = ACQUISITION
    BY <1>5, <1>7, <1>9
  <2> QED
    BY <1>1, <1>4, <1>6, <1>7, <2>1, AfterCommand
<1> QED
  BY <1>8, <1>9

(* The bound on the count is never reached by loops that end. *)
LEMMA CountsOne ==
    ASSUME ChaosInv, cmd.kind = "acquire"
    PROVE  /\ Count \in Nat
           /\ cmd.asked >= 0 => Count = cmd.asked - cmd.loops + 1
<1>1. /\ cmd.asked \in Loops /\ cmd.asked \in Int /\ cmd.loops \in Int
      /\ ACQUISITION \in Nat
      /\ cmd.asked >= 0 => cmd.loops >= 0 /\ ACQUISITION = cmd.asked - cmd.loops
  BY DEF ChaosInv, Types, CommandsOf, LoopsAddUp
<1>2. cmd.asked + 1 < MaxCount /\ MaxCount \in Nat
  BY <1>1, ChaosAssumption
<1> QED
  BY <1>1, <1>2 DEF Count

(* One read of an acquisition: it is counted and published, and the last one*)
(* disconnects.                                                             *)
LEMMA DoneSteps ==
    ASSUME ChaosInv, cmd.kind = "acquire", UNCHANGED << env, unit >>,
           NEW result \in {"data", "nothing", "error"}, AcquireDone(result)
    PROVE  /\ ChaosInv'
           /\ left' = "ended" => ACQUISITION' = cmd.asked + 1
<1> DEFINE errors == error \cup (IF result = "error" THEN {"READING"} ELSE {})
<1>1. /\ drv \in Drivers /\ con \in Connections /\ Agrees(drv, con)
      /\ env \in {"none", "held", "lost"} /\ unit \in {"down", "up", "stuck"}
      /\ cmd \in CommandsOf /\ cmd.loops \in Int /\ cmd.asked \in Int
      /\ ACQUISITION \in Nat
  BY DEF ChaosInv, Types, CommandsOf
<1>2. /\ left # "ended" /\ cmd.asked \in Loops /\ unit = "up"
      /\ cmd.asked < 0 => cmd.loops = cmd.asked
  BY <1>1 DEF ChaosInv, LoopsAddUp, AcquiringUnitIsUp
<1>3. ACQUISITION' \in Nat
  BY <1>1, CountsOne DEF AcquireDone
<1>4. errors = {} => ACQUISITION' = Count
  BY DEF AcquireDone
<1>5. CASE cmd.loops = 0 \/ errors # {}
  <2>1. /\ drv' = iop_STOP(drv) /\ con' = cspi_disconnect(con)
        /\ cmd' = Command("default")
        /\ left' = IF errors = {} THEN "ended" ELSE "failed"
    BY <1>5 DEF AcquireDone
  <2>2. drv' \in Drivers /\ con' \in Connections /\ con'.fd = None
        /\ con'.mode = "UNKNOWN"
    BY <1>1, <2>1, StopTypes, DisconnectTypes
  <2>3. ChaosInv'
    <3>1. Agrees(drv', con')
      BY <2>2 DEF Agrees
    <3> QED
      BY <1>1, <1>3, <2>1, <2>2, <3>1, AfterCommand
  <2>4. left' = "ended" => ACQUISITION' = cmd.asked + 1
    <3>1. SUFFICES ASSUME left' = "ended" PROVE ACQUISITION' = cmd.asked + 1
      OBVIOUS
    <3>2. errors = {} /\ cmd.loops = 0
      BY <1>5, <2>1, <3>1
    <3>3. cmd.asked >= 0
      BY <1>1, <1>2, <3>2
    <3> QED
      BY <1>1, <1>4, <3>2, <3>3, CountsOne
  <2> QED
    BY <2>3, <2>4
<1>6. CASE ~(cmd.loops = 0 \/ errors # {})
  <2> DEFINE then == IF cmd.loops > 0 THEN cmd.loops - 1 ELSE cmd.loops
  <2>1. /\ cmd' = [cmd EXCEPT !.phase = "run", !.loops = then]
        /\ UNCHANGED << drv, con, left >>
    BY <1>6 DEF AcquireDone, devVars
  <2>2. /\ cmd' \in CommandsOf /\ cmd'.kind = "acquire" /\ cmd'.phase = "run"
        /\ cmd'.loops = then /\ cmd'.asked = cmd.asked
    <3>1. then \in Int
      BY <1>1
    <3> HIDE DEF then
    <3> QED
      BY <1>1, <2>1, <3>1 DEF CommandsOf
  <2>3. Types' /\ Agrees(drv, con)'
    BY <1>1, <1>3, <2>1, <2>2 DEF Types, Agrees
  <2>4. EndDisconnects' /\ AcquiringUnitIsUp'
    BY <1>2, <2>2 DEF EndDisconnects, AcquiringUnitIsUp
  <2>5. LoopsAddUp'
    <3>1. CASE cmd.asked >= 0
      <4>1. cmd.loops > 0
        BY <1>1, <1>6, <3>1 DEF ChaosInv, LoopsAddUp
      <4>2. cmd'.loops >= 0 /\ ACQUISITION' = cmd'.asked - cmd'.loops
        <5>1. ACQUISITION' = cmd.asked - cmd.loops + 1
          BY <1>4, <1>6, <3>1, CountsOne
        <5>2. cmd'.loops = cmd.loops - 1 /\ cmd'.asked = cmd.asked
          BY <2>2, <4>1
        <5> QED
          BY <1>1, <4>1, <5>1, <5>2
      <4> QED
        BY <1>2, <2>1, <2>2, <3>1, <4>2 DEF LoopsAddUp
    <3>2. CASE cmd.asked < 0
      <4>1. cmd'.loops = cmd'.asked
        BY <1>1, <1>2, <2>2, <3>2
      <4> QED
        BY <1>1, <1>2, <2>1, <2>2, <3>2, <4>1 DEF LoopsAddUp
    <3> QED
      BY <1>1, <3>1, <3>2
  <2> QED
    BY <1>2, <2>1, <2>3, <2>4, <2>5 DEF ChaosInv
<1> QED
  BY <1>5, <1>6

(* Every step of the handler, and the count at the end of the loops. *)
LEMMA HandlerSteps ==
    ASSUME ChaosInv, acquireHandler
    PROVE  /\ ChaosInv'
           /\ left' = "ended" => ACQUISITION' = cmd.asked + 1
<1>1. CASE AcquireExpires
  <2>1. /\ UNCHANGED << drv, con, env, unit, ACQUISITION >>
        /\ cmd' = Command("default") /\ left' = "expired"
    BY <1>1 DEF AcquireExpires, devVars
  <2> QED
    BY <2>1, AfterCommand DEF ChaosInv, Types, Excuses
<1>5. CASE NoDataset
  <2>1. /\ UNCHANGED << drv, con, env, unit, ACQUISITION >>
        /\ cmd' = Command("default") /\ left' = "nodata"
    BY <1>5 DEF NoDataset, devVars
  <2> QED
    BY <2>1, AfterCommand DEF ChaosInv, Types, Excuses
<1>2. CASE wait_trigger
  <2>1. /\ UNCHANGED << drv, con, env, unit, ACQUISITION, left >>
        /\ cmd.kind = "acquire" /\ cmd' = [cmd EXCEPT !.phase = "wait"]
    BY <1>2 DEF wait_trigger, devVars, dataVars
  <2>2. /\ cmd' \in CommandsOf /\ cmd'.kind = "acquire"
        /\ cmd'.loops = cmd.loops /\ cmd'.asked = cmd.asked
    BY <2>1 DEF ChaosInv, Types, CommandsOf
  <2>3. Types' /\ Agrees(drv, con)'
    BY <2>1, <2>2 DEF ChaosInv, Types, Agrees
  <2>4. EndDisconnects' /\ AcquiringUnitIsUp' /\ LoopsAddUp'
    BY <2>1, <2>2 DEF ChaosInv, EndDisconnects, AcquiringUnitIsUp, LoopsAddUp
  <2>5. left' # "ended"
    BY <2>1 DEF ChaosInv, LoopsAddUp
  <2> QED
    BY <2>3, <2>4, <2>5 DEF ChaosInv
<1>3. CASE read
  <2>1. PICK result \in {"data", "nothing", "error"} : AcquireDone(result)
    BY <1>3 DEF read, CspiRead
  <2> QED
    BY <1>3, <2>1, DoneSteps DEF read
<1>4. CASE TriggerTimeout
  <2>1. cmd.kind = "acquire"
    BY <1>4 DEF TriggerTimeout, ChaosInv, AcquiringUnitIsUp
  <2> QED
    BY <1>4, <2>1, DoneSteps DEF TriggerTimeout
<1> QED
  BY <1>1, <1>2, <1>3, <1>4, <1>5 DEF acquireHandler

(* A trigger, or a wait that ends by itself, changes the phase only. *)
LEMMA TriggerSteps ==
    ASSUME ChaosInv, event_callback \/ WakesForNothing
    PROVE  ChaosInv'
<1>1. /\ UNCHANGED << drv, con, env, unit, ACQUISITION, left >>
      /\ cmd' = cmd \/ (cmd.phase = "wait" /\ cmd' = [cmd EXCEPT !.phase = "woken"])
  BY DEF event_callback, WakesForNothing, devVars, dataVars
<1>2. /\ cmd' \in CommandsOf /\ cmd'.kind = cmd.kind
      /\ cmd'.loops = cmd.loops /\ cmd'.asked = cmd.asked
      /\ cmd'.phase # "run" => cmd.phase # "run"
  BY <1>1 DEF ChaosInv, Types, CommandsOf
<1>3. Types' /\ Agrees(drv, con)'
  BY <1>1, <1>2 DEF ChaosInv, Types, Agrees
<1>4. EndDisconnects' /\ AcquiringUnitIsUp' /\ LoopsAddUp'
  BY <1>1, <1>2 DEF ChaosInv, EndDisconnects, AcquiringUnitIsUp, LoopsAddUp
<1> QED
  BY <1>3, <1>4 DEF ChaosInv

-----------------------------------------------------------------------------
(* Nothing happens. *)
LEMMA ChaosStutters ==
    ASSUME ChaosInv, UNCHANGED chaosVars
    PROVE  ChaosInv'
  BY DEF ChaosInv, chaosVars, devVars, dataVars, Types, Agrees, EndDisconnects,
     AcquiringUnitIsUp, LoopsAddUp

(* Every step keeps the invariant. *)
LEMMA NextKeepsChaosInv == ChaosInv /\ [ChaosNext]_chaosVars => ChaosInv'
<1> SUFFICES ASSUME ChaosInv, [ChaosNext]_chaosVars PROVE ChaosInv'
  OBVIOUS
<1>1. CASE initIO \/ unitDeinit \/ deinitIO
  BY <1>1, UnitSteps
<1>2. CASE AcquireRefused
  BY <1>2, RefusedStep
<1>3. CASE \E bits \in Modes, loops \in Loops, timed, nodata \in BOOLEAN :
             AcquireStarts(bits, loops, timed, nodata)
  BY <1>3, StartSteps
<1>4. CASE acquireHandler
  BY <1>4, HandlerSteps
<1>5. CASE event_callback \/ WakesForNothing
  BY <1>5, TriggerSteps
<1>6. CASE DefaultStarts \/ DefaultHandler \/ EnvCommand \/ TimeCommand \/ TimeHandler
  BY <1>6, OtherSteps
<1>7. CASE UNCHANGED chaosVars
  BY <1>7, ChaosStutters
<1> QED
  BY <1>1, <1>2, <1>3, <1>4, <1>5, <1>6, <1>7 DEF ChaosNext

(* The driver, its connection, the command and the count keep what they owe *)
(* each other in every step of every handler.                               *)
THEOREM ChaosConsistent == ChaosSpec => []ChaosInv
  BY InitChaosInv, NextKeepsChaosInv, PTL DEF ChaosSpec

(* An open connection is to the device of its mode and of the mode that     *)
(* iop() left in the driver, for any mode words.                            *)
THEOREM DeviceAlwaysOfMode == ChaosSpec => []DeviceOfMode
<1>1. ChaosInv => DeviceOfMode
  <2> SUFFICES ASSUME ChaosInv PROVE DeviceOfMode
    OBVIOUS
  <2>1. ChaosTypeOK
    BY DEF ChaosInv, Types, Agrees, ChaosTypeOK, Drivers, Connections, CommandsOf,
       Operations, DriverModes
  <2> QED
    BY <2>1 DEF ChaosInv, Agrees, DeviceOfMode
<1> QED
  BY <1>1, ChaosConsistent, PTL

(* acquireHandler ends an acquisition with STOP after its last loop, after  *)
(* an error of read() and after a trigger that was lost, so only a command  *)
(* that kills it, its duration and a data set without buffer leave the      *)
(* device open.                                                             *)
THEOREM EndAlwaysDisconnects == ChaosSpec => []EndDisconnects
<1>1. ChaosInv => EndDisconnects
  BY DEF ChaosInv
<1> QED
  BY <1>1, ChaosConsistent, PTL

(* The loops of acquireHandler run once more than was asked for, whatever   *)
(* triggers, other commands and failing reads come in between: the exact    *)
(* number, of which LoopsServed allows what a client can rely on.           *)
THEOREM LoopsAlwaysPlusOne == ChaosSpec => LoopsPlusOne
<1>1. ChaosInv /\ [ChaosNext]_chaosVars =>
        [cmd.kind = "acquire" /\ left' = "ended" => ACQUISITION' = cmd.asked + 1]_chaosVars
  <2> SUFFICES ASSUME ChaosInv, [ChaosNext]_chaosVars, cmd.kind = "acquire", left' = "ended"
               PROVE  ACQUISITION' = cmd.asked + 1
    OBVIOUS
  <2>1. left # "ended" /\ unit = "up" /\ Killed = "killed"
    BY DEF ChaosInv, LoopsAddUp, AcquiringUnitIsUp, Killed
  <2>2. CASE acquireHandler
    BY <2>2, HandlerSteps
  <2>3. CASE initIO \/ unitDeinit \/ deinitIO
    BY <2>1, <2>3 DEF initIO, unitDeinit, deinitIO
  <2>4. CASE AcquireRefused
    BY <2>4 DEF AcquireRefused
  <2>5. CASE \E bits \in Modes, loops \in Loops, timed, nodata \in BOOLEAN :
               AcquireStarts(bits, loops, timed, nodata)
    BY <2>5 DEF AcquireStarts
  <2>6. CASE event_callback \/ WakesForNothing
    BY <2>1, <2>6 DEF event_callback, WakesForNothing
  <2>7. CASE DefaultStarts \/ DefaultHandler \/ EnvCommand \/ TimeCommand \/ TimeHandler
    BY <2>1, <2>7 DEF DefaultStarts, DefaultHandler, EnvCommand, TimeCommand, TimeHandler
  <2>8. CASE UNCHANGED chaosVars
    BY <2>1, <2>8 DEF chaosVars
  <2> QED
    BY <2>2, <2>3, <2>4, <2>5, <2>6, <2>7, <2>8 DEF ChaosNext
<1> QED
  BY <1>1, ChaosConsistent, PTL DEF ChaosSpec, LoopsPlusOne

(* An acquisition that ends by its loops has published as many as were      *)
(* asked for, or one more, for any numbers of loops.                        *)
THEOREM LoopsAlwaysServed == ChaosSpec => LoopsServed
<1>1. /\ ChaosInv
      /\ [cmd.kind = "acquire" /\ left' = "ended" => ACQUISITION' = cmd.asked + 1]_chaosVars
      => [cmd.kind = "acquire" /\ left' = "ended" =>
             ACQUISITION' \in cmd.asked .. cmd.asked + 1]_chaosVars
  <2>1. ChaosInv => cmd.asked \in Int
    BY DEF ChaosInv, Types, CommandsOf
  <2> QED
    BY <2>1
<1> QED
  BY <1>1, ChaosConsistent, LoopsAlwaysPlusOne, PTL DEF LoopsPlusOne, LoopsServed

================================================================================
