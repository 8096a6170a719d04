------------------------------- MODULE SAStream --------------------------------
(***************************************************************************)
(* What /dev/libera.sa promises its readers, with no ring, no interrupt    *)
(* and no lock: the atoms taken from the FPGA are offered, in order and    *)
(* once each, to every open file; a file keeps an offered atom unless it   *)
(* already holds Capacity of them; a reader takes the oldest one, and what *)
(* arrives in its buffer is what it took.                                  *)
(***************************************************************************)
EXTENDS Integers, Sequences

CONSTANTS
    Files,     \* the files that may be opened
    Atoms,     \* the SA atoms, as the FPGA numbers them
    None,      \* no atom
    Capacity   \* atoms a file can hold

VARIABLES
    pending,   \* atoms taken from the FPGA and not offered yet
    isOpen,    \* the open files
    queue,     \* file -> atoms held for it
    inhand,    \* file -> atom taken by a read and not delivered yet
    last       \* file -> atom delivered last, since the file was opened

streamVars == << pending, isOpen, queue, inhand, last >>

Init ==
    /\ pending = << >>
    /\ isOpen = {}
    /\ queue = [f \in Files |-> << >>]
    /\ inhand = [f \in Files |-> None]
    /\ last = [f \in Files |-> None]

Capture ==
    /\ \E a \in Atoms : pending' = Append(pending, a)
    /\ UNCHANGED << isOpen, queue, inhand, last >>

Offer ==
    /\ pending # << >>
    /\ pending' = Tail(pending)
    /\ queue' = [f \in Files |->
                   IF f \in isOpen /\ Len(queue[f]) < Capacity
                   THEN Append(queue[f], Head(pending))
                   ELSE queue[f]]
    /\ UNCHANGED << isOpen, inhand, last >>

Open(f) ==
    /\ f \notin isOpen
    /\ isOpen' = isOpen \cup {f}
    /\ UNCHANGED << pending, queue, inhand, last >>

Close(f) ==
    /\ f \in isOpen
    /\ inhand[f] = None
    /\ isOpen' = isOpen \ {f}
    /\ queue' = [queue EXCEPT ![f] = << >>]
    /\ last' = [last EXCEPT ![f] = None]
    /\ UNCHANGED << pending, inhand >>

Take(f) ==
    /\ inhand[f] = None
    /\ queue[f] # << >>
    /\ inhand' = [inhand EXCEPT ![f] = Head(queue[f])]
    /\ queue' = [queue EXCEPT ![f] = Tail(queue[f])]
    /\ UNCHANGED << pending, isOpen, last >>

(* The user's buffer gets the atom, or the copy faults and the atom is lost *)
Deliver(f) ==
    /\ inhand[f] # None
    /\ inhand' = [inhand EXCEPT ![f] = None]
    /\ last' \in { last, [last EXCEPT ![f] = inhand[f]] }
    /\ UNCHANGED << pending, isOpen, queue >>

Next ==
    \/ Capture
    \/ Offer
    \/ \E f \in Files : Open(f) \/ Close(f) \/ Take(f) \/ Deliver(f)

Spec == Init /\ [][Next]_streamVars
=============================================================================
