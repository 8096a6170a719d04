----------------------------- MODULE MCEventDaemon -----------------------------
(* An instance of EventDaemon: a process with two connections, one kind of   *)
(* event that the daemon always asks for and one that it does not.           *)
EXTENDS EventDaemon

CONSTANTS p1, pm, sa

OneProc == {p1}
Two == [p \in OneProc |-> 2]
TwoKinds == {pm, sa}
Initial == {pm}
SomeMasks == {{}, {sa}}
=============================================================================
