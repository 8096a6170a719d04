---------------------------- MODULE MCLiberaEvent ----------------------------
(* An instance of LiberaEvent: one file for reading and writing, one for     *)
(* writing only, and two for reading, one of them with O_NONBLOCK.           *)
EXTENDS LiberaEvent

CONSTANTS rw, wo, ro, rn

MCFiles == {rw, wo, ro, rn}
MCModes == [f \in MCFiles |-> CASE f = rw -> {{"r", "w"}} [] f = wo -> {{"w"}}
                                [] OTHER -> {{"r"}}]
MCWorlds == { [files |-> {rw, ro, rn}, triggers |-> {"t1", "t2"}, events |-> 0],
              [files |-> {rw, ro}, triggers |-> {}, events |-> 5],
              [files |-> {wo, ro, rn}, triggers |-> {}, events |-> 3],
              [files |-> {rw, wo}, triggers |-> {"t1"}, events |-> 3] }
=============================================================================
