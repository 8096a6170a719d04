--------------------------- MODULE MCLiberaTrigger ---------------------------
(* An instance of LiberaTrigger: a period of four ticks, and triggers that   *)
(* come at any time, that are spaced, and that set the time.                 *)
EXTENDS LiberaTrigger

World(k, triggers, ticks, sets, spaced, mode) ==
    [kinds |-> k, triggers |-> triggers, ticks |-> ticks, sets |-> sets,
     spaced |-> spaced, PM_MODE |-> mode]

MCWorlds == { World({"TRIGGER"}, 2, 13, 2, FALSE, 0),
              World({"TRIGGER"}, 3, 9, 2, TRUE, 0),
              World({"TRIGGER", "POST_MORTEM"}, 3, 6, 1, FALSE, 1),
              World({"POST_MORTEM"}, 3, 6, 1, TRUE, 0) }
=============================================================================
