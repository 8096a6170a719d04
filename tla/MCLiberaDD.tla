------------------------------ MODULE MCLiberaDD ------------------------------
(* An instance of LiberaDD: two readers, an acquisition, and a circular      *)
(* buffer of six atoms of which a block of DMA moves two.                    *)
EXTENDS LiberaDD

CONSTANTS r1, r2, pm

MCPMOffset == 0

MCWorlds == { [processes |-> {r1, r2}, first |-> 3, ticks |-> 3, calls |-> 3, counts |-> {3},
               times |-> {0, 1}, requests |-> {"MT"}, decs |-> {1}],
              [processes |-> {r1}, first |-> 4, ticks |-> 7, calls |-> 2, counts |-> {0, 5},
               times |-> {1, 6}, requests |-> {"ST", "MT"}, decs |-> {1}],
              [processes |-> {r1}, first |-> 4, ticks |-> 6, calls |-> 4, counts |-> {2},
               times |-> {0}, requests |-> {"MT"}, decs |-> {1, 2}],
              [processes |-> {r1}, first |-> 4, ticks |-> 11, calls |-> 1, counts |-> {5},
               times |-> {0}, requests |-> {"MT"}, decs |-> {1}],
              [processes |-> {r1, pm}, first |-> 6, ticks |-> 8, calls |-> 3, counts |-> {2},
               times |-> {0}, requests |-> {"IMPLICIT"}, decs |-> {1}] }
=============================================================================
