----------------------------- MODULE MCCspiDaemons -----------------------------
(* An instance of CspiDaemons: a process of three threads and one of one,    *)
(* which may not set, two threads at a time.  The parts of a report keep the *)
(* order of their sizes.                                                     *)
EXTENDS CspiDaemons

CONSTANTS p, q, t1, t2, t3, t4

MCThreads == {t1, t2, t3, t4}
MCProcOf == [ t \in MCThreads |-> IF t = t4 THEN q ELSE p ]
Message(type, valid) == [type |-> type, valid |-> valid]
Set(msgs, pll) == [set |-> TRUE, msgs |-> msgs, pll |-> pll]
Get(msgs, pll) == [set |-> FALSE, msgs |-> msgs, pll |-> pll]
Query1 == << << "status", 0 >> >>
MCCalls == [ t \in MCThreads |->
    CASE t = t1 -> { Get(<< Message("AGC", TRUE) >>, << >>),
                     Set(<< Message("DSC", FALSE) >>, << >>) }
      [] t = t2 -> { Get(<< Message("GAIN", TRUE), Message("SWITCH", TRUE) >>, << >>) }
      [] t = t3 -> { Get(<< >>, Query1),
                     Set(<< >>, << << "mtncoshft", 1 >>, << "mtphsoffs", 6251 >> >>),
                     Set(<< >>, << << "stunlcktr", 30000 >> >>) }
      [] OTHER -> { Get(<< >>, Query1), Set(<< >>, << << "mtsyncin", 0 >> >>) } ]
MCWorlds == { {t1, t2}, {t1, t3}, {t3, t4} }
MCPartSize == << 1, 3, 2 >>
=============================================================================
