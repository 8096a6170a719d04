----------------------------- MODULE MCCspiParams -----------------------------
(* An instance of CspiParams in seven worlds: two processes that set the     *)
(* thresholds of interlock and post mortem; one that does it in two threads  *)
(* and sets everything else;                                                 *)
(* one that sets offsets and spike removal, with dscd or with one that reads *)
(* in two threads; that one with dscd; and users of either block device.     *)
EXTENDS CspiParams, TLC

CONSTANTS w1, w2, w3, rp, dscd, fa1, fa2, dsc1, dsc2, tw1, tw2, tw3, tw4, tr1, tr2

MCFiles == {w1, w2, w3, rp, dscd, fa1, fa2, dsc1, dsc2}
MCDevOf == [ f \in MCFiles |-> CASE f \in {w1, w2, w3, rp} -> "cfg"
                                 [] f \in {dscd, dsc1, dsc2} -> "dsc" [] OTHER -> "fa" ]
MCModes == [ f \in MCFiles |-> CASE f \in {w1, w2, w3, dscd, dsc1} -> {{"r", "w"}}
                                 [] f = fa1 -> {{"w"}} [] OTHER -> {{"r"}} ]
MCThreads == {tw1, tw2, tw3, tw4, tr1, tr2}
MCProcOf == [ t \in MCThreads |-> CASE t = tw1 -> w1 [] t = tw2 -> w2
                                    [] t = tw3 -> w3 [] t = tw4 -> w1 [] OTHER -> rp ]

(* Thresholds all different from each other's and from the initial ones. *)
Thresholds(v, dur) ==
    [ i \in Params \cup DOMAIN Unmirrored |->
        CASE i \in Limits -> 16 * v
          [] i \in {"ILK_OVERFLOW_DUR", "PM_OVERFLOW_DUR"} -> dur
          [] i = "PM_MODE" -> v \div 2
          [] OTHER -> v ]
Set(flags, p) == [flags |-> flags, p |-> p]

MCRequests == [ t \in MCThreads |->
    CASE t = tw1 -> { Set({"ILK"}, Thresholds(3, 2)), Set({"PM"}, Thresholds(3, 9)) }
      [] t = tw4 -> { Set({"TRIGMODE", "KX", "TRIGDELAY", "EXTSWITCH", "SWDELAY",
                           "DDC_MAF", "PMOFFSET", "PMDEC", "ILKSTATUS", "SP", "NOTCH"},
                          Thresholds(1, 1)), Set({"ILK"}, Thresholds(1, 1)) }
      [] t = tw2 -> { Set({"PM"}, Thresholds(1, 1)), Set({"ILK"}, Thresholds(1, 1)),
                      Set({"SR"}, [Thresholds(1, 1) EXCEPT !["SR_AVERAGE_WINDOW"] = 3]) }
      [] t = tw3 -> { Set({"XOFFSET"}, Thresholds(1, 1)), Set({"SR"}, Thresholds(1, 1)) }
      [] OTHER -> {} ]
MCReaders == {tr1, tr2}
MCListening == {rp}
MCWorlds == { {w1, w2, tw1, tw2}, {w1, tw1, tw4}, {w3, tw3, dscd}, {w3, tw3, rp, tr1, tr2},
              {rp, tr1, tr2, dscd}, {fa1, fa2}, {dsc1, dsc2} }
ReaderSymmetry == Permutations({tr1, tr2})
MCBlockFiles == {fa1, fa2, dsc1, dsc2}
=============================================================================
