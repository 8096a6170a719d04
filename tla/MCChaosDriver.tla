---------------------------- MODULE MCChaosDriver ----------------------------
(* An instance of ChaosDriver: the mode words of the client daqLiberaClient *)
(* and the two that select an ADC mode of the driver, DD also with a        *)
(* trigger; PM alone is refused.                                            *)
EXTENDS ChaosDriver

MCModes ==
    { {"DD"}, {"DD", "TRIGGERED"}, {"SA"}, {"SINGLEPASS"},
      {"CONTINUOUS"}, {"ADC", "CONTINUOUS"}, {"ADC", "SINGLEPASS"}, {"AVG"}, {"PM"} }

MCLoops == {-1, 1}

=============================================================================
