----------------------------- MODULE MCLiberaCTIME -----------------------------
(* An instance of LiberaCTIME: two getters, one of which may get signals, a  *)
(* waiter, two triggers.                                                     *)
EXTENDS LiberaCTIME

CONSTANTS g1, g2, w1

OneGetter == {g1}
TwoGetters == {g1, g2}
OneWaiter == {w1}
=============================================================================
