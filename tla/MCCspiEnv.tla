------------------------------- MODULE MCCspiEnv -------------------------------
(* An instance of CspiEnv: two threads, three connections of which one is    *)
(* opened or given a handler, two descriptors.                               *)
EXTENDS CspiEnv

CONSTANTS t1, t2, c1, c2, c3, fd1, fd2

TwoThreads == {t1, t2}
OneCon == {c1}
ThreeCons == {c1, c2, c3}
Descriptors == {fd1, fd2}
=============================================================================
