------------------------------- MODULE MCLiberaSA ------------------------------
(* Instances of LiberaSA: the number of files, threads and ring slots is     *)
(* what the configuration files vary.                                        *)
EXTENDS LiberaSA, TLC

CONSTANTS f1, f2, f3, t1, t2, a1, a2, a3

OneFile == {f1}
TwoFiles == {f1, f2}
ThreeFiles == {f1, f2, f3}
OneThread == {t1}
TwoThreads == {t1, t2}
OneLocal == {a1}
ThreeLocals == {a1, a2, a3}
ThirdFile == {f3}
NoFile == {}
NoThread == {}
FileSymmetry == Permutations(TwoFiles) \cup Permutations(ThreeLocals)
=============================================================================
