------------------------- MODULE MCUringReadEngine -------------------------
(* The instances of UringReadEngine that TLC checks.                       *)
EXTENDS UringReadEngine, TLC

CONSTANTS t1, t2, t3

ThreeThreads == {t1, t2, t3}
ThreadSymmetry == Permutations(Threads)
=============================================================================
