-------------------------- MODULE MCSwapfsManager --------------------------
(* The instances of SwapfsManager that TLC checks.                         *)
EXTENDS SwapfsManager, TLC

CONSTANTS t1, t2, t3

TwoThreads == {t1, t2}
ThreeThreads == {t1, t2, t3}
OneDestroyer == {t1}

\* t1 may call Destroy; the other threads are interchangeable.
ThreadSymmetry == Permutations({t2, t3})
=============================================================================
