---------------------------- MODULE MCSwapfsApi ----------------------------
(* The instance of SwapfsApi that TLC checks: every thread may create,     *)
(* use and destroy the handle.                                             *)
EXTENDS SwapfsApi, TLC

CONSTANTS t1, t2, t3

AllThreads == {t1, t2, t3}
ThreadSymmetry == Permutations(AllThreads)
=============================================================================
