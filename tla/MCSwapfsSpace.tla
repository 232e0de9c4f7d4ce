--------------------------- MODULE MCSwapfsSpace ---------------------------
(* Two ways to run out of space: in Quota nothing but the quota can stop a *)
(* SwapOut, in Device (where every file has size 1) nothing but the floor  *)
(* the device must keep.  Both leave room for as many bytes, so LimitsKept *)
(* is as strict in each as the limit that is at work there.                *)
EXTENDS SwapfsManager

CONSTANTS t1, t2

VARIABLE scarce

Quota  == INSTANCE SwapfsManager WITH MinAvailable <- 0
Device == INSTANCE SwapfsManager WITH SpaceLimit <- DeviceSize, Sizes <- {1}

ASSUME SameRoom == SpaceLimit = DeviceSize - MinAvailable

SpaceInit == scarce \in {"quota", "device"} /\ Init
SpaceNext ==
    /\ (scarce = "quota" /\ Quota!Next) \/ (scarce = "device" /\ Device!Next)
    /\ UNCHANGED scarce
SpaceSpec == SpaceInit /\ [][SpaceNext]_<<scarce, vars>>

TwoThreads == {t1, t2}
OneDestroyer == {t1}
============================================================================
