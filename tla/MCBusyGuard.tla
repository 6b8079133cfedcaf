---------------------------- MODULE MCBusyGuard -----------------------------
(***************************************************************************)
(* Instances of BusyGuard for TLC.                                         *)
(***************************************************************************)
EXTENDS BusyGuard, TLC

CONSTANTS t1, t2, t3

ThreadSymmetry == Permutations(Threads)
=============================================================================
