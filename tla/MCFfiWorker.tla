---------------------------- MODULE MCFfiWorker ----------------------------
(* Instances of FfiWorker: application threads are model values.           *)
EXTENDS FfiWorker, TLC

CONSTANTS a1, a2

AppSymmetry == Permutations(Apps)
=============================================================================
