---------------------------- MODULE MCKernelSync ----------------------------
(* Instances of KernelSync for TLC. *)
EXTENDS KernelSync, TLC

(* The tasks other than initproc are interchangeable. *)
TaskSymmetry == Permutations(Task \ {INITPROC})
=============================================================================
