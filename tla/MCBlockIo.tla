------------------------------ MODULE MCBlockIo ------------------------------
(* BlockIo for TLC: the tasks other than init are threads of one process. *)
EXTENDS BlockIo

OneProgram == [t \in Task |-> IF t = INITPROC THEN "initproc" ELSE "program"]
==============================================================================
