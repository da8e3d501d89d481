------------------------------ MODULE MCSignals ------------------------------
(* Small instances of Signals for TLC. *)
EXTENDS Signals

(* Actions passed to sys_sigaction by the main thread: a handler with the  *)
(* empty mask, which the programs of the repository use, a handler with    *)
(* the mask that hides every signal, and no handler again.                 *)
MainActions ==
  [t \in Thread |->
     IF t = MAIN THEN {[handler |-> TRUE, mask |-> {}],
                       [handler |-> TRUE, mask |-> Signal],
                       [handler |-> FALSE, mask |-> {}]} ELSE {}]

(* Masks passed to sys_sigprocmask: the main thread hides the signal with  *)
(* a handler, SIGKILL and SIGCONT, or nothing again; the other thread      *)
(* masks nothing.                                                          *)
MainMasks ==
  [t \in Thread |-> IF t = MAIN THEN {{}, {1, SIGKILL, SIGCONT}} ELSE {}]

(* A handler can be interrupted by its own signal and a process stopped    *)
(* again after SIGCONT; the others stay pending or are needed once.        *)
TwiceAtMost == [s \in Signal |-> IF s \in {1, SIGSTOP} THEN 2 ELSE 1]
==============================================================================
