---------------------------- MODULE TaskLifecycle ----------------------------
(***************************************************************************)
(* What the scheduler promises, without queues, locks, timers or traps: a  *)
(* task is created once, the processor runs one task at a time, only a     *)
(* ready task is dispatched, only the running task stops running, only a   *)
(* blocked task is woken, and a task that exited never comes back.         *)
(***************************************************************************)
EXTENDS Naturals

CONSTANTS Task, INITPROC

VARIABLE state

TaskState == {"unborn", "ready", "running", "blocked", "exited"}

In(s) == {t \in Task : state[t] = s}

Init == state = [t \in Task |-> IF t = INITPROC THEN "ready" ELSE "unborn"]

Dispatch(t) ==
  /\ In("running") = {}
  /\ state[t] = "ready"
  /\ state' = [state EXCEPT ![t] = "running"]

Create(u) ==
  /\ In("running") # {}
  /\ state[u] = "unborn"
  /\ state' = [state EXCEPT ![u] = "ready"]

(* A set of blocked tasks becomes ready. *)
Wake(W) ==
  /\ W \subseteq In("blocked")
  /\ state' = [t \in Task |-> IF t \in W THEN "ready" ELSE state[t]]

(* The running task stops in state s; the trap it stops in may wake W. *)
Leave(t, s, W) ==
  /\ state[t] = "running"
  /\ W \subseteq In("blocked")
  /\ state' = [u \in Task |-> IF u = t THEN s
                              ELSE IF u \in W THEN "ready" ELSE state[u]]

Next ==
  \/ \E t \in Task : Dispatch(t) \/ Create(t)
  \/ \E W \in SUBSET Task : Wake(W)
  \/ \E t \in Task, s \in {"ready", "blocked", "exited"}, W \in SUBSET Task :
       Leave(t, s, W)

Spec == Init /\ [][Next]_state
==============================================================================
