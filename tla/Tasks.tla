-------------------------------- MODULE Tasks --------------------------------
(***************************************************************************)
(* The uniprocessor scheduler of os/src/task: the FIFO TaskManager, the    *)
(* Processor and the TaskStatus of every task control block.  The          *)
(* operators below are the scheduler's functions; the modules that extend  *)
(* this one conjoin them to their own updates.                             *)
(*                                                                         *)
(* Every one of these functions runs on one hart and touches the queue     *)
(* only inside a UPIntrFreeCell, that is with supervisor interrupts        *)
(* masked, so each is one step.                                            *)
(***************************************************************************)
EXTENDS Integers, Sequences, FiniteSets, Functions

CONSTANTS
  Task,     \* the task control blocks that may ever exist
  NONE      \* Option::None

ASSUME NoneAssumption == NONE \notin Task

VARIABLES
  ready_queue,   \* TaskManager::ready_queue, a VecDeque of tasks
  current,       \* Processor::current
  task_status    \* TaskControlBlockInner::task_status, by task

sched_vars == <<ready_queue, current, task_status>>

TaskStatus == {"Ready", "Running", "Blocked"}

SchedTypeOK ==
  /\ ready_queue \in Seq(Task)
  /\ current \in Task \cup {NONE}
  /\ task_status \in [Task -> TaskStatus]

(* add_task: push_back, nothing else. *)
add_task(t) ==
  /\ ready_queue' = Append(ready_queue, t)
  /\ UNCHANGED <<current, task_status>>

(* wakeup_task: the status becomes Ready even when the task is still the   *)
(* current one, see sys_sleep in KernelSync.                               *)
wakeup_task(t) ==
  /\ task_status' = [task_status EXCEPT ![t] = "Ready"]
  /\ ready_queue' = Append(ready_queue, t)
  /\ UNCHANGED current

(* A run of wakeup_task calls, for the tasks of w in that order. *)
wakeup_tasks(w) ==
  /\ task_status' = [t \in Task |-> IF t \in Range(w) THEN "Ready"
                                                      ELSE task_status[t]]
  /\ ready_queue' = ready_queue \o w
  /\ UNCHANGED current

(* suspend_current_and_run_next, after the tasks of w were woken (w is     *)
(* empty except in the timer trap): the task goes to the back of the queue *)
(* and the processor to the idle control flow.                             *)
suspend_current_and_run_next(t, w) ==
  /\ current = t
  /\ current' = NONE
  /\ task_status' = [u \in Task |-> IF u = t \/ u \in Range(w)
                                    THEN "Ready" ELSE task_status[u]]
  /\ ready_queue' = Append(ready_queue \o w, t)

(* block_current_and_run_next: the task is put nowhere; the caller has     *)
(* already registered it in the queue that will wake it.                   *)
block_current_and_run_next(t) ==
  /\ current = t
  /\ current' = NONE
  /\ task_status' = [task_status EXCEPT ![t] = "Blocked"]
  /\ UNCHANGED ready_queue

(* The scheduling part of exit_current_and_run_next: the task is taken off *)
(* the processor and never put back.                                       *)
leave_processor(t) ==
  /\ current = t
  /\ current' = NONE
  /\ UNCHANGED <<ready_queue, task_status>>

(* Mutant: fetch_task takes from the back of the queue. *)
run_task_pop_back(t) ==
  /\ current = NONE
  /\ ready_queue # <<>>
  /\ t = ready_queue[Len(ready_queue)]
  /\ ready_queue' = SubSeq(ready_queue, 1, Len(ready_queue) - 1)
  /\ current' = t
  /\ task_status' = [task_status EXCEPT ![t] = "Running"]

(* One iteration of run_tasks that finds a task.  The status of the task   *)
(* is overwritten, never inspected.                                        *)
run_task(t) ==
  /\ current = NONE
  /\ ready_queue # <<>>
  /\ t = Head(ready_queue)
  /\ ready_queue' = Tail(ready_queue)
  /\ current' = t
  /\ task_status' = [task_status EXCEPT ![t] = "Running"]
==============================================================================
