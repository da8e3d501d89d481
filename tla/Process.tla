------------------------------- MODULE Process -------------------------------
(***************************************************************************)
(* Processes and threads: the tables of os/src/task/process.rs and         *)
(* manager.rs, and the calls fork, exec, exit, waitpid, thread_create and  *)
(* waittid on top of the scheduler of Tasks.                               *)
(*                                                                         *)
(* A system call runs to its end, or to the point where it suspends,       *)
(* without a task switch, so it is one step.  A failed assert or an unwrap *)
(* of None stops the kernel (panicked).                                    *)
(*                                                                         *)
(* A process control block is named by its pid: the PidHandle inside gives *)
(* the pid back when the block is dropped, never before.  Exit codes, file *)
(* tables and the contents of memory are left out.  Calls that return an   *)
(* error change nothing here and are not steps.                            *)
(***************************************************************************)
EXTENDS Tasks, RecycleAllocator, FiniteSetsExt

CONSTANTS
  MaxPid,             \* bound: pids are 0..MaxPid-1
  MaxTid,             \* bound: thread ids are 0..MaxTid-1
  JoinsFirst,         \* programs: a main thread exits after its threads did
  ForksAfterThreads   \* programs: some fork or exec after they joined a thread

ASSUME ProcessAssumption ==
  /\ MaxPid \in Nat \ {0}
  /\ MaxTid \in Nat \ {0}
  /\ JoinsFirst \in BOOLEAN
  /\ ForksAfterThreads \in BOOLEAN

VARIABLES
  pid_allocator,   \* PID_ALLOCATOR
  pcb,             \* the process control blocks that exist, by pid
  pid2pcb,         \* PID2PCB: the pids in the map
  tcb,             \* the task control blocks that exist
  sleeping,        \* the tasks in TIMERS
  panicked         \* the kernel has stopped

proc_vars == <<pid_allocator, pcb, pid2pcb, tcb, sleeping, panicked>>
vars == <<sched_vars, proc_vars>>

Pid == 0..(MaxPid - 1)
Tid == 0..(MaxTid - 1)
INITPROC == 0

(* res: the TaskUserRes (user stack and trap context) is there.  in_call:  *)
(* the task is suspended inside sys_read or sys_write, with an Arc of its  *)
(* process on its kernel stack.                                            *)
TaskControlBlock == [process : Pid, tid : Tid, res : BOOLEAN,
                     exited : BOOLEAN, in_call : BOOLEAN]

(* tasks[i + 1] is the entry of thread id i.  areas: the thread ids whose  *)
(* user stack and trap context are mapped in memory_set.                   *)
ProcessControlBlock ==
  [is_zombie : BOOLEAN, parent : Pid \cup {NONE}, children : Seq(Pid),
   tasks : Seq(Task \cup {NONE}), tids : Allocator(Tid), areas : SUBSET Tid]

(* Option::None is no pid and no control block. *)
ASSUME NoneIsNoBlock ==
  NONE \notin Pid \cup TaskControlBlock /\ NONE \notin ProcessControlBlock

TypeOK ==
  /\ SchedTypeOK
  /\ pid_allocator \in Allocator(Pid)
  /\ pcb \in [Pid -> ProcessControlBlock \cup {NONE}]
  /\ pid2pcb \subseteq Pid
  /\ tcb \in [Task -> TaskControlBlock \cup {NONE}]
  /\ sleeping \subseteq Task
  /\ panicked \in BOOLEAN

------------------------------------------------------------------------------
(* What remove leaves of a Vec. *)
RemoveAt(s, i) == SubSeq(s, 1, i - 1) \o SubSeq(s, i + 1, Len(s))

------------------------------------------------------------------------------
(* What the objects refer to *)

Live == {p \in Pid : pcb[p] # NONE}

Threads(p) == Range(pcb[p].tasks) \ {NONE}

(* Arc::strong_count of a process: the map, the lists of children and the  *)
(* calls that are suspended.                                               *)
StrongCount(p) ==
    Cardinality({p} \cap pid2pcb)
  + Cardinality({e \in Live \X (1..MaxPid) :
                   /\ e[2] \in DOMAIN pcb[e[1]].children
                   /\ pcb[e[1]].children[e[2]] = p})
  + Cardinality({t \in Task : tcb[t] # NONE /\ tcb[t].process = p
                                           /\ tcb[t].in_call})

NewTask(p, i) == [process |-> p, tid |-> i, res |-> TRUE,
                  exited |-> FALSE, in_call |-> FALSE]

NewProcess(parent, t, areas) ==
  [is_zombie |-> FALSE, parent |-> parent, children |-> <<>>, tasks |-> <<t>>,
   tids |-> [current |-> 1, recycled |-> <<>>], areas |-> areas]

(* ProcessControlBlock::new of initproc, by main thread t. *)
Init ==
  \E t \in Task :
    /\ ready_queue = <<t>>
    /\ current = NONE
    /\ task_status = [u \in Task |-> "Ready"]
    /\ pid_allocator = [current |-> 1, recycled |-> <<>>]
    /\ pcb = [p \in Pid |-> IF p = INITPROC THEN NewProcess(NONE, t, {0})
                                            ELSE NONE]
    /\ pid2pcb = {INITPROC}
    /\ tcb = [u \in Task |-> IF u = t THEN NewTask(INITPROC, 0) ELSE NONE]
    /\ sleeping = {}
    /\ panicked = FALSE

Panic == panicked' = TRUE /\ UNCHANGED <<sched_vars, pid_allocator, pcb,
                                         pid2pcb, tcb, sleeping>>

(* Task t of process p runs in user mode. *)
User(t, p) ==
  /\ ~panicked
  /\ current = t
  /\ ~tcb[t].in_call
  /\ p = tcb[t].process

OnlyMain(p) == Threads(p) = {pcb[p].tasks[1]}

------------------------------------------------------------------------------
(* The processor *)

(* One iteration of run_tasks.  A task that is not inside a call goes to   *)
(* trap_return, which unwraps its res.                                     *)
RunTask(t) ==
  /\ ~panicked
  /\ run_task(t)
  /\ panicked' = (~tcb[t].in_call /\ ~tcb[t].res)
  /\ UNCHANGED <<pid_allocator, pcb, pid2pcb, tcb, sleeping>>

(* sys_yield, or the timer trap. *)
sys_yield(t) ==
  /\ User(t, tcb[t].process)
  /\ suspend_current_and_run_next(t, <<>>)
  /\ UNCHANGED proc_vars

(* sys_sleep: TIMERS holds the task.  initproc does not sleep. *)
sys_sleep(t) ==
  /\ User(t, tcb[t].process)
  /\ tcb[t].process # INITPROC
  /\ block_current_and_run_next(t)
  /\ sleeping' = sleeping \cup {t}
  /\ UNCHANGED <<pid_allocator, pcb, pid2pcb, tcb, panicked>>

check_timer(t) ==
  /\ ~panicked
  /\ t \in sleeping
  /\ wakeup_task(t)
  /\ sleeping' = sleeping \ {t}
  /\ UNCHANGED <<pid_allocator, pcb, pid2pcb, tcb, panicked>>

(* sys_read or sys_write of a pipe that is empty or full: the task         *)
(* suspends inside the call, which still holds `proc`.                     *)
sys_read(t) ==
  /\ User(t, tcb[t].process)
  /\ tcb[t].process # INITPROC
  /\ suspend_current_and_run_next(t, <<>>)
  /\ tcb' = [tcb EXCEPT ![t].in_call = TRUE]
  /\ UNCHANGED <<pid_allocator, pcb, pid2pcb, sleeping, panicked>>

(* The call goes on: the pipe is still empty or full, ... *)
CallAgain(t) ==
  /\ ~panicked
  /\ current = t
  /\ tcb[t].in_call
  /\ suspend_current_and_run_next(t, <<>>)
  /\ UNCHANGED proc_vars

(* ... or the call returns, again to trap_return. *)
CallReturns(t) ==
  /\ ~panicked
  /\ current = t
  /\ tcb[t].in_call
  /\ tcb' = [tcb EXCEPT ![t].in_call = FALSE]
  /\ panicked' = ~tcb[t].res
  /\ UNCHANGED <<sched_vars, pid_allocator, pcb, pid2pcb, sleeping>>

------------------------------------------------------------------------------
(* Processes *)

(* The programs fork and exec with one thread.  initproc forks the shell   *)
(* and from then on only waits.                                            *)
MayFork(p) ==
  /\ p = INITPROC => pid_allocator.current = 1
  /\ Len(pcb[p].tasks) = 1 \/ (ForksAfterThreads /\ OnlyMain(p))

(* sys_fork: fork asserts one thread, copies the memory, and the child     *)
(* gets a main thread of its own.                                          *)
sys_fork(t) ==
  LET p == tcb[t].process
      c == Allocated(pid_allocator)
  IN
  /\ User(t, p)
  /\ MayFork(p)
  /\ c < MaxPid
  /\ IF Len(pcb[p].tasks) # 1
     THEN Panic
     ELSE /\ \E u \in Task :
               /\ tcb[u] = NONE
               /\ pcb' = [pcb EXCEPT ![p].children = Append(@, c),
                                     ![c] = NewProcess(p, u, pcb[p].areas)]
               /\ tcb' = [tcb EXCEPT ![u] = NewTask(c, 0)]
               /\ add_task(u)
          /\ pid_allocator' = alloc(pid_allocator)
          /\ pid2pcb' = pid2pcb \cup {c}
          /\ UNCHANGED <<sleeping, panicked>>

(* sys_exec of a file that exists: a new memory set, in which the main     *)
(* thread gets its stack and trap context again.                           *)
sys_exec(t) ==
  LET p == tcb[t].process IN
  /\ User(t, p)
  /\ p # INITPROC
  /\ MayFork(p)
  /\ IF Len(pcb[p].tasks) # 1
     THEN Panic
     ELSE /\ pcb' = [pcb EXCEPT ![p].areas = {0}]
          /\ UNCHANGED <<sched_vars, pid_allocator, pid2pcb, tcb, sleeping,
                         panicked>>

(* The end of a main thread: exit_current_and_run_next with tid 0.         *)
(*  - the children go to initproc, behind its own;                         *)
(*  - the resources of all threads are freed;                              *)
(*  - the other threads are popped from the table.  A task control block   *)
(*    that no queue holds is dropped; one in the ready queue or in TIMERS  *)
(*    stays there.                                                         *)
Zombie(p) == [pcb[p] EXCEPT !.is_zombie = TRUE, !.children = <<>>,
                            !.areas = {}, !.tasks = SubSeq(@, 1, 1)]

(* Mutant: the children keep their parent. *)
Reparented_lists_only(p) ==
  [q \in Pid |->
     IF q = p THEN Zombie(p)
     ELSE IF q = INITPROC
     THEN [pcb[q] EXCEPT !.children = @ \o pcb[p].children]
     ELSE pcb[q]]

(* Mutant: the list of children is handed over and not cleared. *)
Reparented_not_cleared(p) ==
  [q \in Pid |->
     IF q = p THEN [Zombie(p) EXCEPT !.children = pcb[p].children]
     ELSE IF q = INITPROC
     THEN [pcb[q] EXCEPT !.children = @ \o pcb[p].children]
     ELSE IF q \in Range(pcb[p].children)
     THEN [pcb[q] EXCEPT !.parent = INITPROC]
     ELSE pcb[q]]

Reparented(p) ==
  [q \in Pid |->
     IF q = p THEN Zombie(p)
     ELSE IF q = INITPROC
     THEN [pcb[q] EXCEPT !.children = @ \o pcb[p].children]
     ELSE IF q \in Range(pcb[p].children)
     THEN [pcb[q] EXCEPT !.parent = INITPROC]
     ELSE pcb[q]]

MayEnd(p) == p # INITPROC /\ (JoinsFirst => \A u \in Threads(p) :
                                tcb[u].tid = 0 \/ tcb[u].exited)

EndedTasks(t, p) ==
  [u \in Task |->
     IF u = t THEN [tcb[t] EXCEPT !.res = FALSE, !.exited = TRUE]
     ELSE IF u \notin Threads(p) THEN tcb[u]
     ELSE IF tcb[u].exited THEN NONE
     ELSE [tcb[u] EXCEPT !.res = FALSE]]

exit_main(t) ==
  LET p == tcb[t].process IN
  /\ User(t, p)
  /\ tcb[t].tid = 0
  /\ MayEnd(p)
  /\ IF p \notin pid2pcb
     THEN Panic
     ELSE /\ pid2pcb' = pid2pcb \ {p}
          /\ pcb' = Reparented(p)
          /\ tcb' = EndedTasks(t, p)
          /\ leave_processor(t)
          /\ UNCHANGED <<pid_allocator, sleeping, panicked>>

(* The entries of the list that match; pid NONE is -1. *)
Matching(p, pid) ==
  {i \in DOMAIN pcb[p].children : pid = NONE \/ pcb[p].children[i] = pid}

(* Mutant: the last entry. *)
FirstChild_last(p, pid) ==
  IF Matching(p, pid) = {} THEN 0 ELSE Max(Matching(p, pid))

(* The first of them, as find does, or 0. *)
FirstChild(p, pid) ==
  IF Matching(p, pid) = {} THEN 0 ELSE Min(Matching(p, pid))

(* sys_waitpid that finds a zombie: the assert on the reference count,     *)
(* then the block, its main thread's task control block and the pid go.    *)
sys_waitpid(t, pid) ==
  LET p == tcb[t].process
      i == FirstChild(p, pid)
      c == pcb[p].children[i]
  IN
  /\ User(t, p)
  /\ p = INITPROC => pid = NONE
  /\ i # 0
  /\ pcb[c].is_zombie
  /\ IF StrongCount(c) # 1 \/ ~dealloc_assert(pid_allocator, c)
     THEN Panic
     ELSE /\ pcb' = [pcb EXCEPT ![p].children = RemoveAt(@, i), ![c] = NONE]
          /\ tcb' = [u \in Task |-> IF u \in Threads(c) THEN NONE ELSE tcb[u]]
          /\ pid_allocator' = dealloc(pid_allocator, c)
          /\ UNCHANGED <<sched_vars, pid2pcb, sleeping, panicked>>

------------------------------------------------------------------------------
(* Threads *)

(* tasks[i] = Some(t), after the table was filled up with None. *)
Placed(tasks, i, t) ==
  [k \in 1..(IF i + 1 > Len(tasks) THEN i + 1 ELSE Len(tasks)) |->
     IF k = i + 1 THEN t ELSE IF k <= Len(tasks) THEN tasks[k] ELSE NONE]

(* sys_thread_create.  Mapping a user stack over one that is there fails   *)
(* an assert of the page table.                                            *)
sys_thread_create(t) ==
  LET p == tcb[t].process
      i == Allocated(pcb[p].tids)
  IN
  /\ User(t, p)
  /\ p # INITPROC
  /\ i < MaxTid
  /\ IF i \in pcb[p].areas
     THEN Panic
     ELSE /\ \E u \in Task :
               /\ tcb[u] = NONE
               /\ tcb' = [tcb EXCEPT ![u] = NewTask(p, i)]
               /\ pcb' = [pcb EXCEPT ![p].tids = alloc(@),
                                     ![p].areas = @ \cup {i},
                                     ![p].tasks = Placed(@, i, u)]
               /\ add_task(u)
          /\ UNCHANGED <<pid_allocator, pid2pcb, sleeping, panicked>>

(* Mutant: the Drop of TaskUserRes gives the thread id back. *)
exit_thread_frees_tid(t) ==
  LET p == tcb[t].process IN
  /\ User(t, p)
  /\ tcb[t].tid # 0
  /\ tcb' = [tcb EXCEPT ![t].res = FALSE, ![t].exited = TRUE]
  /\ pcb' = [pcb EXCEPT ![p].areas = @ \ {tcb[t].tid},
                        ![p].tids = dealloc(@, tcb[t].tid)]
  /\ leave_processor(t)
  /\ UNCHANGED <<pid_allocator, pid2pcb, sleeping, panicked>>

(* Mutant: the user stack stays mapped. *)
exit_thread_keeps_area(t) ==
  LET p == tcb[t].process IN
  /\ User(t, p)
  /\ tcb[t].tid # 0
  /\ tcb' = [tcb EXCEPT ![t].res = FALSE, ![t].exited = TRUE]
  /\ leave_processor(t)
  /\ UNCHANGED <<pid_allocator, pcb, pid2pcb, sleeping, panicked>>

(* exit_current_and_run_next of another thread: the task control block and *)
(* the thread id stay until sys_waittid.                                   *)
exit_thread(t) ==
  LET p == tcb[t].process IN
  /\ User(t, p)
  /\ tcb[t].tid # 0
  /\ tcb' = [tcb EXCEPT ![t].res = FALSE, ![t].exited = TRUE]
  /\ pcb' = [pcb EXCEPT ![p].areas = @ \ {tcb[t].tid}]
  /\ leave_processor(t)
  /\ UNCHANGED <<pid_allocator, pid2pcb, sleeping, panicked>>

(* Mutant: the slot of the thread is kept. *)
sys_waittid_keeps_slot(t, i) ==
  LET p == tcb[t].process IN
  /\ User(t, p)
  /\ i # tcb[t].tid
  /\ i + 1 \in DOMAIN pcb[p].tasks
  /\ pcb[p].tasks[i + 1] # NONE
  /\ tcb[pcb[p].tasks[i + 1]].exited
  /\ pcb' = [pcb EXCEPT ![p].tids = dealloc(@, i)]
  /\ UNCHANGED <<sched_vars, pid_allocator, pid2pcb, tcb, sleeping, panicked>>

(* sys_waittid that finds an exited thread. *)
sys_waittid(t, i) ==
  LET p == tcb[t].process IN
  /\ User(t, p)
  /\ i # tcb[t].tid
  /\ i + 1 \in DOMAIN pcb[p].tasks
  /\ pcb[p].tasks[i + 1] # NONE
  /\ tcb[pcb[p].tasks[i + 1]].exited
  /\ IF ~dealloc_assert(pcb[p].tids, i)
     THEN Panic
     ELSE /\ pcb' = [pcb EXCEPT ![p].tasks[i + 1] = NONE,
                                ![p].tids = dealloc(@, i)]
          /\ tcb' = [tcb EXCEPT ![pcb[p].tasks[i + 1]] = NONE]
          /\ UNCHANGED <<sched_vars, pid_allocator, pid2pcb, sleeping,
                         panicked>>

------------------------------------------------------------------------------
Next ==
  \E t \in Task :
    \/ RunTask(t)
    \/ sys_yield(t)
    \/ sys_sleep(t)
    \/ check_timer(t)
    \/ sys_read(t)
    \/ CallAgain(t)
    \/ CallReturns(t)
    \/ sys_fork(t)
    \/ sys_exec(t)
    \/ exit_main(t)
    \/ \E pid \in Pid \cup {NONE} : sys_waitpid(t, pid)
    \/ sys_thread_create(t)
    \/ exit_thread(t)
    \/ \E i \in Tid : sys_waittid(t, i)

Spec == Init /\ [][Next]_vars

(* The timer takes the processor away from a task in user mode, a call     *)
(* goes on, the dispatch loop runs, and initproc waits in a loop: it does  *)
(* not lose the processor to the timer before every single call.           *)
Fairness ==
  /\ WF_vars(\E t \in Task : RunTask(t))
  /\ WF_vars(\E t \in Task : sys_yield(t))
  /\ WF_vars(\E t \in Task : CallAgain(t))
  /\ SF_vars(\E t \in Task : t \in Threads(INITPROC) /\ sys_waitpid(t, NONE))

LiveSpec == Spec /\ Fairness

------------------------------------------------------------------------------
(* Properties *)

Occurrences(s, x) == {i \in DOMAIN s : s[i] = x}

(* The processes form a tree below initproc: every other process is in     *)
(* exactly one list of children, once, and that is the list of the process *)
(* its parent field names, which has not ended.  fork, exit with its       *)
(* reparenting and waitpid change lists and fields separately.  A pid is   *)
(* out exactly while a process control block carries it, and the map has   *)
(* exactly the processes that have not ended: sys_kill reaches no zombie   *)
(* and no other process under an old pid.                                  *)
ProcessTree ==
  /\ TypeOK
  /\ \A p \in Live \ {INITPROC} :
       /\ pcb[p].parent \in Live
       /\ ~pcb[pcb[p].parent].is_zombie
       /\ \A q \in Live : Cardinality(Occurrences(pcb[q].children, p)) =
                            IF q = pcb[p].parent THEN 1 ELSE 0
  /\ InUse(pid_allocator) = Live
  /\ pid2pcb = {p \in Live : ~pcb[p].is_zombie}

(* The reference count that sys_waitpid asserts: once a process has ended, *)
(* only its parent holds it.                                               *)
WaitpidAssert ==
  \A p \in Live : pcb[p].is_zombie => StrongCount(p) = 1

(* The task control blocks exist as long as something uses them.  A thread *)
(* that has not ended is in one of the ready queue, the processor and      *)
(* TIMERS, and in the table of a process that has not ended; one that has  *)
(* ended is in none of the three.                                          *)
TasksPlaced ==
  \A t \in Task :
    Cardinality(Occurrences(ready_queue, t))
      + Cardinality({t} \cap {current}) + Cardinality({t} \cap sleeping) =
    IF tcb[t] # NONE /\ ~tcb[t].exited
       /\ tcb[t].process \in pid2pcb /\ t \in Threads(tcb[t].process)
    THEN 1 ELSE 0

(* In a process that has not ended the thread ids that are out are those   *)
(* of the table, every entry names its own thread, and the mapped stacks   *)
(* are those of the threads that have not ended.  Tasks are placed as      *)
(* above, so no kernel stack goes away under its thread.                   *)
ThreadTable ==
  /\ TasksPlaced
  /\ \A p \in Live : ~pcb[p].is_zombie =>
       /\ InUse(pcb[p].tids) = {i \in Tid : i + 1 \in DOMAIN pcb[p].tasks
                                            /\ pcb[p].tasks[i + 1] # NONE}
       /\ \A i \in InUse(pcb[p].tids) :
            LET t == pcb[p].tasks[i + 1] IN
            /\ tcb[t].process = p /\ tcb[t].tid = i
            /\ tcb[t].res = (i \in pcb[p].areas)
            /\ tcb[t].exited = (i \notin pcb[p].areas)

(* No assert and no unwrap in these calls fails. *)
NoPanic == ~panicked

(* A task that returns to user mode has its trap context: trap_return      *)
(* unwraps res (current_trap_cx_user_va).                                  *)
ReturnsWithRes ==
  current # NONE /\ ~tcb[current].in_call => tcb[current].res

(* The comment in sys_waittid: "we should not recycle tid too early, or    *)
(* until wait success or process exit".  The entry of a thread is never    *)
(* given to another thread in one step, and it is emptied only after that  *)
(* thread has ended, by another thread of the process.                     *)
TidKeptUntilWait ==
  [][\A p \in Live : \A k \in DOMAIN pcb[p].tasks :
       pcb[p].tasks[k] # NONE /\ pcb'[p] # NONE /\ ~pcb'[p].is_zombie =>
         \/ pcb'[p].tasks[k] = pcb[p].tasks[k]
         \/ /\ pcb'[p].tasks[k] = NONE
            /\ tcb[pcb[p].tasks[k]].exited
            /\ current \in Threads(p) \ {pcb[p].tasks[k]}]_vars

(* initproc reaps: a zombie at the head of its list of children is freed.  *)
(* sys_waitpid(-1) looks at the head only, so a zombie behind a process    *)
(* that runs on is not covered.                                            *)
HeadReaped ==
  \A p \in Pid :
    (/\ pcb[INITPROC].children # <<>>
     /\ p = Head(pcb[INITPROC].children)
     /\ pcb[p].is_zombie) ~> (pcb[p] = NONE)
==============================================================================
