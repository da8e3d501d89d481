------------------------------ MODULE KernelSync ------------------------------
(***************************************************************************)
(* Tasks that synchronise through the kernel: MutexBlocking, MutexSpin,    *)
(* Semaphore, Condvar (os/src/sync), sys_sleep and the timer heap          *)
(* (os/src/timer.rs), the traps that drive them (os/src/trap/mod.rs), on   *)
(* top of the scheduler of module Tasks.                                   *)
(*                                                                         *)
(* The kernel is not preemptive: inside a system call only an interrupt    *)
(* can run, and trap_from_kernel wakes tasks but never switches.  A system *)
(* call is cut into one step per stretch of code during which interrupts   *)
(* are masked or no interrupt can observe or change what the stretch uses. *)
(***************************************************************************)
EXTENDS Tasks

CONSTANTS
  INITPROC,        \* the main thread of the initial process
  BlockingMutex,   \* mutexes created with blocking = true
  SpinMutex,       \* mutexes created with blocking = false
  Semaphore,
  Condvar,
  ResCount,        \* the res_count every semaphore is created with
  MaxCount,        \* bound: a semaphore is not raised above this count
  MaxTime,         \* bound: the last value of the millisecond clock
  Disciplined      \* TRUE: a task unlocks only a mutex it holds

Mutex == BlockingMutex \cup SpinMutex
WaitObject == BlockingMutex \cup Semaphore \cup Condvar

ASSUME SyncAssumption ==
  /\ INITPROC \in Task
  /\ NONE \notin Mutex \cup Condvar
  /\ BlockingMutex \cap SpinMutex = {}
  /\ BlockingMutex \cap Semaphore = {}
  /\ BlockingMutex \cap Condvar = {}
  /\ Semaphore \cap Condvar = {}
  /\ {"ready", "timer"} \cap WaitObject = {}
  /\ ResCount \in Nat
  /\ MaxCount \in Nat
  /\ MaxTime \in Nat
  /\ Disciplined \in BOOLEAN

VARIABLES
  kpc,           \* where each task stands in user or kernel code
  mutex_arg,     \* the mutex of a lock() or wait() in progress, by task
  condvar_arg,   \* the condvar of a wait() in progress, by task
  sie,           \* sstatus.SIE: does the kernel take interrupts
  locked,        \* the locked field of each mutex
  count,         \* SemaphoreInner::count
  wait_queue,    \* the VecDeque of waiting tasks of each object
  timers,        \* TIMERS, the heap of TimerCondVar
  now,           \* get_time_ms()
  held           \* history: the mutexes whose lock() was granted to a task

sync_vars == <<locked, count, wait_queue, held>>
time_vars == <<timers, now>>
arg_vars  == <<mutex_arg, condvar_arg>>
vars == <<sched_vars, kpc, arg_vars, sie, sync_vars, time_vars>>

(* user: user mode, or the tail of a trap that only returns there;         *)
(* syscall: inside syscall() before its first critical section;            *)
(* lock: in Mutex::lock with the mutex still to be taken; cvwait: in       *)
(* Condvar::wait with the mutex released; block, block_cv: queued, about   *)
(* to call block_current_and_run_next (block_cv: from Condvar::wait).      *)
KernelPC == {"unborn", "user", "syscall", "lock", "cvwait", "block",
             "block_cv", "exited"}

Timer == [expire_ms : 0..MaxTime, task : Task]

TypeOK ==
  /\ SchedTypeOK
  /\ kpc \in [Task -> KernelPC]
  /\ mutex_arg \in [Task -> Mutex \cup {NONE}]
  /\ condvar_arg \in [Task -> Condvar \cup {NONE}]
  /\ sie \in BOOLEAN
  /\ locked \in [Mutex -> BOOLEAN]
  /\ count \in [Semaphore -> Int]
  /\ wait_queue \in [WaitObject -> Seq(Task)]
  /\ timers \in SUBSET Timer
  /\ IsFiniteSet(timers)
  /\ now \in 0..MaxTime
  /\ held \in [Task -> SUBSET Mutex]

(* rust_main: add_initproc puts the main thread of initproc in the queue   *)
(* and run_tasks starts.                                                   *)
Init ==
  /\ ready_queue = <<INITPROC>>
  /\ current = NONE
  /\ task_status = [t \in Task |-> "Ready"]
  /\ kpc = [t \in Task |-> IF t = INITPROC THEN "user" ELSE "unborn"]
  /\ mutex_arg = [t \in Task |-> NONE]
  /\ condvar_arg = [t \in Task |-> NONE]
  /\ sie = FALSE
  /\ locked = [m \in Mutex |-> FALSE]
  /\ count = [s \in Semaphore |-> ResCount]
  /\ wait_queue = [o \in WaitObject |-> <<>>]
  /\ timers = {}
  /\ now = 0
  /\ held = [t \in Task |-> {}]

------------------------------------------------------------------------------
(* Entering and leaving the kernel. *)

(* trap_handler on UserEnvCall: interrupts are enabled before syscall().   *)
SyscallEnter(t) ==
  /\ current = t
  /\ kpc[t] = "user"
  /\ kpc' = [kpc EXCEPT ![t] = "syscall"]
  /\ sie' = TRUE
  /\ UNCHANGED <<sched_vars, arg_vars, sync_vars, time_vars>>

(* The end of trap_handler and trap_return, which clears SIE. *)
trap_return(t) ==
  /\ kpc' = [kpc EXCEPT ![t] = "user"]
  /\ mutex_arg' = [mutex_arg EXCEPT ![t] = NONE]
  /\ condvar_arg' = [condvar_arg EXCEPT ![t] = NONE]
  /\ sie' = FALSE

InSyscall(t) == current = t /\ kpc[t] = "syscall"

(* initproc forks a shell and then waits and yields for ever: it never     *)
(* takes a system call that blocks, and never exits.                       *)
MayBlock(t) == t # INITPROC

(* A system call that changes none of this state: the -1 returns for an    *)
(* id that is not in mutex_list, semaphore_list or condvar_list.           *)
SysNoEffect(t) ==
  /\ InSyscall(t)
  /\ trap_return(t)
  /\ UNCHANGED <<sched_vars, sync_vars, time_vars>>

sys_yield(t) ==
  /\ InSyscall(t)
  /\ suspend_current_and_run_next(t, <<>>)
  /\ kpc' = [kpc EXCEPT ![t] = "user"]
  /\ UNCHANGED <<arg_vars, sie, sync_vars, time_vars>>

(* Mutant: a task control block that exited is queued again. *)
Spawn_revives(t, u) ==
  /\ InSyscall(t)
  /\ kpc[u] \in {"unborn", "exited"}
  /\ add_task(u)
  /\ kpc' = [kpc EXCEPT ![t] = "user", ![u] = "user"]
  /\ sie' = FALSE
  /\ UNCHANGED <<arg_vars, sync_vars, time_vars>>

(* sys_fork and sys_thread_create, as far as the scheduler sees them. *)
Spawn(t, u) ==
  /\ InSyscall(t)
  /\ kpc[u] = "unborn"
  /\ add_task(u)
  /\ kpc' = [kpc EXCEPT ![t] = "user", ![u] = "user"]
  /\ sie' = FALSE
  /\ UNCHANGED <<arg_vars, sync_vars, time_vars>>

(* sys_exit, entered with interrupts enabled, and the exit of trap_handler *)
(* after a fault, entered with interrupts disabled: SIE stays as it is.    *)
(* Mutexes held stay locked and permits taken stay taken.                  *)
Exit(t) ==
  /\ MayBlock(t)
  /\ current = t
  /\ kpc[t] \in {"syscall", "user"}
  /\ leave_processor(t)
  /\ kpc' = [kpc EXCEPT ![t] = "exited"]
  /\ UNCHANGED <<arg_vars, sie, sync_vars, time_vars>>

(* The second half of every blocking call: take_current, Blocked, switch.  *)
(* A timer interrupt may have run since the task was queued.               *)
BlockCurrent(t) ==
  /\ kpc[t] \in {"block", "block_cv"}
  /\ block_current_and_run_next(t)
  /\ kpc' = [kpc EXCEPT ![t] = IF kpc[t] = "block" THEN "user" ELSE "lock"]
  /\ condvar_arg' = [condvar_arg EXCEPT ![t] = NONE]
  /\ UNCHANGED <<mutex_arg, sie, sync_vars, time_vars>>

(* run_tasks switches to the task; a task that has nothing left to do in   *)
(* the kernel returns to user mode, the others go on with the SIE that the *)
(* previous task left.                                                     *)
RunTask(t) ==
  /\ run_task(t)
  /\ sie' = IF kpc[t] = "user" THEN FALSE ELSE sie
  /\ UNCHANGED <<kpc, arg_vars, sync_vars, time_vars>>

------------------------------------------------------------------------------
(* Mutex *)

(* The queueing half of a blocking call on object o. *)
Enqueue(t, o, pc) ==
  /\ wait_queue' = [wait_queue EXCEPT ![o] = Append(@, t)]
  /\ kpc' = [kpc EXCEPT ![t] = pc]

(* Mutex::lock, one round: take a free mutex; a locked MutexBlocking       *)
(* queues the task; a locked MutexSpin yields and tries again.             *)
LockTakes(t, m) ==
  /\ ~locked[m]
  /\ locked' = [locked EXCEPT ![m] = TRUE]
  /\ held' = [held EXCEPT ![t] = @ \cup {m}]
  /\ trap_return(t)
  /\ UNCHANGED <<sched_vars, count, wait_queue, time_vars>>

LockQueues(t, m) ==
  /\ m \in BlockingMutex
  /\ locked[m]
  /\ Enqueue(t, m, "block")
  /\ mutex_arg' = [mutex_arg EXCEPT ![t] = NONE]
  /\ UNCHANGED <<sched_vars, condvar_arg, sie, locked, count, held, time_vars>>

LockYields(t, m) ==
  /\ m \in SpinMutex
  /\ locked[m]
  /\ suspend_current_and_run_next(t, <<>>)
  /\ kpc' = [kpc EXCEPT ![t] = "lock"]
  /\ mutex_arg' = [mutex_arg EXCEPT ![t] = m]
  /\ UNCHANGED <<condvar_arg, sie, sync_vars, time_vars>>

lock(t, m) == LockTakes(t, m) \/ LockQueues(t, m) \/ LockYields(t, m)

sys_mutex_lock(t, m) == InSyscall(t) /\ MayBlock(t) /\ lock(t, m)

(* The next round of MutexSpin::lock, or the lock() that ends              *)
(* Condvar::wait.                                                          *)
LockAgain(t) == current = t /\ kpc[t] = "lock" /\ lock(t, mutex_arg[t])

(* What the programs promise: the kernel does not check the owner. *)
MayUnlock(t, m) == Disciplined => m \in held[t]

(* MutexBlocking::unlock asserts that the mutex is locked. *)
unlock_assert(m) == m \in BlockingMutex => locked[m]

(* Mutants: unlock clears locked although it wakes a waiter; unlock takes  *)
(* the last waiter.                                                        *)
HandOver_unlocks(t, m) ==
  /\ m \in BlockingMutex
  /\ wait_queue[m] # <<>>
  /\ LET next == Head(wait_queue[m]) IN
       /\ wakeup_task(next)
       /\ held' = [u \in Task |->
                    (IF u = t THEN held[u] \ {m} ELSE held[u])
                      \cup (IF u = next THEN {m} ELSE {})]
  /\ wait_queue' = [wait_queue EXCEPT ![m] = Tail(@)]
  /\ locked' = [locked EXCEPT ![m] = FALSE]
  /\ UNCHANGED count

HandOver_pop_back(t, m) ==
  /\ m \in BlockingMutex
  /\ wait_queue[m] # <<>>
  /\ LET n == Len(wait_queue[m]) IN
       /\ wakeup_task(wait_queue[m][n])
       /\ held' = [u \in Task |->
                    (IF u = t THEN held[u] \ {m} ELSE held[u])
                      \cup (IF u = wait_queue[m][n] THEN {m} ELSE {})]
       /\ wait_queue' = [wait_queue EXCEPT ![m] = SubSeq(@, 1, n - 1)]
  /\ UNCHANGED <<locked, count>>

(* Mutex::unlock: MutexBlocking hands the mutex over to its first waiter,  *)
(* leaving it locked.                                                      *)
HandOver(t, m) ==
  /\ m \in BlockingMutex
  /\ wait_queue[m] # <<>>
  /\ LET next == Head(wait_queue[m]) IN
       /\ wakeup_task(next)
       /\ held' = [u \in Task |->
                    (IF u = t THEN held[u] \ {m} ELSE held[u])
                      \cup (IF u = next THEN {m} ELSE {})]
  /\ wait_queue' = [wait_queue EXCEPT ![m] = Tail(@)]
  /\ UNCHANGED <<locked, count>>

Release(t, m) ==
  /\ m \in BlockingMutex => wait_queue[m] = <<>>
  /\ locked' = [locked EXCEPT ![m] = FALSE]
  /\ held' = [held EXCEPT ![t] = @ \ {m}]
  /\ UNCHANGED <<sched_vars, count, wait_queue>>

unlock(t, m) == unlock_assert(m) /\ (HandOver(t, m) \/ Release(t, m))

sys_mutex_unlock(t, m) ==
  /\ InSyscall(t)
  /\ MayBlock(t)
  /\ MayUnlock(t, m)
  /\ unlock(t, m)
  /\ trap_return(t)
  /\ UNCHANGED time_vars

------------------------------------------------------------------------------
(* Semaphore and Condvar *)

(* Mutant: front() in place of pop_front(). *)
WakeFirst_front(o) ==
  IF wait_queue[o] = <<>>
  THEN UNCHANGED <<sched_vars, wait_queue>>
  ELSE wakeup_task(Head(wait_queue[o])) /\ UNCHANGED wait_queue

(* Wakes the first waiter of o, if there is one. *)
WakeFirst(o) ==
  IF wait_queue[o] = <<>>
  THEN UNCHANGED <<sched_vars, wait_queue>>
  ELSE /\ wakeup_task(Head(wait_queue[o]))
       /\ wait_queue' = [wait_queue EXCEPT ![o] = Tail(@)]

sys_semaphore_up(t, s) ==
  /\ InSyscall(t)
  /\ MayBlock(t)
  /\ count[s] < MaxCount
  /\ count' = [count EXCEPT ![s] = @ + 1]
  /\ WakeFirst(s)
  /\ trap_return(t)
  /\ UNCHANGED <<locked, held, time_vars>>

(* Mutant: count <= 0 in place of count < 0. *)
sys_semaphore_down_le(t, s) ==
  /\ InSyscall(t)
  /\ MayBlock(t)
  /\ count' = [count EXCEPT ![s] = @ - 1]
  /\ IF count[s] - 1 <= 0
     THEN /\ Enqueue(t, s, "block")
          /\ UNCHANGED <<arg_vars, sie>>
     ELSE /\ trap_return(t)
          /\ UNCHANGED wait_queue
  /\ UNCHANGED <<sched_vars, locked, held, time_vars>>

sys_semaphore_down(t, s) ==
  /\ InSyscall(t)
  /\ MayBlock(t)
  /\ count' = [count EXCEPT ![s] = @ - 1]
  /\ IF count[s] - 1 < 0
     THEN /\ Enqueue(t, s, "block")
          /\ UNCHANGED <<arg_vars, sie>>
     ELSE /\ trap_return(t)
          /\ UNCHANGED wait_queue
  /\ UNCHANGED <<sched_vars, locked, held, time_vars>>

sys_condvar_signal(t, c) ==
  /\ InSyscall(t)
  /\ MayBlock(t)
  /\ WakeFirst(c)
  /\ trap_return(t)
  /\ UNCHANGED <<locked, count, held, time_vars>>

(* Condvar::wait up to mutex.unlock(). *)
sys_condvar_wait(t, c, m) ==
  /\ InSyscall(t)
  /\ MayBlock(t)
  /\ MayUnlock(t, m)
  /\ unlock(t, m)
  /\ kpc' = [kpc EXCEPT ![t] = "cvwait"]
  /\ mutex_arg' = [mutex_arg EXCEPT ![t] = m]
  /\ condvar_arg' = [condvar_arg EXCEPT ![t] = c]
  /\ UNCHANGED <<sie, time_vars>>

(* Condvar::wait joins the queue of the condvar. *)
CondvarEnqueue(t) ==
  /\ current = t
  /\ kpc[t] = "cvwait"
  /\ Enqueue(t, condvar_arg[t], "block_cv")
  /\ UNCHANGED <<sched_vars, arg_vars, sie, locked, count, held, time_vars>>

------------------------------------------------------------------------------
(* Time *)

(* add_timer; the timer may expire, and the task be woken, before          *)
(* BlockCurrent.                                                           *)
sys_sleep(t, ms) ==
  /\ InSyscall(t)
  /\ MayBlock(t)
  /\ now + ms <= MaxTime
  /\ timers' = timers \cup {[expire_ms |-> now + ms, task |-> t]}
  /\ kpc' = [kpc EXCEPT ![t] = "block"]
  /\ UNCHANGED <<sched_vars, arg_vars, sie, sync_vars, now>>

Tick ==
  /\ now < MaxTime
  /\ now' = now + 1
  /\ UNCHANGED <<sched_vars, kpc, arg_vars, sie, sync_vars, timers>>

Expired == {r \in timers : r.expire_ms <= now}

(* The orders in which check_timer can pop the expired timers: earliest    *)
(* first, equal ones in any order (the heap does not say).                 *)
WakeOrders ==
  {[i \in DOMAIN s |-> s[i].task] :
     s \in {b \in Bijection(1..Cardinality(Expired), Expired) :
              \A i, j \in DOMAIN b : i < j => b[i].expire_ms <= b[j].expire_ms}}

(* check_timer pops every expired timer. *)
PopExpired == timers' = timers \ Expired

(* Mutant: the timer trap of user mode forgets check_timer. *)
UserTimer_no_check(t) ==
  /\ current = t
  /\ kpc[t] = "user"
  /\ suspend_current_and_run_next(t, <<>>)
  /\ sie' = FALSE
  /\ UNCHANGED <<kpc, arg_vars, sync_vars, time_vars>>

(* trap_handler on SupervisorTimer in user mode: check_timer, then the     *)
(* task is preempted; SIE was cleared by the trap.                         *)
UserTimer(t) ==
  /\ current = t
  /\ kpc[t] = "user"
  /\ \E w \in WakeOrders : suspend_current_and_run_next(t, w)
  /\ PopExpired
  /\ sie' = FALSE
  /\ UNCHANGED <<kpc, arg_vars, sync_vars, now>>

(* trap_from_kernel on SupervisorTimer, in the idle loop or in the middle  *)
(* of a system call: check_timer and back.                                 *)
KernelTimer ==
  /\ sie
  /\ current # NONE => kpc[current] # "user"
  /\ \E w \in WakeOrders : wakeup_tasks(w)
  /\ PopExpired
  /\ UNCHANGED <<kpc, arg_vars, sie, sync_vars, now>>

------------------------------------------------------------------------------
(* Everything a task may do inside the kernel once it is there. *)
KernelStep(t) ==
  \/ SysNoEffect(t)
  \/ sys_yield(t)
  \/ \E u \in Task : Spawn(t, u)
  \/ kpc[t] = "syscall" /\ Exit(t)
  \/ BlockCurrent(t)
  \/ \E m \in Mutex : sys_mutex_lock(t, m) \/ sys_mutex_unlock(t, m)
  \/ LockAgain(t)
  \/ \E s \in Semaphore : sys_semaphore_up(t, s) \/ sys_semaphore_down(t, s)
  \/ \E c \in Condvar : sys_condvar_signal(t, c)
  \/ \E c \in Condvar, m \in Mutex : sys_condvar_wait(t, c, m)
  \/ CondvarEnqueue(t)
  \/ \E ms \in 0..MaxTime : sys_sleep(t, ms)

Next ==
  \/ \E t \in Task :
       \/ SyscallEnter(t)
       \/ kpc[t] = "user" /\ Exit(t)
       \/ KernelStep(t)
       \/ RunTask(t)
       \/ UserTimer(t)
  \/ KernelTimer
  \/ Tick

Spec == Init /\ [][Next]_vars

(* Kernel code runs on, the idle loop polls the queue, the clock advances. *)
(* The timer interrupt is pending until it is taken, so it is taken if it  *)
(* can be again and again; it is not synchronised with the system calls of *)
(* a task, so it does not find that task in the kernel every time.         *)
Fairness ==
  /\ \A t \in Task : /\ WF_vars(KernelStep(t))
                     /\ WF_vars(RunTask(t))
                     /\ SF_vars(UserTimer(t))
  /\ WF_vars(Tick)

FairSpec == Spec /\ Fairness

------------------------------------------------------------------------------
(* Properties *)

(* The queues a task can sit in, and the tasks in each. *)
Place == {"ready", "timer"} \cup WaitObject
Members(p) ==
  IF p = "ready" THEN Range(ready_queue)
  ELSE IF p = "timer" THEN {r.task : r \in timers}
  ELSE Range(wait_queue[p])

(* The tasks that depend on some queue to run again. *)
Queued(t) ==
  \/ kpc[t] \in {"block", "block_cv"}
  \/ current # t /\ kpc[t] \notin {"unborn", "exited"}

NoDuplicates ==
  /\ IsInjective(ready_queue)
  /\ \A o \in WaitObject : IsInjective(wait_queue[o])
  /\ \A r, s \in timers : r.task = s.task => r = s

(* No lost and no double wake-up: a task that is off the processor, or     *)
(* about to leave it in block_current_and_run_next, is in exactly one of   *)
(* the ready queue, a wait queue and the timer heap, exactly once; a task  *)
(* that is running, not yet created or gone is in none.                    *)
OnePlace ==
  /\ NoDuplicates
  /\ \A t \in Task : \A p, q \in Place :
       t \in Members(p) /\ t \in Members(q) => p = q
  /\ \A t \in Task : Queued(t) <=> \E p \in Place : t \in Members(p)

(* Mutex::lock returns to one task at a time, and a mutex is locked        *)
(* exactly while some task holds it: no handover loses the lock.           *)
MutualExclusion ==
  \A m \in Mutex :
    /\ \A t, u \in Task : m \in held[t] /\ m \in held[u] => t = u
    /\ locked[m] <=> \E t \in Task : m \in held[t]

(* A MutexBlocking with waiters is never free: unlock wakes somebody, and  *)
(* nobody queues behind a free mutex.                                      *)
NoWaiterOnFreeMutex ==
  \A m \in BlockingMutex : wait_queue[m] # <<>> => locked[m]

(* assert!(inner.locked) in MutexBlocking::unlock, for every unlock that a *)
(* task can ask for.                                                       *)
UnlockAssertion ==
  \A t \in Task, m \in Mutex :
    InSyscall(t) /\ MayBlock(t) /\ MayUnlock(t, m) => unlock_assert(m)

(* The count of a semaphore and its queue agree across down, up and the    *)
(* wake-ups in between: a negative count counts the waiters.               *)
SemaphoreCount ==
  \A s \in Semaphore :
    Len(wait_queue[s]) = IF count[s] < 0 THEN -count[s] ELSE 0

(* A task that released its mutex in Condvar::wait and has not yet joined  *)
(* the queue, or joined a queue and has not yet blocked, is still the      *)
(* running one: nobody can signal in between, whatever interrupts arrive.  *)
KernelNotPreempted ==
  \A t \in Task :
    kpc[t] \in {"syscall", "cvwait", "block", "block_cv"} => current = t

(* A blocking mutex with waiters is granted to the first of them: no task  *)
(* that calls lock later overtakes it.                                     *)
NoBarging ==
  [][\A m \in BlockingMutex, t \in Task :
       /\ wait_queue[m] # <<>>
       /\ m \in held'[t] \ held[t]
       => t = Head(wait_queue[m])]_vars

(* The state of each task as its queues show it; task_status is not a      *)
(* reliable witness, because sys_sleep can mark a ready task Blocked.      *)
LifecycleState ==
  [t \in Task |->
     IF kpc[t] \in {"unborn", "exited"} THEN kpc[t]
     ELSE IF current = t THEN "running"
     ELSE IF t \in Range(ready_queue) THEN "ready" ELSE "blocked"]

Lifecycle == INSTANCE TaskLifecycle WITH state <- LifecycleState

(* The queues, locks, timers and interrupts implement the task life cycle: *)
(* one running task, dispatched only when ready, woken only when blocked.  *)
ImplementsLifecycle == Lifecycle!Spec

(* A task in the ready queue gets the processor: FIFO order and preemption *)
(* by the timer.                                                           *)
ReadyRuns == \A t \in Task : t \in Members("ready") ~> current = t

(* A sleeping task runs again. *)
SleeperRuns == \A t \in Task :
  t \in Members("timer") ~> current = t /\ t \notin Members("timer")
==============================================================================
