--------------------------- MODULE KernelSyncProofs ---------------------------
(***************************************************************************)
(* Proofs about KernelSync for any number of tasks, mutexes, semaphores    *)
(* and condvars: types, places of tasks, locks, and the refinement of      *)
(* TaskLifecycle.  OnePlace rests on ControlInv: only the running task is  *)
(* inside a system call, so the task that is queued is the one that runs.  *)
(***************************************************************************)
EXTENDS KernelSync, FiniteSetTheorems, TLAPS

USE DEF Mutex, WaitObject

-----------------------------------------------------------------------------
(* Sequences *)

(* The indexes of a Vec are those below its length, counted from one here. *)
LEMMA LenProperties ==
  ASSUME NEW S, NEW s \in Seq(S)
  PROVE  Len(s) \in Nat /\ s \in [1..Len(s) -> S] /\ DOMAIN s = 1..Len(s)
OBVIOUS

(* Vec::new, and is_empty. *)
LEMMA EmptySeq ==
  ASSUME NEW S
  PROVE  /\ <<>> \in Seq(S) /\ Len(<<>>) = 0
         /\ \A s \in Seq(S) : s # <<>> => Len(s) \in Nat \ {0}
OBVIOUS

(* push_back. *)
LEMMA AppendProperties ==
  ASSUME NEW S, NEW s \in Seq(S), NEW e \in S
  PROVE  /\ Append(s, e) \in Seq(S)
         /\ Len(Append(s, e)) = Len(s) + 1
         /\ \A i \in 1..Len(s) : Append(s, e)[i] = s[i]
         /\ Append(s, e)[Len(s) + 1] = e
OBVIOUS

(* pop_front. *)
LEMMA HeadTailProperties ==
  ASSUME NEW S, NEW s \in Seq(S), s # <<>>
  PROVE  /\ Head(s) \in S /\ Tail(s) \in Seq(S)
         /\ Len(Tail(s)) = Len(s) - 1
         /\ \A i \in 1..Len(Tail(s)) : Tail(s)[i] = s[i + 1]
OBVIOUS

(* append and extend. *)
LEMMA ConcatProperties ==
  ASSUME NEW S, NEW s \in Seq(S), NEW r \in Seq(S)
  PROVE  /\ s \o r \in Seq(S)
         /\ Len(s \o r) = Len(s) + Len(r)
         /\ \A i \in 1..(Len(s) + Len(r)) :
              (s \o r)[i] = IF i <= Len(s) THEN s[i] ELSE r[i - Len(s)]
OBVIOUS

LEMMA RangeConcatenation ==
  ASSUME NEW S, NEW s \in Seq(S), NEW r \in Seq(S)
  PROVE  Range(s \o r) = Range(s) \cup Range(r)
<1>1. \A x \in Range(s \o r) : x \in Range(s) \cup Range(r)
  BY DEF Range
<1>2. \A x \in Range(s) : x \in Range(s \o r)
  <2>1. \A i \in 1..Len(s) : i \in DOMAIN (s \o r) /\ (s \o r)[i] = s[i]
    OBVIOUS
  <2>. QED BY <2>1 DEF Range
<1>3. ASSUME NEW x \in Range(r) PROVE x \in Range(s \o r)
  <2>1. PICK i \in 1..Len(r) : x = r[i]
    BY DEF Range
  <2>2. Len(s) + i \in DOMAIN (s \o r) /\ (s \o r)[Len(s) + i] = x
    BY <2>1
  <2>. QED BY <2>2 DEF Range
<1>. QED BY <1>1, <1>2, <1>3

------------------------------------------------------------------------------
(* Sequences as queues *)

(* push_back adds one element at the end. *)
LEMMA PushBack ==
  ASSUME NEW S, NEW q \in Seq(S), NEW x \in S
  PROVE  /\ Append(q, x) \in Seq(S)
         /\ Range(Append(q, x)) = Range(q) \cup {x}
         /\ IsInjective(q) /\ x \notin Range(q) => IsInjective(Append(q, x))
<1>1. /\ Append(q, x) \in Seq(S)
      /\ Len(Append(q, x)) = Len(q) + 1
      /\ \A i \in 1..Len(q) : Append(q, x)[i] = q[i]
      /\ Append(q, x)[Len(q) + 1] = x
  BY AppendProperties
<1>2. /\ DOMAIN q = 1..Len(q) /\ Len(q) \in Nat
      /\ DOMAIN Append(q, x) = 1..(Len(q) + 1)
  BY <1>1, LenProperties
<1>3. Range(Append(q, x)) = Range(q) \cup {x}
  BY <1>1, <1>2 DEF Range
<1>4. IsInjective(q) /\ x \notin Range(q) => IsInjective(Append(q, x))
  BY <1>1, <1>2 DEF Range, IsInjective
<1>. QED BY <1>1, <1>3, <1>4

(* pop_front removes the first element and nothing else. *)
LEMMA PopFront ==
  ASSUME NEW S, NEW q \in Seq(S), q # <<>>
  PROVE  /\ Head(q) \in S
         /\ Head(q) \in Range(q)
         /\ Tail(q) \in Seq(S)
         /\ Len(Tail(q)) = Len(q) - 1
         /\ IsInjective(q) => /\ IsInjective(Tail(q))
                              /\ Range(Tail(q)) = Range(q) \ {Head(q)}
<1>1. /\ Head(q) \in S
      /\ Tail(q) \in Seq(S)
      /\ Len(Tail(q)) = Len(q) - 1
      /\ \A i \in 1..Len(Tail(q)) : Tail(q)[i] = q[i + 1]
  BY HeadTailProperties
<1>2. /\ DOMAIN q = 1..Len(q) /\ Len(q) \in Nat /\ Len(q) # 0
      /\ DOMAIN Tail(q) = 1..(Len(q) - 1)
  BY <1>1, LenProperties, EmptySeq
<1>3. Head(q) = q[1]
  BY <1>2
<1>4. Head(q) \in Range(q)
  BY <1>2, <1>3 DEF Range
<1>5. ASSUME IsInjective(q)
      PROVE  IsInjective(Tail(q))
  BY <1>1, <1>2, <1>5 DEF IsInjective
<1>6. ASSUME IsInjective(q)
      PROVE  Range(Tail(q)) = Range(q) \ {Head(q)}
  <2>1. \A i \in 1..(Len(q) - 1) : Tail(q)[i] = q[i + 1]
    BY <1>1
  <2>2. \A y \in Range(Tail(q)) : y \in Range(q) /\ y # q[1]
    BY <1>2, <1>6, <2>1 DEF Range, IsInjective
  <2>3. ASSUME NEW y \in Range(q), y # q[1]
        PROVE  y \in Range(Tail(q))
    <3>1. PICK i \in 1..Len(q) : y = q[i]
      BY <1>2 DEF Range
    <3>2. i - 1 \in 1..(Len(q) - 1) /\ Tail(q)[i - 1] = q[i]
      BY <1>2, <2>1, <2>3, <3>1
    <3>. QED BY Zenon, <1>2, <3>1, <3>2 DEF Range
  <2>. QED BY <1>3, <2>2, <2>3
<1>. QED BY <1>1, <1>4, <1>5, <1>6

(* Appending a whole queue, as check_timer does one task at a time. *)
LEMMA PushAll ==
  ASSUME NEW S, NEW q \in Seq(S), NEW w \in Seq(S)
  PROVE  /\ q \o w \in Seq(S)
         /\ Range(q \o w) = Range(q) \cup Range(w)
         /\ IsInjective(q) /\ IsInjective(w) /\ Range(q) \cap Range(w) = {}
              => IsInjective(q \o w)
<1>1. /\ q \o w \in Seq(S)
      /\ Len(q \o w) = Len(q) + Len(w)
      /\ \A i \in 1..(Len(q) + Len(w)) :
           (q \o w)[i] = IF i <= Len(q) THEN q[i] ELSE w[i - Len(q)]
  BY ConcatProperties
<1>2. /\ DOMAIN q = 1..Len(q) /\ Len(q) \in Nat
      /\ DOMAIN w = 1..Len(w) /\ Len(w) \in Nat
      /\ DOMAIN (q \o w) = 1..(Len(q) + Len(w))
  BY <1>1, LenProperties
<1>3. Range(q \o w) = Range(q) \cup Range(w)
  BY RangeConcatenation
<1>4. ASSUME IsInjective(q), IsInjective(w), Range(q) \cap Range(w) = {},
             NEW i \in 1..(Len(q) + Len(w)), NEW j \in 1..(Len(q) + Len(w)),
             (q \o w)[i] = (q \o w)[j]
      PROVE  i = j
  <2>1. \A k \in 1..Len(q), l \in 1..Len(w) : q[k] # w[l]
    BY Zenon, <1>2, <1>4 DEF Range
  <2>2. CASE i <= Len(q) /\ j <= Len(q)
    BY <1>1, <1>2, <1>4, <2>2 DEF IsInjective
  <2>3. CASE ~(i <= Len(q)) /\ ~(j <= Len(q))
    <3>1. /\ i - Len(q) \in 1..Len(w) /\ j - Len(q) \in 1..Len(w)
          /\ w[i - Len(q)] = w[j - Len(q)]
      BY <1>1, <1>2, <1>4, <2>3
    <3>2. i - Len(q) = j - Len(q)
      BY <1>2, <1>4, <3>1 DEF IsInjective
    <3>. QED BY <1>2, <3>2
  <2>4. CASE i <= Len(q) /\ ~(j <= Len(q))
    BY <1>1, <1>2, <1>4, <2>1, <2>4
  <2>5. CASE ~(i <= Len(q)) /\ j <= Len(q)
    BY <1>1, <1>2, <1>4, <2>1, <2>5
  <2>. QED BY <1>2, <2>2, <2>3, <2>4, <2>5
<1>5. IsInjective(q) /\ IsInjective(w) /\ Range(q) \cap Range(w) = {}
        => IsInjective(q \o w)
  BY <1>2, <1>4 DEF IsInjective
<1>. QED BY <1>1, <1>3, <1>5

(* The orders in which check_timer wakes tasks: every expired timer's task *)
(* and no other.                                                           *)
LEMMA WakeOrdersAreQueues ==
  ASSUME TypeOK, NEW w \in WakeOrders
  PROVE  /\ w \in Seq(Task)
         /\ Range(w) = {r.task : r \in Expired}
         /\ (\A r, s \in timers : r.task = s.task => r = s) => IsInjective(w)
<1>. DEFINE n == Cardinality(Expired)
<1>1. n \in Nat
  <2>1. IsFiniteSet(Expired)
    BY FS_Subset DEF TypeOK, Expired
  <2>. QED BY <2>1, FS_CardinalityType
<1>2. PICK b \in Bijection(1..n, Expired) : w = [i \in DOMAIN b |-> b[i].task]
  BY DEF WakeOrders
<1>3. /\ b \in [1..n -> Expired]
      /\ \A i, j \in 1..n : b[i] = b[j] => i = j
      /\ \A r \in Expired : \E i \in 1..n : b[i] = r
  BY <1>2 DEF Bijection, Injection, Surjection, IsInjective
<1>4. \A i \in 1..n : b[i] \in timers /\ b[i].task \in Task
  BY <1>3, SMTT(30) DEF TypeOK, Expired, Timer
<1>. HIDE DEF n
<1>5. DOMAIN w = 1..n /\ \A i \in 1..n : w[i] = b[i].task
  BY <1>2, <1>3
<1>6. w \in [1..n -> Task]
  BY <1>2, <1>3, <1>4
<1>7. w \in Seq(Task)
  BY <1>1, <1>6
<1>8. Range(w) = {r.task : r \in Expired}
  BY <1>3, <1>5 DEF Range
<1>9. (\A r, s \in timers : r.task = s.task => r = s) => IsInjective(w)
  BY <1>3, <1>4, <1>5 DEF IsInjective
<1>. QED BY <1>7, <1>8, <1>9

------------------------------------------------------------------------------
(* Type correctness *)

(* A task that stands in lock() or wait() has its mutex and condvar at     *)
(* hand, so the queues indexed with them are there.                        *)
ArgsOK ==
  \A t \in Task :
    /\ kpc[t] \in {"lock", "cvwait", "block_cv"} => mutex_arg[t] \in Mutex
    /\ kpc[t] = "cvwait" => condvar_arg[t] \in Condvar

TypeInv == TypeOK /\ ArgsOK

(* Waking the first waiter of an object keeps the queues well-typed. *)
LEMMA WakeFirstType ==
  ASSUME TypeOK, NEW o \in WaitObject, WakeFirst(o)
  PROVE  SchedTypeOK' /\ wait_queue' \in [WaitObject -> Seq(Task)]
<1>1. CASE wait_queue[o] = <<>>
  BY <1>1 DEF TypeOK, SchedTypeOK, WakeFirst, sched_vars
<1>2. CASE wait_queue[o] # <<>>
  <2>1. Head(wait_queue[o]) \in Task /\ Tail(wait_queue[o]) \in Seq(Task)
    BY <1>2, PopFront DEF TypeOK
  <2>2. Append(ready_queue, Head(wait_queue[o])) \in Seq(Task)
    BY <2>1, PushBack DEF TypeOK, SchedTypeOK
  <2>. QED BY Zenon, <1>2, <2>1, <2>2
           DEF TypeOK, SchedTypeOK, WakeFirst, wakeup_task, TaskStatus
<1>. QED BY <1>1, <1>2

(* Mutex::unlock keeps the types, whoever calls it. *)
LEMMA UnlockType ==
  ASSUME TypeOK, NEW t \in Task, NEW m \in Mutex, unlock(t, m)
  PROVE  /\ SchedTypeOK'
         /\ locked' \in [Mutex -> BOOLEAN]
         /\ count' \in [Semaphore -> Int]
         /\ wait_queue' \in [WaitObject -> Seq(Task)]
         /\ held' \in [Task -> SUBSET Mutex]
<1>1. CASE HandOver(t, m)
  <2>1. Head(wait_queue[m]) \in Task /\ Tail(wait_queue[m]) \in Seq(Task)
    BY <1>1, PopFront DEF TypeOK, HandOver
  <2>2. Append(ready_queue, Head(wait_queue[m])) \in Seq(Task)
    BY <2>1, PushBack DEF TypeOK, SchedTypeOK
  <2>3. SchedTypeOK'
    BY <1>1, <2>1, <2>2 DEF HandOver, TypeOK, SchedTypeOK, wakeup_task, TaskStatus
  <2>4. wait_queue' \in [WaitObject -> Seq(Task)]
    BY <1>1, <2>1 DEF HandOver, TypeOK
  <2>5. held' \in [Task -> SUBSET Mutex]
    BY <1>1 DEF HandOver, TypeOK
  <2>. QED BY <1>1, <2>3, <2>4, <2>5 DEF HandOver, TypeOK
<1>2. CASE Release(t, m)
  BY <1>2 DEF Release, TypeOK, SchedTypeOK, sched_vars
<1>. QED BY <1>1, <1>2 DEF unlock

(* Mutex::lock keeps the types and leaves its mutex at hand if it has to   *)
(* be called again.                                                        *)
LEMMA LockType ==
  ASSUME TypeInv, NEW t \in Task, NEW m \in Mutex, lock(t, m)
  PROVE  TypeInv'
<1>1. CASE LockTakes(t, m)
  BY Zenon, <1>1 DEF TypeInv, TypeOK, SchedTypeOK, ArgsOK, KernelPC, LockTakes,
              trap_return, sched_vars, time_vars
<1>2. CASE LockQueues(t, m)
  <2>1. wait_queue' \in [WaitObject -> Seq(Task)]
    BY <1>2 DEF TypeInv, TypeOK, LockQueues, Enqueue
  <2>. QED BY <1>2, <2>1 DEF TypeInv, TypeOK, SchedTypeOK, ArgsOK, KernelPC,
                LockQueues, Enqueue, sched_vars, time_vars
<1>3. CASE LockYields(t, m)
  <2>1. ready_queue \o <<>> \in Seq(Task)
    BY DEF TypeInv, TypeOK, SchedTypeOK
  <2>2. SchedTypeOK'
    BY <1>3, <2>1, PushBack DEF TypeInv, TypeOK, SchedTypeOK, LockYields,
       suspend_current_and_run_next, TaskStatus
  <2>. QED BY <1>3, <2>2 DEF TypeInv, TypeOK, ArgsOK, KernelPC, LockYields,
                sync_vars, time_vars
<1>. QED BY <1>1, <1>2, <1>3 DEF lock

(* Every step keeps the types. *)
LEMMA TypeStep == TypeInv /\ [Next]_vars => TypeInv'
<1>. SUFFICES ASSUME TypeInv, [Next]_vars PROVE TypeInv'
  OBVIOUS
<1>. USE DEF TypeInv, TypeOK, ArgsOK, KernelPC
<1>. USE DEF sched_vars, arg_vars, sync_vars, time_vars
<1>1. ASSUME NEW t \in Task, SyscallEnter(t) PROVE TypeInv'
  BY <1>1 DEF SyscallEnter, SchedTypeOK
<1>2. ASSUME NEW t \in Task, SysNoEffect(t) PROVE TypeInv'
  BY Zenon, <1>2 DEF SysNoEffect, trap_return, SchedTypeOK
<1>3. ASSUME NEW t \in Task, sys_yield(t) PROVE TypeInv'
  <2>1. ready_queue \o <<>> \in Seq(Task)
    BY DEF SchedTypeOK
  <2>2. SchedTypeOK'
    BY <1>3, <2>1, PushBack DEF sys_yield, suspend_current_and_run_next,
       SchedTypeOK, TaskStatus
  <2>. QED BY <1>3, <2>2 DEF sys_yield
<1>4. ASSUME NEW t \in Task, NEW u \in Task, Spawn(t, u) PROVE TypeInv'
  <2>1. SchedTypeOK'
    BY <1>4, PushBack DEF Spawn, add_task, SchedTypeOK
  <2>. QED BY Zenon, <1>4, <2>1 DEF Spawn
<1>5. ASSUME NEW t \in Task, Exit(t) PROVE TypeInv'
  BY <1>5 DEF Exit, leave_processor, SchedTypeOK
<1>6. ASSUME NEW t \in Task, BlockCurrent(t) PROVE TypeInv'
  BY <1>6 DEF BlockCurrent, block_current_and_run_next, SchedTypeOK, TaskStatus
<1>7. ASSUME NEW t \in Task, NEW m \in Mutex, sys_mutex_lock(t, m) PROVE TypeInv'
  BY Zenon, <1>7, LockType DEF sys_mutex_lock
<1>8. ASSUME NEW t \in Task, NEW m \in Mutex, sys_mutex_unlock(t, m) PROVE TypeInv'
  BY Zenon, <1>8, UnlockType DEF sys_mutex_unlock, trap_return
<1>9. ASSUME NEW t \in Task, LockAgain(t) PROVE TypeInv'
  BY Zenon, <1>9, LockType DEF LockAgain
<1>10. ASSUME NEW t \in Task, NEW s \in Semaphore, sys_semaphore_up(t, s) PROVE TypeInv'
  <2>1. SchedTypeOK' /\ wait_queue' \in [WaitObject -> Seq(Task)]
    BY Zenon, <1>10, WakeFirstType DEF sys_semaphore_up
  <2>2. count' \in [Semaphore -> Int]
    BY <1>10 DEF sys_semaphore_up
  <2>. QED BY Zenon, <1>10, <2>1, <2>2 DEF sys_semaphore_up, trap_return
<1>11. ASSUME NEW t \in Task, NEW s \in Semaphore, sys_semaphore_down(t, s) PROVE TypeInv'
  <2>1. count' \in [Semaphore -> Int]
    BY <1>11 DEF sys_semaphore_down
  <2>2. CASE count[s] - 1 < 0
    <3>1. Append(wait_queue[s], t) \in Seq(Task)
      BY PushBack
    <3>2. wait_queue' \in [WaitObject -> Seq(Task)]
      BY Zenon, <1>11, <2>2, <3>1 DEF sys_semaphore_down, Enqueue
    <3>. QED BY Zenon, <1>11, <2>1, <2>2, <3>2 DEF sys_semaphore_down, Enqueue, SchedTypeOK
  <2>3. CASE ~(count[s] - 1 < 0)
    BY ZenonT(30), <1>11, <2>1, <2>3 DEF sys_semaphore_down, trap_return, SchedTypeOK
  <2>. QED BY <2>2, <2>3
<1>12. ASSUME NEW t \in Task, NEW c \in Condvar, sys_condvar_signal(t, c) PROVE TypeInv'
  BY Zenon, <1>12, WakeFirstType DEF sys_condvar_signal, trap_return
<1>13. ASSUME NEW t \in Task, NEW c \in Condvar, NEW m \in Mutex,
              sys_condvar_wait(t, c, m)
       PROVE  TypeInv'
  BY Zenon, <1>13, UnlockType DEF sys_condvar_wait
<1>14. ASSUME NEW t \in Task, CondvarEnqueue(t) PROVE TypeInv'
  <2>1. wait_queue' \in [WaitObject -> Seq(Task)]
    BY <1>14 DEF CondvarEnqueue, Enqueue
  <2>. QED BY <1>14, <2>1 DEF CondvarEnqueue, Enqueue, SchedTypeOK
<1>15. ASSUME NEW t \in Task, NEW ms \in 0..MaxTime, sys_sleep(t, ms) PROVE TypeInv'
  <2>1. [expire_ms |-> now + ms, task |-> t] \in Timer
    BY <1>15, SyncAssumption DEF sys_sleep, Timer
  <2>2. timers' \in SUBSET Timer /\ IsFiniteSet(timers')
    BY Zenon, <1>15, <2>1, FS_AddElement DEF sys_sleep
  <2>. QED BY <1>15, <2>2 DEF sys_sleep, SchedTypeOK
<1>16. ASSUME NEW t \in Task, RunTask(t) PROVE TypeInv'
  <2>1. SchedTypeOK'
    BY <1>16, PopFront DEF RunTask, run_task, SchedTypeOK, TaskStatus
  <2>. QED BY Zenon, <1>16, <2>1 DEF RunTask
<1>17. ASSUME NEW t \in Task, UserTimer(t) PROVE TypeInv'
  <2>1. PICK w \in WakeOrders : suspend_current_and_run_next(t, w)
    BY <1>17, Zenon DEF UserTimer
  <2>2. w \in Seq(Task)
    BY WakeOrdersAreQueues
  <2>3. ready_queue \o w \in Seq(Task)
    BY <2>2, PushAll DEF SchedTypeOK
  <2>4. SchedTypeOK'
    BY <2>1, <2>3, PushBack DEF suspend_current_and_run_next, SchedTypeOK, TaskStatus
  <2>5. timers' \in SUBSET Timer /\ IsFiniteSet(timers')
    BY <1>17, FS_Subset DEF UserTimer, PopExpired
  <2>. QED BY Zenon, <1>17, <2>4, <2>5 DEF UserTimer
<1>18. ASSUME KernelTimer PROVE TypeInv'
  <2>1. PICK w \in WakeOrders : wakeup_tasks(w)
    BY <1>18 DEF KernelTimer
  <2>2. w \in Seq(Task)
    BY WakeOrdersAreQueues
  <2>3. ready_queue \o w \in Seq(Task)
    BY <2>2, PushAll DEF SchedTypeOK
  <2>4. SchedTypeOK'
    BY <2>1, <2>3 DEF wakeup_tasks, SchedTypeOK, TaskStatus
  <2>5. timers' \in SUBSET Timer /\ IsFiniteSet(timers')
    BY <1>18, FS_Subset DEF KernelTimer, PopExpired
  <2>. QED BY <1>18, <2>4, <2>5 DEF KernelTimer
<1>19. ASSUME Tick PROVE TypeInv'
  BY <1>19, SyncAssumption DEF Tick, SchedTypeOK
<1>20. CASE UNCHANGED vars
  BY <1>20 DEF vars, SchedTypeOK
<1>. QED
  BY ZenonT(30), <1>1, <1>2, <1>3, <1>4, <1>5, <1>6, <1>7, <1>8, <1>9, <1>10, <1>11, <1>12,
     <1>13, <1>14, <1>15, <1>16, <1>17, <1>18, <1>19, <1>20
     DEF Next, KernelStep

LEMMA TypeInit == Init => TypeInv
<1>. SUFFICES ASSUME Init PROVE TypeInv
  OBVIOUS
<1>1. <<INITPROC>> \in Seq(Task)
  BY SyncAssumption
<1>2. IsFiniteSet({})
  BY FS_EmptySet
<1>3. wait_queue \in [WaitObject -> Seq(Task)]
  BY DEF Init
<1>4. SchedTypeOK
  BY <1>1 DEF Init, SchedTypeOK, TaskStatus
<1>5. count \in [Semaphore -> Int] /\ now \in 0..MaxTime
  BY SyncAssumption DEF Init
<1>6. ArgsOK
  BY DEF Init, ArgsOK
<1>. QED BY Zenon, <1>2, <1>3, <1>4, <1>5, <1>6 DEF Init, TypeInv, TypeOK, KernelPC

(* Every variable of the kernel stays in its type, whatever the tasks do   *)
(* and whenever the timer fires.                                           *)
THEOREM TypeCorrect == Spec => []TypeOK
<1>1. Spec => []TypeInv
  BY TypeInit, TypeStep, PTL DEF Spec
<1>2. TypeInv => TypeOK
  BY DEF TypeInv
<1>. QED BY <1>1, <1>2, PTL

------------------------------------------------------------------------------
(* The kernel is not preempted *)

(* Every step keeps the tasks in the middle of a kernel function on the    *)
(* processor: a switch happens only through the task's own step, and the   *)
(* processor is given only to a task when it is free.                      *)
LEMMA PreemptStep ==
  TypeInv /\ KernelNotPreempted /\ [Next]_vars => KernelNotPreempted'
<1>. SUFFICES ASSUME TypeInv, KernelNotPreempted, [Next]_vars
              PROVE  KernelNotPreempted'
  OBVIOUS
<1>. USE NoneAssumption DEF KernelNotPreempted
<1>. USE DEF sched_vars
<1>a. kpc \in [Task -> KernelPC]
  BY DEF TypeInv, TypeOK
<1>1. ASSUME NEW t \in Task, SyscallEnter(t) PROVE KernelNotPreempted'
  BY <1>a, <1>1 DEF SyscallEnter
<1>2. ASSUME NEW t \in Task, SysNoEffect(t) PROVE KernelNotPreempted'
  BY <1>a, <1>2 DEF SysNoEffect, trap_return
<1>3. ASSUME NEW t \in Task, sys_yield(t) PROVE KernelNotPreempted'
  BY <1>a, <1>3 DEF sys_yield, suspend_current_and_run_next
<1>4. ASSUME NEW t \in Task, NEW u \in Task, Spawn(t, u) PROVE KernelNotPreempted'
  BY <1>a, <1>4 DEF Spawn, add_task
<1>5. ASSUME NEW t \in Task, Exit(t) PROVE KernelNotPreempted'
  BY <1>a, <1>5 DEF Exit, leave_processor
<1>6. ASSUME NEW t \in Task, BlockCurrent(t) PROVE KernelNotPreempted'
  BY <1>a, <1>6 DEF BlockCurrent, block_current_and_run_next
<1>7. ASSUME NEW t \in Task, NEW m, current = t, lock(t, m) PROVE KernelNotPreempted'
  <2>1. CASE LockTakes(t, m)
    BY <1>a, <1>7, <2>1 DEF LockTakes, trap_return
  <2>2. CASE LockQueues(t, m)
    BY <1>a, <1>7, <2>2 DEF LockQueues, Enqueue
  <2>3. CASE LockYields(t, m)
    BY <1>a, <1>7, <2>3 DEF LockYields, suspend_current_and_run_next
  <2>. QED BY <1>7, <2>1, <2>2, <2>3 DEF lock
<1>8. ASSUME NEW t, NEW m, unlock(t, m) PROVE current' = current
  BY <1>8 DEF unlock, HandOver, Release, wakeup_task
<1>9. ASSUME NEW o, WakeFirst(o) PROVE current' = current
  BY <1>9 DEF WakeFirst, wakeup_task
<1>10. ASSUME NEW t \in Task, NEW m \in Mutex, sys_mutex_unlock(t, m)
       PROVE  KernelNotPreempted'
  BY <1>a, <1>8, <1>10 DEF sys_mutex_unlock, trap_return
<1>11. ASSUME NEW t \in Task, NEW s \in Semaphore, sys_semaphore_up(t, s)
       PROVE  KernelNotPreempted'
  BY <1>a, <1>9, <1>11 DEF sys_semaphore_up, trap_return
<1>12. ASSUME NEW t \in Task, NEW s \in Semaphore, sys_semaphore_down(t, s)
       PROVE  KernelNotPreempted'
  BY <1>a, <1>12 DEF sys_semaphore_down, Enqueue, trap_return, InSyscall
<1>13. ASSUME NEW t \in Task, NEW c \in Condvar, sys_condvar_signal(t, c)
       PROVE  KernelNotPreempted'
  BY <1>a, <1>9, <1>13 DEF sys_condvar_signal, trap_return
<1>14. ASSUME NEW t \in Task, NEW c \in Condvar, NEW m \in Mutex,
              sys_condvar_wait(t, c, m)
       PROVE  KernelNotPreempted'
  BY <1>a, <1>8, <1>14 DEF sys_condvar_wait, InSyscall
<1>15. ASSUME NEW t \in Task, CondvarEnqueue(t) PROVE KernelNotPreempted'
  BY <1>a, <1>15 DEF CondvarEnqueue, Enqueue
<1>16. ASSUME NEW t \in Task, NEW ms \in 0..MaxTime, sys_sleep(t, ms)
       PROVE  KernelNotPreempted'
  BY <1>a, <1>16 DEF sys_sleep, InSyscall
<1>17. ASSUME NEW t \in Task, RunTask(t) PROVE KernelNotPreempted'
  BY <1>17 DEF RunTask, run_task
<1>18. ASSUME NEW t \in Task, UserTimer(t) PROVE KernelNotPreempted'
  BY <1>18 DEF UserTimer, suspend_current_and_run_next
<1>19. ASSUME KernelTimer PROVE KernelNotPreempted'
  BY <1>19 DEF KernelTimer, wakeup_tasks
<1>20. ASSUME Tick PROVE KernelNotPreempted'
  BY <1>20 DEF Tick
<1>21. CASE UNCHANGED vars
  BY <1>21 DEF vars
<1>. QED
  BY ZenonT(30), <1>1, <1>2, <1>3, <1>4, <1>5, <1>6, <1>7, <1>10, <1>11, <1>12, <1>13,
     <1>14, <1>15, <1>16, <1>17, <1>18, <1>19, <1>20, <1>21
     DEF Next, KernelStep, sys_mutex_lock, LockAgain, InSyscall

ControlInv == TypeInv /\ KernelNotPreempted

LEMMA ControlCorrect == Spec => []ControlInv
<1>1. Init => ControlInv
  <2>1. Init => KernelNotPreempted
    BY DEF Init, KernelNotPreempted
  <2>. QED BY <2>1, TypeInit DEF ControlInv
<1>2. ControlInv /\ [Next]_vars => ControlInv'
  BY TypeStep, PreemptStep DEF ControlInv
<1>. QED BY <1>1, <1>2, PTL DEF Spec

(* Between releasing the mutex in Condvar::wait and joining its queue, and *)
(* between joining a queue and blocking, no other task runs, whatever      *)
(* interrupts arrive: no signal can fall into the gap.                     *)
THEOREM NotPreempted == Spec => []KernelNotPreempted
<1>1. ControlInv => KernelNotPreempted
  BY Zenon DEF ControlInv
<1>. QED BY <1>1, ControlCorrect, PTL

------------------------------------------------------------------------------
(* Mutexes *)

(* The steps that can touch locked, held or the queue of a blocking mutex: *)
(* the rounds of lock and the unlock of sys_mutex_unlock and of            *)
(* Condvar::wait.  Every other step leaves the mutexes alone.              *)
LEMMA MutexFrame ==
  ASSUME TypeInv, [Next]_vars
  PROVE  \/ \E t \in Task, m \in Mutex : lock(t, m)
         \/ \E t \in Task, m \in Mutex : MayUnlock(t, m) /\ unlock(t, m)
         \/ /\ UNCHANGED <<locked, held>>
            /\ \A m \in BlockingMutex : wait_queue'[m] = wait_queue[m]
<1>. DEFINE Frame == /\ UNCHANGED <<locked, held>>
                     /\ \A m \in BlockingMutex : wait_queue'[m] = wait_queue[m]
<1>a. wait_queue \in [WaitObject -> Seq(Task)] /\ ArgsOK
  BY SMTT(30) DEF TypeInv, TypeOK
<1>1. ASSUME NEW t \in Task, KernelStep(t)
      PROVE  \/ \E m \in Mutex : lock(t, m)
             \/ \E m \in Mutex : MayUnlock(t, m) /\ unlock(t, m)
             \/ Frame
  <2>1. CASE \/ SysNoEffect(t) \/ sys_yield(t) \/ (\E u \in Task : Spawn(t, u))
             \/ Exit(t) \/ BlockCurrent(t)
             \/ \E ms \in 0..MaxTime : sys_sleep(t, ms)
    BY <2>1, Zenon DEF SysNoEffect, sys_yield, Spawn, Exit, BlockCurrent, sys_sleep, sync_vars
  <2>2. CASE \E m \in Mutex : sys_mutex_lock(t, m) \/ sys_mutex_unlock(t, m)
    BY <2>2, Zenon DEF sys_mutex_lock, sys_mutex_unlock
  <2>3. CASE LockAgain(t)
    BY <1>a, <2>3 DEF LockAgain, ArgsOK
  <2>4. ASSUME NEW s \in Semaphore, sys_semaphore_up(t, s) PROVE Frame
    BY <1>a, <2>4, SyncAssumption DEF sys_semaphore_up, WakeFirst
  <2>5. ASSUME NEW s \in Semaphore, sys_semaphore_down(t, s) PROVE Frame
    BY <1>a, <2>5, SyncAssumption DEF sys_semaphore_down, Enqueue
  <2>6. ASSUME NEW c \in Condvar, sys_condvar_signal(t, c) PROVE Frame
    BY <1>a, <2>6, SyncAssumption, Zenon DEF sys_condvar_signal, WakeFirst
  <2>7. CASE \E c \in Condvar, m \in Mutex : sys_condvar_wait(t, c, m)
    BY <2>7, Zenon DEF sys_condvar_wait
  <2>8. CASE CondvarEnqueue(t)
    <3>1. condvar_arg[t] \in Condvar
      BY <1>a, <2>8 DEF CondvarEnqueue, ArgsOK
    <3>. QED BY <1>a, <2>8, <3>1, SyncAssumption, Zenon DEF CondvarEnqueue, Enqueue
  <2>. QED BY <1>1, <2>1, <2>2, <2>3, <2>4, <2>5, <2>6, <2>7, <2>8, ZenonT(30) DEF KernelStep
<1>2. ASSUME NEW t \in Task,
             SyscallEnter(t) \/ Exit(t) \/ RunTask(t) \/ UserTimer(t)
      PROVE  Frame
  BY Zenon, <1>2 DEF SyscallEnter, Exit, RunTask, UserTimer, sync_vars
<1>3. CASE KernelTimer \/ Tick \/ UNCHANGED vars
  BY <1>3, Zenon DEF KernelTimer, Tick, vars, sync_vars
<1>. QED BY <1>1, <1>2, <1>3 DEF Next

(* A free blocking mutex has no waiters: whoever unlocks, held or not,     *)
(* either leaves the mutex locked or found its queue empty.                *)
LEMMA WaiterStep ==
  TypeInv /\ NoWaiterOnFreeMutex /\ [Next]_vars => NoWaiterOnFreeMutex'
<1>. SUFFICES ASSUME TypeInv, NoWaiterOnFreeMutex, [Next]_vars
              PROVE  NoWaiterOnFreeMutex'
  OBVIOUS
<1>a. locked \in [Mutex -> BOOLEAN] /\ wait_queue \in [WaitObject -> Seq(Task)]
  BY DEF TypeInv, TypeOK
<1>1. ASSUME NEW t \in Task, NEW m \in Mutex, lock(t, m) PROVE NoWaiterOnFreeMutex'
  <2>1. CASE LockTakes(t, m)
    BY <1>a, <2>1 DEF LockTakes, NoWaiterOnFreeMutex
  <2>2. CASE LockQueues(t, m)
    BY <1>a, <2>2 DEF LockQueues, Enqueue, NoWaiterOnFreeMutex
  <2>3. CASE LockYields(t, m)
    BY <1>a, <2>3 DEF LockYields, sync_vars, NoWaiterOnFreeMutex
  <2>. QED BY <1>1, <2>1, <2>2, <2>3 DEF lock
<1>2. ASSUME NEW t \in Task, NEW m \in Mutex, unlock(t, m) PROVE NoWaiterOnFreeMutex'
  <2>1. CASE HandOver(t, m)
    BY <1>a, <1>2, <2>1 DEF unlock, unlock_assert, HandOver, NoWaiterOnFreeMutex
  <2>2. CASE Release(t, m)
    BY <1>a, <2>2, Zenon DEF Release, NoWaiterOnFreeMutex
  <2>. QED BY <1>2, <2>1, <2>2, Zenon DEF unlock
<1>3. CASE /\ UNCHANGED <<locked, held>>
           /\ \A m \in BlockingMutex : wait_queue'[m] = wait_queue[m]
  BY <1>3 DEF NoWaiterOnFreeMutex
<1>. QED BY <1>1, <1>2, <1>3, MutexFrame

(* One holder per mutex, for programs that unlock what they hold. *)
LEMMA ExclusionStep ==
  ASSUME Disciplined = TRUE
  PROVE  TypeInv /\ MutualExclusion /\ [Next]_vars => MutualExclusion'
<1>. SUFFICES ASSUME TypeInv, MutualExclusion, [Next]_vars PROVE MutualExclusion'
  OBVIOUS
<1>a. /\ locked \in [Mutex -> BOOLEAN] /\ held \in [Task -> SUBSET Mutex]
      /\ wait_queue \in [WaitObject -> Seq(Task)]
  BY DEF TypeInv, TypeOK
<1>1. ASSUME NEW t \in Task, NEW m \in Mutex, lock(t, m) PROVE MutualExclusion'
  <2>1. CASE LockTakes(t, m)
    BY <1>a, <2>1, Zenon DEF LockTakes, MutualExclusion
  <2>2. CASE LockQueues(t, m) \/ LockYields(t, m)
    BY <2>2 DEF LockQueues, LockYields, sync_vars, MutualExclusion
  <2>. QED BY <1>1, <2>1, <2>2 DEF lock
<1>2. ASSUME NEW t \in Task, NEW m \in Mutex, MayUnlock(t, m), unlock(t, m)
      PROVE  MutualExclusion'
  <2>1. m \in held[t]
    BY <1>2, Zenon DEF MayUnlock
  <2>2. CASE HandOver(t, m)
    <3>. DEFINE next == Head(wait_queue[m])
    <3>1. next \in Task
      BY <1>a, <2>2 DEF HandOver
    <3>2. \A u \in Task : held'[u] = (IF u = t THEN held[u] \ {m} ELSE held[u])
                                       \cup (IF u = next THEN {m} ELSE {})
      BY <2>2 DEF HandOver
    <3>3. locked' = locked
      BY <2>2 DEF HandOver
    <3>. HIDE DEF next
    <3>4. \A u \in Task : m \in held'[u] <=> u = next
      BY <1>a, <2>1, <3>2 DEF MutualExclusion
    <3>5. \A k \in Mutex, u \in Task : k # m => (k \in held'[u] <=> k \in held[u])
      BY <3>2
    <3>. QED BY <2>1, <3>1, <3>3, <3>4, <3>5 DEF MutualExclusion
  <2>3. CASE Release(t, m)
    BY <1>a, <2>1, <2>3 DEF Release, MutualExclusion
  <2>. QED BY <1>2, <2>2, <2>3 DEF unlock
<1>3. CASE UNCHANGED <<locked, held>>
  BY <1>3 DEF MutualExclusion
<1>. QED BY <1>1, <1>2, <1>3, MutexFrame

(* No unlock leaves a waiter behind on a free MutexBlocking. *)
THEOREM FreeMutexHasNoWaiter == Spec => []NoWaiterOnFreeMutex
<1>1. Init => NoWaiterOnFreeMutex
  BY DEF Init, NoWaiterOnFreeMutex
<1>2. Spec => []TypeInv
  BY ControlCorrect, PTL DEF ControlInv
<1>. QED BY <1>1, <1>2, WaiterStep, PTL DEF Spec

(* A MutexBlocking or MutexSpin is held by one task at a time and is       *)
(* locked exactly while it is held, if programs unlock only what they hold.*)
THEOREM MutexesExclude ==
  ASSUME Disciplined = TRUE
  PROVE  Spec => []MutualExclusion
<1>1. Init => MutualExclusion
  BY DEF Init, MutualExclusion
<1>2. Spec => []TypeInv
  BY ControlCorrect, PTL DEF ControlInv
<1>3. TypeInv /\ MutualExclusion /\ [Next]_vars => MutualExclusion'
  BY ExclusionStep
<1>. QED BY <1>1, <1>2, <1>3, PTL DEF Spec

(* The assert! of MutexBlocking::unlock cannot fail in such programs. *)
THEOREM UnlockNeverPanics ==
  ASSUME Disciplined = TRUE
  PROVE  Spec => []UnlockAssertion
<1>1. MutualExclusion => UnlockAssertion
  BY DEF MutualExclusion, UnlockAssertion, MayUnlock, unlock_assert
<1>. QED BY <1>1, MutexesExclude, PTL

(* MutexBlocking::unlock grants the mutex to the longest waiter: a step    *)
(* that gives a contended mutex to a task gives it to the head of its      *)
(* queue.                                                                  *)
THEOREM HandOverIsFifo == Spec => NoBarging
<1>. DEFINE Fifo == \A m \in BlockingMutex, t \in Task :
                      /\ wait_queue[m] # <<>>
                      /\ m \in held'[t] \ held[t]
                      => t = Head(wait_queue[m])
<1>1. TypeInv /\ NoWaiterOnFreeMutex /\ [Next]_vars => [Fifo]_vars
  <2>. SUFFICES ASSUME TypeInv, NoWaiterOnFreeMutex, [Next]_vars,
                       NEW m \in BlockingMutex, NEW t \in Task,
                       wait_queue[m] # <<>>, m \in held'[t], m \notin held[t]
                PROVE  t = Head(wait_queue[m])
    OBVIOUS
  <2>a. held \in [Task -> SUBSET Mutex] /\ locked[m] /\ m \in Mutex
    BY Zenon DEF TypeInv, TypeOK, NoWaiterOnFreeMutex
  <2>1. ASSUME NEW u \in Task, NEW k \in Mutex, lock(u, k) PROVE FALSE
    BY <2>a, <2>1 DEF lock, LockTakes, LockQueues, LockYields, sync_vars
  <2>2. ASSUME NEW u \in Task, NEW k \in Mutex, unlock(u, k)
        PROVE  t = Head(wait_queue[m])
    <3>1. CASE HandOver(u, k)
      <4>1. held'[t] = (IF t = u THEN held[t] \ {k} ELSE held[t])
                         \cup (IF t = Head(wait_queue[k]) THEN {k} ELSE {})
        BY <3>1 DEF HandOver
      <4>. QED BY <4>1
    <3>2. CASE Release(u, k)
      BY <2>a, <3>2 DEF Release
    <3>. QED BY <2>2, <3>1, <3>2, Zenon DEF unlock
  <2>. QED BY <2>1, <2>2, MutexFrame
<1>2. Spec => []TypeInv
  BY ControlCorrect, PTL DEF ControlInv
<1>3. Spec => [][Fifo]_vars
  BY <1>1, <1>2, FreeMutexHasNoWaiter, PTL DEF Spec
<1>. QED BY <1>3 DEF NoBarging

------------------------------------------------------------------------------
(* Semaphores *)

(* down and up keep the count and the length of the queue in step. *)
LEMMA CountStep ==
  TypeInv /\ SemaphoreCount /\ [Next]_vars => SemaphoreCount'
<1>. SUFFICES ASSUME TypeInv, SemaphoreCount, [Next]_vars PROVE SemaphoreCount'
  OBVIOUS
<1>a. /\ count \in [Semaphore -> Int] /\ ArgsOK
      /\ wait_queue \in [WaitObject -> Seq(Task)]
      /\ \A s \in Semaphore : wait_queue[s] \in Seq(Task)
  BY Zenon DEF TypeInv, TypeOK
<1>. DEFINE Frame == /\ UNCHANGED count
                     /\ \A s \in Semaphore : wait_queue'[s] = wait_queue[s]
<1>1. ASSUME Frame PROVE SemaphoreCount'
  BY <1>1, Zenon DEF SemaphoreCount
<1>2. ASSUME NEW t \in Task, NEW m \in Mutex, lock(t, m) PROVE Frame
  BY <1>a, <1>2, SyncAssumption, Zenon
     DEF lock, LockTakes, LockQueues, LockYields, Enqueue, sync_vars
<1>3. ASSUME NEW t \in Task, NEW m \in Mutex, unlock(t, m) PROVE Frame
  BY <1>a, <1>3, SyncAssumption DEF unlock, HandOver, Release
<1>4. ASSUME NEW t \in Task, NEW s \in Semaphore, sys_semaphore_up(t, s)
      PROVE  SemaphoreCount'
  <2>1. /\ count'[s] = count[s] + 1 /\ count[s] \in Int
        /\ \A r \in Semaphore : r # s =>
              count'[r] = count[r] /\ wait_queue'[r] = wait_queue[r]
    BY <1>a, <1>4 DEF sys_semaphore_up, WakeFirst
  <2>2. CASE wait_queue[s] = <<>>
    BY <1>4, <2>1, <2>2 DEF sys_semaphore_up, WakeFirst, SemaphoreCount
  <2>3. CASE wait_queue[s] # <<>>
    <3>1. wait_queue'[s] = Tail(wait_queue[s])
      BY <1>a, <1>4, <2>3, Zenon DEF sys_semaphore_up, WakeFirst
    <3>2. Len(wait_queue'[s]) = Len(wait_queue[s]) - 1 /\ Len(wait_queue[s]) > 0
      BY <1>a, <2>3, <3>1, HeadTailProperties, EmptySeq
    <3>. QED BY <2>1, <3>2 DEF SemaphoreCount
  <2>. QED BY <2>2, <2>3
<1>5. ASSUME NEW t \in Task, NEW s \in Semaphore, sys_semaphore_down(t, s)
      PROVE  SemaphoreCount'
  <2>1. /\ count'[s] = count[s] - 1 /\ count[s] \in Int
        /\ \A r \in Semaphore : r # s =>
              count'[r] = count[r] /\ wait_queue'[r] = wait_queue[r]
    BY <1>a, <1>5 DEF sys_semaphore_down, Enqueue
  <2>2. CASE count[s] - 1 < 0
    <3>1. wait_queue'[s] = Append(wait_queue[s], t)
      BY <1>a, <1>5, <2>2 DEF sys_semaphore_down, Enqueue
    <3>2. Len(wait_queue'[s]) = Len(wait_queue[s]) + 1
      BY <1>a, <3>1, SMTT(30)
    <3>. QED BY <2>1, <2>2, <3>2, SMTT(30) DEF SemaphoreCount
  <2>3. CASE ~(count[s] - 1 < 0)
    BY <1>5, <2>1, <2>3 DEF sys_semaphore_down, SemaphoreCount
  <2>. QED BY <2>2, <2>3
<1>6. ASSUME NEW t \in Task, NEW c \in Condvar, sys_condvar_signal(t, c) PROVE Frame
  BY <1>a, <1>6, SyncAssumption, Zenon DEF sys_condvar_signal, WakeFirst
<1>7. ASSUME NEW t \in Task, CondvarEnqueue(t) PROVE Frame
  <2>1. condvar_arg[t] \in Condvar
    BY <1>a, <1>7 DEF CondvarEnqueue, ArgsOK
  <2>. QED BY <1>a, <1>7, <2>1, SyncAssumption, Zenon DEF CondvarEnqueue, Enqueue
<1>8. ASSUME NEW t \in Task,
             \/ SyscallEnter(t) \/ SysNoEffect(t) \/ sys_yield(t)
             \/ (\E u \in Task : Spawn(t, u)) \/ Exit(t) \/ BlockCurrent(t)
             \/ (\E ms \in 0..MaxTime : sys_sleep(t, ms))
             \/ RunTask(t) \/ UserTimer(t)
      PROVE  Frame
  BY Zenon, <1>8 DEF SyscallEnter, SysNoEffect, sys_yield, Spawn, Exit, BlockCurrent,
              sys_sleep, RunTask, UserTimer, sync_vars
<1>9. CASE KernelTimer \/ Tick \/ UNCHANGED vars
  BY <1>1, <1>9, Zenon DEF KernelTimer, Tick, vars, sync_vars
<1>10. \A t \in Task : LockAgain(t) => \E m \in Mutex : lock(t, m)
  BY <1>a, Zenon DEF LockAgain, ArgsOK
<1>. HIDE DEF Frame
<1>11. ASSUME NEW t \in Task, KernelStep(t) PROVE SemaphoreCount'
  BY Zenon, <1>1, <1>2, <1>3, <1>4, <1>5, <1>6, <1>7, <1>8, <1>10, <1>11
     DEF KernelStep, sys_mutex_lock, sys_mutex_unlock, sys_condvar_wait
<1>. QED BY <1>1, <1>8, <1>9, <1>11 DEF Next

(* A negative count is the number of tasks in the queue of the semaphore,  *)
(* and no task queues on a semaphore with permits left.                    *)
THEOREM CountMatchesQueue == Spec => []SemaphoreCount
<1>1. Init => SemaphoreCount
  <2>. SUFFICES ASSUME Init, NEW s \in Semaphore
                PROVE  Len(wait_queue[s]) = IF count[s] < 0 THEN -count[s] ELSE 0
    BY DEF SemaphoreCount
  <2>1. wait_queue[s] = <<>> /\ count[s] = ResCount
    BY Zenon DEF Init
  <2>. QED BY <2>1, SyncAssumption
<1>2. Spec => []TypeInv
  BY ControlCorrect, PTL DEF ControlInv
<1>. QED BY <1>1, <1>2, CountStep, PTL DEF Spec

------------------------------------------------------------------------------
(* No lost and no double wake-up *)

(* The members of each place, now and after a step. *)
LEMMA MembersAre ==
  /\ Members("ready") = Range(ready_queue)
  /\ Members("timer") = {r.task : r \in timers}
  /\ \A o \in WaitObject : Members(o) = Range(wait_queue[o])
  /\ Members("ready")' = Range(ready_queue')
  /\ Members("timer")' = {r.task : r \in timers'}
  /\ \A o \in WaitObject : Members(o)' = Range(wait_queue'[o])
  /\ "ready" # "timer"
  /\ \A o \in WaitObject : o # "ready" /\ o # "timer"
BY SyncAssumption DEF Members

(* The queues stay and nobody starts or stops depending on them. *)
LEMMA Unmoved ==
  ASSUME OnePlace, UNCHANGED <<ready_queue, wait_queue, timers>>,
         \A t \in Task : Queued(t)' <=> Queued(t)
  PROVE  OnePlace'
<1>1. \A p : Members(p)' = Members(p)
  BY DEF Members
<1>. QED BY <1>1 DEF OnePlace, NoDuplicates

(* One task joins place p. *)
LEMMA Joined ==
  ASSUME OnePlace, NEW p \in Place, NEW t \in Task, ~Queued(t),
         Members(p)' = Members(p) \cup {t},
         \A q \in Place : q # p => Members(q)' = Members(q),
         \A u \in Task : Queued(u)' <=> Queued(u) \/ u = t,
         NoDuplicates'
  PROVE  OnePlace'
<1>1. \A q \in Place : t \notin Members(q)
  BY DEF OnePlace
<1>2. \A u \in Task : \A q, r \in Place :
        u \in Members(q)' /\ u \in Members(r)' => q = r
  BY <1>1 DEF OnePlace
<1>3. \A u \in Task : Queued(u)' <=> \E q \in Place : u \in Members(q)'
  BY <1>1 DEF OnePlace
<1>. QED BY <1>2, <1>3 DEF OnePlace

(* The tasks of W move from place p to the ready queue, and those of J,    *)
(* which were running, join it.                                            *)
LEMMA Woken ==
  ASSUME OnePlace, NEW p \in Place, p # "ready",
         NEW W \in SUBSET Members(p), NEW J \in SUBSET Task,
         \A t \in J : ~Queued(t),
         Members("ready")' = Members("ready") \cup W \cup J,
         Members(p)' = Members(p) \ W,
         \A q \in Place : q # p /\ q # "ready" => Members(q)' = Members(q),
         \A u \in Task : Queued(u)' <=> Queued(u) \/ u \in J,
         NoDuplicates'
  PROVE  OnePlace'
<1>0. "ready" \in Place
  BY DEF Place
<1>1. \A t \in J, q \in Place : t \notin Members(q)
  BY DEF OnePlace
<1>2. \A u \in Task : \A q, r \in Place :
        u \in Members(q) /\ u \in Members(r) => q = r
  BY DEF OnePlace
<1>3. \A u \in Task : \A q, r \in Place :
        u \in Members(q)' /\ u \in Members(r)' => q = r
  BY <1>0, <1>1, <1>2
<1>4. \A u \in Task : Queued(u) <=> \E q \in Place : u \in Members(q)
  BY DEF OnePlace
<1>5. \A u \in Task : Queued(u)' <=> \E q \in Place : u \in Members(q)'
  BY <1>0, <1>1, <1>4, SMTT(30)
<1>. QED BY <1>3, <1>5 DEF OnePlace

(* A task that is not in the ready queue joins it. *)
LEMMA JoinedReady ==
  ASSUME TypeOK, OnePlace, NEW t \in Task, ~Queued(t),
         ready_queue' = Append(ready_queue, t),
         UNCHANGED <<wait_queue, timers>>,
         \A u \in Task : Queued(u)' <=> Queued(u) \/ u = t
  PROVE  OnePlace'
<1>1. "ready" \in Place /\ t \notin Range(ready_queue)
  BY MembersAre DEF OnePlace, Place
<1>2. ready_queue \in Seq(Task)
  BY DEF TypeOK, SchedTypeOK
<1>3. /\ Range(ready_queue') = Range(ready_queue) \cup {t}
      /\ IsInjective(ready_queue) => IsInjective(ready_queue')
  BY <1>1, <1>2, PushBack
<1>4. NoDuplicates'
  BY <1>3, Zenon DEF OnePlace, NoDuplicates
<1>5. \A q \in Place : q # "ready" => Members(q)' = Members(q)
  BY DEF Members
<1>. QED BY <1>1, <1>3, <1>4, <1>5, MembersAre, Joined, Zenon

(* A running task joins the queue of an object. *)
LEMMA JoinedObject ==
  ASSUME TypeOK, OnePlace, NEW t \in Task, NEW o \in WaitObject, ~Queued(t),
         wait_queue' = [wait_queue EXCEPT ![o] = Append(@, t)],
         UNCHANGED <<ready_queue, timers>>,
         \A u \in Task : Queued(u)' <=> Queued(u) \/ u = t
  PROVE  OnePlace'
<1>0. o \in Place
  BY Zenon DEF Place
<1>1. t \notin Range(wait_queue[o])
  <2>1. t \notin Members(o)
    BY <1>0 DEF OnePlace
  <2>. QED BY <2>1, MembersAre
<1>2. /\ wait_queue \in [WaitObject -> Seq(Task)]
      /\ wait_queue[o] \in Seq(Task)
  BY DEF TypeOK
<1>3. /\ wait_queue'[o] = Append(wait_queue[o], t)
      /\ \A q \in WaitObject : q # o => wait_queue'[q] = wait_queue[q]
  BY <1>2, Zenon
<1>4. /\ Range(wait_queue'[o]) = Range(wait_queue[o]) \cup {t}
      /\ IsInjective(wait_queue[o]) => IsInjective(wait_queue'[o])
  BY <1>1, <1>2, <1>3, PushBack
<1>5. NoDuplicates'
  BY <1>3, <1>4 DEF OnePlace, NoDuplicates
<1>6. \A q \in Place : q # o => Members(q)' = Members(q)
  BY ZenonT(30), <1>3, MembersAre DEF Place
<1>7. Members(o)' = Members(o) \cup {t}
  BY <1>4, MembersAre
<1>. QED BY <1>0, <1>5, <1>6, <1>7, Joined, Zenon

(* The first waiter of an object is woken. *)
LEMMA WokenFirst ==
  ASSUME TypeOK, OnePlace, NEW o \in WaitObject, wait_queue[o] # <<>>,
         ready_queue' = Append(ready_queue, Head(wait_queue[o])),
         wait_queue' = [wait_queue EXCEPT ![o] = Tail(@)],
         UNCHANGED timers,
         \A u \in Task : Queued(u)' <=> Queued(u)
  PROVE  OnePlace'
<1>. DEFINE t == Head(wait_queue[o])
<1>1. /\ wait_queue \in [WaitObject -> Seq(Task)]
      /\ wait_queue[o] \in Seq(Task) /\ ready_queue \in Seq(Task)
  BY Zenon DEF TypeOK, SchedTypeOK
<1>2. /\ t \in Task /\ t \in Members(o)
      /\ IsInjective(Tail(wait_queue[o]))
      /\ Range(Tail(wait_queue[o])) = Range(wait_queue[o]) \ {t}
  BY <1>1, PopFront, MembersAre DEF OnePlace, NoDuplicates
<1>. HIDE DEF t
<1>3. o \in Place /\ "ready" \in Place
  BY Zenon DEF Place
<1>4. t \notin Range(ready_queue)
  BY <1>2, <1>3, MembersAre DEF OnePlace
<1>5. /\ Range(ready_queue') = Range(ready_queue) \cup {t}
      /\ IsInjective(ready_queue) => IsInjective(ready_queue')
  BY <1>1, <1>2, <1>4, PushBack DEF t
<1>6. /\ wait_queue'[o] = Tail(wait_queue[o])
      /\ \A q \in WaitObject : q # o => wait_queue'[q] = wait_queue[q]
  BY <1>1, Zenon
<1>7. NoDuplicates'
  BY <1>2, <1>5, <1>6 DEF OnePlace, NoDuplicates
<1>8. \A q \in Place : q # o /\ q # "ready" => Members(q)' = Members(q)
  BY Zenon, <1>6, MembersAre DEF Place
<1>9. /\ Members("ready")' = Members("ready") \cup {t} \cup {}
      /\ Members(o)' = Members(o) \ {t}
      /\ o # "ready"
  BY <1>2, <1>5, <1>6, MembersAre
<1>10. /\ {t} \in SUBSET Members(o) /\ {} \in SUBSET Task
       /\ \A u \in {} : ~Queued(u)
       /\ \A u \in Task : Queued(u)' <=> Queued(u) \/ u \in {}
  BY <1>2, Zenon
<1>. QED BY Zenon, <1>3, <1>7, <1>8, <1>9, <1>10, Woken

(* check_timer: the tasks of the expired timers move from the heap to the  *)
(* ready queue, all of them and once each.                                 *)
LEMMA WokenExpired ==
  ASSUME TypeOK, OnePlace, NEW w \in WakeOrders, PopExpired, wait_queue' = wait_queue
  PROVE  LET W == {r.task : r \in Expired} IN
         /\ w \in Seq(Task)
         /\ Range(w) = W
         /\ W \in SUBSET Members("timer")
         /\ Members("timer")' = Members("timer") \ W
         /\ \A q \in Place : q # "timer" /\ q # "ready" => Members(q)' = Members(q)
         /\ ready_queue \o w \in Seq(Task)
         /\ Range(ready_queue \o w) = Members("ready") \cup W
         /\ IsInjective(ready_queue \o w)
         /\ \A r, s \in timers' : r.task = s.task => r = s
<1>. DEFINE W == {r.task : r \in Expired}
<1>1. \A r, s \in timers : r.task = s.task => r = s
  BY DEF OnePlace, NoDuplicates
<1>2. w \in Seq(Task) /\ Range(w) = W /\ IsInjective(w)
  BY <1>1, WakeOrdersAreQueues
<1>3. Expired \subseteq timers /\ timers' = timers \ Expired
  BY Zenon DEF Expired, PopExpired
<1>4. W \in SUBSET Members("timer")
  BY <1>3, MembersAre, Zenon
<1>5. Members("timer")' = Members("timer") \ W
  BY <1>1, <1>3, MembersAre
<1>6. \A q \in Place : q # "timer" /\ q # "ready" => Members(q)' = Members(q)
  BY MembersAre DEF Place
<1>7. Range(ready_queue) \cap Range(w) = {}
  <2>1. \A t \in Task : t \in Members("timer") => t \notin Members("ready")
    BY MembersAre DEF OnePlace, Place
  <2>2. W \subseteq Task
    BY <1>3 DEF TypeOK, Timer
  <2>. QED BY <1>2, <1>4, <2>1, <2>2, MembersAre, Zenon
<1>8. ready_queue \in Seq(Task) /\ IsInjective(ready_queue)
  BY DEF TypeOK, SchedTypeOK, OnePlace, NoDuplicates
<1>9. /\ ready_queue \o w \in Seq(Task)
      /\ Range(ready_queue \o w) = Range(ready_queue) \cup Range(w)
      /\ IsInjective(ready_queue \o w)
  BY <1>2, <1>7, <1>8, PushAll
<1>10. \A r, s \in timers' : r.task = s.task => r = s
  BY <1>1, <1>3, SMTT(30)
<1>. QED BY <1>2, <1>4, <1>5, <1>6, <1>9, <1>10, MembersAre, Zenon

(* Every step keeps each task in its one place. *)
LEMMA PlaceStep ==
  ControlInv /\ OnePlace /\ [Next]_vars => OnePlace'
<1>. SUFFICES ASSUME ControlInv, OnePlace, [Next]_vars PROVE OnePlace'
  OBVIOUS
<1>a. /\ TypeOK /\ ArgsOK /\ KernelNotPreempted
      /\ kpc \in [Task -> KernelPC]
      /\ ready_queue \in Seq(Task)
  BY DEF ControlInv, TypeInv, TypeOK, SchedTypeOK
<1>b. ready_queue \o <<>> = ready_queue
  BY <1>a
<1>. USE NoneAssumption DEF Queued, sched_vars, time_vars, sync_vars, InSyscall
<1>1. ASSUME NEW t \in Task, SyscallEnter(t) PROVE OnePlace'
  BY <1>a, <1>1, Unmoved DEF SyscallEnter
<1>2. ASSUME NEW t \in Task, SysNoEffect(t) PROVE OnePlace'
  BY <1>a, <1>2, Unmoved, Zenon DEF SysNoEffect, trap_return
<1>3. ASSUME NEW t \in Task, sys_yield(t) PROVE OnePlace'
  <2>1. /\ ~Queued(t) /\ ready_queue' = Append(ready_queue, t)
        /\ \A u \in Task : Queued(u)' <=> Queued(u) \/ u = t
    BY <1>a, <1>b, <1>3, Zenon DEF sys_yield, suspend_current_and_run_next
  <2>. QED BY <1>a, <1>3, <2>1, JoinedReady, Zenon DEF sys_yield
<1>4. ASSUME NEW t \in Task, NEW u \in Task, Spawn(t, u) PROVE OnePlace'
  <2>1. /\ ~Queued(u) /\ ready_queue' = Append(ready_queue, u)
        /\ \A v \in Task : Queued(v)' <=> Queued(v) \/ v = u
    BY <1>a, <1>4 DEF Spawn, add_task
  <2>. QED BY <1>a, <1>4, <2>1, JoinedReady, Zenon DEF Spawn
<1>5. ASSUME NEW t \in Task, Exit(t) PROVE OnePlace'
  BY <1>a, <1>5, Unmoved DEF Exit, leave_processor
<1>6. ASSUME NEW t \in Task, BlockCurrent(t) PROVE OnePlace'
  BY <1>a, <1>6, Unmoved DEF BlockCurrent, block_current_and_run_next
<1>7. ASSUME NEW t \in Task, NEW m \in Mutex, current = t,
             kpc[t] \in {"syscall", "lock"}, lock(t, m)
      PROVE  OnePlace'
  <2>1. CASE LockTakes(t, m)
    BY <1>a, <1>7, <2>1, Unmoved DEF LockTakes, trap_return
  <2>2. CASE LockQueues(t, m)
    <3>1. ~Queued(t) /\ \A u \in Task : Queued(u)' <=> Queued(u) \/ u = t
      BY <1>a, <1>7, <2>2, Zenon DEF LockQueues, Enqueue
    <3>. QED BY Zenon, <1>a, <2>2, <3>1, JoinedObject DEF LockQueues, Enqueue
  <2>3. CASE LockYields(t, m)
    <3>1. /\ ~Queued(t) /\ ready_queue' = Append(ready_queue, t)
          /\ \A u \in Task : Queued(u)' <=> Queued(u) \/ u = t
      BY <1>a, <1>b, <1>7, <2>3, Zenon DEF LockYields, suspend_current_and_run_next
    <3>. QED BY <1>a, <2>3, <3>1, JoinedReady DEF LockYields
  <2>. QED BY <1>7, <2>1, <2>2, <2>3, Zenon DEF lock
<1>8. ASSUME NEW t \in Task, NEW m \in Mutex, unlock(t, m), UNCHANGED timers,
             \A u \in Task : current' = current => (Queued(u)' <=> Queued(u))
      PROVE  OnePlace'
  <2>1. CASE HandOver(t, m)
    BY ZenonT(30), <1>a, <1>8, <2>1, WokenFirst DEF HandOver, wakeup_task
  <2>2. CASE Release(t, m)
    BY <1>a, <1>8, <2>2, Unmoved DEF Release
  <2>. QED BY <1>8, <2>1, <2>2 DEF unlock
<1>9. ASSUME NEW o \in WaitObject, WakeFirst(o), UNCHANGED timers,
             \A u \in Task : current' = current => (Queued(u)' <=> Queued(u))
      PROVE  OnePlace'
  <2>1. CASE wait_queue[o] = <<>>
    BY <1>a, <1>9, <2>1, Unmoved, Zenon DEF WakeFirst
  <2>2. CASE wait_queue[o] # <<>>
    BY <1>a, <1>9, <2>2, WokenFirst, Zenon DEF WakeFirst, wakeup_task
  <2>. QED BY <2>1, <2>2
<1>10. ASSUME NEW t \in Task, NEW m \in Mutex, sys_mutex_unlock(t, m) PROVE OnePlace'
  <2>1. \A u \in Task : current' = current => (Queued(u)' <=> Queued(u))
    BY <1>a, <1>10, Zenon DEF sys_mutex_unlock, trap_return
  <2>. QED BY <1>8, <1>10, <2>1 DEF sys_mutex_unlock
<1>11. ASSUME NEW t \in Task, NEW s \in Semaphore, sys_semaphore_up(t, s)
       PROVE  OnePlace'
  <2>1. \A u \in Task : current' = current => (Queued(u)' <=> Queued(u))
    BY <1>a, <1>11 DEF sys_semaphore_up, trap_return
  <2>. QED BY <1>9, <1>11, <2>1 DEF sys_semaphore_up
<1>12. ASSUME NEW t \in Task, NEW s \in Semaphore, sys_semaphore_down(t, s)
       PROVE  OnePlace'
  <2>1. CASE count[s] - 1 < 0
    <3>1. ~Queued(t) /\ \A u \in Task : Queued(u)' <=> Queued(u) \/ u = t
      BY <1>a, <1>12, <2>1, Zenon DEF sys_semaphore_down, Enqueue
    <3>. QED BY <1>a, <1>12, <2>1, <3>1, JoinedObject, Zenon DEF sys_semaphore_down, Enqueue
  <2>2. CASE ~(count[s] - 1 < 0)
    BY <1>a, <1>12, <2>2, Unmoved, SMTT(30) DEF sys_semaphore_down, trap_return
  <2>. QED BY <2>1, <2>2, Zenon
<1>13. ASSUME NEW t \in Task, NEW c \in Condvar, sys_condvar_signal(t, c)
       PROVE  OnePlace'
  <2>1. \A u \in Task : current' = current => (Queued(u)' <=> Queued(u))
    BY <1>a, <1>13, Zenon DEF sys_condvar_signal, trap_return
  <2>. QED BY <1>9, <1>13, <2>1, Zenon DEF sys_condvar_signal
<1>14. ASSUME NEW t \in Task, NEW c \in Condvar, NEW m \in Mutex,
              sys_condvar_wait(t, c, m)
       PROVE  OnePlace'
  <2>1. \A u \in Task : current' = current => (Queued(u)' <=> Queued(u))
    BY <1>a, <1>14 DEF sys_condvar_wait
  <2>. QED BY <1>8, <1>14, <2>1, Zenon DEF sys_condvar_wait
<1>15. ASSUME NEW t \in Task, CondvarEnqueue(t) PROVE OnePlace'
  <2>1. ~Queued(t) /\ \A u \in Task : Queued(u)' <=> Queued(u) \/ u = t
    BY <1>a, <1>15, Zenon DEF CondvarEnqueue, Enqueue
  <2>2. condvar_arg[t] \in WaitObject
    BY <1>a, <1>15, Zenon DEF CondvarEnqueue, ArgsOK
  <2>. QED BY Zenon, <1>a, <1>15, <2>1, <2>2, JoinedObject DEF CondvarEnqueue, Enqueue
<1>16. ASSUME NEW t \in Task, NEW ms \in 0..MaxTime, sys_sleep(t, ms) PROVE OnePlace'
  <2>1. ~Queued(t) /\ \A u \in Task : Queued(u)' <=> Queued(u) \/ u = t
    BY <1>a, <1>16, Zenon DEF sys_sleep
  <2>2. t \notin Members("timer") /\ "timer" \in Place
    BY <2>1, SMTT(30) DEF OnePlace, Place
  <2>3. Members("timer")' = Members("timer") \cup {t}
    <3>. DEFINE r == [expire_ms |-> now + ms, task |-> t]
    <3>1. timers' = timers \cup {r} /\ r.task = t
      BY <1>16, Zenon DEF sys_sleep
    <3>2. Members("timer") = {x.task : x \in timers}
      BY MembersAre, Zenon
    <3>3. Members("timer")' = {x.task : x \in timers'}
      BY MembersAre, Zenon
    <3>. HIDE DEF r
    <3>. QED BY <3>1, <3>2, <3>3, Zenon
  <2>4. \A q \in Place : q # "timer" => Members(q)' = Members(q)
    BY <1>16, Zenon DEF sys_sleep, Members
  <2>5. \A r, s \in timers' : r.task = s.task => r = s
    BY <1>16, <2>2, MembersAre, SMTT(30) DEF sys_sleep, OnePlace, NoDuplicates
  <2>6. NoDuplicates'
    BY <1>16, <2>5, Zenon DEF sys_sleep, OnePlace, NoDuplicates
  <2>. QED BY <2>1, <2>2, <2>3, <2>4, <2>6, Joined, Zenon
<1>17. ASSUME NEW t \in Task, RunTask(t) PROVE OnePlace'
  <2>1. /\ t \in Range(ready_queue)
        /\ IsInjective(ready_queue')
        /\ Range(ready_queue') = Range(ready_queue) \ {t}
    BY <1>a, <1>17, PopFront, Zenon DEF RunTask, run_task, OnePlace, NoDuplicates
  <2>2. NoDuplicates'
    BY <1>17, <2>1, Zenon DEF RunTask, OnePlace, NoDuplicates
  <2>3. \A q \in Place : q # "ready" => Members(q)' = Members(q)
    BY <1>17 DEF RunTask, Members
  <2>4. \A u \in Task : Queued(u)' <=> Queued(u) /\ u # t
    BY <1>a, <1>17, Zenon DEF RunTask, run_task, KernelNotPreempted
  <2>5. Members("ready")' = Members("ready") \ {t} /\ t \in Members("ready")
    BY <2>1, MembersAre
  <2>6. "ready" \in Place
    BY DEF Place
  <2>7. \A u \in Task : \A p, q \in Place :
          u \in Members(p) /\ u \in Members(q) => p = q
    BY DEF OnePlace
  <2>8. \A u \in Task : Queued(u) <=> \E p \in Place : u \in Members(p)
    BY DEF OnePlace
  <2>9. \A u \in Task : \A p, q \in Place :
          u \in Members(p)' /\ u \in Members(q)' => p = q
    BY <2>3, <2>5, <2>7
  <2>. HIDE DEF Queued
  <2>10. \A u \in Task : Queued(u)' <=> \E p \in Place : u \in Members(p)'
    BY <2>3, <2>4, <2>5, <2>6, <2>7, <2>8
  <2>. QED BY <2>2, <2>9, <2>10, SMTT(30) DEF OnePlace
<1>18. ASSUME NEW t \in Task, UserTimer(t) PROVE OnePlace'
  <2>1. PICK w \in WakeOrders : suspend_current_and_run_next(t, w)
    BY <1>18 DEF UserTimer
  <2>. DEFINE W == {r.task : r \in Expired}
  <2>2. ~Queued(t) /\ \A u \in Task : Queued(u)' <=> Queued(u) \/ u \in {t}
    BY <1>a, <1>18, <2>1, Zenon DEF UserTimer, suspend_current_and_run_next
  <2>3. /\ Range(w) = W
        /\ W \in SUBSET Members("timer")
        /\ Members("timer")' = Members("timer") \ W
        /\ \A q \in Place : q # "timer" /\ q # "ready" => Members(q)' = Members(q)
        /\ ready_queue \o w \in Seq(Task)
        /\ Range(ready_queue \o w) = Members("ready") \cup W
        /\ IsInjective(ready_queue \o w)
        /\ \A r, s \in timers' : r.task = s.task => r = s
    BY <1>a, <1>18, WokenExpired DEF UserTimer
  <2>. HIDE DEF W, Queued
  <2>4. "timer" \in Place /\ "ready" \in Place
    BY DEF Place
  <2>5. t \notin Range(ready_queue \o w)
    BY <2>2, <2>3, <2>4 DEF OnePlace
  <2>6. ready_queue' = Append(ready_queue \o w, t)
    BY <2>1 DEF suspend_current_and_run_next
  <2>7. /\ Range(ready_queue') = Range(ready_queue \o w) \cup {t}
        /\ IsInjective(ready_queue')
    <3>. DEFINE q == ready_queue \o w
    <3>1. q \in Seq(Task) /\ IsInjective(q) /\ t \notin Range(q)
      BY <2>3, <2>5
    <3>2. ready_queue' = Append(q, t)
      BY <2>6
    <3>. HIDE DEF q
    <3>3. Range(ready_queue') = Range(q) \cup {t} /\ IsInjective(ready_queue')
      BY <3>1, <3>2, PushBack, SMTT(30)
    <3>. QED BY <3>3, Zenon DEF q
  <2>8. NoDuplicates'
    BY <1>18, <2>3, <2>7, Zenon DEF UserTimer, OnePlace, NoDuplicates
  <2>9. Members("ready")' = Members("ready") \cup W \cup {t}
    BY <2>3, <2>7, MembersAre
  <2>10. /\ {t} \in SUBSET Task /\ \A u \in {t} : ~Queued(u)
         /\ "timer" # "ready"
    BY <2>2
  <2>11. \A u \in Task : Queued(u)' <=> Queued(u) \/ u \in {t}
    BY <2>2
  <2>12. /\ W \in SUBSET Members("timer")
         /\ Members("timer")' = Members("timer") \ W
         /\ \A q \in Place : q # "timer" /\ q # "ready" => Members(q)' = Members(q)
    BY <2>3
  <2>. QED BY Zenon, <2>4, <2>8, <2>9, <2>10, <2>11, <2>12, Woken
<1>19. ASSUME KernelTimer PROVE OnePlace'
  <2>1. PICK w \in WakeOrders : wakeup_tasks(w)
    BY <1>19, Zenon DEF KernelTimer
  <2>. DEFINE W == {r.task : r \in Expired}
  <2>2. \A u \in Task : Queued(u)' <=> Queued(u) \/ u \in {}
    BY <1>a, <1>19, <2>1, Zenon DEF KernelTimer, wakeup_tasks
  <2>3. /\ Range(w) = W
        /\ W \in SUBSET Members("timer")
        /\ Members("timer")' = Members("timer") \ W
        /\ \A q \in Place : q # "timer" /\ q # "ready" => Members(q)' = Members(q)
        /\ Range(ready_queue \o w) = Members("ready") \cup W
        /\ IsInjective(ready_queue \o w)
        /\ \A r, s \in timers' : r.task = s.task => r = s
    BY <1>a, <1>19, WokenExpired DEF KernelTimer
  <2>. HIDE DEF W, Queued
  <2>4. "timer" \in Place /\ ready_queue' = ready_queue \o w
    BY <2>1, Zenon DEF Place, wakeup_tasks
  <2>5. NoDuplicates'
    BY <1>19, <2>3, <2>4, Zenon DEF KernelTimer, OnePlace, NoDuplicates
  <2>6. Members("ready")' = Members("ready") \cup W \cup {}
    BY <2>3, <2>4, MembersAre
  <2>7. /\ {} \in SUBSET Task /\ \A u \in {} : ~Queued(u)
        /\ "timer" # "ready"
    OBVIOUS
  <2>8. /\ W \in SUBSET Members("timer")
        /\ Members("timer")' = Members("timer") \ W
        /\ \A q \in Place : q # "timer" /\ q # "ready" => Members(q)' = Members(q)
    BY <2>3
  <2>. QED BY Zenon, <2>2, <2>4, <2>5, <2>6, <2>7, <2>8, Woken
<1>20. ASSUME Tick PROVE OnePlace'
  BY <1>20, Unmoved DEF Tick
<1>21. CASE UNCHANGED vars
  BY <1>21, Unmoved DEF vars
<1>. QED
  BY <1>1, <1>2, <1>3, <1>4, <1>5, <1>6, <1>7, <1>10, <1>11, <1>12, <1>13, <1>14, ZenonT(30),
     <1>15, <1>16, <1>17, <1>18, <1>19, <1>20, <1>21, <1>a
     DEF Next, KernelStep, sys_mutex_lock, LockAgain, ArgsOK

(* A task that is off the processor is in exactly one of the ready queue,  *)
(* the wait queues and the timer heap, once; any other task is in none.    *)
THEOREM NoLostWakeup == Spec => []OnePlace
<1>1. Init => OnePlace
  <2>. SUFFICES ASSUME Init PROVE OnePlace
    OBVIOUS
  <2>1. /\ Range(ready_queue) = {INITPROC} /\ IsInjective(ready_queue)
        /\ \A o \in WaitObject : Range(wait_queue[o]) = {} /\ IsInjective(wait_queue[o])
        /\ timers = {}
    BY SyncAssumption DEF Init, Range, IsInjective
  <2>2. NoDuplicates
    BY <2>1, Zenon DEF NoDuplicates
  <2>3. /\ Members("ready") = {INITPROC}
        /\ \A p \in Place : p # "ready" => Members(p) = {}
    BY <2>1, MembersAre, Zenon DEF Place
  <2>4. \A t \in Task : Queued(t) <=> t = INITPROC
    BY NoneAssumption, SyncAssumption DEF Init, Queued
  <2>. QED BY <2>2, <2>3, <2>4, Zenon DEF OnePlace, Place
<1>2. ControlInv /\ OnePlace /\ [Next]_vars => OnePlace'
  BY PlaceStep, Zenon
<1>. QED BY <1>1, <1>2, ControlCorrect, PTL DEF Spec

------------------------------------------------------------------------------
(* KernelSync implements TaskLifecycle *)

Stopped == {"unborn", "exited"}

(* What the refinement mapping says of one task. *)
LEMMA StateOf ==
  ASSUME NEW t \in Task
  PROVE  /\ LifecycleState[t] =
              IF kpc[t] \in Stopped THEN kpc[t]
              ELSE IF current = t THEN "running"
              ELSE IF t \in Members("ready") THEN "ready" ELSE "blocked"
         /\ LifecycleState'[t] =
              IF kpc'[t] \in Stopped THEN kpc'[t]
              ELSE IF current' = t THEN "running"
              ELSE IF t \in Members("ready")' THEN "ready" ELSE "blocked"
BY MembersAre DEF LifecycleState, Stopped

(* A step that moves no task between queues and processor is a stutter. *)
LEMMA StateKept ==
  ASSUME TypeOK, UNCHANGED <<ready_queue, current>>, kpc' \in [Task -> KernelPC],
         \A t \in Task : kpc'[t] = kpc[t] \/ {kpc[t], kpc'[t]} \cap Stopped = {}
  PROVE  LifecycleState' = LifecycleState
<1>1. \A t \in Task : LifecycleState'[t] = LifecycleState[t]
  BY ZenonT(30), StateOf, MembersAre DEF Stopped
<1>. QED BY <1>1 DEF LifecycleState

(* Waking the first waiter of an object is the wake-up of one task. *)
LEMMA StateWake ==
  ASSUME ControlInv, OnePlace, NEW t \in Task, InSyscall(t),
         NEW o \in WaitObject, wait_queue[o] # <<>>,
         wakeup_task(Head(wait_queue[o])),
         kpc' = [kpc EXCEPT ![t] = "user"] \/ kpc' = [kpc EXCEPT ![t] = "cvwait"]
  PROVE  Lifecycle!Next
<1>. DEFINE n == Head(wait_queue[o])
<1>a. /\ TypeOK /\ kpc \in [Task -> KernelPC] /\ ready_queue \in Seq(Task)
      /\ wait_queue[o] \in Seq(Task)
  BY Zenon DEF ControlInv, TypeInv, TypeOK, SchedTypeOK
<1>1. n \in Task /\ n \in Range(wait_queue[o])
  BY <1>a, PopFront, Zenon DEF OnePlace, NoDuplicates
<1>2. ready_queue' = Append(ready_queue, n) /\ current' = current
  BY SMTT(30) DEF wakeup_task
<1>. HIDE DEF n
<1>3. n \in Members(o) /\ o \in Place /\ "ready" \in Place /\ o # "ready"
  BY <1>1, MembersAre, Zenon DEF Place
<1>4. Queued(n) /\ n \notin Members("ready")
  BY <1>1, <1>3, Zenon DEF OnePlace
<1>5. n # t /\ current = t /\ kpc[n] \notin Stopped
  BY <1>4, <1>a, Zenon DEF Queued, InSyscall, Stopped
<1>6. Members("ready")' = Members("ready") \cup {n}
  BY <1>a, <1>1, <1>2, PushBack, MembersAre
<1>7. kpc[t] \notin Stopped /\ kpc'[t] \notin Stopped
      /\ \A u \in Task : u # t => kpc'[u] = kpc[u]
  BY <1>a, Zenon DEF InSyscall, Stopped
<1>8. \A u \in Task : LifecycleState'[u] = IF u \in {n} THEN "ready" ELSE LifecycleState[u]
  BY <1>1, <1>2, <1>5, <1>6, <1>7, StateOf, Zenon
<1>9. LifecycleState[n] = "blocked"
  BY <1>1, <1>4, <1>5, StateOf, Zenon
<1>10. Lifecycle!Wake({n})
  <2>1. LifecycleState' = [u \in Task |-> IF u \in {n} THEN "ready" ELSE LifecycleState[u]]
    BY <1>8, Zenon DEF LifecycleState
  <2>. QED BY <1>1, <1>9, <2>1, SMTT(30) DEF Lifecycle!Wake, Lifecycle!In
<1>. QED BY <1>1, <1>10, Zenon DEF Lifecycle!Next

(* The running task leaves the processor in state s; W is woken. *)
LEMMA StateLeave ==
  ASSUME TypeOK, NEW t \in Task, current = t, current' = NONE, kpc[t] \notin Stopped,
         NEW W \in SUBSET Task,
         \A u \in W : LifecycleState[u] = "blocked",
         NEW s \in {"ready", "blocked", "exited"},
         LifecycleState'[t] = s,
         \A u \in Task : u # t => kpc'[u] = kpc[u],
         \A u \in Task : u # t =>
            (u \in Members("ready")' <=> u \in Members("ready") \/ u \in W)
  PROVE  Lifecycle!Next
<1>1. LifecycleState[t] = "running"
  BY StateOf, Zenon
<1>2. \A u \in Task : LifecycleState'[u] =
        IF u = t THEN s ELSE IF u \in W THEN "ready" ELSE LifecycleState[u]
  <2>. SUFFICES ASSUME NEW u \in Task, u # t
                PROVE  LifecycleState'[u] = IF u \in W THEN "ready" ELSE LifecycleState[u]
    OBVIOUS
  <2>1. current # u /\ current' # u
    BY NoneAssumption, SMTT(30)
  <2>2. CASE u \in W
    <3>1. kpc[u] \notin Stopped
      BY <2>2, StateOf, Zenon DEF Stopped
    <3>. QED BY <2>1, <2>2, <3>1, StateOf, Zenon
  <2>3. CASE u \notin W
    BY <2>1, <2>3, StateOf, Zenon
  <2>. QED BY <2>2, <2>3, Zenon
<1>3. LifecycleState' = [u \in Task |->
        IF u = t THEN s ELSE IF u \in W THEN "ready" ELSE LifecycleState[u]]
  BY <1>2, Zenon DEF LifecycleState
<1>4. Lifecycle!Leave(t, s, W)
  BY <1>1, <1>3 DEF Lifecycle!Leave, Lifecycle!In
<1>. QED BY <1>4, Zenon DEF Lifecycle!Next

(* Every step of the kernel is a step of the life cycle or a stutter. *)
LEMMA LifecycleStep ==
  ASSUME ControlInv, OnePlace, [Next]_vars, TypeOK'
  PROVE  [Lifecycle!Next]_LifecycleState
<1>a. /\ TypeOK /\ ArgsOK /\ KernelNotPreempted
      /\ kpc \in [Task -> KernelPC] /\ kpc' \in [Task -> KernelPC]
      /\ ready_queue \in Seq(Task)
  BY DEF ControlInv, TypeInv, TypeOK, SchedTypeOK
<1>b. ready_queue \o <<>> = ready_queue
  BY <1>a
<1>c. \A u \in Task : u \in Members("ready") => kpc[u] \notin Stopped
  <2>1. "ready" \in Place
    BY DEF Place
  <2>. QED BY <2>1 DEF OnePlace, Queued, Stopped
<1>d. Stopped = {"unborn", "exited"}
  BY DEF Stopped
<1>. DEFINE Goal == [Lifecycle!Next]_LifecycleState
<1>1. ASSUME NEW t \in Task, current = t, NEW pc \in KernelPC \ Stopped,
             kpc[t] \notin Stopped,
             kpc' = [kpc EXCEPT ![t] = pc], UNCHANGED <<ready_queue, current>>
      PROVE  Goal
  BY <1>a, <1>1, StateKept
<1>2. ASSUME NEW t \in Task, current = t, NEW pc \in KernelPC \ Stopped,
             kpc[t] \notin Stopped,
             kpc' = [kpc EXCEPT ![t] = pc], suspend_current_and_run_next(t, <<>>)
      PROVE  Goal
  <2>1. ready_queue' = Append(ready_queue, t) /\ current' = NONE
    BY <1>b, <1>2 DEF suspend_current_and_run_next
  <2>2. Members("ready")' = Members("ready") \cup {t}
    BY <1>a, <2>1, PushBack, MembersAre
  <2>3. kpc'[t] = pc /\ \A u \in Task : u # t => kpc'[u] = kpc[u]
    BY <1>a, <1>2, Zenon
  <2>4. LifecycleState'[t] = "ready"
    BY <1>2, <2>1, <2>2, <2>3, StateOf, NoneAssumption, Zenon
  <2>5. {} \in SUBSET Task /\ \A u \in {} : LifecycleState[u] = "blocked"
    OBVIOUS
  <2>6. \A u \in Task : u # t =>
          (u \in Members("ready")' <=> u \in Members("ready") \/ u \in {})
    BY <2>2
  <2>7. LifecycleState'[t] \in {"ready", "blocked", "exited"}
    BY <2>4
  <2>8. current = t /\ current' = NONE /\ kpc[t] \notin Stopped /\ TypeOK
    BY <1>a, <1>2, <2>1, Zenon
  <2>9. \A u \in Task : u # t => kpc'[u] = kpc[u]
    BY <2>3
  <2>. QED BY ZenonT(30), <2>5, <2>6, <2>7, <2>8, <2>9, StateLeave
<1>3. ASSUME NEW t \in Task, NEW u \in Task, Spawn(t, u) PROVE Goal
  <2>1. /\ current = t /\ kpc[t] = "syscall" /\ kpc[u] = "unborn" /\ current' = current
        /\ ready_queue' = Append(ready_queue, u)
        /\ kpc' = [kpc EXCEPT ![t] = "user", ![u] = "user"]
    BY <1>3, Zenon DEF Spawn, InSyscall, add_task
  <2>2. Members("ready")' = Members("ready") \cup {u}
    BY <1>a, <2>1, PushBack, MembersAre, SMTT(30)
  <2>3. LifecycleState[t] = "running" /\ LifecycleState[u] = "unborn" /\ t # u
    BY <1>d, <2>1, StateOf, Zenon
  <2>4. kpc'[t] = "user" /\ kpc'[u] = "user"
        /\ \A v \in Task : v # t /\ v # u => kpc'[v] = kpc[v]
    BY <1>a, <2>1, Zenon
  <2>5. \A v \in Task : LifecycleState'[v] = IF v = u THEN "ready" ELSE LifecycleState[v]
    <3>a. /\ current' = t /\ u \in Members("ready")'
          /\ kpc'[t] \notin Stopped /\ kpc'[u] \notin Stopped
      BY <1>d, <2>1, <2>2, <2>4, SMTT(30)
    <3>1. LifecycleState'[u] = "ready"
      BY <2>3, <3>a, StateOf, Zenon
    <3>2. LifecycleState'[t] = "running"
      BY <3>a, StateOf
    <3>3. ASSUME NEW v \in Task, v # t, v # u PROVE LifecycleState'[v] = LifecycleState[v]
      BY ZenonT(30), <2>1, <2>2, <2>4, <3>3, StateOf
    <3>. QED BY <2>3, <3>1, <3>2, <3>3, Zenon
  <2>6. LifecycleState' = [LifecycleState EXCEPT ![u] = "ready"]
    BY Zenon, <2>5 DEF LifecycleState
  <2>7. Lifecycle!Create(u)
    BY <2>3, <2>6, Zenon DEF Lifecycle!Create, Lifecycle!In
  <2>. QED BY <2>7 DEF Lifecycle!Next
<1>4. ASSUME NEW t \in Task, current = t, current' = NONE, kpc[t] \notin Stopped,
             ready_queue' = ready_queue, NEW pc \in KernelPC \ {"unborn"},
             kpc' = [kpc EXCEPT ![t] = pc]
      PROVE  Goal
  <2>1. kpc'[t] = pc /\ \A u \in Task : u # t => kpc'[u] = kpc[u]
    BY <1>a, <1>4, Zenon
  <2>2. Members("ready")' = Members("ready")
    BY <1>4, MembersAre, Zenon
  <2>3. LifecycleState'[t] \in {"ready", "blocked", "exited"}
    BY <1>d, <1>4, <2>1, StateOf, NoneAssumption
  <2>4. {} \in SUBSET Task /\ \A u \in {} : LifecycleState[u] = "blocked"
    OBVIOUS
  <2>5. \A u \in Task : u # t =>
          (u \in Members("ready")' <=> u \in Members("ready") \/ u \in {})
    BY <2>2
  <2>. QED BY <1>a, <1>4, <2>1, <2>3, <2>4, <2>5, StateLeave
<1>5. ASSUME NEW t \in Task, Exit(t) PROVE Goal
  BY Zenon, <1>4, <1>5, <1>d DEF Exit, leave_processor, KernelPC
<1>6. ASSUME NEW t \in Task, BlockCurrent(t) PROVE Goal
  BY Zenon, <1>4, <1>6, <1>d DEF BlockCurrent, block_current_and_run_next, KernelPC
<1>7. ASSUME NEW t \in Task, NEW m \in Mutex, current = t,
             kpc[t] \in {"syscall", "lock"}, lock(t, m)
      PROVE  Goal
  <2>1. CASE LockTakes(t, m)
    BY Zenon, <1>1, <1>7, <1>d, <2>1 DEF LockTakes, trap_return, sched_vars, KernelPC
  <2>2. CASE LockQueues(t, m)
    BY Zenon, <1>1, <1>7, <1>d, <2>2 DEF LockQueues, Enqueue, sched_vars, KernelPC
  <2>3. CASE LockYields(t, m)
    BY Zenon, <1>2, <1>7, <1>d, <2>3 DEF LockYields, KernelPC
  <2>. QED BY <1>7, <2>1, <2>2, <2>3 DEF lock
<1>8. ASSUME NEW t \in Task, NEW m \in Mutex, InSyscall(t), unlock(t, m),
             kpc' = [kpc EXCEPT ![t] = "user"] \/ kpc' = [kpc EXCEPT ![t] = "cvwait"]
      PROVE  Goal
  <2>1. CASE HandOver(t, m)
    BY <1>8, <2>1, StateWake, Zenon DEF HandOver
  <2>2. CASE Release(t, m)
    BY <1>1, <1>8, <1>d, <2>2, Zenon DEF Release, sched_vars, InSyscall, KernelPC
  <2>. QED BY <1>8, <2>1, <2>2, SMTT(30) DEF unlock
<1>9. ASSUME NEW t \in Task, NEW o \in WaitObject, InSyscall(t), WakeFirst(o),
             kpc' = [kpc EXCEPT ![t] = "user"]
      PROVE  Goal
  <2>1. CASE wait_queue[o] = <<>>
    BY Zenon, <1>1, <1>9, <1>d, <2>1 DEF WakeFirst, sched_vars, InSyscall, KernelPC
  <2>2. CASE wait_queue[o] # <<>>
    BY Zenon, <1>9, <2>2, StateWake DEF WakeFirst
  <2>. QED BY <2>1, <2>2
<1>10. ASSUME NEW t \in Task, RunTask(t) PROVE Goal
  <2>1. /\ current = NONE /\ current' = t /\ kpc' = kpc
        /\ ready_queue # <<>> /\ t = Head(ready_queue)
        /\ ready_queue' = Tail(ready_queue)
    BY <1>10, Zenon DEF RunTask, run_task
  <2>2. t \in Members("ready") /\ Members("ready")' = Members("ready") \ {t}
    BY <1>a, <2>1, PopFront, MembersAre, SMTT(30) DEF OnePlace, NoDuplicates
  <2>3. \A u \in Task : LifecycleState[u] # "running"
    BY <1>d, <2>1, StateOf, NoneAssumption
  <2>4. kpc[t] \notin Stopped
    BY <1>c, <2>2, Zenon
  <2>5. LifecycleState[t] = "ready"
    BY <2>1, <2>2, <2>4, StateOf, NoneAssumption, Zenon
  <2>6. \A u \in Task : LifecycleState'[u] = IF u = t THEN "running" ELSE LifecycleState[u]
    BY <2>1, <2>2, <2>4, StateOf, NoneAssumption
  <2>7. LifecycleState' = [LifecycleState EXCEPT ![t] = "running"]
    BY Zenon, <2>6 DEF LifecycleState
  <2>8. Lifecycle!Dispatch(t)
    BY <2>3, <2>5, <2>7, Zenon DEF Lifecycle!Dispatch, Lifecycle!In
  <2>. QED BY <2>8 DEF Lifecycle!Next
<1>e. ASSUME NEW u \in Task, u \in Members("timer"), u # current
      PROVE  LifecycleState[u] = "blocked"
  <2>1. "timer" \in Place /\ "ready" \in Place
    BY DEF Place
  <2>2. Queued(u) /\ u \notin Members("ready")
    BY <1>e, <2>1 DEF OnePlace
  <2>3. kpc[u] \notin Stopped
    BY <1>d, <2>2 DEF Queued
  <2>. QED BY <1>e, <2>2, <2>3, StateOf
<1>11. ASSUME NEW t \in Task, UserTimer(t) PROVE Goal
  <2>1. PICK w \in WakeOrders : suspend_current_and_run_next(t, w)
    BY <1>11, SMTT(30) DEF UserTimer
  <2>. DEFINE W == {r.task : r \in Expired}
  <2>. DEFINE q == ready_queue \o w
  <2>2. /\ W \in SUBSET Members("timer")
        /\ q \in Seq(Task)
        /\ Range(q) = Members("ready") \cup W
    BY <1>a, <1>11, WokenExpired, Zenon DEF UserTimer, sync_vars
  <2>3. ready_queue' = Append(q, t) /\ current = t /\ current' = NONE /\ kpc' = kpc
        /\ kpc[t] = "user"
    BY <1>11, <2>1, Zenon DEF UserTimer, suspend_current_and_run_next
  <2>4. W \in SUBSET Task
    BY <1>a DEF TypeOK, Timer, Expired
  <2>. HIDE DEF W, q
  <2>5. Range(ready_queue') = Range(q) \cup {t}
    BY <2>2, <2>3, PushBack
  <2>6. t \notin W
    <3>1. "timer" \in Place /\ ~Queued(t)
      BY <2>3 DEF Place, Queued
    <3>. QED BY <2>2, <3>1, Zenon DEF OnePlace
  <2>7. \A u \in W : LifecycleState[u] = "blocked"
    BY <1>e, <2>2, <2>3, <2>4, <2>6, Zenon
  <2>8. LifecycleState'[t] = "ready"
    BY <1>d, <2>3, <2>5, StateOf, MembersAre, NoneAssumption, Zenon
  <2>9. \A u \in Task : u # t =>
          (u \in Members("ready")' <=> u \in Members("ready") \/ u \in W)
    BY <2>2, <2>5, MembersAre
  <2>10. kpc[t] \notin Stopped
    BY <1>d, <2>3
  <2>. QED BY Zenon, <1>a, <2>3, <2>4, <2>7, <2>8, <2>9, <2>10, StateLeave
<1>12. ASSUME KernelTimer PROVE Goal
  <2>1. PICK w \in WakeOrders : wakeup_tasks(w)
    BY <1>12, SMTT(30) DEF KernelTimer
  <2>. DEFINE W == {r.task : r \in Expired}
  <2>2. /\ W \in SUBSET Members("timer")
        /\ Range(ready_queue \o w) = Members("ready") \cup W
    BY <1>a, <1>12, WokenExpired, Zenon DEF KernelTimer, sync_vars
  <2>3. ready_queue' = ready_queue \o w /\ current' = current /\ kpc' = kpc
    BY <1>12, <2>1, Zenon DEF KernelTimer, wakeup_tasks
  <2>4. W \in SUBSET Task
    BY <1>a DEF TypeOK, Timer, Expired
  <2>. HIDE DEF W
  <2>5. Members("ready")' = Members("ready") \cup W
    BY <2>2, <2>3, MembersAre, Zenon
  <2>6. \A u \in W \ {current} : LifecycleState[u] = "blocked"
    BY <1>e, <2>2, <2>4, Zenon
  <2>7. \A u \in Task : LifecycleState'[u] =
          IF u \in W \ {current} THEN "ready" ELSE LifecycleState[u]
    <3>. SUFFICES ASSUME NEW u \in Task
                  PROVE  LifecycleState'[u] =
                           IF u \in W \ {current} THEN "ready" ELSE LifecycleState[u]
      BY SMTT(30)
    <3>1. CASE u \in W \ {current}
      <4>1. kpc[u] \notin Stopped
        BY <1>d, <2>6, <3>1, StateOf, Zenon
      <4>. QED BY <2>3, <2>5, <3>1, <4>1, StateOf, Zenon
    <3>2. CASE u \notin W \ {current}
      BY <2>3, <2>5, <3>2, StateOf, Zenon
    <3>. QED BY <3>1, <3>2, Zenon
  <2>8. LifecycleState' = [u \in Task |->
          IF u \in W \ {current} THEN "ready" ELSE LifecycleState[u]]
    BY <2>7, Zenon DEF LifecycleState
  <2>9. Lifecycle!Wake(W \ {current})
    BY <2>4, <2>6, <2>8 DEF Lifecycle!Wake, Lifecycle!In
  <2>10. W \ {current} \in SUBSET Task
    BY <2>4, Zenon
  <2>. QED BY <2>9, <2>10 DEF Lifecycle!Next
<1>13. ASSUME Tick \/ UNCHANGED vars PROVE Goal
  BY <1>a, <1>13, StateKept, Zenon DEF Tick, vars, sched_vars
<1>. HIDE DEF Goal
<1>14. ASSUME NEW t \in Task, KernelStep(t) PROVE Goal
  <2>1. CASE SysNoEffect(t)
    BY Zenon, <1>1, <1>d, <2>1 DEF SysNoEffect, trap_return, InSyscall, sched_vars, KernelPC
  <2>2. CASE sys_yield(t)
    BY ZenonT(30), <1>2, <1>d, <2>2 DEF sys_yield, InSyscall, KernelPC
  <2>3. CASE LockAgain(t)
    BY <1>7, <1>a, <2>3, Zenon DEF LockAgain, ArgsOK
  <2>4. ASSUME NEW m \in Mutex, sys_mutex_lock(t, m) PROVE Goal
    BY <1>7, <2>4 DEF sys_mutex_lock, InSyscall
  <2>5. ASSUME NEW m \in Mutex, sys_mutex_unlock(t, m) PROVE Goal
    BY Zenon, <1>8, <2>5 DEF sys_mutex_unlock, trap_return
  <2>6. ASSUME NEW s \in Semaphore, sys_semaphore_up(t, s) PROVE Goal
    BY Zenon, <1>9, <2>6 DEF sys_semaphore_up, trap_return
  <2>7. ASSUME NEW s \in Semaphore, sys_semaphore_down(t, s) PROVE Goal
    BY <1>1, <1>d, <2>7
       DEF sys_semaphore_down, Enqueue, trap_return, InSyscall, sched_vars, KernelPC
  <2>8. ASSUME NEW c \in Condvar, sys_condvar_signal(t, c) PROVE Goal
    BY Zenon, <1>9, <2>8 DEF sys_condvar_signal, trap_return
  <2>9. ASSUME NEW c \in Condvar, NEW m \in Mutex, sys_condvar_wait(t, c, m) PROVE Goal
    BY Zenon, <1>8, <2>9 DEF sys_condvar_wait
  <2>10. CASE CondvarEnqueue(t)
    BY Zenon, <1>1, <1>d, <2>10 DEF CondvarEnqueue, Enqueue, sched_vars, KernelPC
  <2>11. ASSUME NEW ms \in 0..MaxTime, sys_sleep(t, ms) PROVE Goal
    BY Zenon, <1>1, <1>d, <2>11 DEF sys_sleep, InSyscall, sched_vars, KernelPC
  <2>. QED BY <1>3, <1>5, <1>6, <1>14, <2>1, <2>2, <2>3, <2>4, <2>5, <2>6, <2>7, Zenon,
              <2>8, <2>9, <2>10, <2>11 DEF KernelStep
<1>15. ASSUME NEW t \in Task, SyscallEnter(t) PROVE Goal
  BY Zenon, <1>1, <1>d, <1>15 DEF SyscallEnter, sched_vars, KernelPC
<1>16. Goal
  BY <1>5, <1>10, <1>11, <1>12, <1>13, <1>14, <1>15, Zenon DEF Next
<1>. QED BY <1>16, Zenon DEF Goal

(* Scheduler, locks, timers and interrupts together implement the task     *)
(* life cycle: one running task, dispatched only when ready, woken only    *)
(* when blocked, never back after exit.                                    *)
THEOREM KernelImplementsLifecycle == Spec => ImplementsLifecycle
<1>1. Init => Lifecycle!Init
  <2>. SUFFICES ASSUME Init PROVE Lifecycle!Init
    OBVIOUS
  <2>1. Range(ready_queue) = {INITPROC}
    BY DEF Init, Range
  <2>2. \A t \in Task : LifecycleState[t] = IF t = INITPROC THEN "ready" ELSE "unborn"
    BY <2>1, NoneAssumption DEF Init, LifecycleState
  <2>3. LifecycleState = [t \in Task |-> IF t = INITPROC THEN "ready" ELSE "unborn"]
    BY <2>2 DEF LifecycleState
  <2>. QED BY <2>3 DEF Lifecycle!Init
<1>2. ControlInv /\ OnePlace /\ TypeOK' /\ [Next]_vars => [Lifecycle!Next]_LifecycleState
  BY LifecycleStep
<1>. QED
  BY <1>1, <1>2, ControlCorrect, NoLostWakeup, TypeCorrect, PTL
     DEF Spec, ImplementsLifecycle, Lifecycle!Spec
==============================================================================
