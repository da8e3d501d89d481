-------------------------- MODULE ProcessCallProofs --------------------------
(*****************************************************************************)
(* The calls that make and reap threads and processes keep the invariant of  *)
(* ProcessStepProofs: thread_create, waittid, fork and the exit of a main    *)
(* thread. And no call touches the entry of another thread (EntryKept).      *)
(*****************************************************************************)
EXTENDS ProcessStepProofs

(* The table grows as far as the entry needs, with None in between. *)
HasPlaced(r, s, i, u) ==
  /\ r \in Seq(Task \cup {NONE})
  /\ i + 1 \in DOMAIN r
  /\ r[i + 1] = u
  /\ Len(r) \in {i + 1, Len(s)}
  /\ \A k \in DOMAIN s : k \in DOMAIN r /\ (k # i + 1 => r[k] = s[k])
  /\ \A k \in DOMAIN r : k # i + 1 => k \in DOMAIN s \/ r[k] = NONE

LEMMA PlacedEntry ==
  ASSUME NEW s \in Seq(Task \cup {NONE}), NEW i \in Nat, NEW u \in Task
  PROVE  HasPlaced(Placed(s, i, u), s, i, u)
<1>0. PICK r : r = Placed(s, i, u)
  OBVIOUS
<1>1. Len(s) \in Nat /\ DOMAIN s = 1..Len(s) /\ \A k \in 1..Len(s) : s[k] \in Task \cup {NONE}
  BY LenProperties, ElementOfSeq
<1>2. PICK m : m = IF i + 1 > Len(s) THEN i + 1 ELSE Len(s)
  OBVIOUS
<1>3. m \in Nat /\ i + 1 <= m /\ Len(s) <= m
  <2>1. CASE i + 1 > Len(s)
    <3>1. m = i + 1
      BY <1>2, <2>1
    <3>. QED BY <1>1, <2>1, <3>1
  <2>2. CASE ~(i + 1 > Len(s))
    <3>1. m = Len(s)
      BY <1>2, <2>2
    <3>. QED BY <1>1, <2>2, <3>1
  <2>. QED BY <2>1, <2>2
<1>4. r = [k \in 1..m |-> IF k = i + 1 THEN u ELSE IF k <= Len(s) THEN s[k] ELSE NONE]
  BY <1>0, <1>2, Zenon DEF Placed
<1>6. /\ \A k \in 1..m : r[k] = IF k = i + 1 THEN u ELSE IF k <= Len(s) THEN s[k] ELSE NONE
      /\ DOMAIN r = 1..m
  BY <1>4
<1>7. \A k \in 1..m : r[k] \in Task \cup {NONE}
  BY <1>1, <1>6
<1>8. r \in Seq(Task \cup {NONE}) /\ Len(r) = m
  BY <1>3, <1>4, <1>7, IsASeq, LenProperties
<1>9. i + 1 \in 1..m /\ r[i + 1] = u
  BY <1>3, <1>6
<1>10. \A k \in 1..Len(s) : k \in 1..m /\ (k # i + 1 => r[k] = s[k])
  BY <1>1, <1>3, <1>6
<1>11. \A k \in 1..m : k # i + 1 => k \in 1..Len(s) \/ r[k] = NONE
  BY <1>1, <1>6
<1>12. m \in {i + 1, Len(s)}
  BY <1>2, SMTT(30)
<1>13. HasPlaced(r, s, i, u)
  BY <1>1, <1>6, <1>8, <1>9, <1>10, <1>11, <1>12, Zenon DEF HasPlaced
<1>. QED BY <1>0, <1>13

(* sys_thread_create: the block with the new thread. *)
WithThread(r, i, u) ==
  [r EXCEPT !.tids = alloc(r.tids), !.areas = r.areas \cup {i},
            !.tasks = Placed(r.tasks, i, u)]

(* What the table of r2 holds of the one of r, the new thread u included. *)
Grown(p, r, u, r2, tc2) ==
  /\ r2 \in ProcessControlBlock
  /\ TableOK(p, r2, tc2)
  /\ r2.is_zombie = r.is_zombie /\ r2.parent = r.parent /\ r2.children = r.children
  /\ u \in Range(r2.tasks)
  /\ \A v \in Range(r.tasks) \ {NONE} : v \in Range(r2.tasks)
  /\ \A k \in DOMAIN r.tasks : r.tasks[k] # NONE => r2.tasks[k] = r.tasks[k]

LEMMA TableGrows ==
  ASSUME NEW p \in Pid, NEW r \in ProcessControlBlock, NEW tc, TableOK(p, r, tc),
         NEW i, i = Allocated(r.tids), i < MaxTid, NEW u \in Task, NEW tc2,
         tc[u] = NONE, tc2[u] = NewTask(p, i),
         \A v \in Task : v # u => tc2[v] = tc[v],
         NEW r2, r2 = WithThread(r, i, u)
  PROVE  Grown(p, r, u, r2, tc2)
<1>1. /\ r.tids \in Allocator(Tid) /\ AllocatorOK(r.tids, MaxTid) /\ MaxTid \in Nat
      /\ r.tasks \in Seq(Task \cup {NONE}) /\ r.areas \subseteq Tid
      /\ Len(r.tasks) \in Nat /\ DOMAIN r.tasks = 1..Len(r.tasks) /\ Len(r.tasks) <= MaxTid
  BY ProcessAssumption, LenProperties DEF ProcessControlBlock, TableOK
<1>2. /\ i \in Tid /\ i \notin InUse(r.tids)
      /\ alloc(r.tids) \in Allocator(Tid) /\ AllocatorOK(alloc(r.tids), MaxTid)
      /\ InUse(alloc(r.tids)) = InUse(r.tids) \cup {i}
  BY <1>1, AllocStep DEF Tid
<1>3. PICK s, a : s = Placed(r.tasks, i, u) /\ a = alloc(r.tids)
  OBVIOUS
<1>4. i \in Nat
  BY <1>2 DEF Tid
<1>5. /\ s \in Seq(Task \cup {NONE})
      /\ i + 1 \in DOMAIN s /\ s[i + 1] = u
      /\ Len(s) \in {i + 1, Len(r.tasks)}
      /\ \A k \in DOMAIN r.tasks : k \in DOMAIN s /\ (k # i + 1 => s[k] = r.tasks[k])
      /\ \A k \in DOMAIN s : k # i + 1 => k \in DOMAIN r.tasks \/ s[k] = NONE
  <2>1. PICK q : q = r.tasks
    OBVIOUS
  <2>2. q \in Seq(Task \cup {NONE}) /\ s = Placed(q, i, u)
    BY <1>1, <1>3, <2>1
  <2>3. HasPlaced(s, q, i, u)
    BY <1>4, <2>2, PlacedEntry, Zenon
  <2>. QED BY <2>1, <2>3, Zenon DEF HasPlaced
<1>6. /\ r2 \in ProcessControlBlock
      /\ r2.is_zombie = r.is_zombie /\ r2.parent = r.parent /\ r2.children = r.children
      /\ r2.tids = a /\ r2.areas = r.areas \cup {i} /\ r2.tasks = s
  BY <1>1, <1>2, <1>3, <1>5, Zenon DEF ProcessControlBlock, WithThread
<1>7. InUse(r.tids) = {k \in Tid : k + 1 \in DOMAIN r.tasks /\ r.tasks[k + 1] # NONE}
  BY DEF TableOK
<1>8. ~(i + 1 \in DOMAIN r.tasks /\ r.tasks[i + 1] # NONE)
  BY <1>2, <1>7
<1>9. InUse(a) = {k \in Tid : k + 1 \in DOMAIN s /\ s[k + 1] # NONE}
  <2>1. ASSUME NEW k \in Tid, k # i
        PROVE  (k + 1 \in DOMAIN s /\ s[k + 1] # NONE) <=>
                 (k + 1 \in DOMAIN r.tasks /\ r.tasks[k + 1] # NONE)
    <3>1. k + 1 # i + 1
      BY <1>4, <2>1 DEF Tid
    <3>. QED BY <1>5, <3>1
  <2>2. u # NONE
    BY NoneAssumption
  <2>3. \A k \in Tid : k \in InUse(a) <=> (k + 1 \in DOMAIN s /\ s[k + 1] # NONE)
    BY <1>2, <1>3, <1>5, <1>7, <2>1, <2>2
  <2>4. \A k \in InUse(a) : k \in Tid
    BY <1>2, <1>3, <1>7
  <2>. QED BY <2>3, <2>4
<1>10. Len(s) <= MaxTid
  BY <1>1, <1>4, <1>5
<1>11. r2.areas \subseteq InUse(a) /\ 0 \in r2.areas
  BY <1>2, <1>3, <1>6 DEF TableOK
<1>12. ASSUME NEW k \in InUse(a)
       PROVE  LET b == tc2[s[k + 1]] IN
              /\ b # NONE
              /\ b.process = p
              /\ b.tid = k
              /\ b.res <=> k \in r2.areas
              /\ b.exited <=> k \notin r2.areas
  <2>1. CASE k = i
    <3>1. NewTask(p, i) \in TaskControlBlock
      BY <1>2 DEF NewTask, TaskControlBlock
    <3>2. NewTask(p, i) # NONE
      BY <3>1, NoneIsNoBlock
    <3>3. tc2[s[k + 1]] = NewTask(p, i) /\ k \in r2.areas
      BY <1>5, <1>6, <2>1
    <3>4. /\ NewTask(p, i).process = p /\ NewTask(p, i).tid = i
          /\ NewTask(p, i).res /\ ~NewTask(p, i).exited
      BY DEF NewTask
    <3>. QED BY <2>1, <3>2, <3>3, <3>4, Zenon
  <2>2. CASE k # i
    <3>1. k \in InUse(r.tids) /\ k + 1 \in DOMAIN r.tasks /\ k + 1 # i + 1
      BY <1>2, <1>3, <1>4, <1>7, <2>2 DEF Tid
    <3>2. s[k + 1] = r.tasks[k + 1] /\ (k \in r2.areas <=> k \in r.areas)
      BY <1>5, <1>6, <2>2, <3>1
    <3>3. PICK v, b : v = r.tasks[k + 1] /\ b = tc[v]
      OBVIOUS
    <3>4. /\ b # NONE /\ b.process = p /\ b.tid = k
          /\ (b.res <=> k \in r.areas) /\ (b.exited <=> k \notin r.areas)
      BY <3>1, <3>3, Zenon DEF TableOK
    <3>5. v \in Task
      <4>1. v # NONE
        BY <1>7, <3>1, <3>3
      <4>. QED BY <1>1, <3>1, <3>3, <4>1, ElementOfSeq
    <3>6. tc2[s[k + 1]] = b
      BY <3>2, <3>3, <3>4, <3>5
    <3>. QED BY <3>2, <3>4, <3>6
  <2>. QED BY <2>1, <2>2
<1>13. TableOK(p, r2, tc2)
  <2>1. /\ AllocatorOK(r2.tids, MaxTid)
        /\ InUse(r2.tids) = {k \in Tid : k + 1 \in DOMAIN r2.tasks /\ r2.tasks[k + 1] # NONE}
        /\ Len(r2.tasks) <= MaxTid
        /\ r2.areas \subseteq InUse(r2.tids) /\ 0 \in r2.areas
    BY <1>2, <1>3, <1>6, <1>9, <1>10, <1>11
  <2>2. InUse(r2.tids) = InUse(a) /\ r2.tasks = s
    BY <1>6
  <2>3. ASSUME NEW k \in InUse(r2.tids)
        PROVE  LET b == tc2[r2.tasks[k + 1]] IN
               /\ b # NONE
               /\ b.process = p
               /\ b.tid = k
               /\ b.res <=> k \in r2.areas
               /\ b.exited <=> k \notin r2.areas
    BY <1>12, <2>2
  <2>. QED BY <2>1, <2>3, Zenon DEF TableOK
<1>14. u \in Range(s)
  BY <1>5 DEF Range
<1>15. \A k \in DOMAIN r.tasks : r.tasks[k] # NONE => s[k] = r.tasks[k]
  BY <1>5, <1>8
<1>16. \A v \in Range(r.tasks) \ {NONE} : v \in Range(s)
  BY <1>5, <1>15 DEF Range
<1>. QED BY <1>6, <1>13, <1>14, <1>15, <1>16, Zenon DEF Grown

(* A call that changes the table of one process: the tree stays, and so do   *)
(* the other processes.                                                      *)
LEMMA OneTable ==
  ASSUME IInv, NEW p \in pid2pcb, NEW r2 \in ProcessControlBlock,
         pcb' = [pcb EXCEPT ![p] = r2], UNCHANGED <<pid_allocator, pid2pcb>>,
         r2.is_zombie = pcb[p].is_zombie, r2.parent = pcb[p].parent,
         r2.children = pcb[p].children, TableOK(p, r2, tcb'),
         \A u \in Task : IF tcb[u] # NONE /\ tcb[u].process # p THEN tcb'[u] = tcb[u]
                                                               ELSE TaskOK(u)'
  PROVE  /\ pcb' \in [Pid -> ProcessControlBlock \cup {NONE}]
         /\ TreeInv' /\ ThreadInv'
<1>1. /\ pcb \in [Pid -> ProcessControlBlock \cup {NONE}]
      /\ p \in Pid /\ p \in Live /\ ~pcb[p].is_zombie
  BY LiveBlocks DEF IInv, TypeOK
<1>2. /\ pcb' \in [Pid -> ProcessControlBlock \cup {NONE}]
      /\ pcb'[p] = r2 /\ r2 # NONE
      /\ \A q \in Pid : q # p => pcb'[q] = pcb[q]
  BY <1>1, NoneIsNoBlock
<1>3. Live' = Live
  BY <1>1, <1>2 DEF Live
<1>4. TreeInv'
  <2>1. \A q \in Live : /\ pcb'[q].children = pcb[q].children
                        /\ pcb'[q].parent = pcb[q].parent
                        /\ pcb'[q].is_zombie = pcb[q].is_zombie
    BY <1>2 DEF Live
  <2>2. \A q \in Pid : (pcb'[q] = NONE <=> pcb[q] = NONE)
    BY <1>1, <1>2 DEF Live
  <2>. QED BY <1>2, <2>1, <2>2, TreeKept DEF IInv
<1>5. ASSUME NEW q \in Live PROVE BlockOK(q)'
  <2>1. CASE q = p
    BY <1>1, <1>2, <2>1 DEF BlockOK
  <2>2. CASE q # p
    <3>1. SameTable(pcb[q], pcb'[q])
      BY <1>2, <2>2 DEF Live, SameTable
    <3>. QED BY <2>2, <3>1, OthersKept
  <2>. QED BY <2>1, <2>2
<1>6. ASSUME NEW u \in Task PROVE TaskOK(u)'
  <2>1. TaskOK(u)
    BY DEF IInv, ThreadInv
  <2>2. CASE tcb[u] # NONE /\ tcb[u].process # p
    <3>1. \A q \in Live : q # p => Range(pcb'[q].tasks) = Range(pcb[q].tasks)
      BY <1>2 DEF Live
    <3>2. u \in Threads(tcb[u].process) /\ tcb[u].process \in Live =>
            u \in Range(pcb'[tcb[u].process].tasks)
      BY <2>2, <3>1 DEF Threads
    <3>. QED BY <1>3, <2>1, <2>2, <3>2, TaskKept DEF IInv
  <2>. QED BY <2>2
<1>7. ThreadInv'
  BY <1>3, <1>5, <1>6 DEF ThreadInv
<1>. QED BY <1>2, <1>4, <1>7

LEMMA ThreadCreateStep ==
  ASSUME IInv, NEW t \in Task, sys_thread_create(t)
  PROVE  IInv'
<1>1. PICK p, i : p = tcb[t].process /\ i = Allocated(pcb[p].tids)
  BY Zenon
<1>2. User(t, p) /\ i < MaxTid
  BY <1>1 DEF sys_thread_create
<1>3. /\ p \in Pid /\ p \in Live /\ p \in pid2pcb /\ pcb[p] \in ProcessControlBlock
      /\ TableOK(p, pcb[p], tcb)
  BY <1>2, UserFacts
<1>4. CASE i \in pcb[p].areas
  BY <1>1, <1>4, PanicStep DEF sys_thread_create
<1>5. CASE i \notin pcb[p].areas
  <2>1. PICK u \in Task :
          /\ tcb[u] = NONE
          /\ tcb' = [tcb EXCEPT ![u] = NewTask(p, i)]
          /\ pcb' = [pcb EXCEPT ![p].tids = alloc(@), ![p].areas = @ \cup {i},
                                ![p].tasks = Placed(@, i, u)]
          /\ add_task(u)
          /\ UNCHANGED <<pid_allocator, pid2pcb, sleeping, panicked>>
    BY <1>1, <1>5, Zenon DEF sys_thread_create
  <2>2. PICK r, r2 :
          /\ r = pcb[p]
          /\ r2 = WithThread(r, i, u)
    OBVIOUS
  <2>3. pcb' = [pcb EXCEPT ![p] = r2]
    BY <2>1, <2>2, Zenon DEF WithThread
  <2>4. /\ tcb \in [Task -> TaskControlBlock \cup {NONE}]
        /\ pcb \in [Pid -> ProcessControlBlock \cup {NONE}]
    BY DEF IInv, TypeOK
  <2>5. PICK tc, tc2 : tc = tcb /\ tc2 = tcb'
    OBVIOUS
  <2>6. /\ tc[u] = NONE /\ tc2[u] = NewTask(p, i)
        /\ \A v \in Task : v # u => tc2[v] = tc[v]
    BY <2>1, <2>4, <2>5
  <2>7. /\ r2 \in ProcessControlBlock
        /\ TableOK(p, r2, tc2)
        /\ r2.is_zombie = r.is_zombie /\ r2.parent = r.parent /\ r2.children = r.children
        /\ u \in Range(r2.tasks)
        /\ \A v \in Range(r.tasks) \ {NONE} : v \in Range(r2.tasks)
    <3>1. /\ r \in ProcessControlBlock /\ TableOK(p, r, tc)
          /\ i = Allocated(r.tids)
      BY <1>1, <1>3, <2>2, <2>5, Zenon
    <3>2. Grown(p, r, u, r2, tc2)
      BY <1>2, <1>3, <2>2, <2>6, <3>1, TableGrows
    <3>. QED BY <3>2, Zenon DEF Grown
  <2>8. /\ NewTask(p, i) \in TaskControlBlock /\ NewTask(p, i) # NONE
        /\ tcb' \in [Task -> TaskControlBlock \cup {NONE}]
        /\ tcb'[u] = NewTask(p, i)
        /\ tcb'[u].process = p /\ ~tcb'[u].exited
    <3>1. i \in Tid
      BY <1>1, <1>2, <1>3, AllocStep, ProcessAssumption, Zenon DEF ProcessControlBlock, TableOK, Tid
    <3>2. NewTask(p, i) \in TaskControlBlock
      BY <1>3, <3>1 DEF NewTask, TaskControlBlock
    <3>. QED BY <2>1, <2>4, <3>2, NoneIsNoBlock, Zenon DEF NewTask
  <2>9. SchedTypeOK' /\ QueueInv'
    BY <2>1, <2>4, <2>8, AddQueue DEF IInv
  <2>10. pcb'[p] = r2 /\ p \in Live'
    BY <1>3, <2>3, <2>4, <2>7, NoneIsNoBlock DEF Live
  <2>11. ASSUME NEW v \in Task
         PROVE  IF tcb[v] # NONE /\ tcb[v].process # p THEN tcb'[v] = tcb[v] ELSE TaskOK(v)'
    <3>1. CASE v = u
      BY <1>3, <2>1, <2>7, <2>8, <2>10, <3>1, NoneAssumption, Zenon DEF TaskOK, Threads
    <3>2. CASE v # u /\ tcb[v] # NONE /\ tcb[v].process = p
      <4>1. tcb'[v] = tcb[v] /\ TaskOK(v)
        BY <2>1, <2>4, <3>2 DEF IInv, ThreadInv
      <4>2. v \in Threads(p) => v \in Range(pcb'[p].tasks)
        BY <2>2, <2>7, <2>10 DEF Threads
      <4>3. TaskOK(v)'
        BY <2>1, <2>10, <3>2, <4>1, <4>2, TaskKept, Zenon DEF IInv
      <4>. QED BY <3>2, <4>3
    <3>3. CASE v # u /\ tcb[v] = NONE
      BY <2>1, <2>4, <3>3 DEF TaskOK
    <3>4. CASE v # u /\ tcb[v] # NONE /\ tcb[v].process # p
      BY <2>1, <2>4, <3>4
    <3>. QED BY <3>1, <3>2, <3>3, <3>4
  <2>12. /\ pcb' \in [Pid -> ProcessControlBlock \cup {NONE}]
         /\ TreeInv' /\ ThreadInv'
    <3>1. TableOK(p, r2, tcb')
      BY <2>5, <2>7
    <3>. QED BY <1>3, <2>1, <2>2, <2>3, <2>7, <2>11, <3>1, OneTable, Zenon
  <2>13. TypeOK'
    BY <2>1, <2>8, <2>9, <2>12 DEF TypeOK, IInv
  <2>. QED BY <2>9, <2>12, <2>13 DEF IInv
<1>. QED BY <1>4, <1>5

(* sys_waittid: the block without the thread. *)
WithoutThread(r, i) ==
  [r EXCEPT !.tasks = [r.tasks EXCEPT ![i + 1] = NONE], !.tids = dealloc(r.tids, i)]

LEMMA TableShrinks ==
  ASSUME NEW p \in Pid, NEW r \in ProcessControlBlock, NEW tc, TableOK(p, r, tc),
         NEW i \in InUse(r.tids), i \notin r.areas, NEW u, u = r.tasks[i + 1], NEW tc2,
         \A v \in Task : v # u => tc2[v] = tc[v],
         NEW r2, r2 = WithoutThread(r, i)
  PROVE  /\ r2 \in ProcessControlBlock
         /\ TableOK(p, r2, tc2)
         /\ r2.is_zombie = r.is_zombie /\ r2.parent = r.parent /\ r2.children = r.children
         /\ \A v \in Range(r.tasks) : v # u => v \in Range(r2.tasks)
         /\ \A k \in DOMAIN r.tasks : r2.tasks[k] = IF k = i + 1 THEN NONE ELSE r.tasks[k]
<1>1. /\ r.tids \in Allocator(Tid) /\ AllocatorOK(r.tids, MaxTid) /\ MaxTid \in Nat
      /\ r.tasks \in Seq(Task \cup {NONE})
      /\ Len(r.tasks) \in Nat /\ DOMAIN r.tasks = 1..Len(r.tasks) /\ Len(r.tasks) <= MaxTid
  BY ProcessAssumption, LenProperties DEF ProcessControlBlock, TableOK
<1>2. PICK a, s : a = dealloc(r.tids, i) /\ s = [r.tasks EXCEPT ![i + 1] = NONE]
  BY Zenon
<1>3. a \in Allocator(Tid) /\ AllocatorOK(a, MaxTid) /\ InUse(a) = InUse(r.tids) \ {i}
  BY <1>1, <1>2, DeallocStep DEF Tid
<1>4. InUse(r.tids) = {k \in Tid : k + 1 \in DOMAIN r.tasks /\ r.tasks[k + 1] # NONE}
  BY DEF TableOK
<1>5. i \in Tid /\ i + 1 \in DOMAIN r.tasks
  BY <1>4
<1>6. /\ s \in Seq(Task \cup {NONE}) /\ Len(s) = Len(r.tasks) /\ DOMAIN s = DOMAIN r.tasks
      /\ s[i + 1] = NONE
      /\ \A k \in DOMAIN s : k # i + 1 => s[k] = r.tasks[k]
  BY <1>1, <1>2, <1>5, ExceptSeq
<1>7. /\ r2 \in ProcessControlBlock
      /\ r2.is_zombie = r.is_zombie /\ r2.parent = r.parent /\ r2.children = r.children
      /\ r2.tids = a /\ r2.areas = r.areas /\ r2.tasks = s
  BY <1>2, <1>3, <1>6, Zenon DEF ProcessControlBlock, WithoutThread
<1>8. \A k \in Tid : k # i => k + 1 # i + 1
  BY <1>5 DEF Tid
<1>9. InUse(a) = {k \in Tid : k + 1 \in DOMAIN s /\ s[k + 1] # NONE}
  BY <1>3, <1>4, <1>5, <1>6, <1>8, Zenon
<1>10. ASSUME NEW k \in InUse(a)
       PROVE  LET b == tc2[s[k + 1]] IN
              /\ b # NONE
              /\ b.process = p
              /\ b.tid = k
              /\ b.res <=> k \in r.areas
              /\ b.exited <=> k \notin r.areas
  <2>1. /\ k \in InUse(r.tids) /\ k # i /\ k \in Tid
        /\ k + 1 \in DOMAIN r.tasks /\ r.tasks[k + 1] # NONE
    BY <1>3, <1>4
  <2>2. s[k + 1] = r.tasks[k + 1]
    BY <1>6, <1>8, <2>1
  <2>3. PICK v, b : v = r.tasks[k + 1] /\ b = tc[v]
    OBVIOUS
  <2>4. /\ b # NONE /\ b.process = p /\ b.tid = k
        /\ (b.res <=> k \in r.areas) /\ (b.exited <=> k \notin r.areas)
    BY <2>1, <2>3, Zenon DEF TableOK
  <2>5. v \in Task
    BY <1>1, <2>1, <2>3, ElementOfSeq
  <2>6. v # u
    <3>1. tc[u].tid = i
      BY Zenon DEF TableOK
    <3>. QED BY <2>1, <2>3, <2>4, <3>1
  <2>7. tc2[s[k + 1]] = b
    BY <2>2, <2>3, <2>5, <2>6
  <2>. QED BY <2>4, <2>7, Zenon
<1>11. TableOK(p, r2, tc2)
  <2>1. /\ AllocatorOK(r2.tids, MaxTid)
        /\ InUse(r2.tids) = {k \in Tid : k + 1 \in DOMAIN r2.tasks /\ r2.tasks[k + 1] # NONE}
        /\ Len(r2.tasks) <= MaxTid
    BY <1>1, <1>3, <1>6, <1>7, <1>9, Zenon
  <2>2. r2.areas \subseteq InUse(r2.tids) /\ 0 \in r2.areas
    BY <1>3, <1>7, Zenon DEF TableOK
  <2>3. ASSUME NEW k \in InUse(r2.tids)
        PROVE  LET b == tc2[r2.tasks[k + 1]] IN
               /\ b # NONE
               /\ b.process = p
               /\ b.tid = k
               /\ b.res <=> k \in r2.areas
               /\ b.exited <=> k \notin r2.areas
    BY <1>7, <1>10
  <2>. QED BY <2>1, <2>2, <2>3, Zenon DEF TableOK
<1>12. \A v \in Range(r.tasks) : v # u => v \in Range(s)
  BY <1>6 DEF Range
<1>. QED BY <1>6, <1>7, <1>11, <1>12

LEMMA WaittidStep ==
  ASSUME IInv, NEW t \in Task, NEW i \in Tid, sys_waittid(t, i)
  PROVE  IInv'
<1>1. PICK p, u : p = tcb[t].process /\ u = pcb[p].tasks[i + 1]
  BY Zenon
<1>2. /\ User(t, p) /\ i # tcb[t].tid
      /\ i + 1 \in DOMAIN pcb[p].tasks /\ u # NONE /\ tcb[u].exited
  BY <1>1 DEF sys_waittid
<1>3. /\ p \in Pid /\ p \in Live /\ p \in pid2pcb /\ pcb[p] \in ProcessControlBlock
      /\ TableOK(p, pcb[p], tcb) /\ current = t
  BY <1>2, UserFacts
<1>4. PICK r, tc, tc2 : r = pcb[p] /\ tc = tcb /\ tc2 = tcb'
  OBVIOUS
<1>5. r \in ProcessControlBlock /\ TableOK(p, r, tc) /\ u = r.tasks[i + 1]
  BY <1>1, <1>3, <1>4
<1>6. i \in InUse(r.tids)
  BY <1>2, <1>4, <1>5, Zenon DEF TableOK
<1>7. i \notin r.areas /\ tc[u].tid = i /\ tc[u].process = p /\ tc[u] # NONE
  BY <1>2, <1>4, <1>5, <1>6 DEF TableOK
<1>8. dealloc_assert(r.tids, i)
  BY <1>5, <1>6, DeallocStep, ProcessAssumption, Zenon DEF ProcessControlBlock, TableOK, Tid
<1>9. /\ pcb' = [pcb EXCEPT ![p].tasks[i + 1] = NONE, ![p].tids = dealloc(@, i)]
      /\ tcb' = [tcb EXCEPT ![u] = NONE]
      /\ UNCHANGED <<ready_queue, current, task_status, pid_allocator, pid2pcb, sleeping, panicked>>
  BY <1>1, <1>4, <1>8, Zenon DEF sys_waittid, sched_vars
<1>10. PICK r2 : r2 = WithoutThread(r, i)
  OBVIOUS
<1>11. pcb' = [pcb EXCEPT ![p] = r2]
  BY <1>4, <1>9, <1>10, Zenon DEF WithoutThread
<1>12. /\ tcb \in [Task -> TaskControlBlock \cup {NONE}]
       /\ pcb \in [Pid -> ProcessControlBlock \cup {NONE}]
  BY DEF IInv, TypeOK
<1>13. u \in Task
  <2>1. r.tasks \in Seq(Task \cup {NONE}) /\ i + 1 \in 1..Len(r.tasks)
    BY <1>2, <1>4, <1>5, LenProperties DEF ProcessControlBlock
  <2>. QED BY <1>2, <1>5, <2>1, ElementOfSeq
<1>14. /\ tcb' \in [Task -> TaskControlBlock \cup {NONE}] /\ tcb'[u] = NONE
       /\ \A v \in Task : v # u => tcb'[v] = tcb[v]
  BY <1>9, <1>12, <1>13, Zenon
<1>15. /\ r2 \in ProcessControlBlock
       /\ TableOK(p, r2, tc2)
       /\ r2.is_zombie = r.is_zombie /\ r2.parent = r.parent /\ r2.children = r.children
       /\ \A v \in Range(r.tasks) : v # u => v \in Range(r2.tasks)
  <2>1. \A v \in Task : v # u => tc2[v] = tc[v]
    BY <1>4, <1>14
  <2>. QED BY ONLY <1>3, <1>5, <1>6, <1>7, <1>10, <2>1, TableShrinks, SMTT(30)
<1>16. pcb'[p] = r2 /\ p \in Live'
  BY <1>3, <1>11, <1>12, <1>15, NoneIsNoBlock DEF Live
<1>17. ASSUME NEW v \in Task
       PROVE  IF tcb[v] # NONE /\ tcb[v].process # p THEN tcb'[v] = tcb[v] ELSE TaskOK(v)'
  <2>1. CASE v = u
    BY <1>4, <1>7, <1>14, <2>1 DEF TaskOK
  <2>2. CASE v # u /\ tcb[v] # NONE /\ tcb[v].process = p
    <3>1. tcb'[v] = tcb[v] /\ TaskOK(v)
      BY <1>14, <2>2 DEF IInv, ThreadInv
    <3>2. v \in Threads(p) => v \in Range(pcb'[p].tasks)
      BY <1>4, <1>15, <1>16, <2>2 DEF Threads
    <3>3. TaskOK(v)'
      BY <1>9, <1>16, <2>2, <3>1, <3>2, TaskKept, Zenon DEF IInv
    <3>. QED BY <2>2, <3>3
  <2>3. CASE v # u /\ tcb[v] = NONE
    BY <1>14, <2>3 DEF TaskOK
  <2>4. CASE v # u /\ tcb[v] # NONE /\ tcb[v].process # p
    BY <1>14, <2>4
  <2>. QED BY <2>1, <2>2, <2>3, <2>4, Zenon
<1>18. /\ pcb' \in [Pid -> ProcessControlBlock \cup {NONE}]
       /\ TreeInv' /\ ThreadInv'
  <2>1. TableOK(p, r2, tcb')
    BY <1>4, <1>15
  <2>. QED BY <1>3, <1>4, <1>9, <1>11, <1>15, <1>17, <2>1, OneTable, Zenon
<1>19. QueueInv'
  <2>1. \A v \in Task : (tcb'[v] # NONE /\ ~tcb'[v].exited) <=> (tcb[v] # NONE /\ ~tcb[v].exited)
    BY <1>2, <1>14
  <2>2. current' \in Task /\ tcb'[current'] = tcb[current]
    <3>1. t # u
      BY <1>2, <1>4, <1>7
    <3>. QED BY <1>3, <1>9, <1>14, <3>1, Zenon
  <2>. QED BY <1>9, <2>1, <2>2, Zenon DEF QueueInv, IInv
<1>20. TypeOK'
  BY <1>9, <1>14, <1>18 DEF TypeOK, SchedTypeOK, IInv
<1>. QED BY <1>18, <1>19, <1>20 DEF IInv

------------------------------------------------------------------------------
(* fork *)

LEMMA EmptyRange == Range(<<>>) = {} /\ IsInjective(<<>>)
  BY DEF Range, IsInjective

(* A RecycleAllocator that has handed out 0. *)
LEMMA FirstAlloc ==
  ASSUME NEW max \in Nat \ {0}, NEW a, a = [current |-> 1, recycled |-> <<>>]
  PROVE  /\ a \in Allocator(0..(max - 1))
         /\ AllocatorOK(a, max)
         /\ InUse(a) = {0}
<1>1. a.current = 1 /\ a.recycled = <<>>
  OBVIOUS
<1>2. <<>> \in Seq(0..(max - 1)) /\ DOMAIN <<>> = {}
  BY EmptySeq
<1>3. a \in Allocator(0..(max - 1))
  BY <1>2 DEF Allocator
<1>4. AllocatorOK(a, max)
  BY <1>1, <1>2, EmptyRange DEF AllocatorOK
<1>5. InUse(a) = {0}
  BY <1>1, EmptyRange DEF InUse
<1>. QED BY <1>3, <1>4, <1>5

(* A new process has its main thread. *)
LEMMA NewTable ==
  ASSUME NEW c \in Pid, NEW q \in Pid \cup {NONE}, NEW u \in Task, NEW tc,
         tc[u] = NewTask(c, 0), NEW r, r = NewProcess(q, u, {0})
  PROVE  /\ r \in ProcessControlBlock
         /\ TableOK(c, r, tc)
         /\ r.children = <<>> /\ r.parent = q /\ ~r.is_zombie
         /\ Range(r.tasks) = {u}
<1>1. /\ r.is_zombie = FALSE /\ r.parent = q /\ r.children = <<>> /\ r.tasks = <<u>>
      /\ r.tids = [current |-> 1, recycled |-> <<>>] /\ r.areas = {0}
  BY DEF NewProcess
<1>2. /\ MaxTid \in Nat \ {0} /\ 0 \in Tid
  BY ProcessAssumption DEF Tid
<1>3. /\ r.tids \in Allocator(Tid)
      /\ AllocatorOK(r.tids, MaxTid)
      /\ InUse(r.tids) = {0}
  BY <1>1, <1>2, FirstAlloc DEF Tid
<1>4. /\ <<u>> \in Seq(Task \cup {NONE}) /\ Len(<<u>>) = 1 /\ DOMAIN <<u>> = {1} /\ <<u>>[1] = u
      /\ <<>> \in Seq(Pid)
  OBVIOUS
<1>5. r \in ProcessControlBlock
  BY <1>1, <1>2, <1>3, <1>4 DEF ProcessControlBlock, NewProcess
<1>6. NewTask(c, 0) # NONE
  <2>1. NewTask(c, 0) \in TaskControlBlock
    BY <1>2 DEF NewTask, TaskControlBlock
  <2>. QED BY <2>1, NoneIsNoBlock
<1>7. InUse(r.tids) = {k \in Tid : k + 1 \in DOMAIN r.tasks /\ r.tasks[k + 1] # NONE}
  <2>1. \A k \in Tid : k + 1 \in DOMAIN r.tasks <=> k = 0
    BY <1>1, <1>4 DEF Tid
  <2>2. r.tasks[0 + 1] # NONE
    BY <1>1, <1>4, NoneAssumption
  <2>. QED BY <1>2, <1>3, <2>1, <2>2
<1>8. \A k \in InUse(r.tids) :
        LET b == tc[r.tasks[k + 1]] IN
        /\ b # NONE
        /\ b.process = c
        /\ b.tid = k
        /\ b.res <=> k \in r.areas
        /\ b.exited <=> k \notin r.areas
  BY <1>1, <1>3, <1>4, <1>6 DEF NewTask
<1>9. TableOK(c, r, tc)
  <2>1. Len(r.tasks) = 1 /\ r.areas \subseteq InUse(r.tids) /\ 0 \in r.areas
    BY <1>1, <1>3, <1>4, Zenon
  <2>2. 1 <= MaxTid
    BY <1>2
  <2>3. Len(r.tasks) <= MaxTid
    BY <2>1, <2>2, Zenon
  <2>. QED BY <1>3, <1>7, <1>8, <2>1, <2>3, Zenon DEF TableOK
<1>10. Range(r.tasks) = {u}
  BY <1>1, <1>4 DEF Range
<1>. QED BY <1>1, <1>5, <1>9, <1>10

(* fork: the child is behind the children of p, and nowhere else. *)
LEMMA ForkTree ==
  ASSUME TypeOK, TreeInv, NEW p \in pid2pcb, NEW c, c = Allocated(pid_allocator), c < MaxPid,
         NEW rp \in ProcessControlBlock, NEW rc \in ProcessControlBlock,
         pcb'[p] = rp, pcb'[c] = rc, \A q \in Pid \ {p, c} : pcb'[q] = pcb[q],
         rp.children = Append(pcb[p].children, c), rp.parent = pcb[p].parent,
         rp.is_zombie = pcb[p].is_zombie,
         rc.children = <<>>, rc.parent = p, ~rc.is_zombie,
         pid_allocator' = alloc(pid_allocator), pid2pcb' = pid2pcb \cup {c}
  PROVE  /\ pid_allocator' \in Allocator(Pid)
         /\ Live' = Live \cup {c}
         /\ TreeInv'
<1>1. /\ pcb \in [Pid -> ProcessControlBlock \cup {NONE}] /\ p \in Pid /\ p \in Live
      /\ ~pcb[p].is_zombie /\ pcb[p] \in ProcessControlBlock
      /\ pid_allocator \in Allocator(Pid) /\ MaxPid \in Nat
      /\ \A q \in pid2pcb : q \in Live
  BY ProcessAssumption DEF TypeOK, TreeInv, Live
<1>2. /\ c \in Pid /\ c \notin InUse(pid_allocator)
      /\ pid_allocator' \in Allocator(Pid) /\ AllocatorOK(pid_allocator', MaxPid)
      /\ InUse(pid_allocator') = InUse(pid_allocator) \cup {c}
  BY <1>1, AllocStep, Zenon DEF Pid, TreeInv
<1>3. c \notin Live /\ c # p
  BY <1>1, <1>2 DEF TreeInv
<1>4. /\ pcb'[p] = rp /\ pcb'[c] = rc /\ rp # NONE /\ rc # NONE
  BY NoneIsNoBlock
<1>5. Live' = Live \cup {c}
  BY <1>1, <1>2, <1>4, Zenon DEF Live
<1>6. \A q \in Live : q # c /\ (q # p => pcb'[q] = pcb[q])
  BY <1>3, <1>4, Zenon DEF Live
<1>7. /\ IsInjective(rp.children)
      /\ Range(rp.children) = Range(pcb[p].children) \cup {c}
  <2>1. pcb[p].children \in Seq(Pid) /\ IsInjective(pcb[p].children)
    BY <1>1, Zenon DEF ProcessControlBlock, TreeInv
  <2>2. c \notin Range(pcb[p].children)
    BY <1>1, <1>2, <1>3 DEF TreeInv
  <2>. QED BY <1>2, <2>1, <2>2, PushBack
<1>8. \A q \in Live' : /\ IsInjective(pcb'[q].children)
                       /\ pcb'[q].is_zombie => pcb'[q].children = <<>>
  <2>1. \A q \in Live : /\ IsInjective(pcb[q].children)
                        /\ pcb[q].is_zombie => pcb[q].children = <<>>
    BY Zenon DEF TreeInv
  <2>2. \A q \in Live' : q = p \/ q = c \/ (q \in Live /\ pcb'[q] = pcb[q])
    BY <1>5, <1>6
  <2>. QED BY <1>1, <1>4, <1>7, <2>1, <2>2, EmptyRange, Zenon
<1>9. pid2pcb' = {q \in Live' : ~pcb'[q].is_zombie}
  <2>1. pid2pcb = {q \in Live : ~pcb[q].is_zombie}
    BY DEF TreeInv
  <2>2. \A q \in Live : pcb'[q].is_zombie = pcb[q].is_zombie
    BY <1>4, <1>6
  <2>3. \A q : q \in pid2pcb' <=> q \in Live' /\ ~pcb'[q].is_zombie
    BY <1>3, <1>4, <1>5, <2>1, <2>2
  <2>. QED BY <2>3, Zenon
<1>10. \A x \in Live : pcb'[x].parent = pcb[x].parent
  BY <1>4, <1>6, Zenon
<1>11. INITPROC \in Live
  BY <1>1, Zenon DEF TreeInv
<1>12. \A x \in Live' \ {INITPROC} : pcb'[x].parent \in pid2pcb' \ {x}
  <2>1. \A x \in Live \ {INITPROC} : pcb[x].parent \in pid2pcb \ {x}
    BY DEF TreeInv
  <2>. QED BY <1>3, <1>4, <1>5, <1>10, <2>1, Zenon
<1>13. ASSUME NEW q \in Live', NEW x \in Pid
       PROVE  x \in Range(pcb'[q].children) <=>
                x \in Live' /\ x # INITPROC /\ pcb'[x].parent = q
  <2>1. CASE q = c
    <3>1. Range(pcb'[q].children) = {}
      BY <1>4, <2>1, EmptyRange, Zenon
    <3>2. x \in Live /\ x # INITPROC => pcb'[x].parent \in Live
      BY <1>1, <1>10 DEF TreeInv
    <3>. QED BY <1>1, <1>3, <1>4, <1>5, <2>1, <3>1, <3>2, Zenon
  <2>2. CASE q # c /\ x = c
    <3>1. c # INITPROC
      BY <1>3, <1>11, Zenon
    <3>2. q # p => c \notin Range(pcb'[q].children)
      BY <1>2, <1>3, <1>5, <1>6, <2>2, SMTT(30) DEF TreeInv
    <3>. QED BY <1>4, <1>5, <1>7, <2>2, <3>1, <3>2, Zenon
  <2>3. CASE q # c /\ x # c
    <3>1. x \in Range(pcb'[q].children) <=> x \in Range(pcb[q].children)
      BY <1>4, <1>5, <1>6, <1>7, <2>3, Zenon
    <3>2. x \in Live' <=> x \in Live
      BY <1>5, <2>3, Zenon
    <3>. QED BY <1>5, <1>10, <2>3, <3>1, <3>2 DEF TreeInv
  <2>. QED BY <2>1, <2>2, <2>3, Zenon
<1>14. INITPROC \in pid2pcb' /\ InUse(pid_allocator') = Live'
  BY <1>2, <1>5, Zenon DEF TreeInv
<1>15. TreeInv'
  BY <1>2, <1>8, <1>9, <1>12, <1>13, <1>14, Zenon DEF TreeInv
<1>. QED BY <1>2, <1>5, <1>15, Zenon

LEMMA ForkStep ==
  ASSUME IInv, NEW t \in Task, sys_fork(t)
  PROVE  IInv'
<1>1. PICK p, c : p = tcb[t].process /\ c = Allocated(pid_allocator)
  OBVIOUS
<1>2. User(t, p) /\ c < MaxPid
  BY <1>1 DEF sys_fork
<1>3. /\ p \in Pid /\ p \in Live /\ p \in pid2pcb /\ pcb[p] \in ProcessControlBlock
      /\ TableOK(p, pcb[p], tcb)
  BY <1>2, UserFacts
<1>4. CASE Len(pcb[p].tasks) # 1
  BY <1>1, <1>4, PanicStep DEF sys_fork
<1>5. CASE Len(pcb[p].tasks) = 1
  <2>1. PICK u \in Task :
          /\ tcb[u] = NONE
          /\ pcb' = [pcb EXCEPT ![p].children = Append(@, c),
                                ![c] = NewProcess(p, u, pcb[p].areas)]
          /\ tcb' = [tcb EXCEPT ![u] = NewTask(c, 0)]
          /\ add_task(u)
    BY <1>1, <1>5, Zenon DEF sys_fork
  <2>2. /\ pid_allocator' = alloc(pid_allocator)
        /\ pid2pcb' = pid2pcb \cup {c}
        /\ UNCHANGED <<sleeping, panicked>>
    BY <1>1, <1>5, Zenon DEF sys_fork
  <2>3. /\ pcb \in [Pid -> ProcessControlBlock \cup {NONE}]
        /\ tcb \in [Task -> TaskControlBlock \cup {NONE}]
        /\ pid_allocator \in Allocator(Pid)
        /\ TypeOK /\ TreeInv /\ ThreadInv /\ QueueInv
    BY Zenon DEF IInv, TypeOK
  <2>4. c \in Pid /\ c \notin InUse(pid_allocator)
    BY <1>1, <1>2, <2>3, AllocStep, ProcessAssumption DEF Pid, TreeInv
  <2>5. c \notin Live /\ c # p /\ c \notin pid2pcb
    <3>1. InUse(pid_allocator) = Live
      BY <2>3, Zenon DEF TreeInv
    <3>2. p \in Live /\ \A q \in pid2pcb : q \in Live
      BY <1>3, <2>3, TreeBlocks, Zenon
    <3>. QED BY <2>4, <3>1, <3>2, Zenon
  <2>6. pcb[p].areas = {0}
    BY <1>3, <1>5, OneThread, Zenon
  <2>7. PICK r, rp, rc : /\ r = pcb[p]
                         /\ rp = [r EXCEPT !.children = Append(@, c)]
                         /\ rc = NewProcess(p, u, {0})
    BY Zenon
  <2>8. /\ rp \in ProcessControlBlock /\ rp.children = Append(r.children, c)
        /\ rp.parent = r.parent /\ rp.is_zombie = r.is_zombie
        /\ rp.tasks = r.tasks /\ rp.tids = r.tids /\ rp.areas = r.areas
    <3>1. Append(r.children, c) \in Seq(Pid)
      BY <1>3, <2>4, <2>7, PushBack DEF ProcessControlBlock
    <3>. QED BY <1>3, <2>7, <3>1, Zenon DEF ProcessControlBlock
  <2>9. tcb'[u] = NewTask(c, 0) /\ \A v \in Task : v # u => tcb'[v] = tcb[v]
    BY <2>1, <2>3
  <2>10. /\ rc \in ProcessControlBlock
         /\ TableOK(c, rc, tcb')
         /\ rc.children = <<>> /\ rc.parent = p /\ ~rc.is_zombie
         /\ Range(rc.tasks) = {u}
    <3>1. PICK tc : tc = tcb'
      OBVIOUS
    <3>2. tc[u] = NewTask(c, 0)
      BY <2>9, <3>1
    <3>3. /\ rc \in ProcessControlBlock
          /\ TableOK(c, rc, tc)
          /\ rc.children = <<>> /\ rc.parent = p /\ ~rc.is_zombie
          /\ Range(rc.tasks) = {u}
      BY <1>3, <2>4, <2>7, <3>2, NewTable
    <3>. QED BY <3>1, <3>3
  <2>11. pcb' = [pcb EXCEPT ![p] = rp, ![c] = rc]
    BY <2>1, <2>6, <2>7, Zenon
  <2>12. /\ pcb' \in [Pid -> ProcessControlBlock \cup {NONE}]
         /\ pcb'[p] = rp /\ pcb'[c] = rc
         /\ \A q \in Pid \ {p, c} : pcb'[q] = pcb[q]
    BY <1>3, <2>3, <2>4, <2>5, <2>8, <2>10, <2>11, Zenon
  <2>13. /\ pid_allocator' \in Allocator(Pid)
         /\ Live' = Live \cup {c}
         /\ TreeInv'
    BY <1>1, <1>2, <1>3, <2>2, <2>3, <2>7, <2>8, <2>10, <2>12, ForkTree, ZenonT(30)
  <2>14. ASSUME NEW q \in Live PROVE SameTable(pcb[q], pcb'[q]) /\ q \in Pid
    BY <2>5, <2>7, <2>8, <2>12, Zenon DEF SameTable, Live
  <2>15. ASSUME NEW q \in Live' PROVE BlockOK(q)'
    <3>1. CASE q = c
      BY <2>10, <2>12, <3>1 DEF BlockOK
    <3>2. CASE q # c
      <4>1. \A v \in Task : tcb[v] # NONE /\ tcb[v].process # c => tcb'[v] = tcb[v]
        BY <2>1, <2>9
      <4>. QED BY <2>13, <2>14, <3>2, <4>1, OthersKept
    <3>. QED BY <3>1, <3>2
  <2>16. /\ NewTask(c, 0) \in TaskControlBlock /\ NewTask(c, 0) # NONE
         /\ NewTask(c, 0).process = c /\ NewTask(c, 0).exited = FALSE
    <3>1. 0 \in Tid
      BY ProcessAssumption DEF Tid
    <3>2. NewTask(c, 0) \in TaskControlBlock
      BY <2>4, <3>1 DEF NewTask, TaskControlBlock
    <3>. QED BY <3>2, NoneIsNoBlock, Zenon DEF NewTask
  <2>17. ASSUME NEW v \in Task PROVE TaskOK(v)'
    <3>1. CASE v = u
      <4>1. tcb'[v].process = c /\ ~tcb'[v].exited
        BY <2>9, <2>16, <3>1
      <4>2. c \in Live' /\ c \in pid2pcb' /\ v \in Range(pcb'[c].tasks) \ {NONE}
        BY <2>2, <2>10, <2>12, <2>13, <3>1, NoneAssumption, Zenon
      <4>. QED BY <4>1, <4>2 DEF TaskOK, Threads
    <3>2. CASE v # u
      <4>1. TaskOK(v) /\ tcb'[v] = tcb[v]
        BY <2>3, <2>9, <3>2, Zenon DEF ThreadInv
      <4>2. \A q \in Live : Range(pcb'[q].tasks) = Range(pcb[q].tasks)
        BY <2>14, Zenon DEF SameTable
      <4>3. v \in Threads(tcb[v].process) /\ tcb[v].process \in Live =>
              v \in Range(pcb'[tcb[v].process].tasks)
        BY <4>2 DEF Threads
      <4>4. /\ tcb[v].process \in pid2pcb => tcb[v].process \in pid2pcb'
            /\ tcb[v].process \in Live => tcb[v].process \in Live'
        BY <2>2, <2>13
      <4>. QED BY <2>3, <4>1, <4>3, <4>4, TaskKept
    <3>. QED BY <3>1, <3>2, Zenon
  <2>18. ThreadInv'
    BY <2>15, <2>17 DEF ThreadInv
  <2>19. SchedTypeOK' /\ QueueInv'
    BY <2>1, <2>2, <2>3, <2>9, <2>16, AddQueue, Zenon
  <2>20. TypeOK'
    <3>1. tcb' \in [Task -> TaskControlBlock \cup {NONE}]
      BY <2>1, <2>3, <2>16
    <3>2. pid2pcb' \subseteq Pid /\ sleeping' \subseteq Task /\ panicked' \in BOOLEAN
      BY <2>2, <2>3, <2>4, Zenon DEF TypeOK
    <3>. QED BY <2>12, <2>13, <2>19, <3>1, <3>2 DEF TypeOK
  <2>. QED BY <2>13, <2>18, <2>19, <2>20 DEF IInv
<1>. QED BY <1>4, <1>5

------------------------------------------------------------------------------
(* The end of a main thread *)

(* The blocks after the children went to initproc. *)
LEMMA ReparentedBlocks ==
  ASSUME TypeOK, TreeInv, NEW p \in pid2pcb, p # INITPROC, pcb[p].tasks # <<>>,
         pcb' = Reparented(p)
  PROVE  /\ pcb' \in [Pid -> ProcessControlBlock \cup {NONE}]
         /\ Live' = Live
         /\ pcb'[p].is_zombie /\ pcb'[p].children = <<>>
         /\ pcb'[p].parent = pcb[p].parent
         /\ pcb'[p].tasks \in Seq(Task \cup {NONE}) /\ Len(pcb'[p].tasks) = 1
         /\ pcb'[p].tasks[1] = pcb[p].tasks[1]
         /\ pcb'[INITPROC].children = pcb[INITPROC].children \o pcb[p].children
         /\ \A q \in Live \ {p} : SameTable(pcb[q], pcb'[q])
         /\ \A q \in Live \ {p, INITPROC} : pcb'[q].children = pcb[q].children
         /\ \A q \in Live : pcb'[q].parent = IF q \in Range(pcb[p].children) THEN INITPROC
                                                                    ELSE pcb[q].parent
<1>1. /\ pcb \in [Pid -> ProcessControlBlock \cup {NONE}]
      /\ p \in Pid /\ p \in Live /\ INITPROC \in Live /\ INITPROC \in Pid
      /\ \A q \in Live : pcb[q] \in ProcessControlBlock
  BY TreeBlocks, Zenon
<1>2. PICK C : C = Range(pcb[p].children)
  OBVIOUS
<1>3. \A x \in C : x \in Live /\ x # INITPROC /\ x # p
  <2>1. \A x \in C : x \in Pid
    <3>1. pcb[p].children \in Seq(Pid)
      BY <1>1, Zenon DEF ProcessControlBlock
    <3>. QED BY <1>2, <3>1, RangeOfSeq
  <2>2. \A x \in Pid : x \in C => x \in Live /\ x # INITPROC /\ pcb[x].parent = p
    BY <1>1, <1>2, Zenon DEF TreeInv
  <2>3. \A x \in Live \ {INITPROC} : pcb[x].parent # x
    BY DEF TreeInv
  <2>. QED BY <2>1, <2>2, <2>3
<1>4. /\ pcb'[p] = Zombie(p)
      /\ pcb'[INITPROC] = [pcb[INITPROC] EXCEPT !.children = @ \o pcb[p].children]
      /\ \A q \in C : pcb'[q] = [pcb[q] EXCEPT !.parent = INITPROC]
      /\ \A q \in Pid : q # p /\ q # INITPROC /\ q \notin C => pcb'[q] = pcb[q]
      /\ DOMAIN pcb' = Pid
  BY <1>1, <1>2, <1>3, Zenon DEF Reparented, Live

<1>5. /\ pcb'[p] \in ProcessControlBlock
      /\ pcb'[p].is_zombie /\ pcb'[p].children = <<>>
      /\ pcb'[p].parent = pcb[p].parent
      /\ pcb'[p].tasks \in Seq(Task \cup {NONE}) /\ Len(pcb'[p].tasks) = 1
      /\ pcb'[p].tasks[1] = pcb[p].tasks[1]
  <2>1. PICK r, s, s1 : r = pcb[p] /\ s = r.tasks /\ s1 = SubSeq(s, 1, 1)
    BY Zenon
  <2>2. /\ s \in Seq(Task \cup {NONE}) /\ s # <<>> /\ Len(s) \in Nat /\ Len(s) # 0
        /\ r \in ProcessControlBlock
    BY <1>1, <2>1, LenProperties, EmptySeq, Zenon DEF ProcessControlBlock
  <2>3. \A k \in 1..1 : s[k] \in Task \cup {NONE}
    BY <2>2, ElementOfSeq
  <2>4. /\ s1 \in Seq(Task \cup {NONE}) /\ Len(s1) = (IF 1 <= 1 THEN 1 - 1 + 1 ELSE 0)
        /\ \A k \in 1..(1 - 1 + 1) : s1[k] = s[1 + k - 1]
    BY <2>1, <2>3, SubSeqProperties
  <2>5. s1 \in Seq(Task \cup {NONE}) /\ Len(s1) = 1 /\ s1[1] = s[1]
    BY <2>4
  <2>6. PICK z : z = [r EXCEPT !.is_zombie = TRUE, !.children = <<>>, !.areas = {}, !.tasks = s1]
    OBVIOUS
  <2>7. /\ z \in ProcessControlBlock /\ z.is_zombie = TRUE /\ z.children = <<>>
        /\ z.parent = r.parent /\ z.tasks = s1
    <3>1. /\ r = [is_zombie |-> r.is_zombie, parent |-> r.parent, children |-> r.children,
                  tasks |-> r.tasks, tids |-> r.tids, areas |-> r.areas]
          /\ r.parent \in Pid \cup {NONE} /\ r.tids \in Allocator(Tid)
      BY <2>2 DEF ProcessControlBlock
    <3>2. z = [is_zombie |-> TRUE, parent |-> r.parent, children |-> <<>>,
               tasks |-> s1, tids |-> r.tids, areas |-> {}]
      BY <2>6, <3>1, Zenon
    <3>3. <<>> \in Seq(Pid) /\ {} \in SUBSET Tid
      BY EmptySeq
    <3>4. z \in ProcessControlBlock
      BY <2>5, <3>1, <3>2, <3>3, Zenon DEF ProcessControlBlock
    <3>. QED BY <3>2, <3>4, Zenon
  <2>8. pcb'[p] = z
    BY <1>4, <2>1, <2>6 DEF Zombie
  <2>. QED BY <2>1, <2>5, <2>7, <2>8, Zenon
<1>6. /\ pcb'[INITPROC] \in ProcessControlBlock
      /\ pcb'[INITPROC].children = pcb[INITPROC].children \o pcb[p].children
      /\ SameTable(pcb[INITPROC], pcb'[INITPROC])
      /\ pcb'[INITPROC].parent = pcb[INITPROC].parent
  <2>1. PICK r, s, r2 : r = pcb[INITPROC] /\ s = r.children \o pcb[p].children
                        /\ r2 = [r EXCEPT !.children = s]
    BY Zenon
  <2>2. r \in ProcessControlBlock /\ s \in Seq(Pid)
    BY <1>1, <2>1, ConcatProperties DEF ProcessControlBlock
  <2>3. /\ r2 \in ProcessControlBlock /\ r2.children = s /\ r2.parent = r.parent
        /\ SameTable(r, r2)
    BY <2>1, <2>2, Zenon DEF ProcessControlBlock, SameTable
  <2>4. pcb'[INITPROC] = r2
    BY <1>4, <2>1
  <2>. QED BY <2>1, <2>3, <2>4, Zenon
<1>7. ASSUME NEW q \in C
      PROVE  /\ pcb'[q] \in ProcessControlBlock
             /\ pcb'[q].children = pcb[q].children
             /\ SameTable(pcb[q], pcb'[q])
             /\ pcb'[q].parent = INITPROC
  <2>1. PICK r, r2 : r = pcb[q] /\ r2 = [r EXCEPT !.parent = INITPROC]
    BY Zenon
  <2>2. r \in ProcessControlBlock
    BY <1>1, <1>3, <2>1
  <2>3. /\ r2 \in ProcessControlBlock /\ r2.children = r.children /\ r2.parent = INITPROC
        /\ SameTable(r, r2)
    BY <1>1, <2>1, <2>2, Zenon DEF ProcessControlBlock, SameTable
  <2>4. pcb'[q] = r2
    BY <1>4, <2>1
  <2>. QED BY <2>1, <2>3, <2>4
<1>8. \A q \in Live : q = p \/ q = INITPROC \/ q \in C \/ pcb'[q] = pcb[q]
  BY <1>4 DEF Live
<1>9. \A q \in Pid : pcb'[q] \in ProcessControlBlock \cup {NONE}
  BY <1>1, <1>3, <1>4, <1>5, <1>6, <1>7, Zenon
<1>10. pcb' \in [Pid -> ProcessControlBlock \cup {NONE}]
  <2>1. pcb' = [q \in Pid |-> pcb'[q]]
    BY DEF Reparented
  <2>. QED BY <1>9, <2>1
<1>11. Live' = Live
  <2>1. \A q \in Live : pcb'[q] \in ProcessControlBlock
    BY <1>1, <1>5, <1>6, <1>7, <1>8
  <2>2. \A q \in Pid : q \notin Live => pcb'[q] = NONE
    BY <1>1, <1>3, <1>4 DEF Live
  <2>3. \A q \in Pid : q \in Live <=> pcb'[q] # NONE
    BY <2>1, <2>2, NoneIsNoBlock, Zenon
  <2>. QED BY <2>3, Zenon DEF Live
<1>12. \A q \in Live \ {p} : SameTable(pcb[q], pcb'[q])
  <2>1. \A r : SameTable(r, r)
    BY DEF SameTable
  <2>. QED BY <1>6, <1>7, <1>8, <2>1
<1>13. \A q \in Live \ {p, INITPROC} : pcb'[q].children = pcb[q].children
  BY <1>7, <1>8
<1>14. \A q \in Live : pcb'[q].parent = IF q \in C THEN INITPROC ELSE pcb[q].parent
  BY <1>3, <1>5, <1>6, <1>7, <1>8, Zenon
<1>. QED BY <1>2, <1>5, <1>6, <1>10, <1>11, <1>12, <1>13, <1>14, Zenon

(* The tree after a process ended: its children are behind those of initproc. *)
LEMMA ExitTree ==
  ASSUME TypeOK, TreeInv, NEW p \in pid2pcb, p # INITPROC,
         Live' = Live, pid_allocator' = pid_allocator, pid2pcb' = pid2pcb \ {p},
         pcb'[p].is_zombie, pcb'[p].children = <<>>,
         pcb'[INITPROC].children = pcb[INITPROC].children \o pcb[p].children,
         \A q \in Live \ {p} : SameTable(pcb[q], pcb'[q]),
         \A q \in Live \ {p, INITPROC} : pcb'[q].children = pcb[q].children,
         \A q \in Live : pcb'[q].parent = IF q \in Range(pcb[p].children) THEN INITPROC
                                                                  ELSE pcb[q].parent
  PROVE  TreeInv'
<1>1. /\ p \in Pid /\ p \in Live /\ INITPROC \in Live /\ INITPROC \in Pid /\ INITPROC \in pid2pcb
      /\ pcb[p] \in ProcessControlBlock /\ pcb[INITPROC] \in ProcessControlBlock
  BY TreeBlocks, Zenon
<1>2. PICK C, I : C = Range(pcb[p].children) /\ I = Range(pcb[INITPROC].children)
  OBVIOUS
<1>3. /\ pcb[p].children \in Seq(Pid) /\ pcb[INITPROC].children \in Seq(Pid)
      /\ IsInjective(pcb[p].children) /\ IsInjective(pcb[INITPROC].children)
  BY <1>1, TreeBlocks, Zenon
<1>4. \A q \in Live, x \in Pid : x \in Range(pcb[q].children) <=>
                                   x \in Live /\ x # INITPROC /\ pcb[x].parent = q
  BY Zenon DEF TreeInv
<1>5. C \subseteq Pid /\ I \subseteq Pid
  BY <1>2, <1>3, RangeOfSeq, Zenon
<1>6. C \cap I = {}
  BY <1>1, <1>2, <1>4, <1>5, SMTT(30)
<1>7. /\ IsInjective(pcb'[INITPROC].children)
      /\ Range(pcb'[INITPROC].children) = I \cup C
  BY <1>2, <1>3, <1>6, PushAll, SMTT(30)
<1>8. \A q \in Live : /\ IsInjective(pcb[q].children)
                      /\ pcb[q].is_zombie => pcb[q].children = <<>>
  BY DEF TreeInv
<1>9. \A q \in Live \ {p} : pcb'[q].is_zombie = pcb[q].is_zombie
  BY Zenon DEF SameTable
<1>10. pid2pcb = {q \in Live : ~pcb[q].is_zombie}
  BY DEF TreeInv
<1>11. \A q \in Live : /\ IsInjective(pcb'[q].children)
                       /\ pcb'[q].is_zombie => pcb'[q].children = <<>>
  <2>1. ~pcb'[INITPROC].is_zombie
    BY <1>1, <1>9, <1>10, Zenon
  <2>. QED BY <1>7, <1>8, <1>9, <2>1, EmptyRange, Zenon
<1>12. pid2pcb' = {q \in Live' : ~pcb'[q].is_zombie}
  <2>1. \A q : q \in pid2pcb' <=> q \in Live /\ ~pcb'[q].is_zombie
    BY <1>9, <1>10, Zenon
  <2>. QED BY <2>1, Zenon
<1>13. ASSUME NEW q \in Live, NEW x \in Pid
       PROVE  x \in Range(pcb'[q].children) <=>
                x \in Live /\ x # INITPROC /\ pcb'[x].parent = q
  <2>1. /\ x \in C => x \in Live /\ x # INITPROC /\ pcb'[x].parent = INITPROC /\ pcb[x].parent = p
        /\ x \notin C /\ x \in Live => pcb'[x].parent = pcb[x].parent
    BY <1>1, <1>2, <1>4
  <2>2. CASE q = p
    <3>1. x \notin Range(pcb'[q].children)
      BY <2>2, EmptyRange, Zenon
    <3>2. x \in Live /\ x # INITPROC /\ x \notin C => pcb[x].parent # p
      BY <1>1, <1>2, <1>4
    <3>. QED BY <2>1, <2>2, <3>1, <3>2, Zenon
  <2>3. CASE q = INITPROC
    BY <1>1, <1>2, <1>4, <1>7, <2>1, <2>3, ZenonT(30)
  <2>4. CASE q # p /\ q # INITPROC
    <3>1. Range(pcb'[q].children) = Range(pcb[q].children)
      BY <2>4
    <3>. QED BY <1>4, <2>1, <2>4, <3>1
  <2>. QED BY <2>2, <2>3, <2>4, Zenon
<1>14. \A x \in Live \ {INITPROC} : pcb'[x].parent \in pid2pcb' \ {x}
  <2>1. \A x \in Live \ {INITPROC} : pcb[x].parent \in pid2pcb \ {x} /\ x \in Pid
    BY Zenon DEF TreeInv, Live
  <2>2. \A x \in Live \ {INITPROC} : x \notin C => pcb[x].parent # p
    BY <1>1, <1>2, <1>4, <2>1, Zenon
  <2>. QED BY <1>1, <1>2, <2>1, <2>2, Zenon
<1>15. /\ INITPROC \in pid2pcb' /\ AllocatorOK(pid_allocator', MaxPid)
       /\ InUse(pid_allocator') = Live'
  BY <1>1, Zenon DEF TreeInv
<1>16. \A q \in Live', x \in Pid :
         x \in Range(pcb'[q].children) <=> x \in Live' /\ x # INITPROC /\ pcb'[x].parent = q
  BY <1>13
<1>17. /\ \A q \in Live' : /\ IsInjective(pcb'[q].children)
                           /\ pcb'[q].is_zombie => pcb'[q].children = <<>>
       /\ \A x \in Live' \ {INITPROC} : pcb'[x].parent \in pid2pcb' \ {x}
  BY <1>11, <1>14
<1>. QED BY <1>12, <1>15, <1>16, <1>17, Zenon DEF TreeInv

LEMMA ExitMainStep ==
  ASSUME IInv, NEW t \in Task, exit_main(t)
  PROVE  IInv'
<1>1. PICK p : p = tcb[t].process
  BY SMTT(30)
<1>2. User(t, p) /\ tcb[t].tid = 0 /\ MayEnd(p)
  BY <1>1, Zenon DEF exit_main
<1>3. /\ p \in Pid /\ p \in Live /\ p \in pid2pcb /\ pcb[p] \in ProcessControlBlock
      /\ TableOK(p, pcb[p], tcb)
      /\ tcb[t] \in TaskControlBlock /\ ~tcb[t].in_call /\ ~tcb[t].exited
      /\ t \in Threads(p)
      /\ pcb[p].tasks[tcb[t].tid + 1] = t
  BY <1>2, UserFacts
<1>4. /\ pid2pcb' = pid2pcb \ {p}
      /\ pcb' = Reparented(p)
      /\ tcb' = EndedTasks(t, p)
      /\ leave_processor(t)
      /\ UNCHANGED <<pid_allocator, sleeping, panicked>>
  BY <1>1, <1>3, Zenon DEF exit_main
<1>5. /\ p # INITPROC
      /\ JoinsFirst => \A u \in Threads(p) : tcb[u].tid = 0 \/ tcb[u].exited
      /\ pcb[p].tasks[1] = t /\ t # NONE
      /\ tcb \in [Task -> TaskControlBlock \cup {NONE}]
  BY <1>2, <1>3, NoneAssumption, SMTT(30) DEF MayEnd, IInv, TypeOK
<1>6. pcb[p].tasks # <<>>
  <2>1. t \in Range(pcb[p].tasks)
    BY <1>3 DEF Threads
  <2>. QED BY <2>1, EmptyRange, Zenon
<1>7. /\ pcb' \in [Pid -> ProcessControlBlock \cup {NONE}]
      /\ Live' = Live
      /\ pcb'[p].is_zombie /\ pcb'[p].children = <<>>
      /\ pcb'[p].tasks \in Seq(Task \cup {NONE}) /\ Len(pcb'[p].tasks) = 1
      /\ pcb'[p].tasks[1] = t
      /\ pcb'[INITPROC].children = pcb[INITPROC].children \o pcb[p].children
      /\ \A q \in Live \ {p} : SameTable(pcb[q], pcb'[q])
      /\ \A q \in Live \ {p, INITPROC} : pcb'[q].children = pcb[q].children
      /\ \A q \in Live : pcb'[q].parent = IF q \in Range(pcb[p].children) THEN INITPROC
                                                                  ELSE pcb[q].parent
  BY <1>3, <1>4, <1>5, <1>6, ReparentedBlocks, Zenon DEF IInv
<1>8. TreeInv'
  BY <1>3, <1>4, <1>5, <1>7, ExitTree, Zenon DEF IInv
<1>9. /\ tcb'[t] = [tcb[t] EXCEPT !.res = FALSE, !.exited = TRUE]
      /\ \A u \in Task : u # t /\ u \notin Threads(p) => tcb'[u] = tcb[u]
      /\ \A u \in Task : u # t /\ u \in Threads(p) /\ tcb[u].exited => tcb'[u] = NONE
      /\ \A u \in Task : u # t /\ u \in Threads(p) /\ ~tcb[u].exited =>
                           tcb'[u] = [tcb[u] EXCEPT !.res = FALSE]
      /\ tcb' = [u \in Task |-> tcb'[u]]
  BY <1>4 DEF EndedTasks
<1>10. /\ tcb'[t] \in TaskControlBlock /\ tcb'[t].process = p
       /\ tcb'[t].res = FALSE /\ tcb'[t].exited = TRUE /\ tcb'[t].in_call = FALSE
  <2>1. PICK b, b2 : b = tcb[t] /\ b2 = [b EXCEPT !.res = FALSE, !.exited = TRUE]
    BY Zenon
  <2>2. /\ b2 \in TaskControlBlock /\ b2.process = b.process
        /\ b2.res = FALSE /\ b2.exited = TRUE /\ b2.in_call = b.in_call
        /\ b.in_call \in BOOLEAN
    BY <1>3, <2>1, Zenon DEF TaskControlBlock
  <2>3. tcb'[t] = b2
    BY <1>9, <2>1, Zenon
  <2>. QED BY <1>1, <1>3, <2>1, <2>2, <2>3
<1>11. \A u \in Threads(p) : u \in Task /\ tcb[u] \in TaskControlBlock /\ tcb[u].process = p
  BY <1>3, <1>5, OwnThreads DEF IInv
<1>12. ASSUME NEW u \in Task, u # t, u \in Threads(p), ~tcb[u].exited
       PROVE  /\ tcb'[u] \in TaskControlBlock /\ tcb'[u].process = p
              /\ tcb'[u].res = FALSE /\ ~tcb'[u].exited /\ tcb[u].tid # 0
  <2>1. PICK b, b2 : b = tcb[u] /\ b2 = [b EXCEPT !.res = FALSE]
    BY Zenon
  <2>2. b \in TaskControlBlock /\ b.process = p
    BY <1>11, <1>12, <2>1
  <2>3. /\ b2 \in TaskControlBlock /\ b2.process = b.process
        /\ b2.res = FALSE /\ b2.exited = b.exited
    BY <2>1, <2>2, Zenon DEF TaskControlBlock
  <2>4. tcb'[u] = b2
    BY <1>9, <1>12, <2>1, Zenon
  <2>5. pcb[p].tasks[tcb[u].tid + 1] = u
    <3>1. u \in Range(pcb[p].tasks) \ {NONE}
      BY <1>12 DEF Threads
    <3>2. PICK r, tc : r = pcb[p] /\ tc = tcb
      BY Zenon
    <3>3. /\ r \in ProcessControlBlock /\ TableOK(p, r, tc)
          /\ u \in Range(r.tasks) \ {NONE}
      BY <1>3, <3>1, <3>2, Zenon
    <3>4. /\ tc[u] # NONE
          /\ tc[u].process = p
          /\ tc[u].tid \in InUse(r.tids)
          /\ r.tasks[tc[u].tid + 1] = u
          /\ tc[u].res <=> tc[u].tid \in r.areas
          /\ tc[u].exited <=> tc[u].tid \notin r.areas
      BY ONLY <3>3, ThreadOf, Zenon
    <3>. QED BY <3>2, <3>4
  <2>6. tcb[u].tid # 0
    BY <1>5, <1>12, <2>5
  <2>7. b2.exited = FALSE
    BY <1>12, <2>1, <2>2, <2>3, Zenon DEF TaskControlBlock
  <2>. QED BY <2>2, <2>3, <2>4, <2>6, <2>7
<1>13. tcb' \in [Task -> TaskControlBlock \cup {NONE}]
  <2>1. ASSUME NEW u \in Task PROVE tcb'[u] \in TaskControlBlock \cup {NONE}
    <3>1. CASE u = t \/ (u \in Threads(p) /\ ~tcb[u].exited)
      BY <1>10, <1>12, <3>1, Zenon
    <3>2. CASE u # t /\ u \in Threads(p) /\ tcb[u].exited
      BY <1>9, <3>2
    <3>3. CASE u # t /\ u \notin Threads(p)
      BY <1>5, <1>9, <3>3, Zenon
    <3>. QED BY <3>1, <3>2, <3>3
  <2>. QED BY <1>9, <2>1, Zenon
<1>14. SchedTypeOK' /\ QueueInv'
  <2>1. ASSUME NEW u \in Task
        PROVE  (tcb'[u] # NONE /\ ~tcb'[u].exited) <=>
                 u # t /\ (tcb[u] # NONE /\ ~tcb[u].exited)
    <3>1. CASE u = t
      BY <1>10, <3>1
    <3>2. CASE u # t /\ u \notin Threads(p)
      BY <1>9, <3>2
    <3>3. CASE u # t /\ u \in Threads(p) /\ tcb[u].exited
      BY <1>9, <3>3
    <3>4. CASE u # t /\ u \in Threads(p) /\ ~tcb[u].exited
      BY <1>11, <1>12, <3>4, NoneIsNoBlock, ZenonT(30)
    <3>. QED BY <3>1, <3>2, <3>3, <3>4, Zenon
  <2>. QED BY <1>4, <2>1, LeaveQueue, Zenon DEF IInv
<1>15. TypeOK'
  BY <1>4, <1>7, <1>13, <1>14 DEF TypeOK, IInv
<1>16. ASSUME NEW q \in Live PROVE BlockOK(q)'
  <2>1. CASE q = p
    <3>1. tcb'[t] # NONE
      BY <1>10, NoneIsNoBlock, Zenon
    <3>2. ZombieOK(p, pcb'[p], tcb')
      BY <1>5, <1>7, <1>10, <3>1, Zenon DEF ZombieOK
    <3>. QED BY <1>7, <2>1, <3>2 DEF BlockOK
  <2>2. CASE q # p
    <3>1. \A u \in Task : tcb[u] # NONE /\ tcb[u].process # p => tcb'[u] = tcb[u]
      BY <1>1, <1>9, <1>11, Zenon
    <3>2. SameTable(pcb[q], pcb'[q])
      BY <1>7, <2>2
    <3>. QED BY <2>2, <3>1, <3>2, OthersKept
  <2>. QED BY <2>1, <2>2, Zenon
<1>17. ASSUME NEW u \in Task PROVE TaskOK(u)'
  <2>1. TaskOK(u)
    BY DEF IInv, ThreadInv
  <2>2. CASE u = t
    <3>1. t \in Range(pcb'[p].tasks) \ {NONE}
      <4>1. 1 \in DOMAIN pcb'[p].tasks
        BY <1>7, LenProperties
      <4>. QED BY <1>5, <1>7, <4>1, ZenonT(30) DEF Range
    <3>. QED BY <1>3, <1>7, <1>10, <2>2, <3>1, Zenon DEF TaskOK, Threads
  <2>3. CASE u # t /\ u \in Threads(p) /\ tcb[u].exited
    BY <1>9, <2>3 DEF TaskOK
  <2>4. CASE u # t /\ u \in Threads(p) /\ ~tcb[u].exited
    <3>1. ~JoinsFirst
      BY <1>5, <1>12, <2>4, Zenon
    <3>. QED BY <1>12, <2>4, <3>1, Zenon DEF TaskOK
  <2>5. CASE u # t /\ u \notin Threads(p)
    <3>1. tcb[u].res /\ tcb[u] # NONE => tcb[u].process # p
      BY <2>1, <2>5, Zenon DEF TaskOK
    <3>2. \A q \in Live : q # p => Range(pcb'[q].tasks) = Range(pcb[q].tasks)
      BY <1>7, Zenon DEF SameTable
    <3>3. u \in Threads(tcb[u].process) /\ tcb[u].process \in Live =>
            u \in Range(pcb'[tcb[u].process].tasks)
      BY <2>5, <3>2, Zenon DEF Threads
    <3>. QED BY <1>4, <1>7, <1>9, <2>1, <2>5, <3>1, <3>3, TaskKept, Zenon DEF IInv
  <2>. QED BY <2>2, <2>3, <2>4, <2>5
<1>18. ThreadInv'
  BY <1>7, <1>16, <1>17 DEF ThreadInv
<1>. QED BY <1>8, <1>14, <1>15, <1>18 DEF IInv
------------------------------------------------------------------------------
(* Entries of thread tables *)

(* An entry of a process that has not ended stays, or sys_waittid empties it. *)
EntryStep(p, k) ==
  \/ pcb'[p].tasks[k] = pcb[p].tasks[k]
  \/ /\ pcb'[p].tasks[k] = NONE
     /\ tcb[pcb[p].tasks[k]].exited
     /\ current \in Threads(p) \ {pcb[p].tasks[k]}

LEMMA EntryKept ==
  ASSUME IInv, Next, NEW p \in Live, NEW k \in DOMAIN pcb[p].tasks,
         pcb[p].tasks[k] # NONE, pcb'[p] # NONE, ~pcb'[p].is_zombie
  PROVE  EntryStep(p, k)
<1>1. /\ TypeOK /\ TreeInv /\ ThreadInv /\ p \in Pid /\ pcb[p] \in ProcessControlBlock
      /\ pcb \in [Pid -> ProcessControlBlock \cup {NONE}]
  BY DEF IInv, TypeOK, Live
<1>2. ASSUME pcb'[p].tasks = pcb[p].tasks PROVE EntryStep(p, k)
  BY <1>2, SMTT(30) DEF EntryStep
<1>3. ASSUME UNCHANGED pcb PROVE EntryStep(p, k)
  BY <1>2, <1>3
<1>4. ASSUME NEW t \in Task,
             \/ RunTask(t) \/ sys_yield(t) \/ sys_sleep(t) \/ check_timer(t) \/ sys_read(t)
             \/ CallAgain(t) \/ CallReturns(t)
      PROVE  EntryStep(p, k)
  BY <1>3, <1>4 DEF RunTask, sys_yield, sys_sleep, check_timer, sys_read, CallAgain, CallReturns,
     proc_vars
<1>5. ASSUME Panic PROVE EntryStep(p, k)
  BY <1>3, <1>5 DEF Panic
<1>6. ASSUME NEW t \in Task, sys_fork(t) PROVE EntryStep(p, k)
  <2>1. PICK q, c : q = tcb[t].process /\ c = Allocated(pid_allocator)
    OBVIOUS
  <2>2. User(t, q) /\ c < MaxPid
    BY <1>6, <2>1, Zenon DEF sys_fork
  <2>3. q \in Pid /\ pcb[q] \in ProcessControlBlock
    BY <2>2, UserFacts, SMTT(30)
  <2>4. c \in Pid /\ c # p
    <3>1. /\ AllocatorOK(pid_allocator, MaxPid) /\ InUse(pid_allocator) = Live
          /\ pid_allocator \in Allocator(0..(MaxPid - 1)) /\ MaxPid \in Nat
      BY <1>1, ProcessAssumption DEF TreeInv, TypeOK, Pid
    <3>. QED BY <2>1, <2>2, <3>1, AllocStep, ZenonT(30) DEF Pid
  <2>5. CASE Len(pcb[q].tasks) = 1
    <3>1. PICK u \in Task :
            pcb' = [pcb EXCEPT ![q].children = Append(@, c),
                               ![c] = NewProcess(q, u, pcb[q].areas)]
      BY <1>6, <2>1, <2>5, Zenon DEF sys_fork
    <3>2. PICK r, rp, rc : /\ r = pcb[q]
                           /\ rp = [r EXCEPT !.children = Append(@, c)]
                           /\ rc = NewProcess(q, u, pcb[q].areas)
      BY Zenon
    <3>3. rp.tasks = r.tasks
      BY <2>3, <3>2 DEF ProcessControlBlock
    <3>4. pcb' = [pcb EXCEPT ![q] = rp, ![c] = rc]
      BY <3>1, <3>2
    <3>. QED BY <1>1, <1>2, <2>3, <2>4, <3>2, <3>3, <3>4, Zenon
  <2>6. CASE Len(pcb[q].tasks) # 1
    BY <1>5, <1>6, <2>1, <2>6, ZenonT(30) DEF sys_fork
  <2>. QED BY <2>5, <2>6
<1>7. ASSUME NEW t \in Task, sys_exec(t) PROVE EntryStep(p, k)
  <2>1. PICK q : q = tcb[t].process
    OBVIOUS
  <2>2. pcb[q] \in ProcessControlBlock /\ q \in Pid
    BY <1>7, <2>1, UserFacts DEF sys_exec
  <2>3. CASE Len(pcb[q].tasks) = 1
    <3>1. pcb' = [pcb EXCEPT ![q].areas = {0}]
      BY <1>7, <2>1, <2>3, Zenon DEF sys_exec
    <3>2. PICK r, rp : r = pcb[q] /\ rp = [r EXCEPT !.areas = {0}]
      BY Zenon
    <3>3. rp.tasks = r.tasks
      BY <2>2, <3>2 DEF ProcessControlBlock
    <3>. QED BY <1>1, <1>2, <2>2, <3>1, <3>2, <3>3, Zenon
  <2>4. CASE Len(pcb[q].tasks) # 1
    BY <1>5, <1>7, <2>1, <2>4, ZenonT(30) DEF sys_exec
  <2>. QED BY <2>3, <2>4
<1>8. ASSUME NEW t \in Task, exit_main(t) PROVE EntryStep(p, k)
  <2>1. PICK q : q = tcb[t].process
    OBVIOUS
  <2>2. /\ q \in pid2pcb /\ q \in Pid /\ q # INITPROC /\ pcb[q] \in ProcessControlBlock
        /\ t \in Threads(q)
    BY <1>8, <2>1, UserFacts DEF exit_main, MayEnd
  <2>3. pcb' = Reparented(q)
    BY <1>8, <2>1, <2>2, Zenon DEF exit_main
  <2>4. pcb[q].tasks # <<>>
    BY <2>2, EmptyRange DEF Threads
  <2>5. pcb'[q].is_zombie /\ \A x \in Live \ {q} : SameTable(pcb[x], pcb'[x])
    BY <1>1, <2>2, <2>3, <2>4, ReparentedBlocks, ZenonT(30)
  <2>6. p # q
    BY <2>5
  <2>. QED BY <1>2, <2>5, <2>6, Zenon DEF SameTable
<1>9. ASSUME NEW t \in Task, NEW pid \in Pid \cup {NONE}, sys_waitpid(t, pid)
      PROVE  EntryStep(p, k)
  <2>1. PICK q, i, c : q = tcb[t].process /\ i = FirstChild(q, pid) /\ c = pcb[q].children[i]
    OBVIOUS
  <2>2. q \in Pid /\ pcb[q] \in ProcessControlBlock
    BY <1>9, <2>1, UserFacts, Zenon DEF sys_waitpid
  <2>3. CASE pcb' = [pcb EXCEPT ![q].children = RemoveAt(@, i), ![c] = NONE]
    <3>1. PICK r, rp : r = pcb[q] /\ rp = [r EXCEPT !.children = RemoveAt(@, i)]
      BY Zenon
    <3>2. rp.tasks = r.tasks
      BY <2>2, <3>1 DEF ProcessControlBlock
    <3>3. pcb' = [pcb EXCEPT ![q] = rp, ![c] = NONE]
      BY <2>3, <3>1, Zenon
    <3>4. p # c
      BY <1>1, <3>3
    <3>. QED BY <1>1, <1>2, <2>2, <3>1, <3>2, <3>3, <3>4, ZenonT(30)
  <2>. QED BY <1>5, <1>9, <2>1, <2>3, ZenonT(30) DEF sys_waitpid
<1>10. ASSUME NEW t \in Task, exit_thread(t) PROVE EntryStep(p, k)
  <2>1. PICK q, i : q = tcb[t].process /\ i = tcb[t].tid
    BY Zenon
  <2>2. q \in Pid /\ pcb[q] \in ProcessControlBlock
    BY <1>10, <2>1, UserFacts DEF exit_thread
  <2>3. pcb' = [pcb EXCEPT ![q].areas = @ \ {i}]
    BY <1>10, <2>1, Zenon DEF exit_thread
  <2>4. PICK r, rp : r = pcb[q] /\ rp = [r EXCEPT !.areas = @ \ {i}]
    BY Zenon
  <2>5. rp.tasks = r.tasks
    BY <2>2, <2>4, Zenon DEF ProcessControlBlock
  <2>. QED BY <1>1, <1>2, <2>2, <2>3, <2>4, <2>5, Zenon
<1>11. ASSUME NEW t \in Task, sys_thread_create(t) PROVE EntryStep(p, k)
  <2>1. PICK q, i : q = tcb[t].process /\ i = Allocated(pcb[q].tids)
    BY Zenon
  <2>2. User(t, q) /\ i < MaxTid
    BY <1>11, <2>1, Zenon DEF sys_thread_create
  <2>3. q \in Pid /\ pcb[q] \in ProcessControlBlock /\ TableOK(q, pcb[q], tcb)
    BY <2>2, UserFacts
  <2>4. CASE i \in pcb[q].areas
    BY <1>5, <1>11, <2>1, <2>4, ZenonT(30) DEF sys_thread_create
  <2>5. CASE i \notin pcb[q].areas
    <3>1. PICK u \in Task :
            /\ tcb[u] = NONE
            /\ tcb' = [tcb EXCEPT ![u] = NewTask(q, i)]
            /\ pcb' = [pcb EXCEPT ![q].tids = alloc(@), ![q].areas = @ \cup {i},
                                  ![q].tasks = Placed(@, i, u)]
      BY <1>11, <2>1, <2>5, ZenonT(30) DEF sys_thread_create
    <3>2. PICK r, r2, tc, tc2 : /\ r = pcb[q] /\ r2 = WithThread(r, i, u)
                                /\ tc = tcb /\ tc2 = tcb'
      OBVIOUS
    <3>3. pcb' = [pcb EXCEPT ![q] = r2]
      BY <3>1, <3>2, Zenon DEF WithThread
    <3>4. /\ tc[u] = NONE /\ tc2[u] = NewTask(q, i)
          /\ \A v \in Task : v # u => tc2[v] = tc[v]
      BY <1>1, <3>1, <3>2, Zenon DEF TypeOK
    <3>5. r \in ProcessControlBlock /\ TableOK(q, r, tc) /\ i = Allocated(r.tids)
      BY <2>1, <2>3, <3>2, Zenon
    <3>6. r2 = WithThread(r, i, u)
      BY <3>2
    <3>7. \A j \in DOMAIN r.tasks : r.tasks[j] # NONE => r2.tasks[j] = r.tasks[j]
      <4>1. Grown(q, r, u, r2, tc2)
        BY <2>2, <2>3, <3>4, <3>5, <3>6, TableGrows, Zenon
      <4>. QED BY <4>1, ZenonT(30) DEF Grown
    <3>8. CASE p = q
      <4>1. pcb'[p] = r2 /\ pcb[p] = r
        BY <1>1, <3>2, <3>3, <3>8, Zenon
      <4>. QED BY <3>7, <4>1, Zenon DEF EntryStep
    <3>9. CASE p # q
      BY <1>1, <1>2, <3>3, <3>9, SMTT(30)
    <3>. QED BY <3>8, <3>9
  <2>. QED BY <2>4, <2>5
<1>12. ASSUME NEW t \in Task, NEW i \in Tid, sys_waittid(t, i) PROVE EntryStep(p, k)
  <2>1. PICK q, u : q = tcb[t].process /\ u = pcb[q].tasks[i + 1]
    OBVIOUS
  <2>2. /\ User(t, q) /\ i # tcb[t].tid
        /\ i + 1 \in DOMAIN pcb[q].tasks /\ u # NONE /\ tcb[u].exited
    BY <1>12, <2>1, ZenonT(30) DEF sys_waittid
  <2>3. /\ q \in Pid /\ pcb[q] \in ProcessControlBlock /\ current = t /\ t \in Threads(q)
        /\ ~tcb[t].exited
    BY <2>2, UserFacts
  <2>4. CASE /\ pcb' = [pcb EXCEPT ![q].tasks[i + 1] = NONE, ![q].tids = dealloc(@, i)]
    <3>1. PICK r, r2 : r = pcb[q] /\ r2 = WithoutThread(r, i)
      OBVIOUS
    <3>2. pcb' = [pcb EXCEPT ![q] = r2]
      BY <2>4, <3>1, Zenon DEF WithoutThread
    <3>3. r2.tasks = [r.tasks EXCEPT ![i + 1] = NONE]
      BY <2>3, <3>1, Zenon DEF WithoutThread, ProcessControlBlock
    <3>4. CASE p = q
      <4>1. pcb'[p] = r2 /\ pcb[p] = r /\ k \in DOMAIN r.tasks
        BY <1>1, <3>1, <3>2, <3>4, Zenon
      <4>2. CASE k = i + 1
        <5>1. r2.tasks[k] = NONE /\ r.tasks[k] = u /\ u # t
          BY <2>1, <2>2, <2>3, <3>1, <3>3, <4>1, <4>2, Zenon
        <5>. QED BY <2>2, <2>3, <3>4, <4>1, <5>1, Zenon DEF EntryStep
      <4>3. CASE k # i + 1
        BY <3>3, <4>1, <4>3, Zenon DEF EntryStep
      <4>. QED BY <4>2, <4>3, SMTT(30)
    <3>5. CASE p # q
      BY <1>1, <1>2, <3>2, <3>5
    <3>. QED BY <3>4, <3>5, Zenon
  <2>. QED BY <1>5, <1>12, <2>1, <2>4, ZenonT(30) DEF sys_waittid
<1>13. PICK t \in Task :
         \/ RunTask(t) \/ sys_yield(t) \/ sys_sleep(t) \/ check_timer(t) \/ sys_read(t)
         \/ CallAgain(t) \/ CallReturns(t) \/ sys_fork(t) \/ sys_exec(t) \/ exit_main(t)
         \/ \E pid \in Pid \cup {NONE} : sys_waitpid(t, pid)
         \/ sys_thread_create(t) \/ exit_thread(t)
         \/ \E i \in Tid : sys_waittid(t, i)
  BY Zenon DEF Next
<1>. QED BY <1>4, <1>6, <1>7, <1>8, <1>9, <1>10, <1>11, <1>12, <1>13, ZenonT(30)
==============================================================================
