---------------------------- MODULE ProcessProofs ----------------------------
(*****************************************************************************)
(* Ids and the places computed from them are used once; the processes form a *)
(* tree, threads keep their ids until they are waited for, and, for programs *)
(* that join their threads before they exit, no assert and no unwrap of the  *)
(* process calls fails: for any number of processes, threads and tasks.      *)
(*****************************************************************************)
EXTENDS ProcessCallProofs, IdAllocation, AddressLayout, FiniteSetTheorems
------------------------------------------------------------------------------
(* Places *)

(* overlap_with, which compares ends with starts moved by one, finds exactly  *)
(* the ranges that share a page.                                              *)
THEOREM OverlapSharesPage ==
  ASSUME NEW s \in [l : Nat, r : Nat], NEW o \in [l : Nat, r : Nat],
         s.l < s.r, o.l < o.r
  PROVE  overlap_with(s, o) <=> \E v \in Nat : contains(s, v) /\ contains(o, v)
<1>1. ASSUME overlap_with(s, o)
      PROVE  \E v \in Nat : contains(s, v) /\ contains(o, v)
  <2>1. CASE s.l <= o.l
    BY <1>1, <2>1 DEF overlap_with, contains
  <2>2. CASE o.l <= s.l
    BY <1>1, <2>2 DEF overlap_with, contains
  <2> QED
    BY <2>1, <2>2
<1>2. ASSUME NEW v \in Nat, contains(s, v), contains(o, v)
      PROVE  overlap_with(s, o)
  BY <1>2 DEF overlap_with, contains
<1> QED
  BY <1>1, <1>2

(* Two pages of the 39 bit space have the same three indices only if they are *)
(* the same page: no two pages share an entry of the page table.              *)
THEOREM IndexesApart ==
  ASSUME NEW v \in Nat, NEW w \in Nat, v * PAGE_SIZE < VA_SPACE,
         w * PAGE_SIZE < VA_SPACE, indexes(v) = indexes(w)
  PROVE  v = w
<1>1. v < 134217728 /\ w < 134217728
  BY SMT DEF VA_SPACE, PAGE_SIZE
<1>2. /\ (v \div 262144) % 512 = (w \div 262144) % 512
      /\ (v \div 512) % 512 = (w \div 512) % 512
      /\ v % 512 = w % 512
  BY SMT DEF indexes
<1>3. v \div 512 = w \div 512
  BY <1>1, <1>2, SMT
<1> QED
  BY <1>2, <1>3, SMT

(* Kernel stacks of different ids, each with the guard page below it, are     *)
(* apart, below the trampoline and above the identity-mapped memory: as long  *)
(* as the id, which KernelStack::drop never gives back, stays below           *)
(* 44553557. VirtAddr::from cuts the addresses to 39 bits before.             *)
THEOREM KernelStacksApart ==
  ASSUME NEW i \in Nat, NEW j \in Nat, i < j, j < 44553557
  PROVE  /\ VirtAddr(kernel_stack_bottom(i)) + STACK_SIZE <= VirtAddr(TRAMPOLINE)
         /\ VirtAddr(kernel_stack_bottom(j)) + STACK_SIZE + PAGE_SIZE
              <= VirtAddr(kernel_stack_bottom(i))
         /\ VirtAddr(kernel_stack_bottom(j)) - PAGE_SIZE >= MEMORY_END
<1>1. ASSUME NEW k \in Nat, k < 44553557
      PROVE  VirtAddr(kernel_stack_bottom(k)) = VA_SPACE - 12288 - k * 12288
  BY <1>1, SMT DEF VirtAddr, kernel_stack_bottom, VA_SPACE, TRAMPOLINE,
                   STACK_SIZE, PAGE_SIZE
<1>2. VirtAddr(TRAMPOLINE) = VA_SPACE - PAGE_SIZE
  BY SMT DEF VirtAddr, TRAMPOLINE, VA_SPACE, PAGE_SIZE
<1> QED
  BY <1>1, <1>2, SMT DEF VA_SPACE, STACK_SIZE, PAGE_SIZE, MEMORY_END

(* User stacks of different threads are a guard page apart, and their trap    *)
(* contexts are different pages below the trampoline; while the last stack    *)
(* ends below the mmap area, no stack reaches it or a trap context.           *)
THEOREM UserResApart ==
  ASSUME NEW base \in Nat, NEW s \in Nat, NEW t \in Nat, s < t,
         ustack_bottom_from_tid(base, t) + STACK_SIZE <= MMAP_AREA_BASE
  PROVE  /\ ustack_bottom_from_tid(base, s) + STACK_SIZE + PAGE_SIZE
              <= ustack_bottom_from_tid(base, t)
         /\ VirtAddr(trap_cx_bottom_from_tid(t)) + PAGE_SIZE
              <= VirtAddr(trap_cx_bottom_from_tid(s))
         /\ VirtAddr(trap_cx_bottom_from_tid(s)) + PAGE_SIZE <= VirtAddr(TRAMPOLINE)
         /\ MMAP_AREA_BASE <= VirtAddr(trap_cx_bottom_from_tid(t))
<1>1. base + t * 12288 + 8192 <= 4294967296
  BY SMT DEF ustack_bottom_from_tid, STACK_SIZE, PAGE_SIZE, MMAP_AREA_BASE
<1>2. t < 349526
  BY <1>1, SMT
<1>3. ASSUME NEW k \in Nat, k < 349526
      PROVE  VirtAddr(trap_cx_bottom_from_tid(k)) = VA_SPACE - 8192 - k * 4096
  BY <1>3, SMT DEF VirtAddr, trap_cx_bottom_from_tid, VA_SPACE, TRAMPOLINE,
                   TRAP_CONTEXT, PAGE_SIZE
<1>4. VirtAddr(TRAMPOLINE) = VA_SPACE - PAGE_SIZE
  BY SMT DEF VirtAddr, TRAMPOLINE, VA_SPACE, PAGE_SIZE
<1>5. ustack_bottom_from_tid(base, s) + STACK_SIZE + PAGE_SIZE
        <= ustack_bottom_from_tid(base, t)
  BY SMT DEF ustack_bottom_from_tid, STACK_SIZE, PAGE_SIZE
<1> QED
  BY <1>2, <1>3, <1>4, <1>5, SMT DEF VA_SPACE, PAGE_SIZE, MMAP_AREA_BASE

(* A turn of translated_byte_buffer moves on, not past the end, and takes     *)
(* from the page of `start` exactly the bytes up to where the next turn       *)
(* starts: the slices are the buffer, byte for byte, also where a page or the *)
(* buffer ends on a page boundary.                                            *)
THEOREM SlicesCoverBuffer ==
  ASSUME NEW start \in Nat, NEW end \in Nat, start < end, end < VA_SPACE
  PROVE  /\ start < NextStart(start, end)
         /\ NextStart(start, end) <= end
         /\ Slice(start, end).from < Slice(start, end).to
         /\ Slice(start, end).to <= PAGE_SIZE
         /\ Slice(start, end).to - Slice(start, end).from
              = NextStart(start, end) - start
<1> DEFINE next == NextStart(start, end)
<1>1. VirtAddr(start) = start /\ VirtAddr(end) = end
  BY SMT DEF VirtAddr, VA_SPACE
<1>2. /\ next = IF (start \div 4096 + 1) * 4096 <= end
                THEN (start \div 4096 + 1) * 4096 ELSE end
      /\ next \in Nat
  BY <1>1, SMT DEF NextStart, floor, PAGE_SIZE
<1>3. start < next /\ next <= end /\ next - start <= 4096
  BY <1>2, SMT
<1>4. /\ Slice(start, end).from = start % 4096
      /\ Slice(start, end).to = IF next % 4096 = 0 THEN 4096 ELSE next % 4096
  BY <1>1, SMT DEF Slice, PAGE_SIZE
<1>5. (IF next % 4096 = 0 THEN 4096 ELSE next % 4096) = (start % 4096) + (next - start)
  <2>1. CASE next = (start \div 4096 + 1) * 4096
    BY <2>1, SMT
  <2>2. CASE next = end /\ end < (start \div 4096 + 1) * 4096
    BY <2>2, <1>3, SMT
  <2> QED
    BY <1>2, <2>1, <2>2, SMT
<1> HIDE DEF next
<1>6. start % 4096 \in Nat /\ next % 4096 \in Nat /\ next % 4096 < 4096
  BY <1>2, SMT
<1> QED
  BY <1>2, <1>3, <1>4, <1>5, <1>6, SMT DEF PAGE_SIZE, next
------------------------------------------------------------------------------
(* One RecycleAllocator *)

(* The ids that are out are the ones in use, and current never fell behind   *)
(* the number of ids that were out.                                          *)
IdsInv ==
  /\ ids \in Allocator(0..(ids.current - 1))
  /\ AllocatorOK(ids, ids.current)
  /\ live = InUse(ids)
  /\ peak = ids.current

(* The recycled ids are below current, however large the bound is. *)
LEMMA BoundDrops ==
  ASSUME NEW max \in Nat, NEW a \in Allocator(0..(max - 1)), AllocatorOK(a, max)
  PROVE  a \in Allocator(0..(a.current - 1)) /\ AllocatorOK(a, a.current)
<1>1. /\ a.current \in Nat /\ a.recycled \in Seq(0..(max - 1))
      /\ a = [current |-> a.current, recycled |-> a.recycled]
  BY DEF Allocator
<1>2. \A k \in DOMAIN a.recycled : a.recycled[k] \in 0..(a.current - 1)
  BY <1>1, LenProperties, ElementOfSeq DEF AllocatorOK
<1>3. a.recycled \in Seq(0..(a.current - 1))
  BY <1>1, <1>2
<1>. QED BY <1>1, <1>3 DEF Allocator, AllocatorOK

(* The ids below a bound number as many as the bound says. *)
LEMMA Below ==
  ASSUME NEW n \in Nat
  PROVE  IsFiniteSet(0..(n - 1)) /\ Cardinality(0..(n - 1)) = n
<1>1. IsFiniteSet(0..(n - 1)) /\ Cardinality(0..(n - 1)) = IF 0 > n - 1 THEN 0 ELSE (n - 1) - 0 + 1
  BY FS_Interval
<1>. QED BY <1>1

(* So a set of them has at most that many members. *)
LEMMA FewBelow ==
  ASSUME NEW n \in Nat, NEW S \in SUBSET (0..(n - 1))
  PROVE  Cardinality(S) \in Nat /\ Cardinality(S) <= n
<1>1. IsFiniteSet(0..(n - 1)) /\ Cardinality(0..(n - 1)) = n
  BY Below
<1>2. IsFiniteSet(S) /\ Cardinality(S) <= Cardinality(0..(n - 1))
  BY <1>1, FS_Subset, Zenon
<1>. QED BY <1>1, <1>2, FS_CardinalityType, Zenon

LEMMA AllocIdStep == IdsInv /\ AllocId => IdsInv'
<1>. SUFFICES ASSUME IdsInv, AllocId PROVE IdsInv'
  OBVIOUS
<1>1. PICK n, r : n = ids.current /\ r = ids.recycled
  OBVIOUS
<1>2. /\ n \in Nat /\ r \in Seq(0..(n - 1)) /\ AllocatorOK(ids, n)
      /\ live = InUse(ids) /\ peak = n
  BY <1>1 DEF IdsInv, Allocator
<1>3. ids \in Allocator(0..((n + 1) - 1)) /\ AllocatorOK(ids, n + 1)
  <2>1. r \in Seq(0..((n + 1) - 1))
    BY <1>2
  <2>2. ids = [current |-> n, recycled |-> r]
    BY <1>1 DEF IdsInv, Allocator
  <2>. QED BY <1>1, <1>2, <2>1, <2>2 DEF AllocatorOK, Allocator
<1>4. Allocated(ids) < n + 1
  BY <1>1, <1>2, LenProperties, ElementOfSeq, SMTT(30) DEF Allocated, Last
<1>5. /\ ids' \in Allocator(0..((n + 1) - 1)) /\ AllocatorOK(ids', n + 1)
      /\ live' = InUse(ids')
  BY <1>2, <1>3, <1>4, AllocStep DEF AllocId
<1>6. ids' \in Allocator(0..(ids'.current - 1)) /\ AllocatorOK(ids', ids'.current)
  <2>1. PICK a : a = ids'
    OBVIOUS
  <2>2. a \in Allocator(0..(a.current - 1)) /\ AllocatorOK(a, a.current)
    BY <1>2, <1>5, <2>1, BoundDrops
  <2>. QED BY <2>1, <2>2
<1>7. peak' = IF Cardinality(live') > n THEN Cardinality(live') ELSE n
  BY <1>2 DEF AllocId
<1>8. CASE r = <<>>
  <2>1. ids'.current = n + 1 /\ ids'.recycled = <<>>
    BY <1>1, <1>8, Zenon DEF AllocId, alloc, IdsInv, Allocator
  <2>2. live' = 0..((n + 1) - 1)
    BY <1>5, <2>1 DEF InUse, Range
  <2>3. Cardinality(live') = n + 1
    BY <1>2, <2>2, Below
  <2>. QED BY <1>2, <1>5, <1>6, <1>7, <2>1, <2>3, SMTT(30) DEF IdsInv
<1>9. CASE r # <<>>
  <2>1. ids'.current = n
    BY <1>1, <1>9, Zenon DEF AllocId, alloc, IdsInv, Allocator
  <2>2. live' \subseteq 0..(n - 1)
    BY <1>5, <2>1, Zenon DEF InUse
  <2>3. Cardinality(live') <= n /\ Cardinality(live') \in Nat
    BY <1>2, <2>2, FewBelow, Zenon
  <2>. QED BY <1>2, <1>5, <1>6, <1>7, <2>1, <2>3 DEF IdsInv
<1>. QED BY <1>8, <1>9

LEMMA DeallocIdStep == ASSUME NEW id \in live, IdsInv, DeallocId(id) PROVE IdsInv'
<1>1. PICK n : n = ids.current
  OBVIOUS
<1>2. n \in Nat /\ ids \in Allocator(0..(n - 1)) /\ AllocatorOK(ids, n) /\ id \in InUse(ids)
  BY <1>1 DEF IdsInv, Allocator
<1>3. /\ ids' \in Allocator(0..(n - 1)) /\ AllocatorOK(ids', n)
      /\ live' = InUse(ids')
  BY <1>2, DeallocStep DEF DeallocId, IdsInv
<1>4. ids'.current = n
  BY <1>1 DEF DeallocId, dealloc, IdsInv, Allocator
<1>. QED BY <1>1, <1>3, <1>4, Zenon DEF IdsInv, DeallocId

LEMMA AlwaysIdsInv == IdsSpec => []IdsInv
<1>1. IdsInit => IdsInv
  <2>1. IdsInit => ids.current = 0 /\ ids.recycled = <<>>
    BY DEF IdsInit
  <2>. QED BY <2>1 DEF IdsInit, IdsInv, Allocator, AllocatorOK, InUse, Range, IsInjective
<1>2. IdsInv /\ [IdsNext]_ids_vars => IdsInv'
  <2>1. IdsInv /\ UNCHANGED ids_vars => IdsInv'
    BY DEF IdsInv, ids_vars
  <2>. QED BY <2>1, AllocIdStep, DeallocIdStep, Zenon DEF IdsNext
<1>. QED BY <1>1, <1>2, PTL DEF IdsSpec

LEMMA IdsFacts == IdsInv => Partition /\ DeallocAsserts /\ CurrentIsPeak
<1>. SUFFICES ASSUME IdsInv PROVE Partition /\ DeallocAsserts /\ CurrentIsPeak
  OBVIOUS
<1>1. \A k \in DOMAIN ids.recycled : ids.recycled[k] \in 0..(ids.current - 1)
  BY LenProperties, ElementOfSeq, Zenon DEF IdsInv, Allocator
<1>2. Partition
  BY <1>1 DEF IdsInv, AllocatorOK, InUse, Partition, Range
<1>3. DeallocAsserts
  BY DEF IdsInv, InUse, DeallocAsserts, dealloc_assert, Allocator
<1>. QED BY <1>2, <1>3 DEF IdsInv, CurrentIsPeak

(* The ids below current are out or recycled, never both: alloc hands out no *)
(* id that is in use, and dealloc loses none.                                *)
THEOREM IdsPartitioned == IdsSpec => []Partition
BY AlwaysIdsInv, IdsFacts, PTL

(* The asserts of dealloc never fail for an id that is out. *)
THEOREM DeallocNeverPanics == IdsSpec => []DeallocAsserts
BY AlwaysIdsInv, IdsFacts, PTL

(* alloc makes a new id only when every old one is out, so current is the    *)
(* largest number of ids ever out at once.                                   *)
THEOREM IdsReusedFirst == IdsSpec => []CurrentIsPeak
BY AlwaysIdsInv, IdsFacts, PTL
------------------------------------------------------------------------------
(* waitpid *)

(* Some entry matches: the first one is an index of the list. *)
LEMMA MinIsMember ==
  ASSUME NEW S \in SUBSET Nat, S # {}
  PROVE  Min(S) \in S
<1>1. PICK i \in S : \A j \in S : ~(<<j, i>> \in OpToRel(<, Nat))
  BY NatLessThanWellFounded, WFMin, Zenon
<1>2. \A j \in S : ~(j < i)
  BY <1>1, Zenon DEF OpToRel
<1>3. \A j \in S : i <= j
  BY <1>2
<1>. QED BY <1>3, Zenon DEF Min

(* find returns an index of the list. *)
LEMMA FoundChild ==
  ASSUME NEW p, NEW pid, NEW s \in Seq(Pid), pcb[p].children = s, FirstChild(p, pid) # 0
  PROVE  FirstChild(p, pid) \in DOMAIN s
<1>1. PICK M : M = Matching(p, pid)
  OBVIOUS
<1>2. FirstChild(p, pid) = IF M = {} THEN 0 ELSE Min(M)
  BY <1>1 DEF FirstChild
<1>3. M \in SUBSET Nat /\ M \subseteq DOMAIN s
  BY <1>1, LenProperties DEF Matching
<1>. QED BY <1>2, <1>3, MinIsMember, Zenon

(* An entry of the children of p is a process of its own, below p. *)
LEMMA ChildFacts ==
  ASSUME TypeOK, TreeInv, NEW p \in pid2pcb, NEW c \in Range(pcb[p].children)
  PROVE  c \in Pid /\ c \in Live /\ c # p /\ c # INITPROC /\ pcb[c].parent = p
<1>1. p \in Live /\ pcb[p].children \in Seq(Pid)
  BY TreeBlocks, Zenon
<1>2. c \in Pid
  BY <1>1, RangeOfSeq, Zenon
<1>3. c \in Live /\ c # INITPROC /\ pcb[c].parent = p
  BY <1>1, <1>2, Zenon DEF TreeInv
<1>4. c # p
  BY <1>3, Zenon DEF TreeInv
<1>. QED BY <1>2, <1>3, <1>4, Zenon

(* The tree without a process that ended. *)
LEMMA WaitpidTree ==
  ASSUME TypeOK, TreeInv, NEW p \in pid2pcb, NEW i \in DOMAIN pcb[p].children,
         NEW c, c = pcb[p].children[i], pcb[c].is_zombie,
         NEW rp \in ProcessControlBlock, pcb'[p] = rp, pcb'[c] = NONE,
         \A q \in Pid \ {p, c} : pcb'[q] = pcb[q],
         rp.children = RemoveAt(pcb[p].children, i), rp.parent = pcb[p].parent,
         rp.is_zombie = pcb[p].is_zombie,
         pid_allocator' = dealloc(pid_allocator, c), pid2pcb' = pid2pcb
  PROVE  /\ pid_allocator' \in Allocator(Pid)
         /\ Live' = Live \ {c}
         /\ TreeInv'
<1>1. c \in Pid /\ c \in Live /\ c # p /\ c # INITPROC /\ pcb[c].parent = p
  <2>1. c \in Range(pcb[p].children)
    BY DEF Range
  <2>. QED BY <2>1, ChildFacts, ZenonT(30)
<1>2. /\ p \in Pid /\ p \in Live /\ pcb[p].children \in Seq(Pid)
      /\ IsInjective(pcb[p].children) /\ ~pcb[p].is_zombie
      /\ pid_allocator \in Allocator(Pid)
  BY TreeBlocks, Zenon
<1>3. rp # NONE
  BY NoneIsNoBlock, Zenon
<1>4. Live' = Live \ {c}
  BY <1>1, <1>2, <1>3, SMTT(30) DEF Live
<1>5. /\ pid_allocator' \in Allocator(Pid)
      /\ AllocatorOK(pid_allocator', MaxPid)
      /\ InUse(pid_allocator') = Live'
  <2>1. c \in InUse(pid_allocator) /\ AllocatorOK(pid_allocator, MaxPid)
        /\ InUse(pid_allocator) = Live
    BY <1>1, Zenon DEF TreeInv
  <2>2. MaxPid \in Nat /\ pid_allocator \in Allocator(0..(MaxPid - 1))
    BY <1>2, ProcessAssumption, Zenon DEF Pid
  <2>. QED BY <1>4, <2>1, <2>2, DeallocStep, Zenon DEF Pid
<1>6. /\ IsInjective(rp.children)
      /\ Range(rp.children) = Range(pcb[p].children) \ {c}
  <2>1. PICK s : s = pcb[p].children
    BY Zenon
  <2>2. s \in Seq(Pid) /\ i \in DOMAIN s /\ IsInjective(s)
    BY <1>2, <2>1, Zenon
  <2>3. /\ IsInjective(RemoveAt(s, i))
        /\ Range(RemoveAt(s, i)) = Range(s) \ {s[i]}
    BY <2>2, RemoveChild, Zenon
  <2>. QED BY <2>1, <2>3, Zenon
<1>7. \A q \in Live' : q \in Pid /\ q \in Live /\ q # c /\ (q # p => pcb'[q] = pcb[q])
  BY <1>4, Zenon DEF Live
<1>8. \A q \in Live' : /\ pcb'[q].is_zombie = pcb[q].is_zombie
                       /\ pcb'[q].parent = pcb[q].parent
  BY <1>7, Zenon
<1>9. INITPROC \in pid2pcb' /\ pid2pcb' = {q \in Live' : ~pcb'[q].is_zombie}
  <2>1. INITPROC \in pid2pcb /\ pid2pcb = {q \in Live : ~pcb[q].is_zombie}
    BY DEF TreeInv
  <2>. QED BY <1>4, <1>8, <2>1, Zenon
<1>10. \A q \in Live' : /\ IsInjective(pcb'[q].children)
                        /\ pcb'[q].is_zombie => pcb'[q].children = <<>>
  <2>1. \A q \in Live : /\ IsInjective(pcb[q].children)
                        /\ pcb[q].is_zombie => pcb[q].children = <<>>
    BY Zenon DEF TreeInv
  <2>. QED BY <1>2, <1>6, <1>7, <1>8, <2>1, Zenon
<1>11. ASSUME NEW q \in Live', NEW x \in Pid
       PROVE  x \in Range(pcb'[q].children) <=>
                x \in Live' /\ x # INITPROC /\ pcb'[x].parent = q
  <2>1. x \in Range(pcb[q].children) <=> x \in Live /\ x # INITPROC /\ pcb[x].parent = q
    BY <1>7 DEF TreeInv
  <2>2. x \in Live' => pcb'[x].parent = pcb[x].parent
    BY <1>8
  <2>3. CASE q = p
    BY <1>4, <1>6, <2>1, <2>2, <2>3, Zenon
  <2>4. CASE q # p
    <3>1. pcb'[q].children = pcb[q].children
      BY <1>7, <2>4, Zenon
    <3>2. x \in Range(pcb[q].children) => x # c
      BY <1>1, <2>1, <2>4, Zenon
    <3>. QED BY <1>4, <2>1, <2>2, <3>1, <3>2, Zenon
  <2>. QED BY <2>3, <2>4, Zenon
<1>12. \A x \in Live' \ {INITPROC} : pcb'[x].parent \in pid2pcb' \ {x}
  <2>1. \A x \in Live \ {INITPROC} : pcb[x].parent \in pid2pcb \ {x}
    BY DEF TreeInv
  <2>. QED BY <1>4, <1>8, <2>1, Zenon
<1>. QED BY <1>4, <1>5, <1>9, <1>10, <1>11, <1>12, SMTT(30) DEF TreeInv

LEMMA WaitpidStep ==
  ASSUME IInv, NEW t \in Task, NEW pid \in Pid \cup {NONE}, sys_waitpid(t, pid)
  PROVE  IInv'
<1>1. PICK p, i, c : p = tcb[t].process /\ i = FirstChild(p, pid) /\ c = pcb[p].children[i]
  OBVIOUS
<1>2. User(t, p) /\ i # 0 /\ pcb[c].is_zombie
  BY <1>1, Zenon DEF sys_waitpid
<1>3. /\ p \in Pid /\ p \in Live /\ p \in pid2pcb /\ pcb[p] \in ProcessControlBlock
      /\ current = t /\ t \in Threads(p) /\ tcb[t].process = p
  BY <1>2, UserFacts
<1>4. /\ TypeOK /\ TreeInv /\ ThreadInv /\ QueueInv
      /\ pcb \in [Pid -> ProcessControlBlock \cup {NONE}]
      /\ tcb \in [Task -> TaskControlBlock \cup {NONE}]
  BY Zenon DEF IInv, TypeOK
<1>5. i \in DOMAIN pcb[p].children
  <2>1. pcb[p].children \in Seq(Pid)
    BY <1>3, Zenon DEF ProcessControlBlock
  <2>. QED BY <1>1, <1>2, <2>1, FoundChild, Zenon
<1>6. c \in Pid /\ c \in Live /\ c # p /\ c # INITPROC /\ c \notin pid2pcb
  <2>1. c \in Pid /\ c \in Live /\ c # p /\ c # INITPROC
    <3>1. c \in Range(pcb[p].children)
      BY <1>1, <1>5, Zenon DEF Range
    <3>. QED BY <1>3, <1>4, <3>1, ChildFacts, ZenonT(30)
  <2>. QED BY <1>2, <1>4, <2>1, LiveBlocks, Zenon
<1>7. CASE Panic
  BY <1>7, PanicStep, Zenon
<1>8. CASE /\ pcb' = [pcb EXCEPT ![p].children = RemoveAt(@, i), ![c] = NONE]
           /\ tcb' = [u \in Task |-> IF u \in Threads(c) THEN NONE ELSE tcb[u]]
           /\ pid_allocator' = dealloc(pid_allocator, c)
           /\ UNCHANGED <<ready_queue, current, task_status, pid2pcb, sleeping, panicked>>
  <2>1. PICK r, rp : r = pcb[p] /\ rp = [r EXCEPT !.children = RemoveAt(@, i)]
    BY Zenon
  <2>2. /\ rp \in ProcessControlBlock /\ rp.children = RemoveAt(r.children, i)
        /\ rp.parent = r.parent /\ rp.is_zombie = r.is_zombie
        /\ rp.tasks = r.tasks /\ rp.tids = r.tids /\ rp.areas = r.areas
    <3>1. RemoveAt(r.children, i) \in Seq(Pid)
      BY <1>3, <1>5, <2>1, RemoveOne, Zenon DEF ProcessControlBlock
    <3>. QED BY <1>3, <2>1, <3>1, Zenon DEF ProcessControlBlock
  <2>3. pcb' = [pcb EXCEPT ![p] = rp, ![c] = NONE]
    BY <1>8, <2>1
  <2>4. /\ pcb' \in [Pid -> ProcessControlBlock \cup {NONE}]
        /\ pcb'[p] = rp /\ pcb'[c] = NONE
        /\ \A q \in Pid \ {p, c} : pcb'[q] = pcb[q]
    BY <1>3, <1>4, <1>6, <2>2, <2>3, Zenon
  <2>5. /\ pid_allocator' \in Allocator(Pid)
        /\ Live' = Live \ {c}
        /\ TreeInv'
    <3>1. /\ rp.children = RemoveAt(pcb[p].children, i) /\ rp.parent = pcb[p].parent
          /\ rp.is_zombie = pcb[p].is_zombie
      BY <2>1, <2>2, Zenon
    <3>2. pid_allocator' = dealloc(pid_allocator, c) /\ pid2pcb' = pid2pcb
      BY <1>8, Zenon
    <3>3. c = pcb[p].children[i] /\ pcb[c].is_zombie /\ rp \in ProcessControlBlock
      BY <1>1, <1>2, <2>2, Zenon
    <3>. QED BY <1>3, <1>4, <1>5, <2>4, <3>1, <3>2, <3>3, WaitpidTree, SMTT(30)
  <2>6. /\ \A u \in Task : u \in Threads(c) => tcb'[u] = NONE
        /\ \A u \in Task : u \notin Threads(c) => tcb'[u] = tcb[u]
        /\ tcb' \in [Task -> TaskControlBlock \cup {NONE}]
    BY <1>4, <1>8, Zenon
  <2>7. \A u \in Threads(c) : tcb[u] # NONE /\ tcb[u].process = c /\ tcb[u].exited
    <3>1. ZombieOK(c, pcb[c], tcb) /\ pcb[c].tasks \in Seq(Task \cup {NONE})
      BY <1>4, <1>6, LiveBlocks, Zenon DEF ProcessControlBlock
    <3>2. Range(pcb[c].tasks) = {pcb[c].tasks[1]}
      BY <3>1, LenProperties DEF ZombieOK, Range
    <3>. QED BY <3>1, <3>2, Zenon DEF Threads, ZombieOK
  <2>8. ASSUME NEW q \in Live' PROVE SameTable(pcb[q], pcb'[q]) /\ q \in Live /\ q # c
    BY <2>1, <2>2, <2>4, <2>5, Zenon DEF SameTable, Live
  <2>9. ASSUME NEW q \in Live' PROVE BlockOK(q)'
    <3>1. \A u \in Task : tcb[u] # NONE /\ tcb[u].process # c => tcb'[u] = tcb[u]
      BY <2>6, <2>7, Zenon
    <3>. QED BY <2>8, <3>1, OthersKept, Zenon
  <2>10. ASSUME NEW u \in Task PROVE TaskOK(u)'
    <3>1. CASE u \in Threads(c)
      BY <2>6, <3>1, Zenon DEF TaskOK
    <3>2. CASE u \notin Threads(c)
      <4>1. TaskOK(u) /\ tcb'[u] = tcb[u]
        BY <1>4, <2>6, <3>2, Zenon DEF ThreadInv
      <4>2. CASE tcb[u] # NONE /\ tcb[u].process = c
        <5>1. ~tcb[u].res /\ ~JoinsFirst
          BY <1>6, <3>2, <4>1, <4>2, Zenon DEF TaskOK
        <5>. QED BY <4>1, <5>1, Zenon DEF TaskOK
      <4>3. CASE tcb[u] # NONE /\ tcb[u].process # c
        <5>1. \A q \in Live' : Range(pcb'[q].tasks) = Range(pcb[q].tasks)
          BY <2>8, Zenon DEF SameTable
        <5>2. tcb[u].process \in Live => tcb[u].process \in Live'
          BY <2>5, <4>3, Zenon
        <5>3. u \in Threads(tcb[u].process) /\ tcb[u].process \in Live =>
                u \in Range(pcb'[tcb[u].process].tasks)
          BY <5>1, <5>2, Zenon DEF Threads
        <5>. QED BY <1>4, <1>8, <4>1, <5>2, <5>3, TaskKept, ZenonT(30)
      <4>4. CASE tcb[u] = NONE
        BY <4>1, <4>4, Zenon DEF TaskOK
      <4>. QED BY <4>2, <4>3, <4>4, Zenon
    <3>. QED BY <3>1, <3>2, Zenon
  <2>11. ThreadInv'
    BY <2>9, <2>10, Zenon DEF ThreadInv
  <2>12. QueueInv'
    <3>1. \A v \in Task : (tcb'[v] # NONE /\ ~tcb'[v].exited) <=> (tcb[v] # NONE /\ ~tcb[v].exited)
      BY <2>6, <2>7, Zenon
    <3>2. current' \in Task /\ tcb'[current'] = tcb[current]
      <4>1. t \notin Threads(c)
        BY <1>3, <1>6, <2>7, Zenon
      <4>. QED BY <1>3, <1>8, <2>6, <4>1, Zenon
    <3>. QED BY <1>4, <1>8, <3>1, <3>2, Zenon DEF QueueInv
  <2>13. TypeOK'
    BY <1>4, <1>8, <2>4, <2>5, <2>6, ZenonT(30) DEF TypeOK, SchedTypeOK
  <2>. QED BY <2>5, <2>11, <2>12, <2>13, Zenon DEF IInv
<1>. QED BY <1>1, <1>7, <1>8, Zenon DEF sys_waitpid, sched_vars

------------------------------------------------------------------------------
(* The invariant *)

LEMMA InitStep == Init => IInv
<1>1. SUFFICES ASSUME Init PROVE IInv
  OBVIOUS
<1>2. PICK t \in Task :
        /\ ready_queue = <<t>>
        /\ current = NONE
        /\ task_status = [u \in Task |-> "Ready"]
        /\ pid_allocator = [current |-> 1, recycled |-> <<>>]
        /\ pcb = [p \in Pid |-> IF p = INITPROC THEN NewProcess(NONE, t, {0}) ELSE NONE]
        /\ pid2pcb = {INITPROC}
        /\ tcb = [u \in Task |-> IF u = t THEN NewTask(INITPROC, 0) ELSE NONE]
        /\ sleeping = {}
        /\ panicked = FALSE
  BY <1>1, Zenon DEF Init
<1>3. INITPROC \in Pid /\ 0 \in Tid /\ MaxPid \in Nat \ {0}
  BY ProcessAssumption DEF INITPROC, Pid, Tid
<1>4. PICK r : r = NewProcess(NONE, t, {0})
  OBVIOUS
<1>5. /\ r \in ProcessControlBlock
      /\ TableOK(INITPROC, r, tcb)
      /\ r.children = <<>> /\ r.parent = NONE /\ ~r.is_zombie
      /\ Range(r.tasks) = {t}
  <2>1. PICK tc : tc = tcb
    OBVIOUS
  <2>2. tc[t] = NewTask(INITPROC, 0)
    BY <1>2, <2>1, Zenon
  <2>3. /\ r \in ProcessControlBlock
        /\ TableOK(INITPROC, r, tc)
        /\ r.children = <<>> /\ r.parent = NONE /\ ~r.is_zombie
        /\ Range(r.tasks) = {t}
    <3>1. PICK n, p0 : n = NONE /\ p0 = INITPROC
      OBVIOUS
    <3>2. /\ p0 \in Pid /\ n \in Pid \cup {NONE} /\ tc[t] = NewTask(p0, 0)
          /\ r = NewProcess(n, t, {0})
      BY <1>3, <1>4, <2>2, <3>1, Zenon
    <3>3. r \in ProcessControlBlock /\ TableOK(p0, r, tc) /\ ~r.is_zombie
      BY <3>2, NewTable, Zenon
    <3>4. Range(r.tasks) = {t}
      <4>1. r.tasks = <<t>>
        BY <3>2, Zenon DEF NewProcess
      <4>. QED BY <4>1 DEF Range
    <3>5. r.children = <<>> /\ r.parent = n
      BY <3>2, Zenon DEF NewProcess
    <3>. QED BY <3>1, <3>3, <3>4, <3>5, Zenon
  <2>. QED BY <2>1, <2>3
<1>6. /\ pcb[INITPROC] = r /\ r # NONE
      /\ \A q \in Pid : q # INITPROC => pcb[q] = NONE
      /\ Live = {INITPROC}
  BY <1>2, <1>3, <1>4, <1>5, NoneIsNoBlock, Zenon DEF Live
<1>7. /\ NewTask(INITPROC, 0) \in TaskControlBlock /\ NewTask(INITPROC, 0) # NONE
      /\ NewTask(INITPROC, 0).process = INITPROC /\ NewTask(INITPROC, 0).exited = FALSE
  <2>1. NewTask(INITPROC, 0) \in TaskControlBlock
    BY <1>3 DEF NewTask, TaskControlBlock
  <2>. QED BY <2>1, NoneIsNoBlock, Zenon DEF NewTask
<1>8. /\ tcb[t] = NewTask(INITPROC, 0) /\ \A u \in Task : u # t => tcb[u] = NONE
      /\ tcb \in [Task -> TaskControlBlock \cup {NONE}]
  BY <1>2, <1>7, Zenon
<1>9. /\ pid_allocator \in Allocator(Pid) /\ AllocatorOK(pid_allocator, MaxPid)
      /\ InUse(pid_allocator) = {INITPROC}
  BY <1>2, <1>3, FirstAlloc, Zenon DEF Pid, INITPROC
<1>10. TypeOK
  <2>1. SchedTypeOK
    BY <1>2 DEF SchedTypeOK, TaskStatus
  <2>2. pcb \in [Pid -> ProcessControlBlock \cup {NONE}]
    BY <1>2, <1>4, <1>5, Zenon
  <2>. QED BY <1>2, <1>3, <1>8, <1>9, <2>1, <2>2, ZenonT(30) DEF TypeOK
<1>11. TreeInv
  <2>1. pid2pcb = {p \in Live : ~pcb[p].is_zombie}
    BY <1>2, <1>5, <1>6, Zenon
  <2>2. \A q \in Live, p \in Pid :
          p \in Range(pcb[q].children) <=> p \in Live /\ p # INITPROC /\ pcb[p].parent = q
    BY <1>5, <1>6, EmptyRange, Zenon
  <2>3. \A q \in Live : IsInjective(pcb[q].children) /\ ~pcb[q].is_zombie
    BY <1>5, <1>6, EmptyRange, Zenon
  <2>. QED BY <1>2, <1>6, <1>9, <2>1, <2>2, <2>3, Zenon DEF TreeInv
<1>12. ThreadInv
  <2>1. \A p \in Live : BlockOK(p)
    BY <1>5, <1>6, Zenon DEF BlockOK
  <2>2. ASSUME NEW u \in Task PROVE TaskOK(u)
    <3>1. CASE u = t
      <4>1. u \in Threads(INITPROC)
        BY <1>5, <1>6, <3>1, NoneAssumption, Zenon DEF Threads
      <4>. QED BY <1>2, <1>6, <1>7, <1>8, <3>1, <4>1, Zenon DEF TaskOK
    <3>2. CASE u # t
      BY <1>8, <3>2, Zenon DEF TaskOK
    <3>. QED BY <3>1, <3>2, Zenon
  <2>. QED BY <2>1, <2>2, Zenon DEF ThreadInv
<1>13. QueueInv
  <2>1. Range(ready_queue) = {t} /\ IsInjective(ready_queue)
    BY <1>2 DEF Range, IsInjective
  <2>. QED BY <1>2, <1>7, <1>8, <2>1, NoneAssumption, Zenon DEF QueueInv
<1>. QED BY <1>10, <1>11, <1>12, <1>13, Zenon DEF IInv

LEMMA NextStep == IInv /\ [Next]_vars => IInv'
<1>1. SUFFICES ASSUME IInv, [Next]_vars PROVE IInv'
  OBVIOUS
<1>2. CASE UNCHANGED vars
  BY <1>1, <1>2, ZenonT(30) DEF vars, sched_vars, proc_vars, IInv, TypeOK, SchedTypeOK, TreeInv,
     ThreadInv, QueueInv, BlockOK, TaskOK, Live, Threads
<1>3. CASE Next
  <2>1. PICK t \in Task :
          \/ RunTask(t) \/ sys_yield(t) \/ sys_sleep(t) \/ check_timer(t) \/ sys_read(t)
          \/ CallAgain(t) \/ CallReturns(t) \/ sys_fork(t) \/ sys_exec(t) \/ exit_main(t)
          \/ \E pid \in Pid \cup {NONE} : sys_waitpid(t, pid)
          \/ sys_thread_create(t) \/ exit_thread(t)
          \/ \E i \in Tid : sys_waittid(t, i)
    BY <1>3, Zenon DEF Next
  <2>. QED
    BY <1>1, <2>1, RunTaskStep, YieldStep, SleepStep, TimerStep, ReadStep, CallReturnsStep,
       ForkStep, ExecStep, ExitMainStep, WaitpidStep, ThreadCreateStep, ExitThreadStep, WaittidStep
<1>. QED BY <1>1, <1>2, <1>3, Zenon

LEMMA AlwaysIInv == Spec => []IInv
  BY InitStep, NextStep, PTL DEF Spec

------------------------------------------------------------------------------
(* What the invariant says *)

(* A list without repetitions has an element once or not at all. *)
LEMMA CountEntry ==
  ASSUME NEW S, NEW s \in Seq(S), IsInjective(s), NEW x
  PROVE  Cardinality(Occurrences(s, x)) = IF x \in Range(s) THEN 1 ELSE 0
<1>1. CASE x \in Range(s)
  <2>1. PICK i \in DOMAIN s : s[i] = x
    BY <1>1, Zenon DEF Range
  <2>2. Occurrences(s, x) = {i}
    BY <2>1 DEF Occurrences, IsInjective
  <2>. QED BY <1>1, <2>2, FS_Singleton, Zenon
<1>2. CASE x \notin Range(s)
  <2>1. Occurrences(s, x) = {}
    BY <1>2 DEF Occurrences, Range
  <2>. QED BY <1>2, <2>1, FS_EmptySet, Zenon
<1>. QED BY <1>1, <1>2, Zenon

(* One element is in a set once or not at all. *)
LEMMA CountOne ==
  ASSUME NEW S, NEW x
  PROVE  Cardinality({x} \cap S) = IF x \in S THEN 1 ELSE 0
<1>1. CASE x \in S
  <2>1. {x} \cap S = {x}
    BY <1>1
  <2>. QED BY <1>1, <2>1, FS_Singleton, Zenon
<1>2. CASE x \notin S
  <2>1. {x} \cap S = {}
    BY <1>2
  <2>. QED BY <1>2, <2>1, FS_EmptySet, Zenon
<1>. QED BY <1>1, <1>2, Zenon

(* The processes form a tree below initproc, pids are out while a block      *)
(* carries them and the map has the processes that have not ended: fork,     *)
(* exit with its reparenting and waitpid keep lists, fields, allocator and   *)
(* map in step, whatever the programs do.                                    *)
THEOREM ProcessesFormTree == Spec => []ProcessTree
<1>1. ASSUME IInv PROVE ProcessTree
  <2>1. TypeOK /\ TreeInv
    BY <1>1, Zenon DEF IInv
  <2>2. InUse(pid_allocator) = Live /\ pid2pcb = {p \in Live : ~pcb[p].is_zombie}
    BY <2>1, Zenon DEF TreeInv
  <2>3. ASSUME NEW p \in Live \ {INITPROC}
        PROVE  pcb[p].parent \in Live /\ ~pcb[pcb[p].parent].is_zombie
    BY <2>1, <2>2, <2>3, Zenon DEF TreeInv
  <2>4. ASSUME NEW p \in Live \ {INITPROC}, NEW q \in Live
        PROVE  Cardinality(Occurrences(pcb[q].children, p)) =
                 IF q = pcb[p].parent THEN 1 ELSE 0
    <3>1. pcb[q].children \in Seq(Pid) /\ IsInjective(pcb[q].children) /\ p \in Pid
      BY <2>1 DEF TypeOK, TreeInv, Live, ProcessControlBlock
    <3>2. p \in Range(pcb[q].children) <=> pcb[p].parent = q
      BY <2>1, <3>1, Zenon DEF TreeInv
    <3>3. Cardinality(Occurrences(pcb[q].children, p)) =
            IF p \in Range(pcb[q].children) THEN 1 ELSE 0
      BY <3>1, CountEntry, Zenon
    <3>. QED BY <3>2, <3>3, Zenon
  <2>. QED BY <2>1, <2>2, <2>3, <2>4, Zenon DEF ProcessTree
<1>. QED BY <1>1, AlwaysIInv, PTL

(* Programs that join their threads before they exit: a task that has not    *)
(* ended has its TaskUserRes, in the table of a process that has not ended.  *)
LEMMA RunningThread ==
  ASSUME IInv, JoinsFirst, NEW t \in Task, tcb[t] # NONE, ~tcb[t].exited
  PROVE  tcb[t].process \in pid2pcb /\ t \in Threads(tcb[t].process) /\ tcb[t].res
<1>1. PICK p : p = tcb[t].process
  OBVIOUS
<1>2. p \in Live /\ t \in Threads(p)
  BY <1>1, Zenon DEF IInv, ThreadInv, TaskOK
<1>3. p \in pid2pcb
  <2>1. SUFFICES ASSUME p \notin pid2pcb PROVE FALSE
    OBVIOUS
  <2>2. ZombieOK(p, pcb[p], tcb) /\ pcb[p].tasks \in Seq(Task \cup {NONE})
    BY <1>2, <2>1, LiveBlocks, Zenon DEF IInv, ProcessControlBlock
  <2>3. Range(pcb[p].tasks) = {pcb[p].tasks[1]}
    BY <2>2, LenProperties DEF ZombieOK, Range
  <2>. QED BY <1>2, <2>2, <2>3, Zenon DEF Threads, ZombieOK
<1>4. tcb[t].res
  <2>1. PICK r, tc : r = pcb[p] /\ tc = tcb
    OBVIOUS
  <2>2. r \in ProcessControlBlock /\ TableOK(p, r, tc)
    BY <1>2, <1>3, <2>1, LiveBlocks, Zenon DEF IInv
  <2>3. t \in Range(r.tasks) \ {NONE}
    BY <1>2, <2>1, Zenon DEF Threads
  <2>4. (tc[t].res <=> tc[t].tid \in r.areas) /\ (tc[t].exited <=> tc[t].tid \notin r.areas)
    BY <2>2, <2>3, ThreadOf, Zenon
  <2>. QED BY <2>1, <2>4, Zenon
<1>. QED BY <1>1, <1>2, <1>3, <1>4, Zenon

(* For programs whose main thread exits after the other threads: a task is   *)
(* in one of the ready queue, the processor and TIMERS exactly until it      *)
(* ends, and the thread ids, the entries, the stacks and the flags of a      *)
(* process agree.                                                            *)
THEOREM ThreadsPlaced ==
  ASSUME JoinsFirst
  PROVE  Spec => []ThreadTable
<1>1. ASSUME IInv PROVE TasksPlaced
  <2>1. SUFFICES ASSUME NEW t \in Task
                 PROVE  Cardinality(Occurrences(ready_queue, t))
                          + Cardinality({t} \cap {current}) + Cardinality({t} \cap sleeping) =
                        IF tcb[t] # NONE /\ ~tcb[t].exited
                           /\ tcb[t].process \in pid2pcb /\ t \in Threads(tcb[t].process)
                        THEN 1 ELSE 0
    BY Zenon DEF TasksPlaced
  <2>2. /\ Cardinality(Occurrences(ready_queue, t)) = IF t \in Range(ready_queue) THEN 1 ELSE 0
        /\ Cardinality({t} \cap {current}) = IF t \in {current} THEN 1 ELSE 0
        /\ Cardinality({t} \cap sleeping) = IF t \in sleeping THEN 1 ELSE 0
    BY <1>1, CountEntry, CountOne, ZenonT(30) DEF IInv, TypeOK, SchedTypeOK, QueueInv
  <2>3. /\ ~(t \in Range(ready_queue) /\ t \in sleeping)
        /\ t \in {current} => t \notin Range(ready_queue) /\ t \notin sleeping
        /\ (t \in Range(ready_queue) \/ t \in {current} \/ t \in sleeping) <=>
             (tcb[t] # NONE /\ ~tcb[t].exited)
    BY <1>1 DEF IInv, QueueInv
  <2>4. tcb[t] # NONE /\ ~tcb[t].exited =>
          tcb[t].process \in pid2pcb /\ t \in Threads(tcb[t].process)
    BY <1>1, RunningThread, Zenon
  <2>. QED BY <2>2, <2>3, <2>4
<1>2. ASSUME IInv, NEW p \in Live, ~pcb[p].is_zombie
      PROVE  /\ InUse(pcb[p].tids) = {i \in Tid : i + 1 \in DOMAIN pcb[p].tasks
                                                  /\ pcb[p].tasks[i + 1] # NONE}
             /\ \A i \in InUse(pcb[p].tids) :
                  LET t == pcb[p].tasks[i + 1] IN
                  /\ tcb[t].process = p /\ tcb[t].tid = i
                  /\ tcb[t].res = (i \in pcb[p].areas)
                  /\ tcb[t].exited = (i \notin pcb[p].areas)
  <2>1. /\ TableOK(p, pcb[p], tcb) /\ pcb[p] \in ProcessControlBlock
        /\ tcb \in [Task -> TaskControlBlock \cup {NONE}]
    BY <1>2, LiveBlocks, Zenon DEF IInv, TypeOK
  <2>2. ASSUME NEW i \in InUse(pcb[p].tids)
        PROVE  LET t == pcb[p].tasks[i + 1] IN
               /\ tcb[t].process = p /\ tcb[t].tid = i
               /\ tcb[t].res = (i \in pcb[p].areas)
               /\ tcb[t].exited = (i \notin pcb[p].areas)
    <3>1. PICK t, b : t = pcb[p].tasks[i + 1] /\ b = tcb[t]
      OBVIOUS
    <3>2. /\ b # NONE /\ b.process = p /\ b.tid = i
          /\ (b.res <=> i \in pcb[p].areas) /\ (b.exited <=> i \notin pcb[p].areas)
      BY <2>1, <3>1, Zenon DEF TableOK
    <3>3. t \in Task
      <4>1. /\ i + 1 \in DOMAIN pcb[p].tasks /\ t # NONE
            /\ pcb[p].tasks \in Seq(Task \cup {NONE})
        BY <2>1, <3>1, Zenon DEF TableOK, ProcessControlBlock
      <4>. QED BY <3>1, <4>1, ElementOfSeq, LenProperties, SMTT(30)
    <3>4. b.res \in BOOLEAN /\ b.exited \in BOOLEAN
      BY <2>1, <3>1, <3>2, <3>3, Zenon DEF TaskControlBlock
    <3>5. b.res = (i \in pcb[p].areas) /\ b.exited = (i \notin pcb[p].areas)
      <4>1. CASE i \in pcb[p].areas
        <5>1. b.res = TRUE /\ b.exited = FALSE
          BY <3>2, <3>4, <4>1, Zenon
        <5>. QED BY <4>1, <5>1, Zenon
      <4>2. CASE i \notin pcb[p].areas
        <5>1. b.res = FALSE /\ b.exited = TRUE
          BY <3>2, <3>4, <4>2, Zenon
        <5>2. (i \in pcb[p].areas) = FALSE /\ (i \notin pcb[p].areas) = TRUE
          BY <4>2, SMTT(30)
        <5>. QED BY <5>1, <5>2, Zenon
      <4>. QED BY <4>1, <4>2, Zenon
    <3>. QED BY <3>1, <3>2, <3>5, Zenon
  <2>3. InUse(pcb[p].tids) = {i \in Tid : i + 1 \in DOMAIN pcb[p].tasks
                                          /\ pcb[p].tasks[i + 1] # NONE}
    BY <2>1 DEF TableOK
  <2>. QED BY <2>2, <2>3, Zenon
<1>3. IInv => ThreadTable
  BY <1>1, <1>2, Zenon DEF ThreadTable
<1>. QED BY <1>3, AlwaysIInv, PTL

(* A list of children is no longer than there are pids. *)
LEMMA ChildrenFit ==
  ASSUME NEW s \in Seq(Pid), IsInjective(s)
  PROVE  Len(s) <= MaxPid
<1>1. Len(s) \in Nat /\ DOMAIN s = 1..Len(s) /\ MaxPid \in Nat \ {0}
  BY LenProperties, ProcessAssumption, Zenon
<1>2. s \in [1..Len(s) -> Pid]
  BY <1>1, LenProperties, Zenon
<1>3. /\ IsFiniteSet(1..Len(s)) /\ Cardinality(1..Len(s)) = Len(s)
      /\ IsFiniteSet(Pid) /\ Cardinality(Pid) = MaxPid
  <2>1. IsFiniteSet(1..Len(s)) /\ Cardinality(1..Len(s)) = IF 1 > Len(s) THEN 0 ELSE Len(s) - 1 + 1
    BY <1>1, FS_Interval
  <2>2. /\ IsFiniteSet(0..(MaxPid - 1))
        /\ Cardinality(0..(MaxPid - 1)) = IF 0 > MaxPid - 1 THEN 0 ELSE (MaxPid - 1) - 0 + 1
    BY <1>1, FS_Interval
  <2>. QED BY <1>1, <2>1, <2>2 DEF Pid
<1>4. SUFFICES ASSUME MaxPid < Len(s) PROVE FALSE
  BY <1>1
<1>5. \E x, y \in 1..Len(s) : x # y /\ s[x] = s[y]
  <2>1. Cardinality(Pid) < Cardinality(1..Len(s))
    BY <1>3, <1>4, Zenon
  <2>. QED BY <1>2, <1>3, <2>1, FS_PigeonHole, Zenon
<1>. QED BY <1>1, <1>5, Zenon DEF IsInjective

(* Programs that join their threads before they exit: the list of its parent *)
(* is all that holds a process that ended.                                   *)
LEMMA ZombieCount ==
  ASSUME IInv, JoinsFirst, NEW p \in Live, pcb[p].is_zombie
  PROVE  StrongCount(p) = 1
<1>1. /\ TypeOK /\ TreeInv /\ ThreadInv /\ p \in Pid
      /\ p \notin pid2pcb /\ p # INITPROC
  BY DEF IInv, TreeInv, Live
<1>2. Cardinality({p} \cap pid2pcb) = 0
  BY <1>1, CountOne, Zenon
<1>3. PICK E : E = {e \in Live \X (1..MaxPid) : /\ e[2] \in DOMAIN pcb[e[1]].children
                                                /\ pcb[e[1]].children[e[2]] = p}
  BY Zenon
<1>4. Cardinality(E) = 1
  <2>1. PICK q : q = pcb[p].parent
    BY Zenon
  <2>2. q \in pid2pcb /\ q \in Live
    BY <1>1, <2>1, Zenon DEF TreeInv
  <2>3. \A x \in Live : /\ p \in Range(pcb[x].children) <=> x = q
                        /\ pcb[x].children \in Seq(Pid) /\ IsInjective(pcb[x].children)
    BY <1>1, <2>1, SMTT(30) DEF TypeOK, TreeInv, Live, ProcessControlBlock
  <2>4. PICK k \in DOMAIN pcb[q].children : pcb[q].children[k] = p
    BY <2>2, <2>3, Zenon DEF Range
  <2>5. k \in 1..MaxPid
    <3>1. Len(pcb[q].children) <= MaxPid
      BY <2>2, <2>3, ChildrenFit, Zenon
    <3>2. k \in 1..Len(pcb[q].children) /\ Len(pcb[q].children) \in Nat
      BY <2>2, <2>3, LenProperties, Zenon
    <3>. QED BY <3>1, <3>2, ProcessAssumption
  <2>6. <<q, k>> \in E
    BY <1>3, <2>2, <2>4, <2>5, Zenon
  <2>7. ASSUME NEW e \in E PROVE e = <<q, k>>
    <3>1. PICK x \in Live, j \in 1..MaxPid : e = <<x, j>>
      BY <1>3, <2>7
    <3>2. j \in DOMAIN pcb[x].children /\ pcb[x].children[j] = p
      BY <1>3, <2>7, <3>1, Zenon
    <3>3. x = q
      BY <2>3, <3>2, Zenon DEF Range
    <3>4. j = k
      BY <2>2, <2>3, <2>4, <3>2, <3>3, Zenon DEF IsInjective
    <3>. QED BY <3>1, <3>3, <3>4, Zenon
  <2>8. E = {<<q, k>>}
    BY <2>6, <2>7, Zenon
  <2>. QED BY <2>8, FS_Singleton, Zenon
<1>5. PICK W : W = {t \in Task : tcb[t] # NONE /\ tcb[t].process = p /\ tcb[t].in_call}
  BY Zenon
<1>6. W = {}
  <2>1. SUFFICES ASSUME NEW t \in Task, tcb[t] # NONE, tcb[t].process = p, tcb[t].in_call
                 PROVE  FALSE
    BY <1>5, Zenon
  <2>2. TaskOK(t)
    BY <1>1, Zenon DEF ThreadInv
  <2>3. ~tcb[t].exited
    BY <2>1, <2>2, Zenon DEF TaskOK
  <2>. QED BY <1>1, <2>1, <2>3, RunningThread, Zenon
<1>7. StrongCount(p) = Cardinality({p} \cap pid2pcb) + Cardinality(E) + Cardinality(W)
  BY <1>3, <1>5, Zenon DEF StrongCount
<1>8. Cardinality(W) = 0
  BY <1>6, FS_EmptySet, Zenon
<1>9. StrongCount(p) = 0 + 1 + 0
  BY <1>2, <1>4, <1>7, <1>8, Zenon
<1>10. 0 + 1 + 0 = 1
  OBVIOUS
<1>. QED BY <1>9, <1>10, Zenon

(* For programs whose main thread exits after the other threads: the         *)
(* reference count that sys_waitpid asserts is 1 for every process that has  *)
(* ended, however many children there are and whoever adopted it.            *)
THEOREM WaitpidNeverAsserts ==
  ASSUME JoinsFirst
  PROVE  Spec => []WaitpidAssert
<1>1. IInv => WaitpidAssert
  BY ZombieCount DEF WaitpidAssert
<1>. QED BY <1>1, AlwaysIInv, PTL

(* A step that does not panic, for programs that join their threads before   *)
(* they exit and that fork or exec only before they make threads.            *)
LEMMA PanicFree ==
  ASSUME IInv, JoinsFirst, ~ForksAfterThreads, NoPanic, [Next]_vars
  PROVE  NoPanic'
<1>1. TypeOK /\ TreeInv /\ ThreadInv /\ QueueInv /\ panicked = FALSE
  BY DEF IInv, TypeOK, NoPanic
<1>2. ASSUME NEW t \in Task, RunTask(t) PROVE NoPanic'
  <2>1. t = Head(ready_queue) /\ ready_queue # <<>> /\ ready_queue \in Seq(Task)
    BY <1>1, <1>2, Zenon DEF RunTask, run_task, TypeOK, SchedTypeOK
  <2>2. t \in Range(ready_queue)
    BY <2>1, PopFront, Zenon
  <2>3. tcb[t] # NONE /\ ~tcb[t].exited
    BY <1>1, <2>2, Zenon DEF QueueInv
  <2>4. tcb[t].res
    BY <2>3, RunningThread, Zenon
  <2>. QED BY <1>2, <2>4, Zenon DEF RunTask, NoPanic
<1>3. ASSUME NEW t \in Task, CallReturns(t) PROVE NoPanic'
  <2>1. tcb[t] # NONE /\ ~tcb[t].exited
    BY <1>1, <1>3, Zenon DEF CallReturns, QueueInv
  <2>2. tcb[t].res
    BY <2>1, RunningThread
  <2>. QED BY <1>3, <2>2, Zenon DEF CallReturns, NoPanic
<1>4. ASSUME NEW t \in Task, sys_fork(t) \/ sys_exec(t) PROVE NoPanic'
  <2>1. Len(pcb[tcb[t].process].tasks) = 1
    BY <1>4, Zenon DEF sys_fork, sys_exec, MayFork
  <2>2. panicked' = panicked
    BY <1>4, <2>1, Zenon DEF sys_fork, sys_exec
  <2>. QED BY <1>1, <2>2, Zenon DEF NoPanic
<1>5. ASSUME NEW t \in Task, exit_main(t) PROVE NoPanic'
  <2>1. tcb[t].process \in pid2pcb
    BY <1>5, UserFacts, Zenon DEF exit_main
  <2>2. panicked' = panicked
    BY <1>5, <2>1, Zenon DEF exit_main
  <2>. QED BY <1>1, <2>2, Zenon DEF NoPanic
<1>6. ASSUME NEW t \in Task, NEW pid \in Pid \cup {NONE}, sys_waitpid(t, pid) PROVE NoPanic'
  <2>1. PICK p, i, c : p = tcb[t].process /\ i = FirstChild(p, pid) /\ c = pcb[p].children[i]
    OBVIOUS
  <2>2. User(t, p) /\ i # 0 /\ pcb[c].is_zombie
    BY <1>6, <2>1, ZenonT(30) DEF sys_waitpid
  <2>3. p \in pid2pcb /\ pcb[p].children \in Seq(Pid)
    BY <2>2, UserFacts, Zenon DEF ProcessControlBlock
  <2>4. i \in DOMAIN pcb[p].children
    BY <2>1, <2>2, <2>3, FoundChild, Zenon
  <2>5. c \in Live
    <3>1. c \in Range(pcb[p].children)
      BY <2>1, <2>4, Zenon DEF Range
    <3>. QED BY <1>1, <2>3, <3>1, ChildFacts, ZenonT(30)
  <2>6. StrongCount(c) = 1
    BY <2>2, <2>5, ZombieCount, Zenon
  <2>7. dealloc_assert(pid_allocator, c)
    <3>1. c \in InUse(pid_allocator) /\ AllocatorOK(pid_allocator, MaxPid)
      BY <1>1, <2>5, Zenon DEF TreeInv
    <3>2. MaxPid \in Nat /\ pid_allocator \in Allocator(0..(MaxPid - 1))
      BY <1>1, ProcessAssumption, Zenon DEF Pid, TypeOK
    <3>. QED BY <3>1, <3>2, DeallocStep, Zenon
  <2>8. panicked' = panicked
    BY <1>6, <2>1, <2>6, <2>7, ZenonT(30) DEF sys_waitpid
  <2>. QED BY <1>1, <2>8, Zenon DEF NoPanic
<1>7. ASSUME NEW t \in Task, sys_thread_create(t) PROVE NoPanic'
  <2>1. PICK p, i : p = tcb[t].process /\ i = Allocated(pcb[p].tids)
    BY Zenon
  <2>2. User(t, p) /\ i < MaxTid
    BY <1>7, <2>1, Zenon DEF sys_thread_create
  <2>3. TableOK(p, pcb[p], tcb) /\ pcb[p] \in ProcessControlBlock
    BY <2>2, UserFacts, Zenon
  <2>4. /\ AllocatorOK(pcb[p].tids, MaxTid) /\ pcb[p].tids \in Allocator(0..(MaxTid - 1))
        /\ MaxTid \in Nat /\ pcb[p].areas \subseteq InUse(pcb[p].tids)
    BY <2>3, ProcessAssumption, Zenon DEF TableOK, ProcessControlBlock, Tid
  <2>5. i \notin pcb[p].areas
    BY <2>1, <2>2, <2>4, AllocStep, Zenon
  <2>6. panicked' = panicked
    BY <1>7, <2>1, <2>5, Zenon DEF sys_thread_create
  <2>. QED BY <1>1, <2>6 DEF NoPanic
<1>8. ASSUME NEW t \in Task, NEW i \in Tid, sys_waittid(t, i) PROVE NoPanic'
  <2>1. PICK p : p = tcb[t].process
    BY Zenon
  <2>2. User(t, p) /\ i + 1 \in DOMAIN pcb[p].tasks /\ pcb[p].tasks[i + 1] # NONE
    BY <1>8, <2>1, Zenon DEF sys_waittid
  <2>3. TableOK(p, pcb[p], tcb) /\ pcb[p] \in ProcessControlBlock
    BY <2>2, UserFacts, Zenon
  <2>4. /\ AllocatorOK(pcb[p].tids, MaxTid) /\ pcb[p].tids \in Allocator(0..(MaxTid - 1))
        /\ MaxTid \in Nat /\ i \in InUse(pcb[p].tids)
    BY <2>2, <2>3, ProcessAssumption, Zenon DEF TableOK, ProcessControlBlock, Tid
  <2>5. dealloc_assert(pcb[p].tids, i)
    BY <2>4, DeallocStep, Zenon
  <2>6. panicked' = panicked
    BY <1>8, <2>1, <2>5, ZenonT(30) DEF sys_waittid
  <2>. QED BY <1>1, <2>6 DEF NoPanic
<1>9. ASSUME NEW t \in Task,
             sys_yield(t) \/ sys_sleep(t) \/ check_timer(t) \/ sys_read(t) \/ CallAgain(t)
             \/ exit_thread(t)
      PROVE  NoPanic'
  BY <1>1, <1>9, Zenon DEF NoPanic, sys_yield, sys_sleep, check_timer, sys_read, CallAgain, exit_thread,
     proc_vars
<1>10. CASE UNCHANGED vars
  BY <1>1, <1>10, Zenon DEF NoPanic, vars, proc_vars
<1>11. CASE Next
  <2>1. PICK t \in Task :
          \/ RunTask(t) \/ sys_yield(t) \/ sys_sleep(t) \/ check_timer(t) \/ sys_read(t)
          \/ CallAgain(t) \/ CallReturns(t) \/ sys_fork(t) \/ sys_exec(t) \/ exit_main(t)
          \/ \E pid \in Pid \cup {NONE} : sys_waitpid(t, pid)
          \/ sys_thread_create(t) \/ exit_thread(t)
          \/ \E i \in Tid : sys_waittid(t, i)
    BY <1>11, Zenon DEF Next
  <2>. QED BY <2>1, <1>2, <1>3, <1>4, <1>5, <1>6, <1>7, <1>8, <1>9, Zenon
<1>. QED BY <1>10, <1>11, Zenon

(* For programs that join their threads before they exit, and fork or exec   *)
(* only before they make threads: the asserts of fork, exec, waitpid, the    *)
(* page table and the RecycleAllocators hold, and trap_return finds its      *)
(* trap context.                                                             *)
THEOREM KernelNeverPanics ==
  ASSUME JoinsFirst, ~ForksAfterThreads
  PROVE  Spec => []NoPanic
<1>1. Init => NoPanic
  BY DEF Init, NoPanic
<1>2. IInv /\ NoPanic /\ [Next]_vars => NoPanic'
  BY PanicFree, Zenon
<1>. QED BY <1>1, <1>2, AlwaysIInv, PTL DEF Spec

------------------------------------------------------------------------------
(* The comment in sys_waittid on recycling thread ids too early: the entry   *)
(* of a thread is emptied only after the thread ended, by another thread of  *)
(* its process, and never goes to another thread in one step, whatever the   *)
(* programs do.                                                              *)
THEOREM TidsKept == Spec => TidKeptUntilWait
<1>. DEFINE Kept ==
       \A p \in Live : \A k \in DOMAIN pcb[p].tasks :
         pcb[p].tasks[k] # NONE /\ pcb'[p] # NONE /\ ~pcb'[p].is_zombie =>
           \/ pcb'[p].tasks[k] = pcb[p].tasks[k]
           \/ /\ pcb'[p].tasks[k] = NONE
              /\ tcb[pcb[p].tasks[k]].exited
              /\ current \in Threads(p) \ {pcb[p].tasks[k]}
<1>1. IInv /\ [Next]_vars => [Kept]_vars
  <2>1. ASSUME IInv, Next PROVE Kept
    BY <2>1, EntryKept, Zenon DEF EntryStep
  <2>. QED BY <2>1
<1>2. Spec => [][Kept]_vars
  BY <1>1, AlwaysIInv, PTL DEF Spec
<1>. QED BY <1>2, Zenon DEF TidKeptUntilWait
==============================================================================
