----------------------------- MODULE AddressSpace -----------------------------
(* The memory of user processes: physical frames and their allocator, page    *)
(* tables, the areas of a MemorySet, and the mappings made by mmap, filled on *)
(* demand by page faults, copied by fork, dropped by exec and exit.           *)
(* A system call or page fault holds the process from start to end, so each   *)
(* is one step. A page holds one value; one file is mapped, page by page.     *)
(* Which free frame is handed out is left open (the contents are cleared      *)
(* first): it is the lowest one.                                              *)
EXTENDS Naturals, Sequences, FiniteSets, TLC, Functions

CONSTANTS
  Pid,         \* process slots
  FIRST,       \* the slot of the process that is there at the start
  Frames,      \* how many frames there are
  Fanout,      \* entries per page table page (512 in Sv39)
  Elf, Ustack, \* the pages of the program and of the user stack
  TrapCx, Trampoline,
  MmapBase, MaxVpn,  \* bound: mmap uses the pages MmapBase..MaxVpn
  FilePages,   \* the length of the mapped file
  MaxOps       \* bound: how many steps are taken

ASSUME AddressSpaceAssumption ==
  /\ FIRST \in Pid /\ Frames \in Nat /\ Fanout \in Nat \ {0} /\ MaxOps \in Nat
  /\ MmapBase \in Nat /\ MaxVpn \in Nat /\ FilePages \in Nat
  /\ Elf \subseteq Nat /\ Ustack \subseteq Nat /\ TrapCx \in Nat /\ Trampoline \in Nat

VARIABLES
  alloc,  \* StackFrameAllocator: current, and the set of recycled frames
  val,    \* what each frame in use holds
  proc,   \* the processes
  file,   \* what each page of the file holds
  panic,  \* "no", or why the kernel stopped
  stale,  \* per process, the pages unmapped while an area or a file mapping
          \* still lists them
  ops

vars == <<alloc, val, proc, file, panic, stale, ops>>

Vpn == 0..(IF Trampoline > MaxVpn THEN Trampoline ELSE MaxVpn)
Offset == 0..(FilePages - 1)
KERNEL == Frames  \* the page of the trampoline code, not a frame of ours
(* A page table page is named by a number past the page numbers: the root,    *)
(* then one per prefix of one index and of two.                               *)
Root == 1000
Nodes(V) == {Root + 100 + v \div (Fanout * Fanout) : v \in V}
            \cup {Root + 200 + v \div Fanout : v \in V}

NoMapping == [on |-> FALSE, ranges |-> <<>>, map |-> <<>>, pt |-> "own"]
NoProc == [st |-> "none", nodes |-> <<>>, pte |-> <<>>, areas |-> <<>>,
           mm |-> <<>>, next |-> MmapBase, fm |-> NoMapping]
-----------------------------------------------------------------------------
(* The operations below work on the whole memory m. *)
Mem == [alloc |-> alloc, val |-> val, proc |-> proc, file |-> file, panic |-> "no"]
Fail(m, why) == IF m.panic = "no" THEN [m EXCEPT !.panic = why] ELSE m

(* StackFrameAllocator::alloc, once per member of keys: recycled frames first *)
Rank(x, S) == Cardinality({y \in S : y < x})
Lowest(S, n) == {x \in S : Rank(x, S) < n}
CanTake(m, n) == n <= Cardinality(m.alloc.recycled) + (Frames - m.alloc.current)
TakenFrames(m, n) ==
  LET r == Cardinality(m.alloc.recycled) IN
  IF n <= r THEN Lowest(m.alloc.recycled, n)
  ELSE m.alloc.recycled \cup (m.alloc.current..(m.alloc.current + n - r - 1))
Take(m, keys) ==
  LET S == TakenFrames(m, Cardinality(keys))
  IN [k \in keys |-> CHOOSE f \in S : Rank(f, S) = Rank(k, keys)]
(* ... and FrameTracker::new clears each. *)
Taking(m, S) ==
  [m EXCEPT !.alloc.current = IF S \subseteq 0..(@ - 1) THEN @
                              ELSE 1 + CHOOSE f \in S : \A g \in S : g <= f,
            !.alloc.recycled = @ \ S,
            !.val = [f \in S |-> 0] @@ @]

(* Drop of FrameTrackers: StackFrameAllocator::dealloc with its check. *)
Dropping(m, S) ==
  IF S \cap m.alloc.recycled # {} \/ \E f \in S : f >= m.alloc.current
  THEN Fail(m, "frame has not been allocated")
  ELSE [m EXCEPT !.alloc.recycled = @ \cup S,
                 !.val = [f \in DOMAIN @ \ S |-> @[f]]]

(* PageTable::find_pte: None unless the tables on the way are there; the      *)
(* entry it finds may be invalid.                                             *)
HasTable(pr, v) == Nodes({v}) \subseteq DOMAIN pr.nodes
Valid(pr, v) == v \in DOMAIN pr.pte
Missing(pr, V) == Nodes(V) \ DOMAIN pr.nodes

(* PageTable::map of the pages of V to frames g, tables made where missing.   *)
Entered(m, p, V, g, t, user) ==
  [m EXCEPT !.proc[p].nodes = [k \in DOMAIN t |-> t[k]] @@ @,
            !.proc[p].pte =
              [v \in V |-> [ppn |-> g[v], dirty |-> FALSE, user |-> user]] @@ @]

(* MemorySet::push of a framed area: MapArea::map allocates a frame per page. *)
PushArea(m, p, V) ==
  LET keys == V \cup Missing(m.proc[p], V)
      t    == Take(m, keys)
      m1   == Entered(Taking(m, Range(t)), p, V, t, [k \in keys \ V |-> t[k]], TRUE)
  IN IF m.panic # "no" THEN m
     ELSE IF \E v \in V : Valid(m.proc[p], v) THEN Fail(m, "mapped before mapping")
     ELSE IF ~CanTake(m, Cardinality(keys)) THEN Fail(m, "no frame")
     ELSE [m1 EXCEPT !.proc[p].areas = Append(@, [v \in V |-> t[v]])]

(* MemorySet::map of one page to a frame that someone else owns. *)
MapPage(m, p, v, f, user) ==
  LET keys == Missing(m.proc[p], {v})
      t    == Take(m, keys)
  IN IF m.panic # "no" THEN m
     ELSE IF Valid(m.proc[p], v) THEN Fail(m, "mapped before mapping")
     ELSE IF ~CanTake(m, Cardinality(keys)) THEN Fail(m, "no frame")
     ELSE Entered(Taking(m, Range(t)), p, {v}, [x \in {v} |-> f], t, user)

(* PageTable::unmap of the pages of V, its unwrap and its assertion. *)
UnmapPages(m, p, V) ==
  IF \E v \in V : ~Valid(m.proc[p], v) THEN Fail(m, "invalid before unmapping")
  ELSE [m EXCEPT !.proc[p].pte = [v \in DOMAIN @ \ V |-> @[v]]]

(* MemorySet::new_bare and map_trampoline, in place of p's former memory. *)
NewBare(m, p) ==
  LET keys == {Root} \cup Nodes({Trampoline})
      t    == Take(m, keys)
      m1   == [m EXCEPT !.proc[p].nodes = <<>>, !.proc[p].pte = <<>>,
                        !.proc[p].areas = <<>>]
  IN IF m.panic # "no" THEN m
     ELSE IF ~CanTake(m, Cardinality(keys)) THEN Fail(m, "no frame")
     ELSE Entered(Taking(m1, Range(t)), p, {Trampoline},
                  [x \in {Trampoline} |-> KERNEL], t, FALSE)

(* MemorySet::from_elf, then alloc_user_res of the main thread. *)
FromElf(m, p) ==
  PushArea(PushArea(PushArea(NewBare(m, p), p, Elf), p, Ustack), p, {TrapCx})

AreaFrames(pr) == UNION {Range(pr.areas[i]) : i \in DOMAIN pr.areas}
MapFrames(fm) == {fm.map[o].ppn : o \in DOMAIN fm.map}
FirstPages(fm) == {fm.map[o].vpn : o \in DOMAIN fm.map}
FramesOf(pr) == Range(pr.nodes) \cup AreaFrames(pr) \cup MapFrames(pr.fm)

Init ==
  LET m0 == [alloc |-> [current |-> 0, recycled |-> {}],
             val |-> <<>>, panic |-> "no",
             proc |-> [p \in Pid |->
               [NoProc EXCEPT !.st = IF p = FIRST THEN "live" ELSE "none"]],
             file |-> [o \in Offset |-> 2]]
      m  == FromElf(m0, FIRST)
  IN /\ alloc = m.alloc /\ val = m.val /\ proc = m.proc /\ file = m.file
     /\ panic = m.panic /\ stale = [p \in Pid |-> {}] /\ ops = 0

(* A panic leaves everything as it was: nothing runs after it. *)
Step(m, gone) ==
  /\ panic = "no" /\ ops < MaxOps /\ ops' = ops + 1
  /\ IF m.panic = "no"
     THEN /\ alloc' = m.alloc /\ val' = m.val /\ proc' = m.proc /\ file' = m.file
          /\ stale' = gone /\ UNCHANGED panic
     ELSE panic' = m.panic /\ UNCHANGED <<alloc, val, proc, file, stale>>
Live(p) == proc[p].st = "live"
-----------------------------------------------------------------------------
(* Mutant: ranges reserved and not yet used are taken for free. *)
VpnRangeFree_mapped_only(pr, V) == \A v \in V : ~Valid(pr, v)
(* ProcessControlBlockInner::vpn_range_free *)
VpnRangeFree(pr, V) ==
  /\ \A i \in DOMAIN pr.mm : pr.mm[i].r \cap V = {}
  /\ \A v \in V : ~Valid(pr, v)

(* do_mmap_memory and do_mmap_file: only a reservation. Without MAP_FIXED *)
(* the VirtAddressAllocator chooses where.                                    *)
Mmap(p, fixed, start, len, ty, off) ==
  LET s  == IF fixed THEN start ELSE proc[p].next
      V  == s..(s + len - 1)
      pr == IF ~fixed THEN [proc[p] EXCEPT !.next = s + len] ELSE proc[p]
      m1 == [pr EXCEPT !.mm = Append(@, [r |-> V, ty |-> ty])]
      m2 == IF ty = "memory" THEN m1
            ELSE [m1 EXCEPT !.fm = IF @.on
                    THEN [@ EXCEPT !.ranges = Append(@, [r |-> V, off |-> off])]
                    ELSE [NoMapping EXCEPT !.on = TRUE,
                                           !.ranges = <<[r |-> V, off |-> off]>>]]
  IN /\ Live(p) /\ s + len - 1 <= MaxVpn
     /\ ty = "file" => off + len <= FilePages
     /\ Step([Mem EXCEPT !.proc[p] = IF VpnRangeFree(pr, V) THEN m2 ELSE pr], stale)

(* FileMapping::sync. The dirty bit it looks at is that of the page through   *)
(* which the frame was first mapped. After exec its page table is gone: it    *)
(* reads frames that are free or someone else's, with any outcome (S).        *)
Covered(rg) == rg.off..(rg.off + Cardinality(rg.r) - 1)
SyncSet(pr) == {o \in DOMAIN pr.fm.map :
                  /\ \E i \in DOMAIN pr.fm.ranges : o \in Covered(pr.fm.ranges[i])
                  /\ Valid(pr, pr.fm.map[o].vpn)
                  /\ pr.pte[pr.fm.map[o].vpn].dirty}
Synced(m, p, S) ==
  [m EXCEPT !.file = [o \in Offset |-> IF o \in S THEN m.val[m.proc[p].fm.map[o].ppn]
                                                  ELSE @[o]]]
SyncOutcomes(m, p) ==
  LET pr == m.proc[p] IN
  IF ~pr.fm.on THEN {m}
  ELSE IF pr.fm.pt = "own" THEN {Synced(m, p, SyncSet(pr))}
  ELSE {Synced(m, p, S) : S \in SUBSET DOMAIN pr.fm.map}
       \cup (IF pr.fm.map = <<>> THEN {} ELSE {Fail(m, "stale page table")})

RangeIndex(s, V) == CHOOSE i \in DOMAIN s : s[i].r = V
Without(s, i) == [j \in 1..(Len(s) - 1) |-> IF j < i THEN s[j] ELSE s[j + 1]]

(* sys_munmap of an anonymous mapping: one invalid entry fails the call; the  *)
(* area keeps its frames.                                                     *)
MunmapMemory(p, V) ==
  LET pr == proc[p]
      bad == {v \in V : HasTable(pr, v) /\ ~Valid(pr, v)}
      gone == {v \in V : Valid(pr, v) /\ \A w \in bad : v < w}
      m1 == [Mem EXCEPT !.proc[p].pte = [v \in DOMAIN @ \ gone |-> @[v]]]
  IN Step(IF bad # {} THEN m1
          ELSE [m1 EXCEPT !.proc[p].mm = Without(@, RangeIndex(@, V))],
          [stale EXCEPT ![p] = @ \cup gone])

(* Mutant: the pages of a mapping that is dropped are not unmapped. *)
MunmapFile_keeps_entries(p, V) ==
  \E m \in SyncOutcomes(Mem, p) :
    LET fm == m.proc[p].fm
        rs == Without(fm.ranges, RangeIndex(fm.ranges, V))
        m1 == IF rs = <<>>
              THEN Dropping([m EXCEPT !.proc[p].fm = NoMapping], MapFrames(fm))
              ELSE [m EXCEPT !.proc[p].fm.ranges = rs]
    IN Step([m1 EXCEPT !.proc[p].mm = Without(@, RangeIndex(@, V))], stale)
(* ... and of a file: written back, the range and perhaps the whole mapping   *)
(* dropped, then every page unmapped.                                         *)
MunmapFile(p, V) ==
  \E m \in SyncOutcomes(Mem, p) :
    LET fm == m.proc[p].fm
        rs == Without(fm.ranges, RangeIndex(fm.ranges, V))
        m1 == IF rs = <<>>
              THEN Dropping([m EXCEPT !.proc[p].fm = NoMapping], MapFrames(fm))
              ELSE [m EXCEPT !.proc[p].fm.ranges = rs]
        m2 == UnmapPages(m1, p, V)
    IN Step(IF m.panic # "no" THEN m
            ELSE [m2 EXCEPT !.proc[p].mm = Without(@, RangeIndex(@, V))],
            [stale EXCEPT ![p] = IF rs = <<>> THEN @ ELSE @ \cup (V \cap FirstPages(fm))])

Munmap(p, V) ==
  LET mm == proc[p].mm IN
  /\ Live(p) /\ \E i \in DOMAIN mm : mm[i].r = V
  /\ \/ mm[RangeIndex(mm, V)].ty = "memory" /\ MunmapMemory(p, V)
     \/ mm[RangeIndex(mm, V)].ty = "file" /\ MunmapFile(p, V)

(* handle_page_fault; FALSE in `fixed` means SIGSEGV. An anonymous range is   *)
(* mapped as a whole, a file page by page, shared with an earlier page of the *)
(* same place in the file.                                                    *)
FaultMemory(m, p, V) == PushArea(m, p, V)
FaultFile(m, p, v) ==
  LET pr  == m.proc[p]
      rg  == pr.fm.ranges[CHOOSE i \in DOMAIN pr.fm.ranges : v \in pr.fm.ranges[i].r]
      off == rg.off + Rank(v, rg.r)
      t   == Take(m, {off})
      m1  == [Taking(m, Range(t)) EXCEPT !.val[t[off]] = m.file[off],
                !.proc[p].fm.map = [o \in {off} |-> [vpn |-> v, ppn |-> t[off]]] @@ @]
  IN IF off \in DOMAIN pr.fm.map THEN MapPage(m, p, v, pr.fm.map[off].ppn, TRUE)
     ELSE IF ~CanTake(m, 1) THEN Fail(m, "no frame")
     ELSE MapPage(m1, p, v, t[off], TRUE)
Reserved(pr, v) == {i \in DOMAIN pr.mm : v \in pr.mm[i].r}
HandlePageFault(m, p, v) ==
  LET r == m.proc[p].mm[CHOOSE i \in Reserved(m.proc[p], v) : TRUE]
  IN IF r.ty = "memory" THEN FaultMemory(m, p, r.r) ELSE FaultFile(m, p, v)

(* The program reads or writes page v, faulting first where it has to. A      *)
(* store sets the dirty bit of the entry it goes through. (A read of a mapped *)
(* page changes nothing.)                                                     *)
Access(p, v, write) ==
  LET m == IF Valid(proc[p], v) THEN Mem ELSE HandlePageFault(Mem, p, v)
      e == m.proc[p].pte[v]
  IN /\ Live(p)
     /\ IF Valid(proc[p], v) THEN write /\ proc[p].pte[v].user
                             ELSE Reserved(proc[p], v) # {}
     /\ Step(IF m.panic = "no" /\ write
             THEN [m EXCEPT !.val[e.ppn] = 1, !.proc[p].pte[v].dirty = TRUE] ELSE m,
             stale)
-----------------------------------------------------------------------------
(* MemorySet::from_existed_user: every area is mapped anew and copied through *)
(* the parent's page table; an entry that munmap cleared reads physical page  *)
(* 0, which the kernel has not mapped.                                        *)
CopiedAreas(m, p, q) ==
  LET as == m.proc[p].areas
      f[i \in 0..Len(as)] ==
        IF i = 0 THEN NewBare(m, q)
        ELSE LET n == PushArea(f[i - 1], q, DOMAIN as[i])
             IN IF n.panic # "no" THEN n
                ELSE IF \E v \in DOMAIN as[i] : ~Valid(m.proc[p], v)
                THEN Fail(n, "copies page 0")
                ELSE [n EXCEPT !.val = [x \in DOMAIN @ |->
                        IF \E v \in DOMAIN as[i] : n.proc[q].pte[v].ppn = x
                        THEN m.val[m.proc[p].pte[CHOOSE v \in DOMAIN as[i] :
                                                   n.proc[q].pte[v].ppn = x].ppn]
                        ELSE @[x]]]
  IN f[Len(as)]

(* FileMapping::copy_to_user: a frame of its own for each page of the file.   *)
(* The entry takes the permissions of the parent's, which may be cleared;     *)
(* after exec they are `any`, read from freed frames.                         *)
CopiedMapping(m, p, q, any) ==
  LET user(v) == IF m.proc[p].fm.pt = "stale" THEN any
                 ELSE Valid(m.proc[p], v) /\ m.proc[p].pte[v].user
      map == m.proc[p].fm.map
      f[o \in 0..FilePages] ==
        IF o = 0 THEN m
        ELSE IF o - 1 \notin DOMAIN map THEN f[o - 1]
        ELSE LET n  == f[o - 1]
                 t  == Take(n, {o})
                 v  == map[o - 1].vpn
                 n1 == [Taking(n, Range(t)) EXCEPT
                          !.val[t[o]] = m.val[map[o - 1].ppn],
                          !.proc[q].fm.map =
                            [x \in {o - 1} |-> [vpn |-> v, ppn |-> t[o]]] @@ @]
             IN IF n.panic # "no" THEN n
                ELSE IF ~CanTake(n, 1) THEN Fail(n, "no frame")
                ELSE MapPage(n1, q, v, t[o], user(v))
  IN f[FilePages]

Fork(p, q) ==
  LET pr == proc[p]
      m0 == [Mem EXCEPT !.proc[q] =
               [NoProc EXCEPT !.st = "live", !.mm = pr.mm, !.next = pr.next,
                              !.fm = [pr.fm EXCEPT !.map = <<>>, !.pt = "own"]]]
      m1 == CopiedAreas(m0, p, q)
      lost == pr.fm.pt = "stale" /\ pr.fm.map # <<>>
  IN /\ Live(p) /\ proc[q].st = "none"
     /\ \/ \E any \in BOOLEAN :
             Step(CopiedMapping(m1, p, q, any), [stale EXCEPT ![q] = {}])
        \/ lost /\ Step(Fail(m1, "stale page table"), stale)

(* Mutant: the frames of the file mapping are dropped with the areas. *)
Exec_drops_mapping(p) ==
  LET m1 == FromElf(Mem, p)
  IN /\ Live(p)
     /\ Step(IF m1.panic # "no" THEN m1 ELSE Dropping(m1, FramesOf(proc[p])), stale)
(* ProcessControlBlock::exec: the new memory is built before the old one is   *)
(* dropped; the reservations and the file mapping stay.                       *)
Exec(p) ==
  LET m1 == FromElf(Mem, p)
      m2 == Dropping(m1, Range(proc[p].nodes) \cup AreaFrames(proc[p]))
  IN /\ Live(p)
     /\ Step(IF m1.panic # "no" THEN m1
             ELSE [m2 EXCEPT !.proc[p].fm.pt = IF proc[p].fm.on THEN "stale" ELSE "own"],
             [stale EXCEPT ![p] = @ \cap FirstPages(proc[p].fm)])

(* sync at exit, when the processor has no current task any more: a transfer  *)
(* cannot wait for the disk, and the unwrap in Condvar::wait_no_sched stops   *)
(* the kernel. write_at always makes one; get_size, asked first, only when    *)
(* the inode is not in the block cache. So an exit that is survived writes    *)
(* nothing.                                                                   *)
ExitSyncOutcomes(m, p) ==
  LET pr == m.proc[p] IN
  (IF pr.fm.on THEN {Fail(m, "waits without a task")} ELSE {})
  \cup {n \in SyncOutcomes(m, p) : n.panic # "no"}
  \cup (IF pr.fm.on /\ pr.fm.pt = "own" /\ SyncSet(pr) # {} THEN {} ELSE {m})

(* exit_current_and_run_next: the stack and trap context are unmapped, the    *)
(* areas dropped, the file written back; the page table stays with the zombie *)
Exit(p) ==
  LET m1 == UnmapPages(Mem, p, Ustack \cup {TrapCx})
      m2 == Dropping([m1 EXCEPT !.proc[p].areas = <<>>, !.proc[p].st = "zombie"],
                     AreaFrames(proc[p]))
  IN /\ Live(p)
     /\ \E m \in (IF m1.panic = "no" THEN ExitSyncOutcomes(m2, p) ELSE {m1}) :
          Step(m, stale)

(* sys_waitpid drops the last reference to the zombie. *)
Reap(p) ==
  /\ proc[p].st = "zombie"
  /\ Step(Dropping([Mem EXCEPT !.proc[p] = NoProc], FramesOf(proc[p])), stale)

Next ==
  \/ \E p \in Pid :
       \/ \E fixed \in BOOLEAN, start \in MmapBase..MaxVpn, len \in 1..2 :
            \/ Mmap(p, fixed, start, len, "memory", 0)
            \/ \E off \in Offset : Mmap(p, fixed, start, len, "file", off)
       \/ \E i \in DOMAIN proc[p].mm : Munmap(p, proc[p].mm[i].r)
       \/ \E v \in MmapBase..MaxVpn, write \in BOOLEAN : Access(p, v, write)
       \/ \E q \in Pid \ {p} : Fork(p, q)
       \/ Exec(p) \/ Exit(p) \/ Reap(p)

Spec == Init /\ [][Next]_vars
-----------------------------------------------------------------------------
TypeOK ==
  /\ alloc.current \in 0..Frames /\ alloc.recycled \subseteq 0..(alloc.current - 1)
  /\ \A p \in Pid : /\ proc[p].st \in {"none", "live", "zombie"}
                    /\ DOMAIN proc[p].pte \subseteq Vpn /\ stale[p] \subseteq Vpn

(* A frame is free or has exactly one owner: a page of one page table, one    *)
(* page of one area of one process, or one page of one file mapping. None is  *)
(* lost, none is handed out twice, none dropped twice.                        *)
Owners ==
  UNION {     {<<p, 0, k>> : k \in DOMAIN proc[p].nodes}
         \cup UNION {{<<p, i, v>> : v \in DOMAIN proc[p].areas[i]} :
                       i \in DOMAIN proc[p].areas}
         \cup {<<p, Root, o>> : o \in DOMAIN proc[p].fm.map} : p \in Pid}
FramesOwned ==
  LET used == 0..(alloc.current - 1) \ alloc.recycled IN
  /\ TypeOK /\ panic # "frame has not been allocated"
  /\ UNION {FramesOf(proc[p]) : p \in Pid} = used
  /\ Cardinality(Owners) = Cardinality(used)

(* A live process reaches only frames it owns: no entry of its page table     *)
(* that user code may use names a frame that was freed, or that belongs to    *)
(* another process, after any sequence of mmap, munmap, fork, exec and exit.  *)
EntriesOwned ==
  \A p \in Pid : Live(p) =>
    \A v \in DOMAIN proc[p].pte :
      proc[p].pte[v].user =>
        proc[p].pte[v].ppn \in AreaFrames(proc[p]) \cup MapFrames(proc[p].fm)

(* Every page of an area is mapped to the frame the area keeps for it, except *)
(* where munmap cleared the entry and left the area behind. Only after such a *)
(* munmap, or one that left a file mapping naming the page, can fork stop the *)
(* kernel by copying physical page 0 or mapping a page twice.                 *)
AreasMapped ==
  /\ \A p \in Pid : Live(p) =>
       \A i \in DOMAIN proc[p].areas : \A v \in DOMAIN proc[p].areas[i] \ stale[p] :
         Valid(proc[p], v) /\ proc[p].pte[v].ppn = proc[p].areas[i][v]
  /\ panic \in {"copies page 0", "mapped before mapping"} =>
       \E p \in Pid : Live(p) /\ stale[p] # {}

(* "Write back all dirty pages": when a file mapping is unmapped or its       *)
(* process exits, every page of the file that the process stored to, through  *)
(* whichever of its mappings, is in the file. (An exit that finds a page to   *)
(* write stops the kernel; that step is not judged here.)                     *)
DirtyPagesWritten ==
  [][\A p \in Pid : /\ Live(p) /\ proc[p].fm.on /\ proc[p].fm.pt = "own" /\ panic' = "no"
                    /\ \/ proc'[p].st = "zombie"
                       \/ Len(proc'[p].fm.ranges) < Len(proc[p].fm.ranges)
       => \A o \in DOMAIN proc[p].fm.map :
            (\E v \in DOMAIN proc[p].pte :
               proc[p].pte[v].ppn = proc[p].fm.map[o].ppn /\ proc[p].pte[v].dirty)
            => file'[o] = val[proc[p].fm.map[o].ppn]]_vars
===============================================================================
