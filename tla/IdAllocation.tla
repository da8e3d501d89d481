----------------------------- MODULE IdAllocation -----------------------------
(* One RecycleAllocator and those it serves. An id is given back once, by the *)
(* Drop of its PidHandle or by dealloc_tid of the thread that sys_waittid     *)
(* reaped: live is the set of ids that are out. Kernel stacks never give      *)
(* their id back (the Drop of KernelStack only unmaps), which is a behaviour  *)
(* without DeallocId.                                                         *)
EXTENDS RecycleAllocator, FiniteSets

VARIABLES
  ids,    \* the RecycleAllocator
  live,   \* the ids handed out and not given back
  peak    \* history: the largest number of ids ever out at a time

ids_vars == <<ids, live, peak>>

(* RecycleAllocator::new *)
IdsInit == ids = [current |-> 0, recycled |-> <<>>] /\ live = {} /\ peak = 0

AllocId ==
  /\ ids' = alloc(ids)
  /\ live' = live \cup {Allocated(ids)}
  /\ peak' = IF Cardinality(live') > peak THEN Cardinality(live') ELSE peak

DeallocId(id) ==
  /\ id \in live /\ dealloc_assert(ids, id)
  /\ ids' = dealloc(ids, id)
  /\ live' = live \ {id}
  /\ UNCHANGED peak

IdsNext == AllocId \/ \E id \in live : DeallocId(id)

IdsSpec == IdsInit /\ [][IdsNext]_ids_vars
-----------------------------------------------------------------------------
(* Every id below current is out or recycled, never both, and recycled once:  *)
(* alloc never hands out an id that is still in use, and dealloc loses none.  *)
Partition ==
  /\ live \cup Range(ids.recycled) = 0..(ids.current - 1)
  /\ live \cap Range(ids.recycled) = {}
  /\ IsInjective(ids.recycled)

(* The asserts of dealloc hold for every id that is out. *)
DeallocAsserts == \A id \in live : dealloc_assert(ids, id)

(* Ids are reused before new ones are made: current is the largest number of  *)
(* ids that were ever out at the same time.                                   *)
CurrentIsPeak == ids.current = peak
===============================================================================
