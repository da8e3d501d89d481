---------------------------- MODULE BlockIoProofs ----------------------------
(* Interrupt handlers find their cells free, every task is in one place, no   *)
(* reader of the serial port is stranded, and the block cache is coherent     *)
(* with its device, for any number of tasks, blocks and characters and any    *)
(* size of the cache of at least two.                                         *)
EXTENDS BlockCacheProofs, FiniteSetTheorems
-----------------------------------------------------------------------------
(* What the short operations on the mask do to nested_level and to SIE. *)
LEMMA MaskOps ==
  ASSUME NEW m \in Mask
  PROVE  /\ Enter(m) \in Mask /\ Enter(m).nested = m.nested + 1 /\ ~Enter(m).sie
         /\ m.nested > 0 => Exit(m) \in Mask /\ Exit(m).nested = m.nested - 1
         /\ Session(m) \in Mask /\ Session(m).nested = m.nested
         /\ \A b \in BOOLEAN : WithSie(m, b) \in Mask /\ WithSie(m, b).nested = m.nested
<1>1. Enter(m) \in Mask /\ Enter(m).nested = m.nested + 1 /\ ~Enter(m).sie
  BY DEF Enter, Mask
<1>2. \A k \in Mask : k.nested > 0 => Exit(k) \in Mask /\ Exit(k).nested = k.nested - 1
  <2> SUFFICES ASSUME NEW k \in Mask, k.nested > 0
               PROVE  Exit(k) \in Mask /\ Exit(k).nested = k.nested - 1
    OBVIOUS
  <2> DEFINE s == (k.nested = 1 /\ k.before) \/ k.sie
  <2>1. s \in BOOLEAN
    BY Zenon
  <2>2. k.nested - 1 \in Nat
    BY DEF Mask
  <2>3. Exit(k) = [k EXCEPT !.nested = k.nested - 1, !.sie = s]
    BY Zenon DEF Exit
  <2> HIDE DEF s
  <2> QED
    BY <2>1, <2>2, <2>3, Zenon DEF Mask
<1>3. Session(m) \in Mask /\ Session(m).nested = m.nested
  <2>1. m.nested \in Nat
    BY DEF Mask
  <2> QED
    BY <1>1, <1>2, <2>1 DEF Session
<1>4. \A b \in BOOLEAN : WithSie(m, b) \in Mask /\ WithSie(m, b).nested = m.nested
  BY DEF WithSie, Mask
<1> QED
  BY <1>1, <1>2, <1>3, <1>4

(* Outside of the two sessions no driver's cell is borrowed. *)
LEMMA CellsFree ==
  ASSUME CellInv, running \in Task => pc[running] \notin {"session", "uartin"}
  PROVE  cell["blk"] = NONE /\ cell["uart"] = NONE
  BY BlockIoAssumption DEF CellInv

(* A step outside of the sessions that borrows nothing keeps the invariant,   *)
(* whatever it does to SIE and to the processor.                              *)
LEMMA FreeStep ==
  ASSUME CellInv, cell["blk"] = NONE, cell["uart"] = NONE,
         cell' = cell, guard' = guard, mask' \in Mask, mask'.nested = mask.nested, pc' \in [Task -> PcValues],
         \A t \in Task : pc'[t] \notin {"session", "uartin"},
         \A t \in Task : pc'[t] \in {"user", "open"} => t \notin guard
  PROVE  CellInv'
<1>1. \A t \in Task : t # NONE
  BY BlockIoAssumption
<1>2. mask'.nested = Cardinality(guard') + Borrowed("blk")' + Borrowed("uart")'
  BY DEF CellInv, Borrowed
<1> QED
  BY <1>1, <1>2 DEF CellInv

LEMMA InitCell == Init => CellInv
<1> SUFFICES ASSUME Init PROVE CellInv
  OBVIOUS
<1>1. IsFiniteSet({}) /\ Cardinality({}) = 0
  BY FS_EmptySet
<1>2. \A t \in Task : t # NONE
  BY BlockIoAssumption
<1> QED
  BY <1>1, <1>2 DEF Init, CellInv, Borrowed, PcValues, Mask

(* The session of a driver begins: its cell is borrowed, interrupts go off.   *)
LEMMA SessionBegins ==
  ASSUME CellInv, NEW t \in Task, NEW c \in {"blk", "uart"}, running = t,
         pc[t] \notin {"session", "uartin"}, running' = running, guard' = guard,
         cell' = [cell EXCEPT ![c] = t], mask' = Enter(mask),
         pc' = [pc EXCEPT ![t] = IF c = "blk" THEN "session" ELSE "uartin"]
  PROVE  CellInv'
<1>1. cell["blk"] = NONE /\ cell["uart"] = NONE
  BY CellsFree
<1>2. mask' \in Mask /\ mask'.nested = mask.nested + 1 /\ ~mask'.sie
  BY MaskOps DEF CellInv
<1>3. Cardinality(guard) \in Nat
  BY FS_CardinalityType DEF CellInv
<1>4. \A u \in Task : u # NONE
  BY BlockIoAssumption
<1>5. mask'.nested = Cardinality(guard') + Borrowed("blk")' + Borrowed("uart")'
  BY <1>1, <1>2, <1>3, <1>4 DEF CellInv, Borrowed
<1>6. pc' \in [Task -> PcValues]
  BY DEF CellInv, PcValues
<1>7. \A u \in Task : /\ pc'[u] \in {"user", "open"} => u \notin guard'
                      /\ pc'[u] = "session" <=> cell'["blk"] = u
                      /\ pc'[u] = "uartin" <=> cell'["uart"] = u
  BY <1>1, <1>4 DEF CellInv
<1> QED
  BY <1>1, <1>2, <1>4, <1>5, <1>6, <1>7, Zenon DEF CellInv

(* ... and ends: the task goes on, or gives up the processor. *)
LEMMA SessionEnds ==
  ASSUME CellInv, NEW t \in Task, NEW c \in {"blk", "uart"}, cell[c] = t,
         NEW x \in PcValues \ {"session", "uartin", "user", "open"},
         guard' = guard,
         cell' = [cell EXCEPT ![c] = NONE],
         mask' \in {Exit(mask), Session(Exit(mask))},
         pc' = [pc EXCEPT ![t] = x]
  PROVE  CellInv'
<1>1. \A u \in Task : u # NONE
  BY BlockIoAssumption
<1>2. running = t /\ \A d \in {"blk", "uart"} : d # c => cell[d] = NONE
  BY <1>1 DEF CellInv
<1>3. Cardinality(guard) \in Nat
  BY FS_CardinalityType DEF CellInv
<1>4. mask \in Mask /\ mask.nested = Cardinality(guard) + 1
  BY <1>1, <1>2, <1>3 DEF CellInv, Borrowed
<1>5. Exit(mask) \in Mask /\ Exit(mask).nested = Cardinality(guard)
  BY <1>3, <1>4, MaskOps
<1>6. mask' \in Mask /\ mask'.nested = Cardinality(guard)
  BY <1>5, MaskOps
<1>7. cell'["blk"] = NONE /\ cell'["uart"] = NONE
      /\ cell' \in [{"blk", "uart"} -> Task \cup {NONE}]
  BY <1>2 DEF CellInv
<1>8. mask'.nested = Cardinality(guard') + Borrowed("blk")' + Borrowed("uart")'
  BY <1>3, <1>6, <1>7 DEF Borrowed
<1>9. \A u \in Task : pc'[u] \notin {"session", "uartin"}
  BY <1>1, <1>2 DEF CellInv
<1> QED
  BY <1>1, <1>6, <1>7, <1>8, <1>9, Zenon DEF CellInv

(* Every step keeps the invariant. *)
LEMMA NextCell == CellInv /\ [Next]_vars => CellInv'
<1> SUFFICES ASSUME CellInv, [Next]_vars PROVE CellInv'
  OBVIOUS
<1> DEFINE Quiet == UNCHANGED <<running, pc, guard, cell, mask>>
<1>0. ASSUME Quiet PROVE CellInv'
  BY <1>0 DEF CellInv, Borrowed
<1>1. \A t \in Task : t # NONE
  BY BlockIoAssumption
<1>2. mask \in Mask /\ pc \in [Task -> PcValues]
  BY DEF CellInv
(* A step of the running task from one place outside of the sessions to       *)
(* another, with the mask as it was.                                          *)
<1>3. ASSUME NEW t \in Task, running = t, UNCHANGED <<running, guard, cell, mask>>,
             pc[t] \notin {"session", "uartin"},
             NEW x \in PcValues \ {"session", "uartin", "user", "open"},
             pc' = [pc EXCEPT ![t] = x]
      PROVE  CellInv'
  <2>1. cell["blk"] = NONE /\ cell["uart"] = NONE
    BY <1>3, CellsFree
  <2>2. \A u \in Task : pc'[u] \notin {"session", "uartin"}
    BY <1>1, <1>2, <1>3, <2>1, Zenon DEF CellInv
  <2>3. \A u \in Task : pc'[u] \in {"user", "open"} => u \notin guard
    BY <1>2, <1>3 DEF CellInv
  <2>4. pc' \in [Task -> PcValues]
    BY <1>2, <1>3
  <2> QED
    BY <1>2, <1>3, <2>1, <2>2, <2>3, <2>4, FreeStep, Zenon
<1>4. CASE UNCHANGED vars
  BY <1>0, <1>4 DEF vars
<1>5. CASE Dispatch
  <2>1. cell["blk"] = NONE /\ cell["uart"] = NONE
    BY <1>5, BlockIoAssumption, CellsFree DEF Dispatch
  <2>2. mask' \in Mask /\ mask'.nested = mask.nested
    BY <1>2, <1>5, MaskOps, Zenon DEF Dispatch
  <2>3. \A u \in Task : pc[u] \notin {"session", "uartin"}
    BY <1>1, <2>1 DEF CellInv
  <2> QED
    BY <1>2, <1>5, <2>1, <2>2, <2>3, FreeStep, Zenon DEF Dispatch, CellInv
<1>6. CASE BlkIrq \/ UartIrq \/ CharArrives \/ \E t \in Task : Complete(t)
  BY <1>0, <1>6 DEF BlkIrq, UartIrq, CharArrives, Complete, sched
<1>7. ASSUME NEW t \in Task, Preempt(t) \/ Yield(t) PROVE CellInv'
  <2>1. running = t /\ pc[t] = "user"
    BY <1>7, Zenon DEF Preempt, Yield
  <2>2. cell["blk"] = NONE /\ cell["uart"] = NONE
    BY <2>1, CellsFree
  <2>3. mask' \in Mask /\ mask'.nested = mask.nested
    <3>1. WithSie(mask, TRUE) \in Mask /\ WithSie(mask, TRUE).nested = mask.nested
      BY <1>2, MaskOps, Zenon
    <3> QED
      BY <1>2, <1>7, <3>1, MaskOps, Zenon DEF Preempt, Yield, Schedule
  <2>4. \A u \in Task : pc[u] \notin {"session", "uartin"}
    BY <1>1, <2>2 DEF CellInv
  <2>5. UNCHANGED <<pc, guard, cell>>
    BY <1>7, Zenon DEF Preempt, Yield
  <2> QED
    BY <1>2, <2>2, <2>3, <2>4, <2>5, FreeStep, Zenon DEF CellInv
<1>8. ASSUME NEW t \in Task, NEW c \in Call, Syscall(t, c) PROVE CellInv'
  <2>1. running = t /\ pc[t] = "user"
    BY <1>8 DEF Syscall
  <2>2. cell["blk"] = NONE /\ cell["uart"] = NONE
    BY <2>1, CellsFree
  <2>3. mask' \in Mask /\ mask'.nested = mask.nested
    <3>1. WithSie(mask, TRUE) \in Mask /\ WithSie(mask, TRUE).nested = mask.nested
      BY <1>2, MaskOps, Zenon
    <3> QED
      BY <1>8, <3>1, MaskOps, Zenon DEF Syscall
  <2>4. PICK x \in {"uart", "fslock", "open"} : pc' = [pc EXCEPT ![t] = x]
    BY <1>8, Zenon DEF Syscall
  <2>5. \A u \in Task : pc'[u] \notin {"session", "uartin"}
    BY <1>1, <1>2, <2>2, <2>4, Zenon DEF CellInv
  <2>6. \A u \in Task : pc'[u] \in {"user", "open"} => u \notin guard
    BY <1>2, <2>1, <2>4, Zenon DEF CellInv
  <2>7. pc' \in [Task -> PcValues] /\ UNCHANGED <<guard, cell>>
    BY <1>2, <1>8, <2>4, Zenon DEF Syscall, PcValues
  <2> QED
    BY <2>2, <2>3, <2>5, <2>6, <2>7, FreeStep, Zenon
<1>9. ASSUME NEW t \in Task, InKernel(t) PROVE CellInv'
  <2>1. CASE Open(t)
    <3>1. running = t /\ pc[t] = "open" /\ t \notin guard
      BY <2>1 DEF Open, CellInv
    <3>2. cell["blk"] = NONE /\ cell["uart"] = NONE
      BY <3>1, CellsFree, Zenon
    <3>3. /\ IsFiniteSet(guard') /\ guard' \subseteq Task
          /\ Cardinality(guard') = Cardinality(guard) + 1
          /\ Cardinality(guard) \in Nat
      BY <2>1, <3>1, FS_AddElement, FS_CardinalityType, Zenon DEF Open, CellInv
    <3>4. mask' \in Mask /\ mask'.nested = mask.nested + 1
      BY <1>2, <2>1, MaskOps, Zenon DEF Open
    <3>5. mask'.nested = Cardinality(guard') + Borrowed("blk")' + Borrowed("uart")'
      BY <2>1, <3>2, <3>3, <3>4 DEF Open, CellInv, Borrowed
    <3>6. PICK x \in {"get", "fslock", "panic"} : pc' = [pc EXCEPT ![t] = x]
      BY <2>1, Zenon DEF Open
    <3>7. pc' \in [Task -> PcValues]
      BY <1>2, <3>6, Zenon DEF PcValues
    <3>8. \A u \in Task : /\ pc'[u] \notin {"session", "uartin"}
                          /\ pc'[u] \in {"user", "open"} => u \notin guard'
      BY <1>1, <1>2, <2>1, <3>2, <3>6, Zenon DEF CellInv, Open
    <3> QED
      BY <1>1, <2>1, <3>2, <3>3, <3>4, <3>5, <3>7, <3>8, Zenon DEF CellInv, Open
  <2>2. CASE FsLock(t)
    BY <1>3, <2>2, Zenon DEF FsLock, sched, PcValues
  <2>3. CASE GetBlockCache(t)
    BY <1>3, <2>3 DEF GetBlockCache, sched, PcValues
  <2>4. CASE UseBlock(t)
    <3>1. PICK x \in {"get", "syncall", "ret"} : pc' = [pc EXCEPT ![t] = x]
      BY <2>4, Zenon DEF UseBlock
    <3> QED
      BY <1>3, <2>4, <3>1, Zenon DEF UseBlock, sched, PcValues
  <2>5. CASE SyncLock(t)
    BY <1>3, <2>5, Zenon DEF SyncLock, sched, PcValues
  <2>6. CASE SyncNext(t)
    BY <1>3, <2>6 DEF SyncNext, sched, PcValues
  <2>7. CASE Submit(t)
    BY <2>7, SessionBegins, Zenon DEF Submit, sched
  <2>8. CASE WaitTransfer(t)
    <3>1. cell["blk"] = t
      BY <2>8 DEF WaitTransfer, CellInv
    <3> QED
      BY <2>8, <3>1, SessionEnds, Zenon DEF WaitTransfer, Schedule, PcValues
  <2>9. CASE Resume(t)
    BY <1>3, <2>9 DEF Resume, sched, PcValues
  <2>10. CASE UartOpen(t)
    BY <2>10, SessionBegins, Zenon DEF UartOpen, sched
  <2>11. CASE UartRead(t)
    <3>1. cell["uart"] = t
      BY <2>11 DEF UartRead, CellInv
    <3> QED
      BY <2>11, <3>1, SessionEnds, Zenon DEF UartRead, Schedule, PcValues
  <2>12. CASE Return(t)
    <3>1. running = t /\ pc[t] = "ret"
      BY <2>12 DEF Return
    <3>2. cell["blk"] = NONE /\ cell["uart"] = NONE
      BY <3>1, CellsFree, Zenon
    <3>3. /\ IsFiniteSet(guard') /\ guard' \subseteq Task
          /\ Cardinality(guard') = IF t \in guard THEN Cardinality(guard) - 1
                                                  ELSE Cardinality(guard)
          /\ Cardinality(guard) \in Nat
      BY <2>12, FS_RemoveElement, FS_CardinalityType, Zenon DEF Return, CellInv
    <3>4. mask.nested = Cardinality(guard)
      BY <3>2, <3>3 DEF CellInv, Borrowed
    <3>5. t \in guard => mask.nested > 0
      BY <3>3, <3>4, FS_CardinalityType
    <3>6. mask' \in Mask /\ mask'.nested = Cardinality(guard')
      <4>1. CASE t \in guard
        <5>1. Exit(mask) \in Mask /\ Exit(mask).nested = mask.nested - 1
          BY <1>2, <3>5, <4>1, MaskOps, Zenon
        <5> QED
          BY <2>12, <3>3, <3>4, <4>1, <5>1, MaskOps, Zenon DEF Return
      <4>2. CASE t \notin guard
        BY <1>2, <2>12, <3>3, <3>4, <4>2, MaskOps, Zenon DEF Return
      <4> QED
        BY <4>1, <4>2
    <3>7. mask'.nested = Cardinality(guard') + Borrowed("blk")' + Borrowed("uart")'
      <4>1. Cardinality(guard') \in Nat
        BY <3>3, FS_CardinalityType
      <4>2. Borrowed("blk")' = 0 /\ Borrowed("uart")' = 0
        BY <2>12, <3>2 DEF Return, Borrowed
      <4> QED
        BY <3>6, <4>1, <4>2
    <3>8. pc' \in [Task -> PcValues]
      BY <1>2, <2>12, Zenon DEF Return, PcValues
    <3>9. \A u \in Task : /\ pc'[u] \notin {"session", "uartin"}
                          /\ pc'[u] \in {"user", "open"} => u \notin guard'
      BY <1>1, <1>2, <2>12, <3>2, Zenon DEF CellInv, Return
    <3> QED
      BY <1>1, <2>12, <3>2, <3>3, <3>6, <3>7, <3>8, <3>9, Zenon DEF CellInv, Return
  <2> QED
    BY <1>9, <2>1, <2>2, <2>3, <2>4, <2>5, <2>6, <2>7, <2>8, <2>9, <2>10, <2>11,
       <2>12, SMTT(30) DEF InKernel
<1> QED
  BY <1>4, <1>5, <1>6, <1>7, <1>8, <1>9 DEF Next

LEMMA CellInvSuffices == CellInv => HandlersFindCellsFree
<1> SUFFICES ASSUME CellInv PROVE HandlersFindCellsFree
  OBVIOUS
<1> DEFINE H == {c \in DOMAIN cell : cell[c] # NONE}
<1>1. DOMAIN cell = {"blk", "uart"} /\ (cell["blk"] = NONE \/ cell["uart"] = NONE)
  BY BlockIoAssumption DEF CellInv
<1>2. Cardinality(H) = Borrowed("blk") + Borrowed("uart")
  <2>1. H = (IF cell["blk"] = NONE THEN {} ELSE {"blk"})
            \cup (IF cell["uart"] = NONE THEN {} ELSE {"uart"})
    BY <1>1
  <2>2. Cardinality({}) = 0 /\ \A x : Cardinality({x}) = 1
    BY FS_EmptySet, FS_Singleton
  <2>3. CASE H = {}
    BY <2>1, <2>2, <2>3 DEF Borrowed
  <2>4. CASE H = {"blk"}
    <3>1. cell["blk"] # NONE /\ cell["uart"] = NONE
      BY <1>1, <2>4
    <3>2. Cardinality(H) = 1
      BY <2>2, <2>4, Zenon
    <3> QED
      BY <3>1, <3>2 DEF Borrowed
  <2>5. CASE H = {"uart"}
    <3>1. cell["uart"] # NONE /\ cell["blk"] = NONE
      BY <1>1, <2>5
    <3>2. Cardinality(H) = 1
      BY <2>2, <2>5, Zenon
    <3> QED
      BY <3>1, <3>2 DEF Borrowed
  <2> QED
    BY <1>1, <2>1, <2>3, <2>4, <2>5, Zenon
<1>3. Cardinality(guard) \in Nat /\ Borrowed("blk") \in Nat /\ Borrowed("uart") \in Nat
  BY FS_CardinalityType DEF CellInv, Borrowed
<1>4. mask.nested = Cardinality(guard) + Cardinality(H)
  BY <1>2, <1>3 DEF CellInv
<1>5. InterruptsOn => \A c \in DOMAIN cell : cell[c] = NONE
  BY <1>1 DEF CellInv, InterruptsOn, UserMode
<1> QED
  BY <1>4, <1>5 DEF HandlersFindCellsFree

(* UPIntrFreeCell keeps its promise: nested_level counts the borrows that are *)
(* alive, also those of sleeping tasks, and the block and serial interrupt    *)
(* handlers never find the cell they borrow already borrowed.                 *)
THEOREM HandlersAreSafe == Spec => []HandlersFindCellsFree
  BY InitCell, NextCell, CellInvSuffices, PTL DEF Spec
-----------------------------------------------------------------------------
(* The readers of the serial port that are not asleep on it: as long as each  *)
(* interrupt brings one character, a sleeper leaves one of them for each      *)
(* buffered character.                                                        *)
Awake == {t \in Task : pc[t] \in {"uart", "uartin"} /\ t \notin Range(uq)}
ReaderInv == ~burst /\ uq # <<>> => Cardinality(Awake) >= buf

(* push_back adds one element at the end. *)
LEMMA PushBack ==
  ASSUME NEW S, NEW q \in Seq(S), NEW x \in S
  PROVE  /\ Append(q, x) \in Seq(S)
         /\ Range(Append(q, x)) = Range(q) \cup {x}
         /\ IsInjective(q) /\ x \notin Range(q) => IsInjective(Append(q, x))
<1>1. /\ Append(q, x) \in Seq(S)
      /\ Len(Append(q, x)) = Len(q) + 1
      /\ \A i \in 1..Len(q) : Append(q, x)[i] = q[i]
      /\ Append(q, x)[Len(q) + 1] = x
  BY AppendProperties
<1>2. /\ DOMAIN q = 1..Len(q) /\ Len(q) \in Nat
      /\ DOMAIN Append(q, x) = 1..(Len(q) + 1)
  BY <1>1, LenProperties
<1>3. Range(Append(q, x)) = Range(q) \cup {x}
  BY <1>1, <1>2 DEF Range
<1>4. IsInjective(q) /\ x \notin Range(q) => IsInjective(Append(q, x))
  BY <1>1, <1>2 DEF Range, IsInjective
<1> QED BY <1>1, <1>3, <1>4

(* pop_front removes the first element and nothing else. *)
LEMMA PopFront ==
  ASSUME NEW S, NEW q \in Seq(S), q # <<>>
  PROVE  /\ Head(q) \in S
         /\ Head(q) \in Range(q)
         /\ Tail(q) \in Seq(S)
         /\ Len(Tail(q)) = Len(q) - 1
         /\ IsInjective(q) => /\ IsInjective(Tail(q))
                              /\ Range(Tail(q)) = Range(q) \ {Head(q)}
<1>1. /\ Head(q) \in S
      /\ Tail(q) \in Seq(S)
      /\ Len(Tail(q)) = Len(q) - 1
      /\ \A i \in 1..Len(Tail(q)) : Tail(q)[i] = q[i + 1]
  BY HeadTailProperties
<1>2. /\ DOMAIN q = 1..Len(q) /\ Len(q) \in Nat /\ Len(q) # 0
      /\ DOMAIN Tail(q) = 1..(Len(q) - 1)
  BY <1>1, LenProperties, EmptySeq
<1>3. Head(q) = q[1]
  BY <1>2
<1>4. Head(q) \in Range(q)
  BY <1>2, <1>3 DEF Range
<1>5. ASSUME IsInjective(q)
      PROVE  IsInjective(Tail(q))
  BY <1>1, <1>2, <1>5 DEF IsInjective
<1>6. ASSUME IsInjective(q)
      PROVE  Range(Tail(q)) = Range(q) \ {Head(q)}
  <2>1. \A i \in 1..(Len(q) - 1) : Tail(q)[i] = q[i + 1]
    BY <1>1
  <2>2. \A y \in Range(Tail(q)) : y \in Range(q) /\ y # q[1]
    BY <1>2, <1>6, <2>1 DEF Range, IsInjective
  <2>3. ASSUME NEW y \in Range(q), y # q[1]
        PROVE  y \in Range(Tail(q))
    <3>1. PICK i \in 1..Len(q) : y = q[i]
      BY <1>2 DEF Range
    <3>2. i - 1 \in 1..(Len(q) - 1) /\ Tail(q)[i - 1] = q[i]
      BY <1>2, <2>1, <2>3, <3>1
    <3> QED BY Zenon, <1>2, <3>1, <3>2 DEF Range
  <2> QED BY <1>3, <2>2, <2>3
<1> QED BY <1>1, <1>4, <1>5, <1>6, Zenon

(* Appending a whole queue, as handle_irq does one task at a time. *)
LEMMA PushAll ==
  ASSUME NEW S, NEW q \in Seq(S), NEW w \in Seq(S)
  PROVE  /\ q \o w \in Seq(S)
         /\ Range(q \o w) = Range(q) \cup Range(w)
         /\ IsInjective(q) /\ IsInjective(w) /\ Range(q) \cap Range(w) = {}
              => IsInjective(q \o w)
<1>1. /\ q \o w \in Seq(S)
      /\ Len(q \o w) = Len(q) + Len(w)
      /\ \A i \in 1..(Len(q) + Len(w)) :
           (q \o w)[i] = IF i <= Len(q) THEN q[i] ELSE w[i - Len(q)]
  BY ConcatProperties
<1>2. /\ DOMAIN q = 1..Len(q) /\ Len(q) \in Nat
      /\ DOMAIN w = 1..Len(w) /\ Len(w) \in Nat
      /\ DOMAIN (q \o w) = 1..(Len(q) + Len(w))
  BY <1>1, LenProperties
<1>3. Range(q \o w) = Range(q) \cup Range(w)
  BY RangeConcatenation
<1>4. ASSUME IsInjective(q), IsInjective(w), Range(q) \cap Range(w) = {},
             NEW i \in 1..(Len(q) + Len(w)), NEW j \in 1..(Len(q) + Len(w)),
             (q \o w)[i] = (q \o w)[j]
      PROVE  i = j
  <2>1. \A k \in 1..Len(q), l \in 1..Len(w) : q[k] # w[l]
    BY Zenon, <1>2, <1>4 DEF Range
  <2>2. CASE i <= Len(q) /\ j <= Len(q)
    BY <1>1, <1>2, <1>4, <2>2 DEF IsInjective
  <2>3. CASE ~(i <= Len(q)) /\ ~(j <= Len(q))
    <3>1. /\ i - Len(q) \in 1..Len(w) /\ j - Len(q) \in 1..Len(w)
          /\ w[i - Len(q)] = w[j - Len(q)]
      BY <1>1, <1>2, <1>4, <2>3
    <3>2. i - Len(q) = j - Len(q)
      BY <1>2, <1>4, <3>1, Zenon DEF IsInjective
    <3> QED BY <1>2, <3>2
  <2>4. CASE i <= Len(q) /\ ~(j <= Len(q))
    BY <1>1, <1>2, <1>4, <2>1, <2>4
  <2>5. CASE ~(i <= Len(q)) /\ j <= Len(q)
    BY <1>1, <1>2, <1>4, <2>1, <2>5
  <2> QED BY <1>2, <2>2, <2>3, <2>4, <2>5, Zenon
<1>5. IsInjective(q) /\ IsInjective(w) /\ Range(q) \cap Range(w) = {}
        => IsInjective(q \o w)
  BY <1>2, <1>4 DEF IsInjective
<1> QED BY <1>1, <1>3, <1>5

(* Any order in which the tasks of a set are woken: each one once. *)
LEMMA OneOrder ==
  ASSUME NEW S \in SUBSET Task
  PROVE  /\ SetToSeq(S) \in Seq(Task) /\ IsInjective(SetToSeq(S))
         /\ Range(SetToSeq(S)) \subseteq S
<1> DEFINE n == Cardinality(S)
<1>1. IsFiniteSet(S)
  BY BlockIoAssumption, FS_Subset
<1>2. n \in Nat /\ ExistsBijection(1..n, S)
  BY <1>1, FS_CardinalityType
<1>3. \E f \in [1..n -> S] : IsInjective(f)
  BY <1>2 DEF ExistsBijection, Bijection, Injection
<1> DEFINE f == SetToSeq(S)
<1>4. f \in [1..n -> S] /\ IsInjective(f)
  BY <1>3 DEF SetToSeq
<1> HIDE DEF n, f
<1>5. f \in Seq(Task) /\ Range(f) \subseteq S
  BY <1>2, <1>4 DEF Range
<1> QED
  BY <1>4, <1>5 DEF f
-----------------------------------------------------------------------------
(* The running task goes on in the kernel, or enters or leaves it. *)
LEMMA TaskMoves ==
  ASSUME PlaceInv, pc \in [Task -> PcValues], NEW t \in Task, running = t,
         NEW x, pc' = [pc EXCEPT ![t] = x],
         UNCHANGED <<running, ready, uq, dev>>,
         rx' \in Nat, buf' \in Nat, burst' \in BOOLEAN
  PROVE  PlaceInv'
  BY DEF PlaceInv

(* It gives up the processor, in user mode or asleep, and is somewhere else.  *)
LEMMA TaskParks ==
  ASSUME PlaceInv, pc \in [Task -> PcValues], NEW t \in Task, running = t,
         NEW x \in Parked, pc' = [pc EXCEPT ![t] = x], running' = NONE,
         ready' \in Seq(Task), uq' \in Seq(Task), IsInjective(ready'), IsInjective(uq'),
         dev' \in [Task -> {"free", "submitted", "used"}],
         \A u \in Task : u # t => /\ u \in Range(ready') <=> u \in Range(ready)
                                  /\ u \in Range(uq') <=> u \in Range(uq)
                                  /\ dev'[u] = dev[u],
         t \in Range(ready') => t \notin Range(uq') /\ dev'[t] = "free",
         t \in Range(uq') => x = "uart",
         dev'[t] # "free" => x = "resp",
         UNCHANGED <<rx, buf, burst>>
  PROVE  PlaceInv'
<1>1. \A u \in Task : u # NONE
  BY BlockIoAssumption, Zenon
<1>2. \A u \in Task : u # t => pc'[u] = pc[u] /\ pc[u] \in Parked
  BY DEF PlaceInv
<1>3. pc'[t] = x
  OBVIOUS
<1> QED
  BY <1>1, <1>2, <1>3, ZenonT(30) DEF PlaceInv

LEMMA PlaceInit == Init => PlaceInv
<1> SUFFICES ASSUME Init PROVE PlaceInv
  OBVIOUS
<1>1. ready \in Seq(Task) /\ IsInjective(ready)
  BY OneOrder DEF Init
<1>2. uq \in Seq(Task) /\ IsInjective(uq) /\ Range(uq) = {}
  BY DEF Init, IsInjective, Range
<1>3. \A t \in Task : t # NONE
  BY BlockIoAssumption
<1> QED
  BY <1>1, <1>2, <1>3, ZenonT(30) DEF Init, PlaceInv, Parked

LEMMA PlaceStep == CellInv /\ PlaceInv /\ [Next]_vars => PlaceInv'
<1> SUFFICES ASSUME CellInv, PlaceInv, [Next]_vars PROVE PlaceInv'
  OBVIOUS
<1>1. \A t \in Task : t # NONE
  BY BlockIoAssumption
<1>2. pc \in [Task -> PcValues]
  BY DEF CellInv
<1>3. /\ running \in Task \cup {NONE} /\ ready \in Seq(Task) /\ uq \in Seq(Task)
      /\ dev \in [Task -> {"free", "submitted", "used"}]
      /\ rx \in Nat /\ buf \in Nat /\ burst \in BOOLEAN
      /\ IsInjective(ready) /\ IsInjective(uq)
  BY Zenon DEF PlaceInv
<1>4. CASE UNCHANGED vars
  BY <1>4 DEF PlaceInv, vars
<1>5. CASE Dispatch
  <2>1. ready # <<>> /\ running' = Head(ready) /\ ready' = Tail(ready)
        /\ UNCHANGED <<pc, uq, dev, rx, buf, burst>>
    BY <1>5 DEF Dispatch, uartVars
  <2>2. /\ Head(ready) \in Task /\ Head(ready) \in Range(ready) /\ Tail(ready) \in Seq(Task)
        /\ IsInjective(Tail(ready)) /\ Range(Tail(ready)) = Range(ready) \ {Head(ready)}
    BY <1>3, <2>1, PopFront, Zenon
  <2>3. \A t \in Task : pc[t] \in Parked
    BY <1>1, <1>5, Zenon DEF PlaceInv, Dispatch
  <2> QED
    BY <2>1, <2>2, <2>3 DEF PlaceInv
<1>6. CASE BlkIrq
  <2> DEFINE w == SetToSeq(Used)
  <2>1. w \in Seq(Task) /\ IsInjective(w) /\ Range(w) \subseteq Used
    BY OneOrder, Zenon DEF Used
  <2>2. \A t \in Used : dev[t] # "free" /\ pc[t] = "resp" /\ t # running
                        /\ t \notin Range(ready) /\ t \notin Range(uq)
    BY DEF PlaceInv, Used
  <2>3. Range(ready) \cap Range(w) = {}
    BY <2>1, <2>2, Zenon
  <2> HIDE DEF w
  <2>4. /\ ready \o w \in Seq(Task) /\ IsInjective(ready \o w)
        /\ Range(ready \o w) = Range(ready) \cup Range(w)
    BY <1>3, <2>1, <2>3, PushAll
  <2>5. ready' = ready \o w /\ UNCHANGED <<running, pc, uq, rx, buf, burst>>
    BY <1>6 DEF BlkIrq, uartVars, w
  <2>6. dev' = [t \in Task |-> IF t \in Used THEN "free" ELSE dev[t]]
    BY <1>6 DEF BlkIrq
  <2>7. dev' \in [Task -> {"free", "submitted", "used"}]
    BY <1>3, <2>6
  <2>8. \A t \in Task : /\ dev'[t] # "free" => dev[t] # "free"
                        /\ t \in Range(w) => dev'[t] = "free"
    BY <2>1, <2>6
  <2> QED
    BY <2>1, <2>2, <2>4, <2>5, <2>7, <2>8, Zenon DEF PlaceInv
<1>7. CASE UartIrq
  <2>1. /\ buf' \in Nat /\ rx' \in Nat /\ burst' \in BOOLEAN
        /\ UNCHANGED <<running, pc, dev>>
    BY <1>3, <1>7 DEF UartIrq
  <2>2. CASE uq = <<>>
    BY <1>7, <2>1, <2>2, Zenon DEF UartIrq, PlaceInv
  <2>3. CASE uq # <<>>
    <3>1. /\ Head(uq) \in Task /\ Head(uq) \in Range(uq) /\ Tail(uq) \in Seq(Task)
          /\ IsInjective(Tail(uq)) /\ Range(Tail(uq)) = Range(uq) \ {Head(uq)}
      BY <1>3, <2>3, PopFront, Zenon
    <3>2. Head(uq) \notin Range(ready) /\ Head(uq) # running /\ dev[Head(uq)] = "free"
      BY <3>1 DEF PlaceInv
    <3>3. /\ Append(ready, Head(uq)) \in Seq(Task) /\ IsInjective(Append(ready, Head(uq)))
          /\ Range(Append(ready, Head(uq))) = Range(ready) \cup {Head(uq)}
      BY <1>3, <3>1, <3>2, PushBack
    <3>4. ready' = Append(ready, Head(uq)) /\ uq' = Tail(uq)
      BY <1>7, <2>3, Zenon DEF UartIrq
    <3> QED
      BY <2>1, <3>1, <3>2, <3>3, <3>4, Zenon DEF PlaceInv
  <2> QED
    BY <2>2, <2>3
<1>8. CASE CharArrives
  BY <1>3, <1>8 DEF CharArrives, PlaceInv, sched
<1>9. ASSUME NEW t \in Task, Complete(t) PROVE PlaceInv'
  <2>1. /\ dev[t] = "submitted" /\ dev' = [dev EXCEPT ![t] = "used"]
        /\ UNCHANGED <<running, ready, pc, uq, rx, buf, burst>>
    BY <1>9 DEF Complete, sched, uartVars
  <2> QED
    BY <1>3, <2>1 DEF PlaceInv
<1>10. ASSUME NEW t \in Task, Preempt(t) \/ Yield(t) PROVE PlaceInv'
  <2>1. /\ running = t /\ pc[t] = "user" /\ ready' = Append(ready, t) /\ running' = NONE
        /\ UNCHANGED <<pc, uq, dev, rx, buf, burst>>
    BY <1>10, Zenon DEF Preempt, Yield, Schedule, uartVars
  <2>2. t \notin Range(ready) /\ t \notin Range(uq) /\ dev[t] = "free"
    BY <2>1, Zenon DEF PlaceInv
  <2>3. /\ ready' \in Seq(Task) /\ IsInjective(ready') /\ Range(ready') = Range(ready) \cup {t}
    BY <1>3, <2>1, <2>2, PushBack
  <2>4. pc' = [pc EXCEPT ![t] = "user"]
    BY <1>2, <2>1
  <2> QED
    BY <1>2, <1>3, <2>1, <2>2, <2>3, <2>4, TaskParks, Zenon DEF Parked
<1>11. ASSUME NEW t \in Task, NEW c \in Call, Syscall(t, c) PROVE PlaceInv'
  <2>1. \E x : pc' = [pc EXCEPT ![t] = x]
    BY <1>11, Zenon DEF Syscall
  <2> QED
    BY <1>2, <1>3, <1>11, <2>1, TaskMoves, Zenon DEF Syscall, sched, uartVars
<1>12. ASSUME NEW t \in Task, InKernel(t), ~WaitTransfer(t), ~UartRead(t) PROVE PlaceInv'
  <2>1. running = t /\ UNCHANGED <<running, ready, dev, uq, rx, buf, burst>>
    BY <1>12, Zenon DEF InKernel, Open, FsLock, GetBlockCache, UseBlock, SyncLock, SyncNext,
                 Submit, Resume, UartOpen, Return, sched, uartVars
  <2>2. \E x : pc' = [pc EXCEPT ![t] = x]
    BY <1>12, Zenon DEF InKernel, Open, FsLock, GetBlockCache, UseBlock, SyncLock,
                        SyncNext, Submit, Resume, UartOpen, Return
  <2> QED
    BY <1>2, <1>3, <2>1, <2>2, TaskMoves, Zenon
<1>13. ASSUME NEW t \in Task, WaitTransfer(t) PROVE PlaceInv'
  <2>1. /\ running = t /\ running' = NONE /\ dev' = [dev EXCEPT ![t] = "submitted"]
        /\ pc' = [pc EXCEPT ![t] = "resp"] /\ UNCHANGED <<ready, uq, rx, buf, burst>>
    BY <1>13, Zenon DEF WaitTransfer, Schedule, uartVars
  <2>2. t \notin Range(ready) /\ t \notin Range(uq)
    BY <2>1 DEF PlaceInv
  <2>3. dev' \in [Task -> {"free", "submitted", "used"}]
        /\ \A u \in Task : u # t => dev'[u] = dev[u]
    BY <1>3, <2>1
  <2> QED
    BY <1>2, <1>3, <2>1, <2>2, <2>3, TaskParks, Zenon DEF Parked
<1>14. ASSUME NEW t \in Task, UartRead(t) PROVE PlaceInv'
  <2>1. running = t /\ UNCHANGED <<ready, dev, rx, burst>>
    BY <1>14, Zenon DEF UartRead
  <2>2. CASE buf > 0
    BY <1>2, <1>3, <1>14, <2>1, <2>2, TaskMoves, SMTT(30) DEF UartRead
  <2>3. CASE buf = 0
    <3>1. /\ running' = NONE /\ uq' = Append(uq, t) /\ pc' = [pc EXCEPT ![t] = "uart"]
          /\ UNCHANGED buf
      BY <1>14, <2>3 DEF UartRead, Schedule
    <3>2. t \notin Range(ready) /\ t \notin Range(uq) /\ dev[t] = "free"
      BY <2>1 DEF PlaceInv
    <3>3. /\ uq' \in Seq(Task) /\ IsInjective(uq') /\ Range(uq') = Range(uq) \cup {t}
      BY <1>3, <3>1, <3>2, PushBack
    <3> QED
      BY <1>2, <1>3, <2>1, <3>1, <3>2, <3>3, TaskParks, Zenon DEF Parked
  <2> QED
    BY <1>3, <2>2, <2>3
<1> QED
  BY <1>4, <1>5, <1>6, <1>7, <1>8, <1>9, <1>10, <1>11, <1>12, <1>13, <1>14, SMTT(30) DEF Next
-----------------------------------------------------------------------------
(* Steps that neither wake a reader nor take a character. *)
LEMMA ReadersStay ==
  ASSUME PlaceInv, ReaderInv, UNCHANGED <<uq, buf, burst>>,
         \A t \in Task : pc[t] \in {"uart", "uartin"} => pc'[t] \in {"uart", "uartin"}
  PROVE  ReaderInv'
<1>1. Awake \subseteq Awake' /\ Awake' \subseteq Task
  BY DEF Awake
<1>2. IsFiniteSet(Awake')
  BY <1>1, BlockIoAssumption, FS_Subset, Zenon
<1>3. IsFiniteSet(Awake) /\ Cardinality(Awake) <= Cardinality(Awake')
  BY <1>1, <1>2, FS_Subset, Zenon
<1>4. Cardinality(Awake) \in Nat /\ Cardinality(Awake') \in Nat /\ buf \in Nat
  BY <1>2, <1>3, FS_CardinalityType, Zenon DEF PlaceInv
<1> QED
  BY <1>3, <1>4 DEF ReaderInv

LEMMA ReaderInit == Init => ReaderInv
  BY DEF Init, ReaderInv

LEMMA ReaderStep == CellInv /\ PlaceInv /\ ReaderInv /\ [Next]_vars => ReaderInv'
<1> SUFFICES ASSUME CellInv, PlaceInv, ReaderInv, [Next]_vars PROVE ReaderInv'
  OBVIOUS
<1>1. pc \in [Task -> PcValues]
  BY DEF CellInv
<1>2. uq \in Seq(Task) /\ IsInjective(uq) /\ rx \in Nat /\ buf \in Nat /\ burst \in BOOLEAN
  BY DEF PlaceInv
<1>3. IsFiniteSet(Awake) /\ Cardinality(Awake) \in Nat
  <2>1. Awake \subseteq Task
    BY DEF Awake
  <2> QED
    BY <2>1, BlockIoAssumption, FS_Subset, FS_CardinalityType, Zenon
<1>4. CASE UNCHANGED vars
  BY <1>4, ReadersStay DEF vars
<1>5. CASE Dispatch \/ BlkIrq \/ CharArrives
  BY <1>5, ReadersStay, Zenon DEF Dispatch, BlkIrq, CharArrives, uartVars
<1>6. CASE UartIrq
  <2>1. CASE uq = <<>>
    BY <1>6, <2>1 DEF UartIrq, ReaderInv
  <2>2. CASE uq # <<>>
    <3>1. /\ Head(uq) \in Task /\ Head(uq) \in Range(uq)
          /\ Range(Tail(uq)) = Range(uq) \ {Head(uq)}
      BY <1>2, <2>2, PopFront, Zenon
    <3>2. pc[Head(uq)] = "uart" /\ Head(uq) \notin Awake
      BY <3>1 DEF PlaceInv, Awake
    <3>3. Awake' = Awake \cup {Head(uq)}
      BY <1>6, <2>2, <3>1, <3>2, Zenon DEF UartIrq, Awake
    <3>4. Cardinality(Awake') = Cardinality(Awake) + 1
      BY <1>3, <3>2, <3>3, FS_AddElement, Zenon
    <3>5. ~burst' => ~burst /\ buf' = buf + 1
      <4>1. ~burst' => ~burst /\ ~(rx > 1)
        BY <1>6, Zenon DEF UartIrq
      <4>2. buf' = buf + rx /\ rx > 0
        BY <1>6 DEF UartIrq
      <4> QED
        BY <1>2, <4>1, <4>2
    <3> QED
      BY <1>2, <1>3, <2>2, <3>4, <3>5 DEF ReaderInv
  <2> QED
    BY <2>1, <2>2
<1>7. ASSUME NEW t \in Task, Preempt(t) \/ Yield(t) \/ Complete(t) PROVE ReaderInv'
  BY <1>7, ReadersStay, Zenon DEF Preempt, Yield, Complete, uartVars
<1>8. ASSUME NEW t \in Task, NEW c \in Call, Syscall(t, c) PROVE ReaderInv'
  <2>1. pc[t] = "user" /\ \E x : pc' = [pc EXCEPT ![t] = x]
    BY <1>8, Zenon DEF Syscall
  <2> QED
    BY <1>1, <1>8, <2>1, ReadersStay DEF Syscall, uartVars
<1>9. ASSUME NEW t \in Task, InKernel(t), ~UartRead(t) PROVE ReaderInv'
  <2>1. UNCHANGED <<uq, buf, burst>>
    BY <1>9, Zenon DEF InKernel, Open, FsLock, GetBlockCache, UseBlock, SyncLock, SyncNext,
                Submit, WaitTransfer, Resume, UartOpen, Return, uartVars
  <2>2. \/ pc[t] # "uart" /\ pc[t] # "uartin" /\ \E x : pc' = [pc EXCEPT ![t] = x]
        \/ pc' = [pc EXCEPT ![t] = "uartin"]
    BY <1>9, Zenon DEF InKernel, Open, FsLock, GetBlockCache, UseBlock, SyncLock,
                       SyncNext, Submit, WaitTransfer, Resume, UartOpen, Return
  <2> QED
    BY <1>1, <2>1, <2>2, ReadersStay
<1>10. ASSUME NEW t \in Task, UartRead(t) PROVE ReaderInv'
  <2>1. t \in Awake
    BY <1>10 DEF UartRead, PlaceInv, Awake
  <2>2. CASE buf > 0
    <3>1. Awake' = Awake \ {t}
      BY <1>1, <1>10, <2>2 DEF UartRead, Awake
    <3>2. Cardinality(Awake') = Cardinality(Awake) - 1
      BY <1>3, <2>1, <3>1, FS_RemoveElement, Zenon
    <3>3. buf' = buf - 1 /\ UNCHANGED <<uq, burst>>
      BY <1>10, <2>2 DEF UartRead
    <3> QED
      BY <1>2, <1>3, <3>2, <3>3 DEF ReaderInv
  <2>3. CASE buf = 0
    <3>1. buf' = 0
      BY <1>10, <2>3 DEF UartRead
    <3>2. IsFiniteSet(Awake')
      BY BlockIoAssumption, FS_Subset, Zenon DEF Awake
    <3>3. Cardinality(Awake') \in Nat
      BY <3>2, FS_CardinalityType
    <3> QED
      BY <3>1, <3>3 DEF ReaderInv
  <2> QED
    BY <1>2, <2>2, <2>3
<1> QED
  BY <1>4, <1>5, <1>6, <1>7, <1>8, <1>9, <1>10, Zenon DEF Next

LEMMA ReaderInvSuffices == PlaceInv /\ ReaderInv => NoStrandedReader
<1> SUFFICES ASSUME PlaceInv, ReaderInv, ~burst, uq # <<>>, buf > 0
             PROVE  \E t \in Task : pc[t] \in {"uart", "uartin"} /\ t \notin Range(uq)
  BY DEF NoStrandedReader
<1>1. IsFiniteSet(Awake)
  BY BlockIoAssumption, FS_Subset DEF Awake
<1>2. Cardinality(Awake) \in Nat /\ Cardinality(Awake) >= buf
  BY <1>1, FS_CardinalityType, Zenon DEF ReaderInv
<1>3. Awake # {}
  BY <1>1, <1>2, FS_EmptySet DEF PlaceInv
<1> QED
  BY <1>3 DEF Awake

ReadersInv == CellInv /\ PlaceInv /\ ReaderInv

(* NS16550a::read and its interrupt handler lose no wake-up while interrupts  *)
(* deliver one character each.                                                *)
THEOREM NoReaderStranded == Spec => []NoStrandedReader
<1>1. Init => ReadersInv
  BY InitCell, PlaceInit, ReaderInit, Zenon DEF ReadersInv
<1>2. ReadersInv /\ [Next]_vars => ReadersInv'
  BY NextCell, PlaceStep, ReaderStep DEF ReadersInv
<1>3. ReadersInv => NoStrandedReader
  BY ReaderInvSuffices DEF ReadersInv
<1> QED
  BY <1>1, <1>2, <1>3, PTL DEF Spec
-----------------------------------------------------------------------------
(* A task with an OSInode borrowed never waits for the serial port, and a     *)
(* task panics only while another thread of its process has the borrow.       *)
BorrowInv ==
  \A t \in Task :
    /\ t \in guard => pc[t] \notin {"uart", "uartin"}
    /\ pc[t] = "panic" => \E u \in guard \ {t} : ProcessOf[u] = ProcessOf[t]

LEMMA BorrowInit == Init => BorrowInv
  BY DEF Init, BorrowInv

(* A step that neither borrows nor lets go, and that sends only a task        *)
(* without a borrow to the serial port.                                       *)
LEMMA BorrowQuiet ==
  ASSUME BorrowInv, guard' = guard,
         \A u \in Task : /\ pc'[u] \in {"uart", "uartin"} =>
                              pc[u] \in {"uart", "uartin"} \/ u \notin guard
                         /\ pc'[u] = "panic" => pc[u] = "panic"
  PROVE  BorrowInv'
  BY DEF BorrowInv

LEMMA BorrowStep == CellInv /\ PlaceInv /\ BorrowInv /\ [Next]_vars => BorrowInv'
<1> SUFFICES ASSUME CellInv, PlaceInv, BorrowInv, [Next]_vars PROVE BorrowInv'
  OBVIOUS
<1>1. pc \in [Task -> PcValues]
  BY DEF CellInv
<1>2. CASE UNCHANGED vars
  BY <1>2, Zenon DEF vars, BorrowInv
<1>3. CASE Dispatch \/ BlkIrq \/ UartIrq \/ CharArrives
  BY <1>3, BorrowQuiet, Zenon DEF Dispatch, BlkIrq, UartIrq, CharArrives
<1>4. ASSUME NEW t \in Task, Preempt(t) \/ Yield(t) \/ Complete(t) PROVE BorrowInv'
  BY <1>4, BorrowQuiet, Zenon DEF Preempt, Yield, Complete
<1>5. ASSUME NEW t \in Task, NEW c \in Call, Syscall(t, c) PROVE BorrowInv'
  <2>1. PICK x \in {"uart", "fslock", "open"} : pc' = [pc EXCEPT ![t] = x]
    BY <1>5, Zenon DEF Syscall
  <2>2. guard' = guard /\ t \notin guard
    BY <1>5, Zenon DEF Syscall, CellInv
  <2> QED
    BY <1>1, <2>1, <2>2, BorrowQuiet, Zenon
<1>6. ASSUME NEW t \in Task, Open(t) PROVE BorrowInv'
  <2>1. running = t /\ guard' = guard \cup {t} /\ t \notin guard
    BY <1>6, Zenon DEF Open, CellInv
  <2>2. PICK x \in {"get", "fslock", "panic"} :
          /\ pc' = [pc EXCEPT ![t] = x]
          /\ x = "panic" => \E u \in guard : ProcessOf[u] = ProcessOf[t]
    BY <1>6, Zenon DEF Open
  <2> QED
    BY <1>1, <2>1, <2>2, Zenon DEF BorrowInv
<1>7. ASSUME NEW t \in Task, Return(t) PROVE BorrowInv'
  <2>1. /\ running = t /\ pc[t] = "ret" /\ pc' = [pc EXCEPT ![t] = "user"]
        /\ guard' = guard \ {t}
    BY <1>7, Zenon DEF Return
  <2>2. \A u \in Task : pc'[u] # "panic"
    BY <1>1, <2>1, Zenon DEF PlaceInv, Parked
  <2> QED
    BY <1>1, <2>1, <2>2, Zenon DEF BorrowInv
<1>8. ASSUME NEW t \in Task, FsLock(t) \/ GetBlockCache(t) \/ UseBlock(t)
                             \/ SyncLock(t) \/ SyncNext(t) \/ Submit(t)
                             \/ WaitTransfer(t) \/ Resume(t)
      PROVE  BorrowInv'
  <2>1. PICK x \in {"get", "use", "submit", "syncall", "sync", "ret", "session", "resp"} :
          pc' = [pc EXCEPT ![t] = x]
    BY <1>8, Zenon DEF FsLock, GetBlockCache, UseBlock, SyncLock, SyncNext,
                       Submit, WaitTransfer, Resume
  <2>2. guard' = guard
    BY <1>8, Zenon DEF FsLock, GetBlockCache, UseBlock, SyncLock, SyncNext,
                       Submit, WaitTransfer, Resume
  <2> QED
    BY <1>1, <2>1, <2>2, BorrowQuiet, Zenon
<1>9. ASSUME NEW t \in Task, UartOpen(t) \/ UartRead(t) PROVE BorrowInv'
  <2>1. PICK x \in {"uartin", "uart", "ret"} : pc' = [pc EXCEPT ![t] = x]
    BY <1>9, Zenon DEF UartOpen, UartRead
  <2>2. guard' = guard /\ pc[t] \in {"uart", "uartin"}
    BY <1>9, Zenon DEF UartOpen, UartRead
  <2> QED
    BY <1>1, <2>1, <2>2, BorrowQuiet, Zenon
<1> QED
  BY <1>2, <1>3, <1>4, <1>5, <1>6, <1>7, <1>8, <1>9, Zenon DEF Next, InKernel

BlockInv == CellInv /\ PlaceInv /\ LockInv /\ CacheInv /\ BorrowInv

LEMMA AlwaysBlockInv == Spec => []BlockInv
<1>1. Init => BlockInv
  BY InitCell, PlaceInit, LockInit, CacheInit, BorrowInit, Zenon DEF BlockInv
<1>2. BlockInv /\ [Next]_vars => BlockInv'
  BY NextCell, PlaceStep, LockStep, CacheStep, BorrowStep, Zenon DEF BlockInv
<1> QED
  BY <1>1, <1>2, PTL DEF Spec

LEMMA LockInvSuffices == BlockInv => SpinsOnlyBehindTransfer
<1> SUFFICES ASSUME BlockInv PROVE SpinsOnlyBehindTransfer
  OBVIOUS
<1>1. CellInv /\ PlaceInv /\ LockInv /\ CacheInv
  BY DEF BlockInv
<1>2. ASSUME NEW t \in Task, Spins(t) PROVE Holder(t) # t /\ pc[Holder(t)] = "resp"
  <2>1. /\ running = t /\ pc[t] \notin Locked
        /\ pc[t] = "fslock" => Holder(t) = fs /\ fs \in Task
        /\ pc[t] # "fslock" => Holder(t) = mgr /\ mgr \in Task
    BY <1>1, <1>2, Zenon DEF Spins, Holder, LockInv, Locked, Transferring
  <2>2. \A u \in Task : u # t => pc[u] \in Parked
    BY <1>1, <2>1, Zenon DEF PlaceInv
  <2>3. CASE pc[t] = "fslock"
    <3>1. fs # t /\ pc[fs] \in FilePc
      BY <1>1, <2>1, <2>3, Zenon DEF LockInv
    <3> QED
      BY <2>1, <2>2, <2>3, <3>1, Zenon DEF FilePc, Locked, Transferring, Parked
  <2>4. CASE pc[t] # "fslock"
    <3>1. mgr # t /\ pc[mgr] \in Locked
      BY <1>1, <2>1, <2>4, Zenon DEF LockInv
    <3> QED
      BY <2>1, <2>2, <2>4, <3>1, Zenon DEF Locked, Transferring, Parked
  <2> QED
    BY <2>3, <2>4, Zenon
<1>3. ASSUME Len(cache) = BLOCK_CACHE_SIZE PROVE Evictable # {}
  <2>1. 1 \in DOMAIN cache /\ 2 \in DOMAIN cache
    <3>1. cache \in Seq(Entry)
      BY <1>1, Zenon DEF CacheInv
    <3>2. DOMAIN cache = 1..BLOCK_CACHE_SIZE
      BY <1>3, <3>1, LenProperties, ZenonT(30)
    <3> QED
      BY ONLY <3>2, BlockIoAssumption
  <2>2. cache[1].id # cache[2].id
    BY <1>1, <2>1, SMTT(30) DEF CacheInv
  <2> QED
    BY <2>1, <2>2, Zenon DEF Evictable, Referenced
<1>4. ASSUME NEW t \in Task, pc[t] = "panic"
      PROVE  \E u \in guard \ {t} : ProcessOf[u] = ProcessOf[t] /\ pc[u] = "resp"
  <2>1. PICK u \in guard \ {t} : ProcessOf[u] = ProcessOf[t]
    BY <1>4, Zenon DEF BlockInv, BorrowInv
  <2>2. u \in Task /\ pc[u] \notin {"user", "uart"}
    BY <2>1, Zenon DEF BlockInv, CellInv, BorrowInv
  <2>3. running = t /\ running # u
    BY <1>4, <2>1, Zenon DEF BlockInv, PlaceInv, Parked
  <2>4. pc[u] \in Parked
    BY <2>2, <2>3, Zenon DEF BlockInv, PlaceInv
  <2> QED
    BY <2>1, <2>2, <2>4, Zenon DEF Parked
<1> QED
  BY <1>2, <1>3, <1>4, Zenon DEF SpinsOnlyBehindTransfer

LEMMA CacheInvSuffices == BlockInv => CacheCoherent
<1> SUFFICES ASSUME BlockInv PROVE CacheCoherent
  OBVIOUS
<1>1. CellInv /\ PlaceInv /\ LockInv /\ CacheInv
  BY DEF BlockInv
<1>2. TypeOK
  BY <1>1, Zenon DEF TypeOK, CellInv, PlaceInv, LockInv, CacheInv, PcValues, Mask, Entry
<1>3. ASSUME NEW b \in AllBlocks PROVE Cardinality(Position(b)) <= 1
  <2>1. \A i, j \in Position(b) : i = j
    BY <1>1 DEF Position, CacheInv
  <2>2. CASE Position(b) = {}
    BY <2>2, FS_EmptySet
  <2>3. CASE Position(b) # {}
    <3>1. PICK i : Position(b) = {i}
      BY <2>1, <2>3
    <3>2. Cardinality({i}) = 1
      BY FS_Singleton, Zenon
    <3> QED
      BY <3>1, <3>2
  <2> QED
    BY <2>2, <2>3, Zenon
<1>4. ASSUME NEW b \in AllBlocks PROVE \A i \in Position(b) : cache[i].last
  BY <1>1 DEF Position, CacheInv
<1>5. ASSUME NEW b \in AllBlocks
      PROVE  \/ Position(b) # {} \/ disk[b]
             \/ \E t \in Task : req[t].op = "write" /\ req[t].id = b /\ req[t].last
  <2>1. Position(b) # {} \/ disk[b] \/ Saving(b)
    BY <1>1, Zenon DEF CacheInv
  <2>2. \A t \in Task : req[t].op = "write" => req[t].last
    <3>1. req \in [Task -> {NoReq} \cup Load \cup Save]
      BY <1>1, Zenon DEF CacheInv
    <3>2. \A t \in Task : req[t].op = "write" => req[t] \in Save
      BY <3>1, SMTT(30) DEF Load, NoReq
    <3>3. \A t \in Task : req[t].op = "write" => req[t].last = TRUE
      BY <3>2, Zenon DEF Save
    <3> QED
      BY <3>3, Zenon
  <2> QED
    BY <2>1, <2>2, Zenon DEF Saving
<1> QED
  BY <1>2, <1>3, <1>4, <1>5, Zenon DEF CacheCoherent

(* The spin locks of easy-fs: whoever spins in the kernel waits for a task    *)
(* that a block transfer will wake, never for itself and never for a task     *)
(* stopped in the middle of kernel code; and the cache never runs out.        *)
THEOREM SpinsBehindTransfers == Spec => []SpinsOnlyBehindTransfer
  BY AlwaysBlockInv, LockInvSuffices, PTL

(* get_block_cache hands out what was last stored in the block, through every *)
(* eviction, write-back and load of a cache of any size; and the state keeps  *)
(* its type.                                                                  *)
THEOREM CacheIsCoherent == Spec => []CacheCoherent
  BY AlwaysBlockInv, CacheInvSuffices, PTL

(* block_cache_sync_all returns with everything stored before it on the       *)
(* device, and it stays there until the block is modified again.              *)
THEOREM SyncReachesDisk == Spec => []SyncedIsOnDisk
<1>1. BlockInv => SyncedIsOnDisk
  BY DEF BlockInv, CacheInv, SyncedIsOnDisk
<1> QED
  BY <1>1, AlwaysBlockInv, PTL
==============================================================================
