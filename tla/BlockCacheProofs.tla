--------------------------- MODULE BlockCacheProofs ---------------------------
(* The device has its areas, inodes and bits apart; the invariants of the      *)
(* drivers, of the scheduler and of the block cache, and the steps of those of *)
(* the cache and its two spin locks. BlockIoProofs adds the steps of the       *)
(* others and concludes.                                                       *)
EXTENDS BlockIo, DiskLayout, WellFoundedInduction, TLAPS
-----------------------------------------------------------------------------
(* The areas of the device *)

(* The inode area has a quarter of a block for every bit of the inode bitmap. *)
LEMMA InodeArea ==
  ASSUME NEW ib \in Nat
  PROVE  inode_area_blocks(ib) = 1024 * ib
  BY DEF inode_area_blocks, BLOCK_BITS, INODE_SIZE, BLOCK_SZ

(* The comment in create on "4097 and not 4096": with (n + 4096) / 4097       *)
(* blocks the data bitmap has a bit for every block of the data area, and it  *)
(* is the smallest number of blocks for which it has.                         *)
THEOREM DataBitmapCovers ==
  ASSUME NEW n \in Nat
  PROVE  /\ data_bitmap_blocks(n) \in Nat
         /\ n - data_bitmap_blocks(n) <= BLOCK_BITS * data_bitmap_blocks(n)
         /\ \A x \in Nat : n - x <= BLOCK_BITS * x => data_bitmap_blocks(n) <= x
  BY DEF data_bitmap_blocks, BLOCK_BITS

(* Read back from the super block, the five areas follow each other without a *)
(* gap or an overlap, and the last one ends with the device.                  *)
THEOREM AreasPartition ==
  ASSUME NEW total \in Nat, NEW ib \in Nat, 1 + ib + inode_area_blocks(ib) <= total
  PROVE  LET sb == SuperBlock(total, ib)
             o  == AreasOf(sb)
         IN /\ o.inode_area = o.inode_bitmap + sb.inode_bitmap_blocks
            /\ o.data_bitmap = o.inode_area + sb.inode_area_blocks
            /\ o.data_area = o.data_bitmap + sb.data_bitmap_blocks
            /\ total = o.data_area + sb.data_area_blocks
            /\ sb.data_area_blocks \in Nat
<1> DEFINE n == data_total_blocks(total, ib)
<1>1. inode_area_blocks(ib) = 1024 * ib
  BY InodeArea
<1>2. n \in Nat /\ n = total - 1 - (ib + 1024 * ib)
  BY <1>1 DEF data_total_blocks
<1>3. data_bitmap_blocks(n) \in Nat /\ data_bitmap_blocks(n) <= n
  BY <1>2 DEF data_bitmap_blocks
<1> QED
  BY <1>1, <1>2, <1>3 DEF SuperBlock, AreasOf

(* get_disk_inode_pos gives every inode of the bitmap a place of its own, in  *)
(* the inode area, that does not reach over the end of its block (the         *)
(* assertion in BlockCache::get_mut).                                         *)
THEOREM InodesApart ==
  ASSUME NEW ib \in Nat, NEW start \in Nat,
         NEW i \in 0..(ib * BLOCK_BITS - 1), NEW j \in 0..(ib * BLOCK_BITS - 1)
  PROVE  LET p == get_disk_inode_pos(start, i)
             q == get_disk_inode_pos(start, j)
         IN /\ p[1] \in start..(start + inode_area_blocks(ib) - 1)
            /\ p[2] + INODE_SIZE <= BLOCK_SZ
            /\ i # j => p[1] # q[1] \/ p[2] + INODE_SIZE <= q[2] \/ q[2] + INODE_SIZE <= p[2]
<1>1. inode_area_blocks(ib) = 1024 * ib
  BY InodeArea
<1>2. i \div 4 \in 0..(1024 * ib - 1) /\ i % 4 \in 0..3 /\ j % 4 \in 0..3
  BY DEF BLOCK_BITS
<1>3. i \div 4 = j \div 4 /\ i % 4 = j % 4 => i = j
  OBVIOUS
<1> QED
  BY <1>1, <1>2, <1>3
  DEF get_disk_inode_pos, INODES_PER_BLOCK, INODE_SIZE, BLOCK_SZ, BLOCK_BITS

(* dealloc clears the bit that alloc set: decompsition takes the bit number   *)
(* apart into the block, the word and the bit that alloc made it from.        *)
THEOREM BitFoundAgain ==
  ASSUME NEW idx \in Nat, NEW w \in 0..63, NEW b \in 0..63
  PROVE  decompsition(BitAt(idx, w, b)) = <<idx, w, b>>
<1> DEFINE bit == BitAt(idx, w, b)
<1>1. bit \div 4096 = idx /\ bit % 4096 = w * 64 + b
  BY DEF BitAt, BLOCK_BITS
<1>2. (w * 64 + b) \div 64 = w /\ (w * 64 + b) % 64 = b
  OBVIOUS
<1> QED
  BY <1>1, <1>2 DEF decompsition, BLOCK_BITS
-----------------------------------------------------------------------------
(* The invariants *)

Borrowed(c) == IF cell[c] = NONE THEN 0 ELSE 1

PcValues == {"user", "open", "fslock", "get", "use", "syncall", "sync",
             "submit", "session", "resp", "uart", "uartin", "ret", "panic"}

Mask == [nested : Nat, before : BOOLEAN, sie : BOOLEAN]

(* A driver's cell is borrowed only by the running task, in the middle of its *)
(* session, with interrupts off. The borrow of an OSInode outlives a switch,  *)
(* and a system call of another task then turns interrupts on again, so that  *)
(* nested_level > 0 says nothing about them: what keeps the handlers out is   *)
(* that the session's own `enter` turned them off after that.                 *)
CellInv ==
  /\ pc \in [Task -> PcValues]
  /\ guard \subseteq Task /\ IsFiniteSet(guard)
  /\ mask \in Mask
  /\ cell \in [{"blk", "uart"} -> Task \cup {NONE}]
  /\ \A t \in Task : /\ pc[t] \in {"user", "open"} => t \notin guard
                     /\ pc[t] = "session" <=> cell["blk"] = t
                     /\ pc[t] = "uartin" <=> cell["uart"] = t
  /\ \A c \in {"blk", "uart"} : cell[c] # NONE => running = cell[c] /\ ~mask.sie
  /\ mask.nested = Cardinality(guard) + Borrowed("blk") + Borrowed("uart")

(* A task is in one place: on the processor, in the ready queue, asleep on    *)
(* the serial port, or in the hands of the block device. Only a task that     *)
(* runs is in the middle of kernel code.                                      *)
Parked == {"user", "uart", "resp"}
PlaceInv ==
  /\ running \in Task \cup {NONE} /\ ready \in Seq(Task) /\ uq \in Seq(Task)
  /\ dev \in [Task -> {"free", "submitted", "used"}]
  /\ rx \in Nat /\ buf \in Nat /\ burst \in BOOLEAN
  /\ IsInjective(ready) /\ IsInjective(uq)
  /\ \A t \in Task :
       /\ pc[t] \notin Parked => running = t
       /\ t \in Range(uq) => pc[t] = "uart"
       /\ dev[t] # "free" => pc[t] = "resp"
       /\ t = running \/ t \in Range(ready) => t \notin Range(uq) /\ dev[t] = "free"
       /\ t = running => t \notin Range(ready)

-----------------------------------------------------------------------------
(* Sequences *)

(* The indexes of a Vec are those below its length, counted from one here. *)
LEMMA LenProperties ==
  ASSUME NEW S, NEW s \in Seq(S)
  PROVE  Len(s) \in Nat /\ s \in [1..Len(s) -> S] /\ DOMAIN s = 1..Len(s)
OBVIOUS

(* Indexing a Vec within its length. *)
LEMMA ElementOfSeq ==
  ASSUME NEW S, NEW s \in Seq(S), NEW n \in 1..Len(s)
  PROVE  s[n] \in S
OBVIOUS

(* Vec::new, and is_empty. *)
LEMMA EmptySeq ==
  ASSUME NEW S
  PROVE  /\ <<>> \in Seq(S) /\ Len(<<>>) = 0
         /\ \A s \in Seq(S) : s # <<>> => Len(s) \in Nat \ {0}
OBVIOUS

(* push_back. *)
LEMMA AppendProperties ==
  ASSUME NEW S, NEW s \in Seq(S), NEW e \in S
  PROVE  /\ Append(s, e) \in Seq(S)
         /\ Len(Append(s, e)) = Len(s) + 1
         /\ \A i \in 1..Len(s) : Append(s, e)[i] = s[i]
         /\ Append(s, e)[Len(s) + 1] = e
OBVIOUS

(* pop_front. *)
LEMMA HeadTailProperties ==
  ASSUME NEW S, NEW s \in Seq(S), s # <<>>
  PROVE  /\ Head(s) \in S /\ Tail(s) \in Seq(S)
         /\ Len(Tail(s)) = Len(s) - 1
         /\ \A i \in 1..Len(Tail(s)) : Tail(s)[i] = s[i + 1]
OBVIOUS

(* append and extend. *)
LEMMA ConcatProperties ==
  ASSUME NEW S, NEW s \in Seq(S), NEW r \in Seq(S)
  PROVE  /\ s \o r \in Seq(S)
         /\ Len(s \o r) = Len(s) + Len(r)
         /\ \A i \in 1..(Len(s) + Len(r)) :
              (s \o r)[i] = IF i <= Len(s) THEN s[i] ELSE r[i - Len(s)]
OBVIOUS

LEMMA RangeConcatenation ==
  ASSUME NEW S, NEW s \in Seq(S), NEW r \in Seq(S)
  PROVE  Range(s \o r) = Range(s) \cup Range(r)
<1>1. \A x \in Range(s \o r) : x \in Range(s) \cup Range(r)
  BY DEF Range
<1>2. \A x \in Range(s) : x \in Range(s \o r)
  <2>1. \A i \in 1..Len(s) : i \in DOMAIN (s \o r) /\ (s \o r)[i] = s[i]
    OBVIOUS
  <2>. QED BY <2>1 DEF Range
<1>3. ASSUME NEW x \in Range(r) PROVE x \in Range(s \o r)
  <2>1. PICK i \in 1..Len(r) : x = r[i]
    BY DEF Range
  <2>2. Len(s) + i \in DOMAIN (s \o r) /\ (s \o r)[Len(s) + i] = x
    BY <2>1
  <2>. QED BY <2>2 DEF Range
<1>. QED BY <1>1, <1>2, <1>3

(* truncate and drain leave a part of the Vec. *)
LEMMA SubSeqProperties ==
  ASSUME NEW S, NEW s, NEW m \in Int, NEW n \in Int, \A i \in m..n : s[i] \in S
  PROVE  /\ SubSeq(s, m, n) \in Seq(S)
         /\ Len(SubSeq(s, m, n)) = IF m <= n THEN n - m + 1 ELSE 0
         /\ \A i \in 1..(n - m + 1) : SubSeq(s, m, n)[i] = s[m + i - 1]
OBVIOUS

-----------------------------------------------------------------------------
(* The block cache and its locks *)

(* Who holds the two spin locks of easy-fs, by where they stand. *)
Transferring == {"submit", "session", "resp"}
Locked == Transferring \cup {"sync"}
FilePc == Locked \cup {"open", "fslock", "get", "use", "syncall"}
FileCall == [kind : {"read", "write", "link"}, blk : Block]
LockInv ==
  /\ mgr \in Task \cup {NONE} /\ fs \in Task \cup {NONE}
  /\ call \in [Task -> Call \cup {NONE}]
  /\ \A t \in Task : /\ pc[t] \in Locked <=> mgr = t
                     /\ pc[t] \in FilePc => call[t] \in FileCall
                     /\ pc[t] = "fslock" => call[t].kind # "read"
                     /\ pc[t] = "use" => mgr = NONE
                     /\ fs = t => /\ pc[t] \in FilePc \ {"open", "fslock"}
                                  /\ call[t].kind # "read"

(* What the cache, a transfer and the device hold. One task at a time has a   *)
(* transfer, the one that holds the manager's lock: an eviction's write-back  *)
(* is over before the load of the same call begins, and nobody modifies a     *)
(* block in between.                                                          *)
Entry == [id : AllBlocks, last : BOOLEAN, mod : BOOLEAN]
Load == [op : {"read"}, id : AllBlocks, last : BOOLEAN, next : {"push"}]
Save == [op : {"write"}, id : AllBlocks, last : {TRUE}, next : {"load", "sync"}]
Saving(b) == \E t \in Task : req[t].op = "write" /\ req[t].id = b
CacheInv ==
  /\ want \in [Task -> AllBlocks] /\ dirty \subseteq AllBlocks
  /\ cache \in Seq(Entry) /\ disk \in [AllBlocks -> BOOLEAN]
  /\ req \in [Task -> {NoReq} \cup Load \cup Save]
  /\ \A i, j \in DOMAIN cache : cache[i].id = cache[j].id => i = j
  /\ \A i \in DOMAIN cache : /\ cache[i].last
                             /\ cache[i].mod \/ disk[cache[i].id] \/ Saving(cache[i].id)
  /\ \A b \in AllBlocks : /\ b \in dirty \/ disk[b]
                          /\ Position(b) # {} \/ disk[b] \/ Saving(b)
  /\ \A t \in Task :
       /\ pc[t] \in Transferring <=> req[t] # NoReq
       /\ pc[t] = "use" => Position(want[t]) # {}
       /\ req[t] # NoReq /\ req[t].next # "sync" => Position(want[t]) = {}
       /\ req[t].op = "read" => req[t].id = want[t]
       /\ pc[t] = "resp" /\ dev[t] # "submitted" =>
            IF req[t].op = "read" THEN req[t].last ELSE disk[req[t].id]
-----------------------------------------------------------------------------
(* iter().find and position: the first of a set of indexes is one of them. *)
LEMMA FirstIsMember ==
  ASSUME NEW S \in SUBSET Nat, S # {}
  PROVE  FirstOf(S) \in S
<1>1. PICK i \in S : \A j \in S : ~(<<j, i>> \in OpToRel(<, Nat))
  BY NatLessThanWellFounded, WFMin, Zenon
<1>2. \A j \in S : ~(j < i)
  BY <1>1, Zenon DEF OpToRel
<1>3. \A j \in S : i <= j
  BY <1>2
<1> QED
  BY <1>3, Zenon DEF FirstOf
LEMMA LockInit == Init => LockInv
  BY BlockIoAssumption DEF Init, LockInv, Locked, Transferring, FilePc

(* A step of the running task that takes and releases no lock. *)
LEMMA LockMoves ==
  ASSUME LockInv, pc \in [Task -> PcValues], NEW t \in Task, NEW x,
         pc' = [pc EXCEPT ![t] = x], UNCHANGED <<mgr, fs, call>>,
         x \in Locked <=> pc[t] \in Locked,
         x \in FilePc => pc[t] \in FilePc,
         x = "fslock" => call[t].kind # "read",
         x # "use" \/ mgr = NONE,
         fs = t => x \in FilePc \ {"open", "fslock"}
  PROVE  LockInv'
  BY DEF LockInv

LEMMA LockStep == CellInv /\ PlaceInv /\ LockInv /\ [Next]_vars => LockInv'
<1> SUFFICES ASSUME CellInv, PlaceInv, LockInv, [Next]_vars PROVE LockInv'
  OBVIOUS
<1> USE DEF Transferring, Locked, FilePc
<1>1. pc \in [Task -> PcValues]
  BY DEF CellInv
<1>2. \A t \in Task : t # NONE
  BY BlockIoAssumption
<1>3. CASE UNCHANGED <<pc, mgr, fs, call>>
  BY <1>3 DEF LockInv
<1>4. ASSUME NEW t \in Task, NEW c \in Call, Syscall(t, c) PROVE LockInv'
  <2>1. /\ running = t /\ pc[t] = "user" /\ call' = [call EXCEPT ![t] = c]
        /\ UNCHANGED <<mgr, fs>>
    BY <1>4 DEF Syscall, blkVars
  <2>2. call' \in [Task -> Call \cup {NONE}]
    BY <2>1 DEF LockInv
  <2>3. CASE c.kind = "getc"
    <3>1. pc' = [pc EXCEPT ![t] = "uart"]
      BY <1>4, <2>3 DEF Syscall
    <3> QED
      BY <1>1, <2>1, <2>2, <3>1 DEF LockInv
  <2>4. CASE c.kind # "getc"
    <3>1. c \in FileCall
      BY <2>4 DEF Call, FileCall
    <3>2. CASE c.kind = "link"
      <4>1. pc' = [pc EXCEPT ![t] = "fslock"]
        BY <1>4, <3>2 DEF Syscall
      <4> QED
        BY <1>1, <2>1, <2>2, <3>1, <3>2, <4>1 DEF LockInv
    <3>3. CASE c.kind # "link"
      <4>1. pc' = [pc EXCEPT ![t] = "open"]
        BY <1>4, <2>4, <3>3, Zenon DEF Syscall
      <4> QED
        BY <1>1, <2>1, <2>2, <3>1, <4>1 DEF LockInv
    <3> QED
      BY <3>2, <3>3
  <2> QED
    BY <2>3, <2>4
<1>5. ASSUME NEW t \in Task, Return(t) PROVE LockInv'
  <2>1. /\ pc[t] = "ret" /\ pc' = [pc EXCEPT ![t] = "user"]
        /\ call' = [call EXCEPT ![t] = NONE] /\ UNCHANGED <<mgr, fs>>
    BY <1>5 DEF Return
  <2> QED
    BY <1>1, <2>1 DEF LockInv
<1>6. ASSUME NEW t \in Task, Open(t) PROVE LockInv'
  <2>1. /\ pc[t] = "open" /\ UNCHANGED <<mgr, fs, call>>
    BY <1>6 DEF Open, blkVars
  <2>2. PICK x \in {"get", "fslock", "panic"} :
          /\ pc' = [pc EXCEPT ![t] = x]
          /\ x = "fslock" => call[t].kind # "read"
    BY <1>6, Zenon DEF Open
  <2>3. fs # t
    BY <2>1 DEF LockInv
  <2> QED
    BY <1>1, <2>1, <2>2, <2>3, LockMoves, Zenon
<1>7. ASSUME NEW t \in Task, FsLock(t) PROVE LockInv'
  <2>1. /\ pc[t] = "fslock" /\ fs' = t /\ pc' = [pc EXCEPT ![t] = "get"]
        /\ UNCHANGED <<mgr, call>>
    BY <1>7 DEF FsLock
  <2> QED
    BY <1>1, <2>1 DEF LockInv
<1>8. ASSUME NEW t \in Task, GetBlockCache(t) PROVE LockInv'
  <2>1. running = t /\ pc[t] = "get" /\ mgr = NONE /\ UNCHANGED <<fs, call>>
    BY <1>8 DEF GetBlockCache
  <2>2. \/ pc' = [pc EXCEPT ![t] = "use"] /\ UNCHANGED mgr
        \/ pc' = [pc EXCEPT ![t] = "submit"] /\ mgr' = t
    BY <1>8 DEF GetBlockCache
  <2>3. \A u \in Task : u # t => pc[u] # "use"
    BY <2>1 DEF PlaceInv, Parked
  <2> QED
    BY <1>1, <1>2, <2>1, <2>2, <2>3 DEF LockInv
<1>9. ASSUME NEW t \in Task, UseBlock(t) PROVE LockInv'
  <2>1. pc[t] = "use" /\ UNCHANGED <<mgr, call>>
    BY <1>9 DEF UseBlock
  <2>2. PICK x \in {"get", "syncall", "ret"} :
          /\ pc' = [pc EXCEPT ![t] = x]
          /\ fs' = fs \/ fs' = NONE
          /\ x = "ret" => call[t].kind \notin {"write"} /\ (call[t].kind = "link" => fs' = NONE)
    <3>1. CASE want[t] = INODE
      BY <1>9, <3>1, Zenon DEF UseBlock
    <3>2. CASE want[t] # INODE /\ call[t].kind = "write"
      <4>1. pc' = [pc EXCEPT ![t] = "syncall"] /\ fs' = fs
        BY <1>9, <3>2 DEF UseBlock
      <4> QED
        BY <4>1
    <3>3. CASE want[t] # INODE /\ call[t].kind # "write"
      <4>1. pc' = [pc EXCEPT ![t] = "ret"]
        BY <1>9, <3>3 DEF UseBlock
      <4>2. IF call[t].kind = "link" THEN fs' = NONE ELSE fs' = fs
        BY <1>9, <3>3 DEF UseBlock
      <4> QED
        BY <3>3, <4>1, <4>2
    <3> QED
      BY <3>1, <3>2, <3>3
  <2>3. call[t] \in FileCall
    BY <2>1 DEF LockInv
  <2>4. fs' = t => x # "ret"
    BY <1>2, <2>1, <2>2, <2>3 DEF LockInv, FileCall
  <2>5. fs' \in Task \cup {NONE} /\ mgr = NONE
    BY <2>1, <2>2 DEF LockInv
  <2>6. pc'[t] = x /\ \A u \in Task : u # t => pc'[u] = pc[u] /\ (fs' = u => fs = u)
    BY <1>1, <1>2, <2>2
  <2>7. fs' = t => call[t].kind # "read"
    BY <1>2, <2>2 DEF LockInv
  <2> QED
    BY <2>1, <2>2, <2>3, <2>4, <2>5, <2>6, <2>7 DEF LockInv
<1>10. ASSUME NEW t \in Task, SyncLock(t) PROVE LockInv'
  <2>1. /\ running = t /\ pc[t] = "syncall" /\ mgr = NONE /\ mgr' = t
        /\ pc' = [pc EXCEPT ![t] = "sync"] /\ UNCHANGED <<fs, call>>
    BY <1>10 DEF SyncLock
  <2>2. \A u \in Task : u # t => pc[u] # "use"
    BY <2>1 DEF PlaceInv, Parked
  <2> QED
    BY <1>1, <1>2, <2>1, <2>2 DEF LockInv
<1>11. ASSUME NEW t \in Task, SyncNext(t) PROVE LockInv'
  <2>1. pc[t] = "sync" /\ UNCHANGED call
    BY <1>11 DEF SyncNext
  <2>2. \/ pc' = [pc EXCEPT ![t] = "submit"] /\ UNCHANGED <<mgr, fs>>
        \/ pc' = [pc EXCEPT ![t] = "ret"] /\ mgr' = NONE /\ fs' = NONE
    BY <1>11, Zenon DEF SyncNext
  <2> QED
    BY <1>1, <1>2, <2>1, <2>2 DEF LockInv
<1>12. ASSUME NEW t \in Task, Submit(t) \/ WaitTransfer(t) \/ UartOpen(t) PROVE LockInv'
  BY <1>1, <1>12, LockMoves DEF Submit, WaitTransfer, UartOpen, LockInv, blkVars
<1>13. ASSUME NEW t \in Task, Resume(t) PROVE LockInv'
  <2>1. pc[t] = "resp" /\ UNCHANGED <<fs, call>>
    BY <1>13 DEF Resume
  <2>2. \/ \E x \in {"submit", "sync"} : pc' = [pc EXCEPT ![t] = x] /\ UNCHANGED mgr
        \/ pc' = [pc EXCEPT ![t] = "use"] /\ mgr' = NONE
    BY <1>13 DEF Resume
  <2> QED
    BY <1>1, <1>2, <2>1, <2>2, Zenon DEF LockInv
<1>14. ASSUME NEW t \in Task, UartRead(t) PROVE LockInv'
  <2>1. pc[t] = "uartin" /\ UNCHANGED <<mgr, fs, call>>
    BY <1>14 DEF UartRead, blkVars
  <2>2. \E x \in {"ret", "uart"} : pc' = [pc EXCEPT ![t] = x]
    BY <1>14 DEF UartRead
  <2> QED
    BY <1>1, <2>1, <2>2, LockMoves DEF LockInv
<1>15. ASSUME \/ Dispatch \/ BlkIrq \/ UartIrq \/ CharArrives \/ UNCHANGED vars
              \/ \E t \in Task : Preempt(t) \/ Yield(t) \/ Complete(t)
       PROVE  UNCHANGED <<pc, mgr, fs, call>>
  BY <1>15, Zenon DEF Dispatch, BlkIrq, UartIrq, CharArrives, vars, Preempt, Yield, Complete, blkVars
<1> QED
  BY <1>3, <1>4, <1>5, <1>6, <1>7, <1>8, <1>9, <1>10, <1>11, <1>12, <1>13, <1>14, <1>15
     DEF Next, InKernel
-----------------------------------------------------------------------------
(* Only the holder of the manager's lock has a transfer under way. *)
LEMMA OneTransfer ==
  ASSUME LockInv, CacheInv
  PROVE  /\ \A t \in Task : req[t] # NoReq => mgr = t
         /\ \A t \in Task : pc[t] = "sync" => \A u \in Task : req[u] = NoReq
         /\ mgr = NONE => \A u \in Task : req[u] = NoReq
         /\ (\A u \in Task : req[u] = NoReq) => \A b : ~Saving(b)
<1>1. \A t \in Task : req[t] # NoReq => mgr = t
  BY Zenon DEF LockInv, CacheInv, Locked
<1>2. \A t \in Task : pc[t] = "sync" => \A u \in Task : req[u] = NoReq
  BY <1>1 DEF LockInv, CacheInv, Locked, Transferring
<1>3. mgr = NONE => \A u \in Task : req[u] = NoReq
  BY <1>1, BlockIoAssumption
<1>4. (\A u \in Task : req[u] = NoReq) => \A b : ~Saving(b)
  BY DEF Saving, NoReq
<1> QED
  BY <1>1, <1>2, <1>3, <1>4, Zenon

(* VecDeque::remove(i): the others stay, in their order. *)
LEMMA RemoveOne ==
  ASSUME NEW S, NEW q \in Seq(S), NEW i \in DOMAIN q
  PROVE  /\ RemoveAt(q, i) \in Seq(S)
         /\ DOMAIN RemoveAt(q, i) = 1..(Len(q) - 1)
         /\ \A j \in 1..(Len(q) - 1) : RemoveAt(q, i)[j] = q[IF j < i THEN j ELSE j + 1]
<1> DEFINE a == SubSeq(q, 1, i - 1)
           c == SubSeq(q, i + 1, Len(q))
<1>1. Len(q) \in Nat /\ i \in 1..Len(q) /\ \A k \in 1..Len(q) : q[k] \in S
  BY LenProperties, ElementOfSeq
<1>2. a \in Seq(S) /\ Len(a) = i - 1 /\ \A k \in 1..(i - 1) : a[k] = q[k]
  <2>1. \A k \in 1..(i - 1) : q[k] \in S
    BY <1>1
  <2>2. i - 1 \in Int /\ 1 \in Int
    BY <1>1
  <2>3. /\ a \in Seq(S) /\ Len(a) = IF 1 <= i - 1 THEN (i - 1) - 1 + 1 ELSE 0
        /\ \A k \in 1..((i - 1) - 1 + 1) : a[k] = q[1 + k - 1]
    BY <2>1, <2>2, SubSeqProperties
  <2> HIDE DEF a
  <2> QED
    BY <1>1, <2>3
<1>3. /\ c \in Seq(S) /\ Len(c) = Len(q) - i
      /\ \A k \in 1..(Len(q) - i) : c[k] = q[i + k]
  <2>1. \A k \in (i + 1)..Len(q) : q[k] \in S
    BY <1>1
  <2>2. i + 1 \in Int /\ Len(q) \in Int
    BY <1>1
  <2>3. /\ c \in Seq(S) /\ Len(c) = IF i + 1 <= Len(q) THEN Len(q) - (i + 1) + 1 ELSE 0
        /\ \A k \in 1..(Len(q) - (i + 1) + 1) : c[k] = q[(i + 1) + k - 1]
    BY <2>1, <2>2, SubSeqProperties
  <2> HIDE DEF c
  <2> QED
    BY <1>1, <2>3
<1>4. RemoveAt(q, i) = a \o c
  BY DEF RemoveAt
<1> HIDE DEF a, c
<1>5. /\ a \o c \in Seq(S) /\ Len(a \o c) = Len(q) - 1
      /\ \A j \in 1..(Len(q) - 1) : (a \o c)[j] = IF j <= i - 1 THEN a[j] ELSE c[j - (i - 1)]
  <2>1. /\ a \o c \in Seq(S) /\ Len(a \o c) = Len(a) + Len(c)
        /\ \A j \in 1..(Len(a) + Len(c)) :
             (a \o c)[j] = IF j <= Len(a) THEN a[j] ELSE c[j - Len(a)]
    BY <1>2, <1>3, ConcatProperties, Zenon
  <2>2. Len(a) + Len(c) = Len(q) - 1
    BY <1>1, <1>2, <1>3
  <2> QED
    BY <1>2, <2>1, <2>2, Zenon
<1>6. DOMAIN (a \o c) = 1..(Len(q) - 1)
  BY <1>5, LenProperties
<1>7. ASSUME NEW j \in 1..(Len(q) - 1)
      PROVE  (a \o c)[j] = q[IF j < i THEN j ELSE j + 1]
  <2>1. CASE j < i
    BY <1>1, <1>2, <1>5, <2>1
  <2>2. CASE ~(j < i)
    <3>1. j - (i - 1) \in 1..(Len(q) - i) /\ i + (j - (i - 1)) = j + 1
      BY <1>1, <2>2
    <3>2. (a \o c)[j] = c[j - (i - 1)]
      BY <1>1, <1>5, <2>2
    <3>3. c[j - (i - 1)] = q[j + 1]
      BY <1>3, <3>1, Zenon
    <3> QED
      BY <2>2, <3>2, <3>3
  <2> QED
    BY <2>1, <2>2, Zenon
<1> QED
  BY <1>4, <1>5, <1>6, <1>7, Zenon

(* A step that leaves the cache, the device and the transfers alone. *)
LEMMA CacheQuiet ==
  ASSUME CacheInv, UNCHANGED <<cache, disk, req, dirty>>,
         want' \in [Task -> AllBlocks],
         \A t \in Task :
           /\ pc'[t] \in Transferring <=> pc[t] \in Transferring
           /\ pc'[t] = "use" => Position(want'[t]) # {}
           /\ pc[t] \in Transferring => want'[t] = want[t]
           /\ pc'[t] = "resp" /\ dev'[t] # "submitted" =>
                pc[t] = "resp" /\ dev[t] # "submitted"
  PROVE  CacheInv'
<1>1. \A b : Saving(b)' <=> Saving(b)
  BY Zenon DEF Saving
<1>2. \A b : Position(b)' = Position(b)
  BY Zenon DEF Position
<1> QED
  BY <1>1, <1>2 DEF CacheInv, NoReq

LEMMA CacheInit == Init => CacheInv
<1> SUFFICES ASSUME Init PROVE CacheInv
  OBVIOUS
<1>1. cache \in Seq(Entry) /\ DOMAIN cache = {}
  BY DEF Init
<1> QED
  BY <1>1 DEF Init, CacheInv, AllBlocks, NoReq, Transferring, Position

(* get_block_cache: a hit; a load into free room; and the oldest block that   *)
(* is not referenced dropped, after a write-back when it is modified.         *)
LEMMA CacheGet ==
  ASSUME CellInv, PlaceInv, LockInv, CacheInv, NEW t \in Task, GetBlockCache(t)
  PROVE  CacheInv'
<1>1. /\ pc \in [Task -> PcValues] /\ pc[t] = "get" /\ mgr = NONE /\ running = t
      /\ UNCHANGED <<want, disk, dirty, dev>>
  BY DEF CellInv, GetBlockCache
<1>2. (\A u \in Task : req[u] = NoReq) /\ \A b : ~Saving(b)
  BY <1>1, OneTransfer, Zenon
<1>3. /\ want \in [Task -> AllBlocks] /\ cache \in Seq(Entry)
      /\ req \in [Task -> {NoReq} \cup Load \cup Save]
  BY DEF CacheInv
<1>4. CASE Position(want[t]) # {}
  <2>1. pc' = [pc EXCEPT ![t] = "use"] /\ UNCHANGED <<cache, req>>
    BY <1>4 DEF GetBlockCache
  <2>2. \A b : Position(b)' = Position(b)
    BY <2>1 DEF Position
  <2>3. \A u \in Task : pc'[u] = "use" => Position(want'[u]) # {}
    BY <1>1, <1>4, <2>1, Zenon DEF CacheInv
  <2> QED
    BY <1>1, <1>3, <2>1, <2>3, CacheQuiet DEF Transferring
<1>5. CASE Position(want[t]) = {} /\ UNCHANGED cache
           /\ req' = [req EXCEPT ![t] = LoadReq(want[t])] /\ pc' = [pc EXCEPT ![t] = "submit"]
  <2>1. LoadReq(want[t]) \in Load /\ LoadReq(want[t]) # NoReq
    BY <1>3 DEF LoadReq, Load, NoReq
  <2>2. \A b : Position(b)' = Position(b)
    BY <1>5 DEF Position
  <2>3. \A u \in Task : u # t => req'[u] = NoReq /\ pc'[u] = pc[u]
    BY <1>1, <1>2, <1>3, <1>5
  <2>4. req'[t] = LoadReq(want[t]) /\ pc'[t] = "submit"
    BY <1>1, <1>3, <1>5
  <2>5. req' \in [Task -> {NoReq} \cup Load \cup Save]
    BY <1>3, <1>5, <2>1, Zenon
  <2> QED
    BY <1>1, <1>2, <1>5, <2>1, <2>2, <2>3, <2>4, <2>5, ZenonT(30)
       DEF CacheInv, LoadReq, Transferring, NoReq
<1>6. CASE Position(want[t]) = {} /\ Evictable # {} /\ pc' = [pc EXCEPT ![t] = "submit"]
           /\ LET i == FirstOf(Evictable) IN
              /\ cache' = RemoveAt(cache, i)
              /\ req' = [req EXCEPT ![t] = IF cache[i].mod THEN SaveReq(cache[i], "load")
                                                           ELSE LoadReq(want[t])]
  <2> DEFINE i == FirstOf(Evictable)
             r == IF cache[i].mod THEN SaveReq(cache[i], "load") ELSE LoadReq(want[t])
             n == Len(cache)
  <2>1. n \in Nat /\ DOMAIN cache = 1..n
    BY <1>3, LenProperties
  <2>2. i \in 1..n
    <3>1. Evictable \in SUBSET Nat /\ Evictable \subseteq 1..n
      BY <2>1 DEF Evictable
    <3>2. i \in Evictable
      BY <1>6, <3>1, FirstIsMember
    <3> QED
      BY <3>1, <3>2, ZenonT(30)
  <2>3. cache[i] \in Entry /\ cache[i].last /\ cache[i].id \in AllBlocks
    <3>1. cache[i] \in Entry
      BY <1>3, <2>2, ElementOfSeq, Zenon
    <3>2. cache[i].last
      BY <2>1, <2>2 DEF CacheInv
    <3> QED
      BY <3>1, <3>2 DEF Entry
  <2>4. cache' = RemoveAt(cache, i) /\ req' = [req EXCEPT ![t] = r]
    BY <1>6, Zenon
  <2>5. r \in Load \cup Save /\ r # NoReq /\ r.next # "sync"
        /\ (r.op = "read" => r.id = want[t])
    <3>1. CASE cache[i].mod
      <4>1. r = [op |-> "write", id |-> cache[i].id, last |-> cache[i].last, next |-> "load"]
        BY <3>1 DEF SaveReq
      <4>2. cache[i].last = TRUE
        BY <2>3 DEF Entry
      <4> HIDE DEF r, i
      <4> QED
        BY <2>3, <4>1, <4>2 DEF Save, NoReq
    <3>2. CASE ~cache[i].mod
      <4>1. r = LoadReq(want[t])
        BY <3>2
      <4> HIDE DEF r
      <4> QED
        BY <1>3, <4>1 DEF LoadReq, Load, NoReq
    <3> QED
      BY <3>1, <3>2, Zenon
  <2>6. cache[i].mod => r.op = "write" /\ r.id = cache[i].id
    BY Zenon DEF SaveReq
  <2> HIDE DEF i, r, n
  <2>7. /\ \A j, k \in 1..n : cache[j].id = cache[k].id => j = k
        /\ \A j \in 1..n : cache[j].last /\ (cache[j].mod \/ disk[cache[j].id])
        /\ \A b \in AllBlocks : Position(b) # {} \/ disk[b]
    BY <1>2, <2>1 DEF CacheInv
  <2> DEFINE from(j) == IF j < i THEN j ELSE j + 1
  <2>8. /\ cache' \in Seq(Entry) /\ DOMAIN cache' = 1..(n - 1)
        /\ \A j \in 1..(n - 1) : cache'[j] = cache[from(j)]
    BY <1>3, <2>1, <2>2, <2>4, RemoveOne, Zenon DEF n
  <2>9. /\ \A j \in 1..(n - 1) : from(j) \in 1..n /\ from(j) # i
        /\ \A j, k \in 1..(n - 1) : from(j) = from(k) => j = k
        /\ \A k \in 1..n : k # i => \E j \in 1..(n - 1) : from(j) = k
    <3>1. ASSUME NEW k \in 1..n, k # i PROVE \E j \in 1..(n - 1) : from(j) = k
      <4>1. CASE k < i
        BY <2>1, <2>2, <4>1
      <4>2. CASE k > i
        <5>1. k - 1 \in 1..(n - 1) /\ from(k - 1) = k
          BY <2>1, <2>2, <4>2
        <5> QED
          BY <5>1
      <4> QED
        BY <2>1, <2>2, <3>1, <4>1, <4>2
    <3>2. /\ \A j \in 1..(n - 1) : from(j) \in 1..n /\ from(j) # i
          /\ \A j, k \in 1..(n - 1) : from(j) = from(k) => j = k
      BY <2>1, <2>2
    <3> QED
      BY <3>1, <3>2
  <2> HIDE DEF from
  <2>10. \A j, k \in DOMAIN cache' : cache'[j].id = cache'[k].id => j = k
    BY <2>7, <2>8, <2>9
  <2>11. PICK e \in AllBlocks : e = cache[i].id
    BY <2>3
  <2>12. \A b : b # e => (Position(b)' = {} <=> Position(b) = {})
    <3> SUFFICES ASSUME NEW b, b # e PROVE Position(b)' = {} <=> Position(b) = {}
      OBVIOUS
    <3>1. \A k \in 1..n : cache[k].id = b => \E j \in 1..(n - 1) : cache'[j].id = b
      BY <2>8, <2>9, <2>11
    <3>2. \A j \in 1..(n - 1) : cache'[j].id = b => \E k \in 1..n : cache[k].id = b
      BY <2>8, <2>9
    <3> QED
      BY <2>1, <2>8, <3>1, <3>2 DEF Position
  <2>13. \A u \in Task : u # t => req'[u] = NoReq /\ pc'[u] = pc[u]
    BY <1>1, <1>2, <1>3, <1>6, <2>4
  <2>14. req'[t] = r /\ pc'[t] = "submit"
    BY <1>1, <1>3, <1>6, <2>4
  <2>15. disk[e] \/ Saving(e)'
    <3>1. cache[i].mod \/ disk[e]
      BY <2>2, <2>7, <2>11
    <3>2. cache[i].mod => req'[t].op = "write" /\ req'[t].id = e
      BY <2>6, <2>11, <2>14
    <3> QED
      BY <3>1, <3>2, Zenon DEF Saving
  <2>16. req' \in [Task -> {NoReq} \cup Load \cup Save]
    BY <1>3, <2>4, <2>5
  <2>17. \A b \in AllBlocks : Position(b)' # {} \/ disk[b] \/ Saving(b)'
    BY <2>7, <2>12, <2>15
  <2>18. \A j \in DOMAIN cache' : cache'[j].last /\ (cache'[j].mod \/ disk[cache'[j].id])
    BY <2>7, <2>8, <2>9, Zenon
  <2>19. \A u \in Task :
           /\ pc'[u] \in Transferring <=> req'[u] # NoReq
           /\ pc'[u] # "use" \/ u # t
           /\ req'[u] # NoReq => u = t
           /\ pc'[u] # "resp"
    BY <1>1, <1>2, <2>5, <2>13, <2>14 DEF CacheInv, Transferring
  <2>20. \A u \in Task : pc'[u] # "use"
    BY <1>1, <2>13, <2>14 DEF PlaceInv, Parked
  <2>21. Position(want[t])' = {}
    <3>1. PICK w : w = want[t]
      BY Zenon
    <3>2. w # e /\ Position(w) = {}
      BY <1>6, <2>1, <2>2, <2>11, <3>1 DEF Position
    <3>3. Position(w)' = {} /\ want'[t] = w
      BY <1>1, <2>12, <3>1, <3>2
    <3> QED
      BY <3>3 DEF Position
  <2>22. /\ want' \in [Task -> AllBlocks] /\ dirty' \subseteq AllBlocks
         /\ disk' \in [AllBlocks -> BOOLEAN]
         /\ \A b \in AllBlocks : b \in dirty' \/ disk'[b]
    BY <1>1, Zenon DEF CacheInv
  <2>23. \A u \in Task : req'[u].op = "read" => req'[u].id = want'[u]
    <3>1. NoReq.op # "read"
      BY DEF NoReq
    <3> QED
      BY <1>1, <2>5, <2>13, <2>14, <3>1, Zenon
  <2>24. \A u \in Task : req'[u] # NoReq => Position(want[u])' = {}
    BY <2>19, <2>21, Zenon
  <2>25. /\ \A j \in DOMAIN cache' : cache'[j].last /\ (cache'[j].mod \/ disk'[cache'[j].id])
         /\ \A b \in AllBlocks : Position(b)' # {} \/ disk'[b] \/ Saving(b)'
    BY <1>1, <2>17, <2>18, Zenon
  <2> QED
    BY <2>8, <2>10, <2>16, <2>19, <2>20, <2>22, <2>23, <2>24, <2>25, ZenonT(30) DEF CacheInv
<1> QED
  BY <1>4, <1>5, <1>6 DEF GetBlockCache

(* The closure over a cached block. A call that modifies it does so while no  *)
(* transfer is under way.                                                     *)
LEMMA CacheUse ==
  ASSUME CellInv, PlaceInv, LockInv, CacheInv, NEW t \in Task, UseBlock(t)
  PROVE  CacheInv'
<1>1. /\ pc \in [Task -> PcValues] /\ pc[t] = "use" /\ mgr = NONE /\ running = t
      /\ UNCHANGED dev /\ want' = [want EXCEPT ![t] = call[t].blk]
  BY DEF CellInv, LockInv, UseBlock
<1>2. (\A u \in Task : req[u] = NoReq) /\ \A b : ~Saving(b)
  BY <1>1, OneTransfer, Zenon
<1>3. /\ want \in [Task -> AllBlocks] /\ cache \in Seq(Entry)
      /\ req \in [Task -> {NoReq} \cup Load \cup Save]
      /\ disk \in [AllBlocks -> BOOLEAN] /\ dirty \subseteq AllBlocks
  BY DEF CacheInv
<1>4. want' \in [Task -> AllBlocks]
  <2>1. call[t] \in FileCall
    BY <1>1 DEF LockInv, FilePc
  <2>2. call[t].blk \in AllBlocks
    BY <2>1 DEF FileCall, AllBlocks
  <2> QED
    BY <1>1, <1>3, <2>2
<1>5. /\ \A u \in Task : u # t => pc'[u] = pc[u]
      /\ pc'[t] \notin Transferring /\ pc'[t] # "use"
  <2>1. PICK x \in {"get", "syncall", "ret"} : pc' = [pc EXCEPT ![t] = x]
    BY ZenonT(30) DEF UseBlock
  <2> QED
    BY <1>1, <2>1 DEF Transferring
<1>6. \A u \in Task : pc'[u] # "use" /\ pc'[u] \notin Transferring
                      /\ pc[u] \notin Transferring
  BY <1>1, <1>2, <1>5, Zenon DEF CacheInv, PlaceInv, Parked, Transferring
<1>7. CASE UNCHANGED <<cache, disk, req, dirty>>
  BY <1>1, <1>4, <1>6, <1>7, CacheQuiet, Zenon DEF Transferring
<1>8. CASE Modify(want[t])
  <2> DEFINE i == FirstOf(Position(want[t]))
             n == Len(cache)
  <2>1. n \in Nat /\ DOMAIN cache = 1..n /\ \A j \in 1..n : cache[j] \in Entry
    BY <1>3, LenProperties, ElementOfSeq
  <2>2. PICK b \in AllBlocks : b = want[t]
    BY <1>3, Zenon
  <2>3. i \in 1..n /\ cache[i].id = b
    <3>1. Position(want[t]) # {} /\ Position(want[t]) \in SUBSET Nat
      BY <1>1, <2>1 DEF CacheInv, Position
    <3>2. i \in Position(want[t])
      BY <3>1, FirstIsMember, SMTT(30)
    <3> QED
      BY <2>1, <2>2, <3>2, Zenon DEF Position
  <2>4. /\ \A j, k \in 1..n : cache[j].id = cache[k].id => j = k
        /\ \A j \in 1..n : cache[j].last /\ (cache[j].mod \/ disk[cache[j].id])
        /\ \A c \in AllBlocks : (c \in dirty \/ disk[c]) /\ (Position(c) # {} \/ disk[c])
    BY <1>2, <2>1, Zenon DEF CacheInv
  <2> HIDE DEF i, n
  <2>5. cache' = [j \in 1..n |-> IF cache[j].id # b THEN cache[j]
                     ELSE [cache[j] EXCEPT !.last = (j = i), !.mod = @ \/ j = i]]
    BY <1>8, <2>1, <2>2, Zenon DEF Modify, i
  <2>6. /\ \A j \in 1..n : j # i => cache'[j] = cache[j]
        /\ cache'[i].id = b /\ cache'[i].last /\ cache'[i].mod /\ cache'[i] \in Entry
    <3>1. \A j \in 1..n : j # i => cache[j].id # b
      BY <2>3, <2>4
    <3>2. \A j \in 1..n : j # i => cache'[j] = cache[j]
      BY <2>5, <3>1, Zenon
    <3>3. cache'[i] = [cache[i] EXCEPT !.last = TRUE, !.mod = TRUE]
      <4>1. cache'[i] = [cache[i] EXCEPT !.last = (i = i), !.mod = @ \/ i = i]
        BY <2>3, <2>5, Zenon
      <4>2. (i = i) = TRUE /\ (cache[i].mod \/ i = i) = TRUE
        BY Zenon
      <4> QED
        BY <4>1, <4>2, Zenon
    <3>4. cache[i] \in Entry
      BY <2>1, <2>3, SMTT(30)
    <3> QED
      BY <2>3, <3>2, <3>3, <3>4, Zenon DEF Entry
  <2>7. cache' \in [1..n -> Entry] /\ DOMAIN cache' = 1..n
    <3>1. DOMAIN cache' = 1..n /\ \A j \in 1..n : cache'[j] \in Entry
      BY <2>1, <2>5, <2>6, Zenon
    <3> QED
      BY <2>5, <3>1, ZenonT(30)
  <2>8. cache' \in Seq(Entry)
    BY <2>1, <2>7
  <2>9. \A j \in 1..n : cache'[j].id = cache[j].id
    BY <2>3, <2>6
  <2>10. \A c : Position(c)' = Position(c)
    BY <2>1, <2>7, <2>9, SMTT(30) DEF Position
  <2>11. disk' = [disk EXCEPT ![b] = FALSE] /\ dirty' = dirty \cup {b}
    BY <1>8, <2>2, ZenonT(30) DEF Modify
  <2>12. \A u \in Task : req'[u] = NoReq
    BY <1>2, <1>8, ZenonT(30) DEF Modify, NoReq
  <2>13. req' \in [Task -> {NoReq} \cup Load \cup Save]
    BY <1>2, <1>8, Zenon DEF Modify, NoReq
  <2>14. \A j, k \in DOMAIN cache' : cache'[j].id = cache'[k].id => j = k
    BY <2>4, <2>7, <2>9, Zenon
  <2>15. \A j \in DOMAIN cache' : cache'[j].last /\ (cache'[j].mod \/ disk'[cache'[j].id])
    <3>1. \A j \in 1..n : j # i => cache[j].id # b /\ cache[j].id \in AllBlocks
      BY <2>1, <2>3, <2>4 DEF Entry
    <3>2. \A j \in 1..n : j # i => disk'[cache[j].id] = disk[cache[j].id]
      BY <1>3, <2>11, <3>1, Zenon
    <3> QED
      BY <2>4, <2>6, <2>7, <3>2, Zenon
  <2>16. \A c \in AllBlocks : (c \in dirty' \/ disk'[c]) /\ (Position(c)' # {} \/ disk'[c])
    <3>1. i \in Position(b)
      BY <2>1, <2>3 DEF Position
    <3>2. \A c \in AllBlocks : c # b => disk'[c] = disk[c]
      BY <1>3, <2>11
    <3>3. dirty' = dirty \cup {b} /\ \A c \in AllBlocks : Position(c)' = Position(c)
      BY <2>10, <2>11, Zenon
    <3>4. ASSUME NEW c \in AllBlocks
          PROVE  (c \in dirty' \/ disk'[c]) /\ (Position(c)' # {} \/ disk'[c])
      <4>1. CASE c = b
        BY <3>1, <3>3, <4>1, Zenon
      <4>2. CASE c # b
        BY <2>4, <3>2, <3>3, <4>2, Zenon
      <4> QED
        BY <4>1, <4>2
    <3> QED
      BY <3>4
  <2>17. dirty' \subseteq AllBlocks /\ disk' \in [AllBlocks -> BOOLEAN]
    BY <1>3, <2>11
  <2>18. ASSUME NEW u \in Task
         PROVE  /\ pc'[u] \in Transferring <=> req'[u] # NoReq
                /\ pc'[u] = "use" => Position(want[u])' # {}
                /\ req'[u] # NoReq /\ req'[u].next # "sync" => Position(want[u])' = {}
                /\ req'[u].op = "read" => req'[u].id = want'[u]
                /\ pc'[u] = "resp" /\ dev'[u] # "submitted" =>
                     IF req'[u].op = "read" THEN req'[u].last ELSE disk'[req'[u].id]
    <3>1. /\ pc'[u] # "use" /\ pc'[u] \notin Transferring /\ pc'[u] # "resp"
      BY <1>6, Zenon DEF Transferring
    <3>2. req'[u] = NoReq /\ req'[u].op # "read"
      BY <2>12 DEF NoReq
    <3> QED
      BY <3>1, <3>2, Zenon
  <2>19. \A j \in DOMAIN cache' : /\ cache'[j].last
                                  /\ \/ cache'[j].mod \/ disk'[cache'[j].id]
                                     \/ Saving(cache[j].id)'
    BY <2>15, Zenon
  <2>20. \A c \in AllBlocks : /\ c \in dirty' \/ disk'[c]
                              /\ Position(c)' # {} \/ disk'[c] \/ Saving(c)'
    BY <2>16, Zenon
  <2> QED
    BY <1>4, <2>8, <2>13, <2>14, <2>17, <2>18, <2>19, <2>20, Zenon DEF CacheInv
<1> QED
  BY <1>7, <1>8 DEF UseBlock

(* block_cache_sync_all: one write-back after the other; when none is left,   *)
(* every block of the device is what was last stored in it.                   *)
LEMMA CacheSync ==
  ASSUME CellInv, PlaceInv, LockInv, CacheInv, NEW t \in Task, SyncNext(t)
  PROVE  CacheInv'
<1>1. /\ pc \in [Task -> PcValues] /\ pc[t] = "sync" /\ running = t
      /\ UNCHANGED <<want, disk, dev>>
  BY DEF CellInv, SyncNext
<1>2. (\A u \in Task : req[u] = NoReq) /\ \A b : ~Saving(b)
  BY <1>1, OneTransfer
<1>3. /\ want \in [Task -> AllBlocks] /\ cache \in Seq(Entry)
      /\ req \in [Task -> {NoReq} \cup Load \cup Save]
  BY DEF CacheInv
<1>4. \A u \in Task : u # t => pc[u] # "use"
  BY <1>1 DEF PlaceInv, Parked
<1> DEFINE n == Len(cache)
<1>5. n \in Nat /\ DOMAIN cache = 1..n /\ \A j \in 1..n : cache[j] \in Entry
  BY <1>3, LenProperties, ElementOfSeq, Zenon
<1>6. /\ \A j, k \in 1..n : cache[j].id = cache[k].id => j = k
      /\ \A j \in 1..n : cache[j].last /\ (cache[j].mod \/ disk[cache[j].id])
      /\ \A c \in AllBlocks : (c \in dirty \/ disk[c]) /\ (Position(c) # {} \/ disk[c])
  BY <1>2, <1>5, SMTT(30) DEF CacheInv
<1> HIDE DEF n
<1>7. CASE Modified = {}
  <2>1. /\ pc' = [pc EXCEPT ![t] = "ret"] /\ dirty' = {} /\ UNCHANGED <<cache, req>>
    BY <1>7, Zenon DEF SyncNext
  <2>2. \A c \in AllBlocks : disk[c]
    BY <1>5, <1>6, <1>7 DEF Modified, Position
  <2>3. \A c : Position(c)' = Position(c)
    BY <2>1 DEF Position
  <2>4. \A b : Saving(b)' <=> Saving(b)
    BY <2>1, SMTT(30) DEF Saving
  <2>5. \A u \in Task : /\ pc'[u] \in Transferring <=> req'[u] # NoReq
                        /\ pc'[u] # "use" /\ pc'[u] # "resp"
    BY <1>1, <1>2, <1>4, <2>1, Zenon DEF CacheInv, Transferring
  <2> QED
    BY <1>1, <2>1, <2>2, <2>3, <2>4, <2>5, Zenon DEF CacheInv
<1>8. CASE Modified # {}
  <2> DEFINE i == FirstOf(Modified)
             r == SaveReq(cache[i], "sync")
  <2>1. i \in 1..n /\ cache[i].mod
    <3>1. Modified \in SUBSET Nat
      BY <1>5 DEF Modified
    <3>2. i \in Modified
      BY <1>8, <3>1, FirstIsMember
    <3> QED
      BY <1>5, <3>2 DEF Modified
  <2>2. /\ cache' = [cache EXCEPT ![i].mod = FALSE] /\ req' = [req EXCEPT ![t] = r]
        /\ pc' = [pc EXCEPT ![t] = "submit"] /\ UNCHANGED dirty
    BY <1>8 DEF SyncNext
  <2> HIDE DEF i
  <2>3. cache[i] \in Entry /\ cache[i].last
    BY <1>5, <1>6, <2>1
  <2>4. r \in Save /\ r # NoReq /\ r.op = "write" /\ r.next = "sync" /\ r.id = cache[i].id
    <3>1. cache[i].last = TRUE /\ cache[i].id \in AllBlocks
      BY <2>3 DEF Entry
    <3> QED
      BY <3>1, Zenon DEF SaveReq, Save, NoReq
  <2> HIDE DEF r
  <2>5. /\ DOMAIN cache' = 1..n
        /\ \A j \in 1..n : j # i => cache'[j] = cache[j]
        /\ cache'[i] = [cache[i] EXCEPT !.mod = FALSE]
    BY <1>5, <2>1, <2>2
  <2>6. cache'[i] \in Entry /\ cache'[i].id = cache[i].id /\ cache'[i].last
    BY <2>3, <2>5, Zenon DEF Entry
  <2>7. cache' \in Seq(Entry)
    <3>1. cache' \in [1..n -> Entry]
      BY <1>5, <2>2, <2>5, <2>6, Zenon
    <3> QED
      BY <1>5, <3>1
  <2>8. \A j \in 1..n : cache'[j].id = cache[j].id /\ cache'[j].last
    BY <1>6, <2>5, <2>6, Zenon
  <2>9. \A c : Position(c)' = Position(c)
    BY <1>5, <2>5, <2>8 DEF Position
  <2>10. \A u \in Task : u # t => req'[u] = NoReq /\ pc'[u] = pc[u]
    BY <1>1, <1>2, <1>3, <2>2
  <2>11. req'[t] = r /\ pc'[t] = "submit"
    BY <1>1, <1>3, <2>2
  <2>12. PICK e \in AllBlocks : e = cache[i].id
    BY <2>3 DEF Entry
  <2>13. Saving(e)'
    BY <2>4, <2>11, <2>12 DEF Saving
  <2>14. \A j \in DOMAIN cache' : /\ cache'[j].last
                                  /\ cache'[j].mod \/ disk[cache'[j].id] \/ cache'[j].id = e
    BY <1>6, <2>5, <2>8, <2>12
  <2>15. req' \in [Task -> {NoReq} \cup Load \cup Save]
    BY <1>3, <2>2, <2>4, ZenonT(30)
  <2>16. \A u \in Task : /\ pc'[u] \in Transferring <=> req'[u] # NoReq
                         /\ pc'[u] # "use" /\ pc'[u] # "resp"
    BY <1>1, <1>2, <1>4, <2>4, <2>10, <2>11 DEF CacheInv, Transferring
  <2>17. \A j \in DOMAIN cache' : cache'[j].id = e => Saving(cache[j].id)'
    BY <2>13, <2>5, <2>8 DEF Saving
  <2>18. \A j, k \in DOMAIN cache' : cache'[j].id = cache'[k].id => j = k
    BY <1>6, <2>5, <2>8
  <2> QED
    BY <1>1, <1>6, <2>2, <2>4, <2>7, <2>9, <2>10, <2>11, <2>14, <2>15, <2>16, <2>17, <2>18, SMTT(30)
       DEF CacheInv, NoReq
<1> QED
  BY <1>7, <1>8

(* The device has written the block, or read it. *)
LEMMA CacheComplete ==
  ASSUME PlaceInv, LockInv, CacheInv, NEW t \in Task, Complete(t)
  PROVE  CacheInv'
<1>1. /\ dev[t] = "submitted" /\ pc[t] = "resp"
      /\ UNCHANGED <<pc, cache, want, dirty>>
      /\ \A u \in Task : u # t => dev'[u] = dev[u]
  BY SMTT(30) DEF Complete, PlaceInv
<1>2. req[t] # NoReq /\ \A u \in Task : u # t => req[u] = NoReq
  BY <1>1, OneTransfer, ZenonT(30) DEF CacheInv, Transferring
<1>3. /\ req \in [Task -> {NoReq} \cup Load \cup Save] /\ req[t] \in Load \cup Save
      /\ disk \in [AllBlocks -> BOOLEAN]
  BY <1>2 DEF CacheInv
<1>4. \A b : Position(b)' = Position(b)
  BY <1>1, Zenon DEF Position
<1>5. \A u \in Task : u # t => pc[u] # "resp"
  BY <1>1, <1>2 DEF CacheInv, Transferring
<1>6. PICK e \in AllBlocks : e = req[t].id
  BY <1>3, Zenon DEF Load, Save
<1>7. CASE req[t].op = "write"
  <2>1. disk' = [disk EXCEPT ![e] = TRUE] /\ req' = req
    <3>1. req[t].last = TRUE
      BY <1>3, <1>7, ZenonT(30) DEF Load, Save
    <3> QED
      BY <1>6, <1>7, <3>1 DEF Complete
  <2>2. \A c \in AllBlocks : disk[c] => disk'[c]
    BY <1>3, <2>1
  <2>3. disk'[e] /\ disk' \in [AllBlocks -> BOOLEAN]
    BY <1>3, <2>1, Zenon
  <2>4. \A b : Saving(b)' <=> Saving(b)
    BY <2>1 DEF Saving
  <2>5. \A i \in DOMAIN cache : cache[i].id \in AllBlocks
    <3>1. \A i \in 1..Len(cache) : cache[i] \in Entry
      BY ElementOfSeq, Zenon DEF CacheInv
    <3>2. DOMAIN cache = 1..Len(cache)
      BY LenProperties DEF CacheInv
    <3> QED
      BY <3>1, <3>2, Zenon DEF Entry
  <2> QED
    BY <1>1, <1>4, <1>5, <1>6, <1>7, <2>1, <2>2, <2>3, <2>4, <2>5, Zenon DEF CacheInv
<1>8. CASE req[t].op # "write"
  <2>1. req[t] \in Load /\ req[t].op = "read"
    BY <1>3, <1>8, Zenon DEF Load, Save
  <2>2. e = want[t] /\ Position(e) = {}
    BY <1>2, <1>6, <2>1, Zenon DEF CacheInv, Load
  <2>3. disk[e] = TRUE
    <3>1. ~Saving(e)
      BY <1>2, <1>8 DEF Saving, NoReq
    <3> QED
      BY <1>3, <2>2, <3>1, Zenon DEF CacheInv
  <2>4. req' = [req EXCEPT ![t] = [req[t] EXCEPT !.last = TRUE]] /\ disk' = disk
    <3>1. req' = [req EXCEPT ![t].last = disk[req[t].id]] /\ disk' = disk
      BY <1>8, Zenon DEF Complete
    <3>2. disk[req[t].id] = TRUE
      BY <1>6, <2>3, Zenon
    <3> QED
      BY <3>1, <3>2, Zenon
  <2> DEFINE r == [req[t] EXCEPT !.last = TRUE]
  <2>5. r \in Load /\ r.last /\ r.op = "read" /\ r.id = e /\ r.next = "push" /\ r # NoReq
    BY <1>6, <2>1, ZenonT(30) DEF Load, NoReq
  <2> HIDE DEF r
  <2>6. req'[t] = r /\ \A u \in Task : u # t => req'[u] = req[u]
    BY <1>3, <2>4 DEF r
  <2>7. \A b : Saving(b)' <=> Saving(b)
    BY <1>8, <2>5, <2>6 DEF Saving
  <2>8. req' \in [Task -> {NoReq} \cup Load \cup Save]
    BY <1>3, <2>4, <2>5, Zenon DEF r
  <2>9. \A u \in Task :
          /\ pc[u] \in Transferring <=> req'[u] # NoReq
          /\ req'[u] # NoReq /\ req'[u].next # "sync" => Position(want[u]) = {}
          /\ req'[u].op = "read" => req'[u].id = want[u]
          /\ pc[u] = "resp" /\ dev'[u] # "submitted" =>
               IF req'[u].op = "read" THEN req'[u].last ELSE disk[req'[u].id]
    BY <1>1, <1>2, <1>5, <2>2, <2>5, <2>6, SMTT(30) DEF CacheInv, NoReq, Transferring
  <2> QED
    BY <1>1, <1>4, <2>4, <2>7, <2>8, <2>9 DEF CacheInv
<1> QED
  BY <1>7, <1>8

(* The cache is in order again when no transfer is under way that writes, and *)
(* none that is over but not yet taken note of.                               *)
LEMMA CacheSettled ==
  ASSUME want' \in [Task -> AllBlocks], dirty' \subseteq AllBlocks,
         cache' \in Seq(Entry), disk' \in [AllBlocks -> BOOLEAN],
         req' \in [Task -> {NoReq} \cup Load \cup Save],
         \A i, j \in DOMAIN cache' : cache'[i].id = cache'[j].id => i = j,
         \A i \in DOMAIN cache' : cache'[i].last /\ (cache'[i].mod \/ disk'[cache'[i].id]),
         \A b \in AllBlocks : (b \in dirty' \/ disk'[b]) /\ (Position(b)' # {} \/ disk'[b]),
         \A u \in Task :
           /\ pc'[u] \in Transferring <=> req'[u] # NoReq
           /\ pc'[u] = "use" => Position(want[u])' # {}
           /\ req'[u] # NoReq /\ req'[u].next # "sync" => Position(want[u])' = {}
           /\ req'[u].op = "read" => req'[u].id = want'[u]
           /\ pc'[u] # "resp"
  PROVE  CacheInv'
  BY Zenon DEF CacheInv

(* After the transfer: the load that an eviction delayed, the block that was  *)
(* loaded, or the next write-back of block_cache_sync_all.                    *)
LEMMA CacheResume ==
  ASSUME CellInv, PlaceInv, LockInv, CacheInv, NEW t \in Task, Resume(t)
  PROVE  CacheInv'
<1>1. /\ pc \in [Task -> PcValues] /\ pc[t] = "resp" /\ dev[t] = "free" /\ running = t
      /\ UNCHANGED <<want, disk, dirty, dev>>
  BY Zenon DEF CellInv, Resume
<1>2. req[t] # NoReq /\ \A u \in Task : u # t => req[u] = NoReq
  BY <1>1, OneTransfer, ZenonT(30) DEF CacheInv, Transferring
<1>3. /\ want \in [Task -> AllBlocks] /\ cache \in Seq(Entry)
      /\ req \in [Task -> {NoReq} \cup Load \cup Save] /\ req[t] \in Load \cup Save
  BY <1>2, SMTT(30) DEF CacheInv
<1>4. \A u \in Task : u # t => pc[u] \notin Transferring /\ pc[u] # "use"
  BY <1>1, <1>2, ZenonT(30) DEF CacheInv, PlaceInv, Parked
<1>5. \A b \in AllBlocks : Saving(b) => disk[b]
  <2>1. req[t].op = "write" => disk[req[t].id]
    BY <1>1, Zenon DEF CacheInv
  <2> QED
    BY <1>2, <2>1, SMTT(30) DEF Saving, NoReq
<1> DEFINE n == Len(cache)
<1>6. n \in Nat /\ DOMAIN cache = 1..n /\ \A j \in 1..n : cache[j] \in Entry
  BY <1>3, LenProperties, ElementOfSeq
<1>7. /\ \A j, k \in 1..n : cache[j].id = cache[k].id => j = k
      /\ \A j \in 1..n : cache[j].last /\ (cache[j].mod \/ disk[cache[j].id])
      /\ \A c \in AllBlocks : (c \in dirty \/ disk[c]) /\ (Position(c) # {} \/ disk[c])
  BY <1>5, <1>6, ZenonT(30) DEF CacheInv, Entry
<1> HIDE DEF n
(* The cache stays as it is, and so does the device. *)
<1>8. ASSUME UNCHANGED cache, NEW x \in {"submit", "sync"}, pc' = [pc EXCEPT ![t] = x],
             NEW r \in {NoReq} \cup Load, req' = [req EXCEPT ![t] = r],
             x = "submit" <=> r # NoReq,
             r \in Load => r.id = want[t] /\ Position(want[t]) = {}
      PROVE  CacheInv'
  <2>1. \A b : Position(b)' = Position(b)
    BY <1>8 DEF Position
  <2>2. /\ req'[t] = r /\ pc'[t] = x
        /\ \A u \in Task : u # t => req'[u] = NoReq /\ pc'[u] = pc[u]
    BY <1>1, <1>2, <1>3, <1>8, Zenon
  <2>3. \A u \in Task : /\ pc'[u] \in Transferring <=> req'[u] # NoReq
                        /\ pc'[u] # "use" /\ pc'[u] # "resp"
                        /\ req'[u] # NoReq => u = t /\ r \in Load
    BY <1>2, <1>4, <1>8, <2>2 DEF Transferring
  <2>4. req' \in [Task -> {NoReq} \cup Load \cup Save]
    BY <1>3, <1>8, SMTT(30)
  <2>5. \A i, j \in DOMAIN cache' : cache'[i].id = cache'[j].id => i = j
    BY <1>6, <1>7, <1>8, Zenon
  <2>6. \A i \in DOMAIN cache' : cache'[i].last /\ (cache'[i].mod \/ disk'[cache'[i].id])
    BY <1>1, <1>6, <1>7, <1>8, Zenon
  <2>7. \A b \in AllBlocks : (b \in dirty' \/ disk'[b]) /\ (Position(b)' # {} \/ disk'[b])
    BY <1>1, <1>7, <2>1, Zenon
  <2>8. \A u \in Task :
          /\ req'[u] # NoReq /\ req'[u].next # "sync" => Position(want[u])' = {}
          /\ req'[u].op = "read" => req'[u].id = want'[u]
    <3> SUFFICES ASSUME NEW u \in Task, req'[u] # NoReq
                 PROVE  Position(want[u])' = {} /\ req'[u].id = want'[u]
      BY DEF NoReq
    <3>1. u = t /\ req'[u] = r /\ r \in Load
      BY <2>2, <2>3, Zenon
    <3> QED
      BY <1>1, <1>8, <2>1, <3>1, Zenon
  <2>9. /\ want' \in [Task -> AllBlocks] /\ dirty' \subseteq AllBlocks
        /\ cache' \in Seq(Entry) /\ disk' \in [AllBlocks -> BOOLEAN]
    BY <1>1, <1>3, <1>8 DEF CacheInv
  <2> QED
    BY <2>3, <2>4, <2>5, <2>6, <2>7, <2>8, <2>9, CacheSettled, Zenon
<1>9. CASE req[t].next = "load"
  <2>1. /\ UNCHANGED cache /\ pc' = [pc EXCEPT ![t] = "submit"]
        /\ req' = [req EXCEPT ![t] = LoadReq(want[t])]
    BY <1>9, Zenon DEF Resume
  <2>2. LoadReq(want[t]) \in Load /\ LoadReq(want[t]) # NoReq /\ LoadReq(want[t]).id = want[t]
    BY <1>3, ZenonT(30) DEF LoadReq, Load, NoReq
  <2>3. Position(want[t]) = {}
    BY <1>2, <1>9, Zenon DEF CacheInv
  <2> QED
    BY <1>8, <2>1, <2>2, <2>3, ZenonT(30)
<1>10. CASE req[t].next = "sync"
  <2>1. /\ UNCHANGED cache /\ pc' = [pc EXCEPT ![t] = "sync"]
        /\ req' = [req EXCEPT ![t] = NoReq]
    BY <1>10, Zenon DEF Resume
  <2>2. NoReq \notin Load
    BY SMTT(30) DEF NoReq, Load
  <2> QED
    BY <1>8, <2>1, <2>2, ZenonT(30)
<1>11. CASE req[t].next = "push"
  <2> DEFINE e == [id |-> want[t], last |-> req[t].last, mod |-> FALSE]
  <2>1. /\ cache' = Append(cache, e) /\ pc' = [pc EXCEPT ![t] = "use"]
        /\ req' = [req EXCEPT ![t] = NoReq]
    BY <1>11, Zenon DEF Resume
  <2>2. req[t] \in Load /\ req[t].op = "read"
    BY <1>3, <1>11, ZenonT(30) DEF Load, Save
  <2>3. req[t].last /\ Position(want[t]) = {}
    BY <1>1, <1>2, <1>11, <2>2, ZenonT(30) DEF CacheInv
  <2>4. disk[want[t]]
    BY <1>3, <1>7, <2>3, Zenon
  <2>5. e \in Entry /\ e.id = want[t] /\ e.last
    BY <1>3, <2>2, <2>3, Zenon DEF Entry, Load
  <2> HIDE DEF e
  <2>6. /\ cache' \in Seq(Entry) /\ DOMAIN cache' = 1..(n + 1)
        /\ cache'[n + 1] = e /\ \A j \in 1..n : cache'[j] = cache[j]
    BY <1>3, <1>6, <2>1, <2>5, AppendProperties, LenProperties DEF n
  <2>7. \A j \in 1..n : cache[j].id # want[t]
    BY <1>6, <2>3, Zenon DEF Position
  <2>8. \A j, k \in DOMAIN cache' : cache'[j].id = cache'[k].id => j = k
    BY <1>6, <1>7, <2>5, <2>6, <2>7, SMTT(30)
  <2>9. \A j \in DOMAIN cache' : cache'[j].last /\ (cache'[j].mod \/ disk[cache'[j].id])
    BY <1>6, <1>7, <2>4, <2>5, <2>6, SMTT(30)
  <2>10. \A c : Position(c) # {} => Position(c)' # {}
    BY <1>6, <2>6, SMTT(30) DEF Position
  <2>11. Position(want[t])' # {}
    BY <1>1, <1>6, <2>5, <2>6 DEF Position
  <2>12. \A u \in Task : req'[u] = NoReq
    BY <1>2, <1>3, <2>1
  <2>13. \A u \in Task : pc'[u] \notin Transferring /\ (pc'[u] = "use" => u = t)
    BY <1>1, <1>4, <2>1 DEF Transferring
  <2>14. req' \in [Task -> {NoReq} \cup Load \cup Save]
    BY <1>3, <2>1, SMTT(30)
  <2>15. \A c \in AllBlocks : (c \in dirty' \/ disk'[c]) /\ (Position(c)' # {} \/ disk'[c])
    BY <1>1, <1>7, <2>10, Zenon
  <2>16. \A u \in Task : /\ pc'[u] = "use" => Position(want[u])' # {}
                         /\ req'[u].op # "read" /\ pc'[u] # "resp" /\ req'[u] = NoReq
                         /\ pc'[u] \notin Transferring
    BY <2>11, <2>12, <2>13, SMTT(30) DEF NoReq, Transferring
  <2>17. want' \in [Task -> AllBlocks] /\ dirty' \subseteq AllBlocks /\ disk' \in [AllBlocks -> BOOLEAN]
    BY <1>1, <1>3, Zenon DEF CacheInv
  <2> QED
    BY <1>1, <2>6, <2>8, <2>9, <2>14, <2>15, <2>16, <2>17, CacheSettled, Zenon
<1> QED
  BY <1>9, <1>10, <1>11, Zenon DEF Resume

LEMMA CacheStep == CellInv /\ PlaceInv /\ LockInv /\ CacheInv /\ [Next]_vars => CacheInv'
<1> SUFFICES ASSUME CellInv, PlaceInv, LockInv, CacheInv, [Next]_vars PROVE CacheInv'
  BY SMTT(30)
<1>1. pc \in [Task -> PcValues] /\ want \in [Task -> AllBlocks]
      /\ dev \in [Task -> {"free", "submitted", "used"}]
  BY ZenonT(30) DEF CellInv, CacheInv, PlaceInv
<1>2. \A t \in Task : pc[t] = "use" => Position(want[t]) # {}
  BY DEF CacheInv
<1>3. CASE UNCHANGED <<pc, want, cache, disk, req, dirty>>
           /\ \A t \in Task : dev'[t] # "submitted" => dev[t] # "submitted"
  BY <1>1, <1>2, <1>3, CacheQuiet, SMTT(30)
<1>4. CASE Dispatch \/ UartIrq \/ CharArrives \/ UNCHANGED vars
           \/ \E t \in Task : Preempt(t) \/ Yield(t)
  BY <1>3, <1>4, Zenon DEF Dispatch, UartIrq, CharArrives, vars, Preempt, Yield, blkVars
<1>5. CASE BlkIrq
  <2>1. \A t \in Task : dev'[t] # "submitted" => dev[t] # "submitted"
    BY <1>5, Zenon DEF BlkIrq, Used
  <2> QED
    BY <1>3, <1>5, <2>1 DEF BlkIrq, blkVars
(* The running task moves between places that have nothing to do with a       *)
(* transfer.                                                                  *)
<1>6. ASSUME NEW t \in Task, NEW x, pc' = [pc EXCEPT ![t] = x],
             x \notin Transferring, x # "use", pc[t] \notin Transferring,
             want' \in {want, [want EXCEPT ![t] = INODE]},
             UNCHANGED <<cache, disk, req, dirty, dev>>
      PROVE  CacheInv'
  <2>1. want' \in [Task -> AllBlocks] /\ \A u \in Task : u # t => want'[u] = want[u]
    BY <1>1, <1>6 DEF AllBlocks
  <2>2. pc'[t] = x /\ \A u \in Task : u # t => pc'[u] = pc[u]
    BY <1>1, <1>6
  <2> QED
    BY <1>2, <1>6, <2>1, <2>2, CacheQuiet, Zenon DEF Transferring
<1>7. ASSUME NEW t \in Task, NEW c \in Call, Syscall(t, c) PROVE CacheInv'
  <2>1. PICK x \in {"uart", "fslock", "open"} : pc' = [pc EXCEPT ![t] = x]
    BY <1>7, Zenon DEF Syscall
  <2> QED
    BY <1>6, <1>7, <2>1, Zenon DEF Syscall, Transferring, blkVars
<1>8. ASSUME NEW t \in Task, Open(t) PROVE CacheInv'
  <2>1. PICK x \in {"get", "fslock", "panic"} : pc' = [pc EXCEPT ![t] = x]
    BY <1>8, Zenon DEF Open
  <2> QED
    BY <1>6, <1>8, <2>1, Zenon DEF Open, Transferring, blkVars
<1>9. ASSUME NEW t \in Task, FsLock(t) \/ SyncLock(t) \/ Return(t) \/ UartOpen(t)
      PROVE  CacheInv'
  BY <1>6, <1>9, Zenon DEF FsLock, SyncLock, Return, UartOpen, Transferring, blkVars
<1>10. ASSUME NEW t \in Task, UartRead(t) PROVE CacheInv'
  BY <1>6, <1>10, Zenon DEF UartRead, Transferring, blkVars
<1>11. ASSUME NEW t \in Task, Submit(t) \/ WaitTransfer(t) PROVE CacheInv'
  <2>1. PICK x \in {"session", "resp"} :
          /\ pc' = [pc EXCEPT ![t] = x] /\ pc[t] \in Transferring
          /\ UNCHANGED <<want, cache, disk, req, dirty>>
          /\ x = "resp" => dev' = [dev EXCEPT ![t] = "submitted"]
          /\ x = "session" => dev' = dev
    BY <1>11 DEF Submit, WaitTransfer, Transferring, blkVars
  <2>2. pc'[t] = x /\ \A u \in Task : u # t => pc'[u] = pc[u] /\ dev'[u] = dev[u]
    BY <1>1, <2>1
  <2>3. x = "resp" => dev'[t] = "submitted"
    BY <1>1, <2>1
  <2> QED
    BY <1>1, <1>2, <2>1, <2>2, <2>3, CacheQuiet, Zenon DEF Transferring
<1> QED
  BY <1>4, <1>5, <1>7, <1>8, <1>9, <1>10, <1>11, CacheGet, CacheUse, CacheSync, CacheComplete,
     CacheResume, Zenon DEF Next, InKernel
===============================================================================
