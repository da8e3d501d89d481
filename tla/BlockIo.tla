------------------------------- MODULE BlockIo -------------------------------
(* Block and character input/output of the kernel, on its one processor:     *)
(*   - interrupt masking by UPIntrFreeCell           (os/src/sync/up.rs)      *)
(*   - the virtio block driver and its interrupt     (drivers/block)          *)
(*   - the serial port driver and its interrupt      (drivers/chardev)        *)
(*   - the block cache of easy-fs, its two kinds of spin lock and its         *)
(*     write-back                                    (easy-fs block_cache.rs) *)
(* A file system call touches the block of the inode and, while it holds      *)
(* that block's cache, one data block. Of a block's contents only one thing   *)
(* is kept: whether they are what was last stored in the block.               *)
(* The kernel is not preempted: only the running task moves, and interrupts   *)
(* arrive where sstatus.SIE or user mode lets them.                           *)
EXTENDS Naturals, Sequences, FiniteSets, Functions

CONSTANTS
  Task,              \* the tasks
  INITPROC,          \* the task that polls waitpid: it only yields
  ProcessOf,         \* the process of each task: its threads share the fd_table
  NONE,              \* no task, no call, the idle control flow
  Block,             \* the data blocks
  INODE,             \* the block that holds the inodes
  BLOCK_CACHE_SIZE,  \* how many blocks are cached at most
  MaxChars           \* bound: characters received and not yet read

ASSUME BlockIoAssumption ==
  /\ IsFiniteSet(Task) /\ INITPROC \in Task /\ NONE \notin Task /\ INODE \notin Block
  /\ BLOCK_CACHE_SIZE \in Nat /\ BLOCK_CACHE_SIZE >= 2 /\ MaxChars \in Nat

VARIABLES
  running,  \* the task on the processor; NONE is the idle loop of run_tasks
  ready,    \* the ready queue of the task manager
  pc,       \* where each task stands in its system call; "user" outside of one
  call,     \* the call each task is in
  want,     \* the block its get_block_cache asks for
  req,      \* its transfer: the request, and what it goes on with
  mask,     \* IntrMaskingInfo and sstatus.SIE
  guard,    \* the tasks that entered exclusive_access of their OSInode
  cell,     \* who holds the cells the interrupt handlers use
  fs,       \* who holds the Mutex of the EasyFileSystem
  mgr,      \* who holds BLOCK_CACHE_MANAGER
  cache,    \* the queue of the block cache manager
  disk,     \* whether each block of the device holds what was last stored
  dev,      \* the device: the requests submitted and the ones completed
  rx, buf,  \* characters in the serial port, and in its driver's read_buffer
  uq,       \* the readers asleep on the serial port's Condvar
  burst,    \* whether an interrupt ever found more than one character
  dirty     \* the blocks modified since a block_cache_sync_all last returned

sched == <<running, ready>>
blkVars == <<fs, mgr, cache, req, want, dirty>>
uartVars == <<rx, buf, uq, burst>>
vars == <<running, ready, pc, call, want, req, mask, guard, cell, fs, mgr,
          cache, disk, dev, rx, buf, uq, burst, dirty>>

AllBlocks == Block \cup {INODE}
Call == [kind : {"read", "write", "link"}, blk : Block] \cup {[kind |-> "getc"]}
NoReq == [op |-> "none"]

(* The elements of a set in some order; a queue without its i-th element. *)
SetToSeq(S) == CHOOSE f \in [1..Cardinality(S) -> S] : IsInjective(f)
RemoveAt(s, i) == SubSeq(s, 1, i - 1) \o SubSeq(s, i + 1, Len(s))
-----------------------------------------------------------------------------
(* Mutant: interrupts stay as they were. *)
Enter_keeps_sie(m) == [nested |-> m.nested + 1,
                       before |-> IF m.nested = 0 THEN m.sie ELSE m.before,
                       sie    |-> m.sie]
(* IntrMaskingInfo::enter and exit, and one inside the other, which is what   *)
(* every short exclusive_session does to the mask.                            *)
Enter(m) == [nested |-> m.nested + 1,
             before |-> IF m.nested = 0 THEN m.sie ELSE m.before,
             sie    |-> FALSE]
Exit(m) == [m EXCEPT !.nested = @ - 1,
                     !.sie = (m.nested = 1 /\ m.before) \/ @]
Session(m) == Exit(Enter(m))
WithSie(m, b) == [m EXCEPT !.sie = b]

Init ==
  /\ running = NONE /\ ready = SetToSeq(Task)
  /\ pc = [t \in Task |-> "user"] /\ call = [t \in Task |-> NONE]
  /\ want = [t \in Task |-> INODE] /\ req = [t \in Task |-> NoReq]
  /\ mask = [nested |-> 0, before |-> FALSE, sie |-> FALSE]
  /\ guard = {} /\ cell = [c \in {"blk", "uart"} |-> NONE]
  /\ fs = NONE /\ mgr = NONE /\ cache = <<>> /\ dirty = {}
  /\ disk = [b \in AllBlocks |-> TRUE]
  /\ dev = [t \in Task |-> "free"]
  /\ rx = 0 /\ buf = 0 /\ uq = <<>> /\ burst = FALSE
-----------------------------------------------------------------------------
(* schedule(): its own use of PROCESSOR, then the switch to the idle loop.    *)
Schedule(m) == running' = NONE /\ mask' = Session(m)

(* One round of run_tasks that finds a task. One that was stopped in user     *)
(* mode goes on through trap_return, which clears SIE.                        *)
Dispatch ==
  /\ running = NONE /\ ready # <<>>
  /\ running' = Head(ready) /\ ready' = Tail(ready)
  /\ mask' = IF pc[Head(ready)] = "user" THEN WithSie(Session(mask), FALSE)
                                         ELSE Session(mask)
  /\ UNCHANGED <<pc, call, guard, cell, disk, dev, blkVars, uartVars>>

(* The timer interrupt in user mode: the task goes to the back of the queue.  *)
Preempt(t) ==
  /\ running = t /\ pc[t] = "user"
  /\ ready' = Append(ready, t) /\ Schedule(mask)
  /\ UNCHANGED <<pc, call, guard, cell, disk, dev, blkVars, uartVars>>

(* sys_yield: as above, but a system call runs with interrupts enabled.       *)
Yield(t) ==
  /\ running = t /\ pc[t] = "user"
  /\ ready' = Append(ready, t) /\ Schedule(WithSie(mask, TRUE))
  /\ UNCHANGED <<pc, call, guard, cell, disk, dev, blkVars, uartVars>>

(* A system call: trap_handler sets SIE, and the call first asks for the      *)
(* current process.                                                           *)
Syscall(t, c) ==
  /\ running = t /\ pc[t] = "user" /\ t # INITPROC
  /\ call' = [call EXCEPT ![t] = c]
  /\ pc' = [pc EXCEPT ![t] = CASE c.kind = "getc" -> "uart"
                               [] c.kind = "link" -> "fslock"
                               [] OTHER -> "open"]
  /\ mask' = Session(WithSie(mask, TRUE))
  /\ UNCHANGED <<sched, guard, cell, disk, dev, blkVars, uartVars>>

(* The end of the call: the RefMut of the OSInode is dropped, trap_return     *)
(* clears SIE.                                                                *)
Return(t) ==
  /\ running = t /\ pc[t] = "ret"
  /\ pc' = [pc EXCEPT ![t] = "user"] /\ call' = [call EXCEPT ![t] = NONE]
  /\ want' = [want EXCEPT ![t] = INODE]
  /\ guard' = guard \ {t}
  /\ mask' = WithSie(IF t \in guard THEN Exit(mask) ELSE mask, FALSE)
  /\ UNCHANGED <<sched, cell, disk, dev, fs, mgr, cache, req, dirty, uartVars>>
-----------------------------------------------------------------------------
(* File::read and File::write of OSInode borrow it for the whole transfer.    *)
(* exclusive_access first enters the mask and then borrows. A thread of the   *)
(* same process finds the OSInode borrowed when its descriptor is the same or *)
(* a dup of the holder's; then it panics, and nothing runs after that. With   *)
(* a file of its own it goes on.                                              *)
Open(t) ==
  /\ running = t /\ pc[t] = "open"
  /\ guard' = guard \cup {t} /\ mask' = Enter(mask)
  /\ \/ /\ \E u \in guard : ProcessOf[u] = ProcessOf[t]
        /\ pc' = [pc EXCEPT ![t] = "panic"]
     \/ pc' = [pc EXCEPT ![t] = IF call[t].kind = "read" THEN "get" ELSE "fslock"]
  /\ UNCHANGED <<sched, call, cell, disk, dev, blkVars, uartVars>>

(* fs.lock(), a spin lock, in Inode::write_at and Inode::link. *)
FsLock(t) ==
  /\ running = t /\ pc[t] = "fslock" /\ fs = NONE
  /\ fs' = t /\ pc' = [pc EXCEPT ![t] = "get"]
  /\ UNCHANGED <<sched, call, mask, guard, cell, disk, dev, mgr, cache, req,
                 want, dirty, uartVars>>

Position(b) == {i \in DOMAIN cache : cache[i].id = b}
(* Arc::strong_count > 1: the inode's block, while a task goes on to its data *)
Referenced(b) == b = INODE /\ \E t \in Task : want[t] # INODE
(* Mutant: only the oldest block may be dropped. *)
Evictable_oldest == {i \in DOMAIN cache : i = 1 /\ ~Referenced(cache[i].id)}
Evictable == {i \in DOMAIN cache : ~Referenced(cache[i].id)}
FirstOf(S) == CHOOSE i \in S : \A j \in S : i <= j
LoadReq(b) == [op |-> "read", id |-> b, last |-> FALSE, next |-> "push"]
SaveReq(e, next) == [op |-> "write", id |-> e.id, last |-> e.last, next |-> next]

(* Mutant: a dropped block is not written back. *)
GetBlockCache_drops(t) ==
  /\ running = t /\ pc[t] = "get" /\ mgr = NONE
  /\ \/ /\ Position(want[t]) # {}
        /\ pc' = [pc EXCEPT ![t] = "use"]
        /\ UNCHANGED <<mgr, cache, req>>
     \/ /\ Position(want[t]) = {}
        /\ mgr' = t /\ pc' = [pc EXCEPT ![t] = "submit"]
        /\ req' = [req EXCEPT ![t] = LoadReq(want[t])]
        /\ \/ Len(cache) < BLOCK_CACHE_SIZE /\ UNCHANGED cache
           \/ /\ Len(cache) = BLOCK_CACHE_SIZE /\ Evictable # {}
              /\ cache' = RemoveAt(cache, FirstOf(Evictable))
  /\ UNCHANGED <<sched, call, mask, guard, cell, fs, want, dirty, disk,
                 dev, uartVars>>
(* BlockCacheManager::get_block_cache under its spin lock. A hit releases the *)
(* lock at once; a miss keeps it while the oldest unreferenced block is       *)
(* dropped (and written back, if modified) and the new one is loaded.         *)
GetBlockCache(t) ==
  /\ running = t /\ pc[t] = "get" /\ mgr = NONE
  /\ \/ /\ Position(want[t]) # {}
        /\ pc' = [pc EXCEPT ![t] = "use"]
        /\ UNCHANGED <<mgr, cache, req>>
     \/ /\ Position(want[t]) = {}
        /\ mgr' = t /\ pc' = [pc EXCEPT ![t] = "submit"]
        /\ \/ /\ Len(cache) < BLOCK_CACHE_SIZE
              /\ req' = [req EXCEPT ![t] = LoadReq(want[t])]
              /\ UNCHANGED cache
           \/ /\ Len(cache) = BLOCK_CACHE_SIZE /\ Evictable # {}
              /\ LET i == FirstOf(Evictable) IN
                 /\ cache' = RemoveAt(cache, i)
                 /\ req' = [req EXCEPT ![t] = IF cache[i].mod
                                              THEN SaveReq(cache[i], "load")
                                              ELSE LoadReq(want[t])]
  /\ UNCHANGED <<sched, call, mask, guard, cell, fs, want, dirty, disk,
                 dev, uartVars>>

(* BlockCache::modify of block b, by a call that changes it: the cached block *)
(* is the last stored, every other copy of b is not.                          *)
Modify(b) ==
  LET i == FirstOf(Position(b)) IN
  /\ cache' = [j \in DOMAIN cache |->
                 IF cache[j].id # b THEN cache[j]
                 ELSE [cache[j] EXCEPT !.last = (j = i), !.mod = @ \/ j = i]]
  /\ disk' = [disk EXCEPT ![b] = FALSE]
  /\ req' = [t \in Task |-> IF req[t].op = "write" /\ req[t].id = b
                            THEN [req[t] EXCEPT !.last = FALSE] ELSE req[t]]
  /\ dirty' = dirty \cup {b}

(* The closure over the cached block: first the inode's, then the data's. A   *)
(* write goes on to block_cache_sync_all; Inode::link does not.               *)
UseBlock(t) ==
  /\ running = t /\ pc[t] = "use"
  /\ IF call[t].kind = "read" THEN UNCHANGED <<cache, disk, req, dirty>>
                              ELSE Modify(want[t])
  /\ want' = [want EXCEPT ![t] = call[t].blk]
  /\ pc' = [pc EXCEPT ![t] = CASE want[t] = INODE -> "get"
                               [] want[t] # INODE /\ call[t].kind = "write" -> "syncall"
                               [] OTHER -> "ret"]
  /\ fs' = IF want[t] # INODE /\ call[t].kind = "link" THEN NONE ELSE fs
  /\ UNCHANGED <<sched, call, mask, guard, cell, mgr, dev, uartVars>>

(* block_cache_sync_all: the manager's lock is kept over all the write-backs. *)
SyncLock(t) ==
  /\ running = t /\ pc[t] = "syncall" /\ mgr = NONE
  /\ mgr' = t /\ pc' = [pc EXCEPT ![t] = "sync"]
  /\ UNCHANGED <<sched, call, mask, guard, cell, fs, cache, req, want,
                 dirty, disk, dev, uartVars>>

(* Mutant: only the block at the front of the queue is written back. *)
Modified_front == {i \in DOMAIN cache : i = 1 /\ cache[i].mod}
Modified == {i \in DOMAIN cache : cache[i].mod}

SyncNext(t) ==
  /\ running = t /\ pc[t] = "sync"
  /\ \/ /\ Modified # {}
        /\ LET i == FirstOf(Modified) IN
           /\ cache' = [cache EXCEPT ![i].mod = FALSE]
           /\ req' = [req EXCEPT ![t] = SaveReq(cache[i], "sync")]
        /\ pc' = [pc EXCEPT ![t] = "submit"]
        /\ UNCHANGED <<fs, mgr, dirty>>
     \/ /\ Modified = {}
        /\ mgr' = NONE /\ fs' = NONE /\ dirty' = {}
        /\ pc' = [pc EXCEPT ![t] = "ret"]
        /\ UNCHANGED <<cache, req>>
  /\ UNCHANGED <<sched, call, mask, guard, cell, want, disk, dev, uartVars>>
-----------------------------------------------------------------------------
(* read_block and write_block of VirtIOBlock, without blocking access: the    *)
(* session borrows the driver's cell, submits, queues on the token's Condvar  *)
(* and gives up the processor.                                                *)
Submit(t) ==
  /\ running = t /\ pc[t] = "submit" /\ cell["blk"] = NONE
  /\ cell' = [cell EXCEPT !["blk"] = t] /\ mask' = Enter(mask)
  /\ pc' = [pc EXCEPT ![t] = "session"]
  /\ UNCHANGED <<sched, call, guard, disk, dev, blkVars, uartVars>>

(* Mutant: the processor is given up with the driver's cell still borrowed. *)
WaitTransfer_holds_cell(t) ==
  /\ running = t /\ pc[t] = "session"
  /\ dev' = [dev EXCEPT ![t] = "submitted"] /\ Schedule(mask)
  /\ pc' = [pc EXCEPT ![t] = "resp"]
  /\ UNCHANGED <<ready, call, guard, cell, disk, blkVars, uartVars>>
WaitTransfer(t) ==
  /\ running = t /\ pc[t] = "session"
  /\ dev' = [dev EXCEPT ![t] = "submitted"]
  /\ cell' = [cell EXCEPT !["blk"] = NONE] /\ Schedule(Exit(mask))
  /\ pc' = [pc EXCEPT ![t] = "resp"]
  /\ UNCHANGED <<ready, call, guard, disk, blkVars, uartVars>>

(* The device, at any later time. *)
Complete(t) ==
  /\ dev[t] = "submitted"
  /\ dev' = [dev EXCEPT ![t] = "used"]
  /\ IF req[t].op = "write"
     THEN disk' = [disk EXCEPT ![req[t].id] = req[t].last] /\ UNCHANGED req
     ELSE req' = [req EXCEPT ![t].last = disk[req[t].id]] /\ UNCHANGED disk
  /\ UNCHANGED <<sched, pc, call, mask, guard, cell, fs, mgr, cache, want,
                 dirty, uartVars>>

(* Interrupts are taken in user mode, and in the kernel when SIE is set. *)
UserMode == running # NONE /\ pc[running] = "user"
InterruptsOn == UserMode \/ mask.sie

Used == {t \in Task : dev[t] = "used"}

(* VirtIOBlock::handle_irq: every completed request wakes its task. *)
BlkIrq ==
  /\ InterruptsOn /\ Used # {} /\ cell["blk"] = NONE
  /\ dev' = [t \in Task |-> IF t \in Used THEN "free" ELSE dev[t]]
  /\ ready' = ready \o SetToSeq(Used)
  /\ UNCHANGED <<running, pc, call, mask, guard, cell, disk, blkVars, uartVars>>

(* The task goes on after schedule(): the next request, or the block is in.   *)
Resume(t) ==
  /\ running = t /\ pc[t] = "resp" /\ dev[t] = "free"
  /\ \/ /\ req[t].next = "load"
        /\ req' = [req EXCEPT ![t] = LoadReq(want[t])]
        /\ pc' = [pc EXCEPT ![t] = "submit"]
        /\ UNCHANGED <<cache, mgr>>
     \/ /\ req[t].next = "push"
        /\ cache' = Append(cache, [id |-> want[t], last |-> req[t].last, mod |-> FALSE])
        /\ mgr' = NONE /\ req' = [req EXCEPT ![t] = NoReq]
        /\ pc' = [pc EXCEPT ![t] = "use"]
     \/ /\ req[t].next = "sync"
        /\ req' = [req EXCEPT ![t] = NoReq] /\ pc' = [pc EXCEPT ![t] = "sync"]
        /\ UNCHANGED <<cache, mgr>>
  /\ UNCHANGED <<sched, call, mask, guard, cell, fs, want, dirty, disk,
                 dev, uartVars>>
-----------------------------------------------------------------------------
(* NS16550a::read: the driver's cell is borrowed to look at the buffer. *)
UartOpen(t) ==
  /\ running = t /\ pc[t] = "uart" /\ cell["uart"] = NONE
  /\ cell' = [cell EXCEPT !["uart"] = t] /\ mask' = Enter(mask)
  /\ pc' = [pc EXCEPT ![t] = "uartin"]
  /\ UNCHANGED <<sched, call, guard, disk, dev, blkVars, uartVars>>

(* Mutant: the reader lets go of the cell before it joins the queue. *)
UartRead_late_wait(t) ==
  /\ running = t /\ pc[t] = "uartin"
  /\ cell' = [cell EXCEPT !["uart"] = NONE]
  /\ \/ /\ cell["uart"] = t /\ buf > 0
        /\ buf' = buf - 1 /\ mask' = Exit(mask)
        /\ pc' = [pc EXCEPT ![t] = "ret"]
        /\ UNCHANGED <<running, uq>>
     \/ /\ cell["uart"] = t /\ buf = 0
        /\ mask' = Exit(mask) /\ UNCHANGED <<running, pc, uq, buf>>
     \/ /\ cell["uart"] # t
        /\ uq' = Append(uq, t) /\ Schedule(mask)
        /\ pc' = [pc EXCEPT ![t] = "uart"]
        /\ UNCHANGED buf
  /\ UNCHANGED <<ready, call, guard, disk, dev, blkVars, rx, burst>>
(* A character, or wait_no_sched under the same borrow and schedule after it. *)
UartRead(t) ==
  /\ running = t /\ pc[t] = "uartin"
  /\ cell' = [cell EXCEPT !["uart"] = NONE]
  /\ \/ /\ buf > 0
        /\ buf' = buf - 1 /\ mask' = Exit(mask)
        /\ pc' = [pc EXCEPT ![t] = "ret"]
        /\ UNCHANGED <<running, uq>>
     \/ /\ buf = 0
        /\ uq' = Append(uq, t) /\ Schedule(Exit(mask))
        /\ pc' = [pc EXCEPT ![t] = "uart"]
        /\ UNCHANGED buf
  /\ UNCHANGED <<ready, call, guard, disk, dev, blkVars, rx, burst>>

CharArrives ==
  /\ rx + buf < MaxChars
  /\ rx' = rx + 1
  /\ UNCHANGED <<sched, pc, call, mask, guard, cell, disk, dev, blkVars, buf, uq, burst>>

(* NS16550a::handle_irq: all the characters are taken, one reader is woken.   *)
UartIrq ==
  /\ InterruptsOn /\ rx > 0 /\ cell["uart"] = NONE
  /\ buf' = buf + rx /\ rx' = 0
  /\ burst' = (burst \/ rx > 1)
  /\ IF uq = <<>> THEN UNCHANGED <<ready, uq>>
                  ELSE ready' = Append(ready, Head(uq)) /\ uq' = Tail(uq)
  /\ UNCHANGED <<running, pc, call, mask, guard, cell, disk, dev, blkVars>>
-----------------------------------------------------------------------------
InKernel(t) ==
  \/ Open(t) \/ FsLock(t) \/ GetBlockCache(t) \/ UseBlock(t)
  \/ SyncLock(t) \/ SyncNext(t) \/ Submit(t) \/ WaitTransfer(t) \/ Resume(t)
  \/ UartOpen(t) \/ UartRead(t) \/ Return(t)

Next ==
  \/ Dispatch \/ BlkIrq \/ UartIrq \/ CharArrives
  \/ \E t \in Task : \/ Preempt(t) \/ Yield(t) \/ InKernel(t) \/ Complete(t)
                     \/ \E c \in Call : Syscall(t, c)

Spec == Init /\ [][Next]_vars

(* run_tasks takes the next task whenever there is one; kernel code runs on;  *)
(* the device answers; and a pending interrupt is taken as soon as it is      *)
(* enabled, so one that is enabled time and again is not passed over for      *)
(* ever. The timer is such an interrupt: a task that is in user mode time and *)
(* again is there for one of its ticks.                                       *)
Fairness ==
  /\ WF_vars(Dispatch) /\ SF_vars(BlkIrq) /\ SF_vars(UartIrq)
  /\ \A t \in Task : /\ WF_vars(InKernel(t)) /\ WF_vars(Complete(t))
                     /\ SF_vars(Preempt(t))
FairSpec == Spec /\ Fairness
-----------------------------------------------------------------------------
TypeOK ==
  /\ running \in Task \cup {NONE} /\ ready \in Seq(Task) /\ uq \in Seq(Task)
  /\ pc \in [Task -> {"user", "open", "fslock", "get", "use", "syncall", "sync",
                      "submit", "session", "resp", "uart", "uartin", "ret",
                      "panic"}]
  /\ call \in [Task -> Call \cup {NONE}] /\ want \in [Task -> AllBlocks]
  /\ mask \in [nested : Nat, before : BOOLEAN, sie : BOOLEAN]
  /\ guard \subseteq Task /\ fs \in Task \cup {NONE} /\ mgr \in Task \cup {NONE}
  /\ cell \in [{"blk", "uart"} -> Task \cup {NONE}]
  /\ cache \in Seq([id : AllBlocks, last : BOOLEAN, mod : BOOLEAN])
  /\ disk \in [AllBlocks -> BOOLEAN]
  /\ dev \in [Task -> {"free", "submitted", "used"}]
  /\ rx \in Nat /\ buf \in Nat /\ burst \in BOOLEAN /\ dirty \subseteq AllBlocks

(* nested_level counts the borrows that are alive, including those of tasks   *)
(* that sleep on a transfer, and an interrupt never finds the cell its        *)
(* handler needs borrowed: exclusive_access in handle_irq cannot panic.       *)
HandlersFindCellsFree ==
  /\ mask.nested = Cardinality(guard) + Cardinality({c \in DOMAIN cell : cell[c] # NONE})
  /\ InterruptsOn => \A c \in DOMAIN cell : cell[c] = NONE

(* The spin locks of easy-fs: a task that spins in the kernel, where nothing  *)
(* can take the processor from it, waits for a task that sleeps on (or is     *)
(* about to resume from) a block transfer; and get_block_cache always finds a *)
(* block to drop, so "Run out of BlockCache!" is not reached. The panic of    *)
(* exclusive_access of an OSInode is the same hazard without a lock: another  *)
(* thread of the process sleeps in a transfer with the RefMut.                *)
Spins(t) == running = t /\ \/ pc[t] = "fslock" /\ fs # NONE
                           \/ pc[t] \in {"get", "syncall"} /\ mgr # NONE
Holder(t) == IF pc[t] = "fslock" THEN fs ELSE mgr
SpinsOnlyBehindTransfer ==
  /\ \A t \in Task : Spins(t) => Holder(t) # t /\ pc[Holder(t)] = "resp"
  /\ \A t \in Task : pc[t] = "panic" =>
       \E u \in guard \ {t} : ProcessOf[u] = ProcessOf[t] /\ pc[u] = "resp"
  /\ \A t \in Task : pc[t] = "get" /\ Len(cache) = BLOCK_CACHE_SIZE => Evictable # {}

(* A block is cached once, and what the cache, else a write-back under way,   *)
(* else the device holds is what was last stored in it: get_block_cache never *)
(* hands out older contents, whatever was evicted and loaded in between.      *)
CacheCoherent ==
  /\ TypeOK
  /\ \A b \in AllBlocks :
       /\ Cardinality(Position(b)) <= 1
       /\ \A i \in Position(b) : cache[i].last
       /\ \/ Position(b) # {} \/ disk[b]
          \/ \E t \in Task : req[t].op = "write" /\ req[t].id = b /\ req[t].last

(* Once block_cache_sync_all has returned, everything stored before it is on  *)
(* the device: a crash can lose only what was modified since. A write syncs   *)
(* before it returns; a link does not, and stays in the cache until the next  *)
(* call that does, or until it is evicted.                                    *)
SyncedIsOnDisk == \A b \in AllBlocks \ dirty : disk[b]

(* NS16550a: as long as each interrupt delivers one character, no reader      *)
(* stays asleep beside a buffered character without another reader on its     *)
(* way to the buffer: looking and going to sleep are one masked step.         *)
NoStrandedReader ==
  ~burst /\ uq # <<>> /\ buf > 0 =>
    \E t \in Task : pc[t] \in {"uart", "uartin"} /\ t \notin Range(uq)

(* A block transfer wakes its task: although a task sleeps with its OSInode   *)
(* borrowed, which keeps the idle loop's interrupts masked, init's polling    *)
(* brings the processor to user mode, where the interrupt is taken. Two       *)
(* things keep it from running, both while it sleeps: a task that spins on a  *)
(* lock of the sleeper, for ever, and a thread that panics because it uses    *)
(* the OSInode the sleeper has borrowed.                                      *)
CallReturnsUnlessSpin ==
  \A t \in Task \ {INITPROC} : (pc[t] = "resp") ~>
    (pc[t] # "resp" \/ \E u \in Task : Spins(u) \/ pc[u] = "panic")
=============================================================================
