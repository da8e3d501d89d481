# A TLA+ model of rcore-os

This directory models the kernel and the file system of this repository in
TLA+. TLC checks the
models on small instances and TLAPS proves the main properties for every value
of the constants. `PROJECT.json` lists the components, runs, mutants, findings,
hazards and theorems, and maps every definition to the source lines it models.

## The system

The kernel (`os/`) runs on one RISC-V hart. It is not preemptive: a timer trap
from user mode preempts a task, but inside a system call an interrupt may only
wake tasks (`trap_from_kernel`), never switch. Shared state sits in
`UPIntrFreeCell`s, which mask interrupts while they are borrowed. A model step
is therefore one stretch of kernel code that no interrupt can observe or change.

| Part | State | Operations | What is hard about it |
|---|---|---|---|
| Scheduler (`task/manager.rs`, `processor.rs`, `mod.rs`) | ready queue, current task, `task_status` | suspend, block, exit, dispatch, wake up | a task in two queues, or in none |
| Synchronisation (`sync/`, `syscall/sync.rs`) | `locked`, `count`, wait queues | lock, unlock, up, down, signal, wait | queueing and blocking are two steps; unlock hands the lock over |
| Timer (`timer.rs`) | heap of `TimerCondVar` | `add_timer`, `check_timer` | a timer expires before its task has blocked |
| Traps (`trap/`) | SIE, the trap context | system call, timer, fault, `trap_return` | SIE belongs to the hart, not to a task |
| Id allocation (`task/id.rs`) | `current`, `recycled` | alloc, dealloc | reuse without loss or doubling |
| Pipe (`fs/pipe.rs`) | ring buffer, reference counts of the ends | read, write, dup, close, fork, exit | full against empty, stale budgets, end of file |
| Signals (`task/signal.rs`, `action.rs`, `mod.rs`) | pending set, per-thread masks, actions, flags, saved context | kill, sigaction, sigprocmask, sigreturn, handling at trap exit | nested handlers, stop and continue, one set for many threads |
| Processes and threads (`task/process.rs`, `syscall/process.rs`, `thread.rs`) | tables of processes, tasks and ids | fork, exec, exit, waitpid, thread create, waittid | threads that outlive the main thread, reference counts in asserts |
| Interrupt masking and devices (`sync/up.rs`, `drivers/`) | nesting level, saved SIE, device queues | enter, exit, request, `handle_irq` | a borrow or a spin lock that lives across a switch |
| Block cache (`easy-fs/src/block_cache.rs`) | queue of cached blocks, their locks | hit, miss, eviction, write-back, sync | transfers that sleep under a spin lock, a crash before a sync |
| easy-fs (`easy-fs/`) | bitmaps, inodes, index blocks, directories | create, link, unlink, read, write, clear | level boundaries, blocks lost or shared |
| File layer (`fs/inode.rs`, `syscall/fs.rs`) | descriptors, open files, working directories | open, close, dup, read, write, link, unlink, chdir | a directory or file removed while it is in use |
| Memory (`mm/`, `task/mem.rs`, `syscall/mem.rs`) | frames, page tables, areas, mmap ranges | map, unmap, page fault, fork, exec, exit | two tables of one mapping that disagree, lazy mapping |
| Network (`net/`) | listen and socket tables | listen, accept, connect, read, receive | indices that outlive their entry, repeated packets, polling |
| User programs (`user/`) | - | sequences of system calls | they are the environment of the models |

The parts meet in a few places. Every blocking call goes through the scheduler.
Signals are handled at the end of every trap. `fork` and `exit` change the
reference counts that a pipe reads as end of file. Id allocation serves
processes, kernel stacks and threads. The file layer stands on easy-fs, easy-fs on
the block cache, the block cache on a driver whose calls sleep until an
interrupt. mmap of a file goes through the descriptor table to an inode.

## Modules

| Module | Models | Remarks |
|---|---|---|
| `Tasks` | the scheduler's functions | operators that other modules conjoin to their own updates |
| `KernelSync` | mutexes, semaphores, condition variables, sleep, timer and traps on top of `Tasks` | the core |
| `TaskLifecycle` | what the scheduler promises, without queues | abstract specification of `KernelSync` |
| `RecycleAllocator` | `RecycleAllocator` of `task/id.rs` | operators, which `Process` uses for pids and thread ids |
| `IdAllocation` | one such allocator and those it serves | |
| `Pipe` | ring buffer, read and write loops, descriptors | |
| `ByteChannel` | a bounded FIFO channel that closes once | abstract specification of `Pipe` |
| `Signals` | the signals of one process and its threads | |
| `Process` | process and thread tables, their ids and references, on top of `Tasks` | |
| `BlockIo` | interrupt masking, block and serial drivers with their interrupts, the block cache | a call is many steps here |
| `EasyFs` | easy-fs on its block device | an operation is one step |
| `FileTree` | a tree of files and directories | abstract specification of `EasyFs`, and what `FileLayer` stands on |
| `FileLayer` | descriptors, open files, working directories and the calls on them | |
| `AddressSpace` | frames, page tables, areas, mmap and page faults | |
| `Net` | the port and socket tables and the calls on them | |
| `DiskLayout` | the arithmetic of places on the device | operators, no state |
| `AddressLayout` | the arithmetic of pages, ranges and stacks | operators, no state |
| `MC*` | instances for TLC | |
| `KernelSyncProofs`, `PipeProofs` | theorems and proofs about one module | |
| `SignalNetProofs` | about `Signals` and about `Net`, which share nothing | |
| `BlockCacheProofs`, `BlockIoProofs` | about `DiskLayout` and `BlockIo` | the second extends the first |
| `ProcessStepProofs`, `ProcessCallProofs`, `ProcessProofs` | about `Process`, `IdAllocation` and `AddressLayout` | each extends the one before |

### Tasks and KernelSync

The variables carry the names of the Rust fields. `kpc` says where a task
stands in user or kernel code, `sie` is `sstatus.SIE`, `held` is a history
variable with the mutexes whose `lock()` was granted to a task.

- A blocking call has two steps: one that queues the task (`Enqueue`,
  `sys_sleep`), one that blocks it (`BlockCurrent`). `KernelTimer` can run in
  between and, for a sleep that is already over, wake a task that still runs.
  `task_status` is then wrong (Blocked while in the ready queue) but
  `run_tasks` never reads it. `OnePlace` and `ImplementsLifecycle` show that
  the race does no harm.
- `Condvar::wait` has three: unlock, queue, block, and then `lock()` again.
- `check_timer` wakes the expired tasks in heap order. Equal times may come in
  any order, and `WakeOrders` has all of them.
- `sie` survives a task switch as the hardware bit does: `RunTask` of a task
  that is still in the kernel keeps what the last task left.
- `initproc` never blocks and never exits, as its source shows (`MayBlock`).
- The objects exist from the start. The create calls are not modelled, nor is
  the fact that the exit of a main thread ends the other threads of its process.
- `Disciplined` is a promise of the programs, not a check of the kernel: a task
  unlocks only a mutex that it holds.

### RecycleAllocator and IdAllocation

`RecycleAllocator` has `alloc`, `dealloc` and the asserts of `dealloc` as
operators on a record of `current` and `recycled`. `IdAllocation` is one
allocator with any sequence of `alloc` and `dealloc` of an id that is out.
`live` and `peak` are history variables.

### Pipe

`running` is the task that is inside a read or write loop. It keeps the
processor until the call returns or suspends. `budget` is `loop_read` or
`loop_write`, computed once per round as in the code. The write end is closed
when no descriptor and no call in progress holds it, which is what the `Weak`
in the ring buffer tells. `sent`, `received` and `eof` are history variables.
A process has at most one thread inside a pipe call.

### Signals

One process and its threads. `trap_cx` is abstracted to the sequence of
handlers that the thread entered and did not leave. One turn of the loop of
`current_handle_signals` is a step (`HandleSignals`). The `for` loop of
`check_pending_signals` is given in closed form: `Deliverable` are the pending
signals it does not skip, `Reached` those it gets to before it returns after the
first user signal. `Flag` keeps five bits of `signum`, as the shift does in the
release build that the Makefile makes. A system call that blocks is taken to
return some time. When the main thread exits, the process is over: what becomes
of the other threads is in `Process`.

`sent`, `taken` and `nested` are history variables; the last says that a thread
entered a handler which the mask of the action in progress let through. What the
programs do is limited by `ActionGiven`, the actions a thread passes to
`sys_sigaction`, `ProcMask`, the masks it passes to `sys_sigprocmask`, and
`KillArg` and `ActionArg`, the signal numbers. The kernel checks no mask, and
neither does the model: SIGKILL may be masked. `sys_sigreturn` may be called at
any time, and without a saved context it panics (`running = PANIC`).

### Process

A process control block is named by its pid, since the `PidHandle` in it keeps
the pid until the block is dropped. A task control block is a member of `Task`,
free when it is `NONE`. `tasks` is the table of a process by thread id, `areas`
the thread ids whose user stack and trap context are mapped, `res` says that a
task still has its `TaskUserRes`.

- A call is one step, except `sys_read` and `sys_write` on a pipe, which suspend
  while they hold an `Arc` of their process (`in_call`).
- A failed assert or an `unwrap` of `None` sets `panicked` and nothing happens
  any more.
- `StrongCount` counts what `Arc::strong_count` counts: the map, the lists of
  children and the calls in progress.
- `exit_main` is the whole of `exit_current_and_run_next` for thread 0: the
  children go to initproc, the resources of all threads are freed and the other
  threads leave the table, but not the ready queue or `TIMERS`.
- initproc forks once and then waits in a loop, as its source shows.
- `JoinsFirst` and `ForksAfterThreads` say what the programs do. The passing
  run takes programs whose main thread ends last and that do not fork once they
  have had a thread. `exit_with_threads` drops the first of the two.
- Exit codes, file tables, memory contents and signals are left out. Calls that
  return an error change nothing and are not steps.

### BlockIo

`mask` is `IntrMaskingInfo` together with `sstatus.SIE`. `guard` has the tasks
that entered `exclusive_access` of their `OSInode`, whose `RefMut` they keep while
they sleep on a transfer. `ProcessOf` says which tasks are threads of one process
and may use the same `OSInode`; a second one that does so meanwhile panics
(`Open`). `cell` says who has borrowed the cells that the interrupt handlers
borrow too. A file system call takes the lock of the file system, gets the cache
of the inode's block and, while it holds that, the cache of a data block. A miss
may evict a block and write it back. A transfer is submitted in a masked session
(`session`), and the task sleeps (`resp`) until the interrupt has found its
completion. Of a block's contents one bit is kept: whether they are what was
last stored.

- Interrupts are taken in user mode, in the idle loop and in the kernel, where
  SIE is on.
- `nested_level > 0` says nothing about SIE: a task sleeps with its `OSInode`
  borrowed, and a system call of another task turns SIE on again. What keeps the
  handlers out is the `enter` of the session itself, and this is what
  `BlockIoProofs` proves.
- Every transfer sleeps under the lock of `BLOCK_CACHE_MANAGER`
  (`easy-fs/src/block_cache.rs:134`). A second task that enters the file system
  in the meantime spins in the kernel, where nothing takes the processor from it.
  `SpinsOnlyBehindTransfer` says that this is the only spin there is. A comment
  at `os/src/syscall/fs.rs:381` warns of the same for a `RefMut` held over a
  transfer: a thread that reads or writes through the descriptor of a sleeping
  one, or a dup of it, panics at `os/src/sync/up.rs:82`. `CallReturnsUnlessSpin`
  excepts the spin and the panic; otherwise a transfer's task goes on.
- A page fault on a mapped file holds the inner cell of the process over the
  transfer (`os/src/task/mem.rs:19`), so that any other thread of the process that
  gets the processor meanwhile panics in the same way. `BlockIo` has no page
  faults.
- `burst` remembers that one interrupt brought several characters. The handler
  wakes one reader only, so `NoStrandedReader` is about the other case.

### EasyFs and FileTree

An operation holds the lock of the file system from start to end, so it is one
step. Operations are functions on the record of bitmaps, inode area and blocks
(`Fs`), as the code is on the device. `get_block_id`, `total_blocks`,
`PlaceBlock` (`increase_size`) and `BlocksOf` (`clear_size`) are written from
four separate pieces of code that must agree on where index blocks begin, and
`BlocksConserved` says that they do. `tree` follows `FileTree` through the same
operations, and `ImplementsTree` says that it is what the device holds, read
through the indices. `lost` has the blocks that a directory drops when it
shrinks: `unlink` lowers the size and does not give the block back.
A full device or inode bitmap panics, as the code does.

"." and ".." are entries like the others: `create` and `link` refuse them because
they are there, `unlink` takes them. They are not counted in `nlink` when they are
made, but `unlink` counts them down: `unlink("a/.")` clears a directory that its
parent still lists, and the next `unlink("a")` takes `nlink` below zero, where it
wraps (`LinkMod`; 2^32 in the code, and 16 in the instances, more than the links
there can be). `bare` remembers the inodes to which that happened, and
`LinksCounted` says nothing about their links.

### FileLayer

A call is one step: a second one that overlaps a transfer spins at the block
cache or panics at the `OSInode` (`BlockIo`). `cut` has the open files that were
emptied while they were open. The files are a `FileTree`. `open` has the `OSInode`s,
which `fork` copies and `dup` shares. `base_inode` computes the name of the
working directory and looks it up again: `BaseInode` has its three outcomes, an
inode, an error and a panic. Descriptors of pipes and of stdio are elsewhere or
not modelled.

### AddressSpace

A page table is the set of its inner pages (`nodes`) and its entries (`pte`). An
area keeps a frame for each page. `mm` is `mmap_mapped`, `fm` is the `FileMapping`
of the one file. The frame allocator hands out recycled frames first. Which one
it is makes no difference, since it is cleared first. A failed assert or `expect`
sets `panic`. `exec` replaces the page table and leaves the `FileMapping` with
the token of the old one, which is freed: what a translation through it finds is
undefined, and every outcome is allowed. `stale` has the pages that `munmap`
cleared while an area or file mapping still lists them. At exit `sync` runs when
the processor has no current task: a write, or a read of the inode that is not
cached, would have to wait for the disk and unwraps `None` in
`Condvar::wait_no_sched` (`ExitSyncOutcomes`).

### Net

Nothing but `accept` and `read` looks at the device, and they poll in the kernel
until they have what they wait for, so all other tasks stand still meanwhile
(`busy`). Packets are lost, repeated and in any order: any packet may come at any
time. `owed` is a history variable: the packets that came for an open file. A
packet that is longer than the reader's buffer is cut, which the model does not
see because a packet is one value. TCP sequence numbers do not decide anything in
the code and are left out.

### DiskLayout and AddressLayout

Operators without state, in the words of the code, for the numbers the other
modules abstract from: the areas, inodes and bits of easy-fs (`DiskLayout`), and
pages and ranges, stacks and trap contexts, and the loop of
`translated_byte_buffer` (`AddressLayout`).

## Runs

| Run | Instance | Shows |
|---|---|---|
| `kernel_sync` | initproc and 3 tasks, one object of each kind, time 0..2, symmetry over the 3 tasks | `OnePlace`: no lost or double wake-up. `MutualExclusion`, `SemaphoreCount`, `NoBarging`. `ImplementsLifecycle`: refinement of `TaskLifecycle` |
| `kernel_sync_live` | initproc and 2 tasks, no symmetry | `ReadyRuns`, `SleeperRuns` |
| `pipe` | 2 processes, ring of 3, buffers of up to 2, 2 byte values, 4 bytes in all | `EofIsFinal`, `ImplementsChannel`: refinement of `ByteChannel`. `ReaderReturns` |
| `signals` | 2 threads, signal 1 (sent as 33), SIGKILL, SIGSEGV, SIGCONT, SIGSTOP, SIGDEF (sent as 32); 1 and SIGSTOP up to twice; empty and full masks | `SignalsConserved`, `SigreturnRestores`, `KilledLeaves`, `StoppedStays`, `KillEndsUnlessShadowed`, `ContinueUnlessShadowed` |
| `process` | initproc and up to 2 processes, 4 tasks, 3 thread ids | `ProcessTree` (with pids and map), `WaitpidAssert`, `ThreadTable`, `NoPanic`, `TidKeptUntilWait`, `HeadReaped` |
| `block_io` | initproc and 2 threads of a process, inode block and 2 data blocks, cache of 2, 2 characters | `HandlersFindCellsFree`, `SpinsOnlyBehindTransfer`, `CacheCoherent`, `SyncedIsOnDisk`, `NoStrandedReader`, `CallReturnsUnlessSpin` |
| `easy_fs` | 3 inodes, 14 data blocks, 1 direct block, index blocks of 2, 5 operations, symmetry over the names | `BlocksConserved`, `LinksCounted`, `ImplementsTree` |
| `file_layer` | 2 processes, 3 inodes, 5 paths, 2 descriptors each, 5 calls | `OpenFilesOwned`, `CwdResolves`, `OffsetsInside` |
| `address_space` | 2 processes, 2 pages for mmap, a file of 2 pages, 6 steps | `FramesOwned`, `EntriesOwned`, `AreasMapped` |
| `net` | 2 processes, 2 remote ends, 1 port, 2 port entries, 3 files | `SocketsOwned`, `DataDelivered`, `CallAnswered` |
| `exit_with_threads` | `Process` with `JoinsFirst = FALSE` | violation of `ReturnsWithRes`: a thread runs after its main thread took its resources |
| `dirty_pages` | as `address_space` | violation of `DirtyPagesWritten`: a store through a second mapping is not written back |

`ProcessTree`, `BlocksConserved`, `FramesOwned`, `OpenFilesOwned`, `SocketsOwned`
and `CacheCoherent` include the type invariant of their module. Those of
`KernelSync`, `Pipe` and `Signals` are theorems. Every
property of a passing run has a mutant: a definition of the module changed the
way a bug would change it, placed just before the original and marked `Mutant`,
under which TLC finds the property violated.

`IdAllocation` and the two layout modules have no run. What is said of them are
theorems, for any number of ids and any sizes.

### Bounds

- `MaxTime = 2` lets two timers expire in one interrupt, together or one after
  the other, and one that expires at once (`sys_sleep(0)`).
- `MaxCount` and `ResCount` of 1 let a semaphore be positive, zero and, with
  three tasks, down to -2 (`kernel_sync_live` starts at 0).
- Three tasks besides initproc let one hold, one wait and one come later, which
  hand-over and barging need. Wait queues of two come with it.
- 4 bytes through a ring of 3 wrap around, fill it and empty it. A buffer of 2
  that finds one byte or one free place splits over two rounds with a suspension
  in between. A ring of 2 would be too small: a wrong comparison of head and tail
  in `available_read` then goes unnoticed by the refinement.
- Signal 1 up to twice lets it come again while its handler runs: with the empty
  mask, which the programs of the repository pass, the handler is entered again and
  the second `sys_sigreturn` panics; with the full mask it waits. A second SIGSTOP
  lets a process be stopped again. The other signals stay pending until the process
  ends, or are needed once. Only a second SIGSTOP can meet the pending SIGCONT of a stopped process, and SIGSTOP
  then wins, because `check_pending_signals` goes by number:
  `ContinueUnlessShadowed` excepts that case. Two threads let one take what
  another was sent. Only the main thread calls `sys_sigprocmask` and
  `sys_sigaction`, which is enough for a signal that one thread sees and the other
  does not. Its mask has SIGKILL and SIGCONT, the two that the liveness properties
  are about. 33 is cut to 1 by the shift, and 32 to SIGDEF.
- 4 tasks let a process have a child, or two threads besides its main thread, and
  pids and thread ids be recycled. Three pids let initproc have two children, one
  of them an orphan.
- A cache of 2 for 3 blocks makes the second block of a call evict the one of
  another, with a write-back if it was modified, while the inode's block is held.
- 1 direct block and index blocks of 2 put the three levels within 7 data blocks
  per file, and the writes end in each of the 7. 14 blocks let
  two files be large at a time or the device run full. `BitmapBits = 15` is more
  than the data area has, as it may be in the code: the last bit names a block
  past the area.
- 5 calls of `FileLayer` are enough to make a directory, enter it, remove it and
  use it, or to write, dup, truncate and read a file.
- Two pages and a file of two let a mapping be mapped twice, partly touched,
  unmapped and mapped again before a fork. 34 frames serve two processes with
  what they map. `Fanout = 2` makes pages share the inner pages of a table.
- Two entries of one port show the shadowing of an accept. Two remote ends tell
  connections apart, and a slot is used again by another connection.
- The theorems have no such bounds: what a bound guards (`MaxTime`, `MaxCount`,
  `MaxSent`, `MaxLen`, `MaxChars`, `MaxPid`, `MaxTid`, `MaxFd`, `MaxPort`,
  `MaxFile`, `MaxBuf`) is an arbitrary natural number there.

Deadlock is checked in `kernel_sync`, `kernel_sync_live` and `process`. In `Pipe`
and `Net` every descriptor may be closed, in `Signals` the process may be gone,
in `BlockIo` a spin or a panic ends everything, and the other models stop after
`MaxOps` steps or a panic.

### Fairness

- `KernelSync`: weak fairness of kernel code, of the dispatch loop and of the
  clock. Strong fairness of `UserTimer`: the timer interrupt stays pending until
  it is taken, and it is not synchronised with a task's system calls, so it does
  not find the task in the kernel every time.
- `Pipe` and `Signals`: kernel code runs on, and a task that suspended gets the
  processor again however often the others do. That is strong fairness of
  `Resume` and `HandleSignals`, and what `ReadyRuns` shows of the FIFO queue.
  `SuspendingTrap` is the timer again.
- `Process`: weak fairness of the dispatch loop, of the timer trap and of a call
  that goes on. Strong fairness of the wait of initproc, which calls it in a loop:
  the timer does not take the processor away before every single call.
- `BlockIo`: weak fairness of kernel code, of the dispatch loop and of the device,
  which completes what was submitted. Strong fairness of the interrupts and of
  preemption: they stay pending while they are masked.
- `Net`: the code has no timeout, so nothing returns by itself. `CallAnswered`
  takes a network that goes on to deliver what the call waits for.

### Findings

- `exit_with_threads`: the exit of a main thread frees the resources of all
  threads but `remove_inactive_task` is commented out (`os/src/task/mod.rs:121`).
  A thread that is dispatched afterwards unwraps `None` in `trap_return`.
- `dirty_pages`: `FileMapping::sync` looks at the dirty bit of the page through
  which an offset was mapped first (`os/src/task/process.rs:202`). A store
  through another mapping of the same offset sets the bit of another entry.

What follows are assumptions about programs, or limits of a property, that the
models need in the same way, without a run of their own. Where an instance is
named, it shows the counterexample when it is changed as described.

- `Disciplined = FALSE` in `MCKernelSync.cfg` violates `UnlockAssertion`:
  `sys_mutex_unlock` does not check the owner (`os/src/sync/mutex.rs:86`).
- SIGDEF, which `sig_tests` sends as `1 << 19`, sets `killed`
  (`os/src/task/mod.rs:253`), and the error check does not know it: the threads are
  marked killed and run on. This is the exception in `KilledLeaves`.
- There is one `trap_cx_backup`: a handler interrupted by a second one unwraps
  `None` in its `sys_sigreturn` (`os/src/syscall/process.rs:195`) and the kernel
  stops. The empty mask that every program passes (`user/src/lib.rs:330`) lets the
  second one in. This is the exception in `SigreturnRestores`, which the run
  reaches.
- `sys_sigprocmask` takes any mask (`os/src/syscall/process.rs:141`), and
  `check_pending_signals` skips what is masked. A stopped process that masks
  SIGKILL does not die and one that masks SIGCONT does not go on, which
  `KillEndsUnlessShadowed` and `ContinueUnlessShadowed` except.
- `imap` in place of `imap \ bare` in `LinksCounted` is violated by
  `unlink("a/.")` (`easy-fs/src/vfs.rs:376`).
- An exit of a process with a page of a file to write back stops the kernel
  (`os/src/task/mod.rs:141`), as described under `AddressSpace`.
- A user signal without a handler stays pending and ends every pass of
  `check_pending_signals` (`os/src/task/mod.rs:229`). A stopped process then never
  sees a higher SIGKILL, against the comment at line 182. This is the exception
  in `KillEndsUnlessShadowed`.
- `ForksAfterThreads = TRUE` in `MCProcess.cfg` violates `NoPanic`:
  `thread_count` is the length of a table that `sys_waittid` does not shrink, so a
  process that had a thread fails the assert at `os/src/task/process.rs:415`
  (and 499 for exec).
- `WaitpidAssert` in place of `ReturnsWithRes` in `MCProcessExit.cfg`, with
  `CHECK_DEADLOCK FALSE`, fails at `os/src/syscall/process.rs:122` when a thread
  of the zombie is suspended in a pipe call, which holds its process.
- `AddressSpace`: a fork panics after a `munmap` of memory that was touched, since
  the area stays (`AreasMapped`), and after one of a file that leaves a
  `FileMapping` entry. `munmap` of a file mapping with an untouched page panics.
- `FileLayer`: "ensure cwd ... must be existed dir" (`os/src/syscall/fs.rs:72`)
  never refuses: for a removed directory the `expect`s of `name_for_inode`
  (`os/src/fs/inode.rs:197`, 206) come first. Creating or linking below a regular
  file and writing to an open directory fail asserts of easy-fs.
- `Net`: an accept does not get a connection while an earlier entry of the same
  port is receivable and nobody waits there (`ShadowedAccept`). A connect to a
  connection that is there and an accept at a port that is not reach an `expect`
  ("cannot add socket", "listen port not exist").

## Proofs

All theorems hold for every value of the constants that the named assumptions
allow: `NoneAssumption`, `SyncAssumption`, `PipeAssumption`, `SignalsAssumption`,
`ProcessAssumption`, `NoneIsNoBlock`, `BlockIoAssumption`, `NetAssumption` and
`NoneIsNoEntry`. They say that bounds are natural numbers, that "none" is none of
the things it stands beside, that there are finitely many tasks and that the block
cache has room for two blocks (the code has 16). What a theorem needs of the
programs is a hypothesis of that theorem.

**KernelSyncProofs.** `TypeOK` is not inductive: a task about to lock or wait
must have its mutex or condvar argument. `TypeInv` adds that (`ArgsOK`).
`ControlInv` adds `KernelNotPreempted`, without which a task could be queued
while it is not the running one. Relative to `ControlInv`, `OnePlace` is
inductive: each action is shown to move a task from one place to another
(`PlaceStep`). The theorems are `TypeCorrect`, `NotPreempted`, `NoLostWakeup`,
`FreeMutexHasNoWaiter`, `HandOverIsFifo`, `CountMatchesQueue` and
`KernelImplementsLifecycle` (the refinement). `MutexesExclude` and
`UnlockNeverPanics` assume `Disciplined = TRUE`.

**PipeProofs.** `ByteStream` needs that the status field tells full from empty
(`RingOK`) and that a budget never exceeds what the ring can give or take
(`CallOK`). `EofIsFinal` needs both. Every step is classified as taking a byte,
putting one or leaving the ring alone, and the refinement follows from that.
Theorems: `PipeTypeCorrect`, `PipeKeepsStream`, `ShortReadIsEof`,
`PipeImplementsChannel`.

**SignalNetProofs, signals.** `SigreturnRestores` needs more than itself:
`signal_handling` is set exactly when a context is saved, and a saved context that
is itself a handler's means that a second handler was let in (`HandlersInv`).
`KilledLeaves` needs that a thread is marked killed only while SIGKILL or SIGDEF is
pending (`KilledInv`), which no pass over the signals clears (`KillersStay`).
Theorems: `SignalTypes`, `NoSignalLost`, `HandlersReturn`, `KilledGoes`,
`StopHolds`. None of them assumes anything of the masks, the actions or the signals
sent.

**SignalNetProofs, network.** The files hold indices into tables whose slots are
used again. `SocketInv` and `PortInv` say that no two files have the same index,
that an entry in use has a file, and that no two entries have the same connection.
Without the first, dropping one file would empty the entry of another. `CallInv`
says that whoever waits at a port is the one call that runs: a SYN then ends that
call, and nobody else waits when it has. Theorems: `SocketsAlwaysOwned`,
`DataAlwaysDelivered`.

**BlockCacheProofs, BlockIoProofs.** `HandlersFindCellsFree` is not inductive.
`CellInv` adds where each borrow comes from: the cells of the drivers are borrowed
only by the running task, in the middle of its session and with SIE off, and
`nested_level` is the number of borrows, of sleeping tasks too. `PlaceInv` says
where a task is: on the processor, in the ready queue, in the queue of the serial
port or in the hands of the device, in no two of them, and in the middle of kernel
code only on the processor. On top of these two,

- `ReaderInv` counts: a reader sleeps beside buffered characters only if at least
  as many readers are awake. `NoStrandedReader` itself, which asks for one, is
  lost when two readers take what is there one after the other.
- `LockInv` says who holds the two spin locks of easy-fs, by where they stand.
- `BorrowInv` says that a task with an `OSInode` borrowed never waits for the serial
  port, so that one which is not running is in a transfer, and that a task panics
  only while another thread of its process has a borrow.
- `CacheInv` says that a transfer belongs to the holder of the manager's lock, that
  an entry or a write-back has what was last stored where the device has not, and
  that what a load brings is what was stored.

The first module has the steps of the locks and the cache, the second those of the
cells, places and readers, and the theorems: `HandlersAreSafe`,
`NoReaderStranded`, `SpinsBehindTransfers`, `CacheIsCoherent`, `SyncReachesDisk`.
The steps of a transfer are proved by what they change (`LockMoves` and the like),
and each action is one of these.

**ProcessStepProofs, ProcessCallProofs, ProcessProofs.** The invariant is
`TypeOK` with three parts. `TreeInv` is the tree without counting: a list of
children has exactly the processes whose `parent` names its owner, each once, and
the pids that are out are those of the process control blocks. `ThreadInv` says
what the table of a process holds, before and after it ended. `QueueInv` places
the tasks. Its last conjunct makes the tree independent of the programs: a thread
whose process ended stops the kernel before it can make a call, unless it is in
one. The first module has what the allocator and the lists do, the steps of the
scheduler, exec and the exit of a thread, the second thread creation, `waittid`,
fork and the exit of a main thread, the third `waitpid` and the theorems.

- `ProcessesFormTree` and `TidsKept` hold whatever the programs do.
- `ThreadsPlaced` and `WaitpidNeverAsserts` assume `JoinsFirst`: main threads exit
  after their other threads.
- `KernelNeverPanics` also assumes `~ForksAfterThreads`. Both are needed (see
  Findings).

**Ids, in ProcessProofs.** `IdsInv` is `Partition`, `CurrentIsPeak` and that the
number of recycled ids and of ids that are out add up to `current`, which
`CurrentIsPeak` needs. What `alloc` and `dealloc` do to an allocator is proved
once and used for pids and thread ids as well. Theorems: `IdsPartitioned`,
`DeallocNeverPanics`, `IdsReusedFirst`.

**Layout.** Arithmetic, without temporal logic. On the device, for any size
(`BlockCacheProofs`): `DataBitmapCovers` (the data bitmap has a bit for every
block and no smaller one would do), `AreasPartition`, `InodesApart`,
`BitFoundAgain`. In memory (`ProcessProofs`):
`OverlapSharesPage` (for ranges that are not empty: an empty one inside another
counts as an overlap), `IndexesApart`, `KernelStacksApart` (for the first
44,553,557 ids, the largest number for which it is true, as ids are never given
back), `UserResApart` (as long as the stacks end below the mmap area, which the
code does not check), `SlicesCoverBuffer` (one turn of the loop, for buffers that
end within the 39 bits of an address).

Three things shape the proofs. The prover cannot use the induction theorems of its
library, so the least element of a set of numbers, which `find` and `position`
return, comes from the well-foundedness of `<`. Facts about sequences are lemmas
of the proof modules, in the words of `Vec` (push, truncate, retain), because the
library's are costly to bring in. `Process` and `BlockIo` define the few
operations on sequences that they need themselves, by index, for the prover to see
through them.

Only model-checked: all of `EasyFs`, `FileLayer` and `AddressSpace`, and the
liveness properties (`ReadyRuns`, `SleeperRuns`, `ReaderReturns`,
`KillEndsUnlessShadowed`, `ContinueUnlessShadowed`, `HeadReaped`,
`CallReturnsUnlessSpin`, `CallAnswered`). Liveness under fairness and `ENABLED` are
out of reach of the prover, and so are induction over data and RECURSIVE operators.
The models use no RECURSIVE operator. But `EasyFs` and `FileLayer` compute over
trees of blocks and over paths, and `AddressSpace` copies areas and mappings one
page after the other, with recursive functions and folds. What these compute for
every input needs induction.

Only proved: the type invariants of `KernelSync`, `Pipe` and `Signals`,
`NoWaiterOnFreeMutex`, `UnlockAssertion`, `KernelNotPreempted`, `ByteStream`,
the properties of `IdAllocation` and those of the two layout
modules.

## Not modelled

- Registers, assembly, the bits of page table entries, device registers, the PLIC,
  SBI, output and logging: no property is about them.
- `easy-fs-fuse`: a host program that packs an image with the operations of
  `EasyFs`.
- External libraries (buddy allocator, virtio drivers, `lose_net_stack`).
- The keyboard, whose driver has the same shape as the serial one, and the network
  device, which `Net` takes as a source of packets.
- stdio, and the copying of strings and structures from and to user memory.
- The kernel's own address space, other than the addresses of its stacks.
- User programs other than initproc: a program is any sequence of system calls.
- Signals of a process that forks or execs: exec keeps the handlers of the old
  program (`os/src/task/process.rs:550`). A reader that waits in a pipe does not
  look at its signals, so no property of the two together can be promised.

`PROJECT.json` gives the status of every part, and a note for every hazard that no
property covers.
