-------------------------------- MODULE Pipe --------------------------------
(***************************************************************************)
(* A pipe of os/src/fs/pipe.rs: the ring buffer, the loops of Pipe::read   *)
(* and Pipe::write, and the descriptors that keep its two ends alive       *)
(* (sys_dup, sys_close, fork and exit).                                    *)
(*                                                                         *)
(* The kernel is not preemptive, so a task inside a loop keeps the         *)
(* processor until the call returns or finds the buffer empty or full and  *)
(* suspends: running is that task.  Each process has at most one thread in *)
(* a pipe call at a time; its other threads may close and duplicate        *)
(* descriptors meanwhile, and the call keeps the end alive by its clone of *)
(* the Arc.                                                                *)
(***************************************************************************)
EXTENDS Integers, Sequences, FiniteSets

CONSTANTS
  Proc,               \* the processes that may share the pipe
  Creator,            \* the process that called sys_pipe
  NONE,               \* no task in a pipe call has the processor
  Byte,
  RING_BUFFER_SIZE,
  MaxLen,             \* bound: the longest buffer passed to a call
  MaxFd,              \* bound: descriptors of one end in one process
  MaxSent             \* bound: bytes written in all

ASSUME PipeAssumption ==
  /\ Creator \in Proc
  /\ NONE \notin Proc
  /\ RING_BUFFER_SIZE \in Nat \ {0}
  /\ MaxLen \in Nat
  /\ MaxFd \in Nat \ {0}
  /\ MaxSent \in Nat
  /\ Byte # {}

VARIABLES
  arr, head, tail, status,   \* PipeRingBuffer
  fds,                       \* fd_table entries per process and end
  born,                      \* the processes that exist
  op, want, already,         \* the call in progress, its length, its count
  running,                   \* the task that is in its loop
  budget,                    \* loop_read or loop_write, what is left of it
  sent, received,            \* history: the bytes written and read
  eof                        \* history: a read came back short

ring_vars == <<arr, head, tail, status>>
end_vars  == <<fds, born>>
call_vars == <<op, want, already>>
hist_vars == <<sent, received, eof>>
vars == <<ring_vars, end_vars, call_vars, running, budget, hist_vars>>

End == {"read", "write"}
Index == 0..(RING_BUFFER_SIZE - 1)

TypeOK ==
  /\ arr \in [Index -> Byte]
  /\ head \in Index
  /\ tail \in Index
  /\ status \in {"FULL", "EMPTY", "NORMAL"}
  /\ fds \in [Proc -> [End -> 0..MaxFd]]
  /\ born \in SUBSET Proc
  /\ op \in [Proc -> End \cup {"none"}]
  /\ want \in [Proc -> 0..MaxLen]
  /\ already \in [Proc -> 0..MaxLen]
  /\ running \in Proc \cup {NONE}
  /\ budget \in 0..RING_BUFFER_SIZE
  /\ sent \in Seq(Byte)
  /\ received \in Seq(Byte)
  /\ eof \in BOOLEAN

(* make_pipe and sys_pipe. *)
Init ==
  /\ arr = [i \in Index |-> CHOOSE b \in Byte : TRUE]
  /\ head = 0
  /\ tail = 0
  /\ status = "EMPTY"
  /\ fds = [p \in Proc |-> [e \in End |-> IF p = Creator THEN 1 ELSE 0]]
  /\ born = {Creator}
  /\ op = [p \in Proc |-> "none"]
  /\ want = [p \in Proc |-> 0]
  /\ already = [p \in Proc |-> 0]
  /\ running = NONE
  /\ budget = 0
  /\ sent = <<>>
  /\ received = <<>>
  /\ eof = FALSE

------------------------------------------------------------------------------
(* The ring buffer *)

(* Mutant: the case tail = head counts as an empty ring. *)
available_read_strict ==
  IF status = "EMPTY" THEN 0
  ELSE IF tail >= head THEN tail - head
  ELSE tail + RING_BUFFER_SIZE - head

available_read ==
  IF status = "EMPTY" THEN 0
  ELSE IF tail > head THEN tail - head
  ELSE tail + RING_BUFFER_SIZE - head

available_write ==
  IF status = "FULL" THEN 0 ELSE RING_BUFFER_SIZE - available_read

read_byte ==
  /\ head' = (head + 1) % RING_BUFFER_SIZE
  /\ status' = IF head' = tail THEN "EMPTY" ELSE "NORMAL"
  /\ received' = Append(received, arr[head])
  /\ UNCHANGED <<arr, tail, sent>>

write_byte(b) ==
  /\ arr' = [arr EXCEPT ![tail] = b]
  /\ tail' = (tail + 1) % RING_BUFFER_SIZE
  /\ status' = IF head = tail' THEN "FULL" ELSE "NORMAL"
  /\ sent' = Append(sent, b)
  /\ UNCHANGED <<head, received>>

(* The Weak of the write end can no longer be upgraded: no descriptor and  *)
(* no call in progress holds the Arc.                                      *)
all_write_ends_closed ==
  \A p \in Proc : fds[p]["write"] = 0 /\ op[p] # "write"

------------------------------------------------------------------------------
(* The calls *)

(* The bytes that writes in progress may still add, for the bound. *)
Outstanding == MaxLen * Cardinality({q \in Proc : op[q] = "write"})

(* sys_read and sys_write on a descriptor of the right end. *)
Call(p, e, len) ==
  /\ running = NONE
  /\ p \in born
  /\ op[p] = "none"
  /\ fds[p][e] > 0
  /\ e = "write" => Len(sent) + Outstanding + len <= MaxSent
  /\ op' = [op EXCEPT ![p] = e]
  /\ want' = [want EXCEPT ![p] = len]
  /\ already' = [already EXCEPT ![p] = 0]
  /\ running' = p
  /\ budget' = 0
  /\ UNCHANGED <<ring_vars, end_vars, hist_vars>>

(* The scheduler comes back to a task that suspended in its loop. *)
Resume(p) ==
  /\ running = NONE
  /\ op[p] # "none"
  /\ running' = p
  /\ UNCHANGED <<ring_vars, end_vars, call_vars, budget, hist_vars>>

(* The call returns; the clone of the Arc is dropped. *)
Return(p) ==
  /\ op' = [op EXCEPT ![p] = "none"]
  /\ want' = [want EXCEPT ![p] = 0]
  /\ already' = [already EXCEPT ![p] = 0]
  /\ running' = NONE
  /\ budget' = 0

Suspend == running' = NONE /\ UNCHANGED <<call_vars, budget>>

(* Mutant: a read of an empty pipe returns whoever may still write. *)
ReadTop_no_wait(p) ==
  /\ running = p
  /\ op[p] = "read"
  /\ budget = 0
  /\ IF available_read = 0
     THEN Return(p) /\ eof' = (eof \/ already[p] < want[p])
     ELSE /\ budget' = available_read
          /\ UNCHANGED <<call_vars, running, eof>>
  /\ UNCHANGED <<ring_vars, end_vars, sent, received>>

(* Mutant: a read of an empty pipe waits whoever is gone. *)
ReadTop_waits(p) ==
  /\ running = p
  /\ op[p] = "read"
  /\ budget = 0
  /\ IF available_read = 0
     THEN Suspend
     ELSE /\ budget' = available_read
          /\ UNCHANGED <<call_vars, running>>
  /\ UNCHANGED <<ring_vars, end_vars, hist_vars>>

(* The top of the loop of Pipe::read: with nothing to read, return what    *)
(* there is if the write ends are closed and suspend if they are not.      *)
ReadTop(p) ==
  /\ running = p
  /\ op[p] = "read"
  /\ budget = 0
  /\ IF available_read = 0
     THEN IF all_write_ends_closed
          THEN Return(p) /\ eof' = (eof \/ already[p] < want[p])
          ELSE Suspend /\ UNCHANGED eof
     ELSE /\ budget' = available_read
          /\ UNCHANGED <<call_vars, running, eof>>
  /\ UNCHANGED <<ring_vars, end_vars, sent, received>>

(* One turn of the for loop: buf_iter is exhausted only in a call of       *)
(* length 0, every other call returns with its last byte.                  *)
ReadByte(p) ==
  /\ running = p
  /\ op[p] = "read"
  /\ budget > 0
  /\ IF already[p] < want[p]
     THEN /\ read_byte
          /\ IF already[p] + 1 = want[p]
             THEN Return(p)
             ELSE /\ already' = [already EXCEPT ![p] = @ + 1]
                  /\ budget' = budget - 1
                  /\ UNCHANGED <<op, want, running>>
     ELSE Return(p) /\ UNCHANGED <<ring_vars, sent, received>>
  /\ UNCHANGED <<end_vars, eof>>

WriteTop(p) ==
  /\ running = p
  /\ op[p] = "write"
  /\ budget = 0
  /\ IF available_write = 0
     THEN Suspend
     ELSE /\ budget' = available_write
          /\ UNCHANGED <<call_vars, running>>
  /\ UNCHANGED <<ring_vars, end_vars, hist_vars>>

WriteByte(p, b) ==
  /\ running = p
  /\ op[p] = "write"
  /\ budget > 0
  /\ IF already[p] < want[p]
     THEN /\ write_byte(b)
          /\ IF already[p] + 1 = want[p]
             THEN Return(p)
             ELSE /\ already' = [already EXCEPT ![p] = @ + 1]
                  /\ budget' = budget - 1
                  /\ UNCHANGED <<op, want, running>>
     ELSE Return(p) /\ UNCHANGED <<ring_vars, sent, received>>
  /\ UNCHANGED <<end_vars, eof>>

------------------------------------------------------------------------------
(* The descriptors, changed by a task that is not in a pipe call. *)

sys_dup(p, e) ==
  /\ running = NONE
  /\ p \in born
  /\ fds[p][e] \in 1..(MaxFd - 1)
  /\ fds' = [fds EXCEPT ![p][e] = @ + 1]
  /\ UNCHANGED <<ring_vars, born, call_vars, running, budget, hist_vars>>

sys_close(p, e) ==
  /\ running = NONE
  /\ p \in born
  /\ fds[p][e] > 0
  /\ fds' = [fds EXCEPT ![p][e] = @ - 1]
  /\ UNCHANGED <<ring_vars, born, call_vars, running, budget, hist_vars>>

(* fork clones the fd_table of a process with one thread. *)
Fork(p, q) ==
  /\ running = NONE
  /\ p \in born
  /\ op[p] = "none"
  /\ q \notin born
  /\ born' = born \cup {q}
  /\ fds' = [fds EXCEPT ![q] = fds[p]]
  /\ UNCHANGED <<ring_vars, call_vars, running, budget, hist_vars>>

(* The exit of a process clears its fd_table. *)
Exit(p) ==
  /\ running = NONE
  /\ p \in born
  /\ op[p] = "none"
  /\ \E e \in End : fds[p][e] > 0
  /\ fds' = [fds EXCEPT ![p] = [e \in End |-> 0]]
  /\ UNCHANGED <<ring_vars, born, call_vars, running, budget, hist_vars>>

KernelStep(p) ==
  ReadTop(p) \/ ReadByte(p) \/ WriteTop(p) \/ \E b \in Byte : WriteByte(p, b)

Next ==
  \E p \in Proc :
    \/ \E e \in End, len \in 0..MaxLen : Call(p, e, len)
    \/ Resume(p)
    \/ KernelStep(p)
    \/ \E e \in End : sys_dup(p, e) \/ sys_close(p, e)
    \/ \E q \in Proc : Fork(p, q)
    \/ Exit(p)

Spec == Init /\ [][Next]_vars

(* Kernel code runs on; the ready queue is FIFO, so a suspended task comes *)
(* back to the processor however often others do (ReadyRuns of KernelSync).*)
Fairness ==
  \A p \in Proc : WF_vars(KernelStep(p)) /\ SF_vars(Resume(p))

FairSpec == Spec /\ Fairness

------------------------------------------------------------------------------
(* Properties *)

(* The bytes in the ring, oldest first. *)
Content ==
  [i \in 1..available_read |-> arr[(head + i - 1) % RING_BUFFER_SIZE]]

(* The ring loses, duplicates and reorders nothing: what was read, followed*)
(* by what the ring holds, is what was written, through wrap-around, full  *)
(* and empty.                                                              *)
ByteStream == received \o Content = sent

(* A read that came back short saw the end of the pipe: everything that    *)
(* was or will be written had been read.                                   *)
EofIsFinal == eof => all_write_ends_closed /\ received = sent

Channel == INSTANCE ByteChannel WITH
  Capacity <- RING_BUFFER_SIZE, buffer <- Content, open <- ~all_write_ends_closed

(* The pipe implements a bounded FIFO channel that closes for good. *)
ImplementsChannel == Channel!Spec

(* A reader that waits returns once no write end is left. *)
ReaderReturns ==
  \A p \in Proc : op[p] = "read" /\ all_write_ends_closed ~> op[p] # "read"
==============================================================================
