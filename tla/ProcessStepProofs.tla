-------------------------- MODULE ProcessStepProofs --------------------------
(*****************************************************************************)
(* The inductive invariant of the processes and threads, and that the steps  *)
(* of the scheduler, exec and the exit of a thread other than the main one   *)
(* keep it, for any number of processes, threads and tasks.                  *)
(*****************************************************************************)
EXTENDS Process, TLAPS

(* A RecycleAllocator below max: what was given back was out before, once.   *)
AllocatorOK(a, max) ==
  /\ a.current \in 0..max
  /\ \A k \in DOMAIN a.recycled : a.recycled[k] < a.current
  /\ IsInjective(a.recycled)

(* The tree, without counting: a list of children has no entry twice, its    *)
(* entries are the processes whose parent field names the owner of the list, *)
(* no process is its own parent, and a process that ended has no children.   *)
TreeInv ==
  /\ INITPROC \in pid2pcb
  /\ AllocatorOK(pid_allocator, MaxPid)
  /\ InUse(pid_allocator) = Live
  /\ pid2pcb = {p \in Live : ~pcb[p].is_zombie}
  /\ \A q \in Live : /\ IsInjective(pcb[q].children)
                     /\ pcb[q].is_zombie => pcb[q].children = <<>>
  /\ \A q \in Live, p \in Pid :
       p \in Range(pcb[q].children) <=>
         p \in Live /\ p # INITPROC /\ pcb[p].parent = q
  /\ \A p \in Live \ {INITPROC} : pcb[p].parent \in pid2pcb \ {p}

(* The thread table r of a process p that has not ended, for the task control *)
(* blocks tc.  The main thread has not ended.                                 *)
TableOK(p, r, tc) ==
  /\ AllocatorOK(r.tids, MaxTid)
  /\ InUse(r.tids) = {i \in Tid : i + 1 \in DOMAIN r.tasks /\ r.tasks[i + 1] # NONE}
  /\ Len(r.tasks) <= MaxTid
  /\ r.areas \subseteq InUse(r.tids)
  /\ 0 \in r.areas
  /\ \A i \in InUse(r.tids) :
       LET b == tc[r.tasks[i + 1]] IN
       /\ b # NONE
       /\ b.process = p
       /\ b.tid = i
       /\ b.res <=> i \in r.areas
       /\ b.exited <=> i \notin r.areas

(* A process that ended keeps its main thread, which ended too.               *)
ZombieOK(p, r, tc) ==
  /\ Len(r.tasks) = 1
  /\ r.tasks[1] # NONE
  /\ tc[r.tasks[1]] # NONE
  /\ tc[r.tasks[1]].process = p
  /\ tc[r.tasks[1]].exited

(* A task that has its TaskUserRes is in the table of a process that has not *)
(* ended.  When the programs join their threads first, every task is in the  *)
(* table of its process.                                                     *)
TaskOK(t) ==
  tcb[t] # NONE =>
    /\ tcb[t].res => tcb[t].process \in pid2pcb /\ t \in Threads(tcb[t].process)
    /\ tcb[t].exited => ~tcb[t].res /\ ~tcb[t].in_call
    /\ JoinsFirst => tcb[t].process \in Live /\ t \in Threads(tcb[t].process)

BlockOK(p) ==
  IF pcb[p].is_zombie THEN ZombieOK(p, pcb[p], tcb) ELSE TableOK(p, pcb[p], tcb)

ThreadInv ==
  /\ \A p \in Live : BlockOK(p)
  /\ \A t \in Task : TaskOK(t)

(* The tasks that have not ended are in one of the ready queue, the processor *)
(* and TIMERS.  The last conjunct makes the tree independent of the programs: *)
(* a thread whose process ended stops the kernel before it can make a call.   *)
QueueInv ==
  /\ IsInjective(ready_queue)
  /\ Range(ready_queue) \cap sleeping = {}
  /\ current \notin Range(ready_queue) \cup sleeping
  /\ \A t \in Task : t \in Range(ready_queue) \cup {current} \cup sleeping <=>
                       tcb[t] # NONE /\ ~tcb[t].exited
  /\ ~panicked /\ current # NONE /\ ~tcb[current].in_call => tcb[current].res
------------------------------------------------------------------------------
(* Sequences *)

(* The indexes of a Vec are those below its length, counted from one here. *)
LEMMA LenProperties ==
  ASSUME NEW S, NEW s \in Seq(S)
  PROVE  Len(s) \in Nat /\ s \in [1..Len(s) -> S] /\ DOMAIN s = 1..Len(s)
OBVIOUS

(* Indexing a Vec within its length. *)
LEMMA ElementOfSeq ==
  ASSUME NEW S, NEW s \in Seq(S), NEW n \in 1..Len(s)
  PROVE  s[n] \in S
OBVIOUS

(* Vec::new, and is_empty. *)
LEMMA EmptySeq ==
  ASSUME NEW S
  PROVE  /\ <<>> \in Seq(S) /\ Len(<<>>) = 0
         /\ \A s \in Seq(S) : s # <<>> => Len(s) \in Nat \ {0}
OBVIOUS

(* What a Vec holds. *)
LEMMA RangeOfSeq ==
  ASSUME NEW S, NEW s \in Seq(S)
  PROVE  Range(s) \in SUBSET S
BY DEF Range

(* A Vec built entry by entry. *)
LEMMA IsASeq ==
  ASSUME NEW n \in Nat, NEW e(_), NEW S, \A i \in 1..n : e(i) \in S
  PROVE  [i \in 1..n |-> e(i)] \in Seq(S)
OBVIOUS

(* An assignment to one entry. *)
LEMMA ExceptSeq ==
  ASSUME NEW S, NEW s \in Seq(S), NEW i \in 1..Len(s), NEW e \in S
  PROVE  /\ [s EXCEPT ![i] = e] \in Seq(S)
         /\ Len([s EXCEPT ![i] = e]) = Len(s)
         /\ \A j \in 1..Len(s) : [s EXCEPT ![i] = e][j] = IF j = i THEN e ELSE s[j]
OBVIOUS

(* push_back. *)
LEMMA AppendProperties ==
  ASSUME NEW S, NEW s \in Seq(S), NEW e \in S
  PROVE  /\ Append(s, e) \in Seq(S)
         /\ Len(Append(s, e)) = Len(s) + 1
         /\ \A i \in 1..Len(s) : Append(s, e)[i] = s[i]
         /\ Append(s, e)[Len(s) + 1] = e
OBVIOUS

(* pop_front. *)
LEMMA HeadTailProperties ==
  ASSUME NEW S, NEW s \in Seq(S), s # <<>>
  PROVE  /\ Head(s) \in S /\ Tail(s) \in Seq(S)
         /\ Len(Tail(s)) = Len(s) - 1
         /\ \A i \in 1..Len(Tail(s)) : Tail(s)[i] = s[i + 1]
OBVIOUS

(* append and extend. *)
LEMMA ConcatProperties ==
  ASSUME NEW S, NEW s \in Seq(S), NEW r \in Seq(S)
  PROVE  /\ s \o r \in Seq(S)
         /\ Len(s \o r) = Len(s) + Len(r)
         /\ \A i \in 1..(Len(s) + Len(r)) :
              (s \o r)[i] = IF i <= Len(s) THEN s[i] ELSE r[i - Len(s)]
OBVIOUS

LEMMA ConcatEmptySeq ==
  ASSUME NEW S, NEW s \in Seq(S)
  PROVE  s \o <<>> = s /\ <<>> \o s = s
OBVIOUS

LEMMA RangeConcatenation ==
  ASSUME NEW S, NEW s \in Seq(S), NEW r \in Seq(S)
  PROVE  Range(s \o r) = Range(s) \cup Range(r)
<1>1. \A x \in Range(s \o r) : x \in Range(s) \cup Range(r)
  BY DEF Range
<1>2. \A x \in Range(s) : x \in Range(s \o r)
  <2>1. \A i \in 1..Len(s) : i \in DOMAIN (s \o r) /\ (s \o r)[i] = s[i]
    OBVIOUS
  <2>. QED BY <2>1 DEF Range
<1>3. ASSUME NEW x \in Range(r) PROVE x \in Range(s \o r)
  <2>1. PICK i \in 1..Len(r) : x = r[i]
    BY DEF Range
  <2>2. Len(s) + i \in DOMAIN (s \o r) /\ (s \o r)[Len(s) + i] = x
    BY <2>1
  <2>. QED BY <2>2 DEF Range
<1>. QED BY <1>1, <1>2, <1>3

(* truncate and drain leave a part of the Vec. *)
LEMMA SubSeqProperties ==
  ASSUME NEW S, NEW s, NEW m \in Int, NEW n \in Int, \A i \in m..n : s[i] \in S
  PROVE  /\ SubSeq(s, m, n) \in Seq(S)
         /\ Len(SubSeq(s, m, n)) = IF m <= n THEN n - m + 1 ELSE 0
         /\ \A i \in 1..(n - m + 1) : SubSeq(s, m, n)[i] = s[m + i - 1]
OBVIOUS

------------------------------------------------------------------------------
(* Queues *)

(* push_back adds one element at the end. *)
LEMMA PushBack ==
  ASSUME NEW S, NEW q \in Seq(S), NEW x \in S
  PROVE  /\ Append(q, x) \in Seq(S)
         /\ Range(Append(q, x)) = Range(q) \cup {x}
         /\ IsInjective(q) /\ x \notin Range(q) => IsInjective(Append(q, x))
<1>1. /\ Append(q, x) \in Seq(S)
      /\ Len(Append(q, x)) = Len(q) + 1
      /\ \A i \in 1..Len(q) : Append(q, x)[i] = q[i]
      /\ Append(q, x)[Len(q) + 1] = x
  BY AppendProperties
<1>2. /\ DOMAIN q = 1..Len(q) /\ Len(q) \in Nat
      /\ DOMAIN Append(q, x) = 1..(Len(q) + 1)
  BY <1>1, LenProperties
<1>3. Range(Append(q, x)) = Range(q) \cup {x}
  BY <1>1, <1>2 DEF Range
<1>4. IsInjective(q) /\ x \notin Range(q) => IsInjective(Append(q, x))
  BY <1>1, <1>2 DEF Range, IsInjective
<1> QED BY <1>1, <1>3, <1>4

(* pop_front removes the first element and nothing else. *)
LEMMA PopFront ==
  ASSUME NEW S, NEW q \in Seq(S), q # <<>>
  PROVE  /\ Head(q) \in S
         /\ Head(q) \in Range(q)
         /\ Tail(q) \in Seq(S)
         /\ Len(Tail(q)) = Len(q) - 1
         /\ IsInjective(q) => /\ IsInjective(Tail(q))
                              /\ Range(Tail(q)) = Range(q) \ {Head(q)}
<1>1. /\ Head(q) \in S
      /\ Tail(q) \in Seq(S)
      /\ Len(Tail(q)) = Len(q) - 1
      /\ \A i \in 1..Len(Tail(q)) : Tail(q)[i] = q[i + 1]
  BY HeadTailProperties
<1>2. /\ DOMAIN q = 1..Len(q) /\ Len(q) \in Nat /\ Len(q) # 0
      /\ DOMAIN Tail(q) = 1..(Len(q) - 1)
  BY <1>1, LenProperties, EmptySeq
<1>3. Head(q) = q[1]
  BY <1>2
<1>4. Head(q) \in Range(q)
  BY <1>2, <1>3 DEF Range
<1>5. ASSUME IsInjective(q)
      PROVE  IsInjective(Tail(q))
  BY <1>1, <1>2, <1>5 DEF IsInjective
<1>6. ASSUME IsInjective(q)
      PROVE  Range(Tail(q)) = Range(q) \ {Head(q)}
  <2>1. \A i \in 1..(Len(q) - 1) : Tail(q)[i] = q[i + 1]
    BY <1>1
  <2>2. \A y \in Range(Tail(q)) : y \in Range(q) /\ y # q[1]
    BY <1>2, <1>6, <2>1 DEF Range, IsInjective
  <2>3. ASSUME NEW y \in Range(q), y # q[1]
        PROVE  y \in Range(Tail(q))
    <3>1. PICK i \in 1..Len(q) : y = q[i]
      BY <1>2 DEF Range
    <3>2. i - 1 \in 1..(Len(q) - 1) /\ Tail(q)[i - 1] = q[i]
      BY <1>2, <2>1, <2>3, <3>1
    <3> QED BY Zenon, <1>2, <3>1, <3>2 DEF Range
  <2> QED BY <1>3, <2>2, <2>3
<1> QED BY <1>1, <1>4, <1>5, <1>6

(* Appending a whole queue, as handle_irq does one task at a time. *)
LEMMA PushAll ==
  ASSUME NEW S, NEW q \in Seq(S), NEW w \in Seq(S)
  PROVE  /\ q \o w \in Seq(S)
         /\ Range(q \o w) = Range(q) \cup Range(w)
         /\ IsInjective(q) /\ IsInjective(w) /\ Range(q) \cap Range(w) = {}
              => IsInjective(q \o w)
<1>1. /\ q \o w \in Seq(S)
      /\ Len(q \o w) = Len(q) + Len(w)
      /\ \A i \in 1..(Len(q) + Len(w)) :
           (q \o w)[i] = IF i <= Len(q) THEN q[i] ELSE w[i - Len(q)]
  BY ConcatProperties
<1>2. /\ DOMAIN q = 1..Len(q) /\ Len(q) \in Nat
      /\ DOMAIN w = 1..Len(w) /\ Len(w) \in Nat
      /\ DOMAIN (q \o w) = 1..(Len(q) + Len(w))
  BY <1>1, LenProperties
<1>3. Range(q \o w) = Range(q) \cup Range(w)
  BY RangeConcatenation
<1>4. ASSUME IsInjective(q), IsInjective(w), Range(q) \cap Range(w) = {},
             NEW i \in 1..(Len(q) + Len(w)), NEW j \in 1..(Len(q) + Len(w)),
             (q \o w)[i] = (q \o w)[j]
      PROVE  i = j
  <2>1. \A k \in 1..Len(q), l \in 1..Len(w) : q[k] # w[l]
    BY Zenon, <1>2, <1>4 DEF Range
  <2>2. CASE i <= Len(q) /\ j <= Len(q)
    BY <1>1, <1>2, <1>4, <2>2 DEF IsInjective
  <2>3. CASE ~(i <= Len(q)) /\ ~(j <= Len(q))
    <3>1. /\ i - Len(q) \in 1..Len(w) /\ j - Len(q) \in 1..Len(w)
          /\ w[i - Len(q)] = w[j - Len(q)]
      BY <1>1, <1>2, <1>4, <2>3
    <3>2. i - Len(q) = j - Len(q)
      BY <1>2, <1>4, <3>1 DEF IsInjective
    <3> QED BY <1>2, <3>2
  <2>4. CASE i <= Len(q) /\ ~(j <= Len(q))
    BY <1>1, <1>2, <1>4, <2>1, <2>4
  <2>5. CASE ~(i <= Len(q)) /\ j <= Len(q)
    BY <1>1, <1>2, <1>4, <2>1, <2>5
  <2> QED BY <1>2, <2>2, <2>3, <2>4, <2>5
<1>5. IsInjective(q) /\ IsInjective(w) /\ Range(q) \cap Range(w) = {}
        => IsInjective(q \o w)
  BY <1>2, <1>4 DEF IsInjective
<1> QED BY <1>1, <1>3, <1>5

(* VecDeque::remove(i): the others stay, in their order. *)
LEMMA RemoveOne ==
  ASSUME NEW S, NEW q \in Seq(S), NEW i \in DOMAIN q
  PROVE  /\ RemoveAt(q, i) \in Seq(S)
         /\ DOMAIN RemoveAt(q, i) = 1..(Len(q) - 1)
         /\ \A j \in 1..(Len(q) - 1) : RemoveAt(q, i)[j] = q[IF j < i THEN j ELSE j + 1]
<1> DEFINE a == SubSeq(q, 1, i - 1)
           c == SubSeq(q, i + 1, Len(q))
<1>1. Len(q) \in Nat /\ i \in 1..Len(q) /\ \A k \in 1..Len(q) : q[k] \in S
  BY LenProperties, ElementOfSeq
<1>2. a \in Seq(S) /\ Len(a) = i - 1 /\ \A k \in 1..(i - 1) : a[k] = q[k]
  <2>1. \A k \in 1..(i - 1) : q[k] \in S
    BY <1>1
  <2>2. i - 1 \in Int /\ 1 \in Int
    BY <1>1
  <2>3. /\ a \in Seq(S) /\ Len(a) = IF 1 <= i - 1 THEN (i - 1) - 1 + 1 ELSE 0
        /\ \A k \in 1..((i - 1) - 1 + 1) : a[k] = q[1 + k - 1]
    BY <2>1, <2>2, SubSeqProperties
  <2> HIDE DEF a
  <2> QED
    BY <1>1, <2>3
<1>3. /\ c \in Seq(S) /\ Len(c) = Len(q) - i
      /\ \A k \in 1..(Len(q) - i) : c[k] = q[i + k]
  <2>1. \A k \in (i + 1)..Len(q) : q[k] \in S
    BY <1>1
  <2>2. i + 1 \in Int /\ Len(q) \in Int
    BY <1>1
  <2>3. /\ c \in Seq(S) /\ Len(c) = IF i + 1 <= Len(q) THEN Len(q) - (i + 1) + 1 ELSE 0
        /\ \A k \in 1..(Len(q) - (i + 1) + 1) : c[k] = q[(i + 1) + k - 1]
    BY <2>1, <2>2, SubSeqProperties
  <2> HIDE DEF c
  <2> QED
    BY <1>1, <2>3
<1>4. RemoveAt(q, i) = a \o c
  BY DEF RemoveAt
<1> HIDE DEF a, c
<1>5. /\ a \o c \in Seq(S) /\ Len(a \o c) = Len(q) - 1
      /\ \A j \in 1..(Len(q) - 1) : (a \o c)[j] = IF j <= i - 1 THEN a[j] ELSE c[j - (i - 1)]
  <2>1. /\ a \o c \in Seq(S) /\ Len(a \o c) = Len(a) + Len(c)
        /\ \A j \in 1..(Len(a) + Len(c)) :
             (a \o c)[j] = IF j <= Len(a) THEN a[j] ELSE c[j - Len(a)]
    BY <1>2, <1>3, ConcatProperties, Zenon
  <2>2. Len(a) + Len(c) = Len(q) - 1
    BY <1>1, <1>2, <1>3
  <2> QED
    BY <1>2, <2>1, <2>2, Zenon
<1>6. DOMAIN (a \o c) = 1..(Len(q) - 1)
  BY <1>5, LenProperties
<1>7. ASSUME NEW j \in 1..(Len(q) - 1)
      PROVE  (a \o c)[j] = q[IF j < i THEN j ELSE j + 1]
  <2>1. CASE j < i
    BY <1>1, <1>2, <1>5, <2>1
  <2>2. CASE ~(j < i)
    <3>1. j - (i - 1) \in 1..(Len(q) - i) /\ i + (j - (i - 1)) = j + 1
      BY <1>1, <2>2
    <3>2. (a \o c)[j] = c[j - (i - 1)]
      BY <1>1, <1>5, <2>2
    <3>3. c[j - (i - 1)] = q[j + 1]
      BY <1>3, <3>1
    <3> QED
      BY <2>2, <3>2, <3>3
  <2> QED
    BY <2>1, <2>2, Zenon
<1> QED
  BY <1>4, <1>5, <1>6, <1>7

(* remove(i) takes one element out of a list without repetitions. *)
LEMMA RemoveChild ==
  ASSUME NEW S, NEW q \in Seq(S), NEW i \in DOMAIN q, IsInjective(q)
  PROVE  /\ RemoveAt(q, i) \in Seq(S)
         /\ IsInjective(RemoveAt(q, i))
         /\ Range(RemoveAt(q, i)) = Range(q) \ {q[i]}
<1>1. PICK r : r = RemoveAt(q, i)
  OBVIOUS
<1>2. Len(q) \in Nat /\ DOMAIN q = 1..Len(q)
  BY LenProperties
<1>3. /\ r \in Seq(S)
      /\ DOMAIN r = 1..(Len(q) - 1)
      /\ \A j \in 1..(Len(q) - 1) : r[j] = q[IF j < i THEN j ELSE j + 1]
  BY <1>1, RemoveOne
<1>4. \A j \in 1..(Len(q) - 1) : (IF j < i THEN j ELSE j + 1) \in DOMAIN q \ {i}
  BY <1>2
<1>5. IsInjective(r)
  <2>1. SUFFICES ASSUME NEW a \in 1..(Len(q) - 1), NEW b \in 1..(Len(q) - 1), r[a] = r[b]
                 PROVE  a = b
    BY <1>3 DEF IsInjective
  <2>2. PICK x, y : x = (IF a < i THEN a ELSE a + 1) /\ y = (IF b < i THEN b ELSE b + 1)
    OBVIOUS
  <2>3. x \in DOMAIN q /\ y \in DOMAIN q /\ q[x] = q[y]
    BY <1>3, <1>4, <2>1, <2>2
  <2>4. x = y
    BY <2>3 DEF IsInjective
  <2>. QED BY <1>2, <2>2, <2>4
<1>6. \A j \in DOMAIN q \ {i} : \E k \in 1..(Len(q) - 1) : r[k] = q[j]
  <2>. SUFFICES ASSUME NEW j \in DOMAIN q \ {i}
                PROVE  \E k \in 1..(Len(q) - 1) : r[k] = q[j]
    OBVIOUS
  <2>1. CASE j < i
    BY <1>2, <1>3, <2>1
  <2>2. CASE j > i
    <3>1. j - 1 \in 1..(Len(q) - 1) /\ ~(j - 1 < i) /\ (j - 1) + 1 = j
      BY <1>2, <2>2
    <3>. QED BY <1>3, <3>1
  <2>. QED BY <1>2, <2>1, <2>2
<1>7. Range(r) = Range(q) \ {q[i]}
  <2>1. \A x \in Range(r) : x \in Range(q) \ {q[i]}
    BY <1>3, <1>4 DEF Range, IsInjective
  <2>2. ASSUME NEW j \in DOMAIN q, q[j] # q[i] PROVE q[j] \in Range(r)
    BY <1>3, <1>6, <2>2, Zenon DEF Range
  <2>. QED BY <2>1, <2>2, Zenon DEF Range
<1>. QED BY <1>1, <1>3, <1>5, <1>7

(* pop removes the last element and nothing else. *)
LEMMA PopBack ==
  ASSUME NEW S, NEW q \in Seq(S), q # <<>>
  PROVE  /\ Last(q) \in S
         /\ Last(q) \in Range(q)
         /\ Front(q) \in Seq(S)
         /\ IsInjective(q) => /\ IsInjective(Front(q))
                              /\ Range(Front(q)) = Range(q) \ {Last(q)}
<1>1. PICK f, n : f = Front(q) /\ n = Len(q)
  OBVIOUS
<1>2. /\ n \in Nat /\ n # 0 /\ DOMAIN q = 1..n
      /\ \A k \in 1..n : q[k] \in S
      /\ Last(q) = q[n]
  BY <1>1, LenProperties, EmptySeq, ElementOfSeq DEF Last
<1>3. f \in Seq(S) /\ Len(f) = n - 1 /\ \A k \in 1..(n - 1) : f[k] = q[k]
  <2>1. \A k \in 1..(n - 1) : q[k] \in S
    BY <1>2
  <2>2. f = SubSeq(q, 1, n - 1) /\ 1 \in Int /\ n - 1 \in Int
    BY <1>1, <1>2 DEF Front
  <2>3. /\ f \in Seq(S) /\ Len(f) = IF 1 <= n - 1 THEN (n - 1) - 1 + 1 ELSE 0
        /\ \A k \in 1..((n - 1) - 1 + 1) : f[k] = q[1 + k - 1]
    BY <2>1, <2>2, SubSeqProperties
  <2>. QED BY <1>2, <2>3
<1>4. DOMAIN f = 1..(n - 1)
  BY <1>3, LenProperties
<1>5. Last(q) \in Range(q)
  BY <1>2 DEF Range
<1>6. ASSUME IsInjective(q) PROVE IsInjective(f)
  BY <1>2, <1>3, <1>4, <1>6 DEF IsInjective
<1>7. ASSUME IsInjective(q) PROVE Range(f) = Range(q) \ {Last(q)}
  <2>1. \A k \in 1..(n - 1) : f[k] \in Range(q) /\ f[k] # Last(q)
    BY <1>2, <1>3, <1>7 DEF IsInjective, Range
  <2>2. ASSUME NEW k \in 1..n, q[k] # Last(q) PROVE q[k] \in Range(f)
    <3>1. k \in 1..(n - 1)
      BY <1>2, <2>2
    <3>. QED BY <1>3, <1>4, <3>1 DEF Range
  <2>. QED BY <1>2, <1>4, <2>1, <2>2, Zenon DEF Range
<1>. QED BY <1>1, <1>2, <1>3, <1>5, <1>6, <1>7

------------------------------------------------------------------------------
(* RecycleAllocator *)

(* alloc hands out an id that is not in use. *)
LEMMA AllocStep ==
  ASSUME NEW max \in Nat, NEW a \in Allocator(0..(max - 1)), AllocatorOK(a, max),
         Allocated(a) < max
  PROVE  /\ Allocated(a) \in 0..(max - 1)
         /\ Allocated(a) \notin InUse(a)
         /\ alloc(a) \in Allocator(0..(max - 1))
         /\ AllocatorOK(alloc(a), max)
         /\ InUse(alloc(a)) = InUse(a) \cup {Allocated(a)}
<1>1. /\ a.current \in Nat /\ a.current <= max
      /\ a.recycled \in Seq(0..(max - 1))
      /\ Len(a.recycled) \in Nat
      /\ DOMAIN a.recycled = 1..Len(a.recycled)
      /\ \A k \in 1..Len(a.recycled) : a.recycled[k] \in 0..(a.current - 1)
  BY LenProperties, ElementOfSeq DEF Allocator, AllocatorOK
<1>2. CASE a.recycled = <<>>
  <2>1. /\ Allocated(a) = a.current
        /\ alloc(a) = [a EXCEPT !.current = @ + 1]
    BY <1>2 DEF Allocated, alloc
  <2>2. /\ alloc(a) \in Allocator(0..(max - 1))
        /\ alloc(a).current = a.current + 1 /\ alloc(a).recycled = a.recycled
    BY <1>1, <2>1 DEF Allocator
  <2>3. Range(a.recycled) = {}
    BY <1>2 DEF Range
  <2>. QED BY <1>1, <1>2, <2>1, <2>2, <2>3 DEF AllocatorOK, InUse, IsInjective
<1>3. CASE a.recycled # <<>>
  <2>1. PICK r, f : r = a.recycled /\ f = Front(r)
    OBVIOUS
  <2>2. /\ Allocated(a) = Last(r)
        /\ alloc(a) = [a EXCEPT !.recycled = f]
    BY <1>3, <2>1 DEF Allocated, alloc
  <2>3. IsInjective(r)
    BY <2>1 DEF AllocatorOK
  <2>4. /\ Last(r) \in Range(r)
        /\ f \in Seq(0..(max - 1))
        /\ IsInjective(f)
        /\ Range(f) = Range(r) \ {Last(r)}
    BY <1>1, <1>3, <2>1, <2>3, PopBack, Zenon
  <2>5. /\ alloc(a) \in Allocator(0..(max - 1))
        /\ alloc(a).current = a.current /\ alloc(a).recycled = f
    BY <1>1, <2>2, <2>4, Zenon DEF Allocator
  <2>6. \A x \in Range(r) : x \in 0..(a.current - 1)
    BY <1>1, <2>1 DEF Range
  <2>7. \A k \in DOMAIN f : f[k] \in Range(f)
    BY DEF Range
  <2>8. AllocatorOK(alloc(a), max)
    BY <1>1, <2>4, <2>5, <2>6, <2>7 DEF AllocatorOK
  <2>. QED BY <1>1, <2>1, <2>2, <2>4, <2>5, <2>6, <2>8 DEF InUse
<1>. QED BY <1>2, <1>3

(* dealloc passes its assert for an id in use, and takes it out of use. *)
LEMMA DeallocStep ==
  ASSUME NEW max \in Nat, NEW a \in Allocator(0..(max - 1)), AllocatorOK(a, max),
         NEW id \in InUse(a)
  PROVE  /\ dealloc_assert(a, id)
         /\ dealloc(a, id) \in Allocator(0..(max - 1))
         /\ AllocatorOK(dealloc(a, id), max)
         /\ InUse(dealloc(a, id)) = InUse(a) \ {id}
<1>1. /\ a.current \in Nat /\ a.current <= max
      /\ a.recycled \in Seq(0..(max - 1))
      /\ Len(a.recycled) \in Nat
      /\ DOMAIN a.recycled = 1..Len(a.recycled)
  BY LenProperties DEF Allocator, AllocatorOK
<1>2. id \in 0..(a.current - 1) /\ id \in 0..(max - 1) /\ id \notin Range(a.recycled)
  BY <1>1 DEF InUse
<1>3. PICK r : r = Append(a.recycled, id)
  BY Zenon
<1>4. /\ r \in Seq(0..(max - 1))
      /\ Range(r) = Range(a.recycled) \cup {id}
      /\ IsInjective(r)
  BY <1>1, <1>2, <1>3, PushBack DEF AllocatorOK
<1>5. \A k \in DOMAIN r : r[k] < a.current
  <2>1. \A x \in Range(a.recycled) : x < a.current
    BY DEF AllocatorOK, Range
  <2>2. \A x \in Range(r) : x < a.current
    BY <1>1, <1>2, <1>4, <2>1
  <2>3. \A k \in DOMAIN r : r[k] \in Range(r)
    BY DEF Range
  <2>. QED BY <2>2, <2>3
<1>6. /\ dealloc(a, id) \in Allocator(0..(max - 1))
      /\ dealloc(a, id).current = a.current /\ dealloc(a, id).recycled = r
  BY <1>1, <1>3, <1>4, Zenon DEF dealloc, Allocator
<1>. QED BY <1>1, <1>2, <1>4, <1>5, <1>6 DEF AllocatorOK, InUse, dealloc_assert

------------------------------------------------------------------------------
(* The invariant and what it says of a task in user mode *)

IInv == TypeOK /\ TreeInv /\ ThreadInv /\ QueueInv

(* The processes that have not ended, and their blocks. *)
LEMMA LiveBlocks ==
  ASSUME TypeOK, TreeInv, ThreadInv
  PROVE  /\ \A p \in Live : pcb[p] \in ProcessControlBlock /\ p \in Pid
         /\ \A p : p \in pid2pcb <=> p \in Live /\ ~pcb[p].is_zombie
         /\ \A p \in pid2pcb : TableOK(p, pcb[p], tcb)
         /\ \A p \in Live \ pid2pcb : ZombieOK(p, pcb[p], tcb)
<1>1. \A p \in Live : pcb[p] \in ProcessControlBlock /\ p \in Pid
  BY DEF TypeOK, Live
<1>2. \A p : p \in pid2pcb <=> p \in Live /\ ~pcb[p].is_zombie
  BY DEF TreeInv
<1>. QED BY <1>1, <1>2 DEF ThreadInv, BlockOK

(* The blocks of the tree: children are process ids, and the processes that *)
(* pid2pcb knows have not ended.                                            *)
LEMMA TreeBlocks ==
  ASSUME TypeOK, TreeInv
  PROVE  /\ pcb \in [Pid -> ProcessControlBlock \cup {NONE}]
         /\ pid_allocator \in Allocator(Pid)
         /\ INITPROC \in pid2pcb
         /\ \A q \in pid2pcb : q \in Live /\ q \in Pid /\ ~pcb[q].is_zombie
         /\ \A q \in Live : /\ pcb[q] \in ProcessControlBlock /\ q \in Pid
                            /\ pcb[q].children \in Seq(Pid)
                            /\ IsInjective(pcb[q].children)
<1>1. /\ pcb \in [Pid -> ProcessControlBlock \cup {NONE}]
      /\ pid_allocator \in Allocator(Pid)
  BY Zenon DEF TypeOK
<1>2. \A q \in Live : pcb[q] \in ProcessControlBlock /\ q \in Pid
  BY <1>1 DEF Live
<1>3. \A r \in ProcessControlBlock : r.children \in Seq(Pid)
  BY DEF ProcessControlBlock
<1>4. pid2pcb = {q \in Live : ~pcb[q].is_zombie} /\ INITPROC \in pid2pcb
  BY Zenon DEF TreeInv
<1>5. \A q \in Live : IsInjective(pcb[q].children)
  BY Zenon DEF TreeInv
<1>6. \A q \in pid2pcb : q \in Live /\ ~pcb[q].is_zombie
  BY <1>4, Zenon
<1>. QED BY <1>1, <1>2, <1>3, <1>4, <1>5, <1>6, Zenon

(* The threads of a table are its entries. *)
LEMMA EntryOf ==
  ASSUME NEW p, NEW r \in ProcessControlBlock, NEW tc, TableOK(p, r, tc),
         NEW u \in Range(r.tasks) \ {NONE}
  PROVE  u \in Task /\ \E i \in InUse(r.tids) : u = r.tasks[i + 1]
<1>1. /\ r.tasks \in Seq(Task \cup {NONE})
      /\ Len(r.tasks) \in Nat /\ DOMAIN r.tasks = 1..Len(r.tasks)
      /\ MaxTid \in Nat
  BY LenProperties, ProcessAssumption DEF ProcessControlBlock
<1>2. PICK k \in DOMAIN r.tasks : u = r.tasks[k]
  BY DEF Range
<1>3. k - 1 \in Tid /\ (k - 1) + 1 = k
  BY <1>1 DEF TableOK, Tid
<1>4. k - 1 \in InUse(r.tids)
  BY <1>2, <1>3 DEF TableOK
<1>5. u \in Task
  BY <1>1, <1>2, ElementOfSeq
<1>. QED BY <1>2, <1>3, <1>4, <1>5

LEMMA ThreadOf ==
  ASSUME NEW p, NEW r \in ProcessControlBlock, NEW tc, TableOK(p, r, tc),
         NEW u \in Range(r.tasks) \ {NONE}
  PROVE  /\ tc[u] # NONE
         /\ tc[u].process = p
         /\ tc[u].tid \in InUse(r.tids)
         /\ r.tasks[tc[u].tid + 1] = u
         /\ tc[u].res <=> tc[u].tid \in r.areas
         /\ tc[u].exited <=> tc[u].tid \notin r.areas
<1>1. PICK i \in InUse(r.tids) : u = r.tasks[i + 1]
  BY EntryOf, Zenon
<1>2. /\ tc[u] # NONE
      /\ tc[u].process = p
      /\ tc[u].tid = i
      /\ tc[u].res <=> i \in r.areas
      /\ tc[u].exited <=> i \notin r.areas
  BY <1>1, Zenon DEF TableOK
<1>. QED BY <1>1, <1>2, Zenon

(* The task that runs in user mode is a thread of a process that has not     *)
(* ended, and has not ended itself.                                          *)
LEMMA UserFacts ==
  ASSUME IInv, NEW t \in Task, NEW p, User(t, p)
  PROVE  /\ ~panicked /\ current = t
         /\ p \in Pid /\ p \in Live /\ p \in pid2pcb
         /\ pcb[p] \in ProcessControlBlock
         /\ ~pcb[p].is_zombie
         /\ TableOK(p, pcb[p], tcb)
         /\ tcb[t] \in TaskControlBlock /\ tcb[t] # NONE
         /\ tcb[t].process = p
         /\ tcb[t].res /\ ~tcb[t].exited /\ ~tcb[t].in_call
         /\ t \in Threads(p)
         /\ tcb[t].tid \in InUse(pcb[p].tids)
         /\ pcb[p].tasks[tcb[t].tid + 1] = t
         /\ tcb[t].tid \in pcb[p].areas
<1>1. ~panicked /\ current = t /\ ~tcb[t].in_call /\ p = tcb[t].process /\ t # NONE
  BY NoneAssumption DEF User
<1>2. tcb[t] # NONE /\ ~tcb[t].exited /\ tcb[t].res
  BY <1>1, Zenon DEF IInv, QueueInv
<1>3. tcb[t] \in TaskControlBlock
  BY <1>2 DEF IInv, TypeOK
<1>4. p \in pid2pcb /\ t \in Threads(p)
  BY <1>1, <1>2 DEF IInv, ThreadInv, TaskOK
<1>5. /\ p \in Pid /\ p \in Live /\ pcb[p] \in ProcessControlBlock
      /\ ~pcb[p].is_zombie /\ TableOK(p, pcb[p], tcb)
  BY <1>4, LiveBlocks DEF IInv
<1>6. /\ tcb[t].tid \in InUse(pcb[p].tids)
      /\ pcb[p].tasks[tcb[t].tid + 1] = t
      /\ tcb[t].res <=> tcb[t].tid \in pcb[p].areas
  <2>1. t \in Range(pcb[p].tasks) \ {NONE}
    BY <1>4 DEF Threads
  <2>2. PICK i \in InUse(pcb[p].tids) : t = pcb[p].tasks[i + 1]
    BY <1>5, <2>1, EntryOf, Zenon
  <2>3. tcb[t].tid = i /\ (tcb[t].res <=> i \in pcb[p].areas)
    BY <1>5, <2>2, Zenon DEF TableOK
  <2>. QED BY <2>2, <2>3, Zenon
<1>. QED BY <1>1, <1>2, <1>3, <1>4, <1>5, <1>6

------------------------------------------------------------------------------
(* What a step keeps *)

(* Nothing but the suspended calls tells the blocks b and c of a task apart. *)
SameThread(b, c) ==
  /\ c # NONE
  /\ c.process = b.process
  /\ c.tid = b.tid
  /\ c.res = b.res
  /\ c.exited = b.exited

LEMMA TableKept ==
  ASSUME NEW p, NEW r \in ProcessControlBlock, NEW tc, TableOK(p, r, tc), NEW tc2,
         \A u \in Range(r.tasks) \ {NONE} : SameThread(tc[u], tc2[u])
  PROVE  TableOK(p, r, tc2)
<1>1. \A i \in InUse(r.tids) : i + 1 \in DOMAIN r.tasks /\ r.tasks[i + 1] # NONE
  BY DEF TableOK
<1>2. \A i \in InUse(r.tids) : r.tasks[i + 1] \in Range(r.tasks) \ {NONE}
  BY <1>1 DEF Range
<1>3. \A i \in InUse(r.tids) : SameThread(tc[r.tasks[i + 1]], tc2[r.tasks[i + 1]])
  BY <1>2
<1>4. ASSUME NEW i \in InUse(r.tids)
      PROVE  LET b == tc2[r.tasks[i + 1]] IN
             /\ b # NONE
             /\ b.process = p
             /\ b.tid = i
             /\ b.res <=> i \in r.areas
             /\ b.exited <=> i \notin r.areas
  <2>1. PICK b, c : b = tc[r.tasks[i + 1]] /\ c = tc2[r.tasks[i + 1]]
    OBVIOUS
  <2>2. /\ b.process = p /\ b.tid = i /\ (b.res <=> i \in r.areas)
        /\ (b.exited <=> i \notin r.areas)
    BY <2>1, Zenon DEF TableOK
  <2>3. SameThread(b, c)
    BY <1>3, <2>1
  <2>4. c # NONE /\ c.process = p /\ c.tid = i /\ (c.res <=> i \in r.areas)
        /\ (c.exited <=> i \notin r.areas)
    BY <2>2, <2>3 DEF SameThread
  <2>. QED BY <2>1, <2>4
<1>. QED BY <1>4, Zenon DEF TableOK

LEMMA ZombieKept ==
  ASSUME NEW p, NEW r \in ProcessControlBlock, NEW tc, ZombieOK(p, r, tc), NEW tc2,
         \A u \in Range(r.tasks) \ {NONE} : SameThread(tc[u], tc2[u])
  PROVE  ZombieOK(p, r, tc2)
<1>1. r.tasks \in Seq(Task \cup {NONE}) /\ 1 \in DOMAIN r.tasks /\ r.tasks[1] # NONE
  BY LenProperties DEF ZombieOK, ProcessControlBlock
<1>2. r.tasks[1] \in Range(r.tasks) \ {NONE}
  BY <1>1 DEF Range
<1>3. SameThread(tc[r.tasks[1]], tc2[r.tasks[1]])
  BY <1>2
<1>. QED BY <1>3, Zenon DEF ZombieOK, SameThread

(* A step that leaves the processes and threads alone. *)
LEMMA BlocksKept ==
  ASSUME TreeInv, ThreadInv, UNCHANGED <<pid_allocator, pcb, pid2pcb, tcb>>
  PROVE  TreeInv' /\ ThreadInv'
<1>1. TreeInv'
  BY DEF TreeInv, Live
<1>2. ThreadInv'
  BY Zenon DEF ThreadInv, BlockOK, TaskOK, Live, Threads
<1>. QED BY <1>1, <1>2

(* A step that changes no list of children, no parent and no is_zombie. *)
LEMMA TreeKept ==
  ASSUME TreeInv, UNCHANGED <<pid_allocator, pid2pcb>>, pcb' \in [Pid -> ProcessControlBlock \cup {NONE}],
         \A q \in Pid : (pcb'[q] = NONE <=> pcb[q] = NONE),
         \A q \in Live : /\ pcb'[q].children = pcb[q].children
                         /\ pcb'[q].parent = pcb[q].parent
                         /\ pcb'[q].is_zombie = pcb[q].is_zombie
  PROVE  TreeInv'
<1>1. Live' = Live
  BY DEF Live
<1>. QED BY <1>1 DEF TreeInv

(* A thread of a table belongs to the process. *)
LEMMA OwnThreads ==
  ASSUME TypeOK, TreeInv, ThreadInv, NEW q \in Live, NEW u \in Threads(q)
  PROVE  u \in Task /\ tcb[u] # NONE /\ tcb[u].process = q
<1>1. PICK r : r = pcb[q]
  OBVIOUS
<1>2. r \in ProcessControlBlock /\ u \in Range(r.tasks) \ {NONE}
  BY <1>1, LiveBlocks DEF Threads
<1>3. CASE q \in pid2pcb
  <2>1. TableOK(q, r, tcb)
    BY <1>1, <1>3, LiveBlocks
  <2>2. PICK i \in InUse(r.tids) : u = r.tasks[i + 1]
    BY <1>2, <2>1, EntryOf, Zenon
  <2>3. tcb[u] # NONE /\ tcb[u].process = q
    BY <2>1, <2>2, Zenon DEF TableOK
  <2>. QED BY <1>2, <2>1, <2>3, EntryOf, Zenon
<1>4. CASE q \notin pid2pcb
  <2>1. ZombieOK(q, r, tcb)
    BY <1>1, <1>4, LiveBlocks
  <2>2. /\ r.tasks \in Seq(Task \cup {NONE})
        /\ DOMAIN r.tasks = {1} /\ r.tasks[1] # NONE
    BY <1>2, <2>1, LenProperties DEF ZombieOK, ProcessControlBlock
  <2>3. r.tasks[1] \in Task /\ u = r.tasks[1]
    BY <1>2, <2>2, ElementOfSeq DEF Range
  <2>. QED BY <2>1, <2>3, Zenon DEF ZombieOK
<1>. QED BY <1>3, <1>4

(* Nothing but the tree tells the blocks r and r2 of a process apart. *)
SameTable(r, r2) ==
  /\ r2.is_zombie = r.is_zombie
  /\ r2.tasks = r.tasks
  /\ r2.tids = r.tids
  /\ r2.areas = r.areas

(* The table of a process stays, and its threads stay. *)
LEMMA OtherTable ==
  ASSUME TypeOK, TreeInv, ThreadInv, NEW q \in Live, SameTable(pcb[q], pcb'[q]),
         \A u \in Threads(q) : SameThread(tcb[u], tcb'[u])
  PROVE  BlockOK(q)'
<1>1. PICK r, r2, tc, tc2 : r = pcb[q] /\ r2 = pcb'[q] /\ tc = tcb /\ tc2 = tcb'
  OBVIOUS
<1>2. /\ r \in ProcessControlBlock
      /\ \A u \in Range(r.tasks) \ {NONE} : SameThread(tc[u], tc2[u])
      /\ IF r.is_zombie THEN ZombieOK(q, r, tc) ELSE TableOK(q, r, tc)
  BY <1>1, LiveBlocks, Zenon DEF Threads, ThreadInv, BlockOK
<1>3. IF r.is_zombie THEN ZombieOK(q, r, tc2) ELSE TableOK(q, r, tc2)
  BY <1>2, ZombieKept, TableKept, Zenon
<1>4. SameTable(r, r2)
  BY <1>1, Zenon
<1>5. /\ ZombieOK(q, r, tc2) => ZombieOK(q, r2, tc2)
      /\ TableOK(q, r, tc2) => TableOK(q, r2, tc2)
  BY <1>4 DEF SameTable, ZombieOK, TableOK
<1>6. IF r2.is_zombie THEN ZombieOK(q, r2, tc2) ELSE TableOK(q, r2, tc2)
  BY <1>3, <1>4, <1>5 DEF SameTable
<1>. QED BY <1>1, <1>6 DEF BlockOK

(* A call is suspended or resumed. *)
LEMMA InCallKept ==
  ASSUME TypeOK, TreeInv, ThreadInv, NEW t \in Task, NEW b \in BOOLEAN,
         tcb[t] # NONE, ~tcb[t].exited,
         tcb' = [tcb EXCEPT ![t].in_call = b], UNCHANGED <<pid_allocator, pcb, pid2pcb>>
  PROVE  /\ tcb' \in [Task -> TaskControlBlock \cup {NONE}]
         /\ tcb'[t] # NONE
         /\ tcb'[t].in_call = b
         /\ \A u \in Task : /\ tcb[u] # NONE <=> tcb'[u] # NONE
                            /\ tcb[u] # NONE => SameThread(tcb[u], tcb'[u])
                            /\ u # t => tcb'[u] = tcb[u]
         /\ TreeInv' /\ ThreadInv'
<1>1. tcb \in [Task -> TaskControlBlock \cup {NONE}] /\ tcb[t] \in TaskControlBlock
  BY DEF TypeOK
<1>2. /\ tcb'[t] \in TaskControlBlock
      /\ tcb'[t].process = tcb[t].process
      /\ tcb'[t].tid = tcb[t].tid
      /\ tcb'[t].res = tcb[t].res
      /\ tcb'[t].exited = tcb[t].exited
      /\ tcb'[t].in_call = b
  BY <1>1, Zenon DEF TaskControlBlock
<1>3. /\ tcb' \in [Task -> TaskControlBlock \cup {NONE}]
      /\ \A u \in Task : u # t => tcb'[u] = tcb[u]
  BY <1>1, <1>2
<1>4. tcb'[t] # NONE
  BY <1>2, NoneIsNoBlock
<1>5. \A u \in Task : /\ tcb[u] # NONE <=> tcb'[u] # NONE
                      /\ tcb[u] # NONE => SameThread(tcb[u], tcb'[u])
  BY <1>2, <1>3, <1>4, Zenon DEF SameThread
<1>6. TreeInv'
  BY DEF TreeInv, Live
<1>7. Live' = Live
  BY DEF Live
<1>8. ASSUME NEW p \in Live PROVE BlockOK(p)'
  <2>1. \A u \in Threads(p) : SameThread(tcb[u], tcb'[u])
    BY <1>5, OwnThreads
  <2>2. SameTable(pcb[p], pcb'[p])
    BY DEF SameTable
  <2>. QED BY <2>1, <2>2, OtherTable
<1>9. ASSUME NEW u \in Task PROVE TaskOK(u)'
  <2>1. TaskOK(u)
    BY DEF ThreadInv
  <2>2. CASE tcb[u] # NONE
    <3>1. /\ tcb'[u].process = tcb[u].process /\ tcb'[u].res = tcb[u].res
          /\ tcb'[u].exited = tcb[u].exited
      BY <1>5, <2>2 DEF SameThread
    <3>2. tcb[u].exited => tcb'[u].in_call = tcb[u].in_call
      BY <1>3
    <3>. QED BY <1>5, <1>7, <2>1, <2>2, <3>1, <3>2 DEF TaskOK, Threads
  <2>3. CASE tcb[u] = NONE
    BY <1>5, <2>3 DEF TaskOK
  <2>. QED BY <2>2, <2>3
<1>10. ThreadInv'
  BY <1>7, <1>8, <1>9, Zenon DEF ThreadInv
<1>. QED BY <1>2, <1>3, <1>4, <1>5, <1>6, <1>10

------------------------------------------------------------------------------
(* The scheduler *)

(* A task that has not ended stays so, and none is added. *)
SameTasks ==
  \A u \in Task : (tcb'[u] # NONE /\ ~tcb'[u].exited) <=> (tcb[u] # NONE /\ ~tcb[u].exited)

(* The current task goes to the back of the queue. *)
LEMMA SuspendQueue ==
  ASSUME TypeOK, QueueInv, NEW t \in Task, suspend_current_and_run_next(t, <<>>),
         SameTasks, sleeping' = sleeping
  PROVE  SchedTypeOK' /\ QueueInv'
<1>1. /\ ready_queue \in Seq(Task) /\ current = t /\ current' = NONE
      /\ task_status \in [Task -> TaskStatus]
      /\ t \notin Range(ready_queue) /\ IsInjective(ready_queue) /\ t \notin sleeping
  BY DEF TypeOK, SchedTypeOK, QueueInv, suspend_current_and_run_next
<1>2. ready_queue' = Append(ready_queue, t)
  BY <1>1, ConcatEmptySeq DEF suspend_current_and_run_next
<1>3. /\ ready_queue' \in Seq(Task) /\ IsInjective(ready_queue')
      /\ Range(ready_queue') = Range(ready_queue) \cup {t}
  BY <1>1, <1>2, PushBack
<1>4. SchedTypeOK'
  BY <1>1, <1>3 DEF SchedTypeOK, suspend_current_and_run_next, TaskStatus
<1>5. sleeping \subseteq Task
  BY DEF TypeOK
<1>6. NONE \notin Range(ready_queue') \cup sleeping'
  <2>1. Range(ready_queue') \subseteq Task
    BY <1>3, RangeOfSeq
  <2>. QED BY <1>5, <2>1, NoneAssumption
<1>7. \A u \in Task : u \in Range(ready_queue') \cup {current'} \cup sleeping' <=>
                        u \in Range(ready_queue) \cup {current} \cup sleeping
  BY <1>1, <1>3, NoneAssumption
<1>8. \A u \in Task : u \in Range(ready_queue') \cup {current'} \cup sleeping' <=>
                        tcb'[u] # NONE /\ ~tcb'[u].exited
  BY <1>7 DEF QueueInv, SameTasks
<1>9. Range(ready_queue') \cap sleeping' = {}
  BY <1>1, <1>3 DEF QueueInv
<1>. QED BY <1>1, <1>3, <1>4, <1>6, <1>8, <1>9 DEF QueueInv

(* The current task leaves the processor and ends. *)
LEMMA LeaveQueue ==
  ASSUME TypeOK, QueueInv, NEW t \in Task, leave_processor(t), sleeping' = sleeping,
         \A u \in Task : (tcb'[u] # NONE /\ ~tcb'[u].exited) <=>
                           u # t /\ (tcb[u] # NONE /\ ~tcb[u].exited)
  PROVE  SchedTypeOK' /\ QueueInv'
<1>1. /\ current = t /\ current' = NONE /\ ready_queue' = ready_queue
      /\ task_status' = task_status
      /\ t \notin Range(ready_queue) /\ t \notin sleeping
  BY DEF leave_processor, QueueInv
<1>2. SchedTypeOK'
  BY <1>1 DEF SchedTypeOK, TypeOK
<1>3. NONE \notin Range(ready_queue) \cup sleeping
  <2>1. Range(ready_queue) \subseteq Task /\ sleeping \subseteq Task
    BY RangeOfSeq DEF TypeOK, SchedTypeOK
  <2>. QED BY <2>1, NoneAssumption
<1>4. \A u \in Task : u \in Range(ready_queue') \cup {current'} \cup sleeping' <=>
                        u # t /\ u \in Range(ready_queue) \cup {current} \cup sleeping
  BY <1>1, NoneAssumption
<1>5. \A u \in Task : u \in Range(ready_queue') \cup {current'} \cup sleeping' <=>
                        tcb'[u] # NONE /\ ~tcb'[u].exited
  BY <1>4 DEF QueueInv
<1>. QED BY <1>1, <1>2, <1>3, <1>5 DEF QueueInv

(* A new task goes to the back of the queue. *)
LEMMA AddQueue ==
  ASSUME TypeOK, QueueInv, NEW u \in Task, add_task(u), UNCHANGED <<sleeping, panicked>>,
         tcb[u] = NONE, tcb'[u] # NONE, ~tcb'[u].exited,
         \A v \in Task : v # u => tcb'[v] = tcb[v]
  PROVE  SchedTypeOK' /\ QueueInv'
<1>1. /\ ready_queue \in Seq(Task) /\ ready_queue' = Append(ready_queue, u)
      /\ current' = current /\ task_status' = task_status
      /\ IsInjective(ready_queue)
      /\ u \notin Range(ready_queue) \cup {current} \cup sleeping
  BY DEF TypeOK, SchedTypeOK, QueueInv, add_task
<1>2. /\ ready_queue' \in Seq(Task) /\ IsInjective(ready_queue')
      /\ Range(ready_queue') = Range(ready_queue) \cup {u}
  BY <1>1, PushBack
<1>3. SchedTypeOK'
  BY <1>1, <1>2 DEF SchedTypeOK, TypeOK
<1>4. \A v \in Task : v \in Range(ready_queue') \cup {current'} \cup sleeping' <=>
                        tcb'[v] # NONE /\ ~tcb'[v].exited
  BY <1>1, <1>2 DEF QueueInv
<1>5. current' # NONE => current' \in Task /\ tcb'[current'] = tcb[current]
  BY <1>1 DEF TypeOK, SchedTypeOK
<1>6. ~panicked' /\ current' # NONE /\ ~tcb'[current'].in_call => tcb'[current'].res
  BY <1>1, <1>5 DEF QueueInv
<1>7. /\ Range(ready_queue') \cap sleeping' = {}
      /\ current' \notin Range(ready_queue') \cup sleeping'
  BY <1>1, <1>2 DEF QueueInv
<1>. QED BY <1>2, <1>3, <1>4, <1>6, <1>7, Zenon DEF QueueInv

LEMMA RunTaskStep ==
  ASSUME IInv, NEW t \in Task, RunTask(t)
  PROVE  IInv'
<1>. USE DEF IInv
<1>1. /\ ready_queue \in Seq(Task) /\ ready_queue # <<>> /\ t = Head(ready_queue)
      /\ ready_queue' = Tail(ready_queue) /\ IsInjective(ready_queue)
      /\ current = NONE /\ current' = t /\ sleeping' = sleeping
      /\ task_status' = [task_status EXCEPT ![t] = "Running"]
  BY DEF RunTask, run_task, TypeOK, SchedTypeOK, QueueInv
<1>2. /\ ready_queue' \in Seq(Task) /\ IsInjective(ready_queue')
      /\ t \in Range(ready_queue)
      /\ Range(ready_queue') = Range(ready_queue) \ {t}
  BY <1>1, PopFront
<1>3. /\ panicked' \in BOOLEAN
      /\ ~panicked' /\ ~tcb[t].in_call => tcb[t].res
      /\ UNCHANGED <<pid_allocator, pcb, pid2pcb, tcb>>
  BY Zenon DEF RunTask
<1>4. TypeOK'
  BY <1>1, <1>2, <1>3 DEF TypeOK, SchedTypeOK, TaskStatus
<1>5. TreeInv' /\ ThreadInv'
  BY <1>3, BlocksKept
<1>6. t \notin sleeping
  BY <1>2 DEF QueueInv
<1>7. \A u \in Task : u \in Range(ready_queue') \cup {current'} \cup sleeping' <=>
                        u \in Range(ready_queue) \cup {current} \cup sleeping
  BY <1>1, <1>2, NoneAssumption
<1>8. \A u \in Task : u \in Range(ready_queue') \cup {current'} \cup sleeping' <=>
                        tcb'[u] # NONE /\ ~tcb'[u].exited
  BY <1>3, <1>7 DEF QueueInv
<1>9. /\ Range(ready_queue') \cap sleeping' = {}
      /\ current' \notin Range(ready_queue') \cup sleeping'
  BY <1>1, <1>2, <1>6, Zenon DEF QueueInv
<1>10. QueueInv'
  BY <1>1, <1>2, <1>3, <1>8, <1>9 DEF QueueInv
<1>. QED BY <1>4, <1>5, <1>10

(* sys_yield and a call that has to wait again. *)
LEMMA YieldStep ==
  ASSUME IInv, NEW t \in Task, sys_yield(t) \/ CallAgain(t)
  PROVE  IInv'
<1>. USE DEF IInv
<1>1. suspend_current_and_run_next(t, <<>>) /\ UNCHANGED proc_vars
  BY DEF sys_yield, CallAgain
<1>2. UNCHANGED <<pid_allocator, pcb, pid2pcb, tcb, sleeping, panicked>>
  BY <1>1 DEF proc_vars
<1>3. TreeInv' /\ ThreadInv'
  BY <1>2, BlocksKept
<1>4. SameTasks
  BY <1>2 DEF SameTasks
<1>5. SchedTypeOK' /\ QueueInv'
  BY <1>1, <1>2, <1>4, SuspendQueue
<1>6. TypeOK'
  BY <1>2, <1>5 DEF TypeOK
<1>. QED BY <1>3, <1>5, <1>6

LEMMA SleepStep ==
  ASSUME IInv, NEW t \in Task, sys_sleep(t)
  PROVE  IInv'
<1>. USE DEF IInv
<1>1. /\ current = t /\ current' = NONE /\ ready_queue' = ready_queue
      /\ task_status' = [task_status EXCEPT ![t] = "Blocked"]
      /\ sleeping' = sleeping \cup {t}
      /\ UNCHANGED <<pid_allocator, pcb, pid2pcb, tcb, panicked>>
  BY DEF sys_sleep, block_current_and_run_next
<1>2. TreeInv' /\ ThreadInv'
  BY <1>1, BlocksKept
<1>3. TypeOK'
  BY <1>1 DEF TypeOK, SchedTypeOK, TaskStatus
<1>4. Range(ready_queue) \subseteq Task /\ sleeping \subseteq Task
  BY RangeOfSeq DEF TypeOK, SchedTypeOK
<1>5. \A u \in Task : u \in Range(ready_queue') \cup {current'} \cup sleeping' <=>
                        u \in Range(ready_queue) \cup {current} \cup sleeping
  BY <1>1, NoneAssumption
<1>6. \A u \in Task : u \in Range(ready_queue') \cup {current'} \cup sleeping' <=>
                        tcb'[u] # NONE /\ ~tcb'[u].exited
  BY <1>1, <1>5 DEF QueueInv
<1>7. /\ Range(ready_queue') \cap sleeping' = {}
      /\ NONE \notin Range(ready_queue') \cup sleeping'
  BY <1>1, <1>4, NoneAssumption DEF QueueInv
<1>8. QueueInv'
  BY <1>1, <1>6, <1>7 DEF QueueInv
<1>. QED BY <1>2, <1>3, <1>8

LEMMA TimerStep ==
  ASSUME IInv, NEW t \in Task, check_timer(t)
  PROVE  IInv'
<1>. USE DEF IInv
<1>1. /\ t \in sleeping /\ sleeping' = sleeping \ {t}
      /\ ready_queue' = Append(ready_queue, t) /\ current' = current
      /\ task_status' = [task_status EXCEPT ![t] = "Ready"]
      /\ UNCHANGED <<pid_allocator, pcb, pid2pcb, tcb, panicked>>
  BY DEF check_timer, wakeup_task
<1>2. TreeInv' /\ ThreadInv'
  BY <1>1, BlocksKept
<1>3. t \notin Range(ready_queue) /\ current # t /\ ready_queue \in Seq(Task)
  BY <1>1 DEF QueueInv, TypeOK, SchedTypeOK
<1>4. /\ ready_queue' \in Seq(Task)
      /\ Range(ready_queue') = Range(ready_queue) \cup {t}
      /\ IsInjective(ready_queue')
  BY <1>1, <1>3, PushBack DEF QueueInv
<1>5. TypeOK'
  BY <1>1, <1>4 DEF TypeOK, SchedTypeOK, TaskStatus
<1>6. \A u \in Task : u \in Range(ready_queue') \cup {current'} \cup sleeping' <=>
                        tcb'[u] # NONE /\ ~tcb'[u].exited
  BY <1>1, <1>4 DEF QueueInv
<1>7. /\ Range(ready_queue') \cap sleeping' = {}
      /\ current' \notin Range(ready_queue') \cup sleeping'
  BY <1>1, <1>3, <1>4 DEF QueueInv
<1>8. ~panicked' /\ current' # NONE /\ ~tcb'[current'].in_call => tcb'[current'].res
  BY <1>1 DEF QueueInv
<1>9. QueueInv'
  BY <1>4, <1>6, <1>7, <1>8 DEF QueueInv
<1>. QED BY <1>2, <1>5, <1>9

LEMMA ReadStep ==
  ASSUME IInv, NEW t \in Task, sys_read(t)
  PROVE  IInv'
<1>. USE DEF IInv
<1>1. /\ suspend_current_and_run_next(t, <<>>)
      /\ tcb' = [tcb EXCEPT ![t].in_call = TRUE]
      /\ UNCHANGED <<pid_allocator, pcb, pid2pcb, sleeping, panicked>>
      /\ tcb[t] # NONE /\ ~tcb[t].exited
  BY UserFacts DEF sys_read
<1>2. /\ tcb' \in [Task -> TaskControlBlock \cup {NONE}]
      /\ \A u \in Task : /\ tcb[u] # NONE <=> tcb'[u] # NONE
                         /\ tcb[u] # NONE => SameThread(tcb[u], tcb'[u])
      /\ TreeInv' /\ ThreadInv'
  BY <1>1, InCallKept, Zenon
<1>3. SameTasks
  BY <1>2 DEF SameTasks, SameThread
<1>4. SchedTypeOK' /\ QueueInv'
  BY <1>1, <1>3, SuspendQueue
<1>5. TypeOK'
  BY <1>1, <1>2, <1>4 DEF TypeOK
<1>. QED BY <1>2, <1>4, <1>5

LEMMA CallReturnsStep ==
  ASSUME IInv, NEW t \in Task, CallReturns(t)
  PROVE  IInv'
<1>. USE DEF IInv
<1>1. /\ current = t
      /\ tcb' = [tcb EXCEPT ![t].in_call = FALSE]
      /\ UNCHANGED <<ready_queue, current, task_status, pid_allocator, pcb, pid2pcb, sleeping>>
      /\ tcb[t] # NONE /\ ~tcb[t].exited
  BY DEF CallReturns, QueueInv, sched_vars
<1>2. /\ tcb' \in [Task -> TaskControlBlock \cup {NONE}]
      /\ tcb'[t] # NONE
      /\ \A u \in Task : /\ tcb[u] # NONE <=> tcb'[u] # NONE
                         /\ tcb[u] # NONE => SameThread(tcb[u], tcb'[u])
      /\ TreeInv' /\ ThreadInv'
  BY <1>1, InCallKept, Zenon
<1>3. panicked' \in BOOLEAN /\ (~panicked' => tcb[t].res)
  BY Zenon DEF CallReturns
<1>4. SameTasks
  BY <1>2 DEF SameTasks, SameThread
<1>5. tcb'[t].res = tcb[t].res
  BY <1>1, <1>2 DEF SameThread
<1>6. TypeOK'
  BY <1>1, <1>2, <1>3 DEF TypeOK, SchedTypeOK
<1>7. QueueInv'
  BY <1>1, <1>3, <1>4, <1>5 DEF QueueInv, SameTasks
<1>. QED BY <1>2, <1>6, <1>7

(* The kernel stops: nothing else changes. *)
LEMMA PanicStep ==
  ASSUME IInv, Panic
  PROVE  IInv'
<1>. USE DEF IInv
<1>1. /\ UNCHANGED <<ready_queue, current, task_status, pid_allocator, pcb, pid2pcb, tcb, sleeping>>
      /\ panicked' = TRUE
  BY DEF Panic, sched_vars
<1>2. TreeInv' /\ ThreadInv'
  BY <1>1, BlocksKept
<1>3. TypeOK' /\ QueueInv'
  BY <1>1, Zenon DEF TypeOK, SchedTypeOK, QueueInv
<1>. QED BY <1>2, <1>3

------------------------------------------------------------------------------
(* Calls of one process *)

(* The tasks of other processes keep what TaskOK says of them, when their    *)
(* processes do.                                                             *)
LEMMA TaskKept ==
  ASSUME TreeInv, NEW u \in Task, TaskOK(u), tcb'[u] = tcb[u],
         tcb[u] # NONE /\ tcb[u].process \in Live =>
           /\ tcb[u].process \in pid2pcb /\ tcb[u].res => tcb[u].process \in pid2pcb'
           /\ tcb[u].process \in Live'
           /\ u \in Threads(tcb[u].process) => u \in Range(pcb'[tcb[u].process].tasks)
  PROVE  TaskOK(u)'
<1>. SUFFICES ASSUME tcb[u] # NONE PROVE TaskOK(u)'
  BY DEF TaskOK
<1>1. u # NONE
  BY NoneAssumption
<1>2. \A q \in pid2pcb : q \in Live
  BY DEF TreeInv
<1>. QED BY <1>1, <1>2, Zenon DEF TaskOK, Threads

(* The processes other than p keep their tables, when their threads stay. *)
LEMMA OthersKept ==
  ASSUME IInv, NEW p, NEW q \in Live, q # p, SameTable(pcb[q], pcb'[q]),
         \A u \in Task : tcb[u] # NONE /\ tcb[u].process # p => tcb'[u] = tcb[u]
  PROVE  BlockOK(q)'
<1>1. \A u \in Threads(q) : u \in Task /\ tcb[u] # NONE /\ tcb[u].process # p
  BY OwnThreads DEF IInv
<1>2. \A u \in Threads(q) : SameThread(tcb[u], tcb'[u])
  BY <1>1 DEF SameThread
<1>. QED BY <1>2, OtherTable DEF IInv

(* A table with one entry: the main thread is the only thread id out. *)
LEMMA OneThread ==
  ASSUME NEW p, NEW r \in ProcessControlBlock, NEW tc, TableOK(p, r, tc), Len(r.tasks) = 1
  PROVE  InUse(r.tids) = {0} /\ r.areas = {0}
<1>1. DOMAIN r.tasks = 1..1
  BY LenProperties DEF ProcessControlBlock
<1>2. \A i \in InUse(r.tids) : i \in Tid /\ i + 1 \in DOMAIN r.tasks
  BY DEF TableOK
<1>3. \A i \in InUse(r.tids) : i = 0
  BY <1>1, <1>2, ProcessAssumption DEF Tid
<1>. QED BY <1>3 DEF TableOK

LEMMA ExecStep ==
  ASSUME IInv, NEW t \in Task, sys_exec(t)
  PROVE  IInv'
<1>. DEFINE p == tcb[t].process
<1>1. User(t, p)
  BY DEF sys_exec
<1>2. p \in Pid /\ pcb[p] \in ProcessControlBlock /\ TableOK(p, pcb[p], tcb)
  BY <1>1, UserFacts
<1>3. CASE Len(pcb[p].tasks) # 1
  BY <1>3, PanicStep DEF sys_exec
<1>4. CASE Len(pcb[p].tasks) = 1
  <2>1. /\ pcb' = [pcb EXCEPT ![p].areas = {0}]
        /\ UNCHANGED <<ready_queue, current, task_status, pid_allocator, pid2pcb, tcb,
                       sleeping, panicked>>
    BY <1>4 DEF sys_exec, sched_vars
  <2>. HIDE DEF p
  <2>2. pcb[p].areas = {0}
    BY <1>2, <1>4, OneThread, Zenon
  <2>3. pcb' = pcb
    <3>1. PICK r : r = pcb[p]
      OBVIOUS
    <3>2. [r EXCEPT !.areas = {0}] = r
      BY <1>2, <2>2, <3>1, Zenon DEF ProcessControlBlock
    <3>3. pcb \in [Pid -> ProcessControlBlock \cup {NONE}]
      BY DEF IInv, TypeOK
    <3>. QED BY <1>2, <2>1, <3>1, <3>2, <3>3
  <2>4. TreeInv' /\ ThreadInv'
    BY <2>1, <2>3, BlocksKept DEF IInv
  <2>. QED BY <2>1, <2>3, <2>4, Zenon DEF IInv, TypeOK, SchedTypeOK, QueueInv
<1>. QED BY <1>3, <1>4

(* A thread that is not the main thread ends. *)
LEMMA ExitThreadStep ==
  ASSUME IInv, NEW t \in Task, exit_thread(t)
  PROVE  IInv'
<1>1. PICK p, i : p = tcb[t].process /\ i = tcb[t].tid
  OBVIOUS
<1>2. User(t, p)
  BY <1>1, Zenon DEF exit_thread
<1>3. /\ p \in Pid /\ p \in Live /\ p \in pid2pcb /\ pcb[p] \in ProcessControlBlock
      /\ ~pcb[p].is_zombie
      /\ TableOK(p, pcb[p], tcb)
      /\ tcb[t] \in TaskControlBlock /\ tcb[t] # NONE /\ tcb[t].res /\ ~tcb[t].exited
      /\ ~tcb[t].in_call
      /\ t \in Threads(p)
      /\ i \in InUse(pcb[p].tids)
      /\ pcb[p].tasks[i + 1] = t
  BY <1>1, <1>2, UserFacts
<1>4. /\ i # 0
      /\ tcb' = [tcb EXCEPT ![t].res = FALSE, ![t].exited = TRUE]
      /\ pcb' = [pcb EXCEPT ![p].areas = @ \ {i}]
      /\ leave_processor(t)
      /\ UNCHANGED <<pid_allocator, pid2pcb, sleeping, panicked>>
  BY <1>1, Zenon DEF exit_thread
<1>5. /\ pcb \in [Pid -> ProcessControlBlock \cup {NONE}]
      /\ tcb \in [Task -> TaskControlBlock \cup {NONE}]
  BY DEF IInv, TypeOK
<1>6. PICK r, r2 : r = pcb[p] /\ r2 = [r EXCEPT !.areas = @ \ {i}]
  BY Zenon
<1>7. /\ r2 \in ProcessControlBlock
      /\ r2.is_zombie = r.is_zombie /\ r2.parent = r.parent /\ r2.children = r.children
      /\ r2.tasks = r.tasks /\ r2.tids = r.tids /\ r2.areas = r.areas \ {i}
  BY <1>3, <1>6, Zenon DEF ProcessControlBlock
<1>8. pcb' = [pcb EXCEPT ![p] = r2]
  BY <1>4, <1>6
<1>9. /\ pcb' \in [Pid -> ProcessControlBlock \cup {NONE}]
      /\ pcb'[p] = r2 /\ r2 # NONE
      /\ \A q \in Pid : q # p => pcb'[q] = pcb[q]
  BY <1>3, <1>5, <1>7, <1>8, NoneIsNoBlock, Zenon
<1>10. Live' = Live
  BY <1>3, <1>9 DEF Live
<1>11. TreeInv'
  BY <1>3, <1>4, <1>6, <1>7, <1>9, TreeKept DEF IInv, Live
<1>12. /\ tcb'[t] \in TaskControlBlock
       /\ tcb'[t].process = p /\ tcb'[t].tid = i
       /\ tcb'[t].res = FALSE /\ tcb'[t].exited = TRUE /\ tcb'[t].in_call = FALSE
  BY <1>1, <1>3, <1>4, <1>5, Zenon DEF TaskControlBlock
<1>13. /\ tcb' \in [Task -> TaskControlBlock \cup {NONE}]
       /\ tcb'[t] # NONE
       /\ \A u \in Task : u # t => tcb'[u] = tcb[u]
  BY <1>4, <1>5, <1>12, NoneIsNoBlock
<1>14. SchedTypeOK' /\ QueueInv'
  <2>1. \A u \in Task : (tcb'[u] # NONE /\ ~tcb'[u].exited) <=>
                           u # t /\ (tcb[u] # NONE /\ ~tcb[u].exited)
    BY <1>12, <1>13
  <2>. QED BY <1>4, <2>1, LeaveQueue, Zenon DEF IInv
<1>15. TypeOK'
  BY <1>4, <1>9, <1>13, <1>14, Zenon DEF TypeOK, IInv

<1>16. TableOK(p, r2, tcb')
  <2>1. PICK tc, tc2 : tc = tcb /\ tc2 = tcb'
    OBVIOUS
  <2>2. TableOK(p, r, tc) /\ i \in InUse(r.tids) /\ r.tasks[i + 1] = t
    BY <1>3, <1>6, <2>1
  <2>3. ASSUME NEW j \in InUse(r.tids), j # i
        PROVE  tc2[r.tasks[j + 1]] = tc[r.tasks[j + 1]] /\ (j \in r2.areas <=> j \in r.areas)
    <3>1. r.tasks[j + 1] # t
      BY <1>1, <2>1, <2>2, <2>3 DEF TableOK
    <3>2. r.tasks[j + 1] \in Task
      <4>1. j + 1 \in DOMAIN r.tasks /\ r.tasks[j + 1] # NONE /\ r.tasks \in Seq(Task \cup {NONE})
        BY <1>3, <1>6, <2>2, Zenon DEF TableOK, ProcessControlBlock
      <4>. QED BY <4>1, ElementOfSeq, LenProperties
    <3>. QED BY <1>7, <1>13, <2>1, <2>3, <3>1, <3>2, Zenon
  <2>4. \A j \in InUse(r2.tids) :
          /\ tc2[r2.tasks[j + 1]] # NONE
          /\ tc2[r2.tasks[j + 1]].process = p
          /\ tc2[r2.tasks[j + 1]].tid = j
          /\ tc2[r2.tasks[j + 1]].res <=> j \in r2.areas
          /\ tc2[r2.tasks[j + 1]].exited <=> j \notin r2.areas
    <3>1. SUFFICES ASSUME NEW j \in InUse(r.tids)
                   PROVE  /\ tc2[r.tasks[j + 1]] # NONE
                          /\ tc2[r.tasks[j + 1]].process = p
                          /\ tc2[r.tasks[j + 1]].tid = j
                          /\ tc2[r.tasks[j + 1]].res <=> j \in r2.areas
                          /\ tc2[r.tasks[j + 1]].exited <=> j \notin r2.areas
      BY <1>7
    <3>2. CASE j = i
      <4>1. j \notin r2.areas
        BY <1>7, <3>2
      <4>2. r.tasks[j + 1] = t /\ tc2[t] # NONE /\ tc2[t].process = p /\ tc2[t].tid = j
        BY <1>12, <1>13, <2>1, <2>2, <3>2
      <4>3. tc2[t].res = FALSE /\ tc2[t].exited = TRUE
        BY <1>12, <2>1
      <4>. QED BY <4>1, <4>2, <4>3
    <3>3. CASE j # i
      <4>1. PICK b : b = tc[r.tasks[j + 1]]
        OBVIOUS
      <4>2. /\ b # NONE /\ b.process = p /\ b.tid = j
            /\ (b.res <=> j \in r.areas) /\ (b.exited <=> j \notin r.areas)
        BY <2>2, <4>1, Zenon DEF TableOK
      <4>3. tc2[r.tasks[j + 1]] = b /\ (j \in r2.areas <=> j \in r.areas)
        BY <2>3, <3>3, <4>1
      <4>. QED BY <4>2, <4>3
    <3>. QED BY <3>2, <3>3, Zenon
  <2>5. r2.areas \subseteq InUse(r2.tids) /\ 0 \in r2.areas
    BY <1>4, <1>7, <2>2, Zenon DEF TableOK
  <2>6. /\ AllocatorOK(r2.tids, MaxTid)
        /\ InUse(r2.tids) = {k \in Tid : k + 1 \in DOMAIN r2.tasks /\ r2.tasks[k + 1] # NONE}
        /\ Len(r2.tasks) <= MaxTid
    BY <1>7, <2>2 DEF TableOK
  <2>7. TableOK(p, r2, tc2)
    BY <2>4, <2>5, <2>6, Zenon DEF TableOK
  <2>. QED BY <2>1, <2>7
<1>17. ASSUME NEW q \in Live PROVE BlockOK(q)'
  <2>1. CASE q = p
    BY <1>3, <1>6, <1>7, <1>9, <1>16, <2>1, Zenon DEF BlockOK
  <2>2. CASE q # p
    <3>1. \A u \in Task : tcb[u] # NONE /\ tcb[u].process # p => tcb'[u] = tcb[u]
      BY <1>1, <1>13
    <3>2. SameTable(pcb[q], pcb'[q])
      BY <1>9, <2>2 DEF Live, SameTable
    <3>. QED BY <2>2, <3>1, <3>2, OthersKept
  <2>. QED BY <2>1, <2>2
<1>18. ASSUME NEW u \in Task PROVE TaskOK(u)'
  <2>1. TaskOK(u)
    BY DEF IInv, ThreadInv
  <2>2. CASE u = t
    <3>1. t \in Range(pcb'[p].tasks) \ {NONE}
      BY <1>3, <1>6, <1>7, <1>9 DEF Threads
    <3>. QED BY <1>3, <1>10, <1>12, <2>2, <3>1, Zenon DEF TaskOK, Threads
  <2>3. CASE u # t
    <3>1. \A q \in Live : Range(pcb'[q].tasks) = Range(pcb[q].tasks)
      BY <1>6, <1>7, <1>9, Zenon DEF Live
    <3>2. u \in Threads(tcb[u].process) /\ tcb[u].process \in Live =>
            u \in Range(pcb'[tcb[u].process].tasks)
      BY <3>1 DEF Threads
    <3>. QED BY <1>4, <1>10, <1>13, <2>1, <2>3, <3>2, TaskKept DEF IInv
  <2>. QED BY <2>2, <2>3
<1>19. ThreadInv'
  BY <1>10, <1>17, <1>18 DEF ThreadInv
<1>. QED BY <1>11, <1>14, <1>15, <1>19 DEF IInv
==============================================================================
