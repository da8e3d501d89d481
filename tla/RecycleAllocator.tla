--------------------------- MODULE RecycleAllocator ---------------------------
(* RecycleAllocator of os/src/task/id.rs, which hands out process ids         *)
(* (PidHandle), kernel stack ids and, inside a process, thread ids.           *)
EXTENDS Integers, Sequences, Functions

Allocator(Id) == [current : Nat, recycled : Seq(Id)]

(* Vec: what pop returns, and what it leaves. *)
Last(s) == s[Len(s)]
Front(s) == SubSeq(s, 1, Len(s) - 1)

(* What alloc returns, a recycled id if there is one, and what it leaves. *)
Allocated(a) == IF a.recycled # <<>> THEN Last(a.recycled) ELSE a.current

alloc(a) == IF a.recycled # <<>>
            THEN [a EXCEPT !.recycled = Front(@)]
            ELSE [a EXCEPT !.current = @ + 1]

(* The two asserts of dealloc, and what it does. *)
dealloc_assert(a, id) == id < a.current /\ id \notin Range(a.recycled)

dealloc(a, id) == [a EXCEPT !.recycled = Append(@, id)]

InUse(a) == 0..(a.current - 1) \ Range(a.recycled)
===============================================================================
