----------------------------- MODULE ByteChannel -----------------------------
(***************************************************************************)
(* What a pipe promises: bytes leave in the order in which they entered,   *)
(* at most Capacity of them are in transit, and once the last write end is *)
(* closed nothing enters any more.                                         *)
(***************************************************************************)
EXTENDS Integers, Sequences

CONSTANTS Byte, Capacity

VARIABLES
  buffer,   \* the bytes in transit, oldest first
  open      \* some write end exists

Init == buffer = <<>> /\ open = TRUE

(* The sender may be the last holder of the write end. *)
Send(b) ==
  /\ open
  /\ Len(buffer) < Capacity
  /\ buffer' = Append(buffer, b)
  /\ open' \in BOOLEAN

Receive ==
  /\ buffer # <<>>
  /\ buffer' = Tail(buffer)
  /\ UNCHANGED open

Close == open /\ open' = FALSE /\ UNCHANGED buffer

Next == (\E b \in Byte : Send(b)) \/ Receive \/ Close

Spec == Init /\ [][Next]_<<buffer, open>>
==============================================================================
