------------------------------ MODULE PipeProofs ------------------------------
(***************************************************************************)
(* For every ring size, every number of processes and every length of call:*)
(* a pipe is a FIFO channel of RING_BUFFER_SIZE bytes (ByteStream and the  *)
(* refinement of ByteChannel), and a short read is the end of it.          *)
(*                                                                         *)
(* ByteStream alone is not inductive: a read must not start on an empty    *)
(* ring nor a write on a full one.  The loops check that once, before the  *)
(* for loop, so the invariant bounds what is left of the for loop by what  *)
(* the ring can give or take.                                              *)
(***************************************************************************)
EXTENDS Pipe, SequenceTheorems, TLAPS

N == RING_BUFFER_SIZE

(* The three statuses against the two indices. *)
RingOK == status = "NORMAL" <=> head # tail

(* The task in its loop, and what it may still do before it looks again. *)
CallOK ==
  /\ running = NONE => budget = 0
  /\ \A p \in Proc : running = p =>
       /\ op[p] = "read" => budget <= available_read
       /\ op[p] = "write" => budget <= available_write

IInv == TypeOK /\ RingOK /\ CallOK /\ ByteStream /\ EofIsFinal

------------------------------------------------------------------------------
(* Sequences and indices *)

LEMMA Wrap ==
  ASSUME NEW n \in Nat \ {0}, NEW x \in Nat, x < 2 * n
  PROVE  x % n = IF x < n THEN x ELSE x - n
<1>1. CASE x < n
  BY <1>1
<1>2. CASE x >= n
  <2>1. x % n = x - n
    BY <1>2, SMTT(30)
  <2>. QED BY <1>2, <2>1
<1>. QED BY <1>1, <1>2

(* The successor of an index, and the i-th slot counted from one. *)
LEMMA NextSlot ==
  ASSUME NEW n \in Nat \ {0}, NEW h \in 0..(n - 1)
  PROVE  (h + 1) % n = IF h + 1 < n THEN h + 1 ELSE 0
<1>. DEFINE x == h + 1
<1>1. x \in Nat /\ x < 2 * n /\ (~(x < n) => x - n = 0)
  OBVIOUS
<1>. HIDE DEF x
<1>2. x % n = IF x < n THEN x ELSE 0
  BY Zenon, <1>1, Wrap
<1>. QED BY <1>2 DEF x

LEMMA Slot ==
  ASSUME NEW n \in Nat \ {0}, NEW h \in 0..(n - 1), NEW i \in 1..n
  PROVE  /\ (h + i - 1) % n = IF h + i - 1 < n THEN h + i - 1 ELSE h + i - 1 - n
         /\ (h + i - 1) % n \in 0..(n - 1)
<1>. DEFINE x == h + i - 1
<1>1. x \in Nat /\ x < 2 * n
  OBVIOUS
<1>. HIDE DEF x
<1>2. x % n = IF x < n THEN x ELSE x - n
  BY Zenon, <1>1, Wrap
<1>3. x % n \in 0..(n - 1)
  BY <1>1, <1>2
<1>. QED BY <1>2, <1>3 DEF x

(* k bytes of a ring from slot h on are bytes, and make a sequence. *)
LEMMA SliceBytes ==
  ASSUME NEW n \in Nat \ {0}, NEW h \in 0..(n - 1), NEW k \in 0..n,
         NEW a \in [0..(n - 1) -> Byte]
  PROVE  \A i \in 1..k : a[(h + i - 1) % n] \in Byte
<1>1. \A i \in 1..k : i \in 1..n
  OBVIOUS
<1>. QED BY <1>1, Slot

LEMMA Slice ==
  ASSUME NEW n \in Nat \ {0}, NEW h \in 0..(n - 1), NEW k \in 0..n,
         NEW a \in [0..(n - 1) -> Byte],
         NEW c \in [1..k -> Byte], \A i \in 1..k : c[i] = a[(h + i - 1) % n]
  PROVE  /\ c \in Seq(Byte) /\ Len(c) = k
         /\ \A i \in 1..k : c[i] = IF h + i - 1 < n THEN a[h + i - 1]
                                                    ELSE a[h + i - 1 - n]
<1>1. \A i \in 1..k : i \in 1..n
  OBVIOUS
<1>2. k \in Nat
  OBVIOUS
<1>3. c \in Seq(Byte) /\ Len(c) = k
  BY <1>2, LenProperties
<1>4. ASSUME NEW i \in 1..k
      PROVE  c[i] = IF h + i - 1 < n THEN a[h + i - 1] ELSE a[h + i - 1 - n]
  <2>1. (h + i - 1) % n = IF h + i - 1 < n THEN h + i - 1 ELSE h + i - 1 - n
    BY Zenon, <1>1, Slot
  <2>2. c[i] = a[(h + i - 1) % n]
    OBVIOUS
  <2>. QED BY <2>1, <2>2
<1>. QED BY <1>3, <1>4

(* Moving the first element of t to the end of s. *)
LEMMA MoveHead ==
  ASSUME NEW S, NEW s \in Seq(S), NEW t \in Seq(S), t # <<>>
  PROVE  Append(s, Head(t)) \o Tail(t) = s \o t
<1>. DEFINE l == Append(s, Head(t)) \o Tail(t)
<1>. DEFINE r == s \o t
<1>1. Len(t) \in Nat /\ Len(t) >= 1 /\ Len(s) \in Nat /\ Head(t) = t[1] /\ t[1] \in S
  BY EmptySeq, LenProperties
<1>2. /\ Tail(t) \in Seq(S) /\ Len(Tail(t)) = Len(t) - 1
      /\ \A i \in 1..(Len(t) - 1) : Tail(t)[i] = t[i + 1]
  BY <1>1
<1>3. Append(s, Head(t)) \in Seq(S) /\ Len(Append(s, Head(t))) = Len(s) + 1
  BY <1>1
<1>4. l \in Seq(S) /\ r \in Seq(S) /\ Len(l) = Len(s) + Len(t) /\ Len(r) = Len(s) + Len(t)
  BY <1>1, <1>2, <1>3
<1>5. ASSUME NEW i \in 1..(Len(s) + Len(t)) PROVE l[i] = r[i]
  <2>1. CASE i <= Len(s)
    BY <1>1, <1>2, <1>3, <2>1
  <2>2. CASE i = Len(s) + 1
    BY <1>1, <1>2, <1>3, <2>2
  <2>3. CASE i > Len(s) + 1
    BY <1>1, <1>2, <1>3, <2>3
  <2>. QED BY <1>1, <2>1, <2>2, <2>3
<1>. HIDE DEF l, r
<1>6. l = r
  BY <1>4, <1>5, SeqEqual
<1>. QED BY <1>6 DEF l, r

LEMMA PushLast ==
  ASSUME NEW S, NEW s \in Seq(S), NEW t \in Seq(S), NEW x \in S
  PROVE  s \o Append(t, x) = Append(s \o t, x)
BY SMTT(30)

------------------------------------------------------------------------------
(* The ring *)

(* What available_read and available_write say, and the bytes they count. *)
LEMMA RingFacts ==
  ASSUME TypeOK, RingOK
  PROVE  /\ N \in Nat \ {0}
         /\ available_read \in 0..N /\ available_write \in 0..N
         /\ available_write = N - available_read
         /\ available_read = 0 <=> status = "EMPTY"
         /\ Content \in Seq(Byte) /\ Len(Content) = available_read
         /\ \A i \in 1..available_read :
              Content[i] = IF head + i - 1 < N THEN arr[head + i - 1]
                                               ELSE arr[head + i - 1 - N]
<1>. USE PipeAssumption DEF N
<1>1. /\ head \in 0..(N - 1) /\ tail \in 0..(N - 1) /\ N \in Nat \ {0}
      /\ arr \in [0..(N - 1) -> Byte] /\ status \in {"FULL", "EMPTY", "NORMAL"}
  BY DEF TypeOK, Index
<1>2. /\ available_read \in 0..N
      /\ available_read = 0 <=> status = "EMPTY"
      /\ status = "FULL" => available_read = N
  BY <1>1 DEF available_read, RingOK
<1>3. available_write \in 0..N /\ available_write = N - available_read
  BY <1>1, <1>2 DEF available_write
<1>4. /\ Content \in [1..available_read -> Byte]
      /\ \A i \in 1..available_read : Content[i] = arr[(head + i - 1) % N]
  <2>1. \A i \in 1..available_read : arr[(head + i - 1) % N] \in Byte
    BY <1>1, <1>2, SliceBytes
  <2>. QED BY <2>1 DEF Content
<1>. HIDE DEF N
<1>5. /\ Content \in Seq(Byte) /\ Len(Content) = available_read
      /\ \A i \in 1..available_read :
           Content[i] = IF head + i - 1 < N THEN arr[head + i - 1]
                                            ELSE arr[head + i - 1 - N]
  BY ZenonT(30), <1>1, <1>2, <1>4, Slice
<1>. QED BY <1>1, <1>2, <1>3, <1>5

(* read_byte on a ring that is not empty takes its first byte. *)
LEMMA ReadOne ==
  ASSUME TypeOK, RingOK, available_read > 0, read_byte
  PROVE  /\ head' \in Index /\ status' \in {"EMPTY", "NORMAL"}
         /\ RingOK'
         /\ available_read' = available_read - 1
         /\ Content # <<>> /\ Content' = Tail(Content)
         /\ arr[head] = Head(Content)
<1>. USE PipeAssumption DEF N
<1>1. /\ head \in 0..(N - 1) /\ tail \in 0..(N - 1) /\ N \in Nat \ {0}
      /\ status \in {"FULL", "EMPTY", "NORMAL"} /\ arr \in [0..(N - 1) -> Byte]
  BY DEF TypeOK, Index
<1>2. head' = IF head + 1 < N THEN head + 1 ELSE 0
  BY Zenon, <1>1, NextSlot DEF read_byte
<1>3. /\ head' \in 0..(N - 1) /\ status' = (IF head' = tail THEN "EMPTY" ELSE "NORMAL")
      /\ tail' = tail /\ arr' = arr
  BY <1>1, <1>2 DEF read_byte
<1>4. RingOK'
  BY <1>3 DEF RingOK
<1>5. available_read' = available_read - 1
  BY <1>1, <1>2, <1>3 DEF available_read, RingOK
<1>6. /\ Content \in Seq(Byte) /\ Len(Content) = available_read
      /\ \A i \in 1..available_read :
           Content[i] = IF head + i - 1 < N THEN arr[head + i - 1]
                                            ELSE arr[head + i - 1 - N]
      /\ available_read \in 0..N
  BY RingFacts
<1>7. /\ Content' \in Seq(Byte) /\ Len(Content') = available_read'
      /\ \A i \in 1..available_read' :
           Content'[i] = IF head' + i - 1 < N THEN arr[head' + i - 1]
                                              ELSE arr[head' + i - 1 - N]
  <2>1. available_read' \in 0..N
    BY <1>5, <1>6
  <2>2. /\ Content' \in [1..available_read' -> Byte]
        /\ \A i \in 1..available_read' : Content'[i] = arr[(head' + i - 1) % N]
    <3>1. \A i \in 1..available_read' : arr[(head' + i - 1) % N] \in Byte
      BY Zenon, <1>1, <1>3, <2>1, SliceBytes
    <3>. QED BY <1>3, <3>1 DEF Content
  <2>. DEFINE c == Content'
              h == head'
              k == available_read'
  <2>3. /\ N \in Nat \ {0} /\ h \in 0..(N - 1) /\ k \in 0..N
        /\ arr \in [0..(N - 1) -> Byte]
        /\ c \in [1..k -> Byte] /\ \A i \in 1..k : c[i] = arr[(h + i - 1) % N]
    BY Zenon, <1>1, <1>3, <2>1, <2>2
  <2>. HIDE DEF N, c, h, k
  <2>4. /\ c \in Seq(Byte) /\ Len(c) = k
        /\ \A i \in 1..k : c[i] = IF h + i - 1 < N THEN arr[h + i - 1]
                                                   ELSE arr[h + i - 1 - N]
    BY ZenonT(30), <2>3, Slice
  <2>. QED BY <2>4 DEF c, h, k
<1>8. Content # <<>> /\ Head(Content) = Content[1] /\ Content[1] = arr[head]
  BY <1>1, <1>6
<1>9. /\ Tail(Content) \in Seq(Byte) /\ Len(Tail(Content)) = available_read - 1
      /\ \A i \in 1..(available_read - 1) : Tail(Content)[i] = Content[i + 1]
  BY <1>6, <1>8
<1>10. \A i \in 1..(available_read - 1) : Content'[i] = Tail(Content)[i]
  <2>. SUFFICES ASSUME NEW i \in 1..(available_read - 1)
                PROVE  Content'[i] = Content[i + 1]
    BY <1>9
  <2>1. Content[i + 1] = IF head + i < N THEN arr[head + i] ELSE arr[head + i - N]
    BY <1>1, <1>6
  <2>2. Content'[i] = IF head' + i - 1 < N THEN arr[head' + i - 1]
                                           ELSE arr[head' + i - 1 - N]
    BY <1>5, <1>7
  <2>3. CASE head + 1 < N
    BY <1>1, <1>2, <2>1, <2>2, <2>3
  <2>4. CASE ~(head + 1 < N)
    <3>1. head' = 0 /\ head = N - 1 /\ i - 1 < N
      BY <1>1, <1>2, <1>6, <2>4
    <3>2. Content'[i] = arr[i - 1]
      BY <2>2, <3>1
    <3>3. ~(head + i < N) /\ head + i - N = i - 1
      BY <1>1, <3>1
    <3>. QED BY <2>1, <3>2, <3>3
  <2>. QED BY <2>3, <2>4
<1>11. Content' = Tail(Content)
  BY <1>5, <1>7, <1>9, <1>10, SeqEqual
<1>. QED BY <1>3, <1>4, <1>5, <1>8, <1>11 DEF Index

(* write_byte on a ring that is not full puts its byte last. *)
LEMMA WriteOne ==
  ASSUME TypeOK, RingOK, available_write > 0, NEW b \in Byte, write_byte(b)
  PROVE  /\ arr' \in [Index -> Byte] /\ tail' \in Index
         /\ status' \in {"FULL", "NORMAL"}
         /\ RingOK'
         /\ available_read < N /\ available_read' = available_read + 1
         /\ Content' = Append(Content, b)
<1>. USE PipeAssumption DEF N
<1>1. /\ head \in 0..(N - 1) /\ tail \in 0..(N - 1) /\ N \in Nat \ {0}
      /\ status \in {"FULL", "EMPTY", "NORMAL"} /\ arr \in [0..(N - 1) -> Byte]
  BY DEF TypeOK, Index
<1>2. tail' = IF tail + 1 < N THEN tail + 1 ELSE 0
  BY Zenon, <1>1, NextSlot DEF write_byte
<1>3. /\ tail' \in 0..(N - 1) /\ status' = (IF head = tail' THEN "FULL" ELSE "NORMAL")
      /\ head' = head /\ arr' = [arr EXCEPT ![tail] = b]
      /\ arr' \in [0..(N - 1) -> Byte]
  BY <1>1, <1>2 DEF write_byte
<1>4. RingOK'
  BY <1>3 DEF RingOK
<1>5. /\ Content \in Seq(Byte) /\ Len(Content) = available_read
      /\ \A i \in 1..available_read :
           Content[i] = IF head + i - 1 < N THEN arr[head + i - 1]
                                            ELSE arr[head + i - 1 - N]
      /\ available_read \in 0..N /\ available_read < N
  BY RingFacts
<1>6. tail = IF head + available_read < N THEN head + available_read
                                         ELSE head + available_read - N
  BY <1>1, <1>5 DEF available_read, RingOK
<1>7. available_read' = available_read + 1
  BY <1>1, <1>2, <1>3, <1>5 DEF available_read, RingOK
<1>8. /\ Content' \in Seq(Byte) /\ Len(Content') = available_read'
      /\ \A i \in 1..available_read' :
           Content'[i] = IF head + i - 1 < N THEN arr'[head + i - 1]
                                             ELSE arr'[head + i - 1 - N]
  <2>. DEFINE c == Content'
              a == arr'
              k == available_read'
  <2>1. k \in 0..N
    BY <1>5, <1>7
  <2>2. \A i \in 1..k : a[(head + i - 1) % N] \in Byte
    <3>. HIDE DEF k
    <3>. QED BY <1>1, <1>3, <2>1, SliceBytes
  <2>3. /\ c \in [1..k -> Byte] /\ \A i \in 1..k : c[i] = a[(head + i - 1) % N]
    BY <1>3, <2>2 DEF Content
  <2>4. N \in Nat \ {0} /\ head \in 0..(N - 1) /\ a \in [0..(N - 1) -> Byte]
    BY <1>1, <1>3
  <2>. HIDE DEF N, c, a, k
  <2>5. /\ c \in Seq(Byte) /\ Len(c) = k
        /\ \A i \in 1..k : c[i] = IF head + i - 1 < N THEN a[head + i - 1]
                                                      ELSE a[head + i - 1 - N]
    BY ZenonT(30), <2>1, <2>3, <2>4, Slice
  <2>. QED BY <2>5 DEF c, a, k
<1>9. /\ Append(Content, b) \in Seq(Byte)
      /\ Len(Append(Content, b)) = available_read + 1
      /\ \A i \in 1..available_read : Append(Content, b)[i] = Content[i]
      /\ Append(Content, b)[available_read + 1] = b
  BY <1>5
<1>10. ASSUME NEW i \in 1..(available_read + 1)
       PROVE  Content'[i] = Append(Content, b)[i]
  <2>. DEFINE slot == IF head + i - 1 < N THEN head + i - 1 ELSE head + i - 1 - N
  <2>1. slot \in 0..(N - 1) /\ Content'[i] = arr'[slot]
    BY <1>1, <1>5, <1>7, <1>8
  <2>2. CASE i = available_read + 1
    <3>1. slot = tail
      BY <1>1, <1>5, <1>6, <2>2
    <3>2. arr'[tail] = b
      BY <1>1, <1>3
    <3>. QED BY <1>9, <2>1, <2>2, <3>1, <3>2
  <2>3. CASE i # available_read + 1
    <3>1. i \in 1..available_read /\ slot # tail
      BY <1>1, <1>5, <1>6, <2>3
    <3>2. Content[i] = arr[slot]
      BY <1>5, <3>1
    <3>3. arr'[slot] = arr[slot]
      <4>. HIDE DEF slot
      <4>. QED BY <1>1, <1>3, <2>1, <3>1
    <3>. QED BY <1>9, <2>1, <3>1, <3>2, <3>3
  <2>. QED BY Zenon, <2>2, <2>3
<1>11. Content' = Append(Content, b)
  BY <1>5, <1>7, <1>8, <1>9, <1>10, SeqEqual
<1>. QED BY <1>3, <1>4, <1>5, <1>7, <1>11 DEF Index

(* A step that leaves the ring alone leaves what is computed from it alone. *)
LEMMA RingSame ==
  ASSUME UNCHANGED ring_vars
  PROVE  /\ available_read' = available_read /\ available_write' = available_write
         /\ Content' = Content /\ RingOK' = RingOK
BY DEF ring_vars, available_read, available_write, Content, RingOK

------------------------------------------------------------------------------
(* The types, the ring, the loops and the processes *)

Struct == TypeOK /\ RingOK /\ CallOK

LEMMA StructInit == Init => Struct
<1>. SUFFICES ASSUME Init PROVE Struct
  OBVIOUS
<1>. USE PipeAssumption
<1>1. (CHOOSE b \in Byte : TRUE) \in Byte
  OBVIOUS
<1>2. TypeOK
  <2>1. 0 \in Index /\ arr \in [Index -> Byte]
    BY <1>1 DEF Init, Index
  <2>2. fds \in [Proc -> [End -> 0..MaxFd]]
    BY DEF Init, End
  <2>. QED BY <2>1, <2>2 DEF Init, TypeOK, End
<1>3. RingOK /\ CallOK
  BY <1>2 DEF Init, RingOK, CallOK, TypeOK
<1>. QED BY <1>2, <1>3 DEF Struct

(* The return of a call. *)
LEMMA ReturnTypes ==
  ASSUME TypeOK, NEW p \in Proc, Return(p)
  PROVE  /\ op' \in [Proc -> End \cup {"none"}]
         /\ want' \in [Proc -> 0..MaxLen] /\ already' \in [Proc -> 0..MaxLen]
         /\ running' \in Proc \cup {NONE} /\ budget' \in 0..RING_BUFFER_SIZE
<1>1. 0 \in 0..MaxLen /\ 0 \in 0..RING_BUFFER_SIZE
  BY PipeAssumption
<1>. QED BY <1>1 DEF Return, TypeOK

(* The count of a call that goes on. *)
LEMMA CountOn ==
  ASSUME TypeOK, NEW p \in Proc, already[p] < want[p],
         already' = [already EXCEPT ![p] = @ + 1]
  PROVE  already' \in [Proc -> 0..MaxLen]
<1>1. already[p] \in 0..MaxLen /\ want[p] \in 0..MaxLen /\ MaxLen \in Nat
  BY PipeAssumption DEF TypeOK
<1>2. already[p] + 1 \in 0..MaxLen
  BY <1>1
<1>. QED BY <1>2 DEF TypeOK

(* The steps of a task in its loop. *)
LEMMA ReadByteStruct ==
  ASSUME Struct, NEW p \in Proc, ReadByte(p)
  PROVE  Struct'
<1>. USE PipeAssumption
<1>1. CASE already[p] < want[p]
  <2>1. available_read > 0 /\ budget <= available_read /\ available_read \in 0..N
        /\ budget \in 0..N
    BY RingFacts DEF ReadByte, Struct, CallOK, TypeOK, N
  <2>2. read_byte
    BY <1>1 DEF ReadByte
  <2>3. /\ head' \in Index /\ status' \in {"EMPTY", "NORMAL"}
        /\ RingOK' /\ available_read' = available_read - 1
        /\ arr[head] \in Byte
    BY <2>1, <2>2, ReadOne DEF Struct, TypeOK
  <2>5. CASE already[p] + 1 = want[p]
    <3>1. CallOK'
      BY <1>1, <2>5, <2>1 DEF ReadByte, Return, CallOK
    <3>2. TypeOK'
      <4>1. Return(p)
        BY <1>1, <2>5 DEF ReadByte
      <4>2. /\ op' \in [Proc -> End \cup {"none"}]
            /\ want' \in [Proc -> 0..MaxLen] /\ already' \in [Proc -> 0..MaxLen]
            /\ running' \in Proc \cup {NONE} /\ budget' \in 0..RING_BUFFER_SIZE
        BY <4>1, ReturnTypes DEF Struct
      <4>3. UNCHANGED <<end_vars, eof>>
        BY DEF ReadByte
      <4>4. received' \in Seq(Byte) /\ sent' \in Seq(Byte)
        BY <2>2, <2>3 DEF read_byte, Struct, TypeOK
      <4>. QED BY Zenon, <2>2, <2>3, <4>2, <4>3, <4>4 DEF read_byte, Struct, TypeOK, end_vars
    <3>. QED BY <2>3, <3>1, <3>2 DEF Struct
  <2>6. CASE already[p] + 1 # want[p]
    <3>1. CallOK'
      BY <1>1, <2>6, <2>1, <2>3 DEF ReadByte, CallOK, N
    <3>2. already' \in [Proc -> 0..MaxLen] /\ budget' \in 0..RING_BUFFER_SIZE
      <4>1. already' = [already EXCEPT ![p] = @ + 1] /\ budget' = budget - 1 /\ budget > 0
        BY <1>1, <2>6 DEF ReadByte
      <4>2. already' \in [Proc -> 0..MaxLen]
        BY Zenon, <1>1, <4>1, CountOn DEF Struct
      <4>3. budget' \in 0..RING_BUFFER_SIZE
        BY <2>1, <4>1 DEF N
      <4>. QED BY <4>2, <4>3
    <3>3. TypeOK'
      BY <1>1, <2>2, <2>3, <2>6, <3>2
      DEF ReadByte, read_byte, Struct, TypeOK, end_vars
    <3>. QED BY <2>3, <3>1, <3>3 DEF Struct
  <2>. QED BY <2>5, <2>6
<1>2. CASE ~(already[p] < want[p])
  <2>1. RingOK'
    BY <1>2, RingSame DEF ReadByte, Struct
  <2>2. CallOK'
    BY <1>2 DEF ReadByte, Return, CallOK, Struct, TypeOK, end_vars
  <2>3. TypeOK'
    <3>1. Return(p)
      BY <1>2 DEF ReadByte
    <3>. QED BY <1>2, <3>1, ReturnTypes, Zenon DEF ReadByte, Struct, TypeOK, ring_vars, end_vars
  <2>. QED BY <2>1, <2>2, <2>3 DEF Struct
<1>. QED BY <1>1, <1>2

LEMMA WriteByteStruct ==
  ASSUME Struct, NEW p \in Proc, NEW b \in Byte, WriteByte(p, b)
  PROVE  Struct'
<1>. USE PipeAssumption
<1>1. CASE already[p] < want[p]
  <2>1. /\ available_write > 0 /\ budget <= available_write
        /\ available_write = N - available_read /\ N \in Nat
        /\ available_read \in 0..N /\ budget \in 0..N
    BY RingFacts DEF WriteByte, Struct, CallOK, TypeOK, N
  <2>2. write_byte(b)
    BY <1>1 DEF WriteByte
  <2>3. /\ arr' \in [Index -> Byte] /\ tail' \in Index
        /\ status' \in {"FULL", "NORMAL"}
        /\ RingOK' /\ available_read' = available_read + 1
    BY <2>1, <2>2, WriteOne DEF Struct
  <2>5. CASE already[p] + 1 = want[p]
    <3>1. CallOK'
      BY <1>1, <2>5, <2>1 DEF WriteByte, Return, CallOK
    <3>2. TypeOK'
      <4>1. Return(p)
        BY <1>1, <2>5 DEF WriteByte
      <4>2. /\ op' \in [Proc -> End \cup {"none"}]
            /\ want' \in [Proc -> 0..MaxLen] /\ already' \in [Proc -> 0..MaxLen]
            /\ running' \in Proc \cup {NONE} /\ budget' \in 0..RING_BUFFER_SIZE
        BY <4>1, ReturnTypes DEF Struct
      <4>3. UNCHANGED <<end_vars, eof>>
        BY DEF WriteByte
      <4>4. received' \in Seq(Byte) /\ sent' \in Seq(Byte)
        BY <2>2, <2>3 DEF write_byte, Struct, TypeOK
      <4>. QED BY Zenon, <2>2, <2>3, <4>2, <4>3, <4>4 DEF write_byte, Struct, TypeOK, end_vars
    <3>. QED BY <2>3, <3>1, <3>2 DEF Struct
  <2>6. CASE already[p] + 1 # want[p]
    <3>1. available_write' = available_write - 1
      <4>1. /\ head' \in 0..(N - 1) /\ tail' \in 0..(N - 1)
            /\ status' = "FULL" => head' = tail'
        BY <2>2, <2>3 DEF write_byte, Struct, TypeOK, Index, N
      <4>2. ASSUME status' = "FULL" PROVE available_read' = N
        <5>1. head' = tail' /\ head' \in Int /\ tail' \in Int /\ RING_BUFFER_SIZE \in Int
          BY <4>1, <4>2
        <5>2. available_read' = tail' + RING_BUFFER_SIZE - head'
          BY <4>2, <5>1 DEF available_read
        <5>3. tail' + RING_BUFFER_SIZE - head' = RING_BUFFER_SIZE
          <6>. \A h, n \in Int : h + n - h = n
            OBVIOUS
          <6>. QED BY Zenon, <5>1
        <5>. QED BY <5>2, <5>3 DEF N
      <4>. QED BY <2>1, <2>3, <4>2 DEF available_write, N
    <3>2. CallOK'
      BY <1>1, <2>6, <2>1, <3>1 DEF WriteByte, CallOK, N
    <3>3. already' \in [Proc -> 0..MaxLen] /\ budget' \in 0..RING_BUFFER_SIZE
      <4>1. already' = [already EXCEPT ![p] = @ + 1] /\ budget' = budget - 1 /\ budget > 0
        BY <1>1, <2>6 DEF WriteByte
      <4>2. already' \in [Proc -> 0..MaxLen]
        BY Zenon, <1>1, <4>1, CountOn DEF Struct
      <4>3. budget' \in 0..RING_BUFFER_SIZE
        BY <2>1, <4>1 DEF N
      <4>. QED BY <4>2, <4>3
    <3>4. TypeOK'
      <4>1. UNCHANGED <<end_vars, eof, op, want, running>>
        BY <1>1, <2>6, Zenon DEF WriteByte
      <4>2. received' \in Seq(Byte) /\ sent' \in Seq(Byte)
        BY <2>2, <2>3 DEF write_byte, Struct, TypeOK
      <4>. QED BY Zenon, <2>2, <2>3, <3>3, <4>1, <4>2
               DEF write_byte, Struct, TypeOK, end_vars
    <3>. QED BY <2>3, <3>2, <3>4 DEF Struct
  <2>. QED BY <2>5, <2>6
<1>2. CASE ~(already[p] < want[p])
  <2>1. RingOK'
    BY <1>2, RingSame DEF WriteByte, Struct
  <2>2. CallOK'
    BY <1>2 DEF WriteByte, Return, CallOK, Struct, TypeOK, end_vars
  <2>3. TypeOK'
    <3>1. Return(p)
      BY <1>2 DEF WriteByte
    <3>. QED BY <1>2, <3>1, ReturnTypes, Zenon DEF WriteByte, Struct, TypeOK, ring_vars, end_vars
  <2>. QED BY <2>1, <2>2, <2>3 DEF Struct
<1>. QED BY <1>1, <1>2

LEMMA StructStep ==
  ASSUME Struct, [Next]_vars
  PROVE  Struct'
<1>. USE PipeAssumption
<1>1. ASSUME NEW p \in Proc, NEW e \in End, NEW len \in 0..MaxLen, Call(p, e, len)
      PROVE  Struct'
  <2>1. RingOK'
    BY <1>1, RingSame DEF Call, Struct
  <2>2. TypeOK'
    BY <1>1 DEF Call, Struct, TypeOK, ring_vars, end_vars, hist_vars
  <2>3. CallOK'
    <3>1. available_read \in 0..N /\ available_write \in 0..N /\ N \in Nat
      BY RingFacts DEF Struct
    <3>. QED BY <1>1, <3>1, RingSame DEF Call, CallOK, N
  <2>. QED BY <2>1, <2>2, <2>3, Zenon DEF Struct
<1>2. ASSUME NEW p \in Proc, Resume(p)
      PROVE  Struct'
  <2>1. RingOK'
    BY <1>2, RingSame DEF Resume, Struct, end_vars, call_vars
  <2>2. TypeOK'
    BY <1>2 DEF Resume, Struct, TypeOK, ring_vars, end_vars, call_vars, hist_vars
  <2>3. CallOK'
    <3>1. available_read \in 0..N /\ available_write \in 0..N /\ N \in Nat
      BY RingFacts DEF Struct
    <3>2. budget' = 0
      BY <1>2 DEF Resume, Struct, CallOK
    <3>. QED BY <1>2, <3>1, <3>2, RingSame DEF Resume, CallOK
  <2>. QED BY <2>1, <2>2, <2>3 DEF Struct
<1>3. ASSUME NEW p \in Proc, ReadTop(p)
      PROVE  Struct'
  <2>1. RingOK'
    BY <1>3, RingSame DEF ReadTop, Struct
  <2>3. available_read \in 0..N /\ available_read' = available_read
    BY <1>3, RingFacts, RingSame DEF ReadTop, Struct
  <2>4. TypeOK'
    <3>1. CASE Return(p) /\ eof' = (eof \/ already[p] < want[p])
      BY <1>3, <3>1, ReturnTypes, Zenon
      DEF ReadTop, Struct, TypeOK, ring_vars, end_vars
    <3>2. CASE Suspend /\ UNCHANGED eof
      BY <1>3, <3>2 DEF ReadTop, Suspend, Struct, TypeOK, ring_vars, end_vars, call_vars
    <3>3. CASE budget' = available_read /\ UNCHANGED <<call_vars, running, eof>>
      BY <1>3, <2>3, <3>3
      DEF ReadTop, Struct, TypeOK, ring_vars, end_vars, call_vars, N
    <3>. QED BY <1>3, <3>1, <3>2, <3>3 DEF ReadTop
  <2>5. CallOK'
    <3>1. CASE running' = NONE /\ budget' = 0
      BY <3>1 DEF CallOK
    <3>2. CASE budget' = available_read /\ UNCHANGED <<call_vars, running>>
      BY <1>3, <2>3, <3>2 DEF ReadTop, CallOK, call_vars, N
    <3>. QED BY <1>3, <3>1, <3>2 DEF ReadTop, Return, Suspend
  <2>. QED BY <2>1, <2>4, <2>5 DEF Struct
<1>4. ASSUME NEW p \in Proc, ReadByte(p)
      PROVE  Struct'
  BY <1>4, ReadByteStruct
<1>5. ASSUME NEW p \in Proc, WriteTop(p)
      PROVE  Struct'
  <2>1. RingOK'
    BY <1>5, RingSame DEF WriteTop, Struct
  <2>3. available_write \in 0..N /\ available_write' = available_write
    BY <1>5, RingFacts, RingSame DEF WriteTop, Struct
  <2>4. TypeOK'
    BY <1>5, <2>3
    DEF WriteTop, Suspend, Struct, TypeOK, ring_vars, end_vars, call_vars, hist_vars, N
  <2>5. CallOK'
    <3>1. CASE running' = NONE /\ budget' = 0
      BY <3>1 DEF CallOK
    <3>2. CASE budget' = available_write /\ UNCHANGED <<call_vars, running>>
      BY <1>5, <2>3, <3>2 DEF WriteTop, CallOK, call_vars, N
    <3>. QED BY <1>5, <3>1, <3>2 DEF WriteTop, Suspend
  <2>. QED BY <2>1, <2>4, <2>5 DEF Struct
<1>6. ASSUME NEW p \in Proc, NEW b \in Byte, WriteByte(p, b)
      PROVE  Struct'
  BY <1>6, WriteByteStruct
<1>7. ASSUME UNCHANGED <<ring_vars, call_vars, running, budget, hist_vars>>,
             fds' \in [Proc -> [End -> 0..MaxFd]], born' \in SUBSET Proc
      PROVE  Struct'
  <2>1. RingOK' /\ CallOK'
    BY <1>7, RingSame DEF Struct, CallOK, call_vars
  <2>2. TypeOK'
    BY <1>7 DEF Struct, TypeOK, ring_vars, call_vars, hist_vars
  <2>. QED BY <1>7, <2>1, <2>2 DEF Struct
<1>8. ASSUME NEW p \in Proc, NEW e \in End, NEW n \in 0..MaxFd, p \in born,
             fds' = [fds EXCEPT ![p][e] = n], born' = born, op' = op
      PROVE  fds' \in [Proc -> [End -> 0..MaxFd]] /\ born' \in SUBSET Proc
  BY <1>8, Zenon DEF Struct, TypeOK
<1>9. ASSUME NEW p \in Proc, NEW e \in End, sys_dup(p, e) \/ sys_close(p, e)
      PROVE  Struct'
  <2>1. fds[p][e] \in 0..MaxFd
    BY DEF Struct, TypeOK
  <2>2. CASE sys_dup(p, e)
    <3>1. fds[p][e] + 1 \in 0..MaxFd
      BY <2>1, <2>2 DEF sys_dup
    <3>. QED BY Zenon, <1>7, <1>8, <2>2, <3>1 DEF sys_dup, call_vars
  <2>3. CASE sys_close(p, e)
    <3>1. fds[p][e] - 1 \in 0..MaxFd
      BY <2>1, <2>3 DEF sys_close
    <3>. QED BY Zenon, <1>7, <1>8, <2>3, <3>1 DEF sys_close, call_vars
  <2>. QED BY <1>9, <2>2, <2>3
<1>10. ASSUME NEW p \in Proc, NEW q \in Proc, Fork(p, q)
       PROVE  Struct'
  <2>1. fds' \in [Proc -> [End -> 0..MaxFd]] /\ born' \in SUBSET Proc
    BY <1>10 DEF Fork, Struct, TypeOK
  <2>. QED BY <1>7, <1>10, <2>1 DEF Fork
<1>11. ASSUME NEW p \in Proc, Exit(p)
       PROVE  Struct'
  <2>1. [e \in End |-> 0] \in [End -> 0..MaxFd]
    OBVIOUS
  <2>2. fds' \in [Proc -> [End -> 0..MaxFd]] /\ born' \in SUBSET Proc
    BY <1>11, <2>1 DEF Exit, Struct, TypeOK
  <2>. QED BY <1>7, <1>11, <2>2 DEF Exit
<1>12. CASE UNCHANGED vars
  <2>1. fds' \in [Proc -> [End -> 0..MaxFd]] /\ born' \in SUBSET Proc
    BY <1>12 DEF vars, end_vars, call_vars, Struct, TypeOK
  <2>. QED BY <1>7, <1>12, <2>1 DEF vars
<1>. QED BY <1>1, <1>2, <1>3, <1>4, <1>5, <1>6, <1>9, <1>10, <1>11, <1>12
         DEF Next, KernelStep

------------------------------------------------------------------------------
(* The bytes and the end of the pipe *)

(* What a step can be to the two ends: one that moves no byte, a byte read  *)
(* from a ring that has one, a byte written to a ring with room for it.     *)
Quiet ==
  /\ UNCHANGED <<ring_vars, sent, received>>
  /\ all_write_ends_closed => all_write_ends_closed'
  /\ eof' => eof \/ (available_read = 0 /\ all_write_ends_closed)

Taken ==
  /\ available_read > 0
  /\ read_byte
  /\ all_write_ends_closed' <=> all_write_ends_closed
  /\ eof' = eof

Put ==
  /\ available_write > 0
  /\ \E b \in Byte : write_byte(b)
  /\ ~all_write_ends_closed
  /\ eof' = eof

LEMMA StepKinds ==
  ASSUME Struct, [Next]_vars
  PROVE  Quiet \/ Taken \/ Put
<1>. USE PipeAssumption
<1>1. ASSUME NEW p \in Proc, op[p] = "read", Return(p), UNCHANGED end_vars
      PROVE  all_write_ends_closed' <=> all_write_ends_closed
  BY <1>1 DEF Return, end_vars, all_write_ends_closed, Struct, TypeOK
<1>2. ASSUME UNCHANGED <<fds, op>>
      PROVE  all_write_ends_closed' <=> all_write_ends_closed
  BY <1>2 DEF all_write_ends_closed
<1>3. ASSUME NEW p \in Proc, NEW e \in End, NEW len \in 0..MaxLen, Call(p, e, len)
      PROVE  Quiet
  <2>1. all_write_ends_closed => all_write_ends_closed'
    BY <1>3 DEF Call, end_vars, all_write_ends_closed, Struct, TypeOK, End
  <2>. QED BY <1>3, <2>1 DEF Call, Quiet, hist_vars
<1>4. ASSUME NEW p \in Proc, Resume(p)
      PROVE  Quiet
  BY <1>2, <1>4 DEF Resume, Quiet, end_vars, call_vars, hist_vars
<1>5. ASSUME NEW p \in Proc, ReadTop(p)
      PROVE  Quiet
  <2>1. CASE available_read = 0 /\ all_write_ends_closed
    BY <1>1, <1>5, <2>1 DEF ReadTop, Quiet
  <2>2. CASE ~(available_read = 0 /\ all_write_ends_closed)
    BY <1>2, <1>5, <2>2 DEF ReadTop, Suspend, Quiet, end_vars, call_vars
  <2>. QED BY <2>1, <2>2
<1>6. ASSUME NEW p \in Proc, ReadByte(p)
      PROVE  Quiet \/ Taken
  <2>1. all_write_ends_closed' <=> all_write_ends_closed
    <3>1. CASE Return(p)
      BY <1>1, <1>6, <3>1 DEF ReadByte
    <3>2. CASE ~Return(p)
      BY <1>2, <1>6, <3>2 DEF ReadByte, end_vars
    <3>. QED BY <3>1, <3>2
  <2>2. CASE already[p] < want[p]
    <3>1. available_read > 0
      BY <1>6, RingFacts DEF ReadByte, Struct, CallOK, TypeOK, N
    <3>. QED BY <1>6, <2>1, <2>2, <3>1 DEF ReadByte, Taken
  <2>3. CASE ~(already[p] < want[p])
    BY <1>6, <2>1, <2>3 DEF ReadByte, Quiet
  <2>. QED BY <2>2, <2>3
<1>7. ASSUME NEW p \in Proc, WriteTop(p)
      PROVE  Quiet
  BY <1>2, <1>7 DEF WriteTop, Suspend, Quiet, end_vars, call_vars, hist_vars
<1>8. ASSUME NEW p \in Proc, NEW b \in Byte, WriteByte(p, b)
      PROVE  Quiet \/ Put
  <2>1. ~all_write_ends_closed
    BY <1>8 DEF WriteByte, all_write_ends_closed
  <2>2. CASE already[p] < want[p]
    <3>1. available_write > 0
      BY <1>8, RingFacts DEF WriteByte, Struct, CallOK, TypeOK, N
    <3>. QED BY <1>8, <2>1, <2>2, <3>1, Zenon DEF WriteByte, Put
  <2>3. CASE ~(already[p] < want[p])
    BY <1>8, <2>1, <2>3 DEF WriteByte, Quiet
  <2>. QED BY <2>2, <2>3
<1>9. ASSUME NEW p \in Proc, NEW e \in End, sys_dup(p, e) \/ sys_close(p, e)
      PROVE  Quiet
  <2>1. fds[p][e] \in 0..MaxFd
    BY DEF Struct, TypeOK
  <2>2. all_write_ends_closed => all_write_ends_closed'
    <3>. SUFFICES ASSUME all_write_ends_closed, NEW r \in Proc
                  PROVE  fds'[r]["write"] = 0 /\ op'[r] # "write"
      BY DEF all_write_ends_closed
    <3>1. e # "write"
      BY <1>9, <2>1 DEF sys_dup, sys_close, all_write_ends_closed
    <3>2. PICK n : fds' = [fds EXCEPT ![p][e] = n]
      BY <1>9 DEF sys_dup, sys_close
    <3>3. fds'[r]["write"] = fds[r]["write"]
      BY <3>1, <3>2 DEF Struct, TypeOK, End
    <3>. QED BY <1>9, <3>3 DEF sys_dup, sys_close, call_vars, all_write_ends_closed
  <2>. QED BY <1>9, <2>2 DEF sys_dup, sys_close, Quiet, hist_vars
<1>10. ASSUME NEW p \in Proc, NEW q \in Proc, Fork(p, q)
       PROVE  Quiet
  <2>1. all_write_ends_closed => all_write_ends_closed'
    BY <1>10 DEF Fork, all_write_ends_closed, call_vars, Struct, TypeOK
  <2>. QED BY <1>10, <2>1 DEF Fork, Quiet, hist_vars
<1>11. ASSUME NEW p \in Proc, Exit(p)
       PROVE  Quiet
  <2>1. all_write_ends_closed => all_write_ends_closed'
    BY <1>11 DEF Exit, all_write_ends_closed, call_vars, Struct, TypeOK, End
  <2>. QED BY <1>11, <2>1 DEF Exit, Quiet, hist_vars
<1>12. CASE UNCHANGED vars
  BY <1>2, <1>12 DEF vars, end_vars, call_vars, hist_vars, Quiet
<1>. QED BY <1>3, <1>4, <1>5, <1>6, <1>7, <1>8, <1>9, <1>10, <1>11, <1>12
         DEF Next, KernelStep

LEMMA InvStep ==
  ASSUME IInv, [Next]_vars
  PROVE  IInv'
<1>1. Struct /\ Struct'
  BY StructStep, Zenon DEF IInv, Struct
<1>2. /\ received \in Seq(Byte) /\ sent \in Seq(Byte)
      /\ Content \in Seq(Byte) /\ Len(Content) = available_read
      /\ received \o Content = sent
      /\ available_read \in Nat
  BY <1>1, RingFacts DEF Struct, TypeOK, IInv, ByteStream
<1>3. received = sent => available_read = 0
  <2>1. Len(sent) = Len(received) + available_read /\ Len(received) \in Nat
    BY Zenon, <1>2, ConcatProperties, LenProperties
  <2>2. \A m, n \in Nat : m = m + n => n = 0
    OBVIOUS
  <2>. QED BY <1>2, <2>1, <2>2
<1>4. available_read = 0 => received = sent
  <2>. SUFFICES ASSUME available_read = 0 PROVE received = sent
    OBVIOUS
  <2>1. Content = <<>>
    BY <1>2, EmptySeq
  <2>. QED BY <1>2, <2>1
<1>5. CASE Quiet
  <2>1. ByteStream'
    BY <1>2, <1>5, RingSame DEF Quiet, ByteStream
  <2>2. EofIsFinal'
    BY <1>4, <1>5 DEF Quiet, EofIsFinal, IInv
  <2>. QED BY <1>1, <2>1, <2>2 DEF Struct, IInv
<1>6. CASE Taken
  <2>1. /\ Content # <<>> /\ Content' = Tail(Content)
        /\ received' = Append(received, Head(Content)) /\ sent' = sent
    BY <1>1, <1>6, ReadOne DEF Taken, Struct, read_byte
  <2>2. Append(received, Head(Content)) \o Tail(Content) = received \o Content
    BY <1>2, <2>1, MoveHead, Zenon
  <2>3. ByteStream'
    BY <1>2, <2>1, <2>2 DEF ByteStream
  <2>4. EofIsFinal'
    BY <1>2, <1>3, <1>6 DEF Taken, EofIsFinal, IInv
  <2>. QED BY <1>1, <2>3, <2>4 DEF Struct, IInv
<1>7. CASE Put
  <2>1. PICK b \in Byte : write_byte(b)
    BY <1>7 DEF Put
  <2>2. /\ Content' = Append(Content, b)
        /\ received' = received /\ sent' = Append(sent, b)
    BY Zenon, <1>1, <1>7, <2>1, WriteOne DEF Put, Struct, write_byte
  <2>3. received \o Append(Content, b) = Append(received \o Content, b)
    BY <1>2, PushLast
  <2>4. ByteStream'
    BY <1>2, <2>2, <2>3 DEF ByteStream
  <2>5. EofIsFinal'
    BY <1>7 DEF Put, EofIsFinal, IInv
  <2>. QED BY <1>1, <2>4, <2>5 DEF Struct, IInv
<1>. QED BY <1>1, <1>5, <1>6, <1>7, StepKinds

LEMMA InvInit == Init => IInv
<1>. SUFFICES ASSUME Init PROVE IInv
  OBVIOUS
<1>1. Struct
  BY StructInit
<1>2. available_read = 0
  BY DEF Init, available_read
<1>3. Content \in Seq(Byte) /\ Len(Content) = 0
  BY <1>1, <1>2, RingFacts DEF Struct
<1>4. Content = <<>>
  BY <1>3, EmptySeq
<1>5. ByteStream /\ EofIsFinal
  BY <1>4 DEF Init, ByteStream, EofIsFinal
<1>. QED BY <1>1, <1>5 DEF Struct, IInv

LEMMA Invariant == Spec => []IInv
BY InvInit, InvStep, PTL DEF Spec

(* The variables keep their types: the indices stay inside the ring.       *)
THEOREM PipeTypeCorrect == Spec => []TypeOK
<1>1. IInv => TypeOK
  BY DEF IInv
<1>. QED BY <1>1, Invariant, PTL

(* What was read and then what is in the ring is what was written, for     *)
(* every ring size and however reads, writes, forks and closes interleave. *)
THEOREM PipeKeepsStream == Spec => []ByteStream
<1>1. IInv => ByteStream
  BY DEF IInv
<1>. QED BY <1>1, Invariant, PTL

(* After a short read nothing is ever written, and nothing was left.       *)
THEOREM ShortReadIsEof == Spec => []EofIsFinal
<1>1. IInv => EofIsFinal
  BY DEF IInv
<1>. QED BY <1>1, Invariant, PTL

------------------------------------------------------------------------------
(* The refinement *)

LEMMA ChannelInit == Init => Channel!Init
<1>. SUFFICES ASSUME Init PROVE Channel!Init
  OBVIOUS
<1>1. IInv /\ available_read = 0
  BY InvInit, Zenon DEF Init, available_read
<1>2. Content \in Seq(Byte) /\ Len(Content) = 0
  BY <1>1, RingFacts, Zenon DEF IInv
<1>3. Content = <<>>
  BY <1>2, EmptySeq
<1>4. ~all_write_ends_closed
  <2>1. Creator \in Proc /\ fds[Creator]["write"] = 1
    BY PipeAssumption DEF Init, End
  <2>. QED BY <2>1 DEF all_write_ends_closed
<1>. QED BY <1>3, <1>4 DEF Channel!Init

LEMMA ChannelStep ==
  ASSUME IInv, [Next]_vars
  PROVE  [Channel!Next]_<<Content, ~all_write_ends_closed>>
<1>1. Struct
  BY DEF IInv, Struct
<1>2. all_write_ends_closed \in BOOLEAN /\ all_write_ends_closed' \in BOOLEAN
  BY DEF all_write_ends_closed
<1>3. CASE Quiet
  <2>1. Content' = Content
    BY <1>3, RingSame DEF Quiet
  <2>2. CASE all_write_ends_closed' = all_write_ends_closed
    BY <2>1, <2>2
  <2>3. CASE all_write_ends_closed' # all_write_ends_closed
    <3>1. ~all_write_ends_closed /\ all_write_ends_closed'
      BY <1>2, <1>3, <2>3 DEF Quiet
    <3>. QED BY <2>1, <3>1 DEF Channel!Next, Channel!Close
  <2>. QED BY <2>2, <2>3
<1>4. CASE Taken
  <2>1. Content # <<>> /\ Content' = Tail(Content)
    BY <1>1, <1>4, ReadOne DEF Taken, Struct
  <2>2. all_write_ends_closed' = all_write_ends_closed
    BY <1>2, <1>4 DEF Taken
  <2>. QED BY <2>1, <2>2 DEF Channel!Next, Channel!Receive
<1>5. CASE Put
  <2>1. PICK b \in Byte : write_byte(b)
    BY <1>5 DEF Put
  <2>2. available_read < N /\ Content' = Append(Content, b)
    BY <1>1, <1>5, <2>1, WriteOne DEF Put, Struct
  <2>3. Len(Content) < RING_BUFFER_SIZE
    BY <1>1, <2>2, RingFacts DEF Struct, N
  <2>4. ~all_write_ends_closed /\ (~all_write_ends_closed)' \in BOOLEAN
    BY <1>5 DEF Put
  <2>5. Channel!Send(b)
    BY <2>2, <2>3, <2>4 DEF Channel!Send
  <2>. QED BY <2>5 DEF Channel!Next
<1>. QED BY <1>1, <1>3, <1>4, <1>5, StepKinds

(* The ring, its two loops and the reference counts of its ends implement  *)
(* a FIFO channel of RING_BUFFER_SIZE bytes that closes once.              *)
THEOREM PipeImplementsChannel == Spec => ImplementsChannel
BY ChannelInit, ChannelStep, Invariant, PTL
DEF Spec, ImplementsChannel, Channel!Spec
==============================================================================
