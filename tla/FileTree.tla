------------------------------- MODULE FileTree -------------------------------
(* What easy-fs promises its users: a tree of files and directories, without  *)
(* blocks, bitmaps or indices. A file is a sequence of values, a directory a  *)
(* set of entries; an inode number is never given out twice.                  *)
EXTENDS Naturals, Sequences, FiniteSets

CONSTANTS
  MaxInode,   \* inodes are numbered 0..MaxInode; 0 is the root directory
  Name,       \* the names of entries, other than "." and ".."
  Value,      \* what a file holds, position by position
  LinkMod,    \* links are counted modulo LinkMod
  Zero,       \* what a position holds that was skipped when the file grew
  MaxSize     \* bound: the length of a file

VARIABLE tree

Ino == 0..MaxInode
Free == [kind |-> "free", nlink |-> 0, data |-> {}]
NewFile == [kind |-> "file", nlink |-> 1, data |-> <<>>]
NewDir(self, parent) ==
  [kind |-> "dir", nlink |-> 1, data |-> {<<".", self>>, <<"..", parent>>}]

Init == tree = [i \in Ino |-> IF i = 0 THEN NewDir(0, 0) ELSE Free]

Dirs(tr) == {i \in Ino : tr[i].kind = "dir"}
Files(tr) == {i \in Ino : tr[i].kind = "file"}
Taken(tr) == Dirs(tr) \cup Files(tr)
(* The inode that dir has under name n, as a set of at most one. *)
Lookup(tr, dir, n) == {e[2] : e \in {x \in tr[dir].data : x[1] = n}}
NextIno(tr) == CHOOSE i \in Ino \ Taken(tr) : \A j \in Ino \ Taken(tr) : i <= j

Created(tr, dir, n, kind) ==
  LET new == NextIno(tr) IN
  [tr EXCEPT ![dir].data = @ \cup {<<n, new>>},
             ![new] = IF kind = "dir" THEN NewDir(new, dir) ELSE NewFile]
Linked(tr, dir, n, src) ==
  [[tr EXCEPT ![dir].data = @ \cup {<<n, src>>}] EXCEPT ![src].nlink = (@ + 1) % LinkMod]
Emptied(tr, i) ==
  [tr EXCEPT ![i].data = IF tr[i].kind = "dir" THEN {} ELSE <<>>]
Unlinked(tr, dir, n) ==
  LET i == CHOOSE j \in Lookup(tr, dir, n) : TRUE
      tr1 == [[tr EXCEPT ![dir].data = {e \in @ : e[1] # n}]
                EXCEPT ![i].nlink = (@ + LinkMod - 1) % LinkMod]
  IN IF tr1[i].nlink = 0 THEN Emptied(tr1, i) ELSE tr1
(* The values of s replace the ones from position off on; a gap reads Zero.   *)
Written(tr, i, off, s) ==
  LET old == tr[i].data
      len == IF off + Len(s) > Len(old) THEN off + Len(s) ELSE Len(old)
  IN [tr EXCEPT ![i].data = [k \in 1..len |->
        IF k > off /\ k <= off + Len(s) THEN s[k - off]
        ELSE IF k <= Len(old) THEN old[k] ELSE Zero]]

Create(dir, n, kind) ==
  /\ Lookup(tree, dir, n) = {} /\ Ino \ Taken(tree) # {}
  /\ tree' = Created(tree, dir, n, kind)
Link(dir, n, src) ==
  Lookup(tree, dir, n) = {} /\ tree' = Linked(tree, dir, n, src)
Unlink(dir, n) ==
  Lookup(tree, dir, n) # {} /\ tree' = Unlinked(tree, dir, n)
Write(i, off, s) == off + Len(s) <= MaxSize /\ tree' = Written(tree, i, off, s)
Clear(i) == tree' = Emptied(tree, i)

Next ==
  \/ \E dir \in Dirs(tree), n \in Name \cup {".", ".."} :
       \/ \E kind \in {"file", "dir"} : Create(dir, n, kind)
       \/ \E src \in Taken(tree) : Link(dir, n, src)
       \/ Unlink(dir, n)
  \/ \E i \in Files(tree), off \in 0..MaxSize, len \in 1..2 :
       \E s \in [1..len -> Value] : Write(i, off, s)
  \/ \E i \in Taken(tree) : Clear(i)

Spec == Init /\ [][Next]_tree
===============================================================================
