-------------------------------- MODULE EasyFs --------------------------------
(* easy-fs on its block device: bitmaps, inodes with direct, indirect and     *)
(* doubly indirect blocks, directories, and the operations of vfs::Inode.     *)
(* Each holds the lock of the file system from start to end, so each is one   *)
(* step. Contents are as the block cache shows them (BlockIo is about when    *)
(* they reach the device). A size counts directory entries; a data block has  *)
(* BLOCK_SZ of them, an index block INODE_INDIRECT1_COUNT block numbers.      *)
EXTENDS Naturals, Sequences, FiniteSets, Functions

CONSTANTS
  INODE_DIRECT_COUNT, INODE_INDIRECT1_COUNT, BLOCK_SZ,
  MaxInode,      \* the inode bitmap has MaxInode + 1 bits
  DataBlocks,    \* the blocks of the data area
  BitmapBits,    \* the bits of the data bitmap: at least DataBlocks
  Name, Value, Zero,
  LinkMod,       \* nlink is a number modulo LinkMod (u32 in the code)
  Extents,       \* bound: where files are written, as pairs of offset and length
  MaxOps         \* bound: how many operations are done

ASSUME EasyFsAssumption ==
  /\ INODE_DIRECT_COUNT \in Nat \ {0} /\ INODE_INDIRECT1_COUNT \in Nat \ {0}
  /\ BLOCK_SZ \in Nat \ {0} /\ MaxInode \in Nat /\ Extents \subseteq Nat \X Nat
  /\ DataBlocks \in Nat /\ BitmapBits \in Nat /\ BitmapBits >= DataBlocks
  /\ LinkMod \in Nat \ {0, 1} /\ MaxOps \in Nat

VARIABLES
  imap, dmap,  \* the bits set in the inode bitmap and in the data bitmap
  inode,       \* the inode area
  blk,         \* the data area, and what the bitmap reaches past its end
  panic,       \* "no", or why the kernel stopped
  lost,        \* the blocks that directories dropped as they shrank
  bare,        \* the inodes that an unlink of "." or ".." took for its target
  tree,        \* the tree that the same operations make of FileTree
  ops          \* how many operations were done

vars == <<imap, dmap, inode, blk, panic, lost, bare, tree, ops>>

Ino == 0..MaxInode
D == INODE_DIRECT_COUNT
K == INODE_INDIRECT1_COUNT
MaxSize == (D + K + K * K) * BLOCK_SZ
CeilDiv(a, b) == (a + b - 1) \div b
NoBlock == BitmapBits  \* stands for block number 0, the super block
Abstract == INSTANCE FileTree
-----------------------------------------------------------------------------
(* A file system under way: what the operations below change. *)
Fs == [imap |-> imap, dmap |-> dmap, inode |-> inode, blk |-> blk, panic |-> "no"]
Fail(f, why) == IF f.panic = "no" THEN [f EXCEPT !.panic = why] ELSE f

(* DiskInode::initialize *)
initialize(kind) ==
  [kind |-> kind, size |-> 0, nlink |-> 1, direct |-> [i \in 0..(D-1) |-> NoBlock],
   indirect1 |-> NoBlock, indirect2 |-> NoBlock]

(* Mutant: every data block of an inner index block is taken for its first. *)
get_block_id_mod(b, n, i) ==
  LET last == i - (D + K) IN
  IF i < D THEN n.direct[i]
  ELSE IF i < D + K THEN b[n.indirect1][i - D]
  ELSE b[b[n.indirect2][last \div K]][0]
(* The block that holds data block i of inode n. *)
get_block_id(b, n, i) ==
  LET last == i - (D + K) IN
  IF i < D THEN n.direct[i]
  ELSE IF i < D + K THEN b[n.indirect1][i - D]
  ELSE b[b[n.indirect2][last \div K]][last % K]

data_blocks(size) == CeilDiv(size, BLOCK_SZ)
total_blocks(size) ==
  LET n == data_blocks(size) IN
  n + (IF n > D THEN 1 ELSE 0)
    + (IF n > D + K THEN 1 + CeilDiv(n - (D + K), K) ELSE 0)

(* Bitmap::alloc, n times: the lowest clear bits in ascending order. *)
LowestClear(map, bits, n) ==
  LET clear == (0..(bits - 1)) \ map
  IN [k \in 1..n |-> CHOOSE x \in clear : Cardinality({y \in clear : y < x}) = k - 1]

(* DiskInode::increase_size takes the blocks of `ids` in order: data block i  *)
(* is put in its place after the index blocks that begin with it. st.k is the *)
(* position in ids.                                                           *)
PlaceBlock(st, i, ids) ==
  LET last == i - (D + K)
      one  == CASE i = D     -> [st EXCEPT !.n.indirect1 = ids[st.k], !.k = @ + 1]
                [] i = D + K -> [st EXCEPT !.n.indirect2 = ids[st.k], !.k = @ + 1]
                [] OTHER     -> st
      two  == IF i >= D + K /\ last % K = 0
              THEN [one EXCEPT !.blk[one.n.indirect2][last \div K] = ids[one.k],
                               !.k = @ + 1]
              ELSE one
      put  == [two EXCEPT !.k = @ + 1]
  IN IF i < D THEN [put EXCEPT !.n.direct[i] = ids[two.k]]
     ELSE IF i < D + K THEN [put EXCEPT !.blk[two.n.indirect1][i - D] = ids[two.k]]
     ELSE [put EXCEPT !.blk[two.blk[two.n.indirect2][last \div K]][last % K] = ids[two.k]]

(* Inode::increase_size: the blocks needed are allocated one by one (unwrap   *)
(* stops the kernel when no bit is clear; a bit past the data area names a    *)
(* block the device does not have), then put in place.                        *)
increase_size(f, i, size) ==
  LET n     == f.inode[i]
      need  == total_blocks(size) - total_blocks(n.size)
      ids   == LowestClear(f.dmap, BitmapBits, need)
      from  == data_blocks(n.size)
      st[j \in from..data_blocks(size)] ==
        IF j = from THEN [n |-> [n EXCEPT !.size = size], blk |-> f.blk, k |-> 1]
                    ELSE PlaceBlock(st[j - 1], j - 1, ids)
      end   == st[data_blocks(size)]
  IN IF size <= n.size THEN f
     ELSE IF \/ BitmapBits - Cardinality(f.dmap) < need
             \/ \E x \in Range(ids) : x >= DataBlocks
     THEN Fail(f, "full")
     ELSE [f EXCEPT !.dmap = @ \cup Range(ids), !.inode[i] = end.n, !.blk = end.blk]

(* DiskInode::clear_size: the data blocks and the index blocks it gives back. *)
DataOf(b, n) == {get_block_id(b, n, i) : i \in 0..(data_blocks(n.size) - 1)}
IndexOf(b, n) ==
  LET c == data_blocks(n.size) IN
  (IF c > D THEN {n.indirect1} ELSE {}) \cup
  (IF c > D + K
   THEN {n.indirect2} \cup {b[n.indirect2][a] : a \in 0..(CeilDiv(c - (D + K), K) - 1)}
   ELSE {})
BlocksOf(b, n) == DataOf(b, n) \cup IndexOf(b, n)

(* Mutant: only the data blocks are given back. *)
clear_locked_data_only(f, i) ==
  LET gone == DataOf(f.blk, f.inode[i])
  IN [f EXCEPT !.dmap = @ \ gone, !.inode[i].size = 0,
               !.blk = [x \in DOMAIN @ |->
                          IF x \in gone THEN [j \in DOMAIN @[x] |-> Zero] ELSE @[x]]]
(* Inode::clear_locked, with its assertion and the one of Bitmap::dealloc;    *)
(* dealloc_data fills the block with zeros.                                   *)
clear_locked(f, i) ==
  LET n == f.inode[i]
      gone == BlocksOf(f.blk, n)
  IN IF Cardinality(gone) # total_blocks(n.size) \/ ~(gone \subseteq f.dmap)
     THEN Fail(f, "assert")
     ELSE [f EXCEPT !.dmap = @ \ gone,
                    !.inode[i] = [n EXCEPT !.size = 0,
                                   !.direct = [j \in 0..(D-1) |->
                                     IF j < data_blocks(n.size) THEN NoBlock ELSE @[j]],
                                   !.indirect1 = IF data_blocks(n.size) > D
                                                 THEN NoBlock ELSE @,
                                   !.indirect2 = IF data_blocks(n.size) > D + K
                                                 THEN NoBlock ELSE @],
                    !.blk = [x \in DOMAIN @ |->
                               IF x \in gone THEN [j \in DOMAIN @[x] |-> Zero] ELSE @[x]]]

(* DiskInode::read_at and write_at, position by position. *)
ReadSlot(f, i, p) == f.blk[get_block_id(f.blk, f.inode[i], p \div BLOCK_SZ)][p % BLOCK_SZ]
WriteSlot(f, i, p, v) ==
  [f EXCEPT !.blk[get_block_id(f.blk, f.inode[i], p \div BLOCK_SZ)][p % BLOCK_SZ] = v]
write_at(f, i, off, s) ==
  LET w[k \in 0..Len(s)] == IF k = 0 THEN f ELSE WriteSlot(w[k - 1], i, off + k - 1, s[k])
  IN IF f.panic = "no" THEN w[Len(s)] ELSE f
Contents(f, i) == [k \in 1..f.inode[i].size |-> ReadSlot(f, i, k - 1)]
-----------------------------------------------------------------------------
(* find_inode_id: the positions in directory i of entries with that name. *)
Entries(f, i, n) ==
  {p \in 0..(f.inode[i].size - 1) : ReadSlot(f, i, p)[1] = n}
MinOf(S) == CHOOSE p \in S : \A q \in S : p <= q

(* The new entry of create_inode and of link. *)
AddEntry(f, dir, n, i) ==
  LET size == f.inode[dir].size
  IN write_at(increase_size(f, dir, size + 1), dir, size, <<<<n, i>>>>)

(* DiskInode::initialize_dir *)
initialize_dir(f, self, parent) ==
  write_at(increase_size(f, self, 2), self, 0, <<<<".", self>>, <<"..", parent>>>>)

create_inode(f, dir, n, kind) ==
  LET new == MinOf(Ino \ f.imap)
      f1  == AddEntry([f EXCEPT !.imap = @ \cup {new}, !.inode[new] = initialize(kind)],
                      dir, n, new)
  IN IF Ino \subseteq f.imap THEN Fail(f, "full")
     ELSE IF kind = "dir" /\ f1.panic = "no" THEN initialize_dir(f1, new, dir) ELSE f1

(* Mutant: a new entry for the inode is not counted. *)
link_uncounted(f, dir, n, src) == AddEntry(f, dir, n, src)
link(f, dir, n, src) ==
  LET f1 == AddEntry(f, dir, n, src) IN [f1 EXCEPT !.inode[src].nlink = (@ + 1) % LinkMod]

(* The last entry takes the place of the removed one and only the size        *)
(* shrinks; the target is cleared when its last link goes. The count wraps    *)
(* around below 0, as it does in a release build.                             *)
unlink(f, dir, n) ==
  LET p    == MinOf(Entries(f, dir, n))
      i    == ReadSlot(f, dir, p)[2]
      last == f.inode[dir].size - 1
      f1   == [WriteSlot(f, dir, p, ReadSlot(f, dir, last)) EXCEPT !.inode[dir].size = last]
      f2   == [f1 EXCEPT !.inode[i].nlink = (@ + LinkMod - 1) % LinkMod]
  IN IF f2.inode[i].nlink = 0 THEN clear_locked(f2, i) ELSE f2

(* EasyFileSystem::create: all blocks are zero, inode 0 is the root. *)
Empty ==
  [imap |-> {0}, dmap |-> {}, panic |-> "no",
   inode |-> [i \in Ino |-> [initialize("dir") EXCEPT !.nlink = IF i = 0 THEN 1 ELSE 0]],
   blk |-> [x \in 0..BitmapBits |->
              [j \in 0..((IF K > BLOCK_SZ THEN K ELSE BLOCK_SZ) - 1) |-> Zero]]]
Become(f) ==
  /\ imap = f.imap /\ dmap = f.dmap /\ inode = f.inode /\ blk = f.blk
  /\ panic = f.panic
Init == Become(initialize_dir(Empty, 0, 0)) /\ lost = {} /\ bare = {} /\ ops = 0 /\ Abstract!Init
-----------------------------------------------------------------------------
(* The names that a caller can pass: create, link and unlink compare them     *)
(* with every entry of the directory, "." and ".." too.                       *)
AnyName == Name \cup {".", ".."}

(* One operation, with what FileTree says it does. A panic leaves everything  *)
(* as it was: nothing runs after it.                                          *)
Step(f, tr) ==
  /\ panic = "no" /\ ops < MaxOps /\ ops' = ops + 1
  /\ IF f.panic = "no"
     THEN /\ imap' = f.imap /\ dmap' = f.dmap /\ inode' = f.inode /\ blk' = f.blk
          /\ tree' = tr /\ UNCHANGED panic
     ELSE panic' = f.panic /\ UNCHANGED <<imap, dmap, inode, blk, tree>>

Dirs == {i \in imap : inode[i].kind = "dir"}
Files == {i \in imap : inode[i].kind = "file"}

Create(dir, n, kind) ==
  /\ Entries(Fs, dir, n) = {}
  /\ Step(create_inode(Fs, dir, n, kind), Abstract!Created(tree, dir, n, kind))
  /\ UNCHANGED <<lost, bare>>
Link(dir, n, src) ==
  /\ Entries(Fs, dir, n) = {}
  /\ Step(link(Fs, dir, n, src), Abstract!Linked(tree, dir, n, src))
  /\ UNCHANGED <<lost, bare>>
Unlink(dir, n) ==
  /\ Entries(Fs, dir, n) # {}
  /\ LET f == unlink(Fs, dir, n) IN
     /\ Step(f, Abstract!Unlinked(tree, dir, n))
     /\ lost' = lost \cup ((BlocksOf(blk, inode[dir]) \cap f.dmap)
                            \ BlocksOf(f.blk, f.inode[dir]))
  /\ bare' = bare \cup (IF n \in Name THEN {} ELSE Abstract!Lookup(tree, dir, n))
WriteAt(i, off, s) ==
  /\ off + Len(s) <= MaxSize
  /\ Step(write_at(increase_size(Fs, i, off + Len(s)), i, off, s),
          Abstract!Written(tree, i, off, s))
  /\ UNCHANGED <<lost, bare>>
Clear(i) == Step(clear_locked(Fs, i), Abstract!Emptied(tree, i)) /\ UNCHANGED <<lost, bare>>

Next ==
  \/ \E dir \in Dirs, n \in AnyName :
       \/ \E kind \in {"file", "dir"} : Create(dir, n, kind)
       \/ \E src \in imap : Link(dir, n, src)
       \/ Unlink(dir, n)
  \/ \E i \in Files, e \in Extents : \E s \in [1..e[2] -> Value] : WriteAt(i, e[1], s)
  \/ \E i \in imap : Clear(i)

Spec == Init /\ [][Next]_vars
-----------------------------------------------------------------------------
TypeOK ==
  /\ imap \subseteq Ino /\ dmap \subseteq 0..(BitmapBits - 1) /\ lost \subseteq dmap
  /\ panic \in {"no", "full", "assert"}
  /\ \A i \in imap : inode[i].kind \in {"file", "dir"} /\ inode[i].size \in 0..MaxSize

(* Every data block whose bit is set belongs to exactly one inode, in exactly *)
(* one of its places (increase_size and clear_size agree on the index         *)
(* blocks), or was dropped when a directory shrank; no block in use is clear  *)
(* in the bitmap. So the assertions of easy-fs hold: clear_size gives back as *)
(* many blocks as total_blocks counts, and Bitmap::dealloc finds each of      *)
(* their bits set.                                                            *)
BlocksConserved ==
  LET Of(i) == BlocksOf(blk, inode[i]) IN
  /\ TypeOK /\ panic # "assert"
  /\ dmap = lost \cup UNION {Of(i) : i \in imap}
  /\ \A i \in imap : /\ Cardinality(Of(i)) = total_blocks(inode[i].size)
                     /\ Of(i) \cap lost = {}
                     /\ \A j \in imap \ {i} : Of(i) \cap Of(j) = {}

(* Every entry names an allocated inode, and an inode has at least as many    *)
(* links as there are entries for it outside "." and "..", so none of them is *)
(* left when unlink clears it: unless a "." or ".." that names the inode was  *)
(* unlinked. "." and ".." are not counted when they are made, and unlink      *)
(* takes them like any other name, so unlink("a/.") clears a directory a that *)
(* its parent still lists, and the next unlink of a takes nlink below 0.      *)
LinksCounted ==
  LET EntriesOf(i) == {<<dir, p>> \in Dirs \X (0..MaxSize) :
                         /\ p < inode[dir].size
                         /\ ReadSlot(Fs, dir, p)[2] = i
                         /\ ReadSlot(Fs, dir, p)[1] \in Name}
  IN /\ \A i \in imap \ bare : inode[i].nlink >= Cardinality(EntriesOf(i))
     /\ \A dir \in Dirs, p \in 0..MaxSize :
          p < inode[dir].size => ReadSlot(Fs, dir, p)[2] \in imap

(* Read through its indices, the device is the tree of FileTree: each         *)
(* operation changes the files and directories it is meant to and no other,   *)
(* and what was skipped by a write reads zero.                                *)
TreeOf == [i \in Ino |->
  IF i \notin imap THEN [kind |-> "free", nlink |-> 0, data |-> {}]
  ELSE [kind |-> inode[i].kind, nlink |-> inode[i].nlink,
        data |-> IF inode[i].kind = "dir" THEN Range(Contents(Fs, i)) ELSE Contents(Fs, i)]]
ImplementsTree == tree = TreeOf
===============================================================================
