------------------------------ MODULE FileLayer ------------------------------
(* The kernel's file layer over easy-fs: the file descriptors of processes,   *)
(* the open files (OSInode) behind them, working directories, and the system  *)
(* calls that name files. Calls are one step each: one that starts while      *)
(* another waits for the disk does not get past the block cache (BlockIo).    *)
(* The files themselves are a FileTree, which EasyFs implements.              *)
(* Not here: stdio and pipes (Pipe), the write-back of mapped files           *)
(* (AddressSpace), and the copying of results to user memory.                 *)
EXTENDS Naturals, Sequences, FiniteSets, Functions

CONSTANTS
  Pid, FIRST,  \* process slots, and the process that is there at the start
  MaxInode, Name, Value, Zero, MaxSize, LinkMod,  \* see FileTree
  Path,        \* the paths that calls name: [abs : BOOLEAN, parts : Seq(names)]
  MaxFd,       \* bound: open descriptors of a process
  MaxOps       \* bound: how many calls are made

ASSUME FileLayerAssumption ==
  /\ FIRST \in Pid /\ MaxFd \in Nat /\ MaxOps \in Nat
  /\ \A path \in Path : path.abs \in BOOLEAN /\ path.parts # <<>>

VARIABLES
  tree,    \* the file system
  proc,    \* per process: whether it runs, its cwd and its fd_table
  open,    \* the open files: [ino, off, r, w] by number
  panic,   \* "no", or the assertion that stopped the kernel
  cut,     \* the open files whose inode was emptied, by unlink or O_TRUNC
  ops

vars == <<tree, proc, open, panic, cut, ops>>

Fs == INSTANCE FileTree

AT_FDCWD == 0
NoProc == [on |-> FALSE, cwd |-> 0, fds |-> <<>>]
Opens == 1..(MaxFd * Cardinality(Pid))
Flags == [access : {"r", "w", "rw"}, creat : BOOLEAN, trunc : BOOLEAN]
(* OpenFlags::read_write: only the empty set of flags is read only. *)
Readable(fl) == fl.access # "w"
Writable(fl) == fl.access # "r" \/ fl.creat \/ fl.trunc

Init ==
  /\ Fs!Init
  /\ proc = [p \in Pid |-> [NoProc EXCEPT !.on = p = FIRST]]
  /\ open = <<>> /\ panic = "no" /\ cut = {} /\ ops = 0
-----------------------------------------------------------------------------
(* Inode::find, as a set of at most one inode. *)
Find(tr, from, parts) ==
  LET f[k \in 0..Len(parts)] ==
        IF k = 0 THEN {from}
        ELSE UNION {Fs!Lookup(tr, i, parts[k]) : i \in {j \in f[k - 1] : tr[j].kind # "file"}}
  IN f[Len(parts)]
(* What stands before the last "/", or "." when there is none: a single name  *)
(* is looked for in the "." of the base.                                      *)
Parent(tr, from, path) ==
  IF ~path.abs /\ Len(path.parts) = 1 THEN Find(tr, from, <<".">>)
  ELSE Find(tr, from, SubSeq(path.parts, 1, Len(path.parts) - 1))
FileName(path) == path.parts[Len(path.parts)]

(* name_for_inode: up through ".." to the root, in each parent the name of an *)
(* entry with the child's number. Both lookups `expect` to find something,    *)
(* the second in a directory; ".." that go round in a circle have no end.     *)
Above(tr, i) == {d \in Fs!Lookup(tr, i, "..") : tr[d].kind = "dir"}
NamesIn(tr, i, dir) == {e[1] : e \in {x \in tr[dir].data : x[2] = i}}
HasName(tr, inode) ==
  LET f[k \in 0..MaxInode, i \in Fs!Ino] ==
        \/ i = 0
        \/ k > 0 /\ \E dir \in Above(tr, i) : NamesIn(tr, i, dir) # {} /\ f[k - 1, dir]
  IN f[MaxInode, inode]
(* Mutant: the names come out from the inside to the outside. *)
NameForInode_reversed(tr, inode) ==
  LET f[i \in Fs!Ino] ==
        IF i = 0 THEN <<>>
        ELSE LET dir == CHOOSE d \in Above(tr, i) : TRUE
             IN <<CHOOSE n \in NamesIn(tr, i, dir) : TRUE>> \o f[dir]
  IN f[inode]
NameForInode(tr, inode) ==
  LET f[i \in Fs!Ino] ==
        IF i = 0 THEN <<>>
        ELSE LET dir == CHOOSE d \in Above(tr, i) : TRUE
             IN Append(f[dir], CHOOSE n \in NamesIn(tr, i, dir) : TRUE)
  IN f[inode]

(* base_inode: where a path starts, or the error, or the panic. *)
Base(ino) == [st |-> "ok", ino |-> ino]
Bad(st) == [st |-> st, ino |-> 0]
IsOpen(p, fd) == fd \in DOMAIN proc[p].fds /\ proc[p].fds[fd] # 0
File(p, fd) == open[proc[p].fds[fd]]
BaseInode(p, fd, path, r, w) ==
  LET cwd == proc[p].cwd IN
  IF path.abs THEN Base(0)
  ELSE IF fd = AT_FDCWD
  THEN IF ~HasName(tree, cwd) THEN Bad("cwd has no name")
       ELSE IF \E i \in Find(tree, 0, NameForInode(tree, cwd)) : tree[i].kind = "dir"
            THEN Base(cwd) ELSE Bad("err")
  ELSE IF /\ IsOpen(p, fd) /\ tree[File(p, fd).ino].kind = "dir"
          /\ r => File(p, fd).r
          /\ w => File(p, fd).w
       THEN Base(File(p, fd).ino) ELSE Bad("err")

(* alloc_fd, and the new open file behind it. A file that no descriptor names *)
(* any more is dropped.                                                       *)
AllocFd(fds) ==
  IF \E fd \in DOMAIN fds : fds[fd] = 0
  THEN CHOOSE fd \in DOMAIN fds : fds[fd] = 0 /\ \A e \in 1..(fd - 1) : fds[e] # 0
  ELSE Len(fds) + 1
WithFd(fds, k) ==
  LET fd == AllocFd(fds)
  IN [x \in 1..(IF fd > Len(fds) THEN fd ELSE Len(fds)) |-> IF x = fd THEN k ELSE fds[x]]
FreshOpen(o) == CHOOSE k \in Opens \ DOMAIN o : \A j \in Opens \ DOMAIN o : k <= j
Add(o, k, f) == [x \in DOMAIN o \cup {k} |-> IF x = k THEN f ELSE o[x]]
Held(pr, o) == [k \in {x \in DOMAIN o : \E p \in Pid : x \in Range(pr[p].fds)} |-> o[k]]

Call(p) == panic = "no" /\ proc[p].on /\ ops < MaxOps /\ ops' = ops + 1
Fails(why) == panic' = why /\ UNCHANGED <<tree, proc, open, cut>>
Refused == UNCHANGED <<tree, proc, open, panic, cut>>
(* The error and panic outcomes of base_inode, or the rest of the call. *)
Stopped(b) == \/ b.st = "err" /\ Refused
              \/ b.st \notin {"ok", "err"} /\ Fails(b.st)
-----------------------------------------------------------------------------
Opened(p, ino, fl) ==
  LET k == FreshOpen(open)
      f == [ino |-> ino, off |-> 0, r |-> Readable(fl), w |-> Writable(fl)]
  IN /\ open' = Add(open, k, f)
     /\ proc' = [proc EXCEPT ![p].fds = WithFd(@, k)]
     /\ UNCHANGED panic
OpensOf(ino) == {k \in DOMAIN open : open[k].ino = ino}
OpenExisting(p, ino, fl) ==
  /\ tree' = IF fl.trunc THEN Fs!Emptied(tree, ino) ELSE tree
  /\ cut' = IF fl.trunc THEN cut \cup OpensOf(ino) ELSE cut
  /\ Opened(p, ino, fl)

(* open_file_at, with the assertion in Inode::create that its parent, which   *)
(* find returned, is a directory, and the unwrap of a full inode bitmap. With *)
(* O_CREATE the name is looked for in the parent, else along the whole path.  *)
OpenFileAt(p, base, path, fl) ==
  LET n      == FileName(path)
      parent == Parent(tree, base, path)
      found  == IF fl.creat THEN UNION {Find(tree, dir, <<n>>) : dir \in parent}
                ELSE Find(tree, base, path.parts)
  IN \/ \E i \in found : OpenExisting(p, i, fl)
     \/ found = {} /\ (fl.creat => parent = {}) /\ Refused
     \/ /\ found = {} /\ fl.creat
        /\ \E dir \in parent :
             \/ tree[dir].kind = "file" /\ Fails("is_dir")
             \/ tree[dir].kind = "dir" /\ Fs!Ino = Fs!Taken(tree) /\ Fails("full")
             \/ /\ tree[dir].kind = "dir" /\ Fs!Ino # Fs!Taken(tree)
                /\ tree' = Fs!Created(tree, dir, n, "file")
                /\ Opened(p, Fs!NextIno(tree), fl) /\ UNCHANGED cut
OpenAt(p, fd, path, fl) ==
  LET b == BaseInode(p, fd, path, Readable(fl), Writable(fl)) IN
  /\ Call(p) /\ AllocFd(proc[p].fds) <= MaxFd
  /\ \/ Stopped(b)
     \/ b.st = "ok" /\ OpenFileAt(p, b.ino, path, fl)

Close(p, fd) ==
  /\ Call(p) /\ IsOpen(p, fd)
  /\ proc' = [proc EXCEPT ![p].fds[fd] = 0]
  /\ open' = Held(proc', open) /\ cut' = cut \cap DOMAIN open'
  /\ UNCHANGED <<tree, panic>>

Dup(p, fd) ==
  /\ Call(p) /\ IsOpen(p, fd) /\ AllocFd(proc[p].fds) <= MaxFd
  /\ proc' = [proc EXCEPT ![p].fds = WithFd(@, @[fd])]
  /\ UNCHANGED <<tree, open, panic, cut>>

(* OSInode::read and write of one value. A directory reads as its entries; to *)
(* write to one fails an assertion of Inode::write_at.                        *)
Size(tr, i) == IF tr[i].kind = "dir" THEN Cardinality(tr[i].data) ELSE Len(tr[i].data)
(* Mutant: a read at the end of the file moves on. *)
Read_past_end(p, fd) ==
  /\ Call(p) /\ IsOpen(p, fd) /\ File(p, fd).r
  /\ File(p, fd).off <= Size(tree, File(p, fd).ino)
  /\ open' = [open EXCEPT ![proc[p].fds[fd]].off = @ + 1]
  /\ UNCHANGED <<tree, proc, panic, cut>>
Read(p, fd) ==
  LET f == File(p, fd) IN
  /\ Call(p) /\ IsOpen(p, fd) /\ f.r /\ f.off < Size(tree, f.ino)
  /\ open' = [open EXCEPT ![proc[p].fds[fd]].off = @ + 1]
  /\ UNCHANGED <<tree, proc, panic, cut>>
Write(p, fd, v) ==
  LET f == File(p, fd) IN
  /\ Call(p) /\ IsOpen(p, fd) /\ f.w /\ f.off < MaxSize
  /\ \/ tree[f.ino].kind = "dir" /\ Fails("is_file")
     \/ /\ tree[f.ino].kind = "file"
        /\ tree' = Fs!Written(tree, f.ino, f.off, <<v>>)
        /\ open' = [open EXCEPT ![proc[p].fds[fd]].off = @ + 1]
        /\ UNCHANGED <<proc, panic, cut>>

(* sys_mkdirat: every missing directory of the path, stopping at a file; the  *)
(* unwrap of a full inode bitmap stops the kernel.                            *)
Made(tr, from, parts) ==
  LET f[k \in 0..Len(parts)] ==
        IF k = 0 THEN [tr |-> tr, at |-> {from}, full |-> FALSE]
        ELSE LET c == f[k - 1] IN
             IF c.at = {} THEN c
             ELSE LET i == CHOOSE x \in c.at : TRUE
                      found == Fs!Lookup(c.tr, i, parts[k])
                  IN IF found # {}
                     THEN [c EXCEPT !.at = {j \in found : c.tr[j].kind = "dir"}]
                     ELSE IF Fs!Ino = Fs!Taken(c.tr)
                     THEN [c EXCEPT !.at = {}, !.full = TRUE]
                     ELSE [c EXCEPT !.tr = Fs!Created(c.tr, i, parts[k], "dir"),
                                    !.at = {Fs!NextIno(c.tr)}]
  IN f[Len(parts)]
MkdirAt(p, fd, path) ==
  LET b == BaseInode(p, fd, path, TRUE, TRUE)
      m == Made(tree, b.ino, path.parts)
  IN /\ Call(p)
     /\ \/ Stopped(b)
        \/ b.st = "ok" /\ m.full /\ Fails("full")
        \/ /\ b.st = "ok" /\ ~m.full /\ tree' = m.tr
           /\ UNCHANGED <<proc, open, panic, cut>>

Chdir(p, path) ==
  LET b    == BaseInode(p, AT_FDCWD, path, TRUE, TRUE)
      dirs == {i \in Find(tree, b.ino, path.parts) : tree[i].kind = "dir"}
  IN /\ Call(p)
     /\ \/ Stopped(b)
        \/ b.st = "ok" /\ dirs = {} /\ Refused
        \/ /\ b.st = "ok" /\ \E i \in dirs : proc' = [proc EXCEPT ![p].cwd = i]
           /\ UNCHANGED <<tree, open, panic, cut>>

(* sys_unlinkat: Inode::unlink removes any entry, also "." and ".." and that  *)
(* of a directory that is not empty or is someone's cwd; with the last link goes the data,   *)
(* open or not.                                                               *)
UnlinkAt(p, path) ==
  LET b   == BaseInode(p, AT_FDCWD, path, TRUE, TRUE)
      dir == {i \in Parent(tree, b.ino, path) : tree[i].kind = "dir"}
      n   == FileName(path)
  IN /\ Call(p)
     /\ \/ Stopped(b)
        \/ /\ b.st = "ok" /\ Refused
           /\ \A i \in dir : Fs!Lookup(tree, i, n) = {}
        \/ /\ b.st = "ok" /\ UNCHANGED <<proc, open, panic>>
           /\ \E i \in dir : \E j \in Fs!Lookup(tree, i, n) :
                /\ tree' = Fs!Unlinked(tree, i, n)
                /\ cut' = IF tree'[j].nlink = 0 THEN cut \cup OpensOf(j) ELSE cut

(* sys_linkat: any inode may be linked, a directory too; Inode::link asserts  *)
(* that the parent is a directory.                                            *)
LinkAt(p, old, new) ==
  LET b   == BaseInode(p, AT_FDCWD, old, TRUE, TRUE)
      c   == BaseInode(p, AT_FDCWD, new, TRUE, TRUE)
      src == Find(tree, b.ino, old.parts)
      dir == Parent(tree, c.ino, new)
      n   == FileName(new)
  IN /\ Call(p)
     /\ \/ Stopped(b)
        \/ b.st = "ok" /\ Stopped(c)
        \/ /\ b.st = "ok" /\ c.st = "ok"
           /\ \/ (src = {} \/ dir = {}) /\ Refused
              \/ \E s \in src, d \in dir :
                   \/ tree[d].kind = "file" /\ Fails("is_dir")
                   \/ tree[d].kind = "dir" /\ Fs!Lookup(tree, d, n) # {} /\ Refused
                   \/ /\ tree[d].kind = "dir" /\ Fs!Lookup(tree, d, n) = {}
                      /\ tree' = Fs!Linked(tree, d, n, s)
                      /\ UNCHANGED <<proc, open, panic, cut>>

(* sys_getcwd. (sys_fstat and sys_getdents only read the inode.) *)
Getcwd(p) ==
  /\ Call(p)
  /\ \/ HasName(tree, proc[p].cwd) /\ Refused
     \/ ~HasName(tree, proc[p].cwd) /\ Fails("cwd has no name")

(* Mutant: the child gets the parent's open files. *)
Fork_shares(p, q) ==
  /\ Call(p) /\ ~proc[q].on
  /\ proc' = [proc EXCEPT ![q] = proc[p]]
  /\ UNCHANGED <<tree, open, panic, cut>>
(* The part of fork about files: each descriptor gets a copy of its open file *)
(* with an offset of its own, two that shared one no longer do.               *)
Fork(p, q) ==
  LET fds  == proc[p].fds
      used == {fd \in DOMAIN fds : fds[fd] # 0}
      free == Opens \ DOMAIN open
      num  == [fd \in used |-> CHOOSE k \in free : Cardinality({j \in free : j < k})
                                                   = Cardinality({e \in used : e < fd})]
  IN /\ Call(p) /\ ~proc[q].on
     /\ proc' = [proc EXCEPT ![q] = [on |-> TRUE, cwd |-> proc[p].cwd,
                   fds |-> [fd \in DOMAIN fds |-> IF fd \in used THEN num[fd] ELSE 0]]]
     /\ open' = [k \in DOMAIN open \cup Range(num) |->
                   IF k \in DOMAIN open THEN open[k]
                   ELSE open[fds[CHOOSE fd \in used : num[fd] = k]]]
     /\ cut' = cut \cup {num[fd] : fd \in {e \in used : fds[e] \in cut}}
     /\ UNCHANGED <<tree, panic>>

(* The part of exit about files: fd_table.clear(). *)
Exit(p) ==
  /\ Call(p)
  /\ proc' = [proc EXCEPT ![p] = NoProc]
  /\ open' = Held(proc', open) /\ cut' = cut \cap DOMAIN open'
  /\ UNCHANGED <<tree, panic>>

Next ==
  \E p \in Pid :
    \/ \E path \in Path :
         \/ \E fd \in {AT_FDCWD} \cup DOMAIN proc[p].fds :
              \/ \E fl \in Flags : OpenAt(p, fd, path, fl)
              \/ MkdirAt(p, fd, path)
         \/ Chdir(p, path) \/ UnlinkAt(p, path)
         \/ \E new \in Path : LinkAt(p, path, new)
    \/ \E fd \in DOMAIN proc[p].fds :
         \/ Close(p, fd) \/ Dup(p, fd) \/ Read(p, fd)
         \/ \E v \in Value : Write(p, fd, v)
    \/ Getcwd(p) \/ Exit(p)
    \/ \E q \in Pid \ {p} : Fork(p, q)

Spec == Init /\ [][Next]_vars
-----------------------------------------------------------------------------
(* The state stays well formed. *)
TypeOK ==
  /\ \A i \in Fs!Ino : tree[i].kind \in {"free", "file", "dir"} /\ tree[i].nlink \in Nat
  /\ \A p \in Pid : proc[p].cwd \in Fs!Dirs(tree) /\ Len(proc[p].fds) <= MaxFd
  /\ DOMAIN open \subseteq Opens /\ cut \subseteq DOMAIN open
  /\ \A k \in DOMAIN open : open[k].ino \in Fs!Taken(tree) /\ open[k].off \in Nat

(* An open file belongs to one process: descriptors share it only through     *)
(* dup in the same process, never across fork; and it lives exactly as long   *)
(* as a descriptor names it.                                                  *)
OpenFilesOwned ==
  /\ TypeOK
  /\ \A k \in Opens :
       LET holders == {p \in Pid : k \in Range(proc[p].fds)}
       IN Cardinality(holders) = IF k \in DOMAIN open THEN 1 ELSE 0

(* getcwd's path leads back to the working directory, whatever was linked,    *)
(* unlinked or created since chdir; so base_inode's "ensure cwd" never        *)
(* refuses: it passes or the kernel has stopped in name_for_inode.            *)
CwdResolves ==
  \A p \in Pid : proc[p].on /\ HasName(tree, proc[p].cwd) =>
    Find(tree, 0, NameForInode(tree, proc[p].cwd)) = {proc[p].cwd}

(* The position of a regular file is past the end of the file only where the  *)
(* file was emptied under it, by O_TRUNC or by unlinking its last name, while *)
(* it was open, or forked from an open file for which that is so.             *)
OffsetsInside ==
  \A k \in DOMAIN open :
    tree[open[k].ino].kind = "file" /\ open[k].off > Len(tree[open[k].ino].data)
    => k \in cut
===============================================================================
