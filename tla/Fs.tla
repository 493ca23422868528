--------------------------------- MODULE Fs ---------------------------------
(***************************************************************************)
(* The file system above the log (kernel/fs.c, kernel/sysfile.c): inodes,  *)
(* their blocks, directories and paths, and the calls on names and files,  *)
(* for processes that have no transaction of their own (Tx models those).  *)
(*                                                                         *)
(* The cached inode and the one on disk are one here: without a            *)
(* transaction every change of the first is followed by iupdate under the  *)
(* same lock.  Blocks are counted, not named.  Sizes are in units, of      *)
(* which one directory entry takes one, and a block holds UPB.  A section  *)
(* under an inode's lock is one step, unless it waits in between.          *)
(***************************************************************************)
EXTENDS Integers, Sequences, FiniteSets, FiniteSetsExt, SequencesExt

CONSTANTS
    Proc, None,
    NINUM,          \* inodes on disk
    TableSizes,     \* the values of NINODE to look at
    NBLOCK,         \* data blocks on disk
    UPB, NDIRECT, NINDIRECT,
    WriteSizes,
    Name,           \* names of files, besides "." and ".."
    Calls           \* the calls each process makes

Inum == 1..NINUM
ROOTINO == 1
Names == Name \cup {".", ".."}
MAXFILE == NDIRECT + NINDIRECT

\* A call: what it does, the path it is about, and the new path of link.
Call == [fn : {"open", "create", "trunc", "mkdir", "mknod", "unlink", "link", "chdir"},
         abs : BOOLEAN, path : Seq(Names), new : Seq(Names)]

ASSUME FsAssumption ==
    /\ TableSizes \subseteq Nat \ {0}
    /\ {NINUM, NBLOCK, UPB, NDIRECT, NINDIRECT} \subseteq Nat \ {0}
    /\ WriteSizes \subseteq Nat \ {0}
    /\ \A p \in Proc : Calls[p] \subseteq Call

VARIABLES
    ino,        \* inodes: type, nlink, size, blocks, and entries of a directory
    nfree,      \* blocks free in the bitmap
    NINODE,     \* entries of the inode table; never changes
    it,         \* the inode table: ref, valid, data (not null) and the lock's holder
    cwd, file,  \* p->cwd; the one open file of p and its offset
    pr,         \* where p is in its call
    boot,       \* fsinit has not finished
    panic

vars == <<ino, nfree, NINODE, it, cwd, file, pr, boot, panic>>

NoEntries == [n \in Names |-> 0]
FreeInode == [type |-> "none", nlink |-> 0, size |-> 0, direct |-> 0, ind |-> FALSE, leaf |-> 0,
              ents |-> NoEntries]
NotCached == [ref |-> 0, valid |-> FALSE, data |-> FALSE, lock |-> None]
NoFile == [ip |-> 0, off |-> 0]
NoCall == [fn |-> "none", abs |-> FALSE, path |-> <<>>, new |-> <<>>]
\* pc: the next step; path: what namex has still to resolve; ip, dp: the
\* locals of that name; put: the inodes to iput before the next step; stage:
\* how far iput is with the first of them.
User == [pc |-> "user", call |-> NoCall, path |-> <<>>, ip |-> 0, dp |-> 0, put |-> <<>>, stage |-> 0]

TypeOK ==
    /\ ino \in [Inum -> [type : {"none", "dir", "file", "dev"}, nlink : Nat,
                         size : 0..(MAXFILE * UPB), direct : 0..NDIRECT, ind : BOOLEAN,
                         leaf : 0..NINDIRECT, ents : [Names -> Inum \cup {0}]]]
    /\ nfree \in 0..NBLOCK
    /\ it \in [Inum -> [ref : Nat, valid : BOOLEAN, data : BOOLEAN, lock : Proc \cup {None}]]
    /\ NINODE \in TableSizes /\ Cardinality({i \in Inum : it[i].ref > 0}) <= NINODE
    /\ cwd \in [Proc -> Inum] /\ DOMAIN file = Proc
    /\ DOMAIN pr = Proc /\ boot \in BOOLEAN

\* mkfs: a root directory with one block.  Every process starts in it.
Init ==
    /\ ino = [i \in Inum |->
                IF i = ROOTINO
                THEN [FreeInode EXCEPT !.type = "dir", !.nlink = 1, !.size = UPB, !.direct = 1,
                                       !.ents["."] = ROOTINO, !.ents[".."] = ROOTINO]
                ELSE FreeInode]
    /\ nfree = NBLOCK - 1 /\ NINODE \in TableSizes
    /\ it = [i \in Inum |-> IF i = ROOTINO THEN [NotCached EXCEPT !.ref = Cardinality(Proc), !.data = TRUE]
                            ELSE NotCached]
    /\ cwd = [p \in Proc |-> ROOTINO] /\ file = [p \in Proc |-> NoFile]
    /\ pr = [p \in Proc |-> User]
    /\ boot = FALSE /\ panic = "none"

(***************************************************************************)
(* Inodes and their blocks, on d = [n: the inode, free: free blocks, ok,   *)
(* tot: what was written].                                                 *)
(***************************************************************************)

Loaded(n) == [n |-> n, free |-> nfree, ok |-> TRUE, tot |-> 0]

\* balloc, for the field that gets the block.
balloc(d) == [d EXCEPT !.ok = d.free > 0, !.free = IF @ > 0 THEN @ - 1 ELSE @]

\* Block bn of the inode is at most one past the blocks it has.
bmap(d, bn) ==
    LET b == balloc(d)
        \* with an indirect block, if there was one to be had
        i == IF d.n.ind THEN d ELSE IF b.ok THEN [b EXCEPT !.n.ind = TRUE] ELSE b
        c == balloc(i)
    IN IF bn < NDIRECT
       THEN IF bn < d.n.direct THEN d ELSE IF b.ok THEN [b EXCEPT !.n.direct = bn + 1] ELSE b
       ELSE IF ~i.ok \/ bn - NDIRECT < i.n.leaf THEN i
       ELSE IF c.ok THEN [c EXCEPT !.n.leaf = @ + 1] ELSE c

TooBig(off, n) == off + n > MAXFILE * UPB

\* writei of n units at off; the copy into block bad fails.
writei(d, off, n, bad) ==
    LET first == off \div UPB
        chunk(e, b) ==
            LET w == bmap(e, b)  end == Min({off + n, (b + 1) * UPB}) IN
            IF ~e.ok THEN e ELSE IF ~w.ok \/ b = bad THEN [w EXCEPT !.ok = FALSE]
            ELSE [w EXCEPT !.n.size = Max({@, end}), !.tot = end - off]
    IN IF off > d.n.size \/ TooBig(off, n) THEN [d EXCEPT !.ok = FALSE]
       ELSE FoldLeft(chunk, [d EXCEPT !.ok = TRUE],
                     [k \in 1..((off + n - 1) \div UPB - first + 1) |-> first + k - 1])

\* Mutant: the indirect block itself is not freed.
itrunc_indirect(d) ==
    [d EXCEPT !.free = @ + d.n.direct + d.n.leaf,
              !.n.direct = 0, !.n.ind = FALSE, !.n.leaf = 0, !.n.size = 0, !.n.ents = NoEntries]

itrunc(d) ==
    [d EXCEPT !.free = @ + d.n.direct + d.n.leaf + (IF d.n.ind THEN 1 ELSE 0),
              !.n.direct = 0, !.n.ind = FALSE, !.n.leaf = 0, !.n.size = 0, !.n.ents = NoEntries]

\* dirlink: into an empty slot, or at the end.
dirlink(d, name, inum) ==
    LET used == Cardinality({x \in Names : d.n.ents[x] # 0})
        w == IF used < d.n.size THEN [d EXCEPT !.ok = TRUE] ELSE writei(d, d.n.size, 1, MAXFILE)
    IN IF d.n.ents[name] # 0 THEN [d EXCEPT !.ok = FALSE]
       ELSE IF w.ok THEN [w EXCEPT !.n.ents[name] = inum] ELSE w

isdirempty(n) == \A x \in Name : n.ents[x] = 0

(***************************************************************************)
(* The inode table.                                                        *)
(***************************************************************************)

\* p goes on at pc, with the locals of r.
Go(p, r) == pr' = [pr EXCEPT ![p] = r]

\* p calls iget(i) on table t, and goes on with r: it gets the entry of i, or
\* an empty one, or panics if there is none.
iget(p, t, i, r) ==
    LET empty == [ref |-> 1, valid |-> FALSE, data |-> TRUE, lock |-> None]
        found == t[i].ref > 0
    IN
    IF found \/ Cardinality({j \in Inum : t[j].ref > 0}) < NINODE
    THEN /\ it' = IF found THEN [t EXCEPT ![i].ref = @ + 1] ELSE [t EXCEPT ![i] = empty]
         /\ Go(p, r) /\ UNCHANGED panic
    ELSE it' = t /\ panic' = "iget: no inodes" /\ UNCHANGED pr

idup(t, i) == [t EXCEPT ![i].ref = @ + 1]

\* ilock(i) goes through, and what it finds is an inode.
MayLock(i) == it[i].lock = None /\ it[i].data /\ (it[i].valid \/ ino[i].type # "none")
ilock(t, i, p) == [t EXCEPT ![i].lock = p, ![i].valid = TRUE]
iunlock(t, i) == [t EXCEPT ![i].lock = None]
\* A section from ilock to iunlock.
Visit(t, i) == [t EXCEPT ![i].valid = TRUE]

At(p, pc) == ~boot /\ pr[p].pc = pc /\ pr[p].put = <<>>
\* r ends, and so do its locals, after the inodes of put are put.
Ends(r, put) == [User EXCEPT !.pc = "end", !.put = put]

\* Mutant: an inode is freed although others hold it.
Unused_shared(i) == it[i].valid /\ ino[i].nlink = 0

\* Mutant: the links of an inode are not looked at.
Unused_linked(i) == it[i].ref = 1 /\ it[i].valid

\* iput frees inode i.
Unused(i) == it[i].ref = 1 /\ it[i].valid /\ ino[i].nlink = 0

\* Mutant: a reference is not given back.
iput_defer(p) ==
    /\ ~boot /\ pr[p].put # <<>> /\ pr[p].stage = 0
    /\ Go(p, [pr[p] EXCEPT !.put = Tail(@)])
    /\ UNCHANGED <<ino, nfree, it, cwd, file, boot, panic>>

\* iput, of the first of the inodes p has to put.
iput(p) ==
    LET i == Head(pr[p].put) IN
    /\ ~boot /\ pr[p].put # <<>> /\ pr[p].stage = 0 /\ it[i].lock # p
    /\ IF Unused(i)
       THEN /\ it[i].lock = None
            /\ it' = ilock(it, i, p) /\ Go(p, [pr[p] EXCEPT !.stage = 1])
       ELSE it' = [it EXCEPT ![i].ref = @ - 1] /\ Go(p, [pr[p] EXCEPT !.put = Tail(@)])
    /\ UNCHANGED <<ino, nfree, cwd, file, boot, panic>>

\* An inode to put that p still has locked is unlocked first.
iunlockput(p) ==
    /\ ~boot /\ pr[p].put # <<>> /\ pr[p].stage = 0 /\ it[Head(pr[p].put)].lock = p
    /\ it' = iunlock(it, Head(pr[p].put))
    /\ UNCHANGED <<ino, nfree, cwd, file, pr, boot, panic>>

\* The inode is freed on disk: from here on ialloc may find it.
iput_free(p) ==
    LET i == Head(pr[p].put)  d == itrunc(Loaded(ino[i])) IN
    /\ ~boot /\ pr[p].stage = 1
    /\ ino' = [ino EXCEPT ![i] = [d.n EXCEPT !.type = "none"]] /\ nfree' = d.free
    /\ it' = [it EXCEPT ![i].valid = FALSE]
    /\ Go(p, [pr[p] EXCEPT !.stage = 2])
    /\ UNCHANGED <<cwd, file, boot, panic>>

\* Its data is freed, and it is unlocked.
iput_release(p) ==
    LET i == Head(pr[p].put) IN
    /\ ~boot /\ pr[p].stage = 2
    /\ it' = [it EXCEPT ![i].data = FALSE, ![i].lock = None]
    /\ Go(p, [pr[p] EXCEPT !.stage = 3])
    /\ UNCHANGED <<ino, nfree, cwd, file, boot, panic>>

iput_drop(p) ==
    LET i == Head(pr[p].put) IN
    /\ ~boot /\ pr[p].stage = 3
    /\ it' = [it EXCEPT ![i].ref = @ - 1]
    /\ Go(p, [pr[p] EXCEPT !.stage = 0, !.put = Tail(@)])
    /\ UNCHANGED <<ino, nfree, cwd, file, boot, panic>>

(***************************************************************************)
(* Paths.                                                                  *)
(***************************************************************************)

\* Does the lookup of p stop at the parent?  In link the second one does.
Parent(p) == pr[p].call.fn \in {"create", "mkdir", "mknod", "unlink"} \/ pr[p].dp # 0
\* namex of p returns 0, after the inodes of put are put.
NotFound(p, put) ==
    IF pr[p].dp # 0 THEN [pr[p] EXCEPT !.pc = "link_undo", !.ip = 0, !.path = <<>>, !.put = put]
    ELSE Ends(pr[p], put)

\* begin_op, and the first inode of namex.
Start(p, c) ==
    LET from(i) == [User EXCEPT !.pc = "namex", !.call = c, !.path = c.path, !.ip = i] IN
    /\ At(p, "user")
    /\ IF c.abs THEN iget(p, it, ROOTINO, from(ROOTINO))
       ELSE it' = idup(it, cwd[p]) /\ Go(p, from(cwd[p])) /\ UNCHANGED panic
    /\ UNCHANGED <<ino, nfree, cwd, file, boot>>

\* One round of namex under the lock of the directory.
namex(p) ==
    LET r == pr[p]  i == r.ip  next == ino[i].ents[Head(r.path)] IN
    /\ At(p, "namex") /\ r.path # <<>> /\ MayLock(i)
    /\ IF ino[i].type = "dir" /\ ~(Parent(p) /\ Len(r.path) = 1) /\ next # 0
       THEN iget(p, Visit(it, i), next, [r EXCEPT !.ip = next, !.path = Tail(@), !.put = <<i>>])
       ELSE /\ it' = Visit(it, i) /\ UNCHANGED panic
            /\ Go(p, IF ino[i].type = "dir" /\ Parent(p) /\ Len(r.path) = 1
                     THEN [r EXCEPT !.pc = "found"] ELSE NotFound(p, <<i>>))
    /\ UNCHANGED <<ino, nfree, cwd, file, boot>>

\* The path is used up.
namex_ret(p) ==
    /\ At(p, "namex") /\ pr[p].path = <<>>
    /\ Go(p, IF Parent(p) THEN NotFound(p, <<pr[p].ip>>) ELSE [pr[p] EXCEPT !.pc = "found"])
    /\ UNCHANGED <<ino, nfree, it, cwd, file, boot, panic>>

(***************************************************************************)
(* create, for open, mkdir and mknod.                                      *)
(***************************************************************************)

\* What a call that creates wants.
Wanted(p) == CASE pr[p].call.fn = "mkdir" -> "dir" [] pr[p].call.fn = "mknod" -> "dev"
               [] OTHER -> "file"
\* The last element of the path.
name(p) == Head(pr[p].path)

\* The directory is locked, and stays so if the name is not there.
create(p) ==
    LET dp == pr[p].ip  i == ino[dp].ents[name(p)] IN
    /\ At(p, "found") /\ pr[p].call.fn \in {"create", "mkdir", "mknod"} /\ MayLock(dp)
    /\ IF i # 0
       THEN iget(p, Visit(it, dp), i, [pr[p] EXCEPT !.pc = "exists", !.ip = i, !.put = <<dp>>])
       ELSE /\ it' = ilock(it, dp, p) /\ UNCHANGED panic
            /\ Go(p, [pr[p] EXCEPT !.pc = "ialloc", !.dp = dp, !.ip = 0])
    /\ UNCHANGED <<ino, nfree, cwd, file, boot>>

\* The name is there: a file will do for open.
create_exists(p) ==
    LET i == pr[p].ip IN
    /\ At(p, "exists") /\ MayLock(i)
    /\ IF Wanted(p) = "file" /\ ino[i].type \in {"file", "dev"}
       THEN it' = ilock(it, i, p) /\ Go(p, [pr[p] EXCEPT !.pc = "open"])
       ELSE it' = Visit(it, i) /\ Go(p, Ends(pr[p], <<i>>))
    /\ UNCHANGED <<ino, nfree, cwd, file, boot, panic>>

\* ialloc and its iget, which finds the entry of the inode's last life if
\* iput is not done with it.
ialloc(p) ==
    LET dp == pr[p].dp  unused == {i \in Inum : ino[i].type = "none"} IN
    /\ At(p, "ialloc")
    /\ \/ /\ unused = {}
          /\ it' = iunlock(it, dp) /\ Go(p, Ends(pr[p], <<dp>>)) /\ UNCHANGED <<ino, panic>>
       \/ \E i \in unused :
            /\ ino' = [ino EXCEPT ![i] = [FreeInode EXCEPT !.type = Wanted(p)]]
            /\ iget(p, it, i, [pr[p] EXCEPT !.pc = "init", !.ip = i])
    /\ UNCHANGED <<nfree, cwd, file, boot>>

\* The new inode gets its entries and its name, or else is given up.
create_init(p) ==
    LET i == pr[p].ip  dp == pr[p].dp  isdir == Wanted(p) = "dir"
        d0 == Loaded([ino[i] EXCEPT !.nlink = 1])
        d1 == IF isdir THEN dirlink(d0, ".", i) ELSE d0
        d2 == IF isdir /\ d1.ok THEN dirlink(d1, "..", dp) ELSE d1
        up == dirlink([Loaded(ino[dp]) EXCEPT !.free = d2.free], name(p), i)
        ok == d2.ok /\ up.ok
        parent == IF d2.ok THEN up.n ELSE ino[dp]
    IN
    /\ At(p, "init") /\ MayLock(i)
    /\ nfree' = IF d2.ok THEN up.free ELSE d2.free
    /\ ino' = [ino EXCEPT ![i] = IF ok THEN d2.n ELSE [d2.n EXCEPT !.nlink = 0],
                          ![dp] = IF ok /\ isdir THEN [parent EXCEPT !.nlink = @ + 1] ELSE parent]
    /\ IF ok THEN /\ it' = ilock(iunlock(it, dp), i, p)
                  /\ Go(p, [pr[p] EXCEPT !.pc = "open", !.dp = 0, !.put = <<dp>>])
       ELSE it' = Visit(it, i) /\ Go(p, Ends(pr[p], <<i, dp>>))
    /\ UNCHANGED <<cwd, file, boot, panic>>

(***************************************************************************)
(* open, close, write and chdir.                                           *)
(***************************************************************************)

\* The end of open, with i locked in t.  The process has one descriptor.
OpenFile(p, i, t) ==
    LET d == itrunc(Loaded(ino[i]))
        opens == file[p] = NoFile
        truncs == opens /\ pr[p].call.fn = "trunc" /\ ino[i].type = "file"
    IN
    /\ it' = iunlock(t, i) /\ Go(p, Ends(pr[p], IF opens THEN <<>> ELSE <<i>>))
    /\ file' = IF opens THEN [file EXCEPT ![p] = [ip |-> i, off |-> 0]] ELSE file
    /\ ino' = IF truncs THEN [ino EXCEPT ![i] = d.n] ELSE ino
    /\ nfree' = IF truncs THEN d.free ELSE nfree
    /\ UNCHANGED <<cwd, boot, panic>>

sys_open_created(p) == At(p, "open") /\ Wanted(p) = "file" /\ OpenFile(p, pr[p].ip, it)

\* The end of mkdir, and of mknod.
sys_mkdir(p) ==
    /\ At(p, "open") /\ Wanted(p) # "file"
    /\ it' = iunlock(it, pr[p].ip) /\ Go(p, Ends(pr[p], <<pr[p].ip>>))
    /\ UNCHANGED <<ino, nfree, cwd, file, boot, panic>>

sys_open(p) ==
    LET i == pr[p].ip IN
    /\ At(p, "found") /\ pr[p].call.fn \in {"open", "trunc"} /\ MayLock(i)
    /\ IF ino[i].type = "dir" /\ pr[p].call.fn = "trunc"
       THEN it' = Visit(it, i) /\ Go(p, Ends(pr[p], <<i>>)) /\ UNCHANGED <<ino, nfree, cwd, file, boot, panic>>
       ELSE OpenFile(p, i, Visit(it, i))

fileclose(p) ==
    /\ At(p, "user") /\ file[p] # NoFile
    /\ Go(p, Ends(pr[p], <<file[p].ip>>)) /\ file' = [file EXCEPT ![p] = NoFile]
    /\ UNCHANGED <<ino, nfree, it, cwd, boot, panic>>

\* n units at the offset of the file; the copy into block bad fails.
filewrite(p, n, bad) ==
    LET i == file[p].ip  d == writei(Loaded(ino[i]), file[p].off, n, bad) IN
    /\ At(p, "user") /\ i # 0 /\ ino[i].type = "file" /\ MayLock(i)
    /\ ino' = [ino EXCEPT ![i] = d.n] /\ nfree' = d.free /\ it' = Visit(it, i)
    /\ file' = [file EXCEPT ![p].off = @ + d.tot]
    /\ UNCHANGED <<cwd, pr, boot, panic>>

sys_chdir(p) ==
    LET i == pr[p].ip IN
    /\ At(p, "found") /\ pr[p].call.fn = "chdir" /\ MayLock(i)
    /\ it' = Visit(it, i)
    /\ IF ino[i].type = "dir"
       THEN cwd' = [cwd EXCEPT ![p] = i] /\ Go(p, Ends(pr[p], <<cwd[p]>>))
       ELSE Go(p, Ends(pr[p], <<i>>)) /\ UNCHANGED cwd
    /\ UNCHANGED <<ino, nfree, file, boot, panic>>

(***************************************************************************)
(* unlink and link.                                                        *)
(***************************************************************************)

\* The directory is locked, and stays so if the name is there.
sys_unlink(p) ==
    LET dp == pr[p].ip  i == ino[dp].ents[name(p)] IN
    /\ At(p, "found") /\ pr[p].call.fn = "unlink" /\ MayLock(dp)
    /\ IF name(p) \in {".", ".."} \/ i = 0
       THEN it' = Visit(it, dp) /\ Go(p, Ends(pr[p], <<dp>>)) /\ UNCHANGED panic
       ELSE iget(p, ilock(it, dp, p), i, [pr[p] EXCEPT !.pc = "unlink", !.ip = i, !.dp = dp])
    /\ UNCHANGED <<ino, nfree, cwd, file, boot>>

\* A directory must be empty.
Removable(n) == n.type = "dir" => isdirempty(n)

\* The entry goes, and the directory is unlocked.
unlink_entry(p) ==
    LET i == pr[p].ip  dp == pr[p].dp  n == ino[dp] IN
    /\ At(p, "unlink") /\ MayLock(i)
    /\ IF ino[i].nlink < 1
       THEN panic' = "unlink: nlink < 1" /\ UNCHANGED <<ino, it, pr>>
       ELSE IF Removable(ino[i])
       THEN /\ ino' = [ino EXCEPT ![dp].ents[name(p)] = 0,
                                  ![dp].nlink = IF ino[i].type = "dir" THEN @ - 1 ELSE @]
            /\ it' = ilock(iunlock(it, dp), i, p)
            /\ Go(p, [pr[p] EXCEPT !.pc = "unlinked", !.dp = 0, !.path = <<>>, !.put = <<dp>>])
            /\ UNCHANGED panic
       ELSE /\ it' = Visit(it, i) /\ Go(p, Ends(pr[p], <<i, dp>>))
            /\ UNCHANGED <<ino, panic>>
    /\ UNCHANGED <<nfree, cwd, file, boot>>

unlink_inode(p) ==
    LET i == pr[p].ip IN
    /\ At(p, "unlinked")
    /\ ino' = [ino EXCEPT ![i].nlink = @ - 1] /\ it' = iunlock(it, i)
    /\ Go(p, Ends(pr[p], <<i>>))
    /\ UNCHANGED <<nfree, cwd, file, boot, panic>>

\* The inode is found, and counts its new link before there is one.  Then
\* the parent of the new name is looked up.
sys_link(p) ==
    LET i == pr[p].ip IN
    /\ At(p, "found") /\ pr[p].call.fn = "link" /\ pr[p].dp = 0 /\ MayLock(i)
    /\ IF ino[i].type = "dir"
       THEN it' = Visit(it, i) /\ Go(p, Ends(pr[p], <<i>>)) /\ UNCHANGED ino
       ELSE /\ ino' = [ino EXCEPT ![i].nlink = @ + 1]
            /\ it' = idup(Visit(it, i), cwd[p])
            /\ Go(p, [pr[p] EXCEPT !.pc = "namex", !.path = pr[p].call.new,
                                   !.ip = cwd[p], !.dp = i])
    /\ UNCHANGED <<nfree, cwd, file, boot, panic>>

link_entry(p) ==
    LET i == pr[p].dp  dp == pr[p].ip  d == dirlink(Loaded(ino[dp]), name(p), i) IN
    /\ At(p, "found") /\ pr[p].call.fn = "link" /\ i # 0 /\ MayLock(dp)
    /\ ino' = [ino EXCEPT ![dp] = d.n] /\ nfree' = d.free /\ it' = Visit(it, dp)
    /\ Go(p, IF d.ok THEN Ends(pr[p], <<dp, i>>) ELSE NotFound(p, <<dp>>))
    /\ UNCHANGED <<cwd, file, boot, panic>>

link_undo(p) ==
    LET i == pr[p].dp IN
    /\ At(p, "link_undo") /\ MayLock(i)
    /\ ino' = [ino EXCEPT ![i].nlink = @ - 1] /\ it' = Visit(it, i)
    /\ Go(p, Ends(pr[p], <<i>>))
    /\ UNCHANGED <<nfree, cwd, file, boot, panic>>

end_op(p) ==
    /\ At(p, "end") /\ Go(p, User)
    /\ UNCHANGED <<ino, nfree, it, cwd, file, boot, panic>>

(***************************************************************************)
(* Panics, crashes, and the next-state relation.                           *)
(***************************************************************************)

\* The inode p is about to lock.
Target(p) == IF pr[p].pc \in {"found", "exists", "init", "unlink"} THEN pr[p].ip
             ELSE IF pr[p].pc = "namex" /\ pr[p].path # <<>> THEN pr[p].ip
             ELSE IF pr[p].pc = "link_undo" THEN pr[p].dp ELSE 0

\* ilock reads the inode into memory that is not there, or one that is free.
ilock_panic(p) ==
    LET i == Target(p) IN
    /\ ~boot /\ pr[p].put = <<>> /\ i # 0 /\ it[i].lock = None
    /\ ~MayLock(i)
    /\ panic' = IF it[i].data THEN "ilock: no type" ELSE "ilock: no data"
    /\ UNCHANGED <<ino, nfree, it, cwd, file, pr, boot>>

\* A crash.  The log has the disk as it was when last no call was running:
\* a crash in the middle of a call leads to the same state as one before it.
Crash ==
    /\ ~boot /\ \A p \in Proc : pr[p] = User
    /\ it' = [i \in Inum |-> NotCached]
    /\ cwd' = [p \in Proc |-> ROOTINO] /\ file' = [p \in Proc |-> NoFile]
    /\ boot' = TRUE
    /\ UNCHANGED <<ino, nfree, pr, panic>>

Orphans == {i \in Inum : ino[i].type # "none" /\ ino[i].nlink = 0}

ireclaim ==
    /\ boot /\ Orphans # {}
    /\ LET i == Min(Orphans)  d == itrunc(Loaded(ino[i])) IN
       ino' = [ino EXCEPT ![i] = FreeInode] /\ nfree' = d.free
    /\ UNCHANGED <<it, cwd, file, pr, boot, panic>>

\* The processes start again, in the root.
fsinit ==
    /\ boot /\ Orphans = {}
    /\ boot' = FALSE /\ it' = [it EXCEPT ![ROOTINO] = [NotCached EXCEPT !.ref = Cardinality(Proc), !.data = TRUE]]
    /\ UNCHANGED <<ino, nfree, cwd, file, pr, panic>>

ProcNext(p) ==
    \/ iunlockput(p) \/ iput(p) \/ iput_free(p) \/ iput_release(p) \/ iput_drop(p)
    \/ \E c \in Calls[p] : Start(p, c)
    \/ namex(p) \/ namex_ret(p)
    \/ create(p) \/ create_exists(p) \/ ialloc(p) \/ create_init(p)
    \/ sys_open(p) \/ sys_open_created(p) \/ sys_mkdir(p) \/ fileclose(p) \/ sys_chdir(p)
    \/ \E n \in WriteSizes, bad \in 0..MAXFILE : filewrite(p, n, bad)
    \/ sys_unlink(p) \/ unlink_entry(p) \/ unlink_inode(p)
    \/ sys_link(p) \/ link_entry(p) \/ link_undo(p)
    \/ end_op(p) \/ ilock_panic(p)

\* panic() stops everything.
Halted == panic # "none" /\ UNCHANGED vars

Next ==
    \/ panic = "none" /\ UNCHANGED NINODE /\ (Crash \/ ireclaim \/ fsinit \/ \E p \in Proc : ProcNext(p))
    \/ Halted

Spec == Init /\ [][Next]_vars

(***************************************************************************)
(* Properties.                                                             *)
(***************************************************************************)

\* Every reference to an inode is somebody's: a working directory, an open
\* file, a local of a call, or an inode still to be put.  So no error path of
\* a call forgets an iput, or does one too many.
RefsCounted ==
    ~boot => \A i \in Inum :
        it[i].ref = Cardinality({p \in Proc : cwd[p] = i}) + Cardinality({p \in Proc : file[p].ip = i})
                    + Cardinality({p \in Proc : pr[p].ip = i}) + Cardinality({p \in Proc : pr[p].dp = i})
                    + MapThenSumSet(LAMBDA p : Cardinality({k \in DOMAIN pr[p].put : pr[p].put[k] = i}), Proc)

\* Every block is free or belongs to an inode, after failed writes, failed
\* creates and crashes as well: none is lost, and none is freed twice.
BlocksAccounted ==
    nfree + MapThenSumSet(LAMBDA i : ino[i].direct + ino[i].leaf + (IF ino[i].ind THEN 1 ELSE 0), Inum)
    = NBLOCK

\* The directories with a path from the root of at most k names.
Reach[k \in 0..NINUM] ==
    IF k = 0 THEN {ROOTINO}
    ELSE Reach[k - 1] \cup {i \in Inum : /\ ino[i].type = "dir"
                                         /\ \E d \in Reach[k - 1], x \in Name : ino[d].ents[x] = i}

\* What has a name below the root is an inode in use, with at least as many
\* links as names: entries, and the ".." of its subdirectories.  So no inode
\* is freed, and reused, while there is a path to it.
NamesHaveLinks ==
    \A dirs \in {Reach[NINUM]}, i \in Inum :
        LET refs == {<<d, x>> \in dirs \X (Names \ {"."}) : d # i /\ ino[d].ents[x] = i} IN
        /\ refs # {} => ino[i].type # "none"
        /\ ino[i].nlink >= Cardinality(refs)

\* iput locks an inode it is about to free while it holds the spin-lock of
\* the table, and must not sleep: nobody else has that inode locked.
IputNeverBlocks ==
    \A p \in Proc : (~boot /\ pr[p].put # <<>> /\ pr[p].stage = 0 /\ Unused(Head(pr[p].put)))
                    => it[Head(pr[p].put)].lock \in {None, p}
=============================================================================
