--------------------------------- MODULE Tx ---------------------------------
(***************************************************************************)
(* Transactions over inodes and buffers: kernel/tx.c, kernel/systx.c, the  *)
(* setjmp point of kernel/syscall.c, and the file-system calls that reach  *)
(* kernel objects through idata and bdata.                                 *)
(*                                                                         *)
(* A system call is a sequence of kernel steps, and pc is the next one.    *)
(* A step waits for at most one sleep-lock.  What a process does to an     *)
(* object between locking and unlocking it, without waiting for another    *)
(* lock, is part of one step: nobody else can reach the object meanwhile.  *)
(* The log and the disk behind the buffers are left to Log and TxLog.      *)
(***************************************************************************)
EXTENDS Integers, FiniteSets

CONSTANTS
    Proc,          \* processes; each owns one struct transaction
    Inode, Buf,    \* object headers: in-memory inodes, buffers of data blocks
    cwd,           \* the directory every process works in
    DataBuf,       \* the buffer that holds the contents of an inode
    Addr,          \* address of every object header, the sort key
    None, Freed,   \* no workset entry; an entry whose shadow page was freed
    MAX_WORKSET,   \* capacity of a workset (tx.h)
    Mixes,         \* the file-system calls programs make inside (tx) and
                   \* outside (plain) a transaction: the choices to check
    RetryOnly,     \* programs answer -1 from txbegin only with txbegin
    OpenInside,    \* programs hold no file open across txbegin or txcommit
    MaxVersion,    \* bound: transactions and plain writes in a behaviour
    MaxRef         \* bound: references to the working directory

Obj == Inode \cup Buf
File == Inode \ {cwd}
DirBuf == DataBuf[cwd]

\* v: who wrote last.  links: of a file, itself while nlink > 0; of the
\* directory's buffer, the files that have an entry.
Content == [v : 0..MaxVersion, links : SUBSET Inode]

ASSUME TxAssumption ==
    /\ cwd \in Inode
    /\ Inode \cap Buf = {}
    /\ DataBuf \in [Inode -> Buf]
    /\ \A i, j \in Inode : DataBuf[i] = DataBuf[j] => i = j
    /\ Addr \in [Obj -> Nat]
    /\ \A o1, o2 \in Obj : Addr[o1] = Addr[o2] => o1 = o2
    /\ None \notin Proc \cup Obj \cup Content /\ Freed \notin Content /\ None # Freed
    /\ Cardinality(Proc) \in Nat \ {0}
    /\ MAX_WORKSET \in Nat /\ MaxVersion \in Nat /\ MaxRef \in Nat
    /\ RetryOnly \in BOOLEAN /\ OpenInside \in BOOLEAN

VARIABLES
    mix,        \* the calls of this behaviour; never changes
    status,     \* tx->status of each process
    shadow,     \* tx->workset: shadow contents per object, None without entry
    pc,         \* the next kernel step of the system call in progress
    arg,        \* the file of that call
    rest,       \* the entries that its loop over the workset has still to visit
    ofile,      \* files a process has open
    conflict,   \* txbegin has returned -1: the jump back of tx_abort_now
    writer,     \* xobj.writer
    slock,      \* holder of the object's sleep-lock
    ref,        \* ip->ref; for a buffer, the pins of transactions
    val,        \* stable contents, *get_data_ptr(header); Freed for an inode
                \* that iput has freed
    fault,      \* "none", or what brought the kernel down
    version,    \* the number under which a process writes
    clock,      \* numbers handed out so far
    seen,       \* versions met since the last inode was locked
    published,  \* versions of plain writes and of committed transactions
    aborted     \* versions of aborted transactions

txVars == <<status, shadow, ofile, conflict>>
calls == <<pc, arg, rest>>
objVars == <<writer, slock, ref, val>>
ghostVars == <<version, clock, seen, published, aborted>>
vars == <<mix, txVars, calls, objVars, fault, ghostVars>>

Label ==
    {"user", "open", "open_dir", "open_look", "open_iget", "open_unlock", "open_put",
     "open_file", "open_fd", "miss_unlock", "miss_put", "close",
     "read", "read_data", "read_unlock", "write", "write_data", "write_size",
     "unlink", "unlink_parent", "unlink_found", "unlink_dir", "unlink_look", "unlink_iget",
     "unlink_file", "unlink_clear", "unlink_unlock", "unlink_put", "unlink_drop",
     "unlink_done", "commit_lock", "commit_swap", "commit_unlock", "commit_put",
     "abort_lock", "abort_unlock", "abort_free", "abort_put", "txdone"}

TypeOK ==
    /\ mix \in Mixes
    /\ status \in [Proc -> {"INACTIVE", "ACTIVE", "ABORTED", "COMMITTED"}]
    /\ shadow \in [Proc -> [Obj -> Content \cup {None, Freed}]]
    /\ pc \in [Proc -> Label]
    /\ arg \in [Proc -> File \cup {None}]
    /\ rest \in [Proc -> SUBSET Obj]
    /\ ofile \in [Proc -> SUBSET File]
    /\ conflict \in [Proc -> BOOLEAN]
    /\ writer \in [Obj -> Proc \cup {None}]
    /\ slock \in [Obj -> Proc \cup {None}]
    /\ ref \in [Obj -> Int]
    /\ val \in [Obj -> Content \cup {Freed}]
    /\ fault \in {"none", "panic", "dangling"}
    /\ version \in [Proc -> 0..MaxVersion]
    /\ clock \in 0..MaxVersion
    /\ seen \in [Proc -> SUBSET (0..MaxVersion)]
    /\ published \in SUBSET (0..MaxVersion)
    /\ aborted \in SUBSET (0..MaxVersion)

Init ==
    /\ mix \in Mixes
    /\ status = [p \in Proc |-> "INACTIVE"]
    /\ shadow = [p \in Proc |-> [o \in Obj |-> None]]
    /\ pc = [p \in Proc |-> "user"] /\ arg = [p \in Proc |-> None]
    /\ rest = [p \in Proc |-> {}]
    /\ ofile = [p \in Proc |-> {}]
    /\ conflict = [p \in Proc |-> FALSE]
    /\ writer = [o \in Obj |-> None]
    /\ slock = [o \in Obj |-> None]
    /\ ref = [o \in Obj |-> IF o = cwd THEN Cardinality(Proc) ELSE 0]
    /\ val = [o \in Obj |-> [v |-> 0,
                             links |-> IF o = DirBuf THEN File
                                       ELSE IF o \in Inode THEN {o} ELSE {}]]
    /\ fault = "none"
    /\ version = [p \in Proc |-> 0]
    /\ clock = 0
    /\ seen = [p \in Proc |-> {}]
    /\ published = {0}
    /\ aborted = {}

-----------------------------------------------------------------------------
Active(p) == status[p] = "ACTIVE"

Workset(p) == {o \in Obj : shadow[p][o] # None}

\* What p reads through idata or bdata; a new shadow is a copy of val[o].
Sees(p, o) == IF Active(p) /\ shadow[p][o] # None THEN shadow[p][o] ELSE val[o]

\* p's next kernel step is the one named here.
At(p, step) == fault = "none" /\ pc[p] = step

\* The call goes on, or returns to user mode.
Goto(p, step) ==
    /\ pc' = [pc EXCEPT ![p] = step]
    /\ arg' = [arg EXCEPT ![p] = IF step = "user" THEN None ELSE @]
    /\ UNCHANGED rest

Down(kind) ==
    /\ fault' = kind
    /\ UNCHANGED <<txVars, calls, objVars, ghostVars>>

-----------------------------------------------------------------------------
(* The inode table and the sleep-locks.  A step goes from one label to the  *)
(* next.                                                                    *)

idup(p, o, from, to) ==
    /\ At(p, from)
    /\ ref' = [ref EXCEPT ![o] = @ + 1]
    /\ Goto(p, to)
    /\ UNCHANGED <<txVars, writer, slock, val, fault, ghostVars>>

\* ilock panics.
NotInUse(o) == ref[o] < 1 \/ val[o] = Freed

iunlock(p, o, from, to) ==
    /\ At(p, from)
    /\ IF slock[o] # p \/ ref[o] < 1 THEN Down("panic")
       ELSE /\ slock' = [slock EXCEPT ![o] = None]
            /\ seen' = [seen EXCEPT ![p] = {}]
            /\ Goto(p, to)
            /\ UNCHANGED <<txVars, writer, ref, val, fault, version, clock,
                           published, aborted>>

\* The rest of iput: the last reference to an inode without links frees it.
DropRef(o) ==
    /\ ref' = [ref EXCEPT ![o] = @ - 1]
    /\ val' = IF ref[o] = 1 /\ val[o] # Freed /\ val[o].links = {}
              THEN [val EXCEPT ![o] = Freed] ELSE val

\* Mutant: iput is not put off inside a transaction.
Put_at_once(p, o) == DropRef(o)

\* Inside an active transaction iput is put off to the end of it.
Put(p, o) == IF Active(p) THEN UNCHANGED <<ref, val>> ELSE DropRef(o)

iput(p, o, from, to) ==
    /\ At(p, from)
    /\ Put(p, o)
    /\ Goto(p, to)
    /\ UNCHANGED <<txVars, writer, slock, fault, ghostVars>>

-----------------------------------------------------------------------------
(* Shadow copies: txshadow behind idata and bdata, and the mid-call abort.  *)

\* Mutant: txshadow does not look at xobj.writer.
RefusedWhenFull(p, o) ==
    shadow[p][o] = None /\ Cardinality(Workset(p)) >= MAX_WORKSET

\* txshadow returns 0: no entry, and the workset is full or the object has
\* another writer.
Refused(p, o) ==
    /\ shadow[p][o] = None
    /\ \/ Cardinality(Workset(p)) >= MAX_WORKSET
       \/ writer[o] \notin {None, p}

\* Every shadow page is freed and every buffer unpinned, iput is put off
\* because the status is still TX_ACTIVE, and klongjmp drops the rest of the
\* call and makes txbegin return -1.  The undo list is always empty.
Unwind(p) ==
    /\ shadow' = [shadow EXCEPT ![p] =
                      [x \in Obj |-> IF @[x] = None THEN None ELSE Freed]]
    /\ ref' = [x \in Obj |-> IF x \in Buf \cap Workset(p) THEN ref[x] - 1 ELSE ref[x]]
    /\ Goto(p, "user")
    /\ conflict' = [conflict EXCEPT ![p] = TRUE]
    /\ aborted' = aborted \cup {version[p]}
    /\ UNCHANGED <<status, ofile, writer, slock, val, fault, version, clock, seen,
                   published>>

\* iunlock(ip) and tx_abort_now(ip), from idata.
tx_abort_now(p) ==
    IF \E x \in Obj : shadow[p][x] = Freed THEN Down("dangling") ELSE Unwind(p)

\* The inode is locked, and inside a transaction it has a shadow.
Access(p, o, to) ==
    /\ slock' = [slock EXCEPT ![o] = p]
    /\ IF Active(p)
       THEN /\ shadow' = [shadow EXCEPT ![p][o] = Sees(p, o)]
            /\ writer' = [writer EXCEPT ![o] = p]
       ELSE UNCHANGED <<shadow, writer>>
    /\ seen' = [seen EXCEPT ![p] = {Sees(p, o).v}]
    /\ Goto(p, to)
    /\ UNCHANGED <<status, ofile, conflict, ref, val, fault, version, clock,
                   published, aborted>>

\* ilock(ip) and idata(ip), with which every access to an inode begins.
idata(p, o, from, to) ==
    /\ At(p, from)
    /\ IF NotInUse(o) THEN Down("panic")
       ELSE /\ slock[o] = None
            /\ IF Active(p) /\ Refused(p, o) THEN tx_abort_now(p)
               ELSE IF Sees(p, o) = Freed THEN Down("dangling")
               ELSE Access(p, o, to)

\* A new shadow pins the buffer.
Pin(p, b) == IF b \in Workset(p) THEN ref ELSE [ref EXCEPT ![b] = @ + 1]

\* Content c is left in the buffer, or in its shadow.  newly_allocated is never
\* 1, because bread and bpin have each counted a reference.
Store(p, b, c, to) ==
    /\ IF Active(p)
       THEN /\ shadow' = [shadow EXCEPT ![p][b] = c]
            /\ writer' = [writer EXCEPT ![b] = p]
            /\ ref' = Pin(p, b)
            /\ UNCHANGED val
       ELSE /\ val' = [val EXCEPT ![b] = c]
            /\ UNCHANGED <<shadow, writer, ref>>
    /\ seen' = [seen EXCEPT ![p] = @ \cup {Sees(p, b).v}]
    /\ Goto(p, to)
    /\ UNCHANGED <<status, ofile, conflict, slock, fault, version, clock,
                   published, aborted>>

\* bread(b), bdata(b), leaving content c behind, and brelse(b).
UseBuf(p, b, c, to) ==
    /\ slock[b] = None
    /\ IF Active(p) /\ Refused(p, b) THEN Down("panic")
       ELSE IF Sees(p, b) = Freed THEN Down("dangling")
       ELSE Store(p, b, c, to)

readi(p, b, from, to) == At(p, from) /\ UseBuf(p, b, Sees(p, b), to)

writei(p, b, from, to) ==
    /\ At(p, from)
    /\ UseBuf(p, b, [Sees(p, b) EXCEPT !.v = version[p]], to)

\* unlink panics if the file has no link, and clears its directory entry.
clear_entry(p, f, from, to) ==
    /\ At(p, from)
    /\ IF Sees(p, f).links = {} THEN Down("panic")
       ELSE UseBuf(p, DirBuf, [Sees(p, DirBuf) EXCEPT !.v = version[p],
                                                    !.links = @ \ {f}], to)

\* Mutant: the field is stored in the inode and not in its shadow.
SetInodeInPlace(p, o, c, to) ==
    /\ val' = [val EXCEPT ![o] = c]
    /\ slock' = [slock EXCEPT ![o] = None]
    /\ seen' = [seen EXCEPT ![p] = {}]
    /\ Goto(p, to)
    /\ UNCHANGED <<txVars, writer, ref, fault, version, clock, published, aborted>>

\* p stores c through the pointer idata gave it and unlocks the inode.
SetInode(p, o, c, to) ==
    /\ IF Active(p)
       THEN shadow' = [shadow EXCEPT ![p][o] = c] /\ UNCHANGED val
       ELSE val' = [val EXCEPT ![o] = c] /\ UNCHANGED shadow
    /\ slock' = [slock EXCEPT ![o] = None]
    /\ seen' = [seen EXCEPT ![p] = {}]
    /\ Goto(p, to)
    /\ UNCHANGED <<status, ofile, conflict, writer, ref, fault, version, clock,
                   published, aborted>>

\* The end of writei: the new size, iupdate, iunlock.
set_size(p, f, from, to) ==
    /\ At(p, from)
    /\ SetInode(p, f, [Sees(p, f) EXCEPT !.v = version[p]], to)

\* The end of unlink: nlink--, iupdate, iunlock.
drop_link(p, f, from, to) ==
    /\ At(p, from)
    /\ SetInode(p, f, [Sees(p, f) EXCEPT !.v = version[p], !.links = {}], to)

\* The end of dirlookup in the locked directory: iget of the file found,
\* which gives a table entry nobody referenced a fresh xobj; or the way out
\* of open and unlink when the name is not there.
iget(p, f, from, to) ==
    /\ At(p, from)
    /\ IF f \in Sees(p, DirBuf).links
       THEN /\ ref' = [ref EXCEPT ![f] = @ + 1]
            /\ writer' = IF ref[f] = 0 THEN [writer EXCEPT ![f] = None] ELSE writer
            /\ Goto(p, to)
       ELSE Goto(p, "miss_unlock") /\ UNCHANGED <<ref, writer>>
    /\ UNCHANGED <<txVars, slock, val, fault, ghostVars>>

\* The end of open: filealloc, fdalloc, iunlock.
fdalloc(p, f, from, to) ==
    /\ At(p, from)
    /\ ofile' = [ofile EXCEPT ![p] = @ \cup {f}]
    /\ slock' = [slock EXCEPT ![f] = None]
    /\ seen' = [seen EXCEPT ![p] = {}]
    /\ Goto(p, to)
    /\ UNCHANGED <<status, shadow, conflict, writer, ref, val, fault, version,
                   clock, published, aborted>>

-----------------------------------------------------------------------------
(* The file-system calls, step by step.                                     *)

\* open of an existing file, without O_CREATE and O_TRUNC: namei of a
\* one-element path, up to the put of the directory, then the file.
Open(p) == LET f == arg[p] IN
    \/ idup(p, cwd, "open", "open_dir")
    \/ idata(p, cwd, "open_dir", "open_look")
    \/ readi(p, DirBuf, "open_look", "open_iget")
    \/ iget(p, f, "open_iget", "open_unlock")
    \/ iunlock(p, cwd, "open_unlock", "open_put")
    \/ iput(p, cwd, "open_put", "open_file")
    \/ idata(p, f, "open_file", "open_fd")
    \/ fdalloc(p, f, "open_fd", "user")

\* The name is not in the directory.
Miss(p) ==
    \/ iunlock(p, cwd, "miss_unlock", "miss_put")
    \/ iput(p, cwd, "miss_put", "user")

Read(p) == LET f == arg[p] IN
    \/ idata(p, f, "read", "read_data")
    \/ readi(p, DataBuf[f], "read_data", "read_unlock")
    \/ iunlock(p, f, "read_unlock", "user")

Write(p) == LET f == arg[p] IN
    \/ idata(p, f, "write", "write_data")
    \/ writei(p, DataBuf[f], "write_data", "write_size")
    \/ set_size(p, f, "write_size", "user")

Close(p) == iput(p, arg[p], "close", "user")

\* nameiparent locks the directory only once, to see that it is one.
Unlink(p) == LET f == arg[p] IN
    \/ idup(p, cwd, "unlink", "unlink_parent")
    \/ idata(p, cwd, "unlink_parent", "unlink_found")
    \/ iunlock(p, cwd, "unlink_found", "unlink_dir")
    \/ idata(p, cwd, "unlink_dir", "unlink_look")
    \/ readi(p, DirBuf, "unlink_look", "unlink_iget")
    \/ iget(p, f, "unlink_iget", "unlink_file")
    \/ idata(p, f, "unlink_file", "unlink_clear")
    \/ clear_entry(p, f, "unlink_clear", "unlink_unlock")
    \/ iunlock(p, cwd, "unlink_unlock", "unlink_put")
    \/ iput(p, cwd, "unlink_put", "unlink_drop")
    \/ drop_link(p, f, "unlink_drop", "unlink_done")
    \/ iput(p, f, "unlink_done", "user")

\* p is in user mode.  A program that was told of a conflict only calls
\* txbegin again when RetryOnly holds.
UserMode(p) ==
    /\ fault = "none"
    /\ pc[p] = "user"
    /\ RetryOnly => ~conflict[p]

MayCall(p, call) ==
    UserMode(p) /\ call \in IF Active(p) THEN mix.tx ELSE mix.plain

Enter(p, step, f) ==
    /\ pc' = [pc EXCEPT ![p] = step]
    /\ arg' = [arg EXCEPT ![p] = f]
    /\ UNCHANGED rest

sys_open(p, f) ==
    /\ MayCall(p, "open")
    /\ f \notin ofile[p]
    /\ ref[cwd] < MaxRef
    /\ Enter(p, "open", f)
    /\ UNCHANGED <<txVars, objVars, fault, ghostVars>>

sys_close(p, f) ==
    /\ UserMode(p) /\ f \in ofile[p]
    /\ ofile' = [ofile EXCEPT ![p] = @ \ {f}]
    /\ Enter(p, "close", f)
    /\ UNCHANGED <<status, shadow, conflict, objVars, fault, ghostVars>>

sys_read(p, f) ==
    /\ MayCall(p, "read") /\ f \in ofile[p]
    /\ Enter(p, "read", f)
    /\ UNCHANGED <<txVars, objVars, fault, ghostVars>>

\* A plain call writes under a new version, a transaction under its own.
NumberWrite(p) ==
    IF Active(p) THEN UNCHANGED <<clock, version, published>>
    ELSE /\ clock < MaxVersion
         /\ clock' = clock + 1
         /\ version' = [version EXCEPT ![p] = clock']
         /\ published' = published \cup {clock'}

sys_write(p, f) ==
    /\ MayCall(p, "write") /\ f \in ofile[p]
    /\ NumberWrite(p)
    /\ Enter(p, "write", f)
    /\ UNCHANGED <<txVars, objVars, fault, seen, aborted>>

sys_unlink(p, f) ==
    /\ MayCall(p, "unlink")
    /\ ref[cwd] < MaxRef
    /\ NumberWrite(p)
    /\ Enter(p, "unlink", f)
    /\ UNCHANGED <<txVars, objVars, fault, seen, aborted>>

-----------------------------------------------------------------------------
(* txbegin, txcommit and txabort.                                           *)

\* txbegin forgets the old workset whatever the status was.
sys_txbegin(p) ==
    /\ fault = "none" /\ pc[p] = "user"
    /\ OpenInside => ofile[p] = {}
    /\ clock < MaxVersion
    /\ status' = [status EXCEPT ![p] = "ACTIVE"]
    /\ shadow' = [shadow EXCEPT ![p] = [o \in Obj |-> None]]
    /\ conflict' = [conflict EXCEPT ![p] = FALSE]
    /\ clock' = clock + 1
    /\ version' = [version EXCEPT ![p] = clock']
    /\ UNCHANGED <<ofile, calls, objVars, fault, seen, published, aborted>>

\* The first loop over the workset, or the end if there is no entry.
Loop(p, step) ==
    /\ pc' = [pc EXCEPT ![p] = IF Workset(p) = {} THEN "txdone" ELSE step]
    /\ rest' = [rest EXCEPT ![p] = Workset(p)]
    /\ UNCHANGED arg

sys_txcommit(p) ==
    /\ UserMode(p) /\ Active(p)
    /\ OpenInside => ofile[p] = {}
    /\ status' = [status EXCEPT ![p] = "COMMITTED"]
    /\ published' = published \cup {version[p]}
    /\ Loop(p, "commit_lock")
    /\ UNCHANGED <<shadow, ofile, conflict, objVars, fault, version, clock,
                   seen, aborted>>

sys_txabort(p) ==
    /\ UserMode(p) /\ Active(p)
    /\ OpenInside => ofile[p] = {}
    /\ status' = [status EXCEPT ![p] = "ABORTED"]
    /\ aborted' = aborted \cup {version[p]}
    /\ Loop(p, "abort_lock")
    /\ UNCHANGED <<shadow, ofile, conflict, objVars, fault, version, clock,
                   seen, published>>

\* A loop visits the entries in the order of the addresses of their headers.
Visit(p, o, step) ==
    /\ At(p, step)
    /\ o \in rest[p] /\ \A x \in rest[p] : Addr[o] <= Addr[x]

\* The next round of a loop, or the loop after it.
Round(p, o, step, after) ==
    /\ IF rest[p] = {o}
       THEN /\ pc' = [pc EXCEPT ![p] = after]
            /\ rest' = [rest EXCEPT ![p] = Workset(p)]
       ELSE /\ pc' = [pc EXCEPT ![p] = step]
            /\ rest' = [rest EXCEPT ![p] = @ \ {o}]
    /\ UNCHANGED arg

lock_fn(p, o, step, after) ==
    /\ Visit(p, o, step)
    /\ IF o \in Inode /\ NotInUse(o) THEN Down("panic")
       ELSE /\ slock[o] = None
            /\ slock' = [slock EXCEPT ![o] = p]
            /\ Round(p, o, step, after)
            /\ UNCHANGED <<txVars, writer, ref, val, fault, ghostVars>>

\* The stable page is freed and the shadow page takes its place.
swap_data(p, o, step, after) ==
    /\ Visit(p, o, step)
    /\ IF shadow[p][o] = Freed THEN Down("dangling")
       ELSE /\ val' = [val EXCEPT ![o] = shadow[p][o]]
            /\ Round(p, o, step, after)
            /\ UNCHANGED <<txVars, writer, slock, ref, fault, ghostVars>>

unlock_fn(p, o, step, after) ==
    /\ Visit(p, o, step)
    /\ IF o \in Inode /\ (slock[o] # p \/ ref[o] < 1) THEN Down("panic")
       ELSE /\ slock' = [slock EXCEPT ![o] = None]
            /\ Round(p, o, step, after)
            /\ UNCHANGED <<txVars, writer, ref, val, fault, ghostVars>>

\* iput, or bunpin.
Drop(p, o) ==
    IF o \in Inode THEN Put(p, o) ELSE ref' = [ref EXCEPT ![o] = @ - 1] /\ UNCHANGED val

\* inode_commit and buf_commit, without what they do to the disk; and the end
\* of inode_abort and buf_abort, from which the loop goes on at step.
commit_fn(p, o, from, step, after) ==
    /\ Visit(p, o, from)
    /\ Drop(p, o)
    /\ Round(p, o, step, after)
    /\ UNCHANGED <<txVars, writer, slock, fault, ghostVars>>

\* inode_abort and buf_abort free the shadow page first.
abort_fn(p, o, from, to) ==
    /\ Visit(p, o, from)
    /\ IF shadow[p][o] = Freed THEN Down("dangling")
       ELSE /\ shadow' = [shadow EXCEPT ![p][o] = Freed]
            /\ Goto(p, to)
            /\ UNCHANGED <<status, ofile, conflict, objVars, fault, ghostVars>>

\* workset_size = 0 and kjmp_valid = 0.
txdone(p) ==
    /\ At(p, "txdone")
    /\ shadow' = [shadow EXCEPT ![p] = [x \in Obj |-> None]]
    /\ pc' = [pc EXCEPT ![p] = "user"]
    /\ rest' = [rest EXCEPT ![p] = {}]
    /\ UNCHANGED <<arg, status, ofile, conflict, objVars, fault, ghostVars>>

\* Mutant: txcommit swaps without locking.
Commit_unlocked(p) == \E o \in Obj :
    \/ swap_data(p, o, "commit_lock", "commit_put")
    \/ commit_fn(p, o, "commit_put", "commit_put", "txdone")

\* The four loops of txcommit.
Commit(p) == \E o \in Obj :
    \/ lock_fn(p, o, "commit_lock", "commit_swap")
    \/ swap_data(p, o, "commit_swap", "commit_unlock")
    \/ unlock_fn(p, o, "commit_unlock", "commit_put")
    \/ commit_fn(p, o, "commit_put", "commit_put", "txdone")

\* The three loops of txabort.
Abort(p) == \E o \in Obj :
    \/ lock_fn(p, o, "abort_lock", "abort_unlock")
    \/ unlock_fn(p, o, "abort_unlock", "abort_free")
    \/ abort_fn(p, o, "abort_free", "abort_put")
    \/ commit_fn(p, o, "abort_put", "abort_free", "txdone")

-----------------------------------------------------------------------------
Syscall(p) ==
    \/ sys_txbegin(p) \/ sys_txcommit(p) \/ sys_txabort(p)
    \/ \E f \in File : \/ sys_open(p, f) \/ sys_close(p, f) \/ sys_read(p, f)
                       \/ sys_write(p, f) \/ sys_unlink(p, f)

KernelStep(p) ==
    \/ Open(p) \/ Miss(p) \/ Read(p) \/ Write(p) \/ Close(p) \/ Unlink(p)
    \/ Commit(p) \/ Abort(p) \/ txdone(p)

Next == UNCHANGED mix /\ \E p \in Proc : Syscall(p) \/ KernelStep(p)

Spec == Init /\ [][Next]_vars

-----------------------------------------------------------------------------
(* Correctness.                                                             *)

\* The kernel neither panics nor follows a freed shadow page.
NoFault == fault = "none"

\* No object is in the worksets of two active transactions: the writer field
\* that txshadow checks always names the transaction that holds a shadow.
WriterExclusion ==
    \A p \in Proc : Active(p) /\ ~conflict[p] =>
        \A o \in Workset(p) : writer[o] = p

\* The stable contents are never those of a transaction that has not
\* committed: writes go to the shadow, and an abort leaves no trace.
NoDirtyData ==
    \A o \in Obj : val[o] # Freed => val[o].v \in published \ aborted

\* A read call sees the inode and the data block of one and the same version:
\* txcommit publishes the objects of a transaction together (all locks are
\* taken before the first swap and dropped after the last).  unlink changes
\* the block of a directory and not its inode, so the versions only compare
\* in the mixes without it.
NoTornRead ==
    "unlink" \notin mix.tx => \A p \in Proc : \A v, w \in seen[p] : v = w

\* A process in user mode holds no sleep-lock.
NoLockInUserMode ==
    \A p \in Proc, o \in Obj : pc[p] = "user" => slock[o] # p

\* An entry of a directory nobody is writing names an inode with a link: a
\* transaction that looked up the name keeps the others from unlinking it, and
\* txcommit swaps the directory and the inode before it unlocks either.
EntryHasLink ==
    slock[DirBuf] = None =>
        \A f \in File :
            f \in val[DirBuf].links => val[f] # Freed /\ val[f].links # {}
=============================================================================
