---------------------------- MODULE TxLinkProofs ----------------------------
(***************************************************************************)
(* No panic, no dangling shadow, no lock that stays behind, no entry       *)
(* without an inode and no torn read: what Tx guarantees when transactions *)
(* do not outgrow their worksets.                                          *)
(***************************************************************************)
EXTENDS TxStepProofs

\* A transaction never fills its workset.
Fits == \A S \in SUBSET Obj : S # Obj => ~(Cardinality(S) >= MAX_WORKSET)

\* Programs unlink inside transactions only.
UnlinkInside == \A m \in Mixes : "unlink" \notin m.plain

\* Programs that do not unlink write inside transactions only.
WriteInside ==
    \A m \in Mixes : "unlink" \in m.tx \/ ("write" \notin m.plain /\ "unlink" \notin m.plain)

-----------------------------------------------------------------------------
(* The inductive invariant.                                                 *)

\* p has the sleep-lock of o.
Holds(p, o) ==
    \/ pc[p] \in HoldsDir /\ o = cwd
    \/ pc[p] \in HoldsFile /\ o = arg[p]
    \/ pc[p] \in Locking /\ o \in Workset(p) \ rest[p]
    \/ pc[p] = "commit_swap" /\ o \in Workset(p)
    \/ pc[p] \in Unlocking /\ o \in rest[p]

LockInv == \A p \in Proc, o \in Obj : slock[o] = p <=> Holds(p, o)

\* The writer field is never cleared while an inode stays in the table, and cwd
\* always does: one process has all the worksets.
OwnerInv ==
    /\ \A p \in Proc : Workset(p) # {} => writer[cwd] = p
    /\ \A o \in Obj : writer[o] \in {None, writer[cwd]}

\* A conflict is met at the first access of a transaction, and the shadow pages
\* are freed once, in the order of their addresses.
ShadowOf(p) ==
    /\ conflict[p] => Workset(p) = {}
    /\ \A o \in Obj : shadow[p][o] = Freed =>
         \/ pc[p] = "txdone"
         \/ pc[p] = "abort_free" /\ o \notin rest[p]
         \/ pc[p] = "abort_put" /\ (o \in rest[p] => \A x \in rest[p] : Addr[o] <= Addr[x])

ShadowInv == \A p \in Proc : ShadowOf(p)

FreedInv == \A o \in Obj : val[o] = Freed => o \in Inode /\ ref[o] = 0

\* The transaction of p may still publish something; what it has not published
\* yet; what is stable once it has.
Unpublished(p) == Active(p) \/ pc[p] \in {"commit_lock", "commit_swap"}
Pending(p) == IF pc[p] = "commit_swap" THEN rest[p] ELSE Workset(p)
View(p, o) == IF o \in Pending(p) THEN shadow[p][o] ELSE val[o]

Swapping == \E q \in Proc : pc[q] = "commit_swap"

Linked(c) == c # Freed /\ c.links # {}

\* The entries of the stable directory, and of the one that p will leave behind.
EntryStable == \A f \in File : f \in val[DirBuf].links => Linked(val[f])
EntryOf(p) == \A f \in File : f \in View(p, DirBuf).links => Linked(View(p, f))

EntryInv ==
    /\ ~Swapping => EntryStable
    /\ \A p \in Proc : Unpublished(p) /\ DirBuf \in Workset(p) => EntryOf(p)

UnlinkOf(p) ==
    /\ pc[p] \in Unlinking => Active(p)
    /\ pc[p] \in {"unlink_file", "unlink_clear"} => arg[p] \in shadow[p][DirBuf].links
    /\ pc[p] \in {"unlink_unlock", "unlink_put", "unlink_drop"} =>
          arg[p] \notin shadow[p][DirBuf].links

UnlinkInv == \A p \in Proc : UnlinkOf(p)

\* With worksets that never fill, and no plain unlink.
LInv == /\ BInv /\ NoFault
        /\ LockInv /\ OwnerInv /\ ShadowInv /\ FreedInv /\ EntryInv /\ UnlinkInv

\* An inode that is not freed has the version of its block.
SameVersion(c, d) == c # Freed => c.v = d.v
StableSame(i) == SameVersion(val[i], val[DataBuf[i]])
ViewSame(p, i) == SameVersion(View(p, i), View(p, DataBuf[i]))

\* Whose block is in a workset is there itself; and what a read or a write has
\* seen, and left behind, at a point.
TornOf(p) ==
    /\ \A i \in Inode : DataBuf[i] \in Workset(p) => i \in Workset(p)
    /\ Unpublished(p) /\ Workset(p) # {} =>
          \A i \in Inode : ViewSame(p, i) \/ (pc[p] = "write_size" /\ i = arg[p])
    /\ pc[p] \notin Unlinking
    /\ pc[p] \in Writing => Active(p)
    /\ pc[p] = "open_look" => seen[p] = {Sees(p, cwd).v}
    /\ pc[p] \in {"read_data", "write_data"} => seen[p] = {Sees(p, arg[p]).v}
    /\ pc[p] = "write_size" => /\ DataBuf[arg[p]] \in Workset(p)
                               /\ shadow[p][DataBuf[arg[p]]].v = version[p]
    /\ \A v, w \in seen[p] : v = w

\* In a mix without unlink the versions of an inode and of its block agree.
WholeInv ==
    /\ ~Swapping => \A i \in Inode : StableSame(i)
    /\ \A p \in Proc : TornOf(p)

TornInv == "unlink" \notin mix.tx => WholeInv

-----------------------------------------------------------------------------
(* Nothing brings the kernel down.                                          *)

\* What somebody uses is in the inode table, and not freed.
LEMMA InUse ==
    ASSUME RefInv, FreedInv, NEW q \in Proc, NEW k, NEW o \in Inode, Uses(q, k, o)
    PROVE  ref[o] \in Nat /\ ref[o] >= 1 /\ val[o] # Freed /\ ~NotInUse(o)
<1>1. <<q, k>> \in Users(o)
  BY UserPairs
<1>2. ref[o] \in Nat /\ ref[o] >= 1
  BY <1>1, CountSome DEF RefInv
<1>3. val[o] # Freed
  BY <1>2, Constants DEF FreedInv
<1> QED
  BY <1>2, <1>3 DEF NotInUse

\* The working directory always is.
LEMMA DirInUse ==
    ASSUME RefInv, FreedInv
    PROVE  ref[cwd] \in Nat /\ ref[cwd] >= 1 /\ val[cwd] # Freed /\ ~NotInUse(cwd)
<1>1. <<None, "cwd">> \in Users(cwd) /\ cwd \in Inode /\ cwd \in Obj
  BY UserPairs, Constants
<1>2. ref[cwd] \in Nat /\ ref[cwd] >= 1
  BY <1>1, CountSome DEF RefInv
<1>3. val[cwd] # Freed
  BY <1>1, <1>2 DEF FreedInv
<1> QED
  BY <1>2, <1>3 DEF NotInUse

\* Once a transaction has an entry, it gets all the others.
LEMMA NotRefused ==
    ASSUME Fits, OwnerInv, NEW p \in Proc, Workset(p) # {}, NEW o \in Obj
    PROVE  ~Refused(p, o)
<1> SUFFICES ASSUME Refused(p, o) PROVE FALSE
  OBVIOUS
<1>1. o \notin Workset(p) /\ Workset(p) \in SUBSET Obj /\ Workset(p) # Obj
  BY DEF Refused, Workset
<1>2. writer[o] \in {None, p}
  BY DEF OwnerInv
<1>3. ~(Cardinality(Workset(p)) >= MAX_WORKSET)
  BY <1>1 DEF Fits
<1> QED
  BY <1>2, <1>3 DEF Refused

\* A call in the kernel has not met a conflict; what it sees of an inode that is
\* in use, or of a buffer, is not freed.
LEMMA SeesContent ==
    ASSUME TypeOK, PhaseInv, StableInv, FreedInv, NEW p \in Proc, pc[p] # "user",
           NEW o \in Obj, o \in Buf \/ val[o] # Freed
    PROVE  /\ ~conflict[p] /\ Sees(p, o) \in Content
           /\ Active(p) => \A x \in Obj : shadow[p][x] # Freed
<1>1. ~conflict[p]
  BY DEF PhaseInv, PhaseOf
<1>2. Active(p) => \A x \in Obj : shadow[p][x] # Freed
  BY <1>1 DEF StableInv, StableOf
<1>3. val[o] # Freed
  BY TxAssumption DEF FreedInv
<1>4. Sees(p, o) # Freed
  BY <1>2, <1>3 DEF Sees
<1> QED
  BY <1>1, <1>2, <1>4, SeesType

\* ilock and idata of an inode in use,
LEMMA IdataKeepsUp ==
    ASSUME TypeOK, PhaseInv, StableInv, FreedInv, NEW p \in Proc, NEW o \in Obj,
           NEW from, NEW to, from # "user", ~NotInUse(o), idata(p, o, from, to)
    PROVE  UNCHANGED fault
<1>1. pc[p] # "user" /\ val[o] # Freed
  BY DEF idata, At, NotInUse
<1>2. Sees(p, o) # Freed /\ (Active(p) => \A x \in Obj : shadow[p][x] # Freed)
  BY <1>1, SeesContent, Constants
<1> QED
  BY <1>2 DEF idata, tx_abort_now, Unwind, Access

\* bread and bdata once the transaction has an entry,
LEMMA BufKeepsUp ==
    ASSUME Fits, TypeOK, PhaseInv, StableInv, FreedInv, OwnerInv, NEW p \in Proc,
           NEW b \in Buf, NEW c, NEW to, pc[p] # "user", Active(p) => Workset(p) # {},
           UseBuf(p, b, c, to)
    PROVE  UNCHANGED fault
<1>1. b \in Obj /\ Sees(p, b) # Freed
  BY SeesContent, Constants
<1>2. Active(p) => ~Refused(p, b)
  BY <1>1, NotRefused
<1> QED
  BY <1>1, <1>2 DEF UseBuf, Store

\* and iunlock of what is locked.
LEMMA UnlockKeepsUp ==
    ASSUME LockInv, NEW p \in Proc, NEW o \in Obj, NEW from, NEW to, Holds(p, o),
           ref[o] \in Nat, ref[o] >= 1, iunlock(p, o, from, to)
    PROVE  UNCHANGED fault
<1>1. slock[o] = p
  BY DEF LockInv
<1> QED
  BY <1>1 DEF iunlock

\* The file of a call is in use once the call has a reference to it, or it is open.
LEMMA ArgInUse ==
    ASSUME PhaseInv, TouchInv, RefInv, FreedInv, NEW p \in Proc, pc[p] \notin Outside,
           pc[p] \in GotFile \cup OnFile
    PROVE  /\ arg[p] \in File /\ arg[p] \in Inode /\ arg[p] \in Obj
           /\ ref[arg[p]] \in Nat /\ ref[arg[p]] >= 1 /\ val[arg[p]] # Freed
           /\ ~NotInUse(arg[p])
<1>1. arg[p] \in File /\ arg[p] \in Inode /\ arg[p] \in Obj
  BY Constants DEF PhaseInv, PhaseOf
<1>2. \E k : Uses(p, k, arg[p])
  <2>1. CASE pc[p] \in GotFile
    BY <2>1 DEF Uses, UsesArg, UsesTx
  <2>2. CASE pc[p] \in OnFile
    <3>1. arg[p] \in ofile[p] /\ (Active(p) => arg[p] \in Workset(p))
      BY <2>2, Zenon DEF PhaseInv, PhaseOf, TouchInv, TouchOf
    <3> QED
      BY <3>1 DEF Uses, UsesFile, UsesTx
  <2> QED
    BY <2>1, <2>2
<1> QED
  BY <1>1, <1>2, InUse

\* No step of a call does,
LEMMA StepKeepsUp ==
    ASSUME Fits, LInv, NEW p \in Proc, Stepping(p)
    PROVE  UNCHANGED fault
<1>0. /\ TypeOK /\ PhaseInv /\ TouchInv /\ StableInv /\ RefInv /\ LockInv /\ OwnerInv
      /\ FreedInv /\ EntryInv /\ UnlinkInv
  BY DEF LInv, BInv
<1>c. cwd \in Obj /\ cwd \in Inode /\ DirBuf \in Buf
  BY Constants
<1>d. ref[cwd] \in Nat /\ ref[cwd] >= 1 /\ ~NotInUse(cwd)
  BY <1>0, DirInUse
<1>u. "user" \in Outside
  BY LoopPoints
<1>w. Active(p) /\ pc[p] \in Looking \cup SawBuf \cup SawFile => Workset(p) # {}
  BY <1>0 DEF TouchInv, TouchOf
<1>1. ASSUME NEW t \in Idups, idup(p, cwd, t[1], t[2])
      PROVE  UNCHANGED fault
  BY <1>1 DEF idup
<1>2. ASSUME NEW t \in DirSteps, idata(p, cwd, t[1], t[2])
      PROVE  UNCHANGED fault
  <2>1. t[1] # "user"
    BY <1>u, DirStepPoints
  <2> QED
    BY <1>0, <1>2, <1>c, <1>d, <2>1, IdataKeepsUp
<1>3. ASSUME NEW t \in FileSteps, idata(p, arg[p], t[1], t[2])
      PROVE  UNCHANGED fault
  <2>1. pc[p] = t[1] /\ t[1] # "user" /\ pc[p] \notin Outside /\ pc[p] \in GotFile \cup OnFile
    BY <1>3, <1>u, FileStepPoints DEF idata, At
  <2>2. arg[p] \in Obj /\ ~NotInUse(arg[p])
    BY <1>0, <2>1, ArgInUse
  <2> QED
    BY <1>0, <1>3, <2>1, <2>2, IdataKeepsUp, Zenon
<1>b. ASSUME NEW b \in Buf, NEW c, NEW to, UseBuf(p, b, c, to), pc[p] # "user",
             pc[p] \in Looking \cup SawBuf \cup SawFile
      PROVE  UNCHANGED fault
  BY <1>0, <1>b, <1>w, BufKeepsUp
<1>4. ASSUME NEW t \in Lookups, readi(p, DirBuf, t[1], t[2])
      PROVE  UNCHANGED fault
  <2>1. pc[p] = t[1] /\ pc[p] # "user" /\ pc[p] \in Looking
    BY <1>4, <1>u, LookupPoints, Zenon DEF readi, At
  <2> QED
    BY <1>4, <1>b, <1>c, <2>1 DEF readi
<1>a. ASSUME pc[p] \in {"read_data", "write_data", "unlink_clear"}
      PROVE  pc[p] # "user" /\ pc[p] \in SawFile /\ DataBuf[arg[p]] \in Buf
  <2>1. pc[p] \notin Outside /\ pc[p] \in SawFile
    BY <1>a DEF Outside, CommitLoop, AbortLoop, SawFile, HoldsFile
  <2> QED
    BY <1>0, <2>1, <1>u, Constants DEF PhaseInv, PhaseOf
<1>5. CASE readi(p, DataBuf[arg[p]], "read_data", "read_unlock")
  <2>1. pc[p] # "user" /\ pc[p] \in SawFile /\ DataBuf[arg[p]] \in Buf
    BY <1>5, <1>a DEF readi, At
  <2> QED
    BY <1>5, <1>b, <2>1 DEF readi
<1>6. CASE writei(p, DataBuf[arg[p]], "write_data", "write_size")
  <2>1. pc[p] # "user" /\ pc[p] \in SawFile /\ DataBuf[arg[p]] \in Buf
    BY <1>6, <1>a DEF writei, At
  <2> QED
    BY <1>6, <1>b, <2>1 DEF writei
<1>7. CASE clear_entry(p, arg[p], "unlink_clear", "unlink_unlock")
  <2>1. pc[p] = "unlink_clear" /\ pc[p] # "user" /\ pc[p] \in SawFile
    BY <1>7, <1>a DEF clear_entry, At
  <2>2. pc[p] \in Unlinking /\ pc[p] \in SawBuf /\ pc[p] \notin Outside
    BY <2>1 DEF Unlinking, SawBuf, Outside, CommitLoop, AbortLoop
  <2>3. Active(p) /\ arg[p] \in shadow[p][DirBuf].links /\ arg[p] \in File
    BY <1>0, <2>1, <2>2 DEF UnlinkInv, UnlinkOf, PhaseInv, PhaseOf
  <2>4. DirBuf \in Workset(p) /\ arg[p] \in Workset(p)
    BY <1>0, <2>1, <2>2, <2>3 DEF TouchInv, TouchOf
  <2>5. View(p, DirBuf) = shadow[p][DirBuf] /\ View(p, arg[p]) = shadow[p][arg[p]]
    BY <2>1, <2>4 DEF View, Pending
  <2>6. Linked(shadow[p][arg[p]])
    BY <1>0, <2>3, <2>4, <2>5, Zenon DEF EntryInv, EntryOf, Unpublished
  <2>7. Sees(p, arg[p]).links # {}
    BY <2>3, <2>4, <2>6, ZenonT(40) DEF Sees, Workset, Linked
  <2> QED
    BY <1>7, <1>b, <1>c, <2>1, <2>7, Zenon DEF clear_entry
<1>8. ASSUME NEW t \in Igets, iget(p, arg[p], t[1], t[2])
      PROVE  UNCHANGED fault
  BY <1>8 DEF iget
<1>9. ASSUME NEW t \in DirUnlocks, iunlock(p, cwd, t[1], t[2])
      PROVE  UNCHANGED fault
  <2>1. Holds(p, cwd)
    BY <1>9, DirUnlockPoints, Zenon DEF iunlock, At, Holds
  <2> QED
    BY <1>0, <1>9, <1>c, <1>d, <2>1, UnlockKeepsUp, ZenonT(40)
<1>10. CASE iunlock(p, arg[p], "read_unlock", "user")
  <2>1. /\ pc[p] = "read_unlock" /\ pc[p] \in OnFile /\ pc[p] \notin Outside
        /\ pc[p] \in HoldsFile
    BY <1>10 DEF iunlock, At, OnFile, Outside, CommitLoop, AbortLoop, HoldsFile
  <2>2. Holds(p, arg[p])
    BY <2>1 DEF Holds
  <2>3. arg[p] \in Obj /\ ref[arg[p]] \in Nat /\ ref[arg[p]] >= 1
    BY <1>0, <2>1, ArgInUse
  <2> QED
    BY <1>0, <1>10, <2>2, <2>3, UnlockKeepsUp, Zenon
<1>11. ASSUME NEW t, NEW o, iput(p, o, t[1], t[2])
       PROVE  UNCHANGED fault
  BY <1>11 DEF iput
<1>12. CASE \/ fdalloc(p, arg[p], "open_fd", "user")
            \/ set_size(p, arg[p], "write_size", "user")
            \/ drop_link(p, arg[p], "unlink_drop", "unlink_done")
  BY <1>12, Zenon DEF fdalloc, set_size, drop_link, SetInode
<1> QED
  BY <1>1, <1>2, <1>3, <1>4, <1>5, <1>6, <1>7, <1>8, <1>9, <1>10, <1>11, <1>12, ZenonT(40) DEF Stepping

\* no step of a loop,
LEMMA LoopKeepsUp ==
    ASSUME LInv, NEW p \in Proc, Looping(p)
    PROVE  UNCHANGED fault
<1>0. TypeOK /\ PhaseInv /\ RefInv /\ LockInv /\ FreedInv /\ ShadowInv
  BY DEF LInv, BInv
<1>v. ASSUME NEW o \in Obj, NEW t \in LoopSteps, Visit(p, o, t[1])
      PROVE  /\ pc[p] = t[1] /\ o \in rest[p] /\ o \in Workset(p)
             /\ (t[1] \in Sweeping /\ o \in Inode =>
                    ref[o] \in Nat /\ ref[o] >= 1 /\ ~NotInUse(o))
  <2>1. pc[p] = t[1] /\ o \in rest[p]
    BY <1>v DEF Visit, At
  <2>2. o \in Workset(p)
    BY <1>0, <2>1, LoopStepPoints DEF PhaseInv, PhaseOf
  <2>3. t[1] \in Sweeping => Uses(p, "tx", o)
    BY <2>1, <2>2 DEF Uses, UsesTx
  <2> QED
    BY <1>0, <2>1, <2>2, <2>3, InUse
<1>1. ASSUME NEW o \in Obj, NEW t \in LockLoops, lock_fn(p, o, t[1], t[2])
      PROVE  UNCHANGED fault
  <2>1. t \in LoopSteps /\ t[1] \in Sweeping
    BY LoopStepPoints, LoopPoints DEF LoopSteps
  <2>2. o \in Inode => ~NotInUse(o)
    BY <1>1, <1>v, <2>1, Zenon DEF lock_fn
  <2> QED
    BY <1>1, <2>2 DEF lock_fn
<1>2. ASSUME NEW o \in Obj, swap_data(p, o, "commit_swap", "commit_unlock")
      PROVE  UNCHANGED fault
  <2>1. shadow[p][o] # Freed
    BY <1>0, <1>2, Zenon DEF swap_data, Visit, At, ShadowInv, ShadowOf
  <2> QED
    BY <1>2, <2>1, Zenon DEF swap_data
<1>3. ASSUME NEW o \in Obj, NEW t \in UnlockLoops, unlock_fn(p, o, t[1], t[2])
      PROVE  UNCHANGED fault
  <2>1. t \in LoopSteps /\ t[1] \in Sweeping /\ t[1] \in Unlocking
    BY LoopStepPoints, LoopPoints, Zenon DEF LoopSteps
  <2>2. pc[p] = t[1] /\ o \in rest[p] /\ (o \in Inode => ref[o] \in Nat /\ ref[o] >= 1)
    BY <1>3, <1>v, <2>1, Zenon DEF unlock_fn
  <2>3. slock[o] = p
    BY <1>0, <2>1, <2>2 DEF LockInv, Holds
  <2> QED
    BY <1>3, <2>2, <2>3 DEF unlock_fn
<1>4. ASSUME NEW o \in Obj, abort_fn(p, o, "abort_free", "abort_put")
      PROVE  UNCHANGED fault
  <2>1. shadow[p][o] # Freed
    BY <1>0, <1>4 DEF abort_fn, Visit, At, ShadowInv, ShadowOf
  <2> QED
    BY <1>4, <2>1 DEF abort_fn
<1>5. ASSUME NEW o \in Obj, NEW t, commit_fn(p, o, t[1], t[2], "txdone")
      PROVE  UNCHANGED fault
  BY <1>5, Zenon DEF commit_fn
<1> QED
  BY <1>1, <1>2, <1>3, <1>4, <1>5, Zenon DEF Looping

\* and no system call as it begins or ends.
LEMMA SysKeepsUp ==
    ASSUME NEW p \in Proc, Syscall(p) \/ txdone(p)
    PROVE  UNCHANGED fault
BY DEF Syscall, sys_txbegin, sys_txcommit, sys_txabort, sys_open, sys_close, sys_read,
       sys_write, sys_unlink, txdone

-----------------------------------------------------------------------------
(* Locks.                                                                   *)

\* A conflict is met at the directory, by a transaction without an entry.
LEMMA UnwindFirst ==
    ASSUME Fits, PhaseInv, TouchInv, OwnerInv, NEW p \in Proc, NEW t, NEW o \in Inode,
           pc[p] = t[1], DidUnwind(p, t, o)
    PROVE  t \in DirSteps /\ o = cwd /\ Workset(p) = {}
<1>0. Active(p) /\ Refused(p, o) /\ o \in Obj
  BY Constants DEF DidUnwind
<1>1. Workset(p) = {}
  BY <1>0, NotRefused, Zenon
<1>2. t \notin FileSteps
  <2>1. CASE t \in FileSteps /\ t[1] \in OnFile
    BY <1>0, <1>1, <2>1, Zenon DEF PhaseInv, PhaseOf, TouchInv, TouchOf
  <2>2. CASE t \in FileSteps /\ t[1] \in SawBuf
    BY <1>0, <1>1, <2>2, ZenonT(40) DEF TouchInv, TouchOf
  <2> QED
    BY <2>1, <2>2, FileStepPoints, Zenon
<1> QED
  BY <1>1, <1>2, ZenonT(40) DEF DidUnwind, Accessing

\* Only p is to be looked at.
LEMMA LockFrame ==
    ASSUME LockInv, NEW p \in Proc, Others(p),
           \A o \in Obj : slock'[o] # slock[o] => slock[o] \in {None, p} /\ slock'[o] \in {None, p},
           \A o \in Obj : slock'[o] = p <=> Holds(p, o)'
    PROVE  LockInv'
<1>1. ASSUME NEW q \in Proc, q # p, NEW o \in Obj PROVE slock'[o] = q <=> Holds(q, o)'
  <2>1. Holds(q, o)' <=> Holds(q, o)
    BY <1>1 DEF Others, Holds, Workset
  <2>2. slock'[o] = q <=> slock[o] = q
    BY <1>1, Constants
  <2> QED
    BY <2>1, <2>2 DEF LockInv
<1> QED
  BY <1>1 DEF LockInv

\* p keeps its locks,
LEMMA LockKeep ==
    ASSUME LockInv, NEW p \in Proc, Others(p), UNCHANGED slock,
           \A o \in Obj : Holds(p, o)' <=> Holds(p, o)
    PROVE  LockInv'
<1>1. \A o \in Obj : slock'[o] = p <=> Holds(p, o)'
  BY DEF LockInv
<1> QED
  BY <1>1, LockFrame

\* takes one,
LEMMA LockTake ==
    ASSUME TypeOK, LockInv, NEW p \in Proc, Others(p), NEW x \in Obj, slock[x] = None,
           slock' = [slock EXCEPT ![x] = p],
           \A o \in Obj : Holds(p, o)' <=> (Holds(p, o) \/ o = x)
    PROVE  LockInv'
<1>0. \A o \in Obj : slock'[o] = IF o = x THEN p ELSE slock[o]
  BY DEF TypeOK
<1>1. \A o \in Obj : slock'[o] = p <=> Holds(p, o)'
  BY <1>0 DEF LockInv
<1> QED
  BY <1>0, <1>1, LockFrame

\* or gives one up.
LEMMA LockGive ==
    ASSUME TypeOK, LockInv, NEW p \in Proc, Others(p), NEW x \in Obj, slock[x] = p,
           slock' = [slock EXCEPT ![x] = None],
           \A o \in Obj : Holds(p, o)' <=> (Holds(p, o) /\ o # x)
    PROVE  LockInv'
<1>0. \A o \in Obj : slock'[o] = IF o = x THEN None ELSE slock[o]
  BY DEF TypeOK
<1>n. p # None
  BY Constants, Zenon
<1>1. \A o \in Obj : slock'[o] = p <=> Holds(p, o)'
  <2>1. \A o \in Obj : slock[o] = p <=> Holds(p, o)
    BY Zenon DEF LockInv
  <2> QED
    BY <1>0, <1>n, <2>1
<1> QED
  BY <1>0, <1>1, LockFrame, Zenon

\* The steps of the calls lock and unlock as their points say,
LEMMA StepLock ==
    ASSUME Fits, TypeOK, PhaseInv, TouchInv, OwnerInv, LockInv, NEW p \in Proc, NEW t,
           pc[p] = t[1], arg[p] \in File, Did(p, t), Others(p)
    PROVE  LockInv'
<1>s. /\ \A l : l \in Sweeping => l \in Outside /\ l # "user"
      /\ \A l : l \in Locking \cup Unlocking \cup {"commit_swap"} => l \in Sweeping
      /\ "user" \notin HoldsDir /\ "user" \notin HoldsFile
  <2>1. \A l : l \in Sweeping => l \in Outside /\ l # "user"
    BY Zenon DEF Sweeping, Outside, CommitLoop, AbortLoop
  <2> QED
    BY <2>1, LoopPoints, OutsidePoints
<1>a. arg[p] \in Obj /\ arg[p] \in Inode /\ arg[p] # cwd /\ cwd \in Obj /\ pc[p] \notin Outside
  BY Constants DEF PhaseInv, PhaseOf
<1> DEFINE Has(l, o) == (l \in HoldsDir /\ o = cwd) \/ (l \in HoldsFile /\ o = arg[p])
<1>h. ASSUME NEW l, Goto(p, l), l \notin Outside \/ l = "user", NEW o
      PROVE  Holds(p, o)' <=> Has(l, o)
  <2>1. pc'[p] = l /\ (l # "user" => arg'[p] = arg[p])
    BY <1>h, Zenon DEF Goto, TypeOK
  <2>2. l \notin Locking /\ l # "commit_swap" /\ l \notin Unlocking
    BY <1>h, <1>s, Zenon
  <2> QED
    BY <2>1, <2>2, <1>s, Zenon DEF Holds
<1>p. ASSUME NEW o PROVE Holds(p, o) <=> Has(t[1], o)
  BY <1>a, <1>s, Zenon DEF Holds
<1> HIDE DEF Has
<1>k. ASSUME NEW l, Goto(p, l), l \notin Outside \/ l = "user", UNCHANGED slock,
             l \in HoldsDir <=> t[1] \in HoldsDir, l \in HoldsFile <=> t[1] \in HoldsFile
      PROVE  LockInv'
  <2>1. \A o \in Obj : Has(l, o) <=> Has(t[1], o)
    BY <1>k, Zenon DEF Has
  <2>2. \A o \in Obj : Holds(p, o)' <=> Holds(p, o)
    BY <1>k, <1>h, <1>p, <2>1
  <2> QED
    BY <1>k, <2>2, LockKeep
<1>g. ASSUME NEW l, Goto(p, l), l \notin Outside \/ l = "user", NEW x \in Obj,
             slock' = [slock EXCEPT ![x] = None],
             \A o \in Obj : Has(l, o) <=> (Has(t[1], o) /\ o # x), Has(t[1], x)
      PROVE  LockInv'
  <2>1. \A o \in Obj : Holds(p, o)' <=> (Holds(p, o) /\ o # x)
    BY <1>g, <1>h, <1>p, Zenon
  <2>2. slock[x] = p
    BY <1>g, <1>p, Zenon DEF LockInv
  <2> QED
    BY <1>g, <2>1, <2>2, LockGive, ZenonT(40)
<1>1. CASE t \in Idups /\ idup(p, cwd, t[1], t[2])
  BY <1>1, <1>k, IdupPoints DEF idup
<1>2. ASSUME NEW o \in Inode, DidAccess(p, t, o)
      PROVE  LockInv'
  <2>0. /\ slock[o] = None /\ slock' = [slock EXCEPT ![o] = p] /\ Goto(p, t[2]) /\ o \in Obj
        /\ Accessing(p, t, o)
    BY <1>2, Constants DEF DidAccess, Access
  <2>1. \A x \in Obj : Has(t[2], x) <=> (Has(t[1], x) \/ x = o)
    BY <2>0, DirStepPoints, FileStepPoints, ZenonT(40) DEF Accessing, Has
  <2>2. t[2] \notin Outside
    BY <2>0, DirStepPoints, FileStepPoints, ZenonT(40) DEF Accessing
  <2>3. \A x \in Obj : Holds(p, x)' <=> (Holds(p, x) \/ x = o)
    BY <1>h, <1>p, <2>0, <2>1, <2>2, ZenonT(40)
  <2> QED
    BY <2>0, <2>3, LockTake, ZenonT(40)
<1>3. ASSUME NEW o \in Inode, DidUnwind(p, t, o)
      PROVE  LockInv'
  <2>1. t \in DirSteps
    BY <1>3, UnwindFirst, ZenonT(40)
  <2>2. t[1] \notin HoldsDir /\ t[1] \notin HoldsFile
    BY <2>1, DirStepPoints
  <2> QED
    BY <1>3, <1>k, <1>s, <2>2, ZenonT(40) DEF DidUnwind, Unwind
<1>4. ASSUME NEW b \in Buf, NEW c \in Content, DidStore(p, t, b, c)
      PROVE  LockInv'
  <2>1. t \in Lookups \/ t \in DataSteps
    BY <1>4, ZenonT(40) DEF DidStore, DataSteps
  <2>2. /\ t[2] \notin Outside /\ (t[2] \in HoldsDir <=> t[1] \in HoldsDir)
        /\ (t[2] \in HoldsFile <=> t[1] \in HoldsFile)
    BY <2>1, LookupPoints, DataStepPoints
  <2> QED
    BY <1>4, <1>k, <2>2 DEF DidStore, Store
<1>5. CASE t \in Igets /\ iget(p, arg[p], t[1], t[2])
  BY <1>5, <1>k, IgetPoints, EntryPoints, ZenonT(40) DEF iget
<1>6. ASSUME NEW o \in Inode, DidUnlock(p, t, o)
      PROVE  LockInv'
  <2>1. (t \in DirUnlocks /\ o = cwd) \/ (t \in FileUnlocks /\ t[2] = "user" /\ o = arg[p])
    <3>1. (t \in DirUnlocks /\ o = cwd) \/ (t = <<"read_unlock", "user">> /\ o = arg[p])
      BY <1>6, Zenon DEF DidUnlock
    <3>2. t = <<"read_unlock", "user">> => t \in FileUnlocks /\ t[2] = "user"
      BY DEF FileUnlocks
    <3> QED
      BY <3>1, <3>2, Zenon
  <2>2. /\ t[2] \notin Outside \/ t[2] = "user"
        /\ \A x \in Obj : Has(t[2], x) <=> (Has(t[1], x) /\ x # o)
        /\ Has(t[1], o)
    BY <2>1, <1>a, DirUnlockPoints, FileUnlockPoints DEF Has
  <2> QED
    BY <1>6, <1>g, <2>2, Constants, ZenonT(40) DEF DidUnlock
<1>7. ASSUME NEW o \in Inode, DidPut(p, t, o)
      PROVE  LockInv'
  <2>1. /\ t[2] \notin Outside \/ t[2] = "user"
        /\ (t[2] \in HoldsDir <=> t[1] \in HoldsDir)
        /\ (t[2] \in HoldsFile <=> t[1] \in HoldsFile)
    BY <1>7, DirPutPoints, FilePutPoints, ZenonT(40) DEF DidPut
  <2> QED
    BY <1>7, <1>k, <2>1, ZenonT(40) DEF DidPut, iput
<1>f. ASSUME t \in FileUnlocks
      PROVE  /\ t[2] \notin Outside \/ t[2] = "user"
             /\ \A x \in Obj : Has(t[2], x) <=> (Has(t[1], x) /\ x # arg[p])
             /\ Has(t[1], arg[p])
  <2>1. t[2] \notin Outside \/ t[2] = "user"
    BY <1>f DEF FileUnlocks, Outside, CommitLoop, AbortLoop
  <2> QED
    BY <1>f, <1>a, <2>1, FileUnlockPoints DEF Has
<1>8. CASE t = <<"open_fd", "user">> /\ fdalloc(p, arg[p], t[1], t[2])
  <2>1. t \in FileUnlocks
    BY <1>8 DEF FileUnlocks
  <2> QED
    BY <1>8, <1>a, <1>f, <1>g, <2>1, Zenon DEF fdalloc
<1>9. ASSUME NEW c \in Content, DidSet(p, t, c)
      PROVE  LockInv'
  <2>1. t \in FileUnlocks
    BY <1>9, Zenon DEF FileUnlocks, DidSet
  <2> QED
    BY <1>9, <1>a, <1>f, <1>g, <2>1, ZenonT(40) DEF DidSet, SetInode
<1> QED
  BY <1>1, <1>2, <1>3, <1>4, <1>5, <1>6, <1>7, <1>8, <1>9, ZenonT(40) DEF Did

\* those of the loops lock and unlock the whole workset,
LEMMA LoopLock ==
    ASSUME TypeOK, PhaseInv, LockInv, NEW p \in Proc, NEW t \in LoopSteps, NEW o \in Obj,
           pc[p] = t[1], o \in rest[p], o \in Workset(p), rest[p] \subseteq Workset(p),
           LoopDid(p, t, o), Others(p)
    PROVE  LockInv'
<1>s. \A l : l \in CommitLoop \cup AbortLoop \cup {"txdone"} => l \notin HoldsDir /\ l \notin HoldsFile
  BY LoopPoints, OutsidePoints, ZenonT(40)
<1>p. pc[p] \notin HoldsDir /\ pc[p] \notin HoldsFile
  BY <1>s, LoopStepPoints
<1>1. CASE DidLock(p, t, o)
  <2>1. Workset(p)' = Workset(p) /\ slock[o] = None /\ slock' = [slock EXCEPT ![o] = p]
    BY <1>1, Zenon DEF DidLock, txVars, Workset
  <2>2. /\ t[1] \in Locking /\ t[1] # "commit_swap" /\ t[1] \notin Unlocking
        /\ t[2] \notin Locking /\ (t[2] = "commit_swap" \/ t[2] \in Unlocking)
        /\ (t[2] = "commit_swap" => t[2] \notin Unlocking)
    <3>1. t \in LockLoops
      BY <1>1, Zenon DEF DidLock
    <3> QED
      BY <3>1 DEF LockLoops, Locking, Unlocking
  <2>3. \/ rest[p] = {o} /\ pc'[p] = t[2] /\ rest'[p] = Workset(p)
        \/ pc'[p] = t[1] /\ rest'[p] = rest[p] \ {o}
    <3>1. Round(p, o, t[1], t[2])
      BY <1>1, Zenon DEF DidLock
    <3> QED
      BY <3>1, RoundEffect
  <2>4. pc'[p] \notin HoldsDir /\ pc'[p] \notin HoldsFile
    BY <2>3, <1>s, LoopStepPoints, Zenon
  <2>5. \A x \in Obj : Holds(p, x) <=> x \in Workset(p) \ rest[p]
    BY <1>p, <2>2, Zenon DEF Holds
  <2>6. \A x \in Obj : Holds(p, x)' <=> (x \in Workset(p) \ rest[p] \/ x = o)
    BY <2>1, <2>2, <2>3, <2>4, Zenon DEF Holds
  <2> QED
    BY <2>1, <2>5, <2>6, LockTake, ZenonT(40)
<1>2. CASE DidSwap(p, t, o)
  <2>1. Workset(p)' = Workset(p) /\ UNCHANGED slock /\ t[1] = "commit_swap" /\ t[2] = "commit_unlock"
    BY <1>2, Zenon DEF DidSwap, txVars, Workset
  <2>3. \/ pc'[p] = t[2] /\ rest'[p] = Workset(p)
        \/ pc'[p] = t[1] /\ rest'[p] = rest[p] \ {o}
    <3>1. Round(p, o, t[1], t[2])
      BY <1>2, Zenon DEF DidSwap
    <3> QED
      BY <3>1, RoundEffect
  <2>4. pc'[p] \notin HoldsDir /\ pc'[p] \notin HoldsFile
    BY <2>3, <1>s, LoopStepPoints, Zenon
  <2>5. \A x \in Obj : Holds(p, x)' <=> Holds(p, x)
    BY <1>p, <2>1, <2>3, <2>4, Zenon DEF Holds, Locking, Unlocking
  <2> QED
    BY <2>1, <2>5, LockKeep, Zenon
<1>3. CASE DidRelease(p, t, o)
  <2>1. slock' = [slock EXCEPT ![o] = None] /\ Workset(p)' = Workset(p)
    BY <1>3, Zenon DEF DidRelease, txVars, Workset
  <2>2. /\ t[1] \in Unlocking /\ t[1] # "commit_swap" /\ t[1] \notin Locking
        /\ t[2] \notin Locking /\ t[2] # "commit_swap" /\ t[2] \notin Unlocking
    <3>1. t \in UnlockLoops
      BY <1>3, Zenon DEF DidRelease
    <3> QED
      BY <3>1 DEF UnlockLoops, Locking, Unlocking
  <2>3. \/ rest[p] = {o} /\ pc'[p] = t[2] /\ rest'[p] = Workset(p)
        \/ pc'[p] = t[1] /\ rest'[p] = rest[p] \ {o}
    <3>1. Round(p, o, t[1], t[2])
      BY <1>3, Zenon DEF DidRelease
    <3> QED
      BY <3>1, RoundEffect
  <2>4. pc'[p] \notin HoldsDir /\ pc'[p] \notin HoldsFile
    BY <2>3, <1>s, LoopStepPoints
  <2>5. \A x \in Obj : Holds(p, x) <=> x \in rest[p]
    BY <1>p, <2>2, Zenon DEF Holds
  <2>6. \A x \in Obj : Holds(p, x)' <=> (x \in rest[p] /\ x # o)
    BY <2>2, <2>3, <2>4, Zenon DEF Holds
  <2>7. slock[o] = p
    BY <2>5, Zenon DEF LockInv
  <2> QED
    BY <2>1, <2>5, <2>6, <2>7, LockGive, ZenonT(40)
<1>4. CASE DidFree(p, t, o) \/ DidDrop(p, t, o)
  <2>1. UNCHANGED slock /\ pc[p] \in Putting /\ pc'[p] \in Putting \cup {"txdone"}
    <3>1. CASE DidFree(p, t, o)
      BY <3>1, Zenon DEF DidFree, Goto, TypeOK, Putting, objVars
    <3>2. CASE DidDrop(p, t, o)
      <4>1. t \in PutLoops /\ UNCHANGED slock /\ Round(p, o, t[2], "txdone")
        BY <3>2, Zenon DEF DidDrop
      <4>2. pc'[p] \in {t[2], "txdone"}
        BY <4>1, RoundGoes
      <4> QED
        BY <4>1, <4>2, LoopStepPoints, Zenon
    <3> QED
      BY <1>4, <3>1, <3>2, Zenon
  <2>2. \A l : l \in Putting \cup {"txdone"} =>
           /\ l \notin Locking /\ l # "commit_swap" /\ l \notin Unlocking
           /\ l \in CommitLoop \cup AbortLoop \cup {"txdone"}
    BY DEF Putting, Locking, Unlocking, CommitLoop, AbortLoop
  <2>3. \A x \in Obj : ~Holds(p, x)
    BY <1>p, <2>1, <2>2 DEF Holds
  <2>4. \A x \in Obj : ~Holds(p, x)'
    BY <1>s, <2>1, <2>2, Zenon DEF Holds
  <2> QED
    BY <2>1, <2>3, <2>4, LockKeep, Zenon
<1> QED
  BY <1>1, <1>2, <1>3, <1>4, Zenon DEF LoopDid

\* and the system calls do not begin or end with a lock.
LEMMA SysLock ==
    ASSUME TypeOK, LockInv, NEW p \in Proc, Syscall(p) \/ txdone(p), Others(p)
    PROVE  LockInv'
<1>1. UNCHANGED slock
  BY Zenon DEF Syscall, sys_txbegin, sys_txcommit, sys_txabort, sys_open, sys_close, sys_read,
         sys_write, sys_unlink, txdone, objVars
<1> DEFINE Free == {"user", "txdone", "open", "close", "read", "write", "unlink"}
<1>f. \A l \in Free : /\ l \notin HoldsDir /\ l \notin HoldsFile
                      /\ l \notin Locking /\ l # "commit_swap" /\ l \notin Unlocking
  BY DEF HoldsDir, HoldsFile, Locking, Unlocking
<1>2. pc[p] \in {"user", "txdone"}
  BY ZenonT(40) DEF Syscall, sys_txbegin, sys_txcommit, sys_txabort, sys_open, sys_close, sys_read,
         sys_write, sys_unlink, txdone, MayCall, UserMode, At
<1>3. pc'[p] \in Free \/ (pc'[p] \in Locking /\ rest'[p] = Workset(p) /\ UNCHANGED shadow)
  <2>1. ASSUME NEW f, NEW l, Enter(p, l, f) PROVE pc'[p] = l
    BY <2>1, Zenon DEF Enter, TypeOK
  <2>2. CASE sys_txcommit(p) \/ sys_txabort(p)
    BY <2>2, ZenonT(40) DEF sys_txcommit, sys_txabort, Loop, Locking, TypeOK
  <2>3. CASE sys_txbegin(p) \/ txdone(p)
    BY <2>3, <1>2, ZenonT(40) DEF sys_txbegin, txdone, TypeOK, calls
  <2> QED
    BY <2>1, <2>2, <2>3, ZenonT(40)
       DEF Syscall, sys_open, sys_close, sys_read, sys_write, sys_unlink
<1> HIDE DEF Free
<1>4. \A o \in Obj : ~Holds(p, o)
  <2>1. pc[p] \in Free
    BY <1>2 DEF Free
  <2> QED
    BY <2>1, <1>f, Zenon DEF Holds
<1>5. \A o \in Obj : ~Holds(p, o)'
  <2>1. CASE pc'[p] \in Free
    BY <2>1, <1>f, Zenon DEF Holds
  <2>2. CASE pc'[p] \in Locking /\ rest'[p] = Workset(p) /\ UNCHANGED shadow
    <3>1. Workset(p)' = rest'[p]
      BY <2>2 DEF Workset
    <3>2. /\ pc'[p] \notin HoldsDir /\ pc'[p] \notin HoldsFile
          /\ pc'[p] # "commit_swap" /\ pc'[p] \notin Unlocking
      BY <2>2, ZenonT(40) DEF Locking, HoldsDir, HoldsFile, Unlocking
    <3> QED
      BY <3>1, <3>2 DEF Holds
  <2> QED
    BY <1>3, <2>1, <2>2, ZenonT(40)
<1> QED
  BY <1>1, <1>4, <1>5, LockKeep, Zenon

-----------------------------------------------------------------------------
(* The owner of the worksets.                                               *)

\* No field names another process than before, and p gets no first entry;
LEMMA OwnerKeep ==
    ASSUME OwnerInv, NEW p \in Proc, Others(p), writer'[cwd] = writer[cwd],
           \A o \in Obj : writer'[o] \in {None, writer[o]},
           Workset(p)' # {} => Workset(p) # {}
    PROVE  OwnerInv'
<1>1. ASSUME NEW q \in Proc, Workset(q)' # {} PROVE Workset(q) # {}
  <2>1. CASE q = p
    BY <1>1, <2>1
  <2>2. CASE q # p
    <3>1. Workset(q)' = Workset(q)
      BY <2>2, ZenonT(40) DEF Others, Workset
    <3> QED
      BY <1>1, <3>1
  <2> QED
    BY <2>1, <2>2
<1> QED
  BY <1>1 DEF OwnerInv

\* or p takes an object, the directory first.
LEMMA OwnerTake ==
    ASSUME OwnerInv, NEW p \in Proc, Others(p), NEW o \in Obj, ~Refused(p, o),
           Workset(p) # {} \/ o = cwd, writer'[o] = p,
           \A x \in Obj \ {o} : writer'[x] = writer[x]
    PROVE  OwnerInv'
<1>c. cwd \in Obj /\ None \notin Proc
  BY Constants
<1>1. writer[cwd] \in {None, p} /\ writer'[cwd] = p
  <2>1. CASE Workset(p) # {}
    BY <2>1, <1>c DEF OwnerInv
  <2>2. CASE Workset(p) = {} /\ o = cwd
    <3>1. shadow[p][cwd] = None
      BY <2>2, <1>c, ZenonT(40) DEF Workset
    <3> QED
      BY <2>2, <3>1, Zenon DEF Refused
  <2> QED
    BY <2>1, <2>2, Zenon
<1>2. \A x \in Obj : writer'[x] \in {None, p}
  BY <1>1 DEF OwnerInv
<1>3. ASSUME NEW q \in Proc, q # p PROVE Workset(q)' = {}
  <2>1. Workset(q) = {}
    BY <1>1, <1>3, <1>c, ZenonT(40) DEF OwnerInv
  <2>2. Workset(q)' = Workset(q)
    BY <1>3 DEF Others, Workset
  <2> QED
    BY <2>1, <2>2, Zenon
<1> QED
  BY <1>1, <1>2, <1>3, Zenon DEF OwnerInv

\* The steps of the calls take objects in this way,
LEMMA StepOwner ==
    ASSUME Fits, TypeOK, PhaseInv, TouchInv, OwnerInv, NEW p \in Proc, NEW t, pc[p] = t[1],
           arg[p] \in File, Did(p, t), Others(p)
    PROVE  OwnerInv'
<1>c. cwd \in Obj /\ arg[p] \in Obj /\ arg[p] # cwd /\ Inode \subseteq Obj /\ Buf \subseteq Obj
  BY Constants, ZenonT(40)
<1>w. Active(p) /\ pc[p] \in Looking \cup SawBuf \cup SawFile => Workset(p) # {}
  BY Zenon DEF TouchInv, TouchOf
<1>k. ASSUME UNCHANGED <<writer, shadow>> PROVE OwnerInv'
  <2>1. Workset(p)' = Workset(p)
    BY <1>k DEF Workset
  <2> QED
    BY <1>k, <2>1, OwnerKeep, ZenonT(40)
<1>1. ASSUME NEW o \in Inode, DidAccess(p, t, o) PROVE OwnerInv'
  <2>0. Access(p, o, t[2]) /\ Accessing(p, t, o) /\ o \in Obj
    BY <1>1, <1>c DEF DidAccess
  <2>1. CASE Active(p)
    <3>1. writer'[o] = p /\ \A x \in Obj \ {o} : writer'[x] = writer[x]
      BY <2>0, <2>1 DEF Access, TypeOK
    <3>2. Workset(p) # {} \/ o = cwd
      <4>1. CASE t \in FileSteps /\ t[1] \in OnFile
        BY <2>1, <4>1, ZenonT(40) DEF PhaseInv, PhaseOf, TouchInv, TouchOf
      <4>2. CASE t \in FileSteps /\ t[1] \in SawBuf
        BY <2>1, <4>2, <1>w, Zenon
      <4> QED
        BY <2>0, <4>1, <4>2, FileStepPoints, ZenonT(40) DEF Accessing
    <3> QED
      BY <1>1, <2>0, <2>1, <3>1, <3>2, OwnerTake, ZenonT(40) DEF DidAccess
  <2>2. CASE ~Active(p)
    BY <2>0, <2>2, <1>k DEF Access
  <2> QED
    BY <2>1, <2>2, ZenonT(40)
<1>2. ASSUME NEW o \in Inode, DidUnwind(p, t, o) PROVE OwnerInv'
  <2>1. Workset(p)' \subseteq Workset(p) /\ UNCHANGED writer
    BY <1>2 DEF DidUnwind, Unwind, Workset, TypeOK
  <2> QED
    BY <2>1, OwnerKeep, ZenonT(40)
<1>3. ASSUME NEW b \in Buf, NEW c \in Content, DidStore(p, t, b, c) PROVE OwnerInv'
  <2>0. Store(p, b, c, t[2]) /\ b \in Obj
    BY <1>3, <1>c DEF DidStore
  <2>1. CASE Active(p)
    <3>1. writer'[b] = p /\ \A x \in Obj \ {b} : writer'[x] = writer[x]
      BY <2>0, <2>1 DEF Store, TypeOK
    <3>2. t \in Lookups \/ t \in DataSteps
      BY <1>3 DEF DidStore, DataSteps
    <3>3. Workset(p) # {}
      BY <2>1, <1>w, <3>2, LookupPoints, DataStepPoints, ZenonT(40)
    <3> QED
      BY <1>3, <2>0, <2>1, <3>1, <3>3, OwnerTake, ZenonT(40) DEF DidStore
  <2>2. CASE ~Active(p)
    BY <2>0, <2>2, <1>k, Zenon DEF Store
  <2> QED
    BY <2>1, <2>2, Zenon
<1>4. CASE t \in Igets /\ iget(p, arg[p], t[1], t[2])
  <2>1. Workset(p)' = Workset(p)
    BY <1>4, ZenonT(40) DEF iget, txVars, Workset
  <2>2. writer'[cwd] = writer[cwd] /\ \A o \in Obj : writer'[o] \in {None, writer[o]}
    BY <1>4, <1>c, ZenonT(40) DEF iget, TypeOK
  <2> QED
    BY <2>1, <2>2, OwnerKeep, Zenon
<1>5. ASSUME NEW c \in Content, DidSet(p, t, c) PROVE OwnerInv'
  <2>0. SetInode(p, arg[p], c, t[2]) /\ t \in FileUnlocks
    BY <1>5, Zenon DEF DidSet, FileUnlocks
  <2>1. CASE Active(p)
    <3>1. Workset(p) # {}
      BY <2>0, <2>1, <1>w, FileUnlockPoints, ZenonT(40)
    <3> QED
      BY <2>0, <3>1, OwnerKeep, ZenonT(40) DEF SetInode
  <2>2. CASE ~Active(p)
    BY <2>0, <2>2, <1>k, Zenon DEF SetInode
  <2> QED
    BY <2>1, <2>2
<1> QED
  BY <1>k, <1>1, <1>2, <1>3, <1>4, <1>5, ZenonT(40) DEF Did, DidUnlock, DidPut, idup, iput, fdalloc, txVars

\* and all the others leave them alone.
LEMMA OtherOwner ==
    ASSUME TypeOK, OwnerInv, NEW p \in Proc, Others(p),
           \/ Syscall(p) \/ txdone(p)
           \/ \E t \in LoopSteps, o \in Obj : o \in Workset(p) /\ LoopDid(p, t, o)
    PROVE  OwnerInv'
<1>1. CASE UNCHANGED <<writer, shadow>>
  <2>1. Workset(p)' = Workset(p)
    BY <1>1 DEF Workset
  <2> QED
    BY <1>1, <2>1, OwnerKeep
<1>2. CASE UNCHANGED writer /\ Workset(p) # {}
  BY <1>2, OwnerKeep, Zenon
<1>3. CASE sys_txbegin(p) \/ txdone(p)
  <2>1. Workset(p)' = {} /\ UNCHANGED writer
    BY <1>3 DEF sys_txbegin, txdone, Workset, TypeOK, objVars
  <2> QED
    BY <2>1, OwnerKeep, ZenonT(40)
<1>4. CASE Syscall(p) /\ ~sys_txbegin(p)
  BY <1>4, <1>1, ZenonT(40) DEF Syscall, sys_txcommit, sys_txabort, sys_open, sys_close, sys_read,
         sys_write, sys_unlink, objVars, txVars
<1>5. ASSUME NEW t \in LoopSteps, NEW o \in Obj, o \in Workset(p), LoopDid(p, t, o)
      PROVE  OwnerInv'
  BY <1>5, <1>2 DEF LoopDid, DidLock, DidSwap, DidRelease, DidFree, DidDrop, objVars
<1> QED
  BY <1>3, <1>4, <1>5, ZenonT(40)

-----------------------------------------------------------------------------
(* The shadow pages are freed once.                                         *)

\* Only p is to be looked at.
LEMMA ShadowFrame ==
    ASSUME ShadowInv, NEW p \in Proc, Others(p), ShadowOf(p)'
    PROVE  ShadowInv'
<1>1. ASSUME NEW q \in Proc, q # p PROVE ShadowOf(q)'
  <2>1. /\ shadow'[q] = shadow[q] /\ pc'[q] = pc[q] /\ rest'[q] = rest[q]
        /\ conflict'[q] = conflict[q] /\ ShadowOf(q)
    BY <1>1, Zenon DEF Others, ShadowInv
  <2>2. Workset(q)' = Workset(q)
    BY <2>1, Zenon DEF Workset
  <2> QED
    BY <2>1, <2>2, Zenon DEF ShadowOf
<1> QED
  BY <1>1, Zenon DEF ShadowInv

\* The steps of the calls free none once a transaction has an entry,
LEMMA StepShadow ==
    ASSUME Fits, TypeOK, PhaseInv, TouchInv, OwnerInv, ShadowInv, NEW p \in Proc, NEW t,
           pc[p] = t[1], arg[p] \in File, ~conflict[p], Did(p, t), Others(p)
    PROVE  ShadowInv'
<1> SUFFICES ShadowOf(p)'
  BY ShadowFrame, ZenonT(40)
<1>c. arg[p] \in Obj /\ Inode \subseteq Obj /\ Buf \subseteq Obj /\ Freed \notin Content
      /\ None # Freed
  BY Constants
<1>0. \A x \in Obj : shadow[p][x] # Freed
  BY DEF PhaseInv, PhaseOf, Outside, AbortLoop, ShadowInv, ShadowOf
<1>k. ASSUME UNCHANGED conflict, \A x \in Obj : shadow'[p][x] # Freed PROVE ShadowOf(p)'
  BY <1>k, Zenon DEF ShadowOf
<1>1. ASSUME NEW o \in Inode, DidAccess(p, t, o) PROVE ShadowOf(p)'
  <2>1. UNCHANGED conflict /\ \A x \in Obj : shadow'[p][x] # Freed
    BY <1>1, <1>0, <1>c DEF DidAccess, Access, TypeOK
  <2> QED
    BY <2>1, <1>k, ZenonT(40)
<1>2. ASSUME NEW o \in Inode, DidUnwind(p, t, o) PROVE ShadowOf(p)'
  <2>1. \A x \in Obj : shadow[p][x] = None
    BY <1>2, UnwindFirst, ZenonT(40) DEF Workset
  <2>2. \A x \in Obj : shadow'[p][x] = None
    BY <1>2, <2>1 DEF DidUnwind, Unwind, TypeOK
  <2> QED
    BY <2>2, <1>c, ZenonT(40) DEF ShadowOf, Workset
<1>3. ASSUME NEW b \in Buf, NEW c \in Content, DidStore(p, t, b, c) PROVE ShadowOf(p)'
  <2>1. UNCHANGED conflict /\ \A x \in Obj : shadow'[p][x] # Freed
    BY <1>3, <1>0, <1>c DEF DidStore, Store, TypeOK
  <2> QED
    BY <2>1, <1>k, Zenon
<1>4. ASSUME NEW c \in Content, DidSet(p, t, c) PROVE ShadowOf(p)'
  <2>1. UNCHANGED conflict /\ \A x \in Obj : shadow'[p][x] # Freed
    BY <1>4, <1>0, <1>c DEF DidSet, SetInode, TypeOK
  <2> QED
    BY <2>1, <1>k
<1>5. CASE UNCHANGED <<conflict, shadow>>
  BY <1>5, <1>0, <1>k
<1> QED
  BY <1>1, <1>2, <1>3, <1>4, <1>5, ZenonT(40) DEF Did, DidUnlock, DidPut, idup, iget, iput, fdalloc, txVars

\* the loops of txabort free each in turn,
LEMMA LoopShadow ==
    ASSUME TypeOK, ShadowInv, NEW p \in Proc, NEW t \in LoopSteps, NEW o \in Obj,
           pc[p] = t[1], o \in rest[p], \A x \in rest[p] : Addr[o] <= Addr[x],
           ~conflict[p], LoopDid(p, t, o), Others(p)
    PROVE  ShadowInv'
<1> SUFFICES ShadowOf(p)'
  BY ShadowFrame
<1>0. UNCHANGED conflict /\ rest[p] \subseteq Obj
  BY ZenonT(40) DEF LoopDid, DidLock, DidSwap, DidRelease, DidFree, DidDrop, txVars, TypeOK
<1>1. CASE DidLock(p, t, o) \/ DidSwap(p, t, o) \/ DidRelease(p, t, o)
  <2>1. t[1] \notin {"txdone", "abort_free", "abort_put"} /\ UNCHANGED shadow
    BY <1>1 DEF DidLock, DidSwap, DidRelease, LockLoops, UnlockLoops, txVars
  <2>2. \A x \in Obj : shadow[p][x] # Freed
    BY <2>1, Zenon DEF ShadowInv, ShadowOf
  <2> QED
    BY <1>0, <2>1, <2>2, ZenonT(40) DEF ShadowOf
<1>2. CASE DidFree(p, t, o)
  <2>1. /\ pc[p] = "abort_free" /\ pc'[p] = "abort_put" /\ rest' = rest
        /\ \A x \in Obj : x # o => shadow'[p][x] = shadow[p][x]
    BY <1>2 DEF DidFree, Goto, TypeOK
  <2>2. ASSUME NEW x \in Obj, shadow'[p][x] = Freed
        PROVE  x \in rest'[p] => \A y \in rest'[p] : Addr[x] <= Addr[y]
    <3>1. CASE x = o
      BY <2>1, <3>1, Zenon
    <3>2. CASE x # o
      <4>1. x \notin rest[p]
        BY <2>1, <2>2, <3>2 DEF ShadowInv, ShadowOf
      <4> QED
        BY <2>1, <4>1, ZenonT(40)
    <3> QED
      BY <3>1, <3>2, ZenonT(40)
  <2> QED
    BY <1>0, <2>1, <2>2, ZenonT(40) DEF ShadowOf
<1>3. CASE DidDrop(p, t, o)
  <2>1. /\ UNCHANGED shadow /\ t \in PutLoops
        /\ pc'[p] = "txdone" \/ (pc'[p] = t[2] /\ rest'[p] = rest[p] \ {o})
    <3>1. UNCHANGED shadow /\ t \in PutLoops /\ Round(p, o, t[2], "txdone")
      BY <1>3, Zenon DEF DidDrop, txVars
    <3>2. pc'[p] = "txdone" \/ (pc'[p] = t[2] /\ rest'[p] = rest[p] \ {o})
      BY <3>1, RoundEffect
    <3> QED
      BY <3>1, <3>2, Zenon
  <2>2. CASE t = <<"commit_put", "commit_put">>
    <3>1. \A x \in Obj : shadow[p][x] # Freed
      BY <2>2 DEF ShadowInv, ShadowOf
    <3> QED
      BY <1>0, <2>1, <3>1, Zenon DEF ShadowOf
  <2>3. CASE t = <<"abort_put", "abort_free">>
    <3>1. ASSUME NEW x \in Obj, shadow[p][x] = Freed PROVE x \notin rest[p] \ {o}
      <4>1. x \in rest[p] => Addr[x] <= Addr[o]
        BY <2>3, <3>1, ZenonT(40) DEF ShadowInv, ShadowOf
      <4>n. Addr[x] \in Nat /\ Addr[o] \in Nat
        BY <3>1, TxAssumption, Zenon
      <4>2. x \in rest[p] => Addr[x] = Addr[o]
        BY <4>1, <4>n
      <4> QED
        BY <4>2, TxAssumption, Zenon
    <3> QED
      BY <1>0, <2>1, <2>3, <3>1, ZenonT(40) DEF ShadowOf
  <2> QED
    BY <2>1, <2>2, <2>3, ZenonT(40) DEF PutLoops
<1> QED
  BY <1>1, <1>2, <1>3, ZenonT(40) DEF LoopDid

\* and txbegin and the ends of txcommit and txabort forget them.
LEMMA SysShadow ==
    ASSUME TypeOK, ShadowInv, NEW p \in Proc, Syscall(p) \/ txdone(p), Others(p)
    PROVE  ShadowInv'
<1> SUFFICES ShadowOf(p)'
  BY ShadowFrame, Zenon
<1>1. CASE sys_txbegin(p)
  <2>1. ~conflict'[p] /\ \A x \in Obj : shadow'[p][x] = None
    BY <1>1 DEF sys_txbegin, TypeOK
  <2> QED
    BY <2>1, Constants, Zenon DEF ShadowOf
<1>2. CASE txdone(p)
  <2>1. \A x \in Obj : shadow'[p][x] = None
    BY <1>2 DEF txdone, TypeOK
  <2> QED
    BY <2>1, Constants, ZenonT(40) DEF ShadowOf, Workset
<1>3. CASE Syscall(p) /\ ~sys_txbegin(p)
  <2>1. UNCHANGED <<conflict, shadow>> /\ pc[p] = "user"
    BY <1>3, ZenonT(40) DEF Syscall, sys_txcommit, sys_txabort, sys_open, sys_close, sys_read,
         sys_write, sys_unlink, txVars, MayCall, UserMode
  <2>2. Workset(p)' = Workset(p) /\ \A x \in Obj : shadow[p][x] # Freed
    BY <2>1, ZenonT(40) DEF Workset, ShadowInv, ShadowOf
  <2> QED
    BY <2>1, <2>2, ZenonT(40) DEF ShadowOf, ShadowInv
<1> QED
  BY <1>1, <1>2, <1>3

-----------------------------------------------------------------------------
(* What has been freed is not in the inode table.                           *)

\* Who swaps has the directory locked, and its buffer.
LEMMA SwapHolds ==
    ASSUME PhaseInv, TouchInv, LockInv, NEW q \in Proc, pc[q] = "commit_swap"
    PROVE  /\ cwd \in Workset(q) /\ DirBuf \in Workset(q)
           /\ slock[cwd] = q /\ slock[DirBuf] = q /\ ~Active(q)
<1>1. Workset(q) # {} /\ ~Active(q)
  BY LoopPoints, Zenon DEF PhaseInv, PhaseOf, Active
<1>2. cwd \in Workset(q) /\ DirBuf \in Workset(q)
  BY <1>1, Zenon DEF TouchInv, TouchOf
<1>3. Holds(q, cwd) /\ Holds(q, DirBuf)
  BY <1>2, Zenon DEF Holds
<1> QED
  BY <1>1, <1>2, <1>3, Constants, ZenonT(40) DEF LockInv

\* So nobody swaps while a call has it locked.
LEMMA DirLocked ==
    ASSUME PhaseInv, TouchInv, LockInv, NEW p \in Proc, pc[p] \in HoldsDir
    PROVE  ~Swapping
<1>1. slock[cwd] = p /\ pc[p] # "commit_swap"
  BY Constants, Zenon DEF LockInv, Holds, HoldsDir
<1> QED
  BY <1>1, SwapHolds, Zenon DEF Swapping

\* A name that is found names an inode that is not freed.
LEMMA NameFound ==
    ASSUME PhaseInv, TouchInv, RefInv, LockInv, FreedInv, EntryInv, NEW p \in Proc,
           pc[p] \in HoldsDir, pc[p] \in SawBuf, NEW f \in File, f \in Sees(p, DirBuf).links
    PROVE  val[f] # Freed
<1>0. f \in Inode /\ f \in Obj
  BY Constants, ZenonT(40)
<1>1. CASE ~Active(p)
  <2>1. f \in val[DirBuf].links /\ ~Swapping
    BY <1>1, DirLocked, Zenon DEF Sees
  <2> QED
    BY <2>1 DEF EntryInv, EntryStable, Linked
<1>2. CASE Active(p)
  <2>1. DirBuf \in Workset(p)
    BY <1>2, Zenon DEF TouchInv, TouchOf
  <2>2. pc[p] # "commit_swap"
    BY Zenon DEF HoldsDir
  <2>3. View(p, DirBuf) = Sees(p, DirBuf)
    BY <1>2, <2>1, <2>2, ZenonT(40) DEF View, Pending, Sees, Workset
  <2>4. Linked(View(p, f))
    BY <1>2, <2>1, <2>3, Zenon DEF EntryInv, EntryOf, Unpublished
  <2>5. CASE f \in Workset(p)
    <3>1. Uses(p, "tx", f)
      BY <1>2, <2>5, Zenon DEF Uses, UsesTx
    <3> QED
      BY <1>0, <3>1, InUse, Zenon
  <2>6. CASE f \notin Workset(p)
    BY <2>2, <2>4, <2>6, ZenonT(40) DEF View, Pending, Linked
  <2> QED
    BY <2>5, <2>6, Zenon
<1> QED
  BY <1>1, <1>2, Zenon

\* What is freed was, with the same count, or has lost its last reference.
LEMMA FreedKeep ==
    ASSUME FreedInv,
           \A o \in Obj : val'[o] = Freed =>
               (val[o] = Freed /\ ref'[o] = ref[o]) \/ (o \in Inode /\ ref'[o] = 0)
    PROVE  FreedInv'
BY Zenon DEF FreedInv

\* A reference that is dropped was one.
LEMMA FreedDrop ==
    ASSUME TypeOK, RefInv, FreedInv, NEW p \in Proc, NEW k, NEW o \in Inode, Uses(p, k, o),
           DropRef(o)
    PROVE  FreedInv'
<1>1. ref[o] \in Nat /\ val[o] # Freed /\ o \in Obj
  BY InUse, Constants, ZenonT(40)
<1>2. \A x \in Obj : ref'[x] = IF x = o THEN ref[x] - 1 ELSE ref[x]
  BY <1>1, ZenonT(40) DEF DropRef, TypeOK
<1>3. \A x \in Obj : val'[x] = Freed => val[x] = Freed \/ (x = o /\ ref[x] = 1)
  BY <1>1, DropEffect, ZenonT(40)
<1>4. ASSUME NEW x \in Obj, val'[x] = Freed
      PROVE  (val[x] = Freed /\ ref'[x] = ref[x]) \/ (x \in Inode /\ ref'[x] = 0)
  BY <1>1, <1>2, <1>3, <1>4
<1> QED
  BY <1>4, FreedKeep

\* The steps of the calls,
LEMMA StepFreed ==
    ASSUME TypeOK, PhaseInv, TouchInv, RefInv, LockInv, FreedInv, EntryInv, NEW p \in Proc,
           NEW t, pc[p] = t[1], arg[p] \in File, Did(p, t)
    PROVE  FreedInv'
<1>c. /\ arg[p] \in Obj /\ arg[p] \in Inode /\ cwd \in Obj /\ Inode \subseteq Obj
      /\ Buf \subseteq Obj /\ Freed \notin Content /\ Inode \cap Buf = {}
  BY Constants, TxAssumption, ZenonT(40)
<1>k. ASSUME UNCHANGED <<val, ref>> PROVE FreedInv'
  BY <1>k, Zenon DEF FreedInv
<1>1. CASE t \in Idups /\ idup(p, cwd, t[1], t[2])
  <2>1. UNCHANGED val /\ \A o \in Obj : o # cwd => ref'[o] = ref[o]
    BY <1>1, <1>c, ZenonT(40) DEF idup, TypeOK
  <2>2. val[cwd] # Freed
    BY DirInUse, Zenon
  <2> QED
    BY <2>1, <2>2, FreedKeep, ZenonT(40)
<1>2. ASSUME NEW o \in Inode, DidAccess(p, t, o) PROVE FreedInv'
  BY <1>2, <1>k, ZenonT(40) DEF DidAccess, Access
<1>3. ASSUME NEW o \in Inode, DidUnwind(p, t, o) PROVE FreedInv'
  <2>1. UNCHANGED val /\ \A x \in Obj : x \in Inode => ref'[x] = ref[x]
    BY <1>3, <1>c, ZenonT(40) DEF DidUnwind, Unwind
  <2> QED
    BY <2>1 DEF FreedInv
<1>4. ASSUME NEW b \in Buf, NEW c \in Content, DidStore(p, t, b, c) PROVE FreedInv'
  <2>0. b \in Obj /\ b \notin Inode /\ Store(p, b, c, t[2])
    BY <1>4, <1>c, ZenonT(40) DEF DidStore
  <2>1. \A x \in Obj : x # b => ref'[x] = ref[x] /\ val'[x] = val[x]
    BY <2>0, ZenonT(40) DEF Store, Pin, TypeOK
  <2>2. val'[b] # Freed
    BY <2>0, <1>c DEF Store, FreedInv, TypeOK
  <2> QED
    BY <2>1, <2>2, FreedKeep, Zenon
<1>5. CASE t \in Igets /\ iget(p, arg[p], t[1], t[2])
  <2>1. UNCHANGED val /\ \A o \in Obj : o # arg[p] => ref'[o] = ref[o]
    BY <1>5, <1>c, ZenonT(40) DEF iget, TypeOK
  <2>2. CASE arg[p] \in Sees(p, DirBuf).links
    <3>1. val[arg[p]] # Freed
      BY <1>5, <2>2, NameFound, IgetPoints, ZenonT(40)
    <3> QED
      BY <2>1, <3>1, FreedKeep, ZenonT(40)
  <2>3. CASE arg[p] \notin Sees(p, DirBuf).links
    BY <1>5, <2>3, <1>k, Zenon DEF iget
  <2> QED
    BY <2>2, <2>3
<1>6. ASSUME NEW o \in Inode, DidUnlock(p, t, o) PROVE FreedInv'
  BY <1>6, <1>k, ZenonT(40) DEF DidUnlock
<1>7. ASSUME NEW o \in Inode, DidPut(p, t, o) PROVE FreedInv'
  <2>1. CASE Active(p)
    BY <1>7, <2>1, <1>k, ZenonT(40) DEF DidPut, iput, Put
  <2>2. CASE ~Active(p)
    <3>1. DropRef(o)
      BY <1>7, <2>2, ZenonT(40) DEF DidPut, iput, Put
    <3>2. \E k : Uses(p, k, o)
      <4>1. CASE t \in DirPuts /\ o = cwd
        BY <4>1, <2>2, DirPutPoints, ZenonT(40) DEF Uses, UsesDir
      <4>2. CASE t \in FilePuts /\ o = arg[p]
        BY <4>2, <2>2, FilePutPoints, ZenonT(40) DEF Uses, UsesArg
      <4> QED
        BY <4>1, <4>2, <1>7, ZenonT(40) DEF DidPut
    <3> QED
      BY <3>1, <3>2, FreedDrop, ZenonT(40)
  <2> QED
    BY <2>1, <2>2, ZenonT(40)
<1>8. CASE t = <<"open_fd", "user">> /\ fdalloc(p, arg[p], t[1], t[2])
  BY <1>8, <1>k, ZenonT(40) DEF fdalloc
<1>9. ASSUME NEW c \in Content, DidSet(p, t, c) PROVE FreedInv'
  <2>1. SetInode(p, arg[p], c, t[2])
    BY <1>9, Zenon DEF DidSet
  <2>2. UNCHANGED ref /\ \A x \in Obj : val'[x] = Freed => val[x] = Freed
    BY <2>1, <1>c, ZenonT(40) DEF SetInode, TypeOK
  <2> QED
    BY <2>2, FreedKeep, Zenon
<1> QED
  BY <1>1, <1>2, <1>3, <1>4, <1>5, <1>6, <1>7, <1>8, <1>9, ZenonT(40) DEF Did

\* those of the loops, and the system calls.
LEMMA OtherFreed ==
    ASSUME TypeOK, RefInv, FreedInv, NEW p \in Proc,
           \/ Syscall(p) \/ txdone(p)
           \/ \E t \in LoopSteps, o \in Obj :
                  pc[p] = t[1] /\ o \in rest[p] /\ ~Active(p) /\ LoopDid(p, t, o)
    PROVE  FreedInv'
<1>k. ASSUME UNCHANGED <<val, ref>> PROVE FreedInv'
  BY <1>k, ZenonT(40) DEF FreedInv
<1>1. CASE Syscall(p) \/ txdone(p)
  <2>1. UNCHANGED <<val, ref>>
    BY <1>1, ZenonT(40) DEF Syscall, sys_txbegin, sys_txcommit, sys_txabort, sys_open, sys_close, sys_read,
         sys_write, sys_unlink, txdone, objVars
  <2> QED
    BY <2>1, <1>k, Zenon
<1>2. ASSUME NEW t \in LoopSteps, NEW o \in Obj, pc[p] = t[1], o \in rest[p], ~Active(p),
             LoopDid(p, t, o)
      PROVE  FreedInv'
  <2>1. CASE DidLock(p, t, o) \/ DidRelease(p, t, o) \/ DidFree(p, t, o)
    BY <2>1, <1>k, Zenon DEF DidLock, DidRelease, DidFree, objVars
  <2>2. CASE DidSwap(p, t, o)
    <3>1. UNCHANGED ref /\ \A x \in Obj : val'[x] = Freed => val[x] = Freed
      BY <2>2, <1>2, ZenonT(40) DEF DidSwap, TypeOK
    <3> QED
      BY <3>1, FreedKeep, ZenonT(40)
  <2>3. CASE DidDrop(p, t, o)
    <3>1. CASE o \in Inode
      <4>1. Uses(p, "tx", o)
        BY <1>2, <2>3, LoopStepPoints, ZenonT(40) DEF DidDrop, Uses, UsesTx
      <4>2. DropRef(o)
        BY <1>2, <2>3, <3>1, ZenonT(40) DEF DidDrop, Drop, Put
      <4> QED
        BY <3>1, <4>1, <4>2, FreedDrop, ZenonT(40)
    <3>2. CASE o \notin Inode
      <4>1. UNCHANGED val /\ \A x \in Obj : x # o => ref'[x] = ref[x]
        BY <2>3, <3>2, ZenonT(40) DEF DidDrop, Drop, TypeOK
      <4> QED
        BY <3>2, <4>1, Zenon DEF FreedInv
    <3> QED
      BY <3>1, <3>2, ZenonT(40)
  <2> QED
    BY <1>2, <2>1, <2>2, <2>3, ZenonT(40) DEF LoopDid
<1> QED
  BY <1>1, <1>2, ZenonT(40)

-----------------------------------------------------------------------------
(* Where unlink is.                                                         *)

\* Only p is to be looked at.
LEMMA UnlinkFrame ==
    ASSUME UnlinkInv, NEW p \in Proc, Others(p), UnlinkOf(p)'
    PROVE  UnlinkInv'
<1>1. ASSUME NEW q \in Proc, q # p PROVE UnlinkOf(q)'
  BY <1>1, Zenon DEF UnlinkInv, UnlinkOf, Others, Active
<1> QED
  BY <1>1 DEF UnlinkInv

\* iget finds the entry of the file, and clear_entry takes it away.
LEMMA StepUnlink ==
    ASSUME TypeOK, TouchInv, UnlinkInv, NEW p \in Proc, NEW t, pc[p] = t[1],
           arg[p] \in File, Did(p, t), Others(p)
    PROVE  UnlinkInv'
<1> SUFFICES UnlinkOf(p)'
  BY UnlinkFrame, ZenonT(40)
<1>c. /\ arg[p] \in Obj /\ arg[p] # DirBuf /\ DirBuf \in Obj /\ cwd # DirBuf
      /\ \A o \in Inode : o \in Obj /\ o # DirBuf
  BY Constants, ZenonT(40)
<1> DEFINE Has == {"unlink_file", "unlink_clear"}
           Lost == {"unlink_unlock", "unlink_put", "unlink_drop"}
<1>g. ASSUME NEW l, Goto(p, l) PROVE pc'[p] = l /\ (l # "user" => arg'[p] = arg[p])
  BY <1>g DEF Goto, TypeOK
<1>m. ASSUME NEW l, Goto(p, l), UNCHANGED status, l \in Unlinking => t[1] \in Unlinking,
             l \in Has => arg[p] \in shadow'[p][DirBuf].links,
             l \in Lost => arg[p] \notin shadow'[p][DirBuf].links
      PROVE  UnlinkOf(p)'
  <2>1. UnlinkOf(p) /\ l \in Has \cup Lost => l # "user"
    BY Zenon DEF UnlinkInv
  <2> QED
    BY <1>m, <1>g, <2>1, ZenonT(40) DEF UnlinkOf, UnlinkInv, Active
<1>u. \A l : l \in Has \cup Lost => l \in Unlinking
  BY DEF Unlinking
<1>n. ASSUME NEW l, Goto(p, l), UNCHANGED status, l \in Unlinking => t[1] \in Unlinking,
             l \notin Has \cup Lost
      PROVE  UnlinkOf(p)'
  BY <1>n, <1>m, ZenonT(40)
<1>1. CASE t \in Idups /\ idup(p, cwd, t[1], t[2])
  <2>1. t[2] \notin Has \cup Lost
    BY <1>1 DEF Idups
  <2> QED
    BY <1>1, <1>n, <2>1, IdupPoints, ZenonT(40) DEF idup, txVars
<1>2. ASSUME NEW o \in Inode, DidAccess(p, t, o) PROVE UnlinkOf(p)'
  <2>0. Goto(p, t[2]) /\ UNCHANGED status /\ Accessing(p, t, o) /\ Access(p, o, t[2])
    BY <1>2 DEF DidAccess, Access
  <2>1. t[2] \in Unlinking => t[1] \in Unlinking
    BY <2>0, DirStepPoints, FileStepPoints, ZenonT(40) DEF Accessing
  <2>2. t[2] \notin Lost /\ (t[2] \in Has => t[1] = "unlink_file")
    <3>1. CASE t \in DirSteps
      BY <3>1 DEF DirSteps
    <3>2. CASE t \in FileSteps
      BY <3>2 DEF FileSteps
    <3> QED
      BY <2>0, <3>1, <3>2, Zenon DEF Accessing
  <2>3. shadow'[p][DirBuf] = shadow[p][DirBuf]
    BY <2>0, <1>c DEF Access, TypeOK
  <2>4. t[1] = "unlink_file" => arg[p] \in shadow[p][DirBuf].links
    BY Zenon DEF UnlinkInv, UnlinkOf
  <2> QED
    BY <1>m, <2>0, <2>1, <2>2, <2>3, <2>4, ZenonT(40)
<1>3. ASSUME NEW o \in Inode, DidUnwind(p, t, o) PROVE UnlinkOf(p)'
  BY <1>3, <1>n, OutsidePoints, LoopPoints, ZenonT(40) DEF DidUnwind, Unwind
<1>4. ASSUME NEW b \in Buf, NEW c \in Content, DidStore(p, t, b, c) PROVE UnlinkOf(p)'
  <2>0. Goto(p, t[2]) /\ UNCHANGED status /\ Store(p, b, c, t[2])
    BY <1>4 DEF DidStore, Store
  <2>1. t \in Lookups \/ t \in DataSteps
    BY <1>4 DEF DidStore, DataSteps
  <2>2. t[2] \in Unlinking => t[1] \in Unlinking
    BY <2>1, LookupPoints, DataStepPoints, ZenonT(40)
  <2>3. CASE t = <<"unlink_clear", "unlink_unlock">>
    <3>1. Active(p)
      BY <2>3, ZenonT(40) DEF UnlinkInv, UnlinkOf, Unlinking
    <3>2. b = DirBuf /\ c = [Sees(p, b) EXCEPT !.v = version[p], !.links = @ \ {arg[p]}]
          /\ Sees(p, b) \in Content
      BY <1>4, <2>3 DEF DidStore, Lookups
    <3>3. arg[p] \notin c.links
      BY <3>2, Zenon DEF Content
    <3>4. shadow'[p][DirBuf] = c
      BY <2>0, <3>1, <3>2, <1>c DEF Store, TypeOK
    <3> QED
      BY <1>m, <2>0, <2>2, <2>3, <3>3, <3>4, ZenonT(40)
  <2>4. CASE t # <<"unlink_clear", "unlink_unlock">>
    <3>1. t[2] \notin Has \cup Lost
      BY <2>1, <2>4 DEF Lookups, DataSteps
    <3> QED
      BY <1>n, <2>0, <2>2, <3>1, ZenonT(40)
  <2> QED
    BY <2>3, <2>4, ZenonT(40)
<1>5. CASE t \in Igets /\ iget(p, arg[p], t[1], t[2])
  <2>0. UNCHANGED <<status, shadow>>
    BY <1>5, ZenonT(40) DEF iget, txVars
  <2>1. CASE arg[p] \in Sees(p, DirBuf).links
    <3>1. Goto(p, t[2]) /\ t[2] \notin Lost /\ t[1] \in SawBuf
          /\ (t[2] \in Unlinking => t[1] \in Unlinking)
          /\ (t[2] \in Has => t[1] \in Unlinking)
      <4>1. Goto(p, t[2])
        BY <1>5, <2>1, Zenon DEF iget
      <4>2. t[2] \notin Lost
        BY <1>5 DEF Igets
      <4> QED
        BY <1>5, <4>1, <4>2, <1>u, IgetPoints, Zenon
    <3>2. ASSUME t[2] \in Has PROVE arg[p] \in shadow[p][DirBuf].links
      <4>1. Active(p)
        BY <3>1, <3>2, ZenonT(40) DEF UnlinkInv, UnlinkOf
      <4>2. DirBuf \in Workset(p)
        BY <3>1, <4>1, ZenonT(40) DEF TouchInv, TouchOf
      <4> QED
        BY <2>1, <4>1, <4>2, Zenon DEF Sees, Workset
    <3> QED
      BY <1>m, <2>0, <3>1, <3>2, ZenonT(40)
  <2>2. CASE arg[p] \notin Sees(p, DirBuf).links
    BY <1>5, <1>n, <2>0, <2>2, <1>u, EntryPoints, ZenonT(40) DEF iget
  <2> QED
    BY <2>1, <2>2, ZenonT(40)
<1>6. ASSUME NEW o \in Inode, DidUnlock(p, t, o) PROVE UnlinkOf(p)'
  <2>0. Goto(p, t[2]) /\ UNCHANGED <<status, shadow>>
    BY <1>6, Zenon DEF DidUnlock, txVars
  <2>1. t \in DirUnlocks \/ t = <<"read_unlock", "user">>
    BY <1>6, ZenonT(40) DEF DidUnlock
  <2>2. t[2] \notin Has /\ (t[2] \in Lost => t[1] = "unlink_unlock")
    BY <2>1 DEF DirUnlocks
  <2>3. t[2] \in Unlinking => t[1] \in Unlinking
    <3>1. "user" \notin Unlinking
      BY DEF Unlinking
    <3> QED
      BY <2>1, <3>1, DirUnlockPoints
  <2>4. t[1] = "unlink_unlock" => arg[p] \notin shadow[p][DirBuf].links
    BY Zenon DEF UnlinkInv, UnlinkOf
  <2> QED
    BY <1>m, <2>0, <2>2, <2>3, <2>4, ZenonT(40)
<1>7. ASSUME NEW o \in Inode, DidPut(p, t, o) PROVE UnlinkOf(p)'
  <2>0. Goto(p, t[2]) /\ UNCHANGED <<status, shadow>> /\ (t \in DirPuts \/ t \in FilePuts)
    BY <1>7, ZenonT(40) DEF DidPut, iput, txVars
  <2>2. t[2] \notin Has /\ (t[2] \in Lost => t[1] = "unlink_put")
    BY <2>0 DEF DirPuts, FilePuts
  <2>3. t[2] \in Unlinking => t[1] \in Unlinking
    BY <2>0, DirPutPoints, FilePutPoints, ZenonT(40)
  <2>4. t[1] = "unlink_put" => arg[p] \notin shadow[p][DirBuf].links
    BY ZenonT(40) DEF UnlinkInv, UnlinkOf
  <2> QED
    BY <1>m, <2>0, <2>2, <2>3, <2>4, ZenonT(40)
<1>8. CASE t = <<"open_fd", "user">> /\ fdalloc(p, arg[p], t[1], t[2])
  BY <1>8, <1>n, OutsidePoints, LoopPoints, ZenonT(40) DEF fdalloc
<1>9. ASSUME NEW c \in Content, DidSet(p, t, c) PROVE UnlinkOf(p)'
  <2>1. t[2] \notin Has \cup Lost /\ t \in FileUnlocks
    BY <1>9 DEF DidSet, FileUnlocks
  <2> QED
    BY <1>9, <1>n, <2>1, FileUnlockPoints, ZenonT(40) DEF DidSet, SetInode
<1> QED
  BY <1>1, <1>2, <1>3, <1>4, <1>5, <1>6, <1>7, <1>8, <1>9, ZenonT(40) DEF Did

\* Only transactions call it.
LEMMA OtherUnlink ==
    ASSUME UnlinkInside, TypeOK, PhaseInv, UnlinkInv, NEW p \in Proc, Others(p),
           \/ Syscall(p) \/ txdone(p)
           \/ arg[p] \notin File /\ \E t \in LoopSteps, o \in Obj : LoopDid(p, t, o) /\ PhaseInv'
    PROVE  UnlinkInv'
<1>u. \A l : l \in {"unlink_file", "unlink_clear", "unlink_unlock", "unlink_put", "unlink_drop"} =>
               l \in Unlinking /\ l # "unlink"
  BY DEF Unlinking
<1>n. ASSUME pc'[p] \notin Unlinking PROVE UnlinkInv'
  BY <1>n, <1>u, UnlinkFrame, ZenonT(40) DEF UnlinkOf
<1>e. ASSUME NEW f, NEW l, Enter(p, l, f) PROVE pc'[p] = l
  BY <1>e, Zenon DEF Enter, TypeOK
<1>1. CASE Syscall(p) \/ txdone(p)
  <2>1. ASSUME NEW f \in File, sys_unlink(p, f) PROVE UnlinkInv'
    <3>1. pc'[p] = "unlink" /\ UNCHANGED status /\ MayCall(p, "unlink")
      BY <2>1, <1>e, ZenonT(40) DEF sys_unlink, txVars
    <3>2. Active(p)
      BY <3>1, ZenonT(40) DEF MayCall, UnlinkInside, TypeOK
    <3>3. UnlinkOf(p)'
      BY <3>1, <3>2, <1>u, ZenonT(40) DEF UnlinkOf, Active
    <3> QED
      BY <3>3, UnlinkFrame, Zenon
  <2>2. ASSUME NEW f \in File,
               sys_open(p, f) \/ sys_close(p, f) \/ sys_read(p, f) \/ sys_write(p, f)
        PROVE  pc'[p] \notin Unlinking
    BY <2>2, <1>e, EntryPoints, ZenonT(40) DEF sys_open, sys_close, sys_read, sys_write
  <2>3. CASE sys_txbegin(p) \/ sys_txcommit(p) \/ sys_txabort(p) \/ txdone(p)
    BY <2>3, <1>n, ZenonT(40) DEF sys_txbegin, sys_txcommit, sys_txabort, txdone, Loop, calls, TypeOK, Unlinking
  <2> QED
    BY <1>1, <1>n, <2>1, <2>2, <2>3, ZenonT(40) DEF Syscall
<1>2. ASSUME NEW t \in LoopSteps, NEW o \in Obj, LoopDid(p, t, o), PhaseInv', arg[p] \notin File
      PROVE  UnlinkInv'
  <2>1. arg' = arg
    <3>1. CASE DidFree(p, t, o)
      BY <3>1, ZenonT(40) DEF DidFree, Goto, TypeOK
    <3>2. ASSUME NEW l, NEW m, Round(p, o, l, m) PROVE arg' = arg
      BY <3>2 DEF Round
    <3> QED
      BY <1>2, <3>1, <3>2, ZenonT(40) DEF LoopDid, DidLock, DidSwap, DidRelease, DidDrop
  <2>2. pc'[p] \in Outside
    BY <1>2, <2>1, ZenonT(40) DEF PhaseInv, PhaseOf
  <2> QED
    BY <2>2, <1>n, OutsidePoints, Zenon
<1> QED
  BY <1>1, <1>2, Zenon

-----------------------------------------------------------------------------
(* The entries of the directory.                                            *)

\* The stable directory gets no entry, and no inode loses its link.
LinksKept ==
    /\ val'[DirBuf].links \subseteq val[DirBuf].links
    /\ \A f \in File : Linked(val[f]) => Linked(val'[f])

\* Then what a transaction will leave behind is as good as it was,
LEMMA ViewKept ==
    ASSUME LinksKept, NEW q \in Proc, EntryOf(q), shadow'[q] = shadow[q], Pending(q)' = Pending(q)
    PROVE  EntryOf(q)'
<1>1. ASSUME NEW f \in File, f \in View(q, DirBuf)'.links PROVE Linked(View(q, f)')
  <2>1. f \in View(q, DirBuf).links
    BY <1>1, Zenon DEF View, LinksKept
  <2>2. Linked(View(q, f))
    BY <2>1, Zenon DEF EntryOf
  <2> QED
    BY <2>2, ZenonT(40) DEF View, LinksKept
<1> QED
  BY <1>1, Zenon DEF EntryOf, Linked

\* and only p is to be looked at.
LEMMA EntryFrame ==
    ASSUME EntryInv, NEW p \in Proc, Others(p), LinksKept,
           pc[p] = "commit_swap" => pc'[p] = "commit_swap",
           Unpublished(p)' /\ DirBuf \in Workset(p)' => EntryOf(p)'
    PROVE  EntryInv'
<1>1. ASSUME NEW q \in Proc, q # p, Unpublished(q)', DirBuf \in Workset(q)'
      PROVE  EntryOf(q)'
  <2>1. /\ shadow'[q] = shadow[q] /\ Pending(q)' = Pending(q) /\ Workset(q)' = Workset(q)
        /\ Unpublished(q)
    BY <1>1, ZenonT(40) DEF Others, Pending, Workset, Unpublished, Active
  <2>2. EntryOf(q)
    BY <1>1, <2>1, ZenonT(40) DEF EntryInv
  <2> QED
    BY <2>1, <2>2, ViewKept, ZenonT(40)
<1>2. ~Swapping' => EntryStable'
  <2>1. Swapping => Swapping'
    BY ZenonT(40) DEF Swapping, Others
  <2> QED
    BY <2>1, ZenonT(40) DEF EntryInv, EntryStable, LinksKept, Linked
<1> QED
  BY <1>1, <1>2, Zenon DEF EntryInv

\* iput frees no inode with a link.
LEMMA DropLinks ==
    ASSUME TypeOK, NEW p \in Proc, NEW o \in Inode, Put(p, o)
    PROVE  LinksKept
<1>0. o \in Obj /\ o # DirBuf /\ DirBuf \in Obj /\ File \subseteq Obj
  BY Constants
<1>1. \A x \in Obj : val'[x] = val[x] \/ (x = o /\ val[o].links = {})
  BY <1>0, ZenonT(40) DEF Put, DropRef, TypeOK
<1> QED
  BY <1>0, <1>1, ZenonT(40) DEF LinksKept, Linked

\* What the steps of the calls do to the stable contents: unlink and its effects
\* stay in the shadows.
LEMMA StepLinks ==
    ASSUME TypeOK, UnlinkInv, NEW p \in Proc, NEW t, pc[p] = t[1], arg[p] \in File, Did(p, t)
    PROVE  LinksKept
<1>c. /\ arg[p] \in Obj /\ arg[p] # DirBuf /\ DirBuf \in Obj /\ File \subseteq Obj
      /\ \A b \in Buf : b \in Obj /\ b \notin File
      /\ Freed \notin Content
  BY Constants, TxAssumption, ZenonT(40)
<1>k. ASSUME UNCHANGED val PROVE LinksKept
  BY <1>k, Zenon DEF LinksKept
<1>1. ASSUME NEW b \in Buf, NEW c \in Content, DidStore(p, t, b, c) PROVE LinksKept
  <2>0. Store(p, b, c, t[2])
    BY <1>1, Zenon DEF DidStore
  <2>1. CASE Active(p)
    BY <2>0, <2>1, <1>k, ZenonT(40) DEF Store
  <2>2. CASE ~Active(p)
    <3>1. t # <<"unlink_clear", "unlink_unlock">>
      BY <2>2 DEF UnlinkInv, UnlinkOf, Unlinking
    <3>2. c.links = val[b].links
      BY <1>1, <2>2, <3>1, ZenonT(40) DEF DidStore, Sees, Content
    <3>3. \A x \in Obj : val'[x] = IF x = b THEN c ELSE val[x]
      BY <2>0, <2>2, ZenonT(40) DEF Store, TypeOK
    <3> QED
      BY <1>c, <3>2, <3>3, ZenonT(40) DEF LinksKept
  <2> QED
    BY <2>1, <2>2
<1>2. ASSUME NEW o \in Inode, DidPut(p, t, o) PROVE LinksKept
  BY <1>2, DropLinks, ZenonT(40) DEF DidPut, iput
<1>3. ASSUME NEW c \in Content, DidSet(p, t, c) PROVE LinksKept
  <2>0. SetInode(p, arg[p], c, t[2])
    BY <1>3, Zenon DEF DidSet
  <2>1. CASE Active(p)
    BY <2>0, <2>1, <1>k, ZenonT(40) DEF SetInode
  <2>2. CASE ~Active(p)
    <3>1. t # <<"unlink_drop", "unlink_done">>
      <4>1. t = <<"unlink_drop", "unlink_done">> => t[1] \in Unlinking
        BY DEF Unlinking
      <4> QED
        BY <2>2, <4>1, Zenon DEF UnlinkInv, UnlinkOf
    <3>2. c.links = val[arg[p]].links
      BY <1>3, <2>2, <3>1, ZenonT(40) DEF DidSet, Sees, Content
    <3>3. \A x \in Obj : val'[x] = IF x = arg[p] THEN c ELSE val[x]
      BY <2>0, <2>2, <1>c, ZenonT(40) DEF SetInode, TypeOK
    <3>4. c # Freed
      BY <1>c
    <3> QED
      BY <1>c, <3>2, <3>3, <3>4, ZenonT(40) DEF LinksKept, Linked
  <2> QED
    BY <2>1, <2>2, Zenon
<1> QED
  BY <1>k, <1>1, <1>2, <1>3, ZenonT(40)
     DEF Did, DidAccess, DidUnwind, DidUnlock, idup, Access, Unwind, iget, fdalloc

\* The name is cleared by a call that has been through bdata of the buffer, and the
\* steps that look up a name are no others.
LEMMA ClearPoints ==
    \A t : /\ t \in DataSteps => t \notin Lookups
           /\ t = <<"unlink_clear", "unlink_unlock">> => t[1] \in SawBuf
BY DEF DataSteps, Lookups, SawBuf

\* The steps of the calls keep the entries,
LEMMA StepEntry ==
    ASSUME Fits, TypeOK, PhaseInv, TouchInv, LockInv, OwnerInv, UnlinkInv, EntryInv,
           NEW p \in Proc, NEW t, pc[p] = t[1], arg[p] \in File, Did(p, t), Others(p)
    PROVE  EntryInv'
<1>l. LinksKept
  BY StepLinks, ZenonT(40)
<1>c. /\ arg[p] \in Obj /\ arg[p] # DirBuf /\ DirBuf \in Obj /\ cwd # DirBuf /\ cwd \notin File
      /\ File \subseteq Obj /\ \A b \in Buf : b \in Obj /\ b \notin File
      /\ \A o \in Inode : o \in Obj /\ o # DirBuf
      /\ Freed \notin Content /\ None \notin Content /\ None # Freed
      /\ DataBuf[arg[p]] # DirBuf
  BY Constants, TxAssumption, Zenon DEF DirBuf
<1>o. pc[p] \notin Outside
  BY Zenon DEF PhaseInv, PhaseOf
<1>s. \A l : l \notin Outside \/ l = "user" => l # "commit_swap" /\ l # "commit_lock"
  BY Zenon DEF Outside, CommitLoop
<1>p. Pending(p) = Workset(p) /\ (Unpublished(p) <=> Active(p)) /\ pc[p] # "commit_swap"
  BY <1>o, <1>s, Zenon DEF Pending, Unpublished
<1> SUFFICES ASSUME Unpublished(p)', DirBuf \in Workset(p)'
             PROVE  EntryOf(p)'
  BY <1>l, <1>p, EntryFrame, ZenonT(40)
<1>g. ASSUME NEW l, Goto(p, l), l \notin Outside \/ l = "user"
      PROVE  Pending(p)' = Workset(p)' /\ (Unpublished(p)' <=> Active(p)')
  <2>1. pc'[p] = l
    BY <1>g DEF Goto, TypeOK
  <2> QED
    BY <1>g, <1>s, <2>1, ZenonT(40) DEF Pending, Unpublished
<1>k. ASSUME NEW l, Goto(p, l), l \notin Outside \/ l = "user", UNCHANGED <<status, shadow>>
      PROVE  EntryOf(p)'
  <2>1. Workset(p)' = Workset(p) /\ (Active(p)' <=> Active(p))
    BY <1>k DEF Workset, Active
  <2>2. Pending(p)' = Pending(p) /\ EntryOf(p)
    BY <1>k, <1>g, <1>p, <2>1, ZenonT(40) DEF EntryInv
  <2> QED
    BY <1>k, <1>l, <2>2, ViewKept, ZenonT(40)
\* an object is set to c in the shadows
<1>v. ASSUME NEW l, Goto(p, l), l \notin Outside \/ l = "user", UNCHANGED <<status, val>>,
             NEW o \in Obj, NEW c \in Content,
             \A x \in Obj : shadow'[p][x] = IF x = o THEN c ELSE shadow[p][x]
      PROVE  /\ Active(p) /\ View(p, o)' = c /\ \A x \in Obj : x # o => View(p, x)' = View(p, x)
             /\ DirBuf \in Workset(p) => EntryOf(p)
             /\ o # DirBuf => DirBuf \in Workset(p)
  <2>1. Workset(p)' = Workset(p) \cup {o}
    BY <1>v, <1>c, ZenonT(40) DEF Workset
  <2>2. Pending(p)' = Pending(p) \cup {o} /\ Active(p)
    BY <1>v, <1>g, <1>p, <2>1, ZenonT(40) DEF Active
  <2> QED
    BY <1>v, <1>p, <2>1, <2>2, ZenonT(40) DEF View, EntryInv
<1>1. CASE t \in Idups /\ idup(p, cwd, t[1], t[2])
  BY <1>1, <1>k, IdupPoints, ZenonT(40) DEF idup, txVars
<1>2. ASSUME NEW o \in Inode, DidAccess(p, t, o) PROVE EntryOf(p)'
  <2>0. /\ Goto(p, t[2]) /\ UNCHANGED <<status, val>> /\ Accessing(p, t, o) /\ Access(p, o, t[2])
        /\ Sees(p, o) \in Content
    BY <1>2 DEF DidAccess, Access
  <2>1. t[2] \notin Outside
    BY <2>0, DirStepPoints, FileStepPoints, ZenonT(40) DEF Accessing
  <2>2. CASE Active(p)
    <3>1. \A x \in Obj : shadow'[p][x] = IF x = o THEN Sees(p, o) ELSE shadow[p][x]
      <4>1. SetsShadow(p, o, Sees(p, o)) /\ o \in Obj
        BY <2>0, <2>2, <1>c, Zenon DEF Access, SetsShadow
      <4>2. OneShadow(p, o, Sees(p, o))
        BY <4>1, ShadowSet, Zenon
      <4> QED
        BY <4>1, <4>2, Zenon DEF OneShadow
    <3>2. /\ View(p, o)' = Sees(p, o) /\ \A x \in Obj : x # o => View(p, x)' = View(p, x)
          /\ EntryOf(p)
      BY <1>v, <1>c, <2>0, <2>1, <3>1, ZenonT(40)
    <3>3. View(p, o) = Sees(p, o)
      BY <2>2, <1>p, <1>c, ZenonT(40) DEF View, Sees, Workset
    <3> QED
      BY <1>c, <3>2, <3>3, ZenonT(40) DEF EntryOf, Linked
  <2>3. CASE ~Active(p)
    BY <1>k, <2>0, <2>1, <2>3, ZenonT(40) DEF Access
  <2> QED
    BY <2>2, <2>3, ZenonT(40)
<1>3. ASSUME NEW o \in Inode, DidUnwind(p, t, o) PROVE EntryOf(p)'
  <2>1. \A x \in Obj : shadow[p][x] = None
    BY <1>3, UnwindFirst, ZenonT(40) DEF Workset
  <2>2. \A x \in Obj : shadow'[p][x] = None
    BY <1>3, <2>1, ZenonT(40) DEF DidUnwind, Unwind, TypeOK
  <2> QED
    BY <2>2, <1>c, ZenonT(40) DEF Workset
<1>4. ASSUME NEW b \in Buf, NEW c \in Content, DidStore(p, t, b, c) PROVE EntryOf(p)'
  <2>0. Goto(p, t[2]) /\ UNCHANGED status /\ Store(p, b, c, t[2]) /\ Sees(p, b) \in Content
    BY <1>4 DEF DidStore, Store
  <2>t. t \in Lookups \/ t \in DataSteps
    BY <1>4 DEF DidStore, DataSteps
  <2>1. t[2] \notin Outside
    BY <2>t, LookupPoints, DataStepPoints, ZenonT(40)
  <2>2. CASE ~Active(p)
    BY <1>k, <2>0, <2>1, <2>2, ZenonT(40) DEF Store
  <2>3. CASE Active(p)
    <3>1. UNCHANGED val /\ \A x \in Obj : shadow'[p][x] = IF x = b THEN c ELSE shadow[p][x]
      <4>1. UNCHANGED val /\ SetsShadow(p, b, c) /\ b \in Obj
        BY <2>0, <2>3, <1>c, Zenon DEF Store, SetsShadow
      <4>2. OneShadow(p, b, c)
        BY <4>1, ShadowSet, Zenon
      <4> QED
        BY <4>1, <4>2, Zenon DEF OneShadow
    <3>2. /\ View(p, b)' = c /\ \A x \in Obj : x # b => View(p, x)' = View(p, x)
          /\ DirBuf \in Workset(p) => EntryOf(p)
          /\ b # DirBuf => DirBuf \in Workset(p)
      BY <1>v, <1>c, <2>0, <2>1, <3>1, ZenonT(40)
    <3>3. View(p, b) = Sees(p, b)
      BY <2>3, <1>p, <1>c, ZenonT(40) DEF View, Sees, Workset
    <3>4. c.links \subseteq Sees(p, b).links
      BY <1>4, <2>0, ZenonT(40) DEF DidStore, Content
    <3>5. CASE DirBuf \in Workset(p)
      BY <1>c, <3>2, <3>3, <3>4, <3>5, Zenon DEF EntryOf, Linked
    <3>6. CASE DirBuf \notin Workset(p)
      <4>1. t \in Lookups /\ b = DirBuf /\ c = Sees(p, b)
        <5>1. t \notin DataSteps
          <6>1. t \in DataSteps => b # DirBuf \/ t = <<"unlink_clear", "unlink_unlock">>
            <7>1. \/ t \in Lookups \/ b = DataBuf[arg[p]] \/ t = <<"unlink_clear", "unlink_unlock">>
              BY <1>4, Zenon DEF DidStore
            <7> QED
              BY <7>1, <1>c, ClearPoints, Zenon
          <6>2. t = <<"unlink_clear", "unlink_unlock">> => t[1] \in SawBuf
            BY ClearPoints, Zenon
          <6> QED
            BY <2>3, <3>2, <3>6, <6>1, <6>2, ZenonT(40) DEF TouchInv, TouchOf
        <5> QED
          BY <1>4, <2>t, <5>1, ZenonT(40) DEF DidStore, DataSteps
      <4>2. t[1] \in HoldsDir /\ t[1] \in Looking
        BY <4>1, LookupPoints, ZenonT(40)
      <4>3. ~Swapping
        BY <4>2, DirLocked, ZenonT(40)
      <4>4. Workset(p) = {cwd}
        BY <2>3, <3>6, <4>2, ZenonT(40) DEF TouchInv, TouchOf
      <4>5. c = val[DirBuf]
        BY <3>6, <4>1, <1>c, ZenonT(40) DEF Sees, Workset
      <4>6. \A f \in File : View(p, f)' = val[f]
        BY <3>2, <4>1, <4>4, <1>p, <1>c, ZenonT(40) DEF View
      <4> QED
        BY <3>2, <4>1, <4>3, <4>5, <4>6, ZenonT(40) DEF EntryOf, EntryInv, EntryStable, Linked
    <3> QED
      BY <3>5, <3>6, ZenonT(40)
  <2> QED
    BY <2>2, <2>3, ZenonT(40)
<1>5. CASE t \in Igets /\ iget(p, arg[p], t[1], t[2])
  BY <1>5, <1>k, IgetPoints, EntryPoints, ZenonT(40) DEF iget, txVars
<1>6. ASSUME NEW o \in Inode, DidUnlock(p, t, o) PROVE EntryOf(p)'
  <2>1. t \in DirUnlocks \/ t = <<"read_unlock", "user">>
    BY <1>6, Zenon DEF DidUnlock
  <2>2. t[2] \notin Outside \/ t[2] = "user"
    <3>1. t = <<"read_unlock", "user">> => t[2] = "user"
      OBVIOUS
    <3>2. t \in DirUnlocks => t[2] \notin Outside
      BY DirUnlockPoints, Zenon
    <3> QED
      BY <2>1, <3>1, <3>2, Zenon
  <2> QED
    BY <1>6, <1>k, <2>2, Zenon DEF DidUnlock, txVars
<1>7. ASSUME NEW o \in Inode, DidPut(p, t, o) PROVE EntryOf(p)'
  BY <1>7, <1>k, DirPutPoints, FilePutPoints, ZenonT(40) DEF DidPut, iput, txVars
<1>8. CASE t = <<"open_fd", "user">> /\ fdalloc(p, arg[p], t[1], t[2])
  BY <1>8, <1>k, ZenonT(40) DEF fdalloc
<1>9. ASSUME NEW c \in Content, DidSet(p, t, c) PROVE EntryOf(p)'
  <2>0. /\ SetInode(p, arg[p], c, t[2]) /\ Goto(p, t[2]) /\ UNCHANGED status
        /\ Sees(p, arg[p]) \in Content
    BY <1>9 DEF DidSet, SetInode
  <2>1. t[2] \notin Outside \/ t[2] = "user"
    <3>1. t = <<"write_size", "user">> \/ t = <<"unlink_drop", "unlink_done">>
      BY <1>9, Zenon DEF DidSet
    <3>2. "unlink_done" \notin Outside
      BY DEF Outside, CommitLoop, AbortLoop
    <3> QED
      BY <3>1, <3>2
  <2>2. CASE ~Active(p)
    BY <1>k, <2>0, <2>1, <2>2, Zenon DEF SetInode
  <2>3. CASE Active(p)
    <3>a. PICK a \in Obj : a = arg[p]
      BY <1>c, ZenonT(40)
    <3>1. UNCHANGED val /\ \A x \in Obj : shadow'[p][x] = IF x = a THEN c ELSE shadow[p][x]
      <4>1. UNCHANGED val /\ SetsShadow(p, a, c)
        BY <2>0, <2>3, <3>a, Zenon DEF SetInode, SetsShadow
      <4>2. OneShadow(p, a, c)
        BY <4>1, ShadowSet, Zenon
      <4> QED
        BY <4>1, <4>2, Zenon DEF OneShadow
    <3>2. /\ View(p, a)' = c /\ \A x \in Obj : x # a => View(p, x)' = View(p, x)
          /\ DirBuf \in Workset(p) => EntryOf(p)
          /\ a # DirBuf => DirBuf \in Workset(p)
      BY <1>v, <2>0, <2>1, <3>1, ZenonT(40)
    <3>3. View(p, a) = Sees(p, a) /\ a # DirBuf
      BY <2>3, <3>a, <1>p, <1>c, ZenonT(40) DEF View, Sees, Workset
    <3>4. c # Freed /\ (c.links = Sees(p, a).links \/ a \notin View(p, DirBuf).links)
      <4>1. CASE t = <<"write_size", "user">>
        BY <1>9, <1>c, <2>0, <3>a, <4>1, Zenon DEF DidSet, Content
      <4>2. CASE t = <<"unlink_drop", "unlink_done">>
        <5>1. arg[p] \notin shadow[p][DirBuf].links
          BY <4>2, ZenonT(40) DEF UnlinkInv, UnlinkOf
        <5> QED
          BY <1>c, <1>p, <3>2, <3>3, <3>a, <5>1, ZenonT(40) DEF View
      <4> QED
        BY <1>9, <4>1, <4>2, Zenon DEF DidSet
    <3>5. ASSUME NEW f \in File, f \in View(p, DirBuf)'.links PROVE Linked(View(p, f)')
      <4>1. f \in View(p, DirBuf).links /\ Linked(View(p, f))
        BY <1>c, <3>2, <3>3, <3>5, ZenonT(40) DEF EntryOf
      <4> QED
        BY <1>c, <3>2, <3>3, <3>4, <4>1, ZenonT(40) DEF Linked
    <3> QED
      BY <3>5, ZenonT(40) DEF EntryOf, Linked
  <2> QED
    BY <2>2, <2>3, ZenonT(40)
<1> QED
  BY <1>1, <1>2, <1>3, <1>4, <1>5, <1>6, <1>7, <1>8, <1>9, ZenonT(40) DEF Did

\* the swaps of txcommit publish what the transaction will have left behind,
LEMMA SwapView ==
    ASSUME TypeOK, NEW p \in Proc, NEW o \in Obj, o \in rest[p], pc[p] = "commit_swap",
           DidSwap(p, <<"commit_swap", "commit_unlock">>, o)
    PROVE  /\ pc'[p] = "commit_swap" => \A x \in Obj : View(p, x)' = View(p, x)
           /\ pc'[p] # "commit_swap" => \A x \in Obj : val'[x] = View(p, x)
<1>1. UNCHANGED shadow /\ \A x \in Obj : val'[x] = IF x = o THEN shadow[p][o] ELSE val[x]
  BY DEF DidSwap, TypeOK, txVars
<1>2. \/ rest[p] = {o} /\ pc'[p] = "commit_unlock"
      \/ pc'[p] = "commit_swap" /\ rest'[p] = rest[p] \ {o}
  BY RoundEffect, ZenonT(40) DEF DidSwap
<1> QED
  BY <1>1, <1>2, ZenonT(40) DEF View, Pending

\* the other steps of the loops change nothing of it,
LEMMA LoopEntry ==
    ASSUME TypeOK, OwnerInv, EntryInv, TouchInv, NEW p \in Proc, NEW t \in LoopSteps,
           NEW o \in Obj, pc[p] = t[1], o \in rest[p], o \in Workset(p), ~Active(p),
           LoopDid(p, t, o), Others(p)
    PROVE  EntryInv'
<1>c. DirBuf \in Obj /\ File \subseteq Obj
  BY Constants, ZenonT(40)
<1>0. ~Active(p)' /\ DirBuf \in Workset(p)
  BY ZenonT(40) DEF LoopDid, DidLock, DidSwap, DidRelease, DidFree, DidDrop, txVars, Active,
         TouchInv, TouchOf
<1>k. ASSUME UNCHANGED val PROVE LinksKept
  BY <1>k, ZenonT(40) DEF LinksKept
<1>1. CASE DidLock(p, t, o)
  <2>1. UNCHANGED <<val, shadow>> /\ t \in LockLoops /\ Workset(p)' = Workset(p)
    BY <1>1, ZenonT(40) DEF DidLock, txVars, Workset
  <2>2. \/ pc'[p] = t[2] /\ rest'[p] = Workset(p)
        \/ pc'[p] = t[1]
    <3>1. Round(p, o, t[1], t[2])
      BY <1>1, Zenon DEF DidLock
    <3> QED
      BY <3>1, RoundEffect
  <2>3. CASE t = <<"commit_lock", "commit_swap">>
    <3>1. Pending(p)' = Pending(p) /\ EntryOf(p)
      BY <1>0, <2>1, <2>2, <2>3, ZenonT(40) DEF Pending, EntryInv, Unpublished
    <3>2. EntryOf(p)'
      BY <1>k, <2>1, <3>1, ViewKept, ZenonT(40)
    <3> QED
      BY <1>k, <2>1, <2>3, <3>2, EntryFrame, Zenon
  <2>4. CASE t = <<"abort_lock", "abort_unlock">>
    <3>1. ~Unpublished(p)'
      BY <1>0, <2>2, <2>4, ZenonT(40) DEF Unpublished
    <3> QED
      BY <1>k, <2>1, <2>4, <3>1, EntryFrame, ZenonT(40)
  <2> QED
    BY <2>1, <2>3, <2>4, Zenon DEF LockLoops
<1>2. CASE DidSwap(p, t, o)
  <2>0. t = <<"commit_swap", "commit_unlock">> /\ pc[p] = "commit_swap"
    BY <1>2, Zenon DEF DidSwap
  <2>1. EntryOf(p)
    BY <1>0, <2>0, ZenonT(40) DEF EntryInv, Unpublished
  <2>2. ASSUME NEW q \in Proc, q # p PROVE DirBuf \notin Workset(q)'
    <3>1. Workset(q)' = Workset(q) /\ Workset(q) = {}
      <4>1. shadow'[q] = shadow[q] /\ q # p
        BY <2>2, Zenon DEF Others
      <4>2. Workset(q)' = Workset(q)
        BY <4>1, Zenon DEF Workset
      <4>3. writer[cwd] = p
        BY <1>0, Zenon DEF OwnerInv
      <4> QED
        BY <4>1, <4>2, <4>3, Zenon DEF OwnerInv
    <3> QED
      BY <3>1, Zenon
  <2>3. CASE pc'[p] = "commit_swap"
    <3>1. \A x \in Obj : View(p, x)' = View(p, x)
      BY <1>2, <2>0, <2>3, SwapView, ZenonT(40)
    <3>2. EntryOf(p)'
      BY <1>c, <2>1, <3>1, ZenonT(40) DEF EntryOf, Linked
    <3> QED
      BY <2>2, <2>3, <3>2, Zenon DEF EntryInv, Swapping
  <2>4. CASE pc'[p] # "commit_swap"
    <3>1. \A x \in Obj : val'[x] = View(p, x)
      BY <1>2, <2>0, <2>4, SwapView, ZenonT(40)
    <3>2. EntryStable'
      BY <1>c, <2>1, <3>1, ZenonT(40) DEF EntryOf, EntryStable, Linked
    <3>3. ~Unpublished(p)'
      <4>1. pc'[p] = "commit_unlock" \/ pc'[p] = "commit_swap"
        <5>1. Round(p, o, "commit_swap", "commit_unlock")
          BY <1>2, <2>0 DEF DidSwap
        <5> QED
          BY <5>1, RoundGoes, Zenon
      <4> QED
        BY <1>0, <2>4, <4>1, Zenon DEF Unpublished
    <3> QED
      BY <2>2, <3>2, <3>3, ZenonT(40) DEF EntryInv
  <2> QED
    BY <2>3, <2>4, ZenonT(40)
<1>u. ASSUME t \in UnlockLoops \cup PutLoops \cup {<<"abort_free", "abort_put">>},
             pc'[p] \in {t[1], t[2], "txdone"}, LinksKept
      PROVE  EntryInv'
  <2>1. pc[p] # "commit_swap" /\ pc'[p] \notin {"commit_lock", "commit_swap"}
    <3>1. CASE t \in UnlockLoops
      BY <1>u, <3>1 DEF UnlockLoops
    <3>2. CASE t \in PutLoops
      BY <1>u, <3>2 DEF PutLoops
    <3>3. CASE t = <<"abort_free", "abort_put">>
      BY <1>u, <3>3
    <3> QED
      BY <1>u, <3>1, <3>2, <3>3, Zenon
  <2> QED
    BY <1>0, <1>u, <2>1, EntryFrame, Zenon DEF Unpublished
<1>3. CASE DidRelease(p, t, o)
  <2>1. UNCHANGED val /\ t \in UnlockLoops /\ Round(p, o, t[1], t[2])
    BY <1>3, Zenon DEF DidRelease
  <2>2. pc'[p] \in {t[1], t[2]}
    BY <2>1, RoundGoes
  <2> QED
    BY <2>1, <2>2, <1>u, <1>k, Zenon
<1>4. CASE DidFree(p, t, o)
  <2>1. pc'[p] = t[2] /\ UNCHANGED val
    BY <1>4, ZenonT(40) DEF DidFree, Goto, TypeOK, objVars
  <2> QED
    BY <1>4, <1>u, <1>k, <2>1 DEF DidFree
<1>5. CASE DidDrop(p, t, o)
  <2>1. LinksKept
    <3>1. CASE o \in Inode
      BY <1>5, <3>1, DropLinks, ZenonT(40) DEF DidDrop, Drop
    <3>2. CASE o \notin Inode
      BY <1>5, <3>2, <1>k, ZenonT(40) DEF DidDrop, Drop
    <3> QED
      BY <3>1, <3>2, ZenonT(40)
  <2>2. pc'[p] \in {t[1], t[2], "txdone"}
    <3>1. Round(p, o, t[2], "txdone")
      BY <1>5, Zenon DEF DidDrop
    <3> QED
      BY <3>1, RoundGoes
  <2> QED
    BY <1>5, <1>u, <2>1, <2>2, ZenonT(40) DEF DidDrop
<1> QED
  BY <1>1, <1>2, <1>3, <1>4, <1>5, ZenonT(40) DEF LoopDid

\* and the system calls neither.
LEMMA SysEntry ==
    ASSUME TypeOK, PhaseInv, EntryInv, NEW p \in Proc, Syscall(p) \/ txdone(p), Others(p)
    PROVE  EntryInv'
<1>0. LinksKept
  BY SysFrees, ZenonT(40) DEF LinksKept
<1>1. pc[p] \in {"user", "txdone"}
  BY ZenonT(40) DEF Syscall, sys_txbegin, sys_txcommit, sys_txabort, sys_open, sys_close, sys_read,
         sys_write, sys_unlink, txdone, MayCall, UserMode, At
<1> SUFFICES ASSUME Unpublished(p)', DirBuf \in Workset(p)' PROVE EntryOf(p)'
  BY <1>0, <1>1, EntryFrame, ZenonT(40)
<1>e. ASSUME NEW f, NEW l, Enter(p, l, f) PROVE pc'[p] = l
  BY <1>e DEF Enter, TypeOK
<1>k. ASSUME UNCHANGED shadow, Active(p), pc'[p] # "commit_swap" PROVE EntryOf(p)'
  <2>1. Workset(p)' = Workset(p)
    BY <1>k DEF Workset
  <2>2. Pending(p)' = Pending(p) /\ EntryOf(p)
    BY <1>1, <1>k, <2>1, ZenonT(40) DEF Pending, EntryInv, Unpublished
  <2> QED
    BY <1>0, <1>k, <2>2, ViewKept, ZenonT(40)
<1>2. CASE sys_txbegin(p) \/ txdone(p)
  <2>1. \A x \in Obj : shadow'[p][x] = None
    BY <1>2 DEF sys_txbegin, txdone, TypeOK
  <2> QED
    BY <2>1, Constants, Zenon DEF Workset
<1>3. CASE sys_txcommit(p) \/ sys_txabort(p)
  <2>1. UNCHANGED shadow /\ Active(p) /\ pc'[p] # "commit_swap"
    BY <1>3, ZenonT(40) DEF sys_txcommit, sys_txabort, Loop, TypeOK
  <2> QED
    BY <2>1, <1>k
<1>4. ASSUME NEW f \in File, \/ sys_open(p, f) \/ sys_close(p, f) \/ sys_read(p, f)
                             \/ sys_write(p, f) \/ sys_unlink(p, f)
      PROVE  EntryOf(p)'
  <2>1. UNCHANGED <<status, shadow>> /\ pc'[p] \in {"open", "close", "read", "write", "unlink"}
    BY <1>4, <1>e, ZenonT(40) DEF sys_open, sys_close, sys_read, sys_write, sys_unlink, txVars
  <2>2. Active(p) /\ pc'[p] # "commit_swap"
    BY <2>1 DEF Unpublished, Active
  <2> QED
    BY <2>1, <2>2, <1>k, Zenon
<1> QED
  BY <1>2, <1>3, <1>4 DEF Syscall

=============================================================================
