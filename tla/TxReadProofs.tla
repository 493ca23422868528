---------------------------- MODULE TxReadProofs ----------------------------
(***************************************************************************)
(* The theorems that rest on both: the kernel stays up, no entry is without*)
(* its inode, and no read is torn.                                         *)
(***************************************************************************)
EXTENDS TxProofs, TxLinkProofs

-----------------------------------------------------------------------------
(* The theorems.                                                            *)

\* The invariant holds at first,
LEMMA LInit ==
    ASSUME Init
    PROVE  LInv
<1>1. BInv
  BY BInit
<1> USE DEF Init
<1>c. cwd \in Obj /\ DirBuf \in Obj /\ File \subseteq Obj /\ None \notin Proc /\ Freed \notin Content
      /\ None # Freed /\ File \subseteq Inode /\ DirBuf \notin Inode
  BY Constants, ZenonT(40)
<1>2. \A p \in Proc : pc[p] = "user" /\ Workset(p) = {} /\ ~conflict[p]
  BY DEF Workset
<1>3. LockInv
  <2>1. "user" \notin HoldsDir /\ "user" \notin HoldsFile /\ "user" \notin Locking
        /\ "user" \notin Unlocking
    BY DEF HoldsDir, HoldsFile, Locking, Unlocking
  <2> QED
    BY <1>2, <1>c, <2>1, ZenonT(40) DEF LockInv, Holds
<1>4. OwnerInv
  BY <1>2 DEF OwnerInv
<1>5. ShadowInv
  BY <1>2, <1>c, ZenonT(40) DEF ShadowInv, ShadowOf
<1>6. \A o \in Obj : val[o] # Freed
  BY <1>1, <1>c, TxAssumption DEF BInv, NoDirtyData, TypeOK, Content
<1>7. FreedInv
  BY <1>6 DEF FreedInv
<1>8. EntryInv
  <2>1. \A f \in File : val[f].links = {f}
    BY <1>c, Zenon
  <2>2. EntryStable
    BY <1>6, <1>c, <2>1, Zenon DEF EntryStable, Linked
  <2> QED
    BY <1>2, <2>2, Zenon DEF EntryInv
<1>9. UnlinkInv
  BY <1>2, ZenonT(40) DEF UnlinkInv, UnlinkOf, Unlinking
<1>10. NoFault
  BY DEF NoFault
<1> QED
  BY <1>1, <1>3, <1>4, <1>5, <1>7, <1>8, <1>9, <1>10, ZenonT(40) DEF LInv

\* and every step keeps it.
LEMMA LStep ==
    ASSUME Disciplined, Fits, UnlinkInside, LInv, [Next]_vars
    PROVE  LInv'
<1>0. /\ TypeOK /\ PhaseInv /\ TouchInv /\ StableInv /\ RefInv
      /\ LockInv /\ OwnerInv /\ ShadowInv /\ FreedInv /\ EntryInv /\ UnlinkInv /\ NoFault /\ BInv
  BY DEF LInv, BInv
<1>b. BInv'
  BY <1>0, BStep, Zenon
<1>1. CASE UNCHANGED vars
  <2> USE <1>1 DEF vars, txVars, calls, objVars, ghostVars
  <2>0. \A p \in Proc : Workset(p)' = Workset(p) /\ (Active(p)' <=> Active(p))
    BY Zenon DEF Workset, Active
  <2>1. LockInv' /\ OwnerInv' /\ ShadowInv' /\ FreedInv' /\ NoFault'
    BY <1>0, <2>0 DEF LockInv, Holds, OwnerInv, ShadowInv, ShadowOf, FreedInv, NoFault
  <2>2. UnlinkInv'
    BY <1>0, <2>0, Zenon DEF UnlinkInv, UnlinkOf
  <2>3. EntryInv'
    BY <1>0, <2>0, ZenonT(40) DEF EntryInv, Swapping, EntryStable, EntryOf, View, Pending, Unpublished, Linked
  <2> QED
    BY <1>b, <2>1, <2>2, <2>3, Zenon DEF LInv
<1>2. ASSUME NEW p \in Proc, Syscall(p) \/ KernelStep(p)
      PROVE  LInv'
  <2>1. Others(p)
    BY <1>0, <1>2, OthersStep, Zenon
  <2>p. PhaseInv'
    BY <1>b, Zenon DEF BInv
  <2>2. UNCHANGED fault
    BY <1>2, Steps, StepKeepsUp, LoopKeepsUp, SysKeepsUp, Zenon
  <2>3. NoFault'
    BY <1>0, <2>2, Zenon DEF NoFault
  <2>4. CASE Syscall(p) \/ txdone(p)
    <3>1. LockInv' /\ OwnerInv' /\ ShadowInv'
      BY <1>0, <2>1, <2>4, SysLock, OtherOwner, SysShadow, ZenonT(40)
    <3>2. FreedInv' /\ EntryInv' /\ UnlinkInv'
      BY <1>0, <2>1, <2>4, OtherFreed, SysEntry, OtherUnlink, ZenonT(40)
    <3> QED
      BY <1>b, <2>3, <3>1, <3>2, ZenonT(40) DEF LInv
  <2>5. CASE Stepping(p)
    <3>1. PICK t : /\ pc[p] = t[1] /\ fault = "none"
                   /\ arg[p] \in File /\ conflict[p] = FALSE
                   /\ Did(p, t)
      BY <1>0, <2>2, <2>5, Effects, Zenon
    <3>2. LockInv' /\ OwnerInv' /\ ShadowInv'
      BY <1>0, <2>1, <3>1, StepLock, StepOwner, StepShadow, ZenonT(40)
    <3>3. FreedInv' /\ EntryInv' /\ UnlinkInv'
      BY <1>0, <2>1, <3>1, StepFreed, StepEntry, StepUnlink, ZenonT(40)
    <3> QED
      BY <1>b, <2>3, <3>2, <3>3 DEF LInv
  <2>6. CASE Looping(p)
    <3>1. PICK t \in LoopSteps, o \in Obj :
            /\ pc[p] = t[1] /\ fault = "none"
            /\ o \in rest[p] /\ o \in Workset(p) /\ rest[p] \subseteq Workset(p)
            /\ \A x \in rest[p] : Addr[o] <= Addr[x]
            /\ ~Active(p) /\ conflict[p] = FALSE /\ arg[p] \notin File
            /\ LoopDid(p, t, o)
      BY <1>0, <2>2, <2>6, LoopEffects, Zenon
    <3>2. LockInv' /\ OwnerInv' /\ ShadowInv'
      BY <1>0, <2>1, <3>1, LoopLock, OtherOwner, LoopShadow, ZenonT(40)
    <3>3. FreedInv' /\ EntryInv' /\ UnlinkInv'
      BY <1>0, <2>1, <2>p, <3>1, OtherFreed, LoopEntry, OtherUnlink, ZenonT(40)
    <3> QED
      BY <1>b, <2>3, <3>2, <3>3, ZenonT(40) DEF LInv
  <2> QED
    BY <1>2, <2>4, <2>5, <2>6, Steps
<1> QED
  BY <1>1, <1>2, Zenon DEF Next

\* The invariant, when worksets do not fill and only transactions unlink.
THEOREM LinkInvariant ==
    ASSUME Disciplined, Fits, UnlinkInside
    PROVE  Spec => []LInv
<1>1. Init => LInv
  BY LInit
<1>2. LInv /\ [Next]_vars => LInv'
  BY LStep
<1> QED
  BY <1>1, <1>2, PTL DEF Spec

\* The kernel neither panics nor follows a freed shadow page: ilock meets no
\* freed inode, iunlock no lock of another, bdata no conflict, and no loop of
\* txcommit or txabort a page that has been freed before.
THEOREM KernelStaysUp ==
    ASSUME Disciplined, Fits, UnlinkInside
    PROVE  Spec => []NoFault
<1>1. LInv => NoFault
  BY ZenonT(40) DEF LInv
<1> QED
  BY <1>1, LinkInvariant, PTL

\* An entry of a directory nobody is writing names an inode with a link: unlink
\* changes both in the shadows, and txcommit swaps both under their locks.
THEOREM EntriesLinked ==
    ASSUME Disciplined, Fits, UnlinkInside
    PROVE  Spec => []EntryHasLink
<1>1. ASSUME LInv PROVE EntryHasLink
  <2>1. ASSUME slock[DirBuf] = None PROVE ~Swapping
    <3>1. PhaseInv /\ TouchInv /\ LockInv /\ None \notin Proc
      BY <1>1, Constants, Zenon DEF LInv, BInv
    <3> QED
      BY <2>1, <3>1, SwapHolds, ZenonT(40) DEF Swapping
  <2> QED
    BY <1>1, <2>1, Zenon DEF LInv, EntryInv, EntryStable, EntryHasLink, Linked
<1> QED
  BY <1>1, LinkInvariant, PTL

-----------------------------------------------------------------------------
(* No torn read.                                                            *)

\* Nothing is stored in place; an inode may be freed.
ValKept ==
    \A x \in Obj : val'[x] = val[x] \/ (x \in Inode /\ val'[x] = Freed)

\* A transaction that has not published sees the same versions again.
LEMMA ViewAgain ==
    ASSUME ValKept, NEW q \in Proc, NEW i \in Inode, ViewSame(q, i), Pending(q)' = Pending(q),
           shadow'[q] = shadow[q]
    PROVE  ViewSame(q, i)'
<1>1. i \in Obj /\ DataBuf[i] \in Obj /\ DataBuf[i] \notin Inode
  BY Constants, ZenonT(40)
<1> QED
  BY <1>1, ZenonT(40) DEF ValKept, ViewSame, View, SameVersion

\* Only p is to be looked at when nothing is stored in place,
LEMMA WholeFrame ==
    ASSUME WholeInv, TypeOK, PhaseInv, TouchInv, RefInv', FreedInv', StableInv',
           NEW p \in Proc, Others(p), ValKept,
           pc[p] = "commit_swap" => pc'[p] = "commit_swap", TornOf(p)'
    PROVE  WholeInv'
<1>0. cwd \in Obj /\ cwd \in Inode /\ \A i \in Inode : i \in Obj /\ DataBuf[i] \in Obj /\ DataBuf[i] \notin Inode
  BY Constants
<1>1. ASSUME ~Swapping', NEW i \in Inode PROVE StableSame(i)'
  <2>1. ~Swapping
    BY <1>1, Zenon DEF Swapping, Others
  <2> QED
    BY <1>0, <2>1, ZenonT(40) DEF WholeInv, StableSame, SameVersion, ValKept
<1>2. ASSUME NEW q \in Proc, q # p PROVE TornOf(q)'
  <2>1. /\ shadow'[q] = shadow[q] /\ Pending(q)' = Pending(q) /\ Workset(q)' = Workset(q)
        /\ Unpublished(q)' = Unpublished(q) /\ Active(q)' = Active(q) /\ pc'[q] = pc[q]
        /\ arg'[q] = arg[q] /\ version'[q] = version[q] /\ seen'[q] = seen[q]
    BY <1>2, ZenonT(40) DEF Others, Pending, Workset, Unpublished, Active
  <2>2. TornOf(q)
    BY DEF WholeInv
  <2>3. Unpublished(q)' /\ Workset(q)' # {} =>
          \A i \in Inode : ViewSame(q, i)' \/ (pc'[q] = "write_size" /\ i = arg'[q])
    BY <2>1, <2>2, ViewAgain, ZenonT(40) DEF TornOf
  <2>4. ASSUME pc[q] = "open_look" PROVE Sees(q, cwd)' = Sees(q, cwd)
    <3>1. val'[cwd] = val[cwd]
      <4>1. (val[cwd] # Freed)'
        BY DirInUse, PTL
      <4> QED
        BY <1>0, <4>1, Zenon DEF ValKept
    <3> QED
      BY <2>1, <3>1, ZenonT(40) DEF Sees
  <2>5. ASSUME pc[q] \in {"read_data", "write_data"} PROVE Sees(q, arg[q])' = Sees(q, arg[q])
    <3>0. pc[q] \in HoldsFile /\ pc[q] \in SawFile /\ pc[q] \notin Outside
      BY <2>5, ZenonT(40) DEF HoldsFile, SawFile, Outside, CommitLoop, AbortLoop
    <3>1. arg[q] \in Obj /\ arg[q] \in Inode
      BY <3>0, Constants, ZenonT(40) DEF PhaseInv, PhaseOf
    <3>2. CASE Active(q)
      <4>1. arg[q] \in Workset(q)
        BY <3>0, <3>2, ZenonT(40) DEF TouchInv, TouchOf
      <4> QED
        BY <2>1, <3>2, <4>1, ZenonT(40) DEF Sees, Workset
    <3>3. CASE ~Active(q)
      <4>1. val'[arg[q]] # Freed
        BY <2>1, <3>0, <3>3, ZenonT(40) DEF StableInv, StableOf
      <4> QED
        BY <2>1, <3>1, <3>3, <4>1, ZenonT(40) DEF Sees, ValKept
    <3> QED
      BY <3>2, <3>3, ZenonT(40)
  <2> QED
    BY <2>1, <2>2, <2>3, <2>4, <2>5, ZenonT(40) DEF TornOf
<1> QED
  BY <1>1, <1>2, ZenonT(40) DEF WholeInv

\* An inode that a call has locked and its block are of one version: the swaps
\* of a transaction that is publishing stay away from both.
LEMMA SeesSame ==
    ASSUME WholeInv, PhaseInv, LockInv, NEW p \in Proc, pc[p] \notin Outside,
           pc[p] # "write_size", NEW i \in Inode, slock[i] = p, Sees(p, i) # Freed,
           Active(p) => i \in Workset(p)
    PROVE  Sees(p, i).v = Sees(p, DataBuf[i]).v
<1>0. /\ i \in Obj /\ DataBuf[i] \in Obj /\ pc[p] # "commit_swap"
  BY Constants, ZenonT(40) DEF Outside, CommitLoop
<1>1. CASE Active(p)
  <2>1. ViewSame(p, i)
    BY <1>1, ZenonT(40) DEF WholeInv, TornOf, Unpublished
  <2>2. View(p, i) = Sees(p, i) /\ View(p, DataBuf[i]) = Sees(p, DataBuf[i])
    BY <1>0, <1>1, ZenonT(40) DEF View, Pending, Sees, Workset
  <2> QED
    BY <2>1, <2>2, ZenonT(40) DEF ViewSame, SameVersion
<1>2. CASE ~Active(p)
  <2>0. Sees(p, i) = val[i] /\ Sees(p, DataBuf[i]) = val[DataBuf[i]]
    BY <1>2 DEF Sees
  <2>1. CASE ~Swapping
    BY <2>0, <2>1, ZenonT(40) DEF WholeInv, StableSame, SameVersion
  <2>2. ASSUME NEW q \in Proc, pc[q] = "commit_swap" PROVE val[i].v = val[DataBuf[i]].v
    <3>1. i \notin Workset(q)
      BY <1>0, <2>2, ZenonT(40) DEF LockInv, Holds
    <3>2. DataBuf[i] \notin Workset(q) /\ TornOf(q)
      BY <3>1, ZenonT(40) DEF WholeInv, TornOf
    <3>3. rest[q] # {} /\ rest[q] \subseteq Workset(q)
      BY <2>2, LoopPoints, ZenonT(40) DEF PhaseInv, PhaseOf
    <3>4. ViewSame(q, i)
      BY <2>2, <3>2, <3>3, ZenonT(40) DEF TornOf, Unpublished
    <3> QED
      BY <2>0, <2>2, <3>1, <3>2, <3>3, <3>4, ZenonT(40) DEF ViewSame, View, Pending, SameVersion
  <2> QED
    BY <2>0, <2>1, <2>2, ZenonT(40) DEF Swapping
<1> QED
  BY <1>1, <1>2, ZenonT(40)

\* The steps of the calls store nothing in place,
LEMMA StepVal ==
    ASSUME TypeOK, WholeInv, NEW p \in Proc, NEW t, pc[p] = t[1], arg[p] \in File, Did(p, t)
    PROVE  ValKept
<1>c. \A i \in Inode : i \in Obj
  BY Constants
<1>k. ASSUME UNCHANGED val PROVE ValKept
  BY <1>k DEF ValKept
<1>0. pc[p] \notin Unlinking /\ (pc[p] \in Writing => Active(p))
  BY Zenon DEF WholeInv, TornOf
<1>1. ASSUME NEW b \in Buf, NEW c \in Content, DidStore(p, t, b, c) PROVE ValKept
  <2>1. CASE Active(p)
    BY <1>1, <1>k, <2>1, ZenonT(40) DEF DidStore, Store
  <2>2. CASE ~Active(p)
    <3>1. c = Sees(p, b)
      BY <1>0, <1>1, <2>2 DEF DidStore, Writing, Unlinking
    <3> QED
      BY <1>1, <2>2, <3>1, Constants DEF DidStore, Store, ValKept, Sees, TypeOK
  <2> QED
    BY <2>1, <2>2, Zenon
<1>2. ASSUME NEW o \in Inode, DidPut(p, t, o) PROVE ValKept
  BY <1>2, <1>c, ZenonT(40) DEF DidPut, iput, Put, DropRef, TypeOK, ValKept
<1>3. ASSUME NEW c \in Content, DidSet(p, t, c) PROVE ValKept
  <2>1. Active(p)
    BY <1>0, <1>3 DEF DidSet, Writing, Unlinking
  <2> QED
    BY <1>3, <1>k, <2>1, ZenonT(40) DEF DidSet, SetInode
<1> QED
  BY <1>k, <1>1, <1>2, <1>3, Zenon
     DEF Did, DidAccess, DidUnwind, DidUnlock, idup, Access, Unwind, iget, fdalloc

\* The steps of the calls keep inodes and blocks at one version,
LEMMA StepWhole ==
    ASSUME TypeOK, PhaseInv, TouchInv, StableInv, RefInv, LockInv, OwnerInv, FreedInv, Fits,
           TypeOK', RefInv', FreedInv', StableInv', WholeInv,
           NEW p \in Proc, NEW t, pc[p] = t[1], arg[p] \in File, ~conflict[p], Did(p, t), Others(p)
    PROVE  WholeInv'
<1>c. /\ arg[p] \in Obj /\ arg[p] \in Inode /\ DirBuf \in Obj /\ cwd \in Obj /\ cwd \in Inode
      /\ arg[p] # cwd
      /\ \A b \in Buf : b \in Obj /\ b \notin Inode
      /\ \A i \in Inode : i \in Obj /\ DataBuf[i] \in Obj /\ DataBuf[i] \in Buf
      /\ \A i, j \in Inode : DataBuf[i] = DataBuf[j] => i = j
      /\ Freed \notin Content /\ None \notin Content /\ None # Freed
      /\ DirBuf = DataBuf[cwd]
  BY Constants, TxAssumption, ZenonT(40) DEF DirBuf
<1>o. pc[p] \notin Outside
  BY ZenonT(40) DEF PhaseInv, PhaseOf
<1>s. \A l : l \notin Outside \/ l = "user" => l # "commit_swap" /\ l # "commit_lock"
  BY DEF Outside, CommitLoop
<1>w. TornOf(p) /\ pc[p] \notin Unlinking
  BY ZenonT(40) DEF WholeInv, TornOf
<1>p. Pending(p) = Workset(p) /\ (Unpublished(p) <=> Active(p)) /\ pc[p] # "commit_swap"
  BY <1>o, <1>s, ZenonT(40) DEF Pending, Unpublished
<1> SUFFICES TornOf(p)'
  BY <1>p, StepVal, WholeFrame, ZenonT(40)
<1>y. ValKept
  BY StepVal, ZenonT(40)
<1> DEFINE Special == {"open_look", "read_data", "write_data", "write_size"}
<1>g. ASSUME NEW l, Goto(p, l), l \notin Outside \/ l = "user"
      PROVE  /\ Pending(p)' = Workset(p)' /\ (Unpublished(p)' <=> Active(p)')
             /\ pc'[p] = l /\ (l # "user" => arg'[p] = arg[p])
  <2>1. pc'[p] = l /\ (l # "user" => arg'[p] = arg[p])
    BY <1>g, ZenonT(40) DEF Goto, TypeOK
  <2> QED
    BY <1>g, <1>s, <2>1, ZenonT(40) DEF Pending, Unpublished
\* the call goes on with what it has
<1>k. ASSUME NEW l, Goto(p, l), l \notin Outside \/ l = "user", UNCHANGED <<status, shadow>>,
             t[1] # "write_size", l \notin Special, l \in Unlinking => t[1] \in Unlinking,
             l \in Writing => t[1] \in Writing, seen'[p] = seen[p] \/ seen'[p] = {}
      PROVE  TornOf(p)'
  <2>1. Workset(p)' = Workset(p) /\ (Active(p)' <=> Active(p))
    BY <1>k, ZenonT(40) DEF Workset, Active
  <2>2. Pending(p)' = Pending(p) /\ (Unpublished(p)' <=> Unpublished(p)) /\ pc'[p] = l
    BY <1>k, <1>g, <1>p, <2>1, ZenonT(40)
  <2>3. Unpublished(p)' /\ Workset(p)' # {} => \A i \in Inode : ViewSame(p, i)'
    BY <1>k, <1>w, <1>y, <2>1, <2>2, ViewAgain, ZenonT(40) DEF TornOf
  <2> QED
    BY <1>k, <1>w, <2>1, <2>2, <2>3, ZenonT(40) DEF TornOf
\* an object is set to c in the shadows
<1>v. ASSUME NEW l, Goto(p, l), l \notin Outside \/ l = "user", UNCHANGED <<status, val>>,
             Active(p), NEW o \in Obj, NEW c \in Content,
             \A x \in Obj : shadow'[p][x] = IF x = o THEN c ELSE shadow[p][x]
      PROVE  /\ Active(p)' /\ View(p, o)' = c /\ \A x \in Obj : x # o => View(p, x)' = View(p, x)
             /\ Workset(p)' = Workset(p) \cup {o} /\ View(p, o) = Sees(p, o)
  <2>1. Workset(p)' = Workset(p) \cup {o}
    BY <1>v, <1>c, ZenonT(40) DEF Workset
  <2>2. Pending(p)' = Pending(p) \cup {o} /\ Active(p)'
    BY <1>v, <1>g, <1>p, <2>1, Zenon DEF Active
  <2> QED
    BY <1>v, <1>p, <2>1, <2>2, ZenonT(40) DEF View, Sees, Workset
<1>1. CASE t \in Idups /\ idup(p, cwd, t[1], t[2])
  <2>1. t[2] \notin Special /\ t[1] # "write_size"
    BY <1>1 DEF Idups
  <2> QED
    BY <1>1, <1>k, <2>1, IdupPoints, ZenonT(40) DEF idup, txVars, ghostVars
<1>2. ASSUME NEW o \in Inode, DidAccess(p, t, o) PROVE TornOf(p)'
  <2>0. /\ Goto(p, t[2]) /\ UNCHANGED <<status, val>> /\ Accessing(p, t, o) /\ Access(p, o, t[2])
        /\ Sees(p, o) \in Content /\ slock[o] = None
    BY <1>2 DEF DidAccess, Access
  <2>1. /\ t[2] \notin Outside /\ t[2] # "user" /\ t[2] \notin Unlinking
        /\ (t[2] \in Writing => t[1] \in Writing)
    BY <1>w, <2>0, DirStepPoints, FileStepPoints, LoopPoints, ZenonT(40) DEF Accessing
  <2>2. /\ t[1] # "write_size" /\ t[2] # "write_size" /\ (t[2] = "open_look" => o = cwd)
        /\ (t[2] \in {"read_data", "write_data"} => o = arg[p])
    BY <2>0 DEF Accessing, DirSteps, FileSteps
  <2>3. seen'[p] = {Sees(p, o).v}
    BY <2>0, ZenonT(40) DEF Access, TypeOK
  <2>4. pc'[p] = t[2] /\ arg'[p] = arg[p]
    BY <1>g, <2>0, <2>1, ZenonT(40)
  <2>5. CASE Active(p)
    <3>1. \A x \in Obj : shadow'[p][x] = IF x = o THEN Sees(p, o) ELSE shadow[p][x]
      <4>1. SetsShadow(p, o, Sees(p, o)) /\ o \in Obj
        BY <2>0, <2>5, <1>c, Zenon DEF Access, SetsShadow
      <4>2. OneShadow(p, o, Sees(p, o))
        BY <4>1, ShadowSet, Zenon
      <4> QED
        BY <4>1, <4>2, Zenon DEF OneShadow
    <3>2. /\ Active(p)' /\ View(p, o)' = Sees(p, o) /\ \A x \in Obj : x # o => View(p, x)' = View(p, x)
          /\ Workset(p)' = Workset(p) \cup {o} /\ View(p, o) = Sees(p, o)
      BY <1>v, <1>c, <2>0, <2>1, <2>5, <3>1, ZenonT(40)
    <3>3. Sees(p, o)' = Sees(p, o)
      BY <1>c, <2>0, <3>1, <3>2, ZenonT(40) DEF Sees
    <3>4. ASSUME NEW i \in Inode PROVE ViewSame(p, i)'
      <4>1. ViewSame(p, i)
        <5>1. CASE Workset(p) # {}
          BY <1>p, <1>w, <2>2, <2>5, <5>1, ZenonT(40) DEF TornOf
        <5>2. CASE Workset(p) = {}
          <6>1. t \in DirSteps /\ o = cwd
            <7>1. t \notin FileSteps
              <8>1. t \in FileSteps => t[1] \in GotFile \cup OnFile /\ (t[1] \notin OnFile => t[1] \in SawBuf)
                BY FileStepPoints, ZenonT(40)
              <8>2. t[1] \in SawBuf => DirBuf \in Workset(p)
                BY <2>5, ZenonT(40) DEF TouchInv, TouchOf
              <8>3. t[1] \in OnFile => arg[p] \in Workset(p)
                BY <2>5, ZenonT(40) DEF TouchInv, TouchOf, PhaseInv, PhaseOf
              <8> QED
                BY <5>2, <8>1, <8>2, <8>3, ZenonT(40)
            <7> QED
              BY <2>0, <7>1, ZenonT(40) DEF Accessing
          <6>2. ~Swapping
            BY <2>0, <6>1, SwapHolds, Constants, ZenonT(40) DEF Swapping
          <6>3. StableSame(i)
            BY <6>2, ZenonT(40) DEF WholeInv
          <6> QED
            BY <1>p, <5>2, <6>3, ZenonT(40) DEF StableSame, ViewSame, View
        <5> QED
          BY <5>1, <5>2, ZenonT(40)
      <4>2. View(p, i)' = View(p, i) /\ View(p, DataBuf[i])' = View(p, DataBuf[i])
        BY <1>c, <3>2, ZenonT(40)
      <4> QED
        BY <4>1, <4>2, ZenonT(40) DEF ViewSame, SameVersion
    <3>5. \A i \in Inode : DataBuf[i] \in Workset(p)' => i \in Workset(p)'
      BY <1>c, <1>w, <3>2, ZenonT(40) DEF TornOf
    <3>6. /\ pc'[p] = "open_look" => seen'[p] = {Sees(p, cwd)'.v}
          /\ pc'[p] \in {"read_data", "write_data"} => seen'[p] = {Sees(p, arg[p])'.v}
      BY <2>2, <2>3, <2>4, <3>3, ZenonT(40)
    <3>7. \A x, y \in seen'[p] : x = y
      BY <2>3
    <3>8. /\ pc'[p] = "open_look" => seen'[p] = {Sees(p, cwd).v}'
          /\ pc'[p] \in {"read_data", "write_data"} => seen'[p] = {Sees(p, arg[p]).v}'
      BY <2>4, <3>6, ZenonT(40) DEF Sees, Active
    <3> QED
      BY <2>1, <2>2, <2>4, <3>2, <3>4, <3>5, <3>8, <3>7, ZenonT(40) DEF TornOf
  <2>6. CASE ~Active(p)
    <3>1. UNCHANGED <<status, shadow, val>>
      BY <2>0, <2>6, ZenonT(40) DEF Access
    <3>2. Workset(p)' = Workset(p) /\ ~Active(p)' /\ ~Unpublished(p)'
      BY <1>g, <2>0, <2>1, <2>6, <3>1, ZenonT(40) DEF Workset, Active
    <3>3. \A x : Sees(p, x)' = Sees(p, x)
      BY <2>6, <3>1, <3>2, ZenonT(40) DEF Sees
    <3>4. t[2] \notin Writing
      BY <1>w, <2>1, <2>6, ZenonT(40) DEF TornOf
    <3>6. /\ pc'[p] = "open_look" => seen'[p] = {Sees(p, cwd).v}'
          /\ pc'[p] \in {"read_data", "write_data"} => seen'[p] = {Sees(p, arg[p]).v}'
      BY <2>2, <2>3, <2>4, <2>6, <3>1, <3>2, ZenonT(40) DEF Sees
    <3>7. \A x, y \in seen'[p] : x = y
      BY <2>3
    <3> QED
      BY <1>w, <2>1, <2>2, <2>4, <3>2, <3>4, <3>6, <3>7, ZenonT(40) DEF TornOf
  <2> QED
    BY <2>5, <2>6, ZenonT(40)
<1>3. ASSUME NEW o \in Inode, DidUnwind(p, t, o) PROVE TornOf(p)'
  <2>1. \A x \in Obj : shadow[p][x] = None
    BY <1>3, UnwindFirst, ZenonT(40) DEF Workset
  <2>2. Workset(p)' = {}
    BY <1>3, <2>1, ZenonT(40) DEF DidUnwind, Unwind, TypeOK, Workset
  <2>3. pc'[p] = "user" /\ seen'[p] = seen[p]
    BY <1>3, ZenonT(40) DEF DidUnwind, Unwind, Goto, TypeOK
  <2>4. "user" \notin Unlinking /\ "user" \notin Writing
    BY DEF Unlinking, Writing
  <2> QED
    BY <1>c, <1>w, <2>2, <2>3, <2>4, ZenonT(40) DEF TornOf
<1>4. ASSUME NEW b \in Buf, NEW c \in Content, DidStore(p, t, b, c) PROVE TornOf(p)'
  <2>0. /\ Goto(p, t[2]) /\ UNCHANGED <<status, version>> /\ Store(p, b, c, t[2])
        /\ Sees(p, b) \in Content
    BY <1>4, ZenonT(40) DEF DidStore, Store
  <2>t. t \in Lookups \/ t \in DataSteps
    BY <1>4, ZenonT(40) DEF DidStore, DataSteps
  <2>1. /\ t[2] \notin Outside /\ t[2] # "user" /\ t[2] \notin Unlinking
        /\ (t[2] \in Writing => t[1] \in Writing)
    BY <1>w, <2>t, LookupPoints, DataStepPoints, LoopPoints, ZenonT(40)
  <2>2. \/ t = <<"open_look", "open_iget">> /\ b = DirBuf /\ c = Sees(p, b)
        \/ t = <<"read_data", "read_unlock">> /\ b = DataBuf[arg[p]] /\ c = Sees(p, b)
        \/ /\ t = <<"write_data", "write_size">> /\ b = DataBuf[arg[p]]
           /\ c = [Sees(p, b) EXCEPT !.v = version[p]]
    BY <1>4, <1>w DEF DidStore, Lookups, Unlinking
  <2>3. PICK i \in Inode : /\ b = DataBuf[i]
                           /\ \/ i = cwd /\ t = <<"open_look", "open_iget">>
                              \/ i = arg[p] /\ t # <<"open_look", "open_iget">>
    BY <1>c, <2>2
  <2>4. t[1] # "write_size" /\ t[2] \notin {"open_look", "read_data", "write_data"}
    BY <2>2
  <2>5. /\ i = cwd => t[1] \in HoldsDir /\ t[1] \in Looking
        /\ i = arg[p] => t[1] \in HoldsFile /\ t[1] \in SawFile
    BY <1>c, <2>2, <2>3 DEF HoldsDir, Looking, HoldsFile, SawFile
  <2>6. slock[i] = p /\ (Active(p) => i \in Workset(p))
    BY <1>c, <2>3, <2>5 DEF LockInv, Holds, TouchInv, TouchOf
  <2>7. Sees(p, i) # Freed
    <3>1. CASE Active(p)
      BY <2>6, <3>1, ZenonT(40) DEF Sees, Workset, StableInv, StableOf
    <3>2. CASE ~Active(p)
      BY <2>3, <2>5, <3>2, DirInUse, ZenonT(40) DEF Sees, StableInv, StableOf
    <3> QED
      BY <3>1, <3>2, Zenon
  <2>8. Sees(p, i).v = Sees(p, b).v /\ seen[p] = {Sees(p, i).v}
    <3>1. Sees(p, i).v = Sees(p, DataBuf[i]).v
      BY <1>o, <2>4, <2>6, <2>7, SeesSame, ZenonT(40)
    <3> QED
      BY <1>w, <2>2, <2>3, <3>1 DEF TornOf
  <2>9. seen'[p] = {Sees(p, i).v}
    <3>1. seen'[p] = seen[p] \cup {Sees(p, b).v}
      BY <2>0, ZenonT(40) DEF Store, TypeOK
    <3> QED
      BY <2>8, <3>1, Zenon
  <2>10. pc'[p] = t[2] /\ arg'[p] = arg[p] /\ \A x, y \in seen'[p] : x = y
    BY <1>g, <2>0, <2>1, <2>9, ZenonT(40)
  <2>11. CASE Active(p)
    <3>1. UNCHANGED val /\ \A x \in Obj : shadow'[p][x] = IF x = b THEN c ELSE shadow[p][x]
      <4>1. UNCHANGED val /\ SetsShadow(p, b, c) /\ b \in Obj
        BY <2>0, <2>11, <1>c, Zenon DEF Store, SetsShadow
      <4>2. OneShadow(p, b, c)
        BY <4>1, ShadowSet, Zenon
      <4> QED
        BY <4>1, <4>2, Zenon DEF OneShadow
    <3>2. /\ Active(p)' /\ View(p, b)' = c /\ \A x \in Obj : x # b => View(p, x)' = View(p, x)
          /\ Workset(p)' = Workset(p) \cup {b} /\ View(p, b) = Sees(p, b)
      BY <1>v, <1>c, <2>0, <2>1, <2>11, <3>1, Zenon
    <3>3. \A j \in Inode : DataBuf[j] \in Workset(p)' => j \in Workset(p)'
      BY <1>c, <1>w, <2>3, <2>6, <2>11, <3>2, ZenonT(40) DEF TornOf
    <3>4. ASSUME NEW j \in Inode PROVE ViewSame(p, j)' \/ (pc'[p] = "write_size" /\ j = arg'[p])
      <4>1. ViewSame(p, j)
        BY <1>p, <1>w, <2>4, <2>6, <2>11, ZenonT(40) DEF TornOf
      <4>2. CASE j # i
        BY <1>c, <2>3, <3>2, <4>1, <4>2, ZenonT(40) DEF ViewSame, SameVersion
      <4>3. CASE j = i /\ c = Sees(p, b)
        BY <1>c, <2>3, <3>2, <4>1, <4>3, ZenonT(40) DEF ViewSame, SameVersion
      <4>4. CASE j = i /\ t = <<"write_data", "write_size">>
        BY <2>3, <2>10, <4>4, ZenonT(40)
      <4> QED
        BY <2>2, <4>2, <4>3, <4>4, ZenonT(40)
    <3>5. pc'[p] = "write_size" => /\ DataBuf[arg'[p]] \in Workset(p)'
                                   /\ shadow'[p][DataBuf[arg'[p]]].v = version'[p]
      <4>1. ASSUME pc'[p] = "write_size" PROVE b = DataBuf[arg'[p]] /\ c.v = version[p]
        <5>1. t[2] = "write_size"
          BY <2>10, <4>1, Zenon
        <5>2. b = DataBuf[arg[p]] /\ c = [Sees(p, b) EXCEPT !.v = version[p]]
          BY <2>2, <5>1
        <5> QED
          BY <2>0, <2>10, <5>2, ZenonT(40) DEF Content
      <4> QED
        BY <1>c, <2>0, <3>1, <3>2, <4>1, ZenonT(40)
    <3> QED
      BY <2>1, <2>4, <2>10, <3>2, <3>3, <3>4, <3>5, ZenonT(40) DEF TornOf
  <2>12. CASE ~Active(p)
    <3>1. UNCHANGED shadow
      BY <2>0, <2>12 DEF Store
    <3>2. Workset(p)' = Workset(p) /\ ~Active(p)' /\ ~Unpublished(p)'
      BY <1>g, <2>0, <2>1, <2>12, <3>1, ZenonT(40) DEF Workset, Active
    <3>3. t[2] \notin Writing
      BY <1>w, <2>1, <2>12, ZenonT(40) DEF TornOf
    <3>4. t[2] # "write_size"
      BY <3>3, ZenonT(40) DEF Writing
    <3> QED
      BY <1>w, <2>1, <2>4, <2>10, <3>2, <3>3, <3>4, ZenonT(40) DEF TornOf
  <2> QED
    BY <2>11, <2>12, Zenon
<1>5. CASE t \in Igets /\ iget(p, arg[p], t[1], t[2])
  <2>1. t[2] \notin Special /\ t[1] # "write_size" /\ "miss_unlock" \notin Special
    BY <1>5 DEF Igets
  <2> QED
    BY <1>5, <1>k, <2>1, IgetPoints, EntryPoints, ZenonT(40) DEF iget, txVars, ghostVars
<1>6. ASSUME NEW o \in Inode, DidUnlock(p, t, o) PROVE TornOf(p)'
  <2>1. t \in DirUnlocks \/ t = <<"read_unlock", "user">>
    BY <1>6, ZenonT(40) DEF DidUnlock
  <2>2. t[2] \notin Special /\ t[1] # "write_size"
    BY <2>1 DEF DirUnlocks
  <2>3. /\ t[2] \notin Outside \/ t[2] = "user"
        /\ t[2] \in Unlinking => t[1] \in Unlinking
        /\ t[2] \notin Writing
    BY <2>1, DirUnlockPoints, OutsidePoints, LoopPoints
  <2>4. seen'[p] = {} /\ Goto(p, t[2]) /\ UNCHANGED <<status, shadow>>
    BY <1>6, Zenon DEF DidUnlock, txVars, TypeOK
  <2> QED
    BY <1>k, <2>2, <2>3, <2>4, ZenonT(40)
<1>7. ASSUME NEW o \in Inode, DidPut(p, t, o) PROVE TornOf(p)'
  <2>1. t \in DirPuts \/ t \in FilePuts
    BY <1>7, ZenonT(40) DEF DidPut
  <2>2. t[2] \notin Special /\ t[1] # "write_size"
    BY <2>1 DEF DirPuts, FilePuts
  <2>3. /\ t[2] \notin Outside \/ t[2] = "user"
        /\ t[2] \in Unlinking => t[1] \in Unlinking
        /\ t[2] \notin Writing
    BY <2>1, DirPutPoints, FilePutPoints, ZenonT(40)
  <2> QED
    BY <1>7, <1>k, <2>2, <2>3, ZenonT(40) DEF DidPut, iput, txVars, ghostVars
<1>8. CASE t = <<"open_fd", "user">> /\ fdalloc(p, arg[p], t[1], t[2])
  <2>1. seen'[p] = {} /\ Goto(p, "user") /\ UNCHANGED <<status, shadow>>
    BY <1>8, ZenonT(40) DEF fdalloc, TypeOK
  <2>2. "user" \notin Unlinking /\ "user" \notin Writing /\ t[1] # "write_size"
    BY <1>8 DEF Unlinking, Writing
  <2> QED
    BY <1>k, <2>1, <2>2, ZenonT(40)
<1>9. ASSUME NEW c \in Content, DidSet(p, t, c) PROVE TornOf(p)'
  <2>0. /\ SetInode(p, arg[p], c, t[2]) /\ Goto(p, t[2]) /\ UNCHANGED <<status, version>>
        /\ Sees(p, arg[p]) \in Content
    BY <1>9, Zenon DEF DidSet, SetInode
  <2>1. /\ t = <<"write_size", "user">> /\ c = [Sees(p, arg[p]) EXCEPT !.v = version[p]]
        /\ Active(p)
    BY <1>9, <1>w DEF DidSet, Unlinking, Writing, TornOf
  <2>2. c.v = version[p] /\ "user" \notin Unlinking /\ "user" \notin Writing
    BY <2>0, <2>1, Zenon DEF Content, Unlinking, Writing
  <2>3. PICK a \in Inode : a = arg[p]
    BY <1>c, Zenon
  <2>4. a \in Obj /\ a \in Workset(p)
    <3>1. t[1] \in SawFile
      BY <2>1, Zenon DEF SawFile, HoldsFile
    <3> QED
      BY <1>c, <2>1, <2>3, <3>1, Zenon DEF TouchInv, TouchOf
  <2>5. UNCHANGED val /\ \A x \in Obj : shadow'[p][x] = IF x = a THEN c ELSE shadow[p][x]
    <3>1. UNCHANGED val /\ shadow' = [shadow EXCEPT ![p][a] = c]
      BY <2>0, <2>1, <2>3, Zenon DEF SetInode
    <3> QED
      BY <2>4, <3>1, ZenonT(40) DEF TypeOK
  <2>6. /\ Active(p)' /\ View(p, a)' = c /\ \A x \in Obj : x # a => View(p, x)' = View(p, x)
        /\ Workset(p)' = Workset(p) \cup {a}
    BY <1>v, <2>0, <2>1, <2>4, <2>5, Zenon
  <2>7. DataBuf[a] \in Workset(p) /\ shadow[p][DataBuf[a]].v = version[p]
    BY <1>w, <2>1, <2>3, ZenonT(40) DEF TornOf
  <2>8. ASSUME NEW i \in Inode PROVE ViewSame(p, i)'
    <3>1. CASE i = a
      <4>1. View(p, DataBuf[a]).v = version[p]
        BY <1>p, <2>7, ZenonT(40) DEF View
      <4> QED
        BY <1>c, <2>2, <2>6, <3>1, <4>1, ZenonT(40) DEF ViewSame, SameVersion
    <3>2. CASE i # a
      <4>1. ViewSame(p, i)
        BY <1>p, <1>w, <2>1, <2>3, <2>4, <3>2, ZenonT(40) DEF TornOf
      <4> QED
        BY <1>c, <2>6, <3>2, <4>1, ZenonT(40) DEF ViewSame, SameVersion
    <3> QED
      BY <3>1, <3>2, ZenonT(40)
  <2>9. pc'[p] = "user" /\ seen'[p] = {}
    BY <1>g, <2>0, <2>1, ZenonT(40) DEF SetInode, TypeOK
  <2>10. \A i \in Inode : DataBuf[i] \in Workset(p)' => i \in Workset(p)'
    BY <1>c, <1>w, <2>3, <2>6, ZenonT(40) DEF TornOf
  <2> QED
    BY <2>2, <2>8, <2>9, <2>10, ZenonT(40) DEF TornOf
<1> QED
  BY <1>1, <1>2, <1>3, <1>4, <1>5, <1>6, <1>7, <1>8, <1>9, ZenonT(40) DEF Did

\* and the loops, which publish all that a transaction has written.
LEMMA LoopWhole ==
    ASSUME TypeOK, PhaseInv, TouchInv, LockInv, OwnerInv, RefInv', FreedInv', StableInv', WholeInv,
           NEW p \in Proc, NEW t \in LoopSteps, NEW o \in Obj, pc[p] = t[1], o \in rest[p],
           o \in Workset(p), ~Active(p), LoopDid(p, t, o), Others(p)
    PROVE  WholeInv'
<1>c. /\ None \notin Content /\ None # Freed
      /\ \A i \in Inode : i \in Obj /\ DataBuf[i] \in Obj /\ DataBuf[i] \notin Inode
  BY Constants, ZenonT(40)
<1>w. TornOf(p)
  BY DEF WholeInv
<1>0. ~Active(p)' /\ seen' = seen
  BY ZenonT(40) DEF LoopDid, DidLock, DidSwap, DidRelease, DidFree, DidDrop, txVars, ghostVars, Active
<1>o. \A l : l \in Outside => /\ l \notin Unlinking /\ l \notin Writing
                              /\ l \notin {"open_look", "read_data", "write_data", "write_size"}
  BY OutsidePoints, ZenonT(40) DEF Looking, HoldsFile
<1>t. t[1] \in Outside /\ t[2] \in Outside /\ "txdone" \in Outside
  BY LoopStepPoints, LoopPoints, ZenonT(40)
<1>n. ASSUME pc'[p] \in Outside, Workset(p)' = Workset(p), ~Unpublished(p)'
      PROVE  TornOf(p)'
  BY <1>n, <1>0, <1>o, <1>w, ZenonT(40) DEF TornOf
<1>k. ASSUME UNCHANGED val PROVE ValKept
  BY <1>k, ZenonT(40) DEF ValKept
<1>1. CASE DidLock(p, t, o)
  <2>1. UNCHANGED <<val, shadow>> /\ t \in LockLoops /\ Workset(p)' = Workset(p)
    BY <1>1, ZenonT(40) DEF DidLock, txVars, Workset
  <2>2. \/ pc'[p] = t[2] /\ rest'[p] = Workset(p)
        \/ pc'[p] = t[1]
    BY <1>1, RoundEffect DEF DidLock
  <2>3. CASE t = <<"commit_lock", "commit_swap">>
    <3>1. Pending(p)' = Pending(p) /\ pc[p] # "write_size" /\ Unpublished(p)
      BY <2>1, <2>2, <2>3, ZenonT(40) DEF Pending, Unpublished
    <3>2. \A i \in Inode : ViewSame(p, i)'
      BY <1>k, <1>w, <2>1, <3>1, ViewAgain, ZenonT(40) DEF TornOf
    <3>3. TornOf(p)'
      BY <1>0, <1>o, <1>t, <1>w, <2>1, <2>2, <3>2, ZenonT(40) DEF TornOf
    <3> QED
      BY <1>k, <2>1, <2>3, <3>3, WholeFrame, Zenon
  <2>4. CASE t = <<"abort_lock", "abort_unlock">>
    <3>1. ~Unpublished(p)' /\ pc'[p] \in Outside
      BY <1>0, <1>t, <2>2, <2>4, Zenon DEF Unpublished
    <3> QED
      BY <1>k, <1>n, <2>1, <2>4, <3>1, WholeFrame, ZenonT(40)
  <2> QED
    BY <2>1, <2>3, <2>4, ZenonT(40) DEF LockLoops
<1>2. CASE DidSwap(p, t, o)
  <2>0. /\ t = <<"commit_swap", "commit_unlock">> /\ pc[p] = "commit_swap" /\ UNCHANGED shadow
        /\ \A x \in Obj : x # o => val'[x] = val[x]
    BY <1>2, Zenon DEF DidSwap, txVars, TypeOK
  <2>1. \A i \in Inode : ViewSame(p, i)
    BY <1>w, <2>0, ZenonT(40) DEF TornOf, Unpublished
  <2>l. slock[cwd] = p /\ slock[o] = p
    BY <2>0, SwapHolds, ZenonT(40) DEF LockInv, Holds
  <2>2. ASSUME NEW q \in Proc, q # p PROVE TornOf(q)'
    <3>1. /\ Workset(q)' = Workset(q) /\ Workset(q) = {} /\ Active(q)' = Active(q)
          /\ pc'[q] = pc[q] /\ arg'[q] = arg[q] /\ seen'[q] = seen[q]
          /\ shadow'[q] = shadow[q]
      BY <2>2, ZenonT(40) DEF Others, Workset, OwnerInv, Active
    <3>2. TornOf(q)
      BY Zenon DEF WholeInv
    <3>3. pc[q] # "open_look"
      BY <2>2, <2>l, Constants, ZenonT(40) DEF LockInv, Holds, HoldsDir
    <3>4. ASSUME pc[q] \in {"read_data", "write_data"} PROVE Sees(q, arg[q])' = Sees(q, arg[q])
      <4>1. pc[q] \in HoldsFile /\ pc[q] \in SawFile /\ pc[q] \notin Outside
        BY <3>4, ZenonT(40) DEF HoldsFile, SawFile, Outside, CommitLoop, AbortLoop
      <4>2. ~Active(q) /\ arg[q] \in Obj
        BY <3>1, <4>1, Constants, ZenonT(40) DEF TouchInv, TouchOf, PhaseInv, PhaseOf
      <4>3. arg[q] # o
        BY <2>2, <2>l, <4>1, <4>2, ZenonT(40) DEF LockInv, Holds
      <4> QED
        BY <2>0, <3>1, <4>2, <4>3, ZenonT(40) DEF Sees
    <3>5. pc[q] # "write_size"
      BY <3>1, <3>2, ZenonT(40) DEF TornOf
    <3> QED
      BY <3>1, <3>2, <3>3, <3>4, <3>5, ZenonT(40) DEF TornOf
  <2>3. CASE pc'[p] = "commit_swap"
    <3>1. \A x \in Obj : View(p, x)' = View(p, x)
      BY <1>2, <2>0, <2>3, SwapView, ZenonT(40)
    <3>2. \A i \in Inode : ViewSame(p, i)'
      BY <1>c, <2>1, <3>1, ZenonT(40) DEF ViewSame, SameVersion
    <3>3. Workset(p)' = Workset(p)
      BY <2>0, ZenonT(40) DEF Workset
    <3>4. TornOf(p)'
      BY <1>0, <1>o, <1>t, <1>w, <2>0, <2>3, <3>2, <3>3, ZenonT(40) DEF TornOf
    <3> QED
      BY <2>2, <2>3, <3>4, ZenonT(40) DEF WholeInv, Swapping
  <2>4. CASE pc'[p] # "commit_swap"
    <3>1. \A x \in Obj : val'[x] = View(p, x)
      BY <1>2, <2>0, <2>4, SwapView, ZenonT(40)
    <3>2. \A i \in Inode : StableSame(i)'
      BY <1>c, <2>1, <3>1, ZenonT(40) DEF ViewSame, StableSame, SameVersion
    <3>3. pc'[p] = "commit_unlock"
      BY <1>2, <2>0, <2>4, RoundEffect DEF DidSwap
    <3>4. ~Unpublished(p)' /\ pc'[p] \in Outside /\ Workset(p)' = Workset(p)
      BY <1>0, <1>t, <2>0, <3>3, Zenon DEF Unpublished, Workset
    <3> QED
      BY <1>n, <2>2, <3>2, <3>4, ZenonT(40) DEF WholeInv
  <2> QED
    BY <2>3, <2>4, ZenonT(40)
<1>u. ASSUME t \in UnlockLoops \cup PutLoops \cup {<<"abort_free", "abort_put">>},
             pc'[p] \in {t[1], t[2], "txdone"}, ValKept, Workset(p)' = Workset(p)
      PROVE  WholeInv'
  <2>1. pc[p] # "commit_swap" /\ pc'[p] \notin {"commit_lock", "commit_swap"}
    BY <1>u DEF UnlockLoops, PutLoops
  <2>2. TornOf(p)'
    BY <1>0, <1>n, <1>t, <1>u, <2>1, ZenonT(40) DEF Unpublished
  <2> QED
    BY <1>u, <2>1, <2>2, WholeFrame, ZenonT(40)
<1>3. CASE DidRelease(p, t, o)
  <2>1. UNCHANGED <<val, shadow>> /\ pc'[p] \in {t[1], t[2]} /\ t \in UnlockLoops
    BY <1>3, RoundEffect DEF DidRelease, txVars
  <2> QED
    BY <1>k, <1>u, <2>1, ZenonT(40) DEF Workset
<1>4. CASE DidFree(p, t, o)
  <2>1. pc'[p] = t[2] /\ UNCHANGED val /\ t = <<"abort_free", "abort_put">>
    BY <1>4, Zenon DEF DidFree, Goto, TypeOK, objVars
  <2>2. \A x \in Obj : shadow'[p][x] = IF x = o THEN Freed ELSE shadow[p][x]
    BY <1>4, Zenon DEF DidFree, TypeOK
  <2>3. Workset(p)' = Workset(p)
    BY <1>c, <2>2, ZenonT(40) DEF Workset
  <2> QED
    BY <1>k, <1>u, <2>1, <2>3, Zenon
<1>5. CASE DidDrop(p, t, o)
  <2>1. ValKept
    BY <1>5, ZenonT(40) DEF DidDrop, Drop, Put, DropRef, ValKept, TypeOK
  <2>2. pc'[p] \in {t[2], "txdone"} /\ t \in PutLoops /\ UNCHANGED shadow
    <3>1. Round(p, o, t[2], "txdone") /\ t \in PutLoops /\ UNCHANGED shadow
      BY <1>5, Zenon DEF DidDrop, txVars
    <3>2. pc'[p] \in {t[2], "txdone"}
      BY <3>1, RoundGoes
    <3> QED
      BY <3>1, <3>2, Zenon
  <2> QED
    BY <1>u, <2>1, <2>2, ZenonT(40) DEF Workset
<1> QED
  BY <1>1, <1>2, <1>3, <1>4, <1>5, ZenonT(40) DEF LoopDid

\* The system calls only begin something: writes are in transactions.
LEMMA SysWhole ==
    ASSUME WriteInside, "unlink" \notin mix.tx, TypeOK, PhaseInv, TouchInv,
           RefInv', FreedInv', StableInv', WholeInv, NEW p \in Proc, Syscall(p) \/ txdone(p), Others(p)
    PROVE  WholeInv'
<1>0. ValKept
  BY SysFrees, Zenon DEF ValKept
<1>1. pc[p] \in {"user", "txdone"}
  BY ZenonT(40) DEF Syscall, sys_txbegin, sys_txcommit, sys_txabort, sys_open, sys_close, sys_read,
         sys_write, sys_unlink, txdone, MayCall, UserMode, At
<1> SUFFICES TornOf(p)'
  BY <1>0, <1>1, WholeFrame, ZenonT(40)
<1>w. TornOf(p) /\ seen' = seen
  BY ZenonT(40) DEF WholeInv, Syscall, sys_txbegin, sys_txcommit, sys_txabort, sys_open, sys_close,
         sys_read, sys_write, sys_unlink, txdone, ghostVars
<1> DEFINE Special == {"open_look", "read_data", "write_data", "write_size"}
<1>e. ASSUME NEW f, NEW l, Enter(p, l, f) PROVE pc'[p] = l
  BY <1>e, ZenonT(40) DEF Enter, TypeOK
<1>m. mix \in Mixes /\ "write" \notin mix.plain /\ "unlink" \notin mix.plain
  BY ZenonT(40) DEF WriteInside, TypeOK
<1>k. ASSUME UNCHANGED shadow, pc'[p] # "commit_swap", Unpublished(p)' => Active(p),
             pc'[p] \notin Special, pc'[p] \notin Unlinking, pc'[p] \in Writing => Active(p)'
      PROVE  TornOf(p)'
  <2>1. Workset(p)' = Workset(p)
    BY <1>k, ZenonT(40) DEF Workset
  <2>2. Pending(p)' = Pending(p)
    BY <1>1, <1>k, <2>1, ZenonT(40) DEF Pending
  <2>3. Unpublished(p)' /\ Workset(p)' # {} => \A i \in Inode : ViewSame(p, i)'
    BY <1>0, <1>1, <1>k, <1>w, <2>1, <2>2, ViewAgain, ZenonT(40) DEF TornOf, Unpublished
  <2> QED
    BY <1>k, <1>w, <2>1, <2>3, ZenonT(40) DEF TornOf
<1>2. CASE sys_txbegin(p) \/ txdone(p)
  <2>1. Workset(p)' = {} /\ pc'[p] = "user"
    BY <1>2 DEF sys_txbegin, txdone, Workset, TypeOK, calls
  <2>2. "user" \notin Unlinking /\ "user" \notin Writing
    BY Zenon DEF Unlinking, Writing
  <2> QED
    BY <1>w, <2>1, <2>2, Constants, ZenonT(40) DEF TornOf
<1>3. CASE sys_txcommit(p) \/ sys_txabort(p)
  <2>1. /\ UNCHANGED shadow /\ Active(p)
        /\ pc'[p] \in {"txdone", "commit_lock", "abort_lock"}
    BY <1>3, ZenonT(40) DEF sys_txcommit, sys_txabort, Loop, TypeOK
  <2> QED
    BY <1>k, <2>1, Zenon DEF Unlinking, Writing
<1>4. ASSUME NEW f \in File, \/ sys_open(p, f) \/ sys_close(p, f) \/ sys_read(p, f)
                             \/ sys_write(p, f) \/ sys_unlink(p, f)
      PROVE  TornOf(p)'
  <2>1. UNCHANGED <<status, shadow>> /\ pc'[p] \in {"open", "close", "read", "write"}
        /\ (pc'[p] = "write" => Active(p))
    <3>1. ~sys_unlink(p, f) /\ (sys_write(p, f) => Active(p))
      BY <1>m, ZenonT(40) DEF sys_unlink, sys_write, MayCall
    <3> QED
      BY <1>4, <1>e, <3>1, ZenonT(40) DEF sys_open, sys_close, sys_read, sys_write, txVars
  <2>2. Unpublished(p)' => Active(p)
    BY <2>1, ZenonT(40) DEF Unpublished, Active
  <2>3. pc'[p] \in Writing => Active(p)'
    BY <2>1, Zenon DEF Writing, Active
  <2> QED
    BY <1>k, <2>1, <2>2, <2>3, ZenonT(40) DEF Unlinking
<1> QED
  BY <1>2, <1>3, <1>4, Zenon DEF Syscall

\* At first all is of version 0,
LEMMA TornInit ==
    ASSUME Init
    PROVE  TornInv
<1>1. \A o \in Obj : val[o].v = 0
  BY Zenon DEF Init
<1>2. \A i \in Inode : i \in Obj /\ DataBuf[i] \in Obj
  BY Constants, Zenon
<1>3. \A i \in Inode : StableSame(i)
  BY <1>1, <1>2, Zenon DEF StableSame, SameVersion
<1>4. \A p \in Proc : pc[p] = "user" /\ Workset(p) = {} /\ seen[p] = {}
  BY DEF Init, Workset
<1>5. "user" \notin Unlinking /\ "user" \notin Writing
  BY DEF Unlinking, Writing
<1> QED
  BY <1>3, <1>4, <1>5, ZenonT(40) DEF TornInv, WholeInv, TornOf

\* and every step keeps the versions together.
LEMMA TornStep ==
    ASSUME Disciplined, Fits, UnlinkInside, WriteInside, LInv, LInv', TornInv, [Next]_vars
    PROVE  TornInv'
<1>0. /\ TypeOK /\ PhaseInv /\ TouchInv /\ StableInv /\ RefInv
      /\ LockInv /\ OwnerInv /\ FreedInv /\ NoFault /\ NoFault'
      /\ TypeOK' /\ RefInv' /\ FreedInv' /\ StableInv'
  BY Zenon DEF LInv, BInv
<1> SUFFICES ASSUME "unlink" \notin mix.tx PROVE WholeInv'
  BY Zenon DEF TornInv, Next, vars
<1>w. WholeInv
  BY Zenon DEF TornInv
<1>1. CASE UNCHANGED vars
  <2> USE <1>1 DEF vars, txVars, calls, objVars, ghostVars
  <2>0. \A p \in Proc : /\ Workset(p)' = Workset(p) /\ (Active(p)' <=> Active(p))
                        /\ (Unpublished(p)' <=> Unpublished(p)) /\ Pending(p)' = Pending(p)
    BY ZenonT(40) DEF Workset, Active, Unpublished, Pending
  <2>1. \A p \in Proc : \A o : View(p, o)' = View(p, o) /\ Sees(p, o)' = Sees(p, o)
    BY <2>0, ZenonT(40) DEF View, Sees
  <2>2. ASSUME NEW p \in Proc PROVE TornOf(p)'
    <3>1. \A i : ViewSame(p, i)' <=> ViewSame(p, i)
      BY <2>0, ZenonT(40) DEF ViewSame, SameVersion, View
    <3>2. {Sees(p, cwd).v}' = {Sees(p, cwd).v} /\ {Sees(p, arg[p]).v}' = {Sees(p, arg[p]).v}
      BY <2>0, ZenonT(40) DEF Sees
    <3>3. TornOf(p)
      BY <1>w, ZenonT(40) DEF WholeInv
    <3> QED
      BY <2>0, <3>1, <3>2, <3>3, ZenonT(40) DEF TornOf
  <2>3. ~Swapping' => \A i \in Inode : StableSame(i)'
    BY <1>w, Zenon DEF WholeInv, Swapping, StableSame, SameVersion
  <2> QED
    BY <2>2, <2>3, Zenon DEF WholeInv
<1>2. ASSUME NEW p \in Proc, Syscall(p) \/ KernelStep(p)
      PROVE  WholeInv'
  <2>1. Others(p)
    BY <1>0, <1>2, OthersStep, ZenonT(40)
  <2>2. UNCHANGED fault
    BY <1>0, Zenon DEF NoFault
  <2>4. CASE Syscall(p) \/ txdone(p)
    BY <1>0, <1>w, <2>1, <2>4, SysWhole, ZenonT(40)
  <2>5. CASE Stepping(p)
    <3>1. PICK t : /\ pc[p] = t[1] /\ fault = "none"
                   /\ arg[p] \in File /\ conflict[p] = FALSE
                   /\ Did(p, t)
      BY <1>0, <2>2, <2>5, Effects, Zenon
    <3> QED
      BY <1>0, <1>w, <2>1, <3>1, StepWhole, ZenonT(40)
  <2>6. CASE Looping(p)
    <3>1. PICK t \in LoopSteps, o \in Obj :
            /\ pc[p] = t[1] /\ fault = "none"
            /\ o \in rest[p] /\ o \in Workset(p) /\ rest[p] \subseteq Workset(p)
            /\ \A x \in rest[p] : Addr[o] <= Addr[x]
            /\ ~Active(p) /\ conflict[p] = FALSE /\ arg[p] \notin File
            /\ LoopDid(p, t, o)
      BY <1>0, <2>2, <2>6, LoopEffects, Zenon
    <3> QED
      BY <1>0, <1>w, <2>1, <3>1, LoopWhole, ZenonT(40)
  <2> QED
    BY <1>2, <2>4, <2>5, <2>6, Steps, ZenonT(40)
<1> QED
  BY <1>1, <1>2, Zenon DEF Next

\* A read sees an inode and its block at one version: txcommit swaps both under
\* their locks, and a transaction sees its own shadows of both.
THEOREM ReadsWhole ==
    ASSUME Disciplined, Fits, UnlinkInside, WriteInside
    PROVE  Spec => []NoTornRead
<1>1. Init => TornInv
  BY TornInit, Zenon
<1>2. LInv /\ LInv' /\ TornInv /\ [Next]_vars => TornInv'
  BY TornStep, Zenon
<1>3. TornInv => NoTornRead
  BY Zenon DEF TornInv, WholeInv, TornOf, NoTornRead
<1> QED
  BY <1>1, <1>2, <1>3, LinkInvariant, PTL DEF Spec
=============================================================================
