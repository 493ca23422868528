------------------------------ MODULE TxProofs ------------------------------
(***************************************************************************)
(* What the transactions of Tx guarantee, for any processes, inodes,       *)
(* buffers and bounds: one writer at a time, and only committed data.      *)
(***************************************************************************)
EXTENDS TxStepProofs

-----------------------------------------------------------------------------
(* References.                                                              *)

\* Who uses an inode after a step.
LEMMA UserPairsNext ==
    ASSUME NEW o
    PROVE  /\ \A u \in Users(o)' : u = <<u[1], u[2]>>
           /\ \A p \in Proc : \A k : <<p, k>> \in Users(o)' <=> Uses(p, k, o)'
           /\ \A k : <<None, k>> \in Users(o)' <=> k = "cwd" /\ o = cwd
           /\ \A u \in Users(o)' : u[1] \in Proc \cup {None}
<1>1. None \notin Proc
  BY Constants
<1> QED
  BY <1>1 DEF Users, Uses

\* A step of p changes only what p uses.
LEMMA UsersFrame ==
    ASSUME NEW p \in Proc, Others(p), NEW o
    PROVE  \A q, k : q # p => (<<q, k>> \in Users(o)' <=> <<q, k>> \in Users(o))
<1>1. ASSUME NEW q \in Proc \ {p}, NEW k PROVE Uses(q, k, o)' <=> Uses(q, k, o)
  <2>1. Workset(q)' = Workset(q) /\ (Active(q)' <=> Active(q))
    BY Zenon DEF Others, Workset, Active
  <2> QED
    BY <2>1, ZenonT(40) DEF Others, Uses, UsesFile, UsesArg, UsesDir, UsesTx
<1>2. ASSUME NEW q, NEW k, q \notin Proc
      PROVE  <<q, k>> \in Users(o)' <=> <<q, k>> \in Users(o)
  BY <1>2 DEF Users
<1> QED
  BY <1>1, <1>2, UserPairs, UserPairsNext

\* What a step of p may make of the users of o.
LEMMA UsersBound ==
    ASSUME NEW p \in Proc, Others(p), NEW o, NEW X,
           \A k : Uses(p, k, o)' => <<p, k>> \in X,
           \A q, k : q # p /\ <<q, k>> \in Users(o) => <<q, k>> \in X
    PROVE  Users(o)' \subseteq X
<1>1. ASSUME NEW u \in Users(o)' PROVE u \in X
  <2>1. u = <<u[1], u[2]>>
    BY UserPairsNext
  <2>2. CASE u[1] = p
    BY <2>1, <2>2, UserPairsNext
  <2>3. CASE u[1] # p
    BY <2>1, <2>3, UsersFrame
  <2> QED
    BY <2>2, <2>3
<1> QED
  BY <1>1

\* p uses no more than before.
LEMMA RefKeep ==
    ASSUME RefInv, NEW p \in Proc, Others(p), NEW o \in Inode, ref'[o] = ref[o],
           \A k : Uses(p, k, o)' => Uses(p, k, o)
    PROVE  Counts(ref'[o], Users(o)')
<1>1. Users(o)' \subseteq Users(o)
  BY UsersBound, UserPairs
<1> QED
  BY <1>1, CountSub, Zenon DEF RefInv

\* p takes a reference for one more use.
LEMMA RefAdd ==
    ASSUME RefInv, NEW p \in Proc, Others(p), NEW o \in Inode, ref'[o] = ref[o] + 1, NEW j,
           \A k : k # j => (Uses(p, k, o)' => Uses(p, k, o))
    PROVE  Counts(ref'[o], Users(o)')
<1>1. Users(o)' \subseteq Users(o) \cup {<<p, j>>}
  <2> DEFINE X == Users(o) \cup {<<p, j>>}
  <2>1. \A k : Uses(p, k, o)' => <<p, k>> \in X
    BY UserPairs
  <2>2. \A q, k : q # p /\ <<q, k>> \in Users(o) => <<q, k>> \in X
    OBVIOUS
  <2> HIDE DEF X
  <2>3. Users(o)' \subseteq X
    BY <2>1, <2>2, UsersBound, ZenonT(40)
  <2> QED
    BY <2>3 DEF X
<1>2. Counts(ref[o] + 1, Users(o)')
  BY <1>1, CountAdd, ZenonT(40) DEF RefInv
<1> QED
  BY <1>2

\* p gives a reference back, and the use of it.
LEMMA RefDrop ==
    ASSUME RefInv, NEW p \in Proc, Others(p), NEW o \in Inode, ref'[o] = ref[o] - 1, NEW j,
           Uses(p, j, o), ~Uses(p, j, o)',
           \A k : k # j => (Uses(p, k, o)' => Uses(p, k, o))
    PROVE  Counts(ref'[o], Users(o)')
<1>1. Users(o)' \subseteq Users(o) \ {<<p, j>>}
  <2> DEFINE X == Users(o) \ {<<p, j>>}
  <2>1. \A k : Uses(p, k, o)' => <<p, k>> \in X
    BY UserPairs
  <2>2. \A q, k : q # p /\ <<q, k>> \in Users(o) => <<q, k>> \in X
    BY ZenonT(40)
  <2> HIDE DEF X
  <2>3. Users(o)' \subseteq X
    BY <2>1, <2>2, UsersBound, Zenon
  <2> QED
    BY <2>3, Zenon DEF X
<1>2. <<p, j>> \in Users(o)
  BY UserPairs
<1>3. Counts(ref[o] - 1, Users(o)')
  BY <1>1, <1>2, CountDrop, ZenonT(40) DEF RefInv
<1> QED
  BY <1>3, ZenonT(40)

\* p turns one use into another.
LEMMA RefMove ==
    ASSUME RefInv, NEW p \in Proc, Others(p), NEW o \in Inode, ref'[o] = ref[o], NEW i, NEW j,
           Uses(p, i, o), ~Uses(p, i, o)',
           \A k : k # i /\ k # j => (Uses(p, k, o)' => Uses(p, k, o))
    PROVE  Counts(ref'[o], Users(o)')
<1>1. Users(o)' \subseteq (Users(o) \ {<<p, i>>}) \cup {<<p, j>>}
  <2> DEFINE X == (Users(o) \ {<<p, i>>}) \cup {<<p, j>>}
  <2>1. \A k : Uses(p, k, o)' => <<p, k>> \in X
    BY UserPairs
  <2>2. \A q, k : q # p /\ <<q, k>> \in Users(o) => <<q, k>> \in X
    OBVIOUS
  <2> HIDE DEF X
  <2>3. Users(o)' \subseteq X
    BY <2>1, <2>2, UsersBound, ZenonT(40)
  <2> QED
    BY <2>3, Zenon DEF X
<1>2. <<p, i>> \in Users(o)
  BY UserPairs
<1>3. Counts(ref[o], Users(o)')
  BY <1>1, <1>2, CountMove, ZenonT(40) DEF RefInv
<1> QED
  BY <1>3, ZenonT(40)


\* The references are kept by the steps of the calls,
LEMMA StepRef ==
    ASSUME TypeOK, TouchInv, RefInv, NEW p \in Proc, NEW t, pc[p] = t[1], arg[p] \in File,
           Did(p, t), Others(p)
    PROVE  RefInv'
<1> SUFFICES ASSUME NEW i \in Inode PROVE Counts(ref'[i], Users(i)')
  BY ZenonT(40) DEF RefInv
<1> DEFINE Keeps == \A k : Uses(p, k, i)' => Uses(p, k, i)
<1>i. i \in Obj /\ arg[p] \in Obj /\ arg[p] \in Inode /\ arg[p] # cwd /\ i \notin Buf
  BY Constants, TxAssumption, ZenonT(40)
<1>g. ASSUME NEW l, Goto(p, l)
      PROVE  pc'[p] = l /\ (l # "user" => arg'[p] = arg[p])
  BY <1>g DEF Goto, TypeOK
<1>u. "user" \notin GotFile /\ "user" \notin GotDir /\ "user" \notin Sweeping /\ "user" \notin Putting
  BY DEF GotFile, GotDir, Sweeping, Putting
<1>s. \A l \in Label : l \notin Outside => l \notin Sweeping /\ l \notin Putting
  BY LoopPoints, ZenonT(40)
<1>m. ASSUME NEW l, Goto(p, l), l \notin Sweeping, l \notin Putting, UNCHANGED <<status, ofile>>,
             i \in Workset(p)' => i \in Workset(p),
             l \in GotFile => t[1] \in GotFile, l \in GotDir => t[1] \in GotDir
      PROVE  Keeps
  BY <1>m, <1>g, <1>u, ZenonT(40) DEF Uses, UsesFile, UsesArg, UsesDir, UsesTx, Active
<1>1. CASE t \in Idups /\ idup(p, cwd, t[1], t[2])
  <2>1. /\ pc'[p] = t[2] /\ t[2] \notin Sweeping /\ t[2] \notin Putting
        /\ Workset(p)' = Workset(p) /\ UNCHANGED <<status, ofile>>
        /\ t[2] \notin GotFile
    BY <1>1, <1>g, <1>s, IdupPoints, ZenonT(40) DEF idup, txVars, Workset
  <2>2. CASE i = cwd
    <3> DEFINE j == IF Active(p) THEN "tx" ELSE "dir"
    <3>1. \A k : k # j => (Uses(p, k, i)' => Uses(p, k, i))
      BY <2>1, ZenonT(40) DEF Uses, UsesFile, UsesArg, UsesDir, UsesTx, Active
    <3>2. ref'[i] = ref[i] + 1
      BY <1>1, <2>2, <1>i, ZenonT(40) DEF idup, TypeOK
    <3> HIDE DEF j
    <3> QED
      BY <3>1, <3>2, RefAdd, ZenonT(40)
  <2>3. CASE i # cwd
    <3>1. Keeps
      BY <2>1, <2>3, ZenonT(40) DEF Uses, UsesFile, UsesArg, UsesDir, UsesTx, Active
    <3>2. ref'[i] = ref[i]
      BY <1>1, <2>3, <1>i DEF idup, TypeOK
    <3> QED
      BY <3>1, <3>2, RefKeep, ZenonT(40)
  <2> QED
    BY <2>2, <2>3, ZenonT(40)
<1>2. ASSUME NEW o \in Inode, DidAccess(p, t, o)
      PROVE  Counts(ref'[i], Users(i)')
  <2>1. /\ pc'[p] = t[2] /\ t[2] \notin Sweeping /\ t[2] \notin Putting /\ t[2] # "user"
        /\ arg'[p] = arg[p] /\ UNCHANGED <<status, ofile, ref>>
        /\ (t[2] \in GotFile => t[1] \in GotFile) /\ (t[2] \in GotDir => t[1] \in GotDir)
    BY <1>2, <1>g, <1>s, DirStepPoints, FileStepPoints, LoopPoints, ZenonT(40)
       DEF DidAccess, Accessing, Access
  <2>2. CASE i \in Workset(p)' => i \in Workset(p)
    <3>1. Keeps
      BY <2>1, <2>2, <1>2, <1>m, ZenonT(40) DEF DidAccess, Access
    <3> QED
      BY <3>1, <2>1, RefKeep, ZenonT(40)
  <2>3. CASE i \in Workset(p)' /\ i \notin Workset(p)
    <3>1. Active(p) /\ i = o
      BY <2>3, <1>2 DEF DidAccess, Access, Workset, TypeOK
    <3>2. UsesTx(p, i)
      <4>1. CASE t \in DirSteps /\ o = cwd
        BY <3>1, <4>1, DirStepPoints, ZenonT(40) DEF UsesTx
      <4>2. CASE t \in FileSteps /\ o = arg[p]
        <5>1. t[1] \in GotFile
          BY <2>3, <3>1, <4>2, FileStepPoints, ZenonT(40) DEF TouchInv, TouchOf, OnFile, SawFile, HoldsFile, FileSteps
        <5> QED
          BY <5>1, <3>1, <4>2, ZenonT(40) DEF UsesTx
      <4> QED
        BY <4>1, <4>2, <1>2, Zenon DEF DidAccess, Accessing
    <3>3. Keeps
      BY <2>1, <3>1, <3>2, ZenonT(40) DEF Uses, UsesFile, UsesArg, UsesDir, Active
    <3> QED
      BY <3>3, <2>1, RefKeep, Zenon
  <2> QED
    BY <2>2, <2>3, ZenonT(40)
<1>3. ASSUME NEW o \in Inode, DidUnwind(p, t, o)
      PROVE  Counts(ref'[i], Users(i)')
  <2>1. Workset(p)' = Workset(p)
    BY <1>3, Constants, ZenonT(40) DEF DidUnwind, Unwind, Workset, TypeOK
  <2>2. ref'[i] = ref[i]
    BY <1>3, <1>i, ZenonT(40) DEF DidUnwind, Unwind
  <2>3. Keeps
    BY <1>3, <1>m, <1>u, <2>1, ZenonT(40) DEF DidUnwind, Unwind
  <2> QED
    BY <2>2, <2>3, RefKeep, ZenonT(40)
<1>4. ASSUME NEW b \in Buf, NEW c \in Content, DidStore(p, t, b, c)
      PROVE  Counts(ref'[i], Users(i)')
  <2>t. t \in Lookups \/ t \in DataSteps
    BY <1>4 DEF DidStore, DataSteps
  <2>p. /\ t[2] \notin Sweeping /\ t[2] \notin Putting
        /\ (t[2] \in GotFile => t[1] \in GotFile) /\ (t[2] \in GotDir => t[1] \in GotDir)
    BY <2>t, <1>s, LookupPoints, DataStepPoints, ZenonT(40)
  <2>1. i \in Workset(p)' => i \in Workset(p)
    BY <1>4, <1>i DEF DidStore, Store, Workset, TypeOK
  <2>2. ref'[i] = ref[i]
    BY <1>4, <1>i DEF DidStore, Store, Pin, TypeOK
  <2>3. Keeps
    BY <1>4, <1>m, <2>p, <2>1 DEF DidStore, Store
  <2> QED
    BY <2>2, <2>3, RefKeep, Zenon
<1>5. CASE t \in Igets /\ iget(p, arg[p], t[1], t[2])
  <2>0. Workset(p)' = Workset(p) /\ UNCHANGED <<status, ofile>>
    BY <1>5, ZenonT(40) DEF iget, txVars, Workset
  <2>1. CASE Goto(p, "miss_unlock") /\ ref' = ref
    <3>1. Keeps
      BY <1>5, <2>0, <2>1, <1>m, <1>s, IgetPoints, EntryPoints, ZenonT(40)
    <3> QED
      BY <3>1, <2>1, RefKeep, ZenonT(40)
  <2>2. CASE Goto(p, t[2]) /\ ref' = [ref EXCEPT ![arg[p]] = @ + 1]
    <3>1. /\ pc'[p] = t[2] /\ t[2] \notin Sweeping /\ t[2] \notin Putting /\ t[2] # "user"
          /\ arg'[p] = arg[p] /\ t[1] \in GotDir
      BY <1>5, <2>2, <1>g, <1>s, <1>u, IgetPoints, ZenonT(40)
    <3>2. CASE i = arg[p]
      <4> DEFINE j == IF Active(p) THEN "tx" ELSE "arg"
      <4>1. \A k : k # j => (Uses(p, k, i)' => Uses(p, k, i))
        BY <3>1, <2>0, <3>2, <1>i, ZenonT(40) DEF Uses, UsesFile, UsesArg, UsesDir, UsesTx, Active
      <4>2. ref'[i] = ref[i] + 1
        BY <2>2, <3>2, <1>i, ZenonT(40) DEF TypeOK
      <4> HIDE DEF j
      <4> QED
        BY <4>1, <4>2, RefAdd, Zenon
    <3>3. CASE i # arg[p]
      <4>1. Keeps
        BY <3>1, <2>0, <3>3, ZenonT(40) DEF Uses, UsesFile, UsesArg, UsesDir, UsesTx, Active
      <4>2. ref'[i] = ref[i]
        BY <2>2, <3>3, <1>i DEF TypeOK
      <4> QED
        BY <4>1, <4>2, RefKeep, Zenon
    <3> QED
      BY <3>2, <3>3
  <2> QED
    BY <1>5, <2>1, <2>2, ZenonT(40) DEF iget
<1>6. ASSUME NEW o \in Inode, DidUnlock(p, t, o)
      PROVE  Counts(ref'[i], Users(i)')
  <2>1. /\ t[2] \notin Sweeping /\ t[2] \notin Putting
        /\ (t[2] \in GotFile => t[1] \in GotFile) /\ (t[2] \in GotDir => t[1] \in GotDir)
    <3>1. t \in DirUnlocks \/ t = <<"read_unlock", "user">>
      BY <1>6, Zenon DEF DidUnlock
    <3>2. CASE t \in DirUnlocks
      BY <3>2, <1>s, DirUnlockPoints, Zenon
    <3>3. CASE t = <<"read_unlock", "user">>
      BY <3>3, <1>u
    <3> QED
      BY <3>1, <3>2, <3>3, Zenon
  <2>2. Keeps
    BY <1>6, <1>m, <2>1, ZenonT(40) DEF DidUnlock, txVars, Workset
  <2> QED
    BY <1>6, <2>2, RefKeep, ZenonT(40) DEF DidUnlock
<1>7. ASSUME NEW o \in Inode, DidPut(p, t, o)
      PROVE  Counts(ref'[i], Users(i)')
  <2>1. /\ t[2] \notin Sweeping /\ t[2] \notin Putting
        /\ (t[2] \in GotFile => t[1] \in GotFile) /\ (t[2] \in GotDir => t[1] \in GotDir)
    BY <1>7, <1>s, <1>u, DirPutPoints, FilePutPoints, ZenonT(40) DEF DidPut
  <2>2. Keeps
    BY <1>7, <1>m, <2>1, ZenonT(40) DEF DidPut, iput, txVars, Workset
  <2>3. CASE Active(p) \/ i # o
    <3>1. ref'[i] = ref[i]
      BY <1>7, <2>3, <1>i, Constants, ZenonT(40) DEF DidPut, iput, Put, DropRef, TypeOK
    <3> QED
      BY <2>2, <3>1, RefKeep, ZenonT(40)
  <2>4. CASE ~Active(p) /\ i = o
    <3> DEFINE j == IF o = cwd THEN "dir" ELSE "arg"
    <3>1. ref'[i] = ref[i] - 1
      BY <1>7, <2>4, <1>i, ZenonT(40) DEF DidPut, iput, Put, DropRef, TypeOK
    <3>2. pc'[p] = t[2] /\ UNCHANGED status
      BY <1>7, <1>g, ZenonT(40) DEF DidPut, iput, txVars
    <3>3. Uses(p, j, i) /\ ~Uses(p, j, i)'
      <4>1. CASE t \in DirPuts /\ o = cwd
        BY <2>4, <3>2, <4>1, DirPutPoints, ZenonT(40) DEF Uses, UsesDir
      <4>2. CASE t \in FilePuts /\ o = arg[p]
        BY <2>4, <3>2, <4>2, <1>i, FilePutPoints, ZenonT(40) DEF Uses, UsesArg
      <4> QED
        BY <4>1, <4>2, <1>7, ZenonT(40) DEF DidPut
    <3> HIDE DEF j
    <3> QED
      BY <2>2, <3>1, <3>3, RefDrop, ZenonT(40)
  <2> QED
    BY <2>3, <2>4, ZenonT(40)
<1>8. CASE t = <<"open_fd", "user">> /\ fdalloc(p, arg[p], t[1], t[2])
  <2>1. /\ pc'[p] = "user" /\ UNCHANGED <<status, ref>> /\ Workset(p)' = Workset(p)
        /\ ofile'[p] = ofile[p] \cup {arg[p]}
    BY <1>8, <1>g, ZenonT(40) DEF fdalloc, Workset, TypeOK
  <2>2. CASE Active(p) \/ i # arg[p]
    <3>1. Keeps
      BY <2>1, <2>2, <1>u, ZenonT(40) DEF Uses, UsesFile, UsesArg, UsesDir, UsesTx, Active
    <3> QED
      BY <3>1, <2>1, RefKeep, ZenonT(40)
  <2>3. CASE ~Active(p) /\ i = arg[p]
    <3>1. pc[p] \in GotFile
      BY <1>8 DEF GotFile
    <3>2. Uses(p, "arg", i) /\ ~Uses(p, "arg", i)'
      BY <2>1, <2>3, <3>1, <1>u, ZenonT(40) DEF Uses, UsesArg
    <3>3. \A k : k # "arg" /\ k # "file" => (Uses(p, k, i)' => Uses(p, k, i))
      BY <2>1, <2>3, <1>u, ZenonT(40) DEF Uses, UsesDir, UsesTx, Active
    <3> QED
      BY <2>1, <3>2, <3>3, RefMove, ZenonT(40)
  <2> QED
    BY <2>2, <2>3, ZenonT(40)
<1>9. ASSUME NEW c \in Content, DidSet(p, t, c)
      PROVE  Counts(ref'[i], Users(i)')
  <2>1. t \in FileUnlocks /\ SetInode(p, arg[p], c, t[2])
    BY <1>9 DEF DidSet, FileUnlocks
  <2>2. t[2] \notin Sweeping /\ t[2] \notin Putting
    BY <1>9 DEF DidSet, Sweeping, Putting
  <2>3. i \in Workset(p)' => i \in Workset(p)
    <3>1. CASE Active(p)
      <4>1. arg[p] \in Workset(p)
        BY <2>1, <3>1, FileUnlockPoints, ZenonT(40) DEF TouchInv, TouchOf
      <4> QED
        BY <4>1, <3>1, <2>1, <1>i DEF SetInode, Workset, TypeOK
    <3>2. CASE ~Active(p)
      BY <3>2, <2>1 DEF SetInode, Workset
    <3> QED
      BY <3>1, <3>2, ZenonT(40)
  <2>4. Keeps
    BY <2>1, <2>2, <2>3, <1>m, FileUnlockPoints, ZenonT(40) DEF SetInode
  <2> QED
    BY <2>1, <2>4, RefKeep DEF SetInode
<1> QED
  BY <1>1, <1>2, <1>3, <1>4, <1>5, <1>6, <1>7, <1>8, <1>9, ZenonT(40) DEF Did


\* by those of the loops,
LEMMA LoopRef ==
    ASSUME TypeOK, RefInv, NEW p \in Proc, NEW t \in LoopSteps, NEW o \in Obj,
           pc[p] = t[1], o \in rest[p], o \in Workset(p), rest[p] \subseteq Workset(p),
           ~Active(p), LoopDid(p, t, o), Others(p)
    PROVE  RefInv'
<1> SUFFICES ASSUME NEW i \in Inode PROVE Counts(ref'[i], Users(i)')
  BY ZenonT(40) DEF RefInv
<1> DEFINE Keeps == \A k : Uses(p, k, i)' => Uses(p, k, i)
<1>i. i \in Obj /\ i \notin Buf
  BY Constants, TxAssumption, ZenonT(40)
<1>0. UNCHANGED <<status, ofile>> /\ Workset(p)' = Workset(p)
  <2>1. CASE DidFree(p, t, o)
    <3>1. Workset(p)' = Workset(p) \cup {o}
      BY <2>1, Enlist, Constants, ZenonT(40) DEF DidFree
    <3> QED
      BY <2>1, <3>1 DEF DidFree
  <2>2. CASE UNCHANGED txVars
    BY <2>2, Zenon DEF Workset, txVars
  <2> QED
    BY <2>1, <2>2, Zenon DEF LoopDid, DidLock, DidSwap, DidRelease, DidDrop
<1>p. \A l \in Outside : l \notin GotFile /\ l \notin GotDir
  BY OutsidePoints
<1>d. t[1] \in Outside /\ t[2] \in Outside /\ "txdone" \in Outside
      /\ "txdone" \notin Sweeping /\ "txdone" \notin Putting
  BY LoopStepPoints, LoopPoints, ZenonT(40) DEF Sweeping, Putting
<1>m. ASSUME pc'[p] \in Outside, UsesTx(p, i)' => UsesTx(p, i)
      PROVE  Keeps
  BY <1>m, <1>0, <1>p, ZenonT(40) DEF Uses, UsesFile, UsesArg, UsesDir, Active
<1>1. CASE DidLock(p, t, o) \/ DidSwap(p, t, o) \/ DidRelease(p, t, o)
  <2>1. Round(p, o, t[1], t[2]) /\ UNCHANGED ref
    BY <1>1, ZenonT(40) DEF DidLock, DidSwap, DidRelease
  <2>2. t[1] \in Sweeping /\ t[1] \notin Putting
    BY <1>1, LoopStepPoints, LoopPoints
       DEF DidLock, DidSwap, DidRelease, Sweeping, Putting, LockLoops, UnlockLoops
  <2>3. pc'[p] \in {t[1], t[2]} /\ rest'[p] \subseteq Workset(p)
    BY <2>1, RoundEffect
  <2>4. UsesTx(p, i)' => UsesTx(p, i)
    BY <2>2, <2>3, <1>0, <1>p, <1>d, ZenonT(40) DEF UsesTx, Active
  <2> QED
    BY <2>1, <2>3, <2>4, <1>m, <1>d, RefKeep, ZenonT(40)
<1>2. CASE DidFree(p, t, o)
  <2>1. pc'[p] = t[2] /\ rest'[p] = rest[p] /\ UNCHANGED ref
    BY <1>2, Zenon DEF DidFree, Goto, TypeOK, objVars
  <2>2. t[1] \in Putting /\ t[2] \in Putting /\ t[2] \notin Sweeping
    BY <1>2 DEF DidFree, Putting, Sweeping
  <2>3. UsesTx(p, i)' => UsesTx(p, i)
    BY <2>1, <2>2, <1>0, <1>p, <1>d, ZenonT(40) DEF UsesTx, Active
  <2> QED
    BY <2>1, <2>3, <1>m, <1>d, RefKeep, ZenonT(40)
<1>3. CASE DidDrop(p, t, o)
  <2>1. t[1] \in Putting /\ t[2] \in Putting /\ t[2] \notin Sweeping
    BY <1>3, LoopPoints, LoopStepPoints, ZenonT(40) DEF DidDrop
  <2>2. /\ pc'[p] \in {t[2], "txdone"}
        /\ pc'[p] = t[2] => rest'[p] = rest[p] \ {o}
    BY <1>3, RoundEffect, <2>1, <1>d DEF DidDrop
  <2>3. UsesTx(p, i)' => UsesTx(p, i) /\ i # o
    BY <2>1, <2>2, <1>0, <1>p, <1>d, Zenon DEF UsesTx, Active
  <2>4. Keeps
    BY <2>2, <2>3, <1>m, <1>d, ZenonT(40)
  <2>5. CASE i # o
    <3>1. ref'[i] = ref[i]
      BY <1>3, <2>5, <1>i, ZenonT(40) DEF DidDrop, Drop, Put, DropRef, TypeOK
    <3> QED
      BY <3>1, <2>4, RefKeep, ZenonT(40)
  <2>6. CASE i = o
    <3>1. ref'[i] = ref[i] - 1
      BY <1>3, <2>6, <1>i, ZenonT(40) DEF DidDrop, Drop, Put, DropRef, TypeOK
    <3>2. Uses(p, "tx", i) /\ ~Uses(p, "tx", i)'
      BY <2>1, <2>3, <2>6, Zenon DEF Uses, UsesTx
    <3> QED
      BY <3>1, <3>2, <2>4, RefDrop, ZenonT(40)
  <2> QED
    BY <2>5, <2>6, ZenonT(40)
<1> QED
  BY <1>1, <1>2, <1>3, ZenonT(40) DEF LoopDid

\* and by the system calls.
LEMMA SysRef ==
    ASSUME TypeOK, PhaseInv, TouchInv, RefInv, Disciplined, NEW p \in Proc,
           Syscall(p) \/ txdone(p), Others(p)
    PROVE  RefInv'
<1> SUFFICES ASSUME NEW i \in Inode PROVE Counts(ref'[i], Users(i)')
  BY DEF RefInv
<1> DEFINE Keeps == \A k : Uses(p, k, i)' => Uses(p, k, i)
<1>r. ref'[i] = ref[i]
  BY ZenonT(40) DEF Syscall, sys_txbegin, sys_txcommit, sys_txabort, sys_open, sys_close, sys_read,
         sys_write, sys_unlink, txdone, objVars
<1>k. ASSUME Keeps PROVE Counts(ref'[i], Users(i)')
  BY <1>k, <1>r, RefKeep, Zenon
<1>u. /\ "user" \notin GotFile /\ "user" \notin GotDir
      /\ "user" \notin Sweeping /\ "user" \notin Putting
      /\ "txdone" \notin GotFile /\ "txdone" \notin GotDir
      /\ "txdone" \notin Sweeping /\ "txdone" \notin Putting
  BY DEF GotFile, GotDir, Sweeping, Putting
<1>s. \A l \in Label : l \notin Outside => l \notin Sweeping /\ l \notin Putting
  BY LoopPoints
<1>1. ASSUME NEW f \in File, NEW l, Enter(p, l, f), l \in Label \ Outside,
             l \notin GotFile, l \notin GotDir, UNCHANGED txVars
      PROVE  Counts(ref'[i], Users(i)')
  <2>1. pc'[p] = l /\ UNCHANGED <<status, ofile>> /\ Workset(p)' = Workset(p)
        /\ l \notin Sweeping /\ l \notin Putting
    BY <1>1, <1>s DEF Enter, TypeOK, Workset, txVars
  <2>2. Keeps
    BY <1>1, <2>1, ZenonT(40) DEF Uses, UsesFile, UsesArg, UsesDir, UsesTx, Active
  <2> QED
    BY <2>2, <1>k
<1>2. ASSUME NEW f \in File, sys_open(p, f) \/ sys_read(p, f)
             \/ sys_write(p, f) \/ sys_unlink(p, f)
      PROVE  Counts(ref'[i], Users(i)')
  BY <1>2, <1>1, EntryPoints, ZenonT(40) DEF sys_open, sys_read, sys_write, sys_unlink
<1>3. ASSUME NEW f \in File, sys_close(p, f)
      PROVE  Counts(ref'[i], Users(i)')
  <2>1. /\ pc'[p] = "close" /\ arg'[p] = f /\ ofile'[p] = ofile[p] \ {f} /\ f \in ofile[p]
        /\ UNCHANGED status /\ Workset(p)' = Workset(p) /\ pc[p] = "user"
        /\ "close" \notin GotDir /\ "close" \notin Sweeping /\ "close" \notin Putting
    BY <1>3, <1>s, EntryPoints, ZenonT(40) DEF sys_close, Enter, TypeOK, Workset, UserMode
  <2>2. CASE Active(p) \/ i # f
    <3>1. Active(p) => f \in Workset(p)
      BY <2>1, ZenonT(40) DEF TouchInv, TouchOf
    <3>2. Keeps
      BY <2>1, <2>2, <3>1, ZenonT(40) DEF Uses, UsesFile, UsesArg, UsesDir, UsesTx, Active
    <3> QED
      BY <3>2, <1>k
  <2>3. CASE ~Active(p) /\ i = f
    <3>1. Uses(p, "file", i) /\ ~Uses(p, "file", i)'
      BY <2>1, <2>3, ZenonT(40) DEF Uses, UsesFile
    <3>2. \A k : k # "file" /\ k # "arg" => (Uses(p, k, i)' => Uses(p, k, i))
      BY <2>1, <2>3, Zenon DEF Uses, UsesDir, UsesTx, Active
    <3> QED
      BY <3>1, <3>2, <1>r, RefMove, ZenonT(40)
  <2> QED
    BY <2>2, <2>3
<1>4. CASE sys_txbegin(p)
  <2>1. Workset(p)' = {} /\ Active(p)' /\ pc'[p] = "user"
    BY <1>4 DEF sys_txbegin, Workset, Active, TypeOK, calls
  <2>2. Keeps
    BY <2>1, <1>u, ZenonT(40) DEF Uses, UsesFile, UsesArg, UsesDir, UsesTx
  <2> QED
    BY <2>2, <1>k
<1>5. CASE sys_txcommit(p) \/ sys_txabort(p)
  <2>1. /\ Workset(p)' = Workset(p) /\ ~Active(p)' /\ ofile'[p] = {} /\ Active(p)
        /\ pc'[p] \in {"txdone", "commit_lock", "abort_lock"}
    BY <1>5 DEF sys_txcommit, sys_txabort, Workset, Active, TypeOK, Loop, Disciplined
  <2>2. pc'[p] \notin GotFile /\ pc'[p] \notin GotDir /\ pc'[p] \notin Putting
    BY <2>1 DEF GotFile, GotDir, Putting
  <2>3. Keeps
    BY <2>1, <2>2, ZenonT(40) DEF Uses, UsesFile, UsesArg, UsesDir, UsesTx
  <2> QED
    BY <2>3, <1>k
<1>6. CASE txdone(p)
  <2>1. Workset(p)' = {} /\ pc'[p] = "user" /\ UNCHANGED <<status, ofile>>
    BY <1>6 DEF txdone, Workset, TypeOK
  <2>2. Keeps
    BY <2>1, <1>u, ZenonT(40) DEF Uses, UsesFile, UsesArg, UsesDir, UsesTx, Active
  <2> QED
    BY <2>2, <1>k
<1> QED
  BY <1>2, <1>3, <1>4, <1>5, <1>6, ZenonT(40) DEF Syscall

-----------------------------------------------------------------------------
(* Inodes are freed with the last reference.                                *)

\* What somebody else uses is not freed.
LEMMA UsedStays ==
    ASSUME RefInv, NEW p \in Proc, Frees(p), NEW q \in Proc \ {p}, NEW x \in Inode, NEW k,
           Uses(q, k, x), val'[x] = Freed
    PROVE  val[x] = Freed
<1> SUFFICES ASSUME val[x] # Freed PROVE FALSE
  OBVIOUS
<1>1. PICK j : Uses(p, j, x) /\ ref[x] = 1
  BY Constants, Zenon DEF Frees
<1>2. <<p, j>> \in Users(x) /\ <<q, k>> \in Users(x) /\ <<p, j>> # <<q, k>>
  BY <1>1, UserPairs
<1>3. ref[x] >= 2
  BY <1>2, CountSome, ZenonT(40) DEF RefInv
<1> QED
  BY <1>1, <1>3

\* A plain call that has a file locked has a reference to it, or it is open.
LEMMA PlainUser ==
    ASSUME PhaseInv, NEW q \in Proc, ~Active(q), pc[q] \in HoldsFile
    PROVE  arg[q] \in File /\ \E k : Uses(q, k, arg[q])
<1>1. pc[q] \notin Outside /\ (pc[q] \in GotFile \/ pc[q] \in OnFile)
  BY DEF HoldsFile, Outside, CommitLoop, AbortLoop, GotFile, OnFile
<1>2. arg[q] \in File /\ (pc[q] \in OnFile => arg[q] \in ofile[q])
  BY <1>1 DEF PhaseInv, PhaseOf
<1> QED
  BY <1>1, <1>2, Zenon DEF Uses, UsesArg, UsesFile

\* Only p is to be looked at.
LEMMA StableFrame ==
    ASSUME PhaseInv, RefInv, StableInv, NEW p \in Proc, Others(p), Frees(p), StableOf(p)'
    PROVE  StableInv'
<1>1. ASSUME NEW q \in Proc \ {p} PROVE StableOf(q)'
  <2>1. /\ Active(q)' <=> Active(q)
        /\ shadow'[q] = shadow[q] /\ conflict'[q] = conflict[q]
        /\ pc'[q] = pc[q] /\ arg'[q] = arg[q]
    BY ZenonT(40) DEF Others, Active
  <2>2. ASSUME ~Active(q), pc[q] \in HoldsFile PROVE val'[arg[q]] # Freed
    <3>1. arg[q] \in Inode /\ val[arg[q]] # Freed
      BY <2>2, PlainUser, Constants, ZenonT(40) DEF StableInv, StableOf
    <3>2. PICK k : Uses(q, k, arg[q])
      BY <2>2, PlainUser, ZenonT(40)
    <3> QED
      BY <3>1, <3>2, UsedStays, ZenonT(40)
  <2> QED
    BY <2>1, <2>2, ZenonT(40) DEF StableInv, StableOf
<1> QED
  BY <1>1 DEF StableInv

\* The steps of the calls free an inode only with its last reference,
LEMMA StepFrees ==
    ASSUME TypeOK, NEW p \in Proc, NEW t, pc[p] = t[1], arg[p] \in File, Did(p, t)
    PROVE  Frees(p)
<1>0. arg[p] \in Inode /\ arg[p] \in Obj /\ Freed \notin Content /\ \A b \in Buf : b \in Obj
  BY Constants, ZenonT(40)
<1>1. CASE UNCHANGED val
  BY <1>1, Zenon DEF Frees
<1>2. ASSUME NEW b \in Buf, NEW c \in Content, DidStore(p, t, b, c)
      PROVE  Frees(p)
  BY <1>2, <1>0 DEF DidStore, Store, Frees, TypeOK
<1>3. ASSUME NEW c \in Content, DidSet(p, t, c)
      PROVE  Frees(p)
  BY <1>3, <1>0 DEF DidSet, SetInode, Frees, TypeOK
<1>4. ASSUME NEW o \in Inode, DidPut(p, t, o)
      PROVE  Frees(p)
  <2>1. CASE Active(p)
    BY <1>4, <2>1, <1>1, ZenonT(40) DEF DidPut, iput, Put
  <2>2. CASE ~Active(p)
    <3>1. DropRef(o) /\ o \in Obj
      BY <1>4, <2>2, Constants, ZenonT(40) DEF DidPut, iput, Put
    <3>2. \E k : Uses(p, k, o)
      <4>1. CASE t \in DirPuts /\ o = cwd
        BY <4>1, <2>2, DirPutPoints, ZenonT(40) DEF Uses, UsesDir
      <4>2. CASE t \in FilePuts /\ o = arg[p]
        BY <4>2, <2>2, FilePutPoints, ZenonT(40) DEF Uses, UsesArg
      <4> QED
        BY <4>1, <4>2, <1>4, ZenonT(40) DEF DidPut
    <3> QED
      BY <3>1, <3>2, DropEffect, ZenonT(40) DEF Frees
  <2> QED
    BY <2>1, <2>2
<1> QED
  BY <1>1, <1>2, <1>3, <1>4, ZenonT(40)
     DEF Did, DidAccess, DidUnwind, DidUnlock, idup, Access, Unwind, iget, fdalloc

\* nor do those of the loops,
LEMMA LoopFrees ==
    ASSUME TypeOK, NEW p \in Proc, NEW t \in LoopSteps, NEW o \in Obj,
           pc[p] = t[1], o \in rest[p], ~Active(p), LoopDid(p, t, o)
    PROVE  Frees(p)
<1>1. CASE UNCHANGED val
  BY <1>1 DEF Frees
<1>2. CASE DidSwap(p, t, o)
  BY <1>2 DEF DidSwap, Frees, TypeOK
<1>3. CASE DidDrop(p, t, o)
  <2>1. CASE o \in Inode
    <3>1. DropRef(o)
      BY <1>3, <2>1, ZenonT(40) DEF DidDrop, Drop, Put
    <3>2. Uses(p, "tx", o)
      BY <1>3, LoopStepPoints, ZenonT(40) DEF DidDrop, Uses, UsesTx
    <3> QED
      BY <2>1, <3>1, <3>2, DropEffect, ZenonT(40) DEF Frees
  <2>2. CASE o \notin Inode
    BY <1>1, <1>3, <2>2, ZenonT(40) DEF DidDrop, Drop
  <2> QED
    BY <2>1, <2>2
<1> QED
  BY <1>1, <1>2, <1>3 DEF LoopDid, DidLock, DidRelease, DidFree, objVars

\* What a call may reach stays, through the steps of the calls,
LEMMA StepStable ==
    ASSUME TypeOK, PhaseInv, RefInv, StableInv, NEW p \in Proc, NEW t, pc[p] = t[1],
           arg[p] \in File, conflict[p] = FALSE, Did(p, t), Others(p)
    PROVE  StableInv'
<1>f. Frees(p)
  BY StepFrees, ZenonT(40)
<1> SUFFICES StableOf(p)'
  BY <1>f, StableFrame
<1>o. StableOf(p) /\ arg[p] \in Obj /\ arg[p] # cwd /\ Freed \notin Content /\ None # Freed
  BY Constants DEF StableInv
<1>g. ASSUME NEW l, Goto(p, l)
      PROVE  pc'[p] = l /\ (l # "user" => arg'[p] = arg[p])
  BY <1>g DEF Goto, TypeOK
<1>u. "user" \notin HoldsFile
  BY DEF HoldsFile
<1>m. ASSUME NEW l, Goto(p, l), UNCHANGED <<status, conflict, shadow>>,
             l \in HoldsFile => t[1] \in HoldsFile /\ val'[arg[p]] = val[arg[p]]
      PROVE  StableOf(p)'
  BY <1>m, <1>g, <1>u, <1>o, ZenonT(40) DEF StableOf, Active
<1>1. CASE t \in Idups /\ idup(p, cwd, t[1], t[2])
  BY <1>1, <1>m, IdupPoints, ZenonT(40) DEF idup, txVars
<1>2. ASSUME NEW o \in Inode, DidAccess(p, t, o)
      PROVE  StableOf(p)'
  <2>0. /\ o \in Obj /\ UNCHANGED <<status, conflict, val>> /\ pc'[p] = t[2]
        /\ (t[2] # "user" => arg'[p] = arg[p])
    BY <1>2, <1>g, Constants, ZenonT(40) DEF DidAccess, Access
  <2>1. CASE Active(p)
    <3>1. \A x \in Obj : shadow'[p][x] = IF x = o THEN Sees(p, o) ELSE shadow[p][x]
      BY <1>2, <2>0, <2>1 DEF DidAccess, Access, TypeOK
    <3>2. Sees(p, o) # Freed
      BY <1>2, <1>o, Zenon DEF DidAccess
    <3> QED
      BY <2>0, <2>1, <3>1, <3>2, <1>o, ZenonT(40) DEF StableOf, Active
  <2>2. CASE ~Active(p)
    <3>1. t[2] \in HoldsFile => o = arg[p] /\ t[2] # "user"
      BY <1>2, <1>u, DirStepPoints, ZenonT(40) DEF DidAccess, Accessing
    <3> QED
      BY <1>2, <2>0, <2>2, <3>1, ZenonT(40) DEF DidAccess, NotInUse, StableOf, Active
  <2> QED
    BY <2>1, <2>2, ZenonT(40)
<1>3. ASSUME NEW o \in Inode, DidUnwind(p, t, o)
      PROVE  StableOf(p)'
  <2>1. conflict'[p] /\ Active(p)'
    BY <1>3, ZenonT(40) DEF DidUnwind, Unwind, Active, TypeOK
  <2> QED
    BY <2>1, ZenonT(40) DEF StableOf
<1>4. ASSUME NEW b \in Buf, NEW c \in Content, DidStore(p, t, b, c)
      PROVE  StableOf(p)'
  <2>0. /\ b \in Obj /\ UNCHANGED <<status, conflict>> /\ pc'[p] = t[2] /\ b # arg[p]
        /\ (t[2] # "user" => arg'[p] = arg[p])
    BY <1>4, <1>g, Constants, TxAssumption DEF DidStore, Store
  <2>t. t[2] \in HoldsFile => t[1] \in HoldsFile
    <3>1. t \in Lookups \/ t \in DataSteps
      BY <1>4 DEF DidStore, DataSteps
    <3> QED
      BY <3>1, LookupPoints, DataStepPoints, Zenon
  <2>1. CASE Active(p)
    <3>1. \A x \in Obj : shadow'[p][x] = IF x = b THEN c ELSE shadow[p][x]
      BY <1>4, <2>0, <2>1 DEF DidStore, Store, TypeOK
    <3> QED
      BY <2>0, <2>1, <3>1, <1>o, Zenon DEF StableOf, Active
  <2>2. CASE ~Active(p)
    <3>1. val'[arg[p]] = val[arg[p]] /\ UNCHANGED shadow
      BY <1>4, <2>0, <2>2, <1>o, Zenon DEF DidStore, Store, TypeOK
    <3> QED
      BY <1>4, <1>m, <2>0, <2>t, <3>1, Zenon DEF DidStore, Store
  <2> QED
    BY <2>1, <2>2, ZenonT(40)
<1>5. CASE t \in Igets /\ iget(p, arg[p], t[1], t[2])
  BY <1>5, <1>m, IgetPoints, EntryPoints, ZenonT(40) DEF iget, txVars
<1>6. ASSUME NEW o \in Inode, DidUnlock(p, t, o)
      PROVE  StableOf(p)'
  <2>1. t \in DirUnlocks \/ t = <<"read_unlock", "user">>
    BY <1>6, Zenon DEF DidUnlock
  <2>2. t[2] \in HoldsFile => t[1] \in HoldsFile
    BY <2>1, <1>u, DirUnlockPoints
  <2> QED
    BY <1>6, <1>m, <2>2, Zenon DEF DidUnlock, txVars
<1>7. ASSUME NEW o \in Inode, DidPut(p, t, o)
      PROVE  StableOf(p)'
  <2>1. t[2] \in HoldsFile => t[1] \in HoldsFile /\ o = cwd
    BY <1>7, <1>u, DirPutPoints, FilePutPoints, ZenonT(40) DEF DidPut
  <2>2. t[2] \in HoldsFile => val'[arg[p]] = val[arg[p]]
    BY <1>7, <2>1, <1>o, ZenonT(40) DEF DidPut, iput, Put, DropRef, TypeOK
  <2> QED
    BY <1>7, <2>1, <2>2, <1>m, ZenonT(40) DEF DidPut, iput, txVars
<1>8. CASE t = <<"open_fd", "user">> /\ fdalloc(p, arg[p], t[1], t[2])
  BY <1>8, <1>m, <1>u, ZenonT(40) DEF fdalloc
<1>9. ASSUME NEW c \in Content, DidSet(p, t, c)
      PROVE  StableOf(p)'
  <2>1. t \in FileUnlocks /\ SetInode(p, arg[p], c, t[2])
    BY <1>9 DEF DidSet, FileUnlocks
  <2>2. pc'[p] \notin HoldsFile /\ UNCHANGED <<status, conflict>>
    BY <2>1, <1>g, FileUnlockPoints, ZenonT(40) DEF SetInode
  <2>3. Active(p) => \A x \in Obj : shadow'[p][x] = IF x = arg[p] THEN c ELSE shadow[p][x]
    BY <2>1, <1>o DEF SetInode, TypeOK
  <2> QED
    BY <2>2, <2>3, <1>o, ZenonT(40) DEF StableOf, Active
<1> QED
  BY <1>1, <1>2, <1>3, <1>4, <1>5, <1>6, <1>7, <1>8, <1>9, ZenonT(40) DEF Did

\* those of the loops,
LEMMA LoopStable ==
    ASSUME TypeOK, PhaseInv, RefInv, StableInv, NEW p \in Proc, NEW t \in LoopSteps,
           NEW o \in Obj, pc[p] = t[1], o \in rest[p], ~Active(p), LoopDid(p, t, o), Others(p),
           PhaseInv', arg[p] \notin File
    PROVE  StableInv'
<1>1. Frees(p)
  BY LoopFrees, ZenonT(40)
<1>2. arg' = arg /\ UNCHANGED status
  <2>1. CASE DidFree(p, t, o)
    BY <2>1 DEF DidFree, Goto, TypeOK
  <2>2. ASSUME NEW l, NEW m, Round(p, o, l, m) PROVE arg' = arg
    BY <2>2, ZenonT(40) DEF Round
  <2> QED
    BY <2>1, <2>2, ZenonT(40) DEF LoopDid, DidLock, DidSwap, DidRelease, DidDrop, txVars
<1>3. StableOf(p)'
  BY <1>2, OutsidePoints, ZenonT(40) DEF StableOf, Active, PhaseInv, PhaseOf
<1> QED
  BY <1>1, <1>3, StableFrame, Zenon

\* and the system calls.
LEMMA SysStable ==
    ASSUME TypeOK, PhaseInv, RefInv, StableInv, NEW p \in Proc, Syscall(p) \/ txdone(p),
           Others(p)
    PROVE  StableInv'
<1>1. UNCHANGED val /\ Frees(p)
  BY SysFrees
<1> SUFFICES StableOf(p)'
  BY <1>1, StableFrame, Zenon
<1>n. \A x \in Obj : [o \in Obj |-> None][x] # Freed
  BY Constants
<1>2. pc'[p] \notin HoldsFile
  <2>1. ASSUME NEW f, NEW l, Enter(p, l, f) PROVE pc'[p] = l
    BY <2>1 DEF Enter, TypeOK
  <2>2. CASE sys_txcommit(p) \/ sys_txabort(p)
    BY <2>2, ZenonT(40) DEF sys_txcommit, sys_txabort, Loop, HoldsFile, TypeOK
  <2>3. CASE sys_txbegin(p) \/ txdone(p)
    BY <2>3 DEF sys_txbegin, txdone, HoldsFile, TypeOK, calls
  <2> QED
    BY <2>1, <2>2, <2>3, EntryPoints, ZenonT(40)
       DEF Syscall, sys_open, sys_close, sys_read, sys_write, sys_unlink
<1>3. ASSUME Active(p)', ~conflict'[p], NEW o \in Obj PROVE shadow'[p][o] # Freed
  <2>1. CASE sys_txbegin(p) \/ txdone(p)
    BY <2>1, <1>n DEF sys_txbegin, txdone, TypeOK
  <2>2. CASE UNCHANGED <<shadow, conflict, status>>
    BY <2>2, <1>3, ZenonT(40) DEF StableInv, StableOf, Active
  <2>3. CASE sys_txcommit(p) \/ sys_txabort(p)
    BY <2>3, <1>3 DEF sys_txcommit, sys_txabort, Active, TypeOK
  <2> QED
    BY <2>1, <2>2, <2>3, Zenon DEF Syscall, sys_open, sys_close, sys_read, sys_write, sys_unlink, txVars
<1> QED
  BY <1>2, <1>3, Zenon DEF StableOf

-----------------------------------------------------------------------------
(* Writers.                                                                 *)

\* What an active transaction has a shadow of stays in the inode table.
LEMMA ShadowUsed ==
    ASSUME RefInv, NEW q \in Proc, Active(q), NEW o \in Inode, o \in Workset(q)
    PROVE  ref[o] \in Nat /\ ref[o] >= 1
<1>1. <<q, "tx">> \in Users(o)
  BY UserPairs DEF Uses, UsesTx
<1> QED
  BY <1>1, CountSome DEF RefInv

\* Whoever may take an object has it for themselves.
LEMMA Alone ==
    ASSUME WriterExclusion, NEW p \in Proc, NEW o \in Obj, Active(p), ~conflict[p],
           ~Refused(p, o), NEW q \in Proc, q # p, Active(q), ~conflict[q]
    PROVE  o \notin Workset(q)
<1>1. CASE shadow[p][o] # None
  BY <1>1 DEF WriterExclusion, Workset
<1>2. CASE writer[o] \in {None, p}
  BY <1>2, Constants, ZenonT(40) DEF WriterExclusion
<1> QED
  BY <1>1, <1>2, Zenon DEF Refused

\* A writer takes one more object.
LEMMA TakeObject ==
    ASSUME TypeOK, WriterExclusion, NEW p \in Proc, NEW o \in Obj, Others(p),
           ~conflict[p], Active(p), ~Refused(p, o),
           Workset(p)' = Workset(p) \cup {o}, writer'[o] = p,
           \A x \in Obj \ {o} : writer'[x] = writer[x],
           UNCHANGED <<status, conflict>>
    PROVE  WriterExclusion'
<1>1. ASSUME NEW q \in Proc, Active(q)', ~conflict'[q], NEW x \in Workset(q)'
      PROVE  writer'[x] = q
  <2>0. Active(q) /\ ~conflict[q] /\ x \in Obj
    BY <1>1, ZenonT(40) DEF Active, Workset
  <2>1. CASE q = p
    <3>1. x \in Workset(p) \/ x = o
      BY <1>1, <2>1, ZenonT(40)
    <3> QED
      BY <2>0, <2>1, <3>1, ZenonT(40) DEF WriterExclusion, TypeOK
  <2>2. CASE q # p
    <3>1. x \in Workset(q)
      BY <1>1, <2>2, ZenonT(40) DEF Workset, Others
    <3>2. o \notin Workset(q)
      BY <2>0, <2>2, Alone, ZenonT(40)
    <3> QED
      BY <2>0, <3>1, <3>2, Zenon DEF WriterExclusion, TypeOK
  <2> QED
    BY <2>1, <2>2, ZenonT(40)
<1> QED
  BY <1>1, ZenonT(40) DEF WriterExclusion

\* No transaction becomes active and none gets an entry.
LEMMA KeepWriters ==
    ASSUME TypeOK, WriterExclusion, UNCHANGED writer, NEW p \in Proc, Others(p),
           Active(p)' /\ ~conflict'[p] =>
               Workset(p)' = {} \/ (Active(p) /\ ~conflict[p] /\ Workset(p)' \subseteq Workset(p))
    PROVE  WriterExclusion'
<1>1. ASSUME NEW q \in Proc \ {p}
      PROVE  Workset(q)' = Workset(q) /\ (Active(q)' <=> Active(q)) /\ conflict'[q] = conflict[q]
  BY ZenonT(40) DEF Others, Workset, Active
<1> QED
  BY <1>1 DEF WriterExclusion

\* The steps of the calls keep the writers,
LEMMA StepWriters ==
    ASSUME TypeOK, TouchInv, RefInv, WriterExclusion, NEW p \in Proc, NEW t, pc[p] = t[1],
           arg[p] \in File, conflict[p] = FALSE, Did(p, t), Others(p)
    PROVE  WriterExclusion'
<1>0. arg[p] \in Inode /\ arg[p] \in Obj /\ None \notin Content /\ Buf \subseteq Obj
      /\ Inode \subseteq Obj /\ None # Freed
  BY Constants
<1>c. ~conflict[p]
  OBVIOUS
<1>m. ASSUME UNCHANGED <<status, conflict, writer, shadow>> PROVE WriterExclusion'
  BY <1>m, KeepWriters, Zenon DEF Workset, Active
<1>1. ASSUME NEW o \in Inode, DidAccess(p, t, o)
      PROVE  WriterExclusion'
  <2>1. Sees(p, o) # None /\ UNCHANGED <<status, conflict>>
    BY <1>1, <1>0, Zenon DEF DidAccess, Access
  <2>2. CASE Active(p)
    <3>1. /\ shadow' = [shadow EXCEPT ![p][o] = Sees(p, o)]
          /\ writer' = [writer EXCEPT ![o] = p] /\ o \in Obj /\ ~Refused(p, o)
      BY <1>1, <1>0, <2>2, Zenon DEF DidAccess, Access
    <3>2. Workset(p)' = Workset(p) \cup {o}
      BY <2>1, <3>1, ZenonT(40) DEF Workset, TypeOK
    <3>3. writer'[o] = p /\ \A x \in Obj \ {o} : writer'[x] = writer[x]
      BY <2>1, <3>1, Zenon DEF TypeOK
    <3> QED
      BY <1>c, <2>1, <2>2, <3>1, <3>2, <3>3, TakeObject, Zenon
  <2>3. CASE ~Active(p)
    BY <1>1, <2>3, <1>m, Zenon DEF DidAccess, Access
  <2> QED
    BY <2>2, <2>3, Zenon
<1>2. ASSUME NEW o \in Inode, DidUnwind(p, t, o)
      PROVE  WriterExclusion'
  <2>1. conflict'[p] /\ UNCHANGED writer
    BY <1>2, Zenon DEF DidUnwind, Unwind, TypeOK
  <2> QED
    BY <2>1, KeepWriters, ZenonT(40)
<1>3. ASSUME NEW b \in Buf, NEW c \in Content, DidStore(p, t, b, c)
      PROVE  WriterExclusion'
  <2>1. c # None /\ UNCHANGED <<status, conflict>> /\ b \in Obj
    BY <1>3, <1>0 DEF DidStore, Store
  <2>2. CASE Active(p)
    <3>1. /\ shadow' = [shadow EXCEPT ![p][b] = c]
          /\ writer' = [writer EXCEPT ![b] = p] /\ ~Refused(p, b)
      BY <1>3, <2>2, Zenon DEF DidStore, Store
    <3>2. Workset(p)' = Workset(p) \cup {b}
      BY <2>1, <3>1, ZenonT(40) DEF Workset, TypeOK
    <3>3. writer'[b] = p /\ \A x \in Obj \ {b} : writer'[x] = writer[x]
      BY <2>1, <3>1, ZenonT(40) DEF TypeOK
    <3> QED
      BY <1>c, <2>1, <2>2, <3>1, <3>2, <3>3, TakeObject, ZenonT(40)
  <2>3. CASE ~Active(p)
    BY <1>3, <2>1, <2>3, <1>m DEF DidStore, Store
  <2> QED
    BY <2>2, <2>3, Zenon
<1>4. CASE t \in Igets /\ iget(p, arg[p], t[1], t[2])
  <2>0. UNCHANGED <<status, conflict, shadow>>
    BY <1>4, ZenonT(40) DEF iget, txVars
  <2>1. CASE UNCHANGED writer
    BY <2>0, <2>1, <1>m, ZenonT(40)
  <2>2. CASE ref[arg[p]] = 0 /\ writer' = [writer EXCEPT ![arg[p]] = None]
    <3>1. ASSUME NEW q \in Proc, Active(q)', ~conflict'[q], NEW x \in Workset(q)'
          PROVE  writer'[x] = q
      <4>1. Active(q) /\ ~conflict[q] /\ x \in Workset(q) /\ x \in Obj
        BY <3>1, <2>0, ZenonT(40) DEF Active, Workset
      <4>2. x # arg[p]
        BY <4>1, <2>2, <1>0, ShadowUsed
      <4> QED
        BY <4>1, <4>2, <2>2, <1>0, ZenonT(40) DEF WriterExclusion, TypeOK
    <3> QED
      BY <3>1, ZenonT(40) DEF WriterExclusion
  <2> QED
    BY <1>4, <2>1, <2>2, ZenonT(40) DEF iget
<1>5. ASSUME NEW c \in Content, DidSet(p, t, c)
      PROVE  WriterExclusion'
  <2>1. t \in FileUnlocks /\ SetInode(p, arg[p], c, t[2]) /\ c # None
    BY <1>5, <1>0, Zenon DEF DidSet, FileUnlocks
  <2>2. CASE Active(p)
    <3>1. arg[p] \in Workset(p)
      BY <2>1, <2>2, FileUnlockPoints, ZenonT(40) DEF TouchInv, TouchOf
    <3>s. shadow' = [shadow EXCEPT ![p][arg[p]] = c] /\ arg[p] \in Obj
      BY <2>1, <2>2, <1>0 DEF SetInode
    <3>2. Workset(p)' = Workset(p) \cup {arg[p]}
      BY <2>1, <3>s DEF Workset, TypeOK
    <3>3. UNCHANGED <<writer, status, conflict>> /\ Workset(p)' \subseteq Workset(p)
      BY <2>1, <3>1, <3>2 DEF SetInode
    <3> QED
      BY <3>3, KeepWriters DEF Active
  <2>3. CASE ~Active(p)
    BY <2>1, <2>3, <1>m DEF SetInode
  <2> QED
    BY <2>2, <2>3, Zenon
<1>6. ASSUME NEW o \in Inode, DidUnlock(p, t, o) \/ DidPut(p, t, o)
      PROVE  WriterExclusion'
  BY <1>6, <1>m, ZenonT(40) DEF DidUnlock, DidPut, iput, txVars
<1>7. CASE idup(p, cwd, t[1], t[2]) \/ fdalloc(p, arg[p], t[1], t[2])
  BY <1>7, <1>m, ZenonT(40) DEF idup, fdalloc, txVars
<1> QED
  BY <1>1, <1>2, <1>3, <1>4, <1>5, <1>6, <1>7, ZenonT(40) DEF Did

\* and so do those of the loops and the system calls.
LEMMA OtherWriters ==
    ASSUME TypeOK, PhaseInv, WriterExclusion, NEW p \in Proc, Others(p),
           \/ Syscall(p) \/ txdone(p)
           \/ ~Active(p) /\ \E t \in LoopSteps, o \in Obj : LoopDid(p, t, o)
    PROVE  WriterExclusion'
<1>m. ASSUME UNCHANGED <<status, conflict, writer, shadow>> PROVE WriterExclusion'
  BY <1>m, KeepWriters, ZenonT(40) DEF Workset, Active
<1>1. ASSUME ~Active(p), NEW t \in LoopSteps, NEW o \in Obj, LoopDid(p, t, o)
      PROVE  WriterExclusion'
  <2>1. UNCHANGED <<status, writer>>
    BY <1>1, ZenonT(40) DEF LoopDid, DidLock, DidSwap, DidRelease, DidFree, DidDrop, txVars, objVars
  <2> QED
    BY <1>1, <2>1, KeepWriters, ZenonT(40) DEF Active
<1>2. CASE sys_txbegin(p) \/ txdone(p)
  <2>1. UNCHANGED writer /\ Workset(p)' = {}
    BY <1>2 DEF sys_txbegin, txdone, objVars, Workset, TypeOK
  <2> QED
    BY <2>1, KeepWriters, ZenonT(40)
<1>3. CASE sys_txcommit(p) \/ sys_txabort(p)
  <2>1. UNCHANGED writer /\ ~Active(p)'
    BY <1>3, ZenonT(40) DEF sys_txcommit, sys_txabort, objVars, Active, TypeOK
  <2> QED
    BY <2>1, KeepWriters, Zenon
<1> QED
  BY <1>1, <1>2, <1>3, <1>m, ZenonT(40)
     DEF Syscall, sys_open, sys_close, sys_read, sys_write, sys_unlink, txVars, objVars

-----------------------------------------------------------------------------
(* Versions.                                                                *)

\* A step that hands out, publishes and aborts no number.
LEMMA VersionQuiet ==
    ASSUME VersionInv, NEW p \in Proc, Others(p), UNCHANGED <<clock, published, aborted>>,
           version'[p] = version[p], Own(p)' => Own(p),
           Own(p)' => Shadows(p, Good \cup {version[p]})',
           pc'[p] \in CommitLoop => Shadows(p, Good)',
           pc'[p] \in Writing \cup Unlinking /\ ~Active(p)' => version[p] \in Good
    PROVE  VersionInv'
<1>0. Good' = Good
  BY ZenonT(40) DEF Good
<1>1. ASSUME NEW q \in Proc \ {p}
      PROVE  VersionOf(q)' /\ (Own(q)' <=> Own(q)) /\ version'[q] = version[q]
  <2>1. /\ version'[q] = version[q] /\ shadow'[q] = shadow[q] /\ pc'[q] = pc[q]
        /\ Active(q)' <=> Active(q)
        /\ Own(q)' <=> Own(q)
    BY ZenonT(40) DEF Others, Own, Active
  <2> QED
    BY <1>0, <2>1, ZenonT(40) DEF VersionInv, VersionOf, Shadows
<1>2. VersionOf(p)'
  <2>1. VersionOf(p)
    BY ZenonT(40) DEF VersionInv
  <2> QED
    BY <1>0, <2>1, ZenonT(40) DEF VersionOf
<1> QED
  BY <1>1, <1>2, ZenonT(40) DEF VersionInv

\* The transaction of p ends without a trace.
LEMMA VersionAborts ==
    ASSUME VersionInv, NEW p \in Proc, Others(p), Own(p), ~Own(p)',
           aborted' = aborted \cup {version[p]}, UNCHANGED <<clock, published>>,
           version'[p] = version[p], pc'[p] \notin CommitLoop, pc'[p] \notin Writing \cup Unlinking
    PROVE  VersionInv' /\ Good' = Good
<1>p. VersionOf(p) /\ version[p] \notin published /\ version[p] \in 0..clock
  BY ZenonT(40) DEF VersionInv, VersionOf
<1>0. Good' = Good
  BY <1>p, ZenonT(40) DEF Good
<1>1. ASSUME NEW q \in Proc \ {p}
      PROVE  VersionOf(q)' /\ (Own(q)' <=> Own(q)) /\ version'[q] = version[q]
  <2>1. /\ version'[q] = version[q] /\ shadow'[q] = shadow[q] /\ pc'[q] = pc[q]
        /\ Active(q)' <=> Active(q)
        /\ Own(q)' <=> Own(q)
    BY ZenonT(40) DEF Others, Own, Active
  <2>2. Own(q) => version[q] # version[p]
    BY ZenonT(40) DEF VersionInv
  <2> QED
    BY <1>0, <2>1, <2>2, ZenonT(40) DEF VersionInv, VersionOf, Shadows
<1>2. VersionOf(p)'
  BY <1>p, Zenon DEF VersionOf
<1>3. aborted' \subseteq 0..clock
  <2>1. aborted \subseteq 0..clock
    BY ZenonT(40) DEF VersionInv
  <2>2. version[p] \in 0..clock
    BY <1>p, ZenonT(40)
  <2> QED
    BY <2>1, <2>2, Zenon
<1> QED
  BY <1>0, <1>1, <1>2, <1>3, ZenonT(40) DEF VersionInv

\* The transaction of p is published.
LEMMA VersionCommits ==
    ASSUME VersionInv, NEW p \in Proc, Others(p), Own(p), ~Own(p)',
           published' = published \cup {version[p]}, UNCHANGED <<clock, aborted, shadow>>,
           version'[p] = version[p], pc'[p] \notin Writing \cup Unlinking
    PROVE  VersionInv' /\ Good \subseteq Good'
<1>p. /\ VersionOf(p) /\ version[p] \notin aborted /\ version[p] \in 0..clock
      /\ Shadows(p, Good \cup {version[p]})
  BY ZenonT(40) DEF VersionInv, VersionOf
<1>0. Good' = Good \cup {version[p]}
  BY <1>p, ZenonT(40) DEF Good
<1>1. ASSUME NEW q \in Proc \ {p}
      PROVE  VersionOf(q)' /\ (Own(q)' <=> Own(q)) /\ version'[q] = version[q]
  <2>1. /\ version'[q] = version[q] /\ pc'[q] = pc[q]
        /\ Active(q)' <=> Active(q)
        /\ Own(q)' <=> Own(q)
    BY ZenonT(40) DEF Others, Own, Active
  <2>2. Own(q) => version[q] # version[p]
    BY ZenonT(40) DEF VersionInv
  <2> QED
    BY <1>0, <2>1, <2>2, ZenonT(40) DEF VersionInv, VersionOf, Shadows
<1>2. VersionOf(p)'
  <2>1. Shadows(p, Good)'
    BY <1>0, <1>p, Zenon DEF Shadows
  <2> QED
    BY <1>p, <2>1, ZenonT(40) DEF VersionOf
<1>3. published' \subseteq 0..clock
  <2>1. published \subseteq 0..clock
    BY DEF VersionInv
  <2>2. version[p] \in 0..clock
    BY <1>p, ZenonT(40)
  <2> QED
    BY <2>1, <2>2, Zenon
<1> QED
  BY <1>0, <1>1, <1>2, <1>3, ZenonT(40) DEF VersionInv

\* p gets a number that nobody has had.
LEMMA VersionNew ==
    ASSUME TypeOK, VersionInv, NEW p \in Proc, Others(p),
           clock' = clock + 1, version'[p] = clock', UNCHANGED aborted,
           \/ /\ published' = published /\ (Own(p)' => Shadows(p, {})')
              /\ pc'[p] \notin Writing \cup Unlinking
           \/ published' = published \cup {clock'} /\ ~Own(p)',
           pc'[p] \notin CommitLoop
    PROVE  VersionInv' /\ Good \subseteq Good'
<1>c. /\ clock \in Nat /\ clock + 1 \notin published \cup aborted
      /\ 0..clock \subseteq 0..(clock + 1) /\ clock + 1 \in 0..(clock + 1)
      /\ clock + 1 \notin 0..clock
  <2>1. clock \in Nat /\ published \subseteq 0..clock /\ aborted \subseteq 0..clock
    <3>1. clock \in 0..MaxVersion /\ published \subseteq 0..clock /\ aborted \subseteq 0..clock
      BY Zenon DEF TypeOK, VersionInv
    <3> QED
      BY <3>1, TxAssumption
  <2> QED
    BY <2>1
<1>0. Good \subseteq Good' /\ Good' \subseteq Good \cup {clock + 1}
  BY <1>c, Zenon DEF Good
<1>1. ASSUME NEW q \in Proc \ {p}
      PROVE  /\ VersionOf(q)' /\ (Own(q)' <=> Own(q))
             /\ version'[q] = version[q] /\ version[q] # clock + 1
  <2>1. /\ version'[q] = version[q] /\ shadow'[q] = shadow[q] /\ pc'[q] = pc[q]
        /\ Active(q)' <=> Active(q)
        /\ Own(q)' <=> Own(q)
    BY ZenonT(40) DEF Others, Own, Active
  <2>2. VersionOf(q) /\ version[q] \in 0..clock /\ version[q] # clock + 1
    BY <1>c, ZenonT(40) DEF VersionInv, VersionOf
  <2> QED
    BY <1>0, <1>c, <2>1, <2>2, ZenonT(40) DEF VersionOf, Shadows
<1>2. VersionOf(p)'
  <2>1. Own(p)' => Shadows(p, Good \cup {version[p]})'
    BY DEF Shadows
  <2>2. Own(p)' => version'[p] \notin published' \cup aborted'
    BY <1>c
  <2>3. pc'[p] \in Writing \cup Unlinking => version'[p] \in Good'
    BY <1>c DEF Good
  <2> QED
    BY <1>c, <2>1, <2>2, <2>3, ZenonT(40) DEF VersionOf
<1>3. published' \subseteq 0..clock' /\ aborted' \subseteq 0..clock'
  <2>1. published \subseteq 0..clock /\ aborted \subseteq 0..clock
    BY ZenonT(40) DEF VersionInv
  <2>2. published \subseteq 0..(clock + 1) /\ aborted \subseteq 0..(clock + 1)
    BY <2>1, <1>c
  <2>3. published' \subseteq published \cup {clock + 1} /\ aborted' = aborted /\ clock' = clock + 1
    OBVIOUS
  <2> QED
    BY <2>2, <2>3, <1>c
<1>4. \A q, r \in Proc : Own(q)' /\ Own(r)' /\ version'[q] = version'[r] => q = r
  BY <1>1, ZenonT(40) DEF VersionInv
<1> QED
  BY <1>0, <1>1, <1>2, <1>3, <1>4, ZenonT(40) DEF VersionInv


\* What p reads is published, or its own.
LEMMA SeesGood ==
    ASSUME TypeOK, VersionInv, NoDirtyData, NEW p \in Proc, NEW o \in Obj,
           Sees(p, o) \in Content, ~conflict[p]
    PROVE  /\ Active(p) => Sees(p, o).v \in Good \cup {version[p]}
           /\ ~Active(p) => Sees(p, o).v \in Good
<1>1. CASE Active(p) /\ shadow[p][o] # None
  BY <1>1, Constants, ZenonT(40) DEF Sees, VersionInv, VersionOf, Own, Shadows
<1>2. CASE ~(Active(p) /\ shadow[p][o] # None)
  BY <1>2, Constants, ZenonT(40) DEF Sees, NoDirtyData, Good
<1> QED
  BY <1>1, <1>2, ZenonT(40)

\* The steps of the calls publish nothing,
LEMMA StepVersion ==
    ASSUME TypeOK, VersionInv, NoDirtyData, NEW p \in Proc, NEW t, pc[p] = t[1],
           arg[p] \in File, ~conflict[p], Did(p, t), Others(p)
    PROVE  VersionInv' /\ NoDirtyData'
<1> DEFINE Clean == \A x \in Obj : val'[x] # Freed => val'[x].v \in Good
           Mine == Own(p) => \A x \in Obj : shadow'[p][x] \notin {None, Freed} =>
                                shadow'[p][x].v \in Good \cup {version[p]}
<1>0. arg[p] \in Obj /\ Inode \subseteq Obj /\ Buf \subseteq Obj
      /\ None \notin Content /\ Freed \notin Content /\ None # Freed
  BY Constants, ZenonT(40)
<1>g. ASSUME NEW l, Goto(p, l) PROVE pc'[p] = l
  BY <1>g, ZenonT(40) DEF Goto, TypeOK
<1>l. \A l : l \notin Outside => l \notin CommitLoop
  BY DEF Outside
<1>u. "user" \notin CommitLoop /\ "user" \notin Writing \cup Unlinking
  BY DEF CommitLoop, Writing, Unlinking
<1>m. ASSUME NEW l, Goto(p, l), UNCHANGED <<status, conflict, clock, published, aborted, version>>,
             l \notin CommitLoop, l \in Writing \cup Unlinking => t[1] \in Writing \cup Unlinking,
             Mine, Clean
      PROVE  VersionInv' /\ NoDirtyData'
  <2>1. Good' = Good /\ (Own(p)' <=> Own(p)) /\ (Active(p)' <=> Active(p)) /\ version'[p] = version[p]
    BY <1>m, ZenonT(40) DEF Good, Own, Active
  <2>2. pc'[p] = l
    BY <1>m, <1>g, ZenonT(40)
  <2>3. Own(p)' => Shadows(p, Good \cup {version[p]})'
    BY <1>m, <2>1, ZenonT(40) DEF Shadows
  <2>4. pc'[p] \in Writing \cup Unlinking /\ ~Active(p)' => version[p] \in Good
    BY <1>m, <2>1, <2>2, ZenonT(40) DEF VersionInv, VersionOf
  <2>5. VersionInv'
    BY <1>m, <2>1, <2>2, <2>3, <2>4, VersionQuiet, ZenonT(40)
  <2>6. NoDirtyData'
    BY <1>m, <2>1, ZenonT(40) DEF NoDirtyData, Good
  <2> QED
    BY <2>5, <2>6
<1>v. UNCHANGED val => Clean
  BY DEF NoDirtyData, Good
<1>s. UNCHANGED shadow => Mine
  BY ZenonT(40) DEF VersionInv, VersionOf, Shadows
<1>d. /\ \A o \in Obj, c \in Content :
            /\ shadow' = [shadow EXCEPT ![p][o] = c]
            /\ c.v \in Good \cup {version[p]}
            => Mine
      /\ \A o \in Obj, c \in Content :
            /\ val' = [val EXCEPT ![o] = c]
            /\ c.v \in Good
            => Clean
  <2>1. ASSUME NEW o \in Obj, NEW c \in Content, shadow' = [shadow EXCEPT ![p][o] = c],
               c.v \in Good \cup {version[p]}
        PROVE  Mine
    <3>1. \A x \in Obj : shadow'[p][x] = IF x = o THEN c ELSE shadow[p][x]
      BY <2>1, ZenonT(40) DEF TypeOK
    <3> QED
      BY <2>1, <3>1 DEF VersionInv, VersionOf, Shadows
  <2>2. ASSUME NEW o \in Obj, NEW c \in Content, val' = [val EXCEPT ![o] = c], c.v \in Good
        PROVE  Clean
    <3>1. \A x \in Obj : val'[x] = IF x = o THEN c ELSE val[x]
      BY <2>2 DEF TypeOK
    <3> QED
      BY <2>2, <3>1, ZenonT(40) DEF NoDirtyData, Good
  <2> QED
    BY <2>1, <2>2, ZenonT(40)
<1>k. \A d \in Content : /\ [d EXCEPT !.v = version[p]].v = version[p]
                        /\ [d EXCEPT !.v = version[p], !.links = @ \ {arg[p]}].v = version[p]
                        /\ [d EXCEPT !.v = version[p], !.links = {}].v = version[p]
  BY DEF Content
<1>w. ASSUME ~Active(p), t[1] \in Writing \cup Unlinking PROVE version[p] \in Good
  BY <1>w, ZenonT(40) DEF VersionInv, VersionOf
<1>1. CASE t \in Idups /\ idup(p, cwd, t[1], t[2])
  <2>1. Mine /\ Clean
    BY <1>1, <1>v, <1>s, ZenonT(40) DEF idup, txVars
  <2> QED
    BY <1>1, <1>m, <1>l, <2>1, IdupPoints, ZenonT(40) DEF idup, txVars, ghostVars
<1>2. ASSUME NEW o \in Inode, DidAccess(p, t, o)
      PROVE  VersionInv' /\ NoDirtyData'
  <2>0. o \in Obj /\ Sees(p, o) \in Content /\ UNCHANGED val /\ Access(p, o, t[2])
    BY <1>2, <1>0 DEF DidAccess, Access
  <2>1. ASSUME Active(p) PROVE Mine
    <3>1. Sees(p, o).v \in Good \cup {version[p]}
      BY <2>0, <2>1, SeesGood, Zenon
    <3>2. shadow' = [shadow EXCEPT ![p][o] = Sees(p, o)]
      BY <2>0, <2>1, ZenonT(40) DEF Access
    <3> QED
      BY <2>0, <3>1, <3>2, <1>d, ZenonT(40)
  <2>2. ASSUME ~Active(p) PROVE Mine
    BY <2>0, <2>2, <1>s DEF Access
  <2>3. Mine
    BY <2>1, <2>2, ZenonT(40)
  <2>4. /\ t[2] \notin CommitLoop
        /\ t[2] \in Writing \cup Unlinking => t[1] \in Writing \cup Unlinking
    BY <1>2, <1>l, DirStepPoints, FileStepPoints, ZenonT(40) DEF DidAccess, Accessing
  <2> QED
    BY <2>0, <2>3, <2>4, <1>m, <1>v, ZenonT(40) DEF Access
<1>3. ASSUME NEW o \in Inode, DidUnwind(p, t, o)
      PROVE  VersionInv' /\ NoDirtyData'
  <2>1. /\ Own(p) /\ ~Own(p)' /\ pc'[p] = "user" /\ UNCHANGED <<clock, published, version, val>>
        /\ aborted' = aborted \cup {version[p]}
    BY <1>3, <1>g DEF DidUnwind, Unwind, Own, TypeOK
  <2>2. VersionInv' /\ Good' = Good
    BY <2>1, <1>u, VersionAborts, ZenonT(40)
  <2> QED
    BY <2>1, <2>2, ZenonT(40) DEF NoDirtyData, Good
<1>4. ASSUME NEW b \in Buf, NEW c \in Content, DidStore(p, t, b, c)
      PROVE  VersionInv' /\ NoDirtyData'
  <2>0. b \in Obj /\ Sees(p, b) \in Content /\ Store(p, b, c, t[2])
    BY <1>4, <1>0 DEF DidStore
  <2>p. /\ t[2] \notin CommitLoop
        /\ t[2] \in Writing \cup Unlinking => t[1] \in Writing \cup Unlinking
    <3>1. t \in Lookups \/ t \in DataSteps
      BY <1>4 DEF DidStore, DataSteps
    <3> QED
      BY <3>1, <1>l, LookupPoints, DataStepPoints, Zenon
  <2>c. c.v = Sees(p, b).v \/ (c.v = version[p] /\ t[1] \in Writing \cup Unlinking)
    <3>1. CASE t = <<"write_data", "write_size">> \/ t = <<"unlink_clear", "unlink_unlock">>
      <4>1. t[1] \in Writing \cup Unlinking
        BY <3>1 DEF Writing, Unlinking
      <4> QED
        BY <1>4, <2>0, <3>1, <4>1, <1>k, ZenonT(40) DEF DidStore
    <3> QED
      BY <1>4, <3>1 DEF DidStore
  <2>1. CASE Active(p)
    <3>1. c.v \in Good \cup {version[p]}
      BY <2>0, <2>1, <2>c, SeesGood, ZenonT(40)
    <3>2. shadow' = [shadow EXCEPT ![p][b] = c] /\ UNCHANGED val
      BY <2>0, <2>1 DEF Store
    <3> QED
      BY <2>0, <2>p, <3>1, <3>2, <1>d, <1>v, <1>m, ZenonT(40) DEF Store
  <2>2. CASE ~Active(p)
    <3>1. c.v \in Good
      BY <2>0, <2>2, <2>c, <1>w, SeesGood, ZenonT(40)
    <3>2. val' = [val EXCEPT ![b] = c] /\ UNCHANGED shadow
      BY <2>0, <2>2 DEF Store
    <3> QED
      BY <2>0, <2>p, <3>1, <3>2, <1>d, <1>s, <1>m, ZenonT(40) DEF Store
  <2> QED
    BY <2>1, <2>2
<1>5. CASE t \in Igets /\ iget(p, arg[p], t[1], t[2])
  <2>1. Mine /\ Clean
    BY <1>5, <1>v, <1>s, ZenonT(40) DEF iget, txVars
  <2> QED
    BY <1>5, <1>m, <1>l, <2>1, IgetPoints, EntryPoints, ZenonT(40) DEF iget, txVars, ghostVars
<1>6. ASSUME NEW o \in Inode, DidUnlock(p, t, o)
      PROVE  VersionInv' /\ NoDirtyData'
  <2>1. Mine /\ Clean
    BY <1>6, <1>v, <1>s, Zenon DEF DidUnlock, txVars
  <2> QED
    <3>1. t \in DirUnlocks \/ t = <<"read_unlock", "user">>
      BY <1>6, Zenon DEF DidUnlock
    <3>2. t[2] \notin CommitLoop /\ (t[2] \in Writing \cup Unlinking => t[1] \in Writing \cup Unlinking)
      <4>1. CASE t \in DirUnlocks
        BY <4>1, <1>l, DirUnlockPoints, Zenon
      <4>2. CASE t = <<"read_unlock", "user">>
        BY <4>2, <1>u
      <4> QED
        BY <3>1, <4>1, <4>2, Zenon
    <3> QED
      BY <1>6, <1>m, <2>1, <3>2, Zenon DEF DidUnlock, txVars
<1>7. ASSUME NEW o \in Inode, DidPut(p, t, o)
      PROVE  VersionInv' /\ NoDirtyData'
  <2>1. Mine /\ iput(p, o, t[1], t[2]) /\ o \in Obj
    BY <1>7, <1>s, <1>0, ZenonT(40) DEF DidPut, iput, txVars
  <2>2. Clean
    <3>1. \A x \in Obj : val'[x] \in {val[x], Freed}
      BY <2>1, ZenonT(40) DEF iput, Put, DropRef, TypeOK
    <3> QED
      BY <3>1, ZenonT(40) DEF NoDirtyData, Good
  <2>3. /\ t[2] \notin CommitLoop
        /\ t[2] \in Writing \cup Unlinking => t[1] \in Writing \cup Unlinking
    BY <1>7, <1>l, <1>u, DirPutPoints, FilePutPoints, ZenonT(40) DEF DidPut
  <2> QED
    BY <2>1, <2>2, <2>3, <1>m, ZenonT(40) DEF iput, txVars, ghostVars
<1>8. CASE t = <<"open_fd", "user">> /\ fdalloc(p, arg[p], t[1], t[2])
  <2>1. Mine /\ Clean
    BY <1>8, <1>v, <1>s, ZenonT(40) DEF fdalloc
  <2> QED
    BY <1>8, <1>m, <1>u, <2>1, ZenonT(40) DEF fdalloc
<1>9. ASSUME NEW c \in Content, DidSet(p, t, c)
      PROVE  VersionInv' /\ NoDirtyData'
  <2>t. t[1] \in Writing \cup Unlinking /\ t[2] \notin CommitLoop
    BY <1>9 DEF DidSet, Writing, Unlinking, CommitLoop
  <2>0. SetInode(p, arg[p], c, t[2]) /\ c.v = version[p]
    BY <1>9, <1>k, ZenonT(40) DEF DidSet
  <2>1. CASE Active(p)
    <3>1. shadow' = [shadow EXCEPT ![p][arg[p]] = c] /\ UNCHANGED val
      BY <2>0, <2>1 DEF SetInode
    <3> QED
      BY <2>t, <2>0, <3>1, <1>0, <1>d, <1>v, <1>m, Zenon DEF SetInode
  <2>2. CASE ~Active(p)
    <3>1. val' = [val EXCEPT ![arg[p]] = c] /\ UNCHANGED shadow
      BY <2>0, <2>2 DEF SetInode
    <3> QED
      BY <2>t, <2>0, <2>2, <3>1, <1>0, <1>d, <1>s, <1>w, <1>m, ZenonT(40) DEF SetInode
  <2> QED
    BY <2>1, <2>2, Zenon
<1> QED
  BY <1>1, <1>2, <1>3, <1>4, <1>5, <1>6, <1>7, <1>8, <1>9, ZenonT(40) DEF Did


\* those of the loops swap what has been published,
LEMMA LoopVersion ==
    ASSUME TypeOK, PhaseInv, VersionInv, NoDirtyData, NEW p \in Proc, NEW t \in LoopSteps,
           NEW o \in Obj, pc[p] = t[1], o \in rest[p], o \in Workset(p), ~Active(p),
           LoopDid(p, t, o), Others(p), PhaseInv', arg[p] \notin File
    PROVE  VersionInv' /\ NoDirtyData'
<1>0. /\ UNCHANGED <<status, version, clock, published, aborted>>
      /\ Good' = Good /\ ~Active(p)' /\ ~Own(p)'
  BY ZenonT(40) DEF LoopDid, DidLock, DidSwap, DidRelease, DidFree, DidDrop, txVars, ghostVars,
         Good, Active, Own
<1>1. arg' = arg
  <2>1. CASE DidFree(p, t, o)
    BY <2>1, ZenonT(40) DEF DidFree, Goto, TypeOK
  <2>2. ASSUME NEW l, NEW m, Round(p, o, l, m) PROVE arg' = arg
    BY <2>2, ZenonT(40) DEF Round
  <2> QED
    BY <2>1, <2>2, ZenonT(40) DEF LoopDid, DidLock, DidSwap, DidRelease, DidDrop
<1>2. pc'[p] \notin Writing \cup Unlinking
  BY <1>1, OutsidePoints, ZenonT(40) DEF PhaseInv, PhaseOf
<1>3. pc'[p] \in CommitLoop => Shadows(p, Good)'
  <2>1. CASE DidFree(p, t, o)
    BY <2>1 DEF DidFree, Goto, TypeOK, CommitLoop
  <2>2. CASE UNCHANGED shadow
    <3>1. pc'[p] \in CommitLoop => pc[p] \in CommitLoop
      <4>1. CASE DidFree(p, t, o)
        BY <4>1 DEF DidFree, Goto, TypeOK, CommitLoop
      <4>2. ASSUME NEW l \in {t[1], t[2]}, NEW m \in {t[2], "txdone"}, Round(p, o, l, m)
            PROVE  pc'[p] \in CommitLoop => pc[p] \in CommitLoop
        <5>1. pc'[p] \in {t[1], t[2], "txdone"}
          <6>1. pc'[p] \in {l, m}
            BY <4>2, RoundGoes
          <6> QED
            BY <4>2, <6>1, Zenon
        <5> QED
          BY <5>1, LoopStepPoints, LoopPoints, ZenonT(40)
      <4> QED
        BY <4>1, <4>2, ZenonT(40) DEF LoopDid, DidLock, DidSwap, DidRelease, DidDrop
    <3> QED
      BY <1>0, <2>2, <3>1, ZenonT(40) DEF VersionInv, VersionOf, Shadows
  <2> QED
    BY <2>1, <2>2, ZenonT(40) DEF LoopDid, DidLock, DidSwap, DidRelease, DidDrop, txVars
<1>4. VersionInv'
  BY <1>0, <1>2, <1>3, VersionQuiet, Zenon
<1>5. \A x \in Obj : val'[x] # Freed => val'[x].v \in Good
  <2>1. CASE UNCHANGED val
    BY <2>1, ZenonT(40) DEF NoDirtyData, Good
  <2>2. CASE DidSwap(p, t, o)
    <3>1. pc[p] \in CommitLoop
      BY <2>2, ZenonT(40) DEF DidSwap, CommitLoop
    <3>2. shadow[p][o].v \in Good
      BY <2>2, <3>1, ZenonT(40) DEF DidSwap, VersionInv, VersionOf, Shadows, Workset
    <3>3. \A x \in Obj : val'[x] = IF x = o THEN shadow[p][o] ELSE val[x]
      BY <2>2, ZenonT(40) DEF DidSwap, TypeOK
    <3> QED
      BY <3>2, <3>3, Zenon DEF NoDirtyData, Good
  <2>3. CASE DidDrop(p, t, o)
    <3>1. \A x \in Obj : val'[x] \in {val[x], Freed}
      BY <2>3, ZenonT(40) DEF DidDrop, Drop, Put, DropRef, TypeOK
    <3> QED
      BY <3>1 DEF NoDirtyData, Good
  <2> QED
    BY <2>1, <2>2, <2>3 DEF LoopDid, DidLock, DidRelease, DidFree, objVars
<1>6. NoDirtyData'
  BY <1>0, <1>5, ZenonT(40) DEF NoDirtyData, Good
<1> QED
  BY <1>4, <1>6, ZenonT(40)

\* and the system calls number the writers.
LEMMA SysVersion ==
    ASSUME TypeOK, PhaseInv, VersionInv, NoDirtyData, Disciplined, NEW p \in Proc,
           Syscall(p) \/ txdone(p), Others(p)
    PROVE  VersionInv' /\ NoDirtyData'
<1>v. UNCHANGED val
  BY SysFrees
<1>u. /\ "user" \notin CommitLoop /\ "user" \notin Writing \cup Unlinking
      /\ "txdone" \notin Writing \cup Unlinking
      /\ "commit_lock" \notin Writing \cup Unlinking
      /\ "abort_lock" \notin CommitLoop /\ "abort_lock" \notin Writing \cup Unlinking
      /\ "txdone" \notin CommitLoop /\ \A l : l \notin Outside => l \notin CommitLoop
  BY DEF CommitLoop, Writing, Unlinking, Outside
<1> SUFFICES VersionInv' /\ Good \subseteq Good'
  BY <1>v DEF NoDirtyData, Good
<1>q. ASSUME UNCHANGED <<clock, published, aborted, version>>, UNCHANGED <<status, conflict, shadow>>,
             pc'[p] \notin CommitLoop,
             pc'[p] \in Writing \cup Unlinking => Active(p)
      PROVE  VersionInv' /\ Good \subseteq Good'
  <2>1. Good' = Good /\ (Own(p)' <=> Own(p)) /\ (Active(p)' <=> Active(p))
    BY <1>q, ZenonT(40) DEF Good, Own, Active
  <2>2. Own(p)' => Shadows(p, Good \cup {version[p]})'
    BY <1>q, <2>1, ZenonT(40) DEF VersionInv, VersionOf, Shadows
  <2> QED
    BY <1>q, <2>1, <2>2, VersionQuiet, ZenonT(40)
<1>e. ASSUME NEW l, NEW f, Enter(p, l, f) PROVE pc'[p] = l
  BY <1>e DEF Enter, TypeOK
<1>1. ASSUME NEW f \in File, sys_open(p, f) \/ sys_read(p, f) \/ sys_close(p, f)
      PROVE  VersionInv' /\ Good \subseteq Good'
  <2>1. /\ pc'[p] \notin CommitLoop /\ pc'[p] \notin Writing \cup Unlinking
        /\ UNCHANGED <<clock, published, aborted, version>> /\ UNCHANGED <<status, conflict, shadow>>
    BY <1>1, <1>e, <1>u, EntryPoints, ZenonT(40) DEF sys_open, sys_read, sys_close, ghostVars, txVars
  <2> QED
    BY <2>1, <1>q, Zenon
<1>2. ASSUME NEW f \in File, sys_write(p, f) \/ sys_unlink(p, f)
      PROVE  VersionInv' /\ Good \subseteq Good'
  <2>0. pc'[p] \notin CommitLoop /\ NumberWrite(p) /\ UNCHANGED <<status, conflict, shadow, aborted>>
    BY <1>2, <1>e, <1>u, EntryPoints, ZenonT(40) DEF sys_write, sys_unlink, txVars
  <2>1. CASE Active(p)
    BY <2>0, <2>1, <1>q, ZenonT(40) DEF NumberWrite
  <2>2. CASE ~Active(p)
    <3>1. /\ clock' = clock + 1 /\ version'[p] = clock' /\ published' = published \cup {clock'}
          /\ ~Own(p)'
      BY <2>0, <2>2, ZenonT(40) DEF NumberWrite, TypeOK, Own, Active
    <3> QED
      BY <2>0, <3>1, VersionNew, ZenonT(40)
  <2> QED
    BY <2>1, <2>2
<1>3. CASE sys_txbegin(p)
  <2>1. /\ clock' = clock + 1 /\ version'[p] = clock' /\ published' = published /\ UNCHANGED aborted
        /\ pc'[p] = "user"
    BY <1>3, ZenonT(40) DEF sys_txbegin, TypeOK, calls
  <2>2. Shadows(p, {})'
    BY <1>3 DEF sys_txbegin, TypeOK, Shadows
  <2> QED
    BY <2>1, <2>2, <1>u, VersionNew, ZenonT(40)
<1>4. CASE sys_txcommit(p)
  <2>1. /\ Own(p) /\ ~Own(p)' /\ published' = published \cup {version[p]}
        /\ UNCHANGED <<clock, aborted, shadow, version>>
        /\ pc'[p] \in {"txdone", "commit_lock"}
    BY <1>4 DEF sys_txcommit, UserMode, Disciplined, Own, Active, TypeOK, Loop
  <2> QED
    BY <2>1, <1>u, VersionCommits, ZenonT(40)
<1>5. CASE sys_txabort(p)
  <2>1. /\ Own(p) /\ ~Own(p)' /\ aborted' = aborted \cup {version[p]}
        /\ UNCHANGED <<clock, published, shadow, version>>
        /\ pc'[p] \in {"txdone", "abort_lock"}
    BY <1>5 DEF sys_txabort, UserMode, Disciplined, Own, Active, TypeOK, Loop
  <2> QED
    BY <2>1, <1>u, VersionAborts, ZenonT(40)
<1>6. CASE txdone(p)
  <2>1. /\ ~Active(p)' /\ ~Own(p)' /\ pc'[p] = "user" /\ Good' = Good
        /\ UNCHANGED <<clock, published, aborted, version>>
    BY <1>6, Zenon DEF txdone, At, TypeOK, PhaseInv, PhaseOf, Own, Active, ghostVars, Good
  <2> QED
    BY <2>1, <1>u, VersionQuiet, ZenonT(40)
<1> QED
  BY <1>1, <1>2, <1>3, <1>4, <1>5, <1>6, ZenonT(40) DEF Syscall

-----------------------------------------------------------------------------
(* Writers exclude each other, and what they write stays theirs until they  *)
(* commit.                                                                  *)

\* The invariant holds at first,
LEMMA BInit ==
    ASSUME Init
    PROVE  BInv
<1> USE DEF Init
<1>1. TypeOK
  <2>1. 0 \in 0..MaxVersion
    BY TxAssumption
  <2>2. \A o \in Obj : [v |-> 0, links |-> IF o = DirBuf THEN File
                                          ELSE IF o \in Inode THEN {o} ELSE {}] \in Content
    BY <2>1, Constants, ZenonT(40) DEF Content
  <2>3. "user" \in Label
    BY Zenon DEF Label
  <2>4. TypeOK!1 /\ TypeOK!2 /\ TypeOK!4 /\ TypeOK!5 /\ TypeOK!6 /\ TypeOK!7 /\ TypeOK!8
    BY <2>3, Zenon
  <2>5. TypeOK!3 /\ TypeOK!9 /\ TypeOK!10 /\ TypeOK!12 /\ TypeOK!13
    BY <2>2, Zenon
  <2>6. TypeOK!11
    BY Constants
  <2>7. TypeOK!14 /\ TypeOK!15 /\ TypeOK!16 /\ TypeOK!17 /\ TypeOK!18
    BY <2>1
  <2> QED
    BY <2>4, <2>5, <2>6, <2>7, Zenon DEF TypeOK
<1>2. \A p \in Proc : pc[p] = "user" /\ Workset(p) = {} /\ ~Active(p) /\ ~conflict[p]
                      /\ arg[p] = None /\ ofile[p] = {} /\ rest[p] = {}
  BY DEF Workset, Active
<1>3. PhaseInv
  BY <1>2, LoopPoints, OutsidePoints, Constants, ZenonT(40) DEF PhaseInv, PhaseOf
<1>4. TouchInv
  BY <1>2, Zenon DEF TouchInv, TouchOf
<1>5. StableInv
  BY <1>2, LoopPoints, OutsidePoints, Zenon DEF StableInv, StableOf
<1>6. RefInv
  <2>1. ASSUME NEW o \in Inode PROVE Counts(ref[o], Users(o))
    <3>1. \A p \in Proc : \A k : ~Uses(p, k, o)
      BY <1>2, Zenon DEF Uses, UsesFile, UsesArg, UsesDir, UsesTx, GotFile, GotDir, Sweeping, Putting
    <3>2. \A u \in Users(o) : u = <<None, "cwd">> /\ o = cwd
      <4>1. ASSUME NEW u \in Users(o) PROVE u = <<None, "cwd">> /\ o = cwd
        <5>1. u = <<u[1], u[2]>> /\ u[1] \in Proc \cup {None}
          BY UserPairs, Zenon
        <5>2. u[1] = None
          BY <3>1, <5>1, UserPairs
        <5> QED
          BY <5>1, <5>2, UserPairs, ZenonT(40)
      <4> QED
        BY <4>1, Zenon
    <3>3. ref[o] \in Nat /\ (o = cwd => ref[o] >= 1)
      BY Constants, ZenonT(40)
    <3>4. CASE o = cwd
      <4> DEFINE g == [u \in Users(o) |-> 1]
      <4>0. 1 \in 1..ref[o]
        BY <3>3, <3>4
      <4>1. g \in [Users(o) -> 1..ref[o]]
        BY <4>0, Zenon
      <4>2. \A x, y \in Users(o) : x = y
        BY <3>2, Zenon
      <4> QED
        BY <3>3, <4>1, <4>2, ZenonT(40) DEF Counts
    <3>5. CASE o # cwd
      <4> DEFINE g == [u \in Users(o) |-> 1]
      <4>1. Users(o) = {}
        BY <3>2, <3>5, Zenon
      <4>2. g \in [Users(o) -> 1..ref[o]] /\ \A x, y \in Users(o) : g[x] = g[y] => x = y
        BY <4>1, Zenon
      <4> QED
        BY <3>3, <4>2, ZenonT(40) DEF Counts
    <3> QED
      BY <3>4, <3>5, Zenon
  <2> QED
    BY <2>1, ZenonT(40) DEF RefInv
<1>7. WriterExclusion
  BY <1>2, Zenon DEF WriterExclusion
<1>8. VersionInv
  <2>1. \A p \in Proc : ~Own(p) /\ version[p] \in 0..clock
    BY <1>2 DEF Own
  <2>2. \A p \in Proc : VersionOf(p)
    BY <2>1, <1>2, LoopPoints, OutsidePoints, Zenon DEF VersionOf
  <2>3. published \subseteq 0..clock /\ aborted \subseteq 0..clock
    OBVIOUS
  <2> QED
    BY <2>1, <2>2, <2>3, Zenon DEF VersionInv
<1>9. NoDirtyData
  BY DEF NoDirtyData
<1> QED
  BY <1>1, <1>3, <1>4, <1>5, <1>6, <1>7, <1>8, <1>9, ZenonT(40) DEF BInv

\* what does not change anything but the fault keeps it,
LEMMA BStill ==
    ASSUME BInv, Still, UNCHANGED mix, fault' \in {"none", "panic", "dangling"}
    PROVE  BInv'
<1> USE DEF Still, txVars, calls, objVars, ghostVars
<1>0. \A p \in Proc : /\ Workset(p)' = Workset(p) /\ (Active(p)' <=> Active(p))
                      /\ (Own(p)' <=> Own(p))
  BY ZenonT(40) DEF Workset, Active, Own
<1>1. TypeOK'
  BY DEF BInv, TypeOK
<1>2. PhaseInv' /\ TouchInv'
  BY <1>0, ZenonT(40) DEF BInv, PhaseInv, PhaseOf, TouchInv, TouchOf
<1>3. StableInv' /\ WriterExclusion'
  BY <1>0, Zenon DEF BInv, StableInv, StableOf, WriterExclusion
<1>4. RefInv'
  <2>1. ASSUME NEW o PROVE Users(o)' = Users(o)
    <3>1. ASSUME NEW p \in Proc
          PROVE  /\ UsesFile(p, o)' <=> UsesFile(p, o)
                 /\ UsesArg(p, o)' <=> UsesArg(p, o)
                 /\ UsesDir(p, o)' <=> UsesDir(p, o)
                 /\ UsesTx(p, o)' <=> UsesTx(p, o)
      <4>1. /\ UNCHANGED <<pc, arg, ofile, rest>>
            /\ Workset(p)' = Workset(p) /\ (Active(p)' <=> Active(p))
        BY <1>0, Zenon
      <4> QED
        BY <4>1, Zenon DEF UsesFile, UsesArg, UsesDir, UsesTx
    <3>2. \A p \in Proc : \A k : Uses(p, k, o)' <=> Uses(p, k, o)
      BY <3>1, Zenon DEF Uses
    <3> QED
      BY <3>2, ZenonT(40) DEF Users
  <2> QED
    BY <2>1, Zenon DEF BInv, RefInv
<1>5. VersionInv'
  <2>1. Good' = Good
    BY DEF Good
  <2> QED
    BY <1>0, <2>1, Zenon DEF BInv, VersionInv, VersionOf, Shadows
<1>6. NoDirtyData'
  BY DEF BInv, NoDirtyData
<1> QED
  BY <1>1, <1>2, <1>3, <1>4, <1>5, <1>6, Zenon DEF BInv

\* and so does every step.
LEMMA BStep ==
    ASSUME Disciplined, BInv, [Next]_vars
    PROVE  BInv'
<1>0. TypeOK /\ PhaseInv /\ TouchInv /\ StableInv /\ RefInv /\ WriterExclusion /\ VersionInv
      /\ NoDirtyData
  BY DEF BInv
<1>1. CASE UNCHANGED vars
  <2>1. Still /\ UNCHANGED mix /\ fault' \in {"none", "panic", "dangling"}
    BY <1>0, <1>1, Zenon DEF Still, vars, TypeOK
  <2> QED
    BY <2>1, BStill, Zenon
<1>2. ASSUME NEW p \in Proc, Syscall(p) \/ KernelStep(p), UNCHANGED mix
      PROVE  BInv'
  <2>1. Others(p)
    BY <1>0, <1>2, OthersStep, Zenon
  <2>2. CASE Still /\ fault' \in {"panic", "dangling"}
    BY <1>2, <2>2, BStill, Zenon
  <2>3. CASE UNCHANGED fault
    <3>1. CASE Syscall(p) \/ txdone(p)
      <4>1. TypeOK' /\ PhaseInv' /\ TouchInv'
        BY <1>0, <1>2, <2>1, <3>1, SysType, SysPhase, SysTouch, ZenonT(40)
      <4>2. RefInv' /\ StableInv' /\ WriterExclusion'
        BY <1>0, <2>1, <3>1, SysRef, SysStable, OtherWriters, ZenonT(40)
      <4>3. VersionInv' /\ NoDirtyData'
        BY <1>0, <2>1, <3>1, SysVersion, ZenonT(40)
      <4> QED
        BY <4>1, <4>2, <4>3, Zenon DEF BInv
    <3>2. CASE Stepping(p)
      <4>1. PICK t : /\ pc[p] = t[1] /\ fault = "none"
                     /\ arg[p] \in File /\ conflict[p] = FALSE
                     /\ Did(p, t)
        BY <1>0, <2>3, <3>2, Effects, ZenonT(40)
      <4>2. TypeOK' /\ TouchInv' /\ RefInv'
        BY <1>0, <1>2, <2>1, <2>3, <4>1, StepType, StepTouch, StepRef, ZenonT(40)
      <4>3. PhaseInv' /\ StableInv' /\ WriterExclusion'
        BY <1>0, <2>1, <4>1, StepPhase, StepStable, StepWriters, ZenonT(40)
      <4>4. VersionInv' /\ NoDirtyData'
        BY <1>0, <2>1, <4>1, StepVersion, ZenonT(40)
      <4> QED
        BY <4>2, <4>3, <4>4 DEF BInv
    <3>3. CASE Looping(p)
      <4>1. PICK t \in LoopSteps, o \in Obj :
              /\ pc[p] = t[1] /\ fault = "none"
              /\ o \in rest[p] /\ o \in Workset(p) /\ rest[p] \subseteq Workset(p)
              /\ \A x \in rest[p] : Addr[o] <= Addr[x]
              /\ ~Active(p) /\ conflict[p] = FALSE /\ arg[p] \notin File
              /\ LoopDid(p, t, o)
        BY <1>0, <2>3, <3>3, LoopEffects, ZenonT(40)
      <4>2. TypeOK' /\ TouchInv' /\ RefInv'
        BY <1>0, <1>2, <2>1, <2>3, <4>1, LoopType, LoopTouch, LoopRef, ZenonT(40)
      <4>3. PhaseInv'
        BY <1>0, <2>1, <4>1, LoopPhase, ZenonT(40)
      <4>4. StableInv' /\ WriterExclusion'
        BY <1>0, <2>1, <4>1, <4>3, LoopStable, OtherWriters, ZenonT(40)
      <4>5. VersionInv' /\ NoDirtyData'
        BY <1>0, <2>1, <4>1, <4>3, LoopVersion, Zenon
      <4> QED
        BY <4>2, <4>3, <4>4, <4>5, ZenonT(40) DEF BInv
    <3> QED
      BY <1>2, <3>1, <3>2, <3>3, Steps, ZenonT(40)
  <2> QED
    BY <2>1, <2>2, <2>3, Zenon DEF Others
<1> QED
  BY <1>1, <1>2 DEF Next

\* The invariant, for programs that keep to the discipline.
THEOREM BaseInvariant ==
    ASSUME Disciplined
    PROVE  Spec => []BInv
<1>1. Init => BInv
  BY BInit
<1>2. BInv /\ [Next]_vars => BInv'
  BY BStep
<1> QED
  BY <1>1, <1>2, PTL DEF Spec

\* No object is in the worksets of two active transactions: txshadow hands out a
\* shadow only under the writer field, and iget clears that field only for an
\* inode nobody has a reference to.
THEOREM WritersExcluded ==
    ASSUME Disciplined
    PROVE  Spec => []WriterExclusion
<1>1. BInv => WriterExclusion
  BY DEF BInv
<1> QED
  BY <1>1, BaseInvariant, PTL

\* The stable contents are those of committed transactions and plain writes:
\* writes go to the shadows, which only the swap of txcommit makes stable.
THEOREM OnlyCommittedData ==
    ASSUME Disciplined
    PROVE  Spec => []NoDirtyData
<1>1. BInv => NoDirtyData
  BY DEF BInv
<1> QED
  BY <1>1, BaseInvariant, PTL
=============================================================================
