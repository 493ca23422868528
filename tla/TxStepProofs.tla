---------------------------- MODULE TxStepProofs ----------------------------
(***************************************************************************)
(* The steps of Tx: what each does, and that every step keeps the types,   *)
(* the phase a call is in, and the objects a transaction has touched.      *)
(***************************************************************************)
EXTENDS Tx, TLAPS

\* Programs hold no file open across txbegin or txcommit, and answer a
\* conflict with txbegin.
Disciplined == RetryOnly /\ OpenInside

-----------------------------------------------------------------------------
(* What the points of a call say.                                           *)

\* The loops of txcommit and txabort.
CommitLoop == {"commit_lock", "commit_swap", "commit_unlock", "commit_put"}
AbortLoop == {"abort_lock", "abort_unlock", "abort_free", "abort_put"}
Locking == {"commit_lock", "abort_lock"}
Unlocking == {"commit_unlock", "abort_unlock"}
Putting == {"commit_put", "abort_free", "abort_put"}
Sweeping == {"commit_lock", "commit_swap", "commit_unlock", "abort_lock", "abort_unlock"}

\* Between calls, or at their ends.
Outside == CommitLoop \cup AbortLoop \cup {"user", "txdone"}

\* The call has a reference to the directory from idup, to the file from iget.
GotDir == {"open_dir", "open_look", "open_iget", "open_unlock", "open_put",
           "miss_unlock", "miss_put", "unlink_parent", "unlink_found", "unlink_dir",
           "unlink_look", "unlink_iget", "unlink_file", "unlink_clear",
           "unlink_unlock", "unlink_put"}
GotFile == {"open_unlock", "open_put", "open_file", "open_fd", "close", "unlink_file",
            "unlink_clear", "unlink_unlock", "unlink_put", "unlink_drop", "unlink_done"}

\* The call has the directory, or the file, locked.
HoldsDir == {"open_look", "open_iget", "open_unlock", "miss_unlock", "unlink_found",
             "unlink_look", "unlink_iget", "unlink_file", "unlink_clear", "unlink_unlock"}
HoldsFile == {"open_fd", "read_data", "read_unlock", "write_data", "write_size",
              "unlink_clear", "unlink_unlock", "unlink_put", "unlink_drop"}

\* read and write work on a file that is open.
OnFile == {"read", "read_data", "read_unlock", "write", "write_data", "write_size"}

\* Inside a transaction the call has been through idata of the directory, bdata
\* of its buffer, or idata of the file.
Looking == {"open_look", "unlink_found", "unlink_dir", "unlink_look"}
SawBuf == {"open_iget", "open_unlock", "open_put", "open_file", "open_fd",
           "miss_unlock", "miss_put", "unlink_iget", "unlink_file", "unlink_clear",
           "unlink_unlock", "unlink_put", "unlink_drop", "unlink_done"}
SawFile == HoldsFile \cup {"unlink_done", "close", "read", "write"}

\* The call writes under version[p].
Writing == {"write", "write_data", "write_size"}
Unlinking == {"unlink", "unlink_parent", "unlink_found", "unlink_dir", "unlink_look",
              "unlink_iget", "unlink_file", "unlink_clear", "unlink_unlock",
              "unlink_put", "unlink_drop", "unlink_done"}

-----------------------------------------------------------------------------
(* The steps of the calls, by operation: from which point to which.         *)

Idups == {<<"open", "open_dir">>, <<"unlink", "unlink_parent">>}
DirSteps == {<<"open_dir", "open_look">>, <<"unlink_parent", "unlink_found">>,
             <<"unlink_dir", "unlink_look">>}
FileSteps == {<<"open_file", "open_fd">>, <<"read", "read_data">>,
              <<"write", "write_data">>, <<"unlink_file", "unlink_clear">>}
Lookups == {<<"open_look", "open_iget">>, <<"unlink_look", "unlink_iget">>}
Igets == {<<"open_iget", "open_unlock">>, <<"unlink_iget", "unlink_file">>}
DirUnlocks == {<<"open_unlock", "open_put">>, <<"miss_unlock", "miss_put">>,
               <<"unlink_found", "unlink_dir">>, <<"unlink_unlock", "unlink_put">>}
DirPuts == {<<"open_put", "open_file">>, <<"unlink_put", "unlink_drop">>,
            <<"miss_put", "user">>}
FilePuts == {<<"unlink_done", "user">>, <<"close", "user">>}
DataSteps == {<<"read_data", "read_unlock">>, <<"write_data", "write_size">>,
              <<"unlink_clear", "unlink_unlock">>}
FileUnlocks == {<<"read_unlock", "user">>, <<"open_fd", "user">>, <<"write_size", "user">>,
                <<"unlink_drop", "unlink_done">>}
LockLoops == {<<"commit_lock", "commit_swap">>, <<"abort_lock", "abort_unlock">>}
UnlockLoops == {<<"commit_unlock", "commit_put">>, <<"abort_unlock", "abort_free">>}
PutLoops == {<<"commit_put", "commit_put">>, <<"abort_put", "abort_free">>}

\* What the next kernel step of p is.
Stepping(p) ==
    \/ \E t \in Idups : idup(p, cwd, t[1], t[2])
    \/ \E t \in DirSteps : idata(p, cwd, t[1], t[2])
    \/ \E t \in FileSteps : idata(p, arg[p], t[1], t[2])
    \/ \E t \in Lookups : readi(p, DirBuf, t[1], t[2])
    \/ readi(p, DataBuf[arg[p]], "read_data", "read_unlock")
    \/ writei(p, DataBuf[arg[p]], "write_data", "write_size")
    \/ clear_entry(p, arg[p], "unlink_clear", "unlink_unlock")
    \/ \E t \in Igets : iget(p, arg[p], t[1], t[2])
    \/ \E t \in DirUnlocks : iunlock(p, cwd, t[1], t[2])
    \/ iunlock(p, arg[p], "read_unlock", "user")
    \/ \E t \in DirPuts : iput(p, cwd, t[1], t[2])
    \/ \E t \in FilePuts : iput(p, arg[p], t[1], t[2])
    \/ fdalloc(p, arg[p], "open_fd", "user")
    \/ set_size(p, arg[p], "write_size", "user")
    \/ drop_link(p, arg[p], "unlink_drop", "unlink_done")

Looping(p) == \E o \in Obj :
    \/ \E t \in LockLoops : lock_fn(p, o, t[1], t[2])
    \/ swap_data(p, o, "commit_swap", "commit_unlock")
    \/ \E t \in UnlockLoops : unlock_fn(p, o, t[1], t[2])
    \/ abort_fn(p, o, "abort_free", "abort_put")
    \/ \E t \in PutLoops : commit_fn(p, o, t[1], t[2], "txdone")

-----------------------------------------------------------------------------
(* The inductive invariant.                                                 *)

\* The status, the loop and the file that go with a point.
PhaseOf(p) ==
    /\ pc[p] \in CommitLoop => status[p] = "COMMITTED"
    /\ pc[p] \in AbortLoop => status[p] = "ABORTED"
    /\ pc[p] = "txdone" => ~Active(p)
    /\ pc[p] \in CommitLoop \cup AbortLoop => rest[p] # {} /\ rest[p] \subseteq Workset(p)
    /\ arg[p] \in File <=> pc[p] \notin Outside
    /\ conflict[p] => pc[p] = "user" /\ Active(p)
    /\ pc[p] \in OnFile => arg[p] \in ofile[p]

PhaseInv == \A p \in Proc : PhaseOf(p)

\* What is in the workset of a transaction at a point.
TouchOf(p) ==
    /\ Workset(p) # {} => cwd \in Workset(p)
    /\ \/ DirBuf \in Workset(p) \/ Workset(p) = {}
       \/ Active(p) /\ pc[p] \in Looking /\ Workset(p) = {cwd}
    /\ Active(p) /\ pc[p] \in Looking => cwd \in Workset(p)
    /\ Active(p) /\ pc[p] \in SawBuf => DirBuf \in Workset(p)
    /\ Active(p) /\ pc[p] \in SawFile => arg[p] \in Workset(p)
    /\ Active(p) => ofile[p] \subseteq Workset(p)

TouchInv == \A p \in Proc : TouchOf(p)

\* What a call may reach is not freed under it.
StableOf(p) ==
    /\ Active(p) /\ ~conflict[p] => \A o \in Obj : shadow[p][o] # Freed
    /\ ~Active(p) /\ pc[p] \in HoldsFile => val[arg[p]] # Freed

StableInv == \A p \in Proc : StableOf(p)

\* Who may still use an inode: the files that plain programs have open, the
\* calls in progress, the transactions; and the process that works in cwd.
UsesFile(p, o) == ~Active(p) /\ o \in ofile[p]
UsesArg(p, o) == ~Active(p) /\ pc[p] \in GotFile /\ o = arg[p]
UsesDir(p, o) == ~Active(p) /\ pc[p] \in GotDir /\ o = cwd
UsesTx(p, o) ==
    \/ Active(p) /\ o \in Workset(p)
    \/ Active(p) /\ pc[p] \in GotFile /\ o = arg[p]
    \/ Active(p) /\ pc[p] \in GotDir /\ o = cwd
    \/ pc[p] \in Sweeping /\ o \in Workset(p)
    \/ pc[p] \in Putting /\ o \in rest[p]

Uses(p, k, o) ==
    \/ k = "file" /\ UsesFile(p, o)
    \/ k = "arg" /\ UsesArg(p, o)
    \/ k = "dir" /\ UsesDir(p, o)
    \/ k = "tx" /\ UsesTx(p, o)

Users(o) ==
    {u \in (Proc \cup {None}) \X {"file", "arg", "dir", "tx", "cwd"} :
        \/ u[1] = None /\ u[2] = "cwd" /\ o = cwd
        \/ u[1] \in Proc /\ Uses(u[1], u[2], o)}

\* n is at least the number of elements of S.
Counts(n, S) ==
    n \in Nat /\ \E g \in [S -> 1..n] : \A x, y \in S : g[x] = g[y] => x = y

RefInv == \A o \in Inode : Counts(ref[o], Users(o))

\* The versions others may see; a transaction that goes on; what it has written.
Good == published \ aborted
Own(p) == Active(p) /\ ~conflict[p]
Shadows(p, S) ==
    \A o \in Obj : shadow[p][o] \notin {None, Freed} => shadow[p][o].v \in S

VersionOf(p) ==
    /\ version[p] \in 0..clock
    /\ Own(p) => /\ version[p] \notin published \cup aborted
                 /\ Shadows(p, Good \cup {version[p]})
    /\ pc[p] \in CommitLoop => Shadows(p, Good)
    /\ pc[p] \in Writing \cup Unlinking /\ ~Active(p) => version[p] \in Good

VersionInv ==
    /\ published \subseteq 0..clock /\ aborted \subseteq 0..clock
    /\ \A p \in Proc : VersionOf(p)
    /\ \A p, q \in Proc : Own(p) /\ Own(q) /\ version[p] = version[q] => p = q

\* The part that needs no bound on the worksets.
BInv == /\ TypeOK /\ PhaseInv /\ TouchInv /\ StableInv /\ RefInv
        /\ WriterExclusion /\ VersionInv /\ NoDirtyData

-----------------------------------------------------------------------------
(* The constants and the points of the calls.                               *)

\* What the assumption on the constants says in the form used below.
LEMMA Constants ==
    /\ cwd \in Inode /\ cwd \in Obj /\ cwd \notin File
    /\ DirBuf \in Buf /\ DirBuf \in Obj /\ DirBuf \notin Inode
    /\ File \subseteq Inode /\ Inode \subseteq Obj /\ Buf \subseteq Obj
    /\ None \notin Proc /\ None \notin Obj /\ None \notin Content
    /\ Freed \notin Content /\ None # Freed
    /\ \A i \in Inode : DataBuf[i] \in Buf /\ DataBuf[i] \notin Inode
    /\ RetryOnly \in BOOLEAN /\ OpenInside \in BOOLEAN
    /\ Cardinality(Proc) \in Nat /\ Cardinality(Proc) >= 1
BY TxAssumption DEF Obj, File, DirBuf

\* The steps of the calls are those listed by operation.
LEMMA Steps ==
    ASSUME NEW p \in Proc, KernelStep(p)
    PROVE  Stepping(p) \/ Looping(p) \/ txdone(p)
<1>1. CASE Open(p)
  <2> USE DEF Stepping
  <2>1. CASE idup(p, cwd, "open", "open_dir")
    BY <2>1 DEF Idups
  <2>2. CASE idata(p, cwd, "open_dir", "open_look")
    BY <2>2 DEF DirSteps
  <2>3. CASE readi(p, DirBuf, "open_look", "open_iget")
    BY <2>3 DEF Lookups
  <2>4. CASE iget(p, arg[p], "open_iget", "open_unlock")
    BY <2>4 DEF Igets
  <2>5. CASE iunlock(p, cwd, "open_unlock", "open_put")
    BY <2>5 DEF DirUnlocks
  <2>6. CASE iput(p, cwd, "open_put", "open_file")
    BY <2>6 DEF DirPuts
  <2>7. CASE idata(p, arg[p], "open_file", "open_fd")
    BY <2>7 DEF FileSteps
  <2> QED
    BY <1>1, <2>1, <2>2, <2>3, <2>4, <2>5, <2>6, <2>7, ZenonT(40) DEF Open
<1>2. CASE Miss(p)
  BY <1>2 DEF Miss, Stepping, DirUnlocks, DirPuts
<1>3. CASE Read(p)
  BY <1>3 DEF Read, Stepping, FileSteps
<1>4. CASE Write(p)
  BY <1>4 DEF Write, Stepping, FileSteps
<1>5. CASE Close(p)
  BY <1>5 DEF Close, Stepping, FilePuts
<1>6. CASE Unlink(p)
  <2> USE DEF Stepping
  <2>1. CASE idup(p, cwd, "unlink", "unlink_parent")
    BY <2>1 DEF Idups
  <2>2. CASE idata(p, cwd, "unlink_parent", "unlink_found")
    BY <2>2 DEF DirSteps
  <2>3. CASE iunlock(p, cwd, "unlink_found", "unlink_dir")
    BY <2>3 DEF DirUnlocks
  <2>4. CASE idata(p, cwd, "unlink_dir", "unlink_look")
    BY <2>4 DEF DirSteps
  <2>5. CASE readi(p, DirBuf, "unlink_look", "unlink_iget")
    BY <2>5 DEF Lookups
  <2>6. CASE iget(p, arg[p], "unlink_iget", "unlink_file")
    BY <2>6 DEF Igets
  <2>7. CASE idata(p, arg[p], "unlink_file", "unlink_clear")
    BY <2>7 DEF FileSteps
  <2>8. CASE iunlock(p, cwd, "unlink_unlock", "unlink_put")
    BY <2>8 DEF DirUnlocks
  <2>9. CASE iput(p, cwd, "unlink_put", "unlink_drop")
    BY <2>9 DEF DirPuts
  <2>10. CASE iput(p, arg[p], "unlink_done", "user")
    BY <2>10 DEF FilePuts
  <2> QED
    BY <1>6, <2>1, <2>2, <2>3, <2>4, <2>5, <2>6, <2>7, <2>8, <2>9, <2>10, Zenon DEF Unlink
<1>7. CASE Commit(p)
  BY <1>7 DEF Commit, Looping, LockLoops, UnlockLoops, PutLoops
<1>8. CASE Abort(p)
  BY <1>8 DEF Abort, Looping, LockLoops, UnlockLoops, PutLoops
<1> QED
  BY <1>1, <1>2, <1>3, <1>4, <1>5, <1>6, <1>7, <1>8 DEF KernelStep

\* idup gets a reference to the directory.
LEMMA IdupPoints ==
    ASSUME NEW t \in Idups
    PROVE  /\ t[1] \in Label /\ t[2] \in Label /\ t[1] \notin Outside
           /\ t[2] \notin Outside /\ t[1] \notin GotDir /\ t[2] \in GotDir
           /\ t[1] \notin GotFile /\ t[2] \notin GotFile /\ t[1] \notin HoldsDir
           /\ t[2] \notin HoldsDir /\ t[1] \notin HoldsFile /\ t[2] \notin HoldsFile
           /\ t[1] \notin OnFile /\ t[2] \notin OnFile /\ t[1] \notin Looking
           /\ t[2] \notin Looking /\ t[1] \notin SawBuf /\ t[2] \notin SawBuf
           /\ t[1] \notin SawFile /\ t[2] \notin SawFile /\ t[1] \notin Writing
           /\ t[2] \notin Writing /\ (t[1] \in Unlinking <=> t[2] \in Unlinking)
<1> USE DEF Idups
<1>1. t[1] \in Label /\ t[2] \in Label
  BY DEF Label
<1> QED
  BY <1>1 DEF Outside, CommitLoop, AbortLoop, GotDir, GotFile, HoldsDir, HoldsFile,
              OnFile, Looking, SawBuf, SawFile, Writing, Unlinking

\* idata locks the directory, and notes it in the workset.
LEMMA DirStepPoints ==
    ASSUME NEW t \in DirSteps
    PROVE  /\ t[1] \in Label /\ t[2] \in Label /\ t[1] \notin Outside
           /\ t[2] \notin Outside /\ t[1] \in GotDir /\ t[2] \in GotDir
           /\ t[1] \notin GotFile /\ t[2] \notin GotFile /\ t[1] \notin HoldsDir
           /\ t[2] \in HoldsDir /\ t[1] \notin HoldsFile /\ t[2] \notin HoldsFile
           /\ t[1] \notin OnFile /\ t[2] \notin OnFile /\ t[2] \in Looking
           /\ t[1] \notin SawBuf /\ t[2] \notin SawBuf /\ t[1] \notin SawFile
           /\ t[2] \notin SawFile /\ t[1] \notin Writing /\ t[2] \notin Writing
           /\ (t[1] \in Unlinking <=> t[2] \in Unlinking)
<1> USE DEF DirSteps
<1>1. t[1] \in Label /\ t[2] \in Label
  BY DEF Label
<1> QED
  BY <1>1 DEF Outside, CommitLoop, AbortLoop, GotDir, GotFile, HoldsDir, HoldsFile,
              OnFile, Looking, SawBuf, SawFile, Writing, Unlinking

\* idata locks the file, and notes it in the workset.
LEMMA FileStepPoints ==
    ASSUME NEW t \in FileSteps
    PROVE  /\ t[1] \in Label /\ t[2] \in Label /\ t[1] \notin Outside
           /\ t[2] \notin Outside /\ (t[1] \in GotDir <=> t[2] \in GotDir)
           /\ (t[1] \in GotFile <=> t[2] \in GotFile)
           /\ (t[1] \in HoldsDir <=> t[2] \in HoldsDir) /\ t[1] \notin HoldsFile
           /\ t[2] \in HoldsFile /\ (t[1] \in OnFile <=> t[2] \in OnFile)
           /\ t[1] \notin Looking /\ t[2] \notin Looking
           /\ (t[1] \in SawBuf <=> t[2] \in SawBuf) /\ t[2] \in SawFile
           /\ (t[1] \in Writing <=> t[2] \in Writing)
           /\ (t[1] \in Unlinking <=> t[2] \in Unlinking)
           /\ t[1] \in GotFile \cup OnFile /\ (t[1] \notin OnFile => t[1] \in SawBuf)
<1> USE DEF FileSteps
<1>1. t[1] \in Label /\ t[2] \in Label
  BY DEF Label
<1> QED
  BY <1>1 DEF Outside, CommitLoop, AbortLoop, GotDir, GotFile, HoldsDir, HoldsFile,
              OnFile, Looking, SawBuf, SawFile, Writing, Unlinking

\* The directory is read while it is locked.
LEMMA LookupPoints ==
    ASSUME NEW t \in Lookups
    PROVE  /\ t[1] \in Label /\ t[2] \in Label /\ t[1] \notin Outside
           /\ t[2] \notin Outside /\ t[1] \in GotDir /\ t[2] \in GotDir
           /\ t[1] \notin GotFile /\ t[2] \notin GotFile /\ t[1] \in HoldsDir
           /\ t[2] \in HoldsDir /\ t[1] \notin HoldsFile /\ t[2] \notin HoldsFile
           /\ t[1] \notin OnFile /\ t[2] \notin OnFile /\ t[1] \in Looking
           /\ t[2] \notin Looking /\ t[1] \notin SawBuf /\ t[2] \in SawBuf
           /\ t[1] \notin SawFile /\ t[2] \notin SawFile /\ t[1] \notin Writing
           /\ t[2] \notin Writing /\ (t[1] \in Unlinking <=> t[2] \in Unlinking)
<1> USE DEF Lookups
<1>1. t[1] \in Label /\ t[2] \in Label
  BY DEF Label
<1> QED
  BY <1>1 DEF Outside, CommitLoop, AbortLoop, GotDir, GotFile, HoldsDir, HoldsFile,
              OnFile, Looking, SawBuf, SawFile, Writing, Unlinking

\* iget gets a reference to the file, while the directory is locked.
LEMMA IgetPoints ==
    ASSUME NEW t \in Igets
    PROVE  /\ t[1] \in Label /\ t[2] \in Label /\ t[1] \notin Outside
           /\ t[2] \notin Outside /\ t[1] \in GotDir /\ t[2] \in GotDir
           /\ t[1] \notin GotFile /\ t[2] \in GotFile /\ t[1] \in HoldsDir
           /\ t[2] \in HoldsDir /\ t[1] \notin HoldsFile /\ t[2] \notin HoldsFile
           /\ t[1] \notin OnFile /\ t[2] \notin OnFile /\ t[1] \notin Looking
           /\ t[2] \notin Looking /\ t[1] \in SawBuf /\ t[2] \in SawBuf
           /\ t[1] \notin SawFile /\ t[2] \notin SawFile /\ t[1] \notin Writing
           /\ t[2] \notin Writing /\ (t[1] \in Unlinking <=> t[2] \in Unlinking)
<1> USE DEF Igets
<1>1. t[1] \in Label /\ t[2] \in Label
  BY DEF Label
<1> QED
  BY <1>1 DEF Outside, CommitLoop, AbortLoop, GotDir, GotFile, HoldsDir, HoldsFile,
              OnFile, Looking, SawBuf, SawFile, Writing, Unlinking

\* iunlock of the directory gives up nothing but the lock.
LEMMA DirUnlockPoints ==
    ASSUME NEW t \in DirUnlocks
    PROVE  /\ t[1] \in Label /\ t[2] \in Label /\ t[1] \notin Outside
           /\ t[2] \notin Outside /\ t[1] \in GotDir /\ t[2] \in GotDir
           /\ (t[1] \in GotFile <=> t[2] \in GotFile) /\ t[1] \in HoldsDir
           /\ t[2] \notin HoldsDir /\ (t[1] \in HoldsFile <=> t[2] \in HoldsFile)
           /\ t[1] \notin OnFile /\ t[2] \notin OnFile
           /\ (t[1] \in Looking <=> t[2] \in Looking)
           /\ (t[1] \in SawBuf <=> t[2] \in SawBuf)
           /\ (t[1] \in SawFile <=> t[2] \in SawFile) /\ t[1] \notin Writing
           /\ t[2] \notin Writing /\ (t[1] \in Unlinking <=> t[2] \in Unlinking)
<1> USE DEF DirUnlocks
<1>1. t[1] \in Label /\ t[2] \in Label
  BY DEF Label
<1> QED
  BY <1>1 DEF Outside, CommitLoop, AbortLoop, GotDir, GotFile, HoldsDir, HoldsFile,
              OnFile, Looking, SawBuf, SawFile, Writing, Unlinking

\* iput of the directory comes after iunlock.
LEMMA DirPutPoints ==
    ASSUME NEW t \in DirPuts
    PROVE  /\ t[1] \in Label /\ t[2] \in Label /\ t[1] \notin Outside /\ t[1] \in GotDir
           /\ t[2] \notin GotDir /\ (t[1] \in GotFile <=> t[2] \in GotFile)
           /\ t[1] \notin HoldsDir /\ t[2] \notin HoldsDir
           /\ (t[1] \in HoldsFile <=> t[2] \in HoldsFile) /\ t[1] \notin OnFile
           /\ t[2] \notin OnFile /\ t[1] \notin Looking /\ t[2] \notin Looking
           /\ t[1] \in SawBuf /\ (t[1] \in SawFile <=> t[2] \in SawFile)
           /\ t[1] \notin Writing /\ t[2] \notin Writing
           /\ (t[1] \in Unlinking <=> t[2] \in Unlinking)
           /\ (t[2] \in Outside => t[1] \notin GotFile /\ t[2] = "user")
<1> USE DEF DirPuts
<1>1. t[1] \in Label /\ t[2] \in Label
  BY DEF Label
<1> QED
  BY <1>1 DEF Outside, CommitLoop, AbortLoop, GotDir, GotFile, HoldsDir, HoldsFile,
              OnFile, Looking, SawBuf, SawFile, Writing, Unlinking

\* iput of the file is the last step of a call.
LEMMA FilePutPoints ==
    ASSUME NEW t \in FilePuts
    PROVE  /\ t[1] \in Label /\ t[2] \in Label /\ t[1] \notin Outside
           /\ t[2] \in Outside /\ t[1] \notin GotDir /\ t[2] \notin GotDir
           /\ t[1] \in GotFile /\ t[2] \notin GotFile /\ t[1] \notin HoldsDir
           /\ t[2] \notin HoldsDir /\ t[1] \notin HoldsFile /\ t[2] \notin HoldsFile
           /\ t[1] \notin OnFile /\ t[2] \notin OnFile /\ t[1] \notin Looking
           /\ t[2] \notin Looking /\ t[2] \notin SawBuf /\ t[1] \in SawFile
           /\ t[2] \notin SawFile /\ t[1] \notin Writing /\ t[2] \notin Writing
           /\ t[2] \notin Unlinking /\ t[2] = "user"
<1> USE DEF FilePuts
<1>1. t[1] \in Label /\ t[2] \in Label
  BY DEF Label
<1> QED
  BY <1>1 DEF Outside, CommitLoop, AbortLoop, GotDir, GotFile, HoldsDir, HoldsFile,
              OnFile, Looking, SawBuf, SawFile, Writing, Unlinking

\* The blocks of a file are used while it is locked.
LEMMA DataStepPoints ==
    ASSUME NEW t \in DataSteps
    PROVE  /\ t[1] \in Label /\ t[2] \in Label /\ t[1] \notin Outside
           /\ t[2] \notin Outside /\ (t[1] \in GotDir <=> t[2] \in GotDir)
           /\ (t[1] \in GotFile <=> t[2] \in GotFile)
           /\ (t[1] \in HoldsDir <=> t[2] \in HoldsDir) /\ t[1] \in HoldsFile
           /\ t[2] \in HoldsFile /\ (t[1] \in OnFile <=> t[2] \in OnFile)
           /\ t[1] \notin Looking /\ t[2] \notin Looking
           /\ (t[1] \in SawBuf <=> t[2] \in SawBuf) /\ t[1] \in SawFile
           /\ t[2] \in SawFile /\ (t[1] \in Writing <=> t[2] \in Writing)
           /\ (t[1] \in Unlinking <=> t[2] \in Unlinking)
<1> USE DEF DataSteps
<1>1. t[1] \in Label /\ t[2] \in Label
  BY DEF Label
<1> QED
  BY <1>1 DEF Outside, CommitLoop, AbortLoop, GotDir, GotFile, HoldsDir, HoldsFile,
              OnFile, Looking, SawBuf, SawFile, Writing, Unlinking

\* iunlock of the file.
LEMMA FileUnlockPoints ==
    ASSUME NEW t \in FileUnlocks
    PROVE  /\ t[1] \in Label /\ t[2] \in Label /\ t[1] \notin Outside
           /\ t[1] \notin GotDir /\ t[2] \notin GotDir
           /\ (t[2] \in GotFile => t[1] \in GotFile) /\ t[1] \notin HoldsDir
           /\ t[2] \notin HoldsDir /\ t[1] \in HoldsFile /\ t[2] \notin HoldsFile
           /\ t[2] \notin OnFile /\ t[1] \notin Looking /\ t[2] \notin Looking
           /\ (t[2] \in SawBuf => t[1] \in SawBuf) /\ t[1] \in SawFile
           /\ t[2] \notin Writing /\ (t[1] \in Unlinking <=> t[2] \in Unlinking)
<1> USE DEF FileUnlocks
<1>1. t[1] \in Label /\ t[2] \in Label
  BY DEF Label
<1> QED
  BY <1>1 DEF Outside, CommitLoop, AbortLoop, GotDir, GotFile, HoldsDir, HoldsFile,
              OnFile, Looking, SawBuf, SawFile, Writing, Unlinking

\* The first points of the calls, and the way out of a lookup that fails.
LEMMA EntryPoints ==
    /\ "miss_unlock" \in Label \ Outside /\ "miss_unlock" \in GotDir
    /\ "miss_unlock" \notin GotFile /\ "miss_unlock" \in HoldsDir
    /\ "miss_unlock" \notin HoldsFile /\ "miss_unlock" \notin OnFile
    /\ "miss_unlock" \notin Looking /\ "miss_unlock" \in SawBuf
    /\ "miss_unlock" \notin SawFile /\ "miss_unlock" \notin Writing
    /\ "miss_unlock" \notin Unlinking
    /\ "open" \in Label \ Outside /\ "open" \notin GotDir /\ "open" \notin GotFile
    /\ "open" \notin HoldsDir /\ "open" \notin HoldsFile /\ "open" \notin OnFile
    /\ "open" \notin Looking /\ "open" \notin SawBuf /\ "open" \notin SawFile
    /\ "open" \notin Writing /\ "open" \notin Unlinking
    /\ "unlink" \in Label \ Outside /\ "unlink" \notin GotDir
    /\ "unlink" \notin GotFile /\ "unlink" \notin HoldsDir
    /\ "unlink" \notin HoldsFile /\ "unlink" \notin OnFile /\ "unlink" \notin Looking
    /\ "unlink" \notin SawBuf /\ "unlink" \notin SawFile /\ "unlink" \notin Writing
    /\ "unlink" \in Unlinking
    /\ "read" \in Label \ Outside /\ "read" \notin GotDir /\ "read" \notin GotFile
    /\ "read" \notin HoldsDir /\ "read" \notin HoldsFile /\ "read" \in OnFile
    /\ "read" \notin Looking /\ "read" \notin SawBuf /\ "read" \in SawFile
    /\ "read" \notin Writing /\ "read" \notin Unlinking
    /\ "write" \in Label \ Outside /\ "write" \notin GotDir /\ "write" \notin GotFile
    /\ "write" \notin HoldsDir /\ "write" \notin HoldsFile /\ "write" \in OnFile
    /\ "write" \notin Looking /\ "write" \notin SawBuf /\ "write" \in SawFile
    /\ "write" \in Writing /\ "write" \notin Unlinking
    /\ "close" \in Label \ Outside /\ "close" \notin GotDir /\ "close" \in GotFile
    /\ "close" \notin HoldsDir /\ "close" \notin HoldsFile /\ "close" \notin OnFile
    /\ "close" \notin Looking /\ "close" \notin SawBuf /\ "close" \in SawFile
    /\ "close" \notin Writing /\ "close" \notin Unlinking
BY DEF Label, Outside, CommitLoop, AbortLoop, GotDir, GotFile, HoldsDir, HoldsFile,
       OnFile, Looking, SawBuf, SawFile, Writing, Unlinking

\* Outside the calls nothing is held for one.
LEMMA OutsidePoints ==
    ASSUME NEW l \in Outside
    PROVE  /\ l \in Label /\ l \notin GotDir /\ l \notin GotFile /\ l \notin HoldsDir
           /\ l \notin HoldsFile /\ l \notin OnFile /\ l \notin Looking
           /\ l \notin SawBuf /\ l \notin SawFile /\ l \notin Writing
           /\ l \notin Unlinking
<1>1. l \in Label
  BY DEF Label, Outside, CommitLoop, AbortLoop
<1> QED
  BY <1>1 DEF Outside, CommitLoop, AbortLoop, GotDir, GotFile, HoldsDir, HoldsFile,
              OnFile, Looking, SawBuf, SawFile, Writing, Unlinking

\* The loops, and user mode.
LEMMA LoopPoints ==
    /\ "user" \in Outside /\ "txdone" \in Outside
    /\ \A l \in CommitLoop \cup AbortLoop : l \in Outside /\ l # "user" /\ l # "txdone"
    /\ \A l \in {"user", "txdone"} : l \notin CommitLoop \cup AbortLoop
    /\ \A l \in CommitLoop : l \notin AbortLoop
    /\ \A l \in Label : l \in CommitLoop \cup AbortLoop <=> l \in Sweeping \cup Putting
    /\ \A l \in Sweeping : l \notin Putting
    /\ \A l \in Locking \cup Unlocking \cup {"commit_swap"} : l \in Sweeping
    /\ \A l \in Locking : l \notin Unlocking /\ l # "commit_swap"
    /\ "commit_swap" \notin Unlocking /\ "commit_swap" \in CommitLoop
BY DEF Outside, CommitLoop, AbortLoop, Sweeping, Putting, Locking, Unlocking, Label

-----------------------------------------------------------------------------
(* What every step has in common.                                           *)

\* The kernel has come down, and nothing else has changed.
Still == UNCHANGED <<txVars, calls, objVars, ghostVars>>

\* A step of p leaves the transactions and the calls of the others alone, and
\* all the rest too if it brings the kernel down.
Others(p) ==
    /\ \A q \in Proc \ {p} :
        /\ status'[q] = status[q] /\ shadow'[q] = shadow[q]
        /\ ofile'[q] = ofile[q] /\ conflict'[q] = conflict[q]
        /\ pc'[q] = pc[q] /\ arg'[q] = arg[q] /\ rest'[q] = rest[q]
        /\ version'[q] = version[q] /\ seen'[q] = seen[q]
    /\ (Still /\ fault' \in {"panic", "dangling"}) \/ UNCHANGED fault

\* Every function of the processes is changed at p only.
LEMMA OthersStep ==
    ASSUME TypeOK, NEW p \in Proc, Syscall(p) \/ KernelStep(p)
    PROVE  Others(p)
<1> USE DEF TypeOK, Others, Still, txVars, calls, objVars, ghostVars, Goto, Down, Enter, Round
<1>1. ASSUME NEW f \in File, sys_open(p, f) \/ sys_close(p, f) \/ sys_read(p, f)
      PROVE  Others(p)
  BY <1>1 DEF sys_open, sys_close, sys_read
<1>2. ASSUME NEW f \in File, sys_write(p, f) \/ sys_unlink(p, f)
      PROVE  Others(p)
  BY <1>2 DEF sys_write, sys_unlink, NumberWrite
<1>3. CASE sys_txbegin(p)
  BY <1>3 DEF sys_txbegin
<1>4. CASE sys_txcommit(p) \/ sys_txabort(p)
  BY <1>4 DEF sys_txcommit, sys_txabort, Loop
<1>5. ASSUME NEW o, NEW t1, NEW t2, idup(p, o, t1, t2)
      PROVE  Others(p)
  BY <1>5 DEF idup
<1>6. ASSUME NEW o, NEW t1, NEW t2, idata(p, o, t1, t2)
      PROVE  Others(p)
  BY <1>6 DEF idata, tx_abort_now, Unwind, Access
<1>7. ASSUME NEW b, NEW c, NEW to, UseBuf(p, b, c, to)
      PROVE  Others(p)
  BY <1>7 DEF UseBuf, Store
<1>8. ASSUME NEW b, NEW t1, NEW t2, readi(p, b, t1, t2) \/ writei(p, b, t1, t2)
                           \/ clear_entry(p, b, t1, t2)
      PROVE  Others(p)
  BY <1>7, <1>8 DEF readi, writei, clear_entry
<1>9. ASSUME NEW o, NEW t1, NEW t2, iget(p, o, t1, t2)
      PROVE  Others(p)
  BY <1>9 DEF iget
<1>10. ASSUME NEW o, NEW t1, NEW t2, iunlock(p, o, t1, t2) \/ iput(p, o, t1, t2)
       PROVE  Others(p)
  BY <1>10 DEF iunlock, iput
<1>11. ASSUME NEW o, NEW t1, NEW t2, fdalloc(p, o, t1, t2)
       PROVE  Others(p)
  BY <1>11 DEF fdalloc
<1>12. ASSUME NEW o, NEW t1, NEW t2, set_size(p, o, t1, t2) \/ drop_link(p, o, t1, t2)
       PROVE  Others(p)
  BY <1>12 DEF set_size, drop_link, SetInode
<1>13. ASSUME NEW o, NEW t1, NEW t2, lock_fn(p, o, t1, t2) \/ unlock_fn(p, o, t1, t2)
                            \/ swap_data(p, o, t1, t2)
       PROVE  Others(p)
  BY <1>13 DEF lock_fn, unlock_fn, swap_data
<1>14. ASSUME NEW o, NEW t1, NEW t2, commit_fn(p, o, t1, t2, "txdone")
                            \/ abort_fn(p, o, t1, t2)
       PROVE  Others(p)
  BY <1>14 DEF commit_fn, abort_fn
<1>15. CASE txdone(p)
  BY <1>15 DEF txdone
<1> HIDE DEF TypeOK, Others, Still, txVars, calls, objVars, ghostVars, Goto, Down, Enter, Round
<1>16. CASE Stepping(p)
  BY <1>16, <1>5, <1>6, <1>8, <1>9, <1>10, <1>11, <1>12, Zenon DEF Stepping
<1>17. CASE Looping(p)
  BY <1>17, <1>13, <1>14 DEF Looping
<1> QED
  BY <1>1, <1>2, <1>3, <1>4, <1>15, <1>16, <1>17, Steps DEF Syscall

\* What idata does: it finds a conflict and unwinds the call, or gives access.
DidIdata(p, o, to) ==
    /\ ~NotInUse(o) /\ slock[o] = None
    /\ \/ /\ Active(p) /\ Refused(p, o) /\ Unwind(p)
          /\ \A x \in Obj : shadow[p][x] # Freed
       \/ /\ Sees(p, o) # Freed /\ (Active(p) => ~Refused(p, o))
          /\ Access(p, o, to)

\* idata does so in a step that brings down nothing.
LEMMA IdataEffect ==
    ASSUME NEW p \in Proc, NEW o, NEW from, NEW to, idata(p, o, from, to), UNCHANGED fault
    PROVE  DidIdata(p, o, to)
BY DEF DidIdata, idata, tx_abort_now, Down, At

\* A count of references goes up.
LEMMA CountType ==
    ASSUME NEW S, NEW f \in [S -> Int], NEW o \in S
    PROVE  [f EXCEPT ![o] = @ + 1] \in [S -> Int]
OBVIOUS

\* The same for buffers.
LEMMA BufEffect ==
    ASSUME NEW p \in Proc, NEW b, NEW c, NEW to, UseBuf(p, b, c, to), UNCHANGED fault,
           fault = "none"
    PROVE  /\ slock[b] = None /\ Sees(p, b) # Freed /\ (Active(p) => ~Refused(p, b))
           /\ Store(p, b, c, to)
BY DEF UseBuf, Down

-----------------------------------------------------------------------------
(* Types.                                                                   *)

\* What a process sees is a content or a freed page.
LEMMA SeesType ==
    ASSUME TypeOK, NEW p \in Proc, NEW o \in Obj
    PROVE  Sees(p, o) \in Content \cup {Freed}
BY DEF TypeOK, Sees

\* A process sets the shadow of one object; its shadows are then what they were,
\* but for this one.
SetsShadow(p, o, c) == shadow' = [shadow EXCEPT ![p][o] = c]
OneShadow(p, o, c) ==
    \A x \in Obj : shadow'[p][x] = IF x = o THEN c ELSE shadow[p][x]

\* The first is how the steps say it, the second what is used of it.
LEMMA ShadowSet ==
    ASSUME TypeOK, NEW p \in Proc, NEW o \in Obj, NEW c, SetsShadow(p, o, c)
    PROVE  OneShadow(p, o, c)
BY DEF TypeOK, SetsShadow, OneShadow

\* One shadow is set.
LEMMA ShadowType ==
    ASSUME TypeOK, NEW p \in Proc, NEW o \in Obj, NEW c \in Content \cup {Freed},
           shadow' = [shadow EXCEPT ![p][o] = c] \/ shadow' = shadow
    PROVE  TypeOK!3'
<1>1. [shadow[p] EXCEPT ![o] = c] \in [Obj -> Content \cup {None, Freed}]
  BY DEF TypeOK
<1> QED
  BY <1>1, Zenon DEF TypeOK

\* A call goes on.
LEMMA GotoType ==
    ASSUME TypeOK, NEW p \in Proc, NEW l \in Label, Goto(p, l)
    PROVE  TypeOK!4' /\ TypeOK!5' /\ TypeOK!6'
BY DEF TypeOK, Goto

\* A loop goes on.
LEMMA RoundType ==
    ASSUME TypeOK, NEW p \in Proc, NEW o \in Obj, NEW l \in Label, NEW m \in Label,
           Round(p, o, l, m)
    PROVE  TypeOK!4' /\ TypeOK!5' /\ TypeOK!6'
<1>1. Workset(p) \in SUBSET Obj /\ rest[p] \ {o} \in SUBSET Obj
  BY DEF Workset, TypeOK
<1> QED
  BY <1>1, ZenonT(40) DEF TypeOK, Round

\* A reference is dropped.
LEMMA DropType ==
    ASSUME TypeOK, NEW p \in Proc, NEW o \in Obj, Put(p, o) \/ Drop(p, o)
    PROVE  TypeOK!11' /\ TypeOK!12'
BY DEF TypeOK, Put, Drop, DropRef

\* A buffer is used.
LEMMA BufType ==
    ASSUME TypeOK, NEW p \in Proc, NEW b \in Obj, NEW c, NEW l \in Label,
           Store(p, b, c, l), UNCHANGED mix, Sees(p, b) # Freed,
           Sees(p, b) \in Content => c \in Content
    PROVE  TypeOK'
<1>0. c \in Content /\ Sees(p, b).v \in 0..MaxVersion
  BY SeesType, Constants DEF Content
<1>1. UNCHANGED <<mix, status, ofile, conflict, slock, fault, version, clock,
                  published, aborted>>
  BY DEF Store
<1>2. TypeOK!4' /\ TypeOK!5' /\ TypeOK!6'
  BY GotoType DEF Store
<1>3. TypeOK!3'
  BY <1>0, ShadowType DEF Store
<1>6. TypeOK!9'
  BY <1>0, Zenon DEF Store, TypeOK
<1>7. TypeOK!12'
  BY <1>0, Zenon DEF Store, TypeOK
<1>4. TypeOK!11'
  BY <1>0 DEF Store, TypeOK, Pin
<1>5. TypeOK!16'
  <2>1. seen' = [seen EXCEPT ![p] = seen[p] \cup {Sees(p, b).v}]
    BY DEF Store
  <2>2. seen[p] \cup {Sees(p, b).v} \in SUBSET (0..MaxVersion)
    BY <1>0 DEF TypeOK
  <2> QED
    BY <2>1, <2>2 DEF TypeOK
<1> QED
  BY <1>1, <1>2, <1>3, <1>4, <1>5, <1>6, <1>7 DEF TypeOK

\* An inode is changed.
LEMMA InodeType ==
    ASSUME TypeOK, NEW p \in Proc, NEW o \in Obj, NEW c \in Content, NEW l \in Label,
           SetInode(p, o, c, l), UNCHANGED mix
    PROVE  TypeOK'
<1>1. TypeOK!4' /\ TypeOK!5' /\ TypeOK!6'
  BY GotoType DEF SetInode
<1>2. TypeOK!3'
  BY ShadowType DEF SetInode
<1>3. TypeOK!12' /\ TypeOK!10'
  BY DEF SetInode, TypeOK
<1>4. TypeOK!16'
  BY DEF SetInode, TypeOK
<1> QED
  BY <1>1, <1>2, <1>3, <1>4 DEF TypeOK, SetInode

-----------------------------------------------------------------------------
(* What the steps of the calls do when the kernel stays up.                 *)

Accessing(p, t, o) ==
    \/ t \in DirSteps /\ o = cwd
    \/ t \in FileSteps /\ o = arg[p]

\* idata gives access.
DidAccess(p, t, o) ==
    /\ Accessing(p, t, o)
    /\ ~NotInUse(o) /\ slock[o] = None /\ Sees(p, o) \in Content
    /\ Active(p) => ~Refused(p, o)
    /\ Access(p, o, t[2])

\* idata finds a conflict.
DidUnwind(p, t, o) ==
    /\ Accessing(p, t, o)
    /\ Active(p) /\ Refused(p, o) /\ \A x \in Obj : shadow[p][x] # Freed
    /\ Unwind(p)

\* bdata gives access, and c is what is left behind.
DidStore(p, t, b, c) ==
    /\ \/ t \in Lookups /\ b = DirBuf /\ c = Sees(p, b)
       \/ t = <<"read_data", "read_unlock">> /\ b = DataBuf[arg[p]] /\ c = Sees(p, b)
       \/ /\ t = <<"write_data", "write_size">> /\ b = DataBuf[arg[p]]
          /\ c = [Sees(p, b) EXCEPT !.v = version[p]]
       \/ /\ t = <<"unlink_clear", "unlink_unlock">> /\ b = DirBuf
          /\ c = [Sees(p, b) EXCEPT !.v = version[p], !.links = @ \ {arg[p]}]
    /\ slock[b] = None /\ Sees(p, b) \in Content
    /\ Active(p) => ~Refused(p, b)
    /\ Store(p, b, c, t[2])

DidUnlock(p, t, o) ==
    /\ (t \in DirUnlocks /\ o = cwd) \/ (t = <<"read_unlock", "user">> /\ o = arg[p])
    /\ slock[o] = p
    /\ slock' = [slock EXCEPT ![o] = None]
    /\ seen' = [seen EXCEPT ![p] = {}]
    /\ Goto(p, t[2])
    /\ UNCHANGED <<txVars, writer, ref, val, version, clock, published, aborted>>

DidPut(p, t, o) ==
    /\ (t \in DirPuts /\ o = cwd) \/ (t \in FilePuts /\ o = arg[p])
    /\ iput(p, o, t[1], t[2])

DidSet(p, t, c) ==
    /\ \/ t = <<"write_size", "user">> /\ c = [Sees(p, arg[p]) EXCEPT !.v = version[p]]
       \/ /\ t = <<"unlink_drop", "unlink_done">>
          /\ c = [Sees(p, arg[p]) EXCEPT !.v = version[p], !.links = {}]
    /\ Sees(p, arg[p]) \in Content
    /\ SetInode(p, arg[p], c, t[2])

Did(p, t) ==
    \/ t \in Idups /\ idup(p, cwd, t[1], t[2])
    \/ \E o \in Inode : DidAccess(p, t, o)
    \/ \E o \in Inode : DidUnwind(p, t, o)
    \/ \E b \in Buf, c \in Content : DidStore(p, t, b, c)
    \/ t \in Igets /\ iget(p, arg[p], t[1], t[2])
    \/ \E o \in Inode : DidUnlock(p, t, o)
    \/ \E o \in Inode : DidPut(p, t, o)
    \/ t = <<"open_fd", "user">> /\ fdalloc(p, arg[p], t[1], t[2])
    \/ \E c \in Content : DidSet(p, t, c)

\* A step begins at the point of p, in a call that has not met a conflict.
LEMMA Effects ==
    ASSUME TypeOK, PhaseInv, TouchInv, StableInv, NEW p \in Proc, Stepping(p), UNCHANGED fault
    PROVE  \E t : /\ pc[p] = t[1] /\ fault = "none"
                 /\ arg[p] \in File /\ conflict[p] = FALSE
                 /\ Did(p, t)
<1> DEFINE Goal(t) == /\ pc[p] = t[1] /\ fault = "none"
                      /\ arg[p] \in File /\ conflict[p] = FALSE
                      /\ Did(p, t)
<1> SUFFICES \E t : Goal(t)
  OBVIOUS
<1>a. \A l : At(p, l) /\ l \notin Outside =>
          /\ pc[p] = l /\ fault = "none"
          /\ arg[p] \in File /\ conflict[p] = FALSE
  BY LoopPoints DEF At, PhaseInv, PhaseOf, TypeOK
<1>1. ASSUME NEW t \in Idups, idup(p, cwd, t[1], t[2])
      PROVE  Goal(t)
  BY <1>1, <1>a, IdupPoints, ZenonT(40) DEF idup, Did
<1>2. ASSUME NEW t, NEW o, Accessing(p, t, o), idata(p, o, t[1], t[2])
      PROVE  Goal(t)
  <2>1. t[1] \notin Outside
    BY <1>2, DirStepPoints, FileStepPoints DEF Accessing
  <2>2. At(p, t[1])
    BY <1>2 DEF idata
  <2>3. o \in Inode /\ o \in Obj
    BY <1>2, <1>a, <2>1, <2>2, Constants DEF Accessing
  <2> QED
    <3>1. DidIdata(p, o, t[2])
      BY <1>2, IdataEffect, Zenon
    <3>2. Sees(p, o) \in Content \cup {Freed}
      BY <2>3, SeesType, Zenon
    <3>3. DidAccess(p, t, o) \/ DidUnwind(p, t, o)
      BY <1>2, <3>1, <3>2, Zenon DEF DidIdata, DidAccess, DidUnwind
    <3> QED
      BY <1>a, <2>1, <2>2, <2>3, <3>3, Zenon DEF Did
<1>3. ASSUME NEW b \in Buf, NEW c, NEW t, At(p, t[1]), t[1] \notin Outside,
             UseBuf(p, b, c, t[2]),
             \/ t \in Lookups /\ b = DirBuf /\ c = Sees(p, b)
             \/ t = <<"read_data", "read_unlock">> /\ b = DataBuf[arg[p]] /\ c = Sees(p, b)
             \/ /\ t = <<"write_data", "write_size">> /\ b = DataBuf[arg[p]]
                /\ c = [Sees(p, b) EXCEPT !.v = version[p]]
             \/ /\ t = <<"unlink_clear", "unlink_unlock">> /\ b = DirBuf
                /\ c = [Sees(p, b) EXCEPT !.v = version[p], !.links = @ \ {arg[p]}]
      PROVE  Goal(t)
  <2>1. b \in Obj /\ fault = "none"
    BY <1>3, <1>a, Constants
  <2>2. /\ slock[b] = None /\ Sees(p, b) # Freed /\ (Active(p) => ~Refused(p, b))
        /\ Store(p, b, c, t[2])
    BY <1>3, <2>1, BufEffect
  <2>3. Sees(p, b) \in Content
    BY <2>1, <2>2, SeesType
  <2>4. c \in Content
    <3>1. \A d \in Content : /\ [d EXCEPT !.v = version[p]] \in Content
                            /\ [d EXCEPT !.v = version[p], !.links = @ \ {arg[p]}] \in Content
      BY Zenon DEF Content, TypeOK
    <3> QED
      BY <1>3, <2>3, <3>1, Zenon
  <2>5. DidStore(p, t, b, c)
    BY <1>3, <2>2, <2>3 DEF DidStore
  <2> QED
    BY <1>3, <1>a, <2>4, <2>5 DEF Did
<1>4. ASSUME NEW t \in Lookups, readi(p, DirBuf, t[1], t[2])
      PROVE  Goal(t)
  BY <1>4, <1>3, LookupPoints, Constants, Zenon DEF readi
<1>b. "read_data" \notin Outside /\ "write_data" \notin Outside /\ "unlink_clear" \notin Outside
  BY DEF Outside, CommitLoop, AbortLoop
<1>c. \A l : At(p, l) /\ l \notin Outside => DataBuf[arg[p]] \in Buf
  BY <1>a, Constants
<1>5. CASE readi(p, DataBuf[arg[p]], "read_data", "read_unlock")
  <2> DEFINE t == <<"read_data", "read_unlock">>
  <2>1. At(p, t[1]) /\ UseBuf(p, DataBuf[arg[p]], Sees(p, DataBuf[arg[p]]), t[2])
    BY <1>5 DEF readi
  <2>0. t[1] \notin Outside /\ t = <<"read_data", "read_unlock">> /\ DataBuf[arg[p]] \in Buf
    BY <2>1, <1>b, <1>c
  <2> HIDE DEF t, Goal
  <2>2. Goal(t)
    BY <2>0, <2>1, <1>3, Zenon
  <2> QED
    BY <2>2
<1>6. CASE writei(p, DataBuf[arg[p]], "write_data", "write_size")
  <2> DEFINE t == <<"write_data", "write_size">>
             c == [Sees(p, DataBuf[arg[p]]) EXCEPT !.v = version[p]]
  <2>1. At(p, t[1]) /\ UseBuf(p, DataBuf[arg[p]], c, t[2])
    BY <1>6 DEF writei
  <2>0. /\ t[1] \notin Outside /\ t = <<"write_data", "write_size">> /\ DataBuf[arg[p]] \in Buf
        /\ c = [Sees(p, DataBuf[arg[p]]) EXCEPT !.v = version[p]]
    BY <2>1, <1>b, <1>c
  <2> HIDE DEF t, c, Goal
  <2>2. Goal(t)
    BY <2>0, <2>1, <1>3, Zenon
  <2> QED
    BY <2>2
<1>7. CASE clear_entry(p, arg[p], "unlink_clear", "unlink_unlock")
  <2> DEFINE t == <<"unlink_clear", "unlink_unlock">>
             c == [Sees(p, DirBuf) EXCEPT !.v = version[p], !.links = @ \ {arg[p]}]
  <2>1. At(p, t[1]) /\ UseBuf(p, DirBuf, c, t[2])
    BY <1>7 DEF clear_entry, Down, At
  <2>0. /\ t[1] \notin Outside /\ t = <<"unlink_clear", "unlink_unlock">> /\ DirBuf \in Buf
        /\ c = [Sees(p, DirBuf) EXCEPT !.v = version[p], !.links = @ \ {arg[p]}]
    BY <2>1, <1>b, Constants
  <2> HIDE DEF t, c, Goal
  <2>2. Goal(t)
    BY <2>0, <2>1, <1>3, ZenonT(40)
  <2> QED
    BY <2>2
<1>8. ASSUME NEW t \in Igets, iget(p, arg[p], t[1], t[2])
      PROVE  Goal(t)
  BY <1>8, <1>a, IgetPoints, ZenonT(40) DEF iget, Did
<1>9. ASSUME NEW t, NEW o, iunlock(p, o, t[1], t[2]),
             (t \in DirUnlocks /\ o = cwd) \/ (t = <<"read_unlock", "user">> /\ o = arg[p])
      PROVE  Goal(t)
  <2>1. t \in DirUnlocks \cup FileUnlocks
    BY <1>9 DEF FileUnlocks
  <2>2. t[1] \notin Outside /\ At(p, t[1])
    BY <2>1, <1>9, DirUnlockPoints, FileUnlockPoints, Zenon DEF iunlock
  <2>3. o \in Inode
    BY <1>9, <1>a, <2>2, Constants
  <2>4. DidUnlock(p, t, o)
    BY <1>9, ZenonT(40) DEF iunlock, Down, At, DidUnlock
  <2> QED
    BY <1>a, <2>2, <2>3, <2>4, Zenon DEF Did
<1>10. ASSUME NEW t, NEW o, iput(p, o, t[1], t[2]),
              (t \in DirPuts /\ o = cwd) \/ (t \in FilePuts /\ o = arg[p])
       PROVE  Goal(t)
  <2>1. t[1] \notin Outside /\ At(p, t[1])
    BY <1>10, DirPutPoints, FilePutPoints, Zenon DEF iput
  <2>2. o \in Inode
    BY <1>10, <1>a, <2>1, Constants
  <2> QED
    BY <1>10, <1>a, <2>1, <2>2 DEF Did, DidPut
<1>11. ASSUME NEW t \in FileUnlocks, At(p, t[1])
       PROVE  arg[p] \in File /\ Sees(p, arg[p]) \in Content /\ t[1] \notin Outside
  <2>1. /\ arg[p] \in File /\ arg[p] \in Obj /\ conflict[p] = FALSE /\ pc[p] = t[1]
        /\ pc[p] \in HoldsFile /\ pc[p] \in SawFile
    BY <1>11, <1>a, FileUnlockPoints, Constants, Zenon
  <2>2. CASE Active(p)
    <3>1. shadow[p][arg[p]] # Freed
      BY <2>1, <2>2, Zenon DEF StableInv, StableOf
    <3>2. arg[p] \in Workset(p)
      BY <2>1, <2>2 DEF TouchInv, TouchOf
    <3> QED
      BY <3>1, <3>2, <2>1, <2>2, <1>11, SeesType, FileUnlockPoints DEF Sees, Workset
  <2>3. CASE ~Active(p)
    <3>1. val[arg[p]] # Freed
      BY <2>1, <2>3 DEF StableInv, StableOf
    <3> QED
      BY <3>1, <2>1, <2>3, <1>11, SeesType, FileUnlockPoints DEF Sees
  <2> QED
    BY <2>2, <2>3
<1>12. CASE fdalloc(p, arg[p], "open_fd", "user")
  <2> DEFINE t == <<"open_fd", "user">>
  <2>1. t \in FileUnlocks /\ At(p, t[1])
    BY <1>12 DEF FileUnlocks, fdalloc
  <2>2. Goal(t)
    BY <1>12, <1>a, <1>11, <2>1, Zenon DEF Did
  <2> QED
    BY <2>2
<1>13. CASE set_size(p, arg[p], "write_size", "user")
  <2> DEFINE t == <<"write_size", "user">>
             c == [Sees(p, arg[p]) EXCEPT !.v = version[p]]
  <2>1. t \in FileUnlocks /\ At(p, t[1]) /\ SetInode(p, arg[p], c, t[2])
    BY <1>13 DEF FileUnlocks, set_size
  <2>2. c \in Content /\ Sees(p, arg[p]) \in Content
    BY <2>1, <1>11, Zenon DEF Content, TypeOK
  <2>3. DidSet(p, t, c)
    BY <2>1, <2>2 DEF DidSet
  <2>4. Goal(t)
    BY <1>a, <1>11, <2>1, <2>2, <2>3 DEF Did
  <2> QED
    BY <2>4
<1>14. CASE drop_link(p, arg[p], "unlink_drop", "unlink_done")
  <2> DEFINE t == <<"unlink_drop", "unlink_done">>
             c == [Sees(p, arg[p]) EXCEPT !.v = version[p], !.links = {}]
  <2>1. t \in FileUnlocks /\ At(p, t[1]) /\ SetInode(p, arg[p], c, t[2])
    BY <1>14 DEF FileUnlocks, drop_link
  <2>2. c \in Content /\ Sees(p, arg[p]) \in Content
    BY <2>1, <1>11, Zenon DEF Content, TypeOK
  <2>3. DidSet(p, t, c)
    BY <2>1, <2>2 DEF DidSet
  <2>4. Goal(t)
    BY <1>a, <1>11, <2>1, <2>2, <2>3 DEF Did
  <2> QED
    BY <2>4
<1>15. iunlock(p, arg[p], "read_unlock", "user") => \E t : Goal(t)
  <2> DEFINE t == <<"read_unlock", "user">>
  <2>1. iunlock(p, arg[p], t[1], t[2]) => Goal(t)
    BY <1>9, Zenon
  <2> QED
    BY <2>1
<1>16. \A t \in DirSteps : idata(p, cwd, t[1], t[2]) => Goal(t)
  BY <1>2, Zenon DEF Accessing
<1>17. \A t \in FileSteps : idata(p, arg[p], t[1], t[2]) => Goal(t)
  BY <1>2, Zenon DEF Accessing
<1>18. \A t \in DirUnlocks : iunlock(p, cwd, t[1], t[2]) => Goal(t)
  BY <1>9, Zenon
<1>19. \A t \in DirPuts : iput(p, cwd, t[1], t[2]) => Goal(t)
  BY <1>10, Zenon
<1>20. \A t \in FilePuts : iput(p, arg[p], t[1], t[2]) => Goal(t)
  BY <1>10, ZenonT(40)
<1> HIDE DEF Goal
<1> QED
  BY <1>1, <1>4, <1>5, <1>6, <1>7, <1>8, <1>12, <1>13, <1>14, <1>15, <1>16, <1>17,
     <1>18, <1>19, <1>20, ZenonT(40) DEF Stepping

-----------------------------------------------------------------------------
(* What the steps of the loops over a workset do when the kernel stays up.  *)

DidLock(p, t, o) ==
    /\ t \in LockLoops /\ slock[o] = None
    /\ slock' = [slock EXCEPT ![o] = p]
    /\ Round(p, o, t[1], t[2])
    /\ UNCHANGED <<txVars, writer, ref, val, ghostVars>>

DidSwap(p, t, o) ==
    /\ t = <<"commit_swap", "commit_unlock">> /\ shadow[p][o] # Freed
    /\ val' = [val EXCEPT ![o] = shadow[p][o]]
    /\ Round(p, o, t[1], t[2])
    /\ UNCHANGED <<txVars, writer, slock, ref, ghostVars>>

DidRelease(p, t, o) ==
    /\ t \in UnlockLoops
    /\ slock' = [slock EXCEPT ![o] = None]
    /\ Round(p, o, t[1], t[2])
    /\ UNCHANGED <<txVars, writer, ref, val, ghostVars>>

DidFree(p, t, o) ==
    /\ t = <<"abort_free", "abort_put">> /\ shadow[p][o] # Freed
    /\ shadow' = [shadow EXCEPT ![p][o] = Freed]
    /\ Goto(p, t[2])
    /\ UNCHANGED <<status, ofile, conflict, objVars, ghostVars>>

DidDrop(p, t, o) ==
    /\ t \in PutLoops
    /\ Drop(p, o)
    /\ Round(p, o, t[2], "txdone")
    /\ UNCHANGED <<txVars, writer, slock, ghostVars>>

LoopDid(p, t, o) ==
    \/ DidLock(p, t, o) \/ DidSwap(p, t, o) \/ DidRelease(p, t, o)
    \/ DidFree(p, t, o) \/ DidDrop(p, t, o)

\* The steps of the loops, from point to point.
LoopSteps == LockLoops \cup UnlockLoops \cup PutLoops
             \cup {<<"commit_swap", "commit_unlock">>, <<"abort_free", "abort_put">>}

\* They stay in the loops of txcommit, or in those of txabort.
LEMMA LoopStepPoints ==
    ASSUME NEW t \in LoopSteps
    PROVE  /\ t[1] \in Label /\ t[2] \in Label
           /\ t[1] \in Outside /\ t[2] \in Outside
           /\ t[1] \in CommitLoop \cup AbortLoop
           /\ t[2] \in CommitLoop \cup AbortLoop
           /\ (t[1] \in CommitLoop <=> t[2] \in CommitLoop)
           /\ (t[1] \in AbortLoop <=> t[2] \in AbortLoop)
           /\ (t \in LockLoops => t[1] \in Locking /\ t[2] \in Sweeping \ Locking)
           /\ (t \in UnlockLoops => t[1] \in Unlocking /\ t[2] \in Putting)
           /\ (t \in PutLoops => t[1] \in Putting /\ t[2] \in Putting)
<1> USE DEF LoopSteps, LockLoops, UnlockLoops, PutLoops
<1>1. t[1] \in Label /\ t[2] \in Label
  BY DEF Label
<1> QED
  BY <1>1 DEF Outside, CommitLoop, AbortLoop, Locking, Unlocking, Putting, Sweeping

\* A round takes the entry out of the rest, and the last one turns to the next loop.
LEMMA RoundEffect ==
    ASSUME TypeOK, NEW p \in Proc, NEW o \in rest[p], NEW l, NEW m, Round(p, o, l, m)
    PROVE  /\ arg' = arg
           /\ \/ rest[p] = {o} /\ pc'[p] = m /\ rest'[p] = Workset(p)
              \/ /\ rest[p] # {o} /\ pc'[p] = l
                 /\ rest'[p] = rest[p] \ {o} /\ rest'[p] # {}
<1>1. CASE rest[p] = {o}
  BY <1>1 DEF TypeOK, Round
<1>2. CASE rest[p] # {o}
  <2>1. rest[p] \ {o} # {}
    BY <1>2
  <2> QED
    BY <1>2, <2>1 DEF TypeOK, Round
<1> QED
  BY <1>1, <1>2, ZenonT(40)

\* A round goes on in the loop or leaves it.
LEMMA RoundGoes ==
    ASSUME TypeOK, NEW p \in Proc, NEW o \in rest[p], NEW l, NEW m, Round(p, o, l, m)
    PROVE  pc'[p] \in {l, m} /\ arg' = arg
BY RoundEffect

\* A step of a loop visits an entry of the workset, of a transaction that has ended.
LEMMA LoopEffects ==
    ASSUME TypeOK, PhaseInv, NEW p \in Proc, Looping(p), UNCHANGED fault
    PROVE  \E t \in LoopSteps, o \in Obj :
              /\ pc[p] = t[1] /\ fault = "none"
              /\ o \in rest[p] /\ o \in Workset(p) /\ rest[p] \subseteq Workset(p)
              /\ \A x \in rest[p] : Addr[o] <= Addr[x]
              /\ ~Active(p) /\ conflict[p] = FALSE /\ arg[p] \notin File
              /\ LoopDid(p, t, o)
<1> DEFINE Goal(t, o) == /\ pc[p] = t[1] /\ fault = "none"
                         /\ o \in rest[p] /\ o \in Workset(p) /\ rest[p] \subseteq Workset(p)
                         /\ \A x \in rest[p] : Addr[o] <= Addr[x]
                         /\ ~Active(p) /\ conflict[p] = FALSE /\ arg[p] \notin File
                         /\ LoopDid(p, t, o)
<1> SUFFICES \E t \in LoopSteps, o \in Obj : Goal(t, o)
  OBVIOUS
<1>a. ASSUME NEW t \in LoopSteps, NEW o \in Obj, Visit(p, o, t[1]), LoopDid(p, t, o)
      PROVE  Goal(t, o)
  <2>1. pc[p] = t[1] /\ fault = "none" /\ o \in rest[p] /\ \A x \in rest[p] : Addr[o] <= Addr[x]
    BY <1>a DEF Visit, At
  <2>2. pc[p] \in CommitLoop \cup AbortLoop /\ pc[p] \in Outside /\ pc[p] # "user"
    BY <1>a, <2>1, LoopStepPoints, LoopPoints, ZenonT(40)
  <2>3. rest[p] \subseteq Workset(p) /\ arg[p] \notin File /\ conflict[p] = FALSE
    BY <2>2 DEF PhaseInv, PhaseOf, TypeOK
  <2>4. ~Active(p)
    BY <2>2 DEF PhaseInv, PhaseOf, Active
  <2> QED
    BY <1>a, <2>1, <2>3, <2>4
<1>1. ASSUME NEW o \in Obj, NEW t \in LockLoops, lock_fn(p, o, t[1], t[2])
      PROVE  Goal(t, o)
  <2>1. Visit(p, o, t[1]) /\ LoopDid(p, t, o)
    BY <1>1, Zenon DEF lock_fn, Visit, At, Down, LoopDid, DidLock
  <2> QED
    BY <2>1, <1>a, Zenon DEF LoopSteps
<1>2. ASSUME NEW o \in Obj, swap_data(p, o, "commit_swap", "commit_unlock")
      PROVE  Goal(<<"commit_swap", "commit_unlock">>, o)
  <2> DEFINE t == <<"commit_swap", "commit_unlock">>
  <2>1. Visit(p, o, t[1]) /\ LoopDid(p, t, o)
    BY <1>2 DEF swap_data, Visit, At, Down, LoopDid, DidSwap
  <2>2. t \in LoopSteps
    BY DEF LoopSteps
  <2> HIDE DEF t, Goal
  <2>3. Goal(t, o)
    BY <2>1, <2>2, <1>a
  <2> QED
    BY <2>3, Zenon DEF t
<1>3. ASSUME NEW o \in Obj, NEW t \in UnlockLoops, unlock_fn(p, o, t[1], t[2])
      PROVE  Goal(t, o)
  <2>1. Visit(p, o, t[1]) /\ LoopDid(p, t, o)
    BY <1>3, Zenon DEF unlock_fn, Visit, At, Down, LoopDid, DidRelease
  <2> QED
    BY <2>1, <1>a, Zenon DEF LoopSteps
<1>4. ASSUME NEW o \in Obj, abort_fn(p, o, "abort_free", "abort_put")
      PROVE  Goal(<<"abort_free", "abort_put">>, o)
  <2> DEFINE t == <<"abort_free", "abort_put">>
  <2>1. Visit(p, o, t[1]) /\ LoopDid(p, t, o)
    BY <1>4 DEF abort_fn, Visit, At, Down, LoopDid, DidFree
  <2>2. t \in LoopSteps
    BY DEF LoopSteps
  <2> HIDE DEF t, Goal
  <2>3. Goal(t, o)
    BY <2>1, <2>2, <1>a
  <2> QED
    BY <2>3 DEF t
<1>5. ASSUME NEW o \in Obj, NEW t \in PutLoops, commit_fn(p, o, t[1], t[2], "txdone")
      PROVE  Goal(t, o)
  <2>1. Visit(p, o, t[1]) /\ LoopDid(p, t, o)
    BY <1>5 DEF commit_fn, LoopDid, DidDrop
  <2> QED
    BY <2>1, <1>a, ZenonT(40) DEF LoopSteps
<1>6. <<"commit_swap", "commit_unlock">> \in LoopSteps /\ <<"abort_free", "abort_put">> \in LoopSteps
      /\ LockLoops \subseteq LoopSteps /\ UnlockLoops \subseteq LoopSteps /\ PutLoops \subseteq LoopSteps
  BY DEF LoopSteps
<1> HIDE DEF Goal
<1> QED
  BY <1>1, <1>2, <1>3, <1>4, <1>5, <1>6, Zenon DEF Looping

-----------------------------------------------------------------------------

\* The types are kept by the steps of the calls,
LEMMA StepType ==
    ASSUME TypeOK, NEW p \in Proc, NEW t, arg[p] \in File, Did(p, t), UNCHANGED <<mix, fault>>
    PROVE  TypeOK'
<1>u. "user" \in Label /\ arg[p] \in Obj
  BY Constants DEF Label
<1>1. CASE t \in Idups /\ idup(p, cwd, t[1], t[2])
  <2>1. TypeOK!4' /\ TypeOK!5' /\ TypeOK!6'
    BY <1>1, GotoType, IdupPoints DEF idup
  <2>2. TypeOK!11'
    <3>1. ref \in [Obj -> Int] /\ ref' = [ref EXCEPT ![cwd] = @ + 1]
      BY <1>1, Zenon DEF idup, TypeOK
    <3> QED
      BY <3>1, Constants, CountType, Zenon
  <2> QED
    BY <1>1, <2>1, <2>2, Zenon DEF idup, TypeOK, txVars, ghostVars
<1>2. ASSUME NEW o \in Inode, DidAccess(p, t, o)
      PROVE  TypeOK'
  <2>0. Access(p, o, t[2]) /\ Sees(p, o) \in Content /\ Sees(p, o).v \in 0..MaxVersion /\ o \in Obj
    BY <1>2, Constants, ZenonT(40) DEF DidAccess, Content
  <2>1. TypeOK!4' /\ TypeOK!5' /\ TypeOK!6'
    BY <1>2, GotoType, DirStepPoints, FileStepPoints DEF DidAccess, Accessing, Access
  <2>2. TypeOK!3'
    BY <2>0, ShadowType DEF Access
  <2>3. TypeOK!9'
    BY <2>0, Zenon DEF TypeOK, Access
  <2>4. TypeOK!10'
    BY <2>0 DEF TypeOK, Access
  <2>5. TypeOK!16'
    BY <2>0 DEF TypeOK, Access
  <2> QED
    BY <2>0, <2>1, <2>2, <2>3, <2>4, <2>5 DEF TypeOK, Access
<1>3. ASSUME NEW o \in Inode, DidUnwind(p, t, o)
      PROVE  TypeOK'
  <2> USE <1>3 DEF DidUnwind, Unwind
  <2>1. TypeOK!4' /\ TypeOK!5' /\ TypeOK!6'
    BY GotoType, <1>u
  <2>2. TypeOK!3'
    <3> DEFINE S == [x \in Obj |-> IF shadow[p][x] = None THEN None ELSE Freed]
    <3>1. shadow' = [shadow EXCEPT ![p] = S]
      OBVIOUS
    <3>2. S \in [Obj -> Content \cup {None, Freed}]
      BY ZenonT(40)
    <3> QED
      BY <3>1, <3>2, ZenonT(40) DEF TypeOK
  <2>3. TypeOK!8'
    BY DEF TypeOK
  <2>4. TypeOK!11'
    BY DEF TypeOK
  <2>5. TypeOK!18'
    <3>1. aborted' = aborted \cup {version[p]} /\ version[p] \in 0..MaxVersion
      BY DEF TypeOK
    <3> QED
      BY <3>1, Zenon DEF TypeOK
  <2> QED
    BY <2>1, <2>2, <2>3, <2>4, <2>5, ZenonT(40) DEF TypeOK
<1>4. ASSUME NEW b \in Buf, NEW c \in Content, DidStore(p, t, b, c)
      PROVE  TypeOK'
  <2>1. Store(p, b, c, t[2]) /\ Sees(p, b) # Freed /\ b \in Obj
    BY <1>4, Constants DEF DidStore
  <2>2. t \in Lookups \cup DataSteps
    BY <1>4 DEF DidStore, DataSteps
  <2> QED
    BY <2>1, <2>2, BufType, LookupPoints, DataStepPoints
<1>5. CASE t \in Igets /\ iget(p, arg[p], t[1], t[2])
  <2>1. TypeOK!4' /\ TypeOK!5' /\ TypeOK!6'
    BY <1>5, GotoType, IgetPoints, EntryPoints, ZenonT(40) DEF iget
  <2>2. TypeOK!9'
    BY <1>5, <1>u, ZenonT(40) DEF iget, TypeOK
  <2>3. TypeOK!11'
    <3>1. ref \in [Obj -> Int] /\ (ref' = ref \/ ref' = [ref EXCEPT ![arg[p]] = @ + 1])
      BY <1>5, Zenon DEF iget, TypeOK
    <3>2. CASE ref' = ref
      BY <3>1, <3>2, Zenon
    <3>3. CASE ref' = [ref EXCEPT ![arg[p]] = @ + 1]
      BY <3>1, <3>3, <1>u, CountType, Zenon
    <3> QED
      BY <3>1, <3>2, <3>3, Zenon
  <2> QED
    BY <1>5, <2>1, <2>2, <2>3, ZenonT(40) DEF iget, TypeOK, txVars, ghostVars
<1>6. ASSUME NEW o \in Inode, DidUnlock(p, t, o)
      PROVE  TypeOK'
  <2>1. t \in DirUnlocks \cup FileUnlocks
    BY <1>6 DEF DidUnlock, FileUnlocks
  <2>2. TypeOK!4' /\ TypeOK!5' /\ TypeOK!6'
    BY <1>6, <2>1, GotoType, DirUnlockPoints, FileUnlockPoints, ZenonT(40) DEF DidUnlock
  <2>3. TypeOK!10'
    BY <1>6, Zenon DEF DidUnlock, TypeOK
  <2>4. TypeOK!16'
    BY <1>6, Zenon DEF DidUnlock, TypeOK
  <2> QED
    BY <1>6, <2>2, <2>3, <2>4 DEF DidUnlock, TypeOK, txVars
<1>7. ASSUME NEW o \in Inode, DidPut(p, t, o)
      PROVE  TypeOK'
  <2>1. TypeOK!4' /\ TypeOK!5' /\ TypeOK!6'
    BY <1>7, GotoType, DirPutPoints, FilePutPoints, Zenon DEF DidPut, iput
  <2>2. TypeOK!11' /\ TypeOK!12'
    BY <1>7, DropType, Constants, ZenonT(40) DEF DidPut, iput
  <2> QED
    BY <1>7, <2>1, <2>2, Zenon DEF DidPut, iput, TypeOK, txVars, ghostVars
<1>8. CASE t = <<"open_fd", "user">> /\ fdalloc(p, arg[p], t[1], t[2])
  <2>1. TypeOK!4' /\ TypeOK!5' /\ TypeOK!6'
    BY <1>8, <1>u, GotoType DEF fdalloc
  <2>2. TypeOK!7'
    BY <1>8 DEF fdalloc, TypeOK
  <2>3. TypeOK!10'
    BY <1>8, Zenon DEF fdalloc, TypeOK
  <2>4. TypeOK!16'
    BY <1>8 DEF fdalloc, TypeOK
  <2> QED
    BY <1>8, <2>1, <2>2, <2>3, <2>4 DEF fdalloc, TypeOK
<1>9. ASSUME NEW c \in Content, DidSet(p, t, c)
      PROVE  TypeOK'
  <2>1. t \in FileUnlocks /\ SetInode(p, arg[p], c, t[2])
    BY <1>9 DEF DidSet, FileUnlocks
  <2> QED
    BY <2>1, <1>u, InodeType, FileUnlockPoints
<1> QED
  BY <1>1, <1>2, <1>3, <1>4, <1>5, <1>6, <1>7, <1>8, <1>9, Zenon DEF Did

\* by those of the loops,
LEMMA LoopType ==
    ASSUME TypeOK, NEW p \in Proc, NEW t \in LoopSteps, NEW o \in Obj, o \in Workset(p),
           LoopDid(p, t, o), UNCHANGED <<mix, fault>>
    PROVE  TypeOK'
<1>t. t[1] \in Label /\ t[2] \in Label /\ "txdone" \in Label
  BY LoopStepPoints, ZenonT(40) DEF Label
<1>1. CASE DidLock(p, t, o)
  <2>1. TypeOK!4' /\ TypeOK!5' /\ TypeOK!6'
    BY <1>1, <1>t, RoundType DEF DidLock
  <2>2. TypeOK!10'
    BY <1>1, Zenon DEF DidLock, TypeOK
  <2> QED
    BY <1>1, <2>1, <2>2 DEF DidLock, TypeOK, txVars, ghostVars
<1>2. CASE DidSwap(p, t, o)
  <2>1. TypeOK!4' /\ TypeOK!5' /\ TypeOK!6'
    BY <1>2, <1>t, RoundType, Zenon DEF DidSwap
  <2>2. TypeOK!12'
    <3>1. shadow[p][o] \in Content
      BY <1>2 DEF DidSwap, Workset, TypeOK
    <3> QED
      BY <1>2, <3>1, Zenon DEF DidSwap, TypeOK
  <2> QED
    BY <1>2, <2>1, <2>2, Zenon DEF DidSwap, TypeOK, txVars, ghostVars
<1>3. CASE DidRelease(p, t, o)
  <2>1. TypeOK!4' /\ TypeOK!5' /\ TypeOK!6'
    BY <1>3, <1>t, RoundType, Zenon DEF DidRelease
  <2>2. TypeOK!10'
    BY <1>3, Zenon DEF DidRelease, TypeOK
  <2> QED
    BY <1>3, <2>1, <2>2 DEF DidRelease, TypeOK, txVars, ghostVars
<1>4. CASE DidFree(p, t, o)
  <2>1. TypeOK!4' /\ TypeOK!5' /\ TypeOK!6'
    BY <1>4, <1>t, GotoType DEF DidFree
  <2>2. TypeOK!3'
    BY <1>4, ShadowType, Zenon DEF DidFree
  <2> QED
    BY <1>4, <2>1, <2>2 DEF DidFree, TypeOK, objVars, ghostVars
<1>5. CASE DidDrop(p, t, o)
  <2>1. TypeOK!4' /\ TypeOK!5' /\ TypeOK!6'
    BY <1>5, <1>t, RoundType DEF DidDrop
  <2>2. TypeOK!11' /\ TypeOK!12'
    BY <1>5, DropType DEF DidDrop
  <2> QED
    BY <1>5, <2>1, <2>2 DEF DidDrop, TypeOK, txVars, ghostVars
<1> QED
  BY <1>1, <1>2, <1>3, <1>4, <1>5 DEF LoopDid

\* and by the system calls.
LEMMA SysType ==
    ASSUME TypeOK, NEW p \in Proc, Syscall(p) \/ txdone(p), UNCHANGED mix
    PROVE  TypeOK'
<1>e. ASSUME NEW f \in File, NEW l \in Label, Enter(p, l, f)
      PROVE  TypeOK!4' /\ TypeOK!5' /\ TypeOK!6'
  BY <1>e DEF Enter, TypeOK
<1>l. ASSUME NEW l \in Label, Loop(p, l)
      PROVE  TypeOK!4' /\ TypeOK!5' /\ TypeOK!6'
  <2>1. Workset(p) \in SUBSET Obj /\ "txdone" \in Label
    BY DEF Workset, Label
  <2> QED
    BY <1>l, <2>1 DEF Loop, TypeOK
<1>n. ASSUME NumberWrite(p)
      PROVE  TypeOK!14' /\ TypeOK!15' /\ TypeOK!17'
  <2>1. CASE Active(p)
    BY <1>n, <2>1, Zenon DEF NumberWrite, TypeOK
  <2>2. CASE ~Active(p)
    <3>1. clock' \in 0..MaxVersion /\ clock' = clock + 1 /\ clock \in 0..MaxVersion
      BY <1>n, <2>2, TxAssumption DEF NumberWrite, TypeOK
    <3> QED
      BY <1>n, <2>2, <3>1, ZenonT(40) DEF NumberWrite, TypeOK
  <2> QED
    BY <2>1, <2>2
<1>1. ASSUME NEW f \in File, sys_open(p, f) \/ sys_read(p, f)
      PROVE  TypeOK'
  <2>1. TypeOK!4' /\ TypeOK!5' /\ TypeOK!6'
    BY <1>1, <1>e, EntryPoints, ZenonT(40) DEF sys_open, sys_read
  <2> QED
    BY <1>1, <2>1, ZenonT(40) DEF sys_open, sys_read, TypeOK, txVars, objVars, ghostVars
<1>2. ASSUME NEW f \in File, sys_close(p, f)
      PROVE  TypeOK'
  <2>1. TypeOK!4' /\ TypeOK!5' /\ TypeOK!6'
    BY <1>2, <1>e, EntryPoints, Zenon DEF sys_close
  <2>2. TypeOK!7'
    BY <1>2 DEF sys_close, TypeOK
  <2> QED
    BY <1>2, <2>1, <2>2, Zenon DEF sys_close, TypeOK, objVars, ghostVars
<1>3. ASSUME NEW f \in File, sys_write(p, f) \/ sys_unlink(p, f)
      PROVE  TypeOK'
  <2>1. TypeOK!4' /\ TypeOK!5' /\ TypeOK!6'
    BY <1>3, <1>e, EntryPoints, Zenon DEF sys_write, sys_unlink
  <2>2. TypeOK!14' /\ TypeOK!15' /\ TypeOK!17'
    BY <1>3, <1>n, Zenon DEF sys_write, sys_unlink
  <2> QED
    BY <1>3, <2>1, <2>2, ZenonT(40) DEF sys_write, sys_unlink, TypeOK, txVars, objVars
<1>4. CASE sys_txbegin(p)
  <2> USE <1>4 DEF sys_txbegin
  <2>1. TypeOK!2' /\ TypeOK!8'
    BY DEF TypeOK
  <2>2. TypeOK!3'
    <3> DEFINE S == [o \in Obj |-> None]
    <3>1. shadow' = [shadow EXCEPT ![p] = S] /\ S \in [Obj -> Content \cup {None, Freed}]
      OBVIOUS
    <3> QED
      BY <3>1 DEF TypeOK
  <2>3. clock' \in 0..MaxVersion
    BY TxAssumption DEF TypeOK
  <2>4. TypeOK!14'
    BY <2>3, ZenonT(40) DEF TypeOK
  <2> QED
    BY <2>1, <2>2, <2>3, <2>4, ZenonT(40) DEF TypeOK, calls, objVars
<1>5. CASE sys_txcommit(p) \/ sys_txabort(p)
  <2> USE <1>5 DEF sys_txcommit, sys_txabort
  <2>1. TypeOK!4' /\ TypeOK!5' /\ TypeOK!6'
    BY <1>l, ZenonT(40) DEF Label
  <2>2. TypeOK!2'
    BY DEF TypeOK
  <2>3. TypeOK!17' /\ TypeOK!18'
    <3>1. version[p] \in 0..MaxVersion
      BY DEF TypeOK
    <3> QED
      BY <3>1, ZenonT(40) DEF TypeOK
  <2> QED
    BY <2>1, <2>2, <2>3 DEF TypeOK, objVars
<1>6. CASE txdone(p)
  <2> USE <1>6 DEF txdone
  <2>1. TypeOK!3'
    <3> DEFINE S == [o \in Obj |-> None]
    <3>1. shadow' = [shadow EXCEPT ![p] = S] /\ S \in [Obj -> Content \cup {None, Freed}]
      BY ZenonT(40)
    <3> QED
      BY <3>1 DEF TypeOK
  <2>2. TypeOK!4' /\ TypeOK!6'
    BY DEF TypeOK, Label
  <2> QED
    BY <2>1, <2>2, Zenon DEF TypeOK, objVars, ghostVars
<1> QED
  BY <1>1, <1>2, <1>3, <1>4, <1>5, <1>6, Zenon DEF Syscall

-----------------------------------------------------------------------------
(* Counting.                                                                *)

\* Fewer elements.
LEMMA CountSub ==
    ASSUME NEW n, NEW S, NEW T, Counts(n, S), T \subseteq S
    PROVE  Counts(n, T)
<1>1. PICK g \in [S -> 1..n] : \A x, y \in S : g[x] = g[y] => x = y
  BY DEF Counts
<1> DEFINE h == [x \in T |-> g[x]]
<1>2. h \in [T -> 1..n] /\ \A x, y \in T : h[x] = h[y] => x = y
  BY <1>1
<1> QED
  BY <1>2, Zenon DEF Counts

\* At most one more element.
LEMMA CountAdd ==
    ASSUME NEW n, NEW S, NEW T, NEW x, Counts(n, S), T \subseteq S \cup {x}
    PROVE  Counts(n + 1, T)
<1>1. PICK g \in [S -> 1..n] : \A y, z \in S : g[y] = g[z] => y = z
  BY DEF Counts
<1> DEFINE h == [y \in T |-> IF y \in S THEN g[y] ELSE n + 1]
<1>2. n \in Nat
  BY DEF Counts
<1>3. h \in [T -> 1..(n + 1)]
  BY <1>1, <1>2
<1>4. ASSUME NEW y \in T, NEW z \in T, h[y] = h[z] PROVE y = z
  <2>1. \A w \in T : w \in S => h[w] = g[w] /\ h[w] <= n
    BY <1>1, <1>2
  <2>2. \A w \in T : w \notin S => h[w] = n + 1 /\ w = x
    OBVIOUS
  <2>3. CASE y \in S /\ z \in S
    BY <2>1, <2>3, <1>1, <1>4
  <2>4. CASE y \notin S /\ z \notin S
    BY <2>2, <2>4
  <2>5. CASE y \in S /\ z \notin S
    BY <2>1, <2>2, <2>5, <1>4, <1>2, <1>3
  <2>6. CASE y \notin S /\ z \in S
    BY <2>1, <2>2, <2>6, <1>4, <1>2, <1>3
  <2> QED
    BY <2>3, <2>4, <2>5, <2>6
<1>5. n + 1 \in Nat
  BY <1>2
<1> HIDE DEF h
<1> QED
  BY <1>3, <1>4, <1>5 DEF Counts

\* One element less.
LEMMA CountDrop ==
    ASSUME NEW n, NEW S, NEW T, NEW x \in S, Counts(n, S), T \subseteq S \ {x}
    PROVE  Counts(n - 1, T)
<1>1. PICK g \in [S -> 1..n] : \A y, z \in S : g[y] = g[z] => y = z
  BY DEF Counts
<1>2. n \in Nat /\ n >= 1 /\ n - 1 \in Nat /\ g[x] \in 1..n
  BY <1>1 DEF Counts
<1> DEFINE h == [y \in T |-> IF g[y] = n THEN g[x] ELSE g[y]]
<1>3. ASSUME NEW y \in T PROVE h[y] \in 1..(n - 1)
  <2>1. y \in S /\ y # x /\ g[y] \in 1..n /\ g[y] # g[x]
    BY <1>1
  <2>2. CASE g[y] = n
    BY <2>1, <2>2, <1>2
  <2>3. CASE g[y] # n
    BY <2>1, <2>3, <1>2
  <2> QED
    BY <2>2, <2>3
<1>4. ASSUME NEW y \in T, NEW z \in T, h[y] = h[z] PROVE y = z
  <2>1. y \in S /\ z \in S /\ y # x /\ z # x /\ g[y] # g[x] /\ g[z] # g[x]
    BY <1>1
  <2> QED
    BY <2>1, <1>1, <1>4
<1>5. h \in [T -> 1..(n - 1)]
  BY <1>3
<1> QED
  BY <1>2, <1>4, <1>5, Zenon DEF Counts

\* One element in the place of another.
LEMMA CountMove ==
    ASSUME NEW n, NEW S, NEW T, NEW x \in S, NEW y, Counts(n, S), T \subseteq (S \ {x}) \cup {y}
    PROVE  Counts(n, T)
<1>1. Counts(n - 1, S \ {x})
  BY CountDrop
<1>2. Counts((n - 1) + 1, T)
  BY <1>1, CountAdd, Zenon
<1>3. (n - 1) + 1 = n
  BY DEF Counts
<1> QED
  BY <1>2, <1>3

\* What has an element counts at least one, what has two at least two.
LEMMA CountSome ==
    ASSUME NEW n, NEW S, NEW x \in S, NEW y \in S, Counts(n, S)
    PROVE  n \in Nat /\ n >= 1 /\ (x # y => n >= 2)
BY DEF Counts

-----------------------------------------------------------------------------
(* Phases.                                                                  *)

\* Only p is to be looked at.
LEMMA PhaseFrame ==
    ASSUME PhaseInv, NEW p \in Proc, Others(p), PhaseOf(p)'
    PROVE  PhaseInv'
<1>1. ASSUME NEW q \in Proc \ {p} PROVE PhaseOf(q)'
  <2>1. Workset(q)' = Workset(q) /\ (Active(q)' <=> Active(q))
    BY DEF Others, Workset, Active
  <2> QED
    BY <2>1, Zenon DEF Others, PhaseInv, PhaseOf
<1> QED
  BY <1>1 DEF PhaseInv

\* The steps of the calls,
LEMMA StepPhase ==
    ASSUME TypeOK, PhaseInv, NEW p \in Proc, NEW t, pc[p] = t[1], arg[p] \in File,
           conflict[p] = FALSE, Did(p, t), Others(p)
    PROVE  PhaseInv'
<1> SUFFICES PhaseOf(p)'
  BY PhaseFrame, Zenon
<1>g. ASSUME NEW l, Goto(p, l)
      PROVE  pc'[p] = l /\ arg'[p] = IF l = "user" THEN None ELSE arg[p]
  BY <1>g, ZenonT(40) DEF Goto, TypeOK
<1>u. /\ "user" \in Outside /\ "user" \notin CommitLoop \cup AbortLoop /\ "user" \notin OnFile
      /\ "txdone" \in Outside /\ None \notin File
      /\ \A l \in CommitLoop \cup AbortLoop : l \in Outside
  BY LoopPoints, OutsidePoints, Constants
<1>m. ASSUME Goto(p, t[2]), UNCHANGED <<status, ofile, conflict>>,
             t[2] \notin Outside \/ t[2] = "user", t[2] \in OnFile => t[1] \in OnFile
      PROVE  PhaseOf(p)'
  <2>1. pc'[p] = t[2] /\ arg'[p] = IF t[2] = "user" THEN None ELSE arg[p]
    BY <1>m, <1>g
  <2>2. /\ pc'[p] \notin CommitLoop \cup AbortLoop /\ pc'[p] # "txdone"
        /\ (arg'[p] \in File <=> pc'[p] \notin Outside)
    BY <2>1, <1>m, <1>u, ZenonT(40)
  <2>3. pc'[p] \in OnFile => arg'[p] \in ofile'[p]
    BY <2>1, <1>m, <1>u, ZenonT(40) DEF PhaseInv, PhaseOf
  <2>4. conflict'[p] = FALSE
    BY <1>m, ZenonT(40)
  <2> QED
    BY <2>2, <2>3, <2>4, ZenonT(40) DEF PhaseOf
<1>1. CASE t \in Idups /\ idup(p, cwd, t[1], t[2])
  BY <1>1, <1>m, IdupPoints, ZenonT(40) DEF idup, txVars
<1>2. ASSUME NEW o \in Inode, DidAccess(p, t, o)
      PROVE  PhaseOf(p)'
  BY <1>2, <1>m, DirStepPoints, FileStepPoints, Zenon DEF DidAccess, Accessing, Access
<1>3. ASSUME NEW o \in Inode, DidUnwind(p, t, o)
      PROVE  PhaseOf(p)'
  <2>1. pc'[p] = "user" /\ arg'[p] = None
    BY <1>3, <1>g, ZenonT(40) DEF DidUnwind, Unwind
  <2>2. Active(p)'
    BY <1>3, Zenon DEF DidUnwind, Unwind, Active
  <2> QED
    BY <2>1, <2>2, <1>u, ZenonT(40) DEF PhaseOf
<1>4. ASSUME NEW b \in Buf, NEW c \in Content, DidStore(p, t, b, c)
      PROVE  PhaseOf(p)'
  <2>1. t \in Lookups \cup DataSteps
    BY <1>4 DEF DidStore, DataSteps
  <2> QED
    BY <1>4, <2>1, <1>m, LookupPoints, DataStepPoints DEF DidStore, Store
<1>5. CASE t \in Igets /\ iget(p, arg[p], t[1], t[2])
  <2>1. CASE Goto(p, t[2])
    BY <1>5, <2>1, <1>m, IgetPoints, ZenonT(40) DEF iget, txVars
  <2>2. CASE Goto(p, "miss_unlock")
    <3>1. pc'[p] = "miss_unlock" /\ arg'[p] = arg[p]
      BY <2>2, <1>g
    <3>2. conflict'[p] = FALSE
      BY <1>5, ZenonT(40) DEF iget, txVars
    <3> QED
      BY <3>1, <3>2, <1>u, EntryPoints, ZenonT(40) DEF PhaseOf
  <2> QED
    BY <1>5, <2>1, <2>2, ZenonT(40) DEF iget
<1>6. ASSUME NEW o \in Inode, DidUnlock(p, t, o)
      PROVE  PhaseOf(p)'
  <2>1. t \in DirUnlocks \/ t = <<"read_unlock", "user">>
    BY <1>6, ZenonT(40) DEF DidUnlock
  <2> QED
    <3>1. t[2] \notin OnFile /\ (t[2] \notin Outside \/ t[2] = "user")
      BY <2>1, <1>u, DirUnlockPoints
    <3> QED
      BY <1>6, <1>m, <3>1, Zenon DEF DidUnlock, txVars
<1>7. ASSUME NEW o \in Inode, DidPut(p, t, o)
      PROVE  PhaseOf(p)'
  BY <1>7, <1>m, DirPutPoints, FilePutPoints, ZenonT(40) DEF DidPut, iput, txVars
<1>8. CASE t = <<"open_fd", "user">> /\ fdalloc(p, arg[p], t[1], t[2])
  <2>1. pc'[p] = "user" /\ arg'[p] = None
    BY <1>8, <1>g, Zenon DEF fdalloc
  <2>2. conflict'[p] = FALSE
    BY <1>8, Zenon DEF fdalloc
  <2> QED
    BY <2>1, <2>2, <1>u, ZenonT(40) DEF PhaseOf
<1>9. ASSUME NEW c \in Content, DidSet(p, t, c)
      PROVE  PhaseOf(p)'
  <2>1. t \in FileUnlocks /\ (t[2] \notin Outside \/ t[2] = "user")
    BY <1>9, FileUnlockPoints DEF DidSet, FileUnlocks, Outside, CommitLoop, AbortLoop
  <2> QED
    BY <1>9, <2>1, <1>m, FileUnlockPoints DEF DidSet, SetInode
<1> QED
  BY <1>1, <1>2, <1>3, <1>4, <1>5, <1>6, <1>7, <1>8, <1>9, ZenonT(40) DEF Did

\* those of the loops,
LEMMA LoopPhase ==
    ASSUME TypeOK, PhaseInv, NEW p \in Proc, NEW t \in LoopSteps, NEW o \in Obj,
           pc[p] = t[1], o \in rest[p], o \in Workset(p), rest[p] \subseteq Workset(p),
           conflict[p] = FALSE, arg[p] \notin File, LoopDid(p, t, o), Others(p)
    PROVE  PhaseInv'
<1> SUFFICES PhaseOf(p)'
  BY PhaseFrame, Zenon
<1>1. /\ pc[p] \in CommitLoop => status[p] = "COMMITTED"
      /\ pc[p] \in AbortLoop => status[p] = "ABORTED"
  BY ZenonT(40) DEF PhaseInv, PhaseOf
<1>2. UNCHANGED <<status, ofile, conflict>>
  BY DEF LoopDid, DidLock, DidSwap, DidRelease, DidFree, DidDrop, txVars
<1>3. Workset(p)' = Workset(p)
  <2>1. CASE DidFree(p, t, o)
    BY <2>1, Constants, ZenonT(40) DEF DidFree, Workset, TypeOK
  <2>2. CASE UNCHANGED shadow
    BY <2>2, ZenonT(40) DEF Workset
  <2> QED
    BY <2>1, <2>2, ZenonT(40) DEF LoopDid, DidLock, DidSwap, DidRelease, DidDrop, txVars
<1>4. /\ arg'[p] \notin File
      /\ pc'[p] \in {t[1], t[2], "txdone"}
      /\ rest'[p] # {} /\ rest'[p] \subseteq Workset(p)
  <2>1. CASE DidFree(p, t, o)
    <3>1. t[2] # "user" /\ t[2] \in CommitLoop \cup AbortLoop
      BY LoopStepPoints, LoopPoints, Zenon
    <3>2. pc'[p] = t[2] /\ arg'[p] = arg[p] /\ rest' = rest
      BY <2>1, <3>1 DEF DidFree, Goto, TypeOK
    <3> QED
      BY <3>2, <1>3, Zenon
  <2>2. ASSUME NEW l, NEW m, Round(p, o, l, m), l \in {t[1], t[2]}, m \in {t[2], "txdone"}
        PROVE  /\ arg'[p] \notin File
               /\ pc'[p] \in {t[1], t[2], "txdone"}
               /\ rest'[p] # {} /\ rest'[p] \subseteq Workset(p)
    <3>1. /\ arg' = arg
          /\ \/ rest[p] = {o} /\ pc'[p] = m /\ rest'[p] = Workset(p)
             \/ /\ rest[p] # {o} /\ pc'[p] = l
                /\ rest'[p] = rest[p] \ {o} /\ rest'[p] # {}
      BY <2>2, RoundEffect, Zenon
    <3> QED
      BY <2>2, <3>1, Zenon
  <2> QED
    BY <2>1, <2>2, ZenonT(40) DEF LoopDid, DidLock, DidSwap, DidRelease, DidDrop
<1>5. pc'[p] \in Outside /\ pc'[p] \notin OnFile
  BY <1>4, LoopStepPoints, LoopPoints, OutsidePoints, ZenonT(40)
<1>6. conflict'[p] = FALSE
  BY <1>2, ZenonT(40)
<1>7. /\ pc'[p] \in CommitLoop => status'[p] = "COMMITTED"
      /\ pc'[p] \in AbortLoop => status'[p] = "ABORTED"
      /\ ~Active(p)'
  BY <1>1, <1>2, <1>4, LoopStepPoints, LoopPoints, Zenon DEF Active
<1> QED
  BY <1>3, <1>4, <1>5, <1>6, <1>7, ZenonT(40) DEF PhaseOf

\* and the system calls.
LEMMA SysPhase ==
    ASSUME TypeOK, PhaseInv, Disciplined, NEW p \in Proc, Syscall(p) \/ txdone(p), Others(p)
    PROVE  PhaseInv'
<1> SUFFICES PhaseOf(p)'
  BY PhaseFrame
<1>u. /\ "user" \in Outside /\ "user" \notin CommitLoop \cup AbortLoop /\ "user" \notin OnFile
      /\ "txdone" \in Outside /\ "txdone" \notin CommitLoop \cup AbortLoop /\ "txdone" \notin OnFile
      /\ None \notin File /\ \A l \in CommitLoop \cup AbortLoop : l \in Outside /\ l \notin OnFile
  BY LoopPoints, OutsidePoints, Constants, ZenonT(40)
<1>p. /\ conflict[p] => pc[p] = "user" /\ Active(p)
      /\ pc[p] \in Outside => arg[p] \notin File
      /\ conflict[p] \in BOOLEAN
  BY DEF PhaseInv, PhaseOf, TypeOK
<1>e. ASSUME NEW f \in File, NEW l, l \notin Outside, Enter(p, l, f), UserMode(p),
             UNCHANGED conflict, l \in OnFile => f \in ofile'[p]
      PROVE  PhaseOf(p)'
  <2>1. pc'[p] = l /\ arg'[p] = f
    BY <1>e, ZenonT(40) DEF Enter, TypeOK
  <2>2. conflict'[p] = FALSE
    BY <1>e, <1>p, ZenonT(40) DEF UserMode, Disciplined
  <2> QED
    BY <1>e, <1>u, <2>1, <2>2, ZenonT(40) DEF PhaseOf
<1>1. ASSUME NEW f \in File,
             sys_open(p, f) \/ sys_read(p, f) \/ sys_close(p, f) \/ sys_write(p, f)
             \/ sys_unlink(p, f)
      PROVE  PhaseOf(p)'
  BY <1>1, <1>e, EntryPoints, ZenonT(40)
     DEF sys_open, sys_read, sys_close, sys_write, sys_unlink, MayCall, txVars
<1>2. CASE sys_txbegin(p)
  <2>1. pc'[p] = "user" /\ arg'[p] \notin File /\ conflict'[p] = FALSE
    BY <1>2, <1>p, <1>u, Zenon DEF sys_txbegin, calls, TypeOK
  <2> QED
    BY <1>u, <2>1, ZenonT(40) DEF PhaseOf
<1>3. CASE sys_txcommit(p) \/ sys_txabort(p)
  <2>1. /\ conflict'[p] = FALSE /\ arg'[p] \notin File
        /\ rest'[p] = Workset(p) /\ Workset(p)' = Workset(p)
    <3>1. /\ pc[p] = "user" /\ ~conflict[p] /\ conflict' = conflict /\ arg' = arg
          /\ rest' = [rest EXCEPT ![p] = Workset(p)] /\ shadow' = shadow
      BY <1>3, Zenon DEF sys_txcommit, sys_txabort, UserMode, Disciplined, Loop
    <3>2. DOMAIN rest = Proc
      BY Zenon DEF TypeOK
    <3> QED
      BY <3>1, <3>2, <1>p, <1>u, Zenon DEF Workset
  <2>2. CASE Workset(p) = {}
    <3>1. pc'[p] = "txdone" /\ ~Active(p)'
      BY <1>3, <2>2 DEF sys_txcommit, sys_txabort, Loop, TypeOK, Active
    <3> QED
      BY <2>1, <3>1, <1>u, ZenonT(40) DEF PhaseOf
  <2>3. CASE Workset(p) # {}
    <3>1. \/ pc'[p] = "commit_lock" /\ status'[p] = "COMMITTED"
          \/ pc'[p] = "abort_lock" /\ status'[p] = "ABORTED"
      BY <1>3, <2>3 DEF sys_txcommit, sys_txabort, Loop, TypeOK
    <3>2. /\ "commit_lock" \in CommitLoop /\ "commit_lock" \notin AbortLoop
          /\ "abort_lock" \in AbortLoop /\ "abort_lock" \notin CommitLoop
          /\ "commit_lock" # "txdone" /\ "abort_lock" # "txdone"
      BY ZenonT(40) DEF CommitLoop, AbortLoop
    <3> QED
      BY <2>1, <2>3, <3>1, <3>2, <1>u, ZenonT(40) DEF PhaseOf
  <2> QED
    BY <2>2, <2>3, Zenon
<1>4. CASE txdone(p)
  <2>1. pc'[p] = "user" /\ arg'[p] \notin File /\ conflict'[p] = FALSE
    BY <1>4, <1>p, <1>u DEF txdone, At, TypeOK
  <2> QED
    BY <1>u, <2>1, Zenon DEF PhaseOf
<1> QED
  BY <1>1, <1>2, <1>3, <1>4 DEF Syscall

-----------------------------------------------------------------------------
(* What has been touched.                                                   *)

\* Only p is to be looked at.
LEMMA TouchFrame ==
    ASSUME TouchInv, NEW p \in Proc, Others(p), TouchOf(p)'
    PROVE  TouchInv'
<1>1. ASSUME NEW q \in Proc \ {p} PROVE TouchOf(q)'
  <2>1. Workset(q)' = Workset(q) /\ (Active(q)' <=> Active(q))
    BY DEF Others, Workset, Active
  <2> QED
    BY <2>1, ZenonT(40) DEF Others, TouchInv, TouchOf
<1> QED
  BY <1>1 DEF TouchInv

\* An entry that is stored to is in the workset.
LEMMA Enlist ==
    ASSUME TypeOK, NEW p \in Proc, NEW o \in Obj, NEW c, c # None,
           shadow' = [shadow EXCEPT ![p][o] = c]
    PROVE  Workset(p)' = Workset(p) \cup {o}
BY DEF TypeOK, Workset

\* The steps of the calls,
LEMMA StepTouch ==
    ASSUME TypeOK, TouchInv, NEW p \in Proc, NEW t, pc[p] = t[1], arg[p] \in File,
           Did(p, t), Others(p)
    PROVE  TouchInv'
<1> SUFFICES TouchOf(p)'
  BY TouchFrame, ZenonT(40)
<1>o. TouchOf(p) /\ arg[p] \in Obj
  BY Constants, ZenonT(40) DEF TouchInv
<1>g. ASSUME NEW l, Goto(p, l)
      PROVE  pc'[p] = l /\ (l # "user" => arg'[p] = arg[p])
  BY <1>g DEF Goto, TypeOK
<1>u. "user" \notin SawFile /\ "user" \notin SawBuf /\ "user" \notin Looking
  BY LoopPoints, OutsidePoints, ZenonT(40)
<1>m. ASSUME NEW l, Goto(p, l), UNCHANGED <<status, ofile>>, Workset(p)' = Workset(p),
             l \in SawFile => t[1] \in SawFile, l \in SawBuf => t[1] \in SawBuf,
             l \in Looking <=> t[1] \in Looking
      PROVE  TouchOf(p)'
  BY <1>m, <1>g, <1>u, <1>o, ZenonT(40) DEF TouchOf, Active
<1>1. CASE t \in Idups /\ idup(p, cwd, t[1], t[2])
  BY <1>1, <1>m, IdupPoints, ZenonT(40) DEF idup, txVars, Workset
<1>2. ASSUME NEW o \in Inode, DidAccess(p, t, o)
      PROVE  TouchOf(p)'
  <2>0. /\ o \in Obj /\ UNCHANGED <<status, ofile>> /\ pc'[p] = t[2]
        /\ (t[2] # "user" => arg'[p] = arg[p])
    BY <1>2, <1>g, Constants, Zenon DEF DidAccess, Access
  <2>1. CASE Active(p)
    <3>1. Workset(p)' = Workset(p) \cup {o}
      BY <1>2, <2>0, <2>1, Enlist, Constants, Zenon DEF DidAccess, Access
    <3>2. CASE t \in DirSteps /\ o = cwd
      BY <3>1, <3>2, <2>0, <2>1, <1>o, DirStepPoints, ZenonT(40) DEF TouchOf, Active
    <3>3. CASE t \in FileSteps /\ o = arg[p]
      <4>1. /\ t[1] \notin Looking /\ t[2] \notin Looking
            /\ (t[1] \in SawBuf <=> t[2] \in SawBuf) /\ t[2] # "user"
        BY <3>3, <1>u, FileStepPoints, ZenonT(40)
      <4>2. DirBuf \in Workset(p)
        <5>1. CASE t[1] \in SawBuf
          BY <5>1, <2>1, <1>o, ZenonT(40) DEF TouchOf
        <5>2. CASE t[1] \notin SawBuf
          <6>1. t[1] \in SawFile
            BY <3>3, <5>2, FileStepPoints DEF FileSteps, SawFile, SawBuf
          <6> QED
            BY <6>1, <4>1, <2>1, <1>o, ZenonT(40) DEF TouchOf
        <5> QED
          BY <5>1, <5>2, ZenonT(40)
      <4> QED
        BY <3>1, <3>3, <4>1, <4>2, <2>0, <1>o, ZenonT(40) DEF TouchOf, Active
    <3> QED
      BY <1>2, <3>2, <3>3, ZenonT(40) DEF DidAccess, Accessing
  <2>2. CASE ~Active(p)
    BY <1>2, <2>0, <2>2, <1>o, DirStepPoints, FileStepPoints, ZenonT(40)
       DEF DidAccess, Accessing, Access, TouchOf, Active, Workset
  <2> QED
    BY <2>1, <2>2, ZenonT(40)
<1>3. ASSUME NEW o \in Inode, DidUnwind(p, t, o)
      PROVE  TouchOf(p)'
  <2>1. Workset(p)' = Workset(p)
    BY <1>3, Constants, ZenonT(40) DEF DidUnwind, Unwind, Workset, TypeOK
  <2>2. t[1] \notin Looking
    <3>1. CASE t \in DirSteps /\ o = cwd /\ t[1] \in Looking
      <4>1. cwd \in Workset(p)
        BY <3>1, <1>3, <1>o, ZenonT(40) DEF TouchOf, DidUnwind
      <4> QED
        BY <3>1, <4>1, <1>3, ZenonT(40) DEF DidUnwind, Refused, Workset
    <3> QED
      BY <3>1, <1>3, FileStepPoints, ZenonT(40) DEF DidUnwind, Accessing
  <2> QED
    BY <1>3, <1>m, <1>u, <2>1, <2>2, ZenonT(40) DEF DidUnwind, Unwind
<1>4. ASSUME NEW b \in Buf, NEW c \in Content, DidStore(p, t, b, c)
      PROVE  TouchOf(p)'
  <2>0. /\ b \in Obj /\ UNCHANGED <<status, ofile>> /\ pc'[p] = t[2]
        /\ (t[2] # "user" => arg'[p] = arg[p])
    BY <1>4, <1>g, Constants DEF DidStore, Store
  <2>t. (t \in Lookups /\ b = DirBuf) \/ t \in DataSteps
    BY <1>4, ZenonT(40) DEF DidStore, DataSteps
  <2>1. CASE Active(p)
    <3>1. Workset(p)' = Workset(p) \cup {b}
      BY <1>4, <2>0, <2>1, Enlist, Constants, ZenonT(40) DEF DidStore, Store
    <3>2. CASE t \in Lookups /\ b = DirBuf
      BY <3>1, <3>2, <2>0, <2>1, <1>o, LookupPoints, Zenon DEF TouchOf, Active
    <3>3. CASE t \in DataSteps
      BY <3>1, <3>3, <2>0, <2>1, <1>o, <1>u, DataStepPoints, ZenonT(40) DEF TouchOf, Active
    <3> QED
      BY <3>2, <3>3, <2>t
  <2>2. CASE ~Active(p)
    BY <1>4, <2>0, <2>2, <1>o, <2>t, LookupPoints, DataStepPoints
       DEF DidStore, Store, TouchOf, Active, Workset
  <2> QED
    BY <2>1, <2>2
<1>5. CASE t \in Igets /\ iget(p, arg[p], t[1], t[2])
  BY <1>5, <1>m, IgetPoints, EntryPoints, ZenonT(40) DEF iget, txVars, Workset
<1>6. ASSUME NEW o \in Inode, DidUnlock(p, t, o)
      PROVE  TouchOf(p)'
  <2>1. CASE t \in DirUnlocks
    BY <1>6, <2>1, <1>m, DirUnlockPoints, ZenonT(40) DEF DidUnlock, txVars, Workset
  <2>2. CASE t = <<"read_unlock", "user">>
    <3>1. t \in FileUnlocks
      BY <2>2 DEF FileUnlocks
    <3> QED
      BY <1>6, <2>2, <3>1, <1>m, <1>u, FileUnlockPoints, ZenonT(40) DEF DidUnlock, txVars, Workset
  <2> QED
    BY <1>6, <2>1, <2>2, ZenonT(40) DEF DidUnlock
<1>7. ASSUME NEW o \in Inode, DidPut(p, t, o)
      PROVE  TouchOf(p)'
  BY <1>7, <1>m, DirPutPoints, FilePutPoints, ZenonT(40) DEF DidPut, iput, txVars, Workset
<1>8. CASE t = <<"open_fd", "user">> /\ fdalloc(p, arg[p], t[1], t[2])
  <2>1. t \in FileUnlocks
    BY <1>8, ZenonT(40) DEF FileUnlocks
  <2>2. pc'[p] = "user" /\ ofile'[p] = ofile[p] \cup {arg[p]} /\ UNCHANGED <<status, shadow>>
    BY <1>8, <1>g, ZenonT(40) DEF fdalloc, TypeOK
  <2> QED
    BY <2>1, <2>2, <1>u, <1>o, FileUnlockPoints, ZenonT(40) DEF TouchOf, Active, Workset
<1>9. ASSUME NEW c \in Content, DidSet(p, t, c)
      PROVE  TouchOf(p)'
  <2>1. t \in FileUnlocks /\ SetInode(p, arg[p], c, t[2]) /\ c # None
    BY <1>9, Constants, Zenon DEF DidSet, FileUnlocks
  <2>2. Workset(p)' = Workset(p)
    <3>1. CASE Active(p)
      <4>1. Workset(p)' = Workset(p) \cup {arg[p]}
        BY <3>1, <2>1, <1>o, Enlist, Zenon DEF SetInode
      <4>2. arg[p] \in Workset(p)
        BY <3>1, <2>1, <1>o, FileUnlockPoints, Zenon DEF TouchOf
      <4> QED
        BY <4>1, <4>2
    <3>2. CASE ~Active(p)
      BY <3>2, <2>1 DEF SetInode, Workset
    <3> QED
      BY <3>1, <3>2, ZenonT(40)
  <2> QED
    BY <2>1, <2>2, <1>m, FileUnlockPoints DEF SetInode
<1> QED
  BY <1>1, <1>2, <1>3, <1>4, <1>5, <1>6, <1>7, <1>8, <1>9, ZenonT(40) DEF Did

\* those of the loops,
LEMMA LoopTouch ==
    ASSUME TypeOK, TouchInv, NEW p \in Proc, NEW t \in LoopSteps, NEW o \in Obj,
           o \in Workset(p), ~Active(p), LoopDid(p, t, o), Others(p)
    PROVE  TouchInv'
<1> SUFFICES TouchOf(p)'
  BY TouchFrame, Zenon
<1>1. UNCHANGED <<status, ofile, conflict>>
  BY DEF LoopDid, DidLock, DidSwap, DidRelease, DidFree, DidDrop, txVars
<1>2. Workset(p)' = Workset(p)
  <2>1. CASE DidFree(p, t, o)
    <3>1. Workset(p)' = Workset(p) \cup {o}
      BY <2>1, Enlist, Constants, Zenon DEF DidFree
    <3> QED
      BY <3>1
  <2>2. CASE UNCHANGED shadow
    BY <2>2 DEF Workset
  <2> QED
    BY <2>1, <2>2, Zenon DEF LoopDid, DidLock, DidSwap, DidRelease, DidDrop, txVars
<1> QED
  BY <1>1, <1>2, Zenon DEF TouchInv, TouchOf, Active

\* and the system calls.
LEMMA SysTouch ==
    ASSUME TypeOK, PhaseInv, TouchInv, Disciplined, NEW p \in Proc, Syscall(p) \/ txdone(p),
           Others(p)
    PROVE  TouchInv'
<1> SUFFICES TouchOf(p)'
  BY TouchFrame
<1>o. TouchOf(p)
  BY DEF TouchInv
<1>u. "user" \notin SawFile /\ "user" \notin SawBuf /\ "user" \notin Looking
  BY LoopPoints, OutsidePoints
<1>e. ASSUME NEW f \in File, NEW l, Enter(p, l, f), UserMode(p), l \notin Looking,
             l \notin SawBuf, l \in SawFile => f \in ofile[p], UNCHANGED <<status, shadow>>,
             ofile'[p] \subseteq ofile[p]
      PROVE  TouchOf(p)'
  <2>1. pc'[p] = l /\ arg'[p] = f /\ pc[p] = "user"
    BY <1>e, ZenonT(40) DEF Enter, TypeOK, UserMode
  <2> QED
    BY <1>e, <2>1, <1>o, <1>u, ZenonT(40) DEF TouchOf, Active, Workset
<1>1. ASSUME NEW f \in File, sys_open(p, f) \/ sys_read(p, f)
             \/ sys_write(p, f) \/ sys_unlink(p, f)
      PROVE  TouchOf(p)'
  BY <1>1, <1>e, EntryPoints, ZenonT(40) DEF sys_open, sys_read, sys_write, sys_unlink, MayCall, txVars
<1>2. ASSUME NEW f \in File, sys_close(p, f)
      PROVE  TouchOf(p)'
  <2>1. ofile'[p] = ofile[p] \ {f}
    BY <1>2, Zenon DEF sys_close, TypeOK
  <2> QED
    BY <1>2, <2>1, <1>e, EntryPoints, Zenon DEF sys_close
<1>3. CASE sys_txbegin(p)
  <2>1. Workset(p)' = {} /\ ofile'[p] = {} /\ pc'[p] = "user"
    BY <1>3 DEF sys_txbegin, Disciplined, Workset, TypeOK, calls
  <2> QED
    BY <2>1, <1>u, ZenonT(40) DEF TouchOf
<1>4. CASE sys_txcommit(p) \/ sys_txabort(p)
  <2>1. ~Active(p)' /\ Workset(p)' = Workset(p) /\ pc[p] = "user"
    BY <1>4, ZenonT(40) DEF sys_txcommit, sys_txabort, TypeOK, Active, Workset, UserMode
  <2> QED
    BY <2>1, <1>o, <1>u, ZenonT(40) DEF TouchOf
<1>5. CASE txdone(p)
  <2>1. Workset(p)' = {} /\ ~Active(p)'
    BY <1>5, ZenonT(40) DEF txdone, At, PhaseInv, PhaseOf, Workset, TypeOK, Active
  <2> QED
    BY <2>1, ZenonT(40) DEF TouchOf
<1> QED
  BY <1>1, <1>2, <1>3, <1>4, <1>5 DEF Syscall

-----------------------------------------------------------------------------
(* Who uses an inode, and when it is freed.                                  *)

\* Who uses an inode.
LEMMA UserPairs ==
    ASSUME NEW o
    PROVE  /\ \A u \in Users(o) : u = <<u[1], u[2]>>
           /\ \A p \in Proc : \A k : <<p, k>> \in Users(o) <=> Uses(p, k, o)
           /\ \A k : <<None, k>> \in Users(o) <=> k = "cwd" /\ o = cwd
           /\ \A u \in Users(o) : u[1] \in Proc \cup {None}
<1>1. None \notin Proc
  BY Constants
<1>2. \A u \in Users(o) : u = <<u[1], u[2]>> /\ u[1] \in Proc \cup {None}
  BY DEF Users
<1>3. ASSUME NEW p \in Proc, NEW k PROVE <<p, k>> \in Users(o) <=> Uses(p, k, o)
  <2>1. Uses(p, k, o) => k \in {"file", "arg", "dir", "tx", "cwd"}
    BY Zenon DEF Uses
  <2> QED
    BY <1>1, <2>1 DEF Users
<1>4. ASSUME NEW k PROVE <<None, k>> \in Users(o) <=> k = "cwd" /\ o = cwd
  BY <1>1 DEF Users
<1> QED
  BY <1>2, <1>3, <1>4, Zenon

\* The rest of iput frees the inode if it drops the last reference.
LEMMA DropEffect ==
    ASSUME TypeOK, NEW o \in Obj, DropRef(o)
    PROVE  \A x \in Obj : val'[x] = Freed => val[x] = Freed \/ (x = o /\ ref[x] = 1)
BY ZenonT(40) DEF DropRef, TypeOK

\* p frees only an inode that p alone has a reference to.
Frees(p) == \A x \in Obj : val'[x] = Freed =>
    val[x] = Freed \/ (x \in Inode /\ ref[x] = 1 /\ \E k : Uses(p, k, x))

\* The system calls themselves free nothing.
LEMMA SysFrees ==
    ASSUME NEW p \in Proc, Syscall(p) \/ txdone(p)
    PROVE  UNCHANGED val /\ Frees(p)
<1>1. UNCHANGED val
  BY ZenonT(40) DEF Syscall, sys_txbegin, sys_txcommit, sys_txabort, sys_open, sys_close, sys_read,
         sys_write, sys_unlink, txdone, objVars
<1> QED
  BY <1>1, ZenonT(40) DEF Frees

=============================================================================
