----------------------------- MODULE LogProofs -----------------------------
(***************************************************************************)
(* Proofs about the write-ahead log, for any number of processes, blocks   *)
(* and values, and any sizes of the log and of a call that satisfy         *)
(* LogAssumption.                                                          *)
(***************************************************************************)
EXTENDS Log, FiniteSetTheorems, TLAPS

\* The set of active calls and its number are well defined.
LEMMA OpFinite ==
    ASSUME TypeOK
    PROVE  /\ IsFiniteSet(Op)
           /\ Cardinality(Op) \in Nat
           /\ (Cardinality(Op) = 0) <=> (Op = {})
<1>1. IsFiniteSet(Op)
  BY LogAssumption, FS_Subset DEF Op
<1> QED
  BY <1>1, FS_CardinalityType, FS_EmptySet

\* The cleared header.
LEMMA EmptyHeader == <<>> \in Header /\ Len(<<>>) = 0 /\ DOMAIN <<>> = {}
BY LogAssumption DEF Header

\* What the length of a header is good for.
LEMMA HeaderElement ==
    ASSUME NEW h \in Header, NEW i \in 1..Len(h)
    PROVE  h[i] \in Block /\ i \in 1..LOGBLOCKS
BY LogAssumption DEF Header

\* The length of a header.
LEMMA HeaderLength ==
    ASSUME NEW h \in Header
    PROVE  /\ Len(h) \in Nat /\ Len(h) <= LOGBLOCKS
           /\ \A b : Len(Append(h, b)) = Len(h) + 1
BY LogAssumption DEF Header

\* log_write appends to a header that is not full.
LEMMA AppendHeader ==
    ASSUME NEW h \in Header, NEW b \in Block, Len(h) < LOGBLOCKS
    PROVE  Append(h, b) \in Header
BY LogAssumption DEF Header

-----------------------------------------------------------------------------
(* Types and control.                                                       *)

\* The log starts with no call and no committer.
LEMMA ControlInit == Init => TypeOK /\ ControlInv
<1> SUFFICES ASSUME Init PROVE TypeOK /\ ControlInv
  OBVIOUS
<1>1. TypeOK
  <2>1. disk \in [Block -> Value] /\ dlog \in [1..LOGBLOCKS -> Value]
    BY LogAssumption DEF Init
  <2>2. dhead \in Header /\ lh \in Header
    BY EmptyHeader DEF Init
  <2>4. cache \in [Block -> Value \cup {NotCached}]
    BY DEF Init
  <2>5. pc \in [Proc -> PCs] /\ wrote \in [Proc -> SUBSET Block]
    BY DEF Init, PCs
  <2>6. tail \in 1..(LOGBLOCKS + 1)
    BY LogAssumption DEF Init
  <2> QED
    BY <2>1, <2>2, <2>4, <2>5, <2>6, Zenon DEF Init, TypeOK
<1>2. Op = {} /\ Committer = {}
  BY DEF Init, Op, Committer
<1>3. Cardinality(Op) = 0
  BY <1>2, FS_EmptySet
<1>4. ControlInv
  BY <1>2, <1>3 DEF Init, ControlInv, At
<1> QED
  BY <1>1, <1>4

\* Every step keeps the types.
LEMMA TypeStep ==
    ASSUME TypeOK, ControlInv, [Next]_vars
    PROVE  TypeOK'
<1> USE LogAssumption DEF TypeOK, durable
<1>1. CASE Crash
  <2>1. /\ cache' \in [Block -> Value \cup {NotCached}]
        /\ pc' \in [Proc -> PCs] /\ wrote' \in [Proc -> SUBSET Block]
    BY <1>1 DEF Crash, PCs
  <2>2. lh' \in Header /\ tail' \in 1..(LOGBLOCKS + 1)
    BY <1>1, EmptyHeader DEF Crash
  <2> QED
    BY <1>1, <2>1, <2>2, Zenon DEF Crash
<1>2. CASE read_head
  BY <1>2 DEF read_head
<1>3. CASE recover_install
  <2>1. tail \in 1..Len(lh)
    BY <1>3 DEF recover_install, ControlInv
  <2>6. lh[tail] \in Block /\ tail \in 1..LOGBLOCKS /\ dlog[tail] \in Value
    BY <2>1, HeaderElement
  <2>2. /\ disk' \in [Block -> Value]
        /\ cache' \in [Block -> Value \cup {NotCached}]
    BY <1>3, <2>6 DEF recover_install, install_block
  <2>3. /\ lh' \in {lh, <<>>}
        /\ boot' \in {"read_head", "install_trans", "write_head", "up"}
    BY <1>3 DEF recover_install
  <2>4. tail' \in 1..(LOGBLOCKS + 1)
    BY <1>3, <2>6 DEF recover_install
  <2>5. lh' \in Header
    BY <2>3, EmptyHeader
  <2> QED
    BY <1>3, <2>2, <2>3, <2>4, <2>5 DEF recover_install, install_block
<1>4. CASE recover_clear
  BY <1>4 DEF recover_clear
<1>5. ASSUME NEW p \in Proc, call(p) PROVE TypeOK'
  BY <1>5 DEF call, PCs
<1>6. ASSUME NEW p \in Proc, begin_op(p) PROVE TypeOK'
  BY <1>6 DEF begin_op, PCs
<1>7. ASSUME NEW p \in Proc, end_op(p) PROVE TypeOK'
  <2>1. outstanding' \in Nat
    <3>1. Op # {}
      BY <1>7 DEF end_op, Op
    <3> QED
      BY <1>7, <3>1, OpFinite DEF ControlInv, end_op
  <2>2. pc' \in [Proc -> PCs]
    BY <1>7 DEF end_op, CommitEntry, Wakeup, PCs
  <2>3. /\ wrote' \in [Proc -> SUBSET Block]
        /\ committing' \in BOOLEAN /\ panicked' \in BOOLEAN
    BY <1>7, ZenonT(40) DEF end_op
  <2>4. tail' \in 1..(LOGBLOCKS + 1)
    BY <1>7 DEF end_op
  <2> QED
    BY <1>7, <2>1, <2>2, <2>3, <2>4, Zenon DEF end_op
<1>8. ASSUME NEW p \in Proc, write_log(p) PROVE TypeOK'
  <2>1. tail \in 1..Len(lh)
    BY <1>8 DEF write_log, ControlInv, At
  <2>5. lh[tail] \in Block /\ tail \in 1..LOGBLOCKS /\ bread(lh[tail]) \in Value
    BY <2>1, HeaderElement DEF bread
  <2>2. /\ dlog' \in [1..LOGBLOCKS -> Value]
        /\ cache' \in [Block -> Value \cup {NotCached}]
    BY <1>8, <2>5, Zenon DEF write_log
  <2>3. pc' \in [Proc -> PCs]
    BY <1>8, Zenon DEF write_log, PCs
  <2>4. tail' \in 1..(LOGBLOCKS + 1)
    BY <1>8, <2>5 DEF write_log
  <2> QED
    BY <1>8, <2>2, <2>3, <2>4 DEF write_log
<1>9. ASSUME NEW p \in Proc, write_head(p) PROVE TypeOK'
  BY <1>9 DEF write_head, PCs
<1>10. ASSUME NEW p \in Proc, install_trans(p) PROVE TypeOK'
  <2>1. tail \in 1..Len(lh)
    BY <1>10 DEF install_trans, ControlInv, At
  <2>7. lh[tail] \in Block /\ tail \in 1..LOGBLOCKS /\ dlog[tail] \in Value
    BY <2>1, HeaderElement
  <2>2. /\ disk' \in [Block -> Value]
        /\ cache' \in [Block -> Value \cup {NotCached}]
    BY <1>10, <2>7 DEF install_trans, install_block
  <2>3. lh' \in {lh, <<>>}
    BY <1>10 DEF install_trans
  <2>4. tail' \in 1..(LOGBLOCKS + 1)
    BY <1>10, <2>7 DEF install_trans
  <2>5. pc' \in [Proc -> PCs] /\ pinned' \in SUBSET Block
    BY <1>10 DEF install_trans, PCs
  <2>6. lh' \in Header
    BY <2>3, EmptyHeader
  <2> QED
    BY <1>10, <2>2, <2>4, <2>5, <2>6, Zenon DEF install_trans, install_block
<1>11. ASSUME NEW p \in Proc, finish_commit(p) PROVE TypeOK'
  BY <1>11, ZenonT(40) DEF finish_commit, Wakeup, PCs
<1>12. ASSUME NEW p \in Proc, kkill(p) PROVE TypeOK'
  BY <1>12 DEF kkill, PCs
<1>13. ASSUME NEW p \in Proc, NEW b \in Block, NEW v \in Value, log_write(p, b, v)
       PROVE  TypeOK'
  <2>1. /\ lh' \in {lh, Append(lh, b)} /\ pinned' \in SUBSET Block
        /\ lh' # lh => Len(lh) < LOGBLOCKS
    BY <1>13 DEF log_write, LogBlock
  <2>2. /\ cache' \in [Block -> Value \cup {NotCached}]
        /\ wrote' \in [Proc -> SUBSET Block]
        /\ panicked' \in BOOLEAN
    BY <1>13, Zenon DEF log_write
  <2>3. lh' \in Header
    BY <2>1, AppendHeader, ZenonT(40)
  <2> QED
    BY <1>13, <2>1, <2>2, <2>3 DEF log_write
<1>14. ASSUME NEW b \in Block, bget_recycle(b) PROVE TypeOK'
  BY <1>14 DEF bget_recycle
<1>15. CASE UNCHANGED vars
  BY <1>15 DEF vars, volatile
<1> QED
  BY <1>1, <1>2, <1>3, <1>4, <1>5, <1>6, <1>7, <1>8, <1>9, <1>10, <1>11, <1>12,
     <1>13, <1>14, <1>15, Zenon DEF Next, Recovery, CommitStep

\* A header that is not empty has a first block.
LEMMA NonEmptyHeader ==
    ASSUME NEW h \in Header, h # <<>>
    PROVE  1 \in 1..Len(h)
BY DEF Header

\* The committer is alone: every other process is outside or asleep.
LEMMA CommitterAlone ==
    ASSUME TypeOK, ControlInv, NEW p \in Committer
    PROVE  /\ p \in Proc /\ Op = {} /\ Committer = {p} /\ committing /\ boot = "up"
           /\ \A q \in Proc \ {p} : pc[q] \in {"user", "begin_op", "sleep"}
<1>1. p \in Proc /\ Op = {} /\ committing /\ Committer = {p}
  BY Zenon DEF ControlInv, Committer
<1>2. boot = "up"
  BY <1>1 DEF ControlInv, Committer
<1>3. ASSUME NEW q \in Proc \ {p} PROVE pc[q] \in {"user", "begin_op", "sleep"}
  BY <1>1 DEF Committer, Op, TypeOK, PCs
<1> QED
  BY <1>1, <1>2, <1>3, Zenon

\* Every step keeps the calls, the committer and recovery apart.
LEMMA ControlStep ==
    ASSUME TypeOK, ControlInv, [Next]_vars
    PROVE  ControlInv'
<1> USE DEF At
<1>1. CASE Crash
  <2>1. Op' = {} /\ Committer' = {} /\ Cardinality(Op') = 0
    BY <1>1, FS_EmptySet, ZenonT(40) DEF Crash, Op, Committer
  <2> QED
    BY <1>1, <2>1 DEF Crash, ControlInv
<1>2. CASE read_head
  <2>1. Op' = Op /\ Committer' = Committer
    BY <1>2 DEF read_head, Op, Committer
  <2>2. boot' = "install_trans" => tail' \in 1..Len(lh')
    BY <1>2, NonEmptyHeader, Zenon DEF read_head, TypeOK
  <2> QED
    BY <1>2, <2>1, <2>2 DEF read_head, ControlInv
<1>3. CASE recover_install
  <2>1. Op' = Op /\ Committer' = Committer
    BY <1>3, Zenon DEF recover_install, install_block, Op, Committer
  <2>2. boot' = "install_trans" => tail' \in 1..Len(lh')
    BY <1>3, EmptyHeader DEF recover_install, ControlInv, TypeOK, Header
  <2> QED
    BY <1>3, <2>1, <2>2, Zenon DEF recover_install, install_block, ControlInv
<1>4. CASE recover_clear
  <2>1. Op' = Op /\ Committer' = Committer
    BY <1>4 DEF recover_clear, Op, Committer
  <2> QED
    BY <1>4, <2>1 DEF recover_clear, ControlInv
<1>5. ASSUME NEW p \in Proc, call(p) PROVE ControlInv'
  <2>1. Op' = Op /\ Committer' = Committer
    BY <1>5 DEF call, Op, Committer, TypeOK
  <2> QED
    BY <1>5, <2>1 DEF call, Running, durable, ControlInv, TypeOK
<1>6. ASSUME NEW p \in Proc, begin_op(p) PROVE ControlInv'
  <2>1. CASE MustWait
    <3>1. Op' = Op /\ Committer' = Committer
      BY <1>6, <2>1 DEF begin_op, Op, Committer, TypeOK
    <3> QED
      BY <1>6, <2>1, <3>1 DEF begin_op, Running, durable, ControlInv, TypeOK
  <2>2. CASE ~MustWait
    <3>1. Op' = Op \cup {p} /\ p \notin Op /\ Committer' = Committer
      BY <1>6, <2>2 DEF begin_op, Op, Committer, TypeOK
    <3>2. Cardinality(Op') = Cardinality(Op) + 1
      BY <3>1, OpFinite, FS_AddElement
    <3>3. Committer = {}
      BY <2>2 DEF MustWait, ControlInv
    <3> QED
      BY <1>6, <2>2, <3>1, <3>2, <3>3, Zenon DEF begin_op, Running, durable, ControlInv, TypeOK
  <2> QED
    BY <2>1, <2>2
<1>7. ASSUME NEW p \in Proc, end_op(p) PROVE ControlInv'
  <2>1. p \in Op /\ Committer = {} /\ ~committing
    BY <1>7 DEF end_op, Op, ControlInv
  <2>2. Op' = Op \ {p} /\ Cardinality(Op') = Cardinality(Op) - 1
    <3>1. Op' = Op \ {p}
      BY <1>7, <2>1, Zenon DEF end_op, Op, CommitEntry, Wakeup, TypeOK
    <3> QED
      BY <2>1, <3>1, OpFinite, FS_RemoveElement, Zenon
  <2>3. CASE outstanding = 1
    <3>1. Op' = {}
      <4>1. IsFiniteSet(Op')
        BY <2>2, OpFinite, FS_Subset
      <4> QED
        BY <2>2, <2>3, <4>1, FS_EmptySet DEF ControlInv
    <3>2. Committer' = {p} /\ pc'[p] = CommitEntry
      BY <1>7, <2>1, <2>3 DEF end_op, Committer, CommitEntry, TypeOK
    <3>3. CommitEntry = "write_log" => tail' \in 1..Len(lh')
      BY <1>7, <2>1, <2>3, NonEmptyHeader DEF end_op, CommitEntry, TypeOK
    <3> QED
      BY <1>7, <2>1, <2>2, <2>3, <3>1, <3>2, <3>3
         DEF end_op, Running, durable, ControlInv, CommitEntry, TypeOK
  <2>4. CASE outstanding # 1
    <3>1. Op' # {}
      <4>1. Cardinality(Op') # 0
        BY <2>2, <2>4, OpFinite DEF ControlInv
      <4> QED
        BY <4>1, FS_EmptySet
    <3>2. Committer' = {}
      BY <1>7, <2>1, <2>4, Zenon DEF end_op, Committer, Wakeup, TypeOK
    <3> QED
      BY <1>7, <2>1, <2>2, <2>4, <3>1, <3>2
         DEF end_op, Running, durable, ControlInv, Wakeup, TypeOK
  <2> QED
    BY <2>3, <2>4
<1>8. ASSUME NEW p \in Proc, write_log(p) PROVE ControlInv'
  <2>1. p \in Committer
    BY <1>8 DEF write_log, Committer
  <2>2. Op' = {} /\ Committer' = {p}
    BY <1>8, <2>1, CommitterAlone DEF write_log, Op, Committer, TypeOK
  <2>3. pc' = pc => tail' \in 1..Len(lh')
    BY <1>8 DEF write_log, ControlInv, TypeOK, Header
  <2>4. pc' # pc => pc'[p] = "write_head" /\ tail' = 1
    BY <1>8, Zenon DEF write_log, TypeOK
  <2> QED
    BY <1>8, <2>1, <2>2, <2>3, <2>4, CommitterAlone, ZenonT(40)
       DEF write_log, Running, ControlInv, Committer, TypeOK
<1>9. ASSUME NEW p \in Proc, write_head(p) PROVE ControlInv'
  <2>1. p \in Committer
    BY <1>9, Zenon DEF write_head, Committer
  <2>2. Op' = {} /\ Committer' = {p}
    BY <1>9, <2>1, CommitterAlone, Zenon DEF write_head, Op, Committer, TypeOK
  <2>3. pc'[p] = "install_trans" => tail' \in 1..Len(lh')
    BY <1>9, NonEmptyHeader, ZenonT(40) DEF write_head, ControlInv, TypeOK
  <2>4. /\ ~At("write_log")' /\ boot' = "up" /\ outstanding' = 0 /\ committing'
        /\ \A q \in Proc : wrote'[q] = {}
    <3>1. outstanding = 0 /\ \A q \in Proc : wrote[q] = {}
      BY <2>1, CommitterAlone, FS_EmptySet, ZenonT(40) DEF ControlInv
    <3> QED
      BY <1>9, <2>1, <2>2, <3>1, CommitterAlone, Zenon DEF write_head, Committer, TypeOK
  <2>5. At("install_trans")' => tail' \in 1..Len(lh')
    BY <2>2, <2>3 DEF Committer
  <2>6. /\ At("write_head")' => tail' = 1
        /\ At("done")' => lh' = <<>>
    BY <1>9, <2>2 DEF write_head, Committer, ControlInv, TypeOK
  <2>7. Cardinality(Op') = 0
    BY <2>2, FS_EmptySet, Zenon
  <2> QED
    BY <2>2, <2>4, <2>5, <2>6, <2>7, Zenon DEF ControlInv
<1>10. ASSUME NEW p \in Proc, install_trans(p) PROVE ControlInv'
  <2>1. p \in Committer
    BY <1>10, Zenon DEF install_trans, Committer
  <2>2. Op' = {} /\ Committer' = {p}
    BY <1>10, <2>1, CommitterAlone, Zenon DEF install_trans, Op, Committer, TypeOK
  <2>3. pc' = pc => tail' \in 1..Len(lh')
    BY <1>10 DEF install_trans, ControlInv, TypeOK, Header
  <2>4. pc' # pc => pc'[p] = "write_head" /\ tail' = 1
    BY <1>10, Zenon DEF install_trans, TypeOK
  <2> QED
    BY <1>10, <2>1, <2>2, <2>3, <2>4, CommitterAlone, ZenonT(40)
       DEF install_trans, install_block, Running, ControlInv, Committer, TypeOK
<1>11. ASSUME NEW p \in Proc, finish_commit(p) PROVE ControlInv'
  <2>1. p \in Committer
    BY <1>11 DEF finish_commit, Committer
  <2>2. Op' = {} /\ Committer' = {}
    BY <1>11, <2>1, CommitterAlone DEF finish_commit, Wakeup, Op, Committer, TypeOK
  <2>3. lh = <<>>
    BY <1>11, Zenon DEF finish_commit, ControlInv
  <2> QED
    BY <1>11, <2>1, <2>2, <2>3, CommitterAlone, ZenonT(40)
       DEF finish_commit, Wakeup, Running, durable, ControlInv, Committer, TypeOK
<1>12. ASSUME NEW p \in Proc, kkill(p) PROVE ControlInv'
  <2>1. Op' = Op /\ Committer' = Committer
    BY <1>12, Zenon DEF kkill, Op, Committer, TypeOK
  <2> QED
    BY <1>12, <2>1, Zenon DEF kkill, Running, durable, ControlInv, TypeOK
<1>13. ASSUME NEW p \in Proc, NEW b \in Block, NEW v \in Value, log_write(p, b, v)
       PROVE  ControlInv'
  <2>1. p \in Op /\ Committer = {} /\ Op' = Op /\ Committer' = Committer
    BY <1>13, Zenon DEF log_write, Op, Committer, ControlInv
  <2> QED
    BY <1>13, <2>1, Zenon DEF log_write, Running, durable, ControlInv, Op, Committer, TypeOK
<1>14. ASSUME NEW b \in Block, bget_recycle(b) PROVE ControlInv'
  <2>1. Op' = Op /\ Committer' = Committer
    BY <1>14, Zenon DEF bget_recycle, Op, Committer
  <2> QED
    BY <1>14, <2>1 DEF bget_recycle, durable, ControlInv
<1>15. CASE UNCHANGED vars
  <2>1. Op' = Op /\ Committer' = Committer
    BY <1>15 DEF vars, volatile, Op, Committer
  <2> QED
    BY <1>15, <2>1, Zenon DEF vars, volatile, durable, ControlInv
<1> QED
  BY <1>1, <1>2, <1>3, <1>4, <1>5, <1>6, <1>7, <1>8, <1>9, <1>10, <1>11, <1>12,
     <1>13, <1>14, <1>15, Zenon DEF Next, Recovery, CommitStep

\* In every reachable state the variables have their types and the calls, the
\* committer and recovery keep out of each other's way.
THEOREM Control == Spec => [](TypeOK /\ ControlInv)
<1>1. TypeOK /\ ControlInv /\ [Next]_vars => TypeOK' /\ ControlInv'
  BY TypeStep, ControlStep
<1> QED
  BY <1>1, ControlInit, PTL DEF Spec

\* The variables of log.c keep their types.
THEOREM TypeCorrect == Spec => []TypeOK
BY Control, PTL

\* The log commits only while no call is active, by one process, and
\* log.outstanding counts the active calls (begin_op, end_op, commit).
THEOREM CommitsWhenQuiet == Spec => []QuietCommit
<1>1. TypeOK /\ ControlInv => QuietCommit
  <2> SUFFICES ASSUME TypeOK, ControlInv, NEW p \in Committer
               PROVE  Cardinality(Committer) = 1
    BY Zenon DEF QuietCommit, ControlInv
  <2> QED
    BY CommitterAlone, FS_Singleton, Zenon
<1> QED
  BY <1>1, Control, PTL

-----------------------------------------------------------------------------
(* Log space.                                                               *)

\* Appending to a header adds the block to the logged ones.
LEMMA AppendLogged ==
    ASSUME NEW h \in Header, NEW b
    PROVE  Logged(Append(h, b)) = Logged(h) \cup {b}
<1>1. /\ Len(h) \in Nat /\ DOMAIN h = 1..Len(h)
      /\ DOMAIN Append(h, b) = 1..(Len(h) + 1)
      /\ \A i \in 1..Len(h) : Append(h, b)[i] = h[i]
      /\ Append(h, b)[Len(h) + 1] = b
  BY DEF Header
<1>2. ASSUME NEW x \in Logged(Append(h, b)) PROVE x \in Logged(h) \cup {b}
  <2>1. PICK i \in 1..(Len(h) + 1) : x = Append(h, b)[i]
    BY <1>1 DEF Logged
  <2>2. CASE i = Len(h) + 1
    BY <1>1, <2>1, <2>2
  <2>3. CASE i \in 1..Len(h)
    BY <1>1, <2>1, <2>3 DEF Logged
  <2> QED
    BY <1>1, <2>2, <2>3
<1>3. ASSUME NEW x \in Logged(h) PROVE x \in Logged(Append(h, b))
  <2>1. PICK i \in 1..Len(h) : x = h[i]
    BY <1>1 DEF Logged
  <2> QED
    BY <1>1, <2>1 DEF Logged
<1>4. b \in Logged(Append(h, b))
  <2>1. Len(h) + 1 \in DOMAIN Append(h, b)
    BY <1>1
  <2> QED
    BY <1>1, <2>1 DEF Logged
<1> QED
  BY <1>2, <1>3, <1>4, Zenon

\* The unused reservations are part of what begin_op reserved.
LEMMA UnusedBound ==
    TypeOK => /\ IsFiniteSet(Unused)
              /\ Cardinality(Unused) \in Nat
              /\ Cardinality(Unused) <= Cardinality(Op) * MAXOPBLOCKS
<1> SUFFICES ASSUME TypeOK
             PROVE  /\ IsFiniteSet(Unused)
                    /\ Cardinality(Unused) \in Nat
                    /\ Cardinality(Unused) <= Cardinality(Op) * MAXOPBLOCKS
  OBVIOUS
<1>1. IsFiniteSet(1..MAXOPBLOCKS) /\ Cardinality(1..MAXOPBLOCKS) = MAXOPBLOCKS
  BY LogAssumption, FS_Interval
<1>2. /\ IsFiniteSet(Op \X (1..MAXOPBLOCKS))
      /\ Cardinality(Op \X (1..MAXOPBLOCKS)) = Cardinality(Op) * MAXOPBLOCKS
  BY <1>1, OpFinite, FS_Product, ZenonT(40)
<1>3. Unused \in SUBSET (Op \X (1..MAXOPBLOCKS))
  BY DEF Unused
<1> QED
  BY <1>2, <1>3, FS_Subset, FS_CardinalityType

\* The same in the state after a step.
LEMMA UnusedBoundNext ==
    (TypeOK => /\ IsFiniteSet(Unused)
               /\ Cardinality(Unused) \in Nat
               /\ Cardinality(Unused) <= Cardinality(Op) * MAXOPBLOCKS)'
BY UnusedBound, PTL

\* The number of blocks a call has logged is well defined.
LEMMA WroteFinite ==
    ASSUME TypeOK, NEW p \in Proc
    PROVE  IsFiniteSet(wrote[p]) /\ Cardinality(wrote[p]) \in Nat
<1>1. wrote[p] \in SUBSET Block
  BY DEF TypeOK
<1> QED
  BY <1>1, LogAssumption, FS_Subset, FS_CardinalityType

\* An active call always has a reservation left, so the log is not full.
LEMMA RoomForCaller ==
    ASSUME TypeOK, SpaceInv, NEW p \in Op
    PROVE  Len(lh) < LOGBLOCKS
<1>1. <<p, MAXOPBLOCKS>> \in Unused
  BY LogAssumption, WroteFinite DEF Unused, SpaceInv, Op
<1>2. Cardinality(Unused) \in Nat /\ Cardinality(Unused) # 0
  BY <1>1, UnusedBound, FS_EmptySet
<1>3. Len(lh) \in Nat
  BY DEF TypeOK, Header
<1> QED
  BY <1>2, <1>3, LogAssumption DEF SpaceInv

\* Fewer reservations and no more blocks than before fit as before.
LEMMA SpaceShrinks ==
    ASSUME TypeOK, TypeOK', SpaceInv,
           Unused' \subseteq Unused, Len(lh') <= Len(lh)
    PROVE  Len(lh') + Cardinality(Unused') <= LOGBLOCKS
<1>1. Cardinality(Unused') <= Cardinality(Unused) /\ Cardinality(Unused') \in Nat
  BY UnusedBound, FS_Subset, FS_CardinalityType, Zenon
<1>2. Len(lh) \in Nat /\ Len(lh') \in Nat
  BY DEF TypeOK, Header
<1> QED
  BY <1>1, <1>2, UnusedBound, LogAssumption DEF SpaceInv

\* log_write keeps within the reservation of its call, and does not panic.
LEMMA SpaceLogWrite ==
    ASSUME TypeOK, ControlInv, SpaceInv, TypeOK',
           NEW p \in Proc, NEW b \in Block, NEW v \in Value, log_write(p, b, v)
    PROVE  SpaceInv' /\ panicked' = panicked
<1>1. p \in Op /\ Op' = Op
  BY DEF log_write, Op
<1>2. LogBlock(b) /\ panicked' = panicked
  <2>1. Len(lh) < LOGBLOCKS /\ Len(lh) \in Nat
    BY <1>1, RoomForCaller, HeaderLength DEF TypeOK
  <2>2. outstanding >= 1
    <3>1. outstanding = Cardinality(Op)
      BY Zenon DEF ControlInv
    <3> QED
      BY <1>1, <3>1, OpFinite
  <2>3. ~(Len(lh) >= LOGBLOCKS \/ outstanding < 1)
    BY <2>1, <2>2, LogAssumption DEF TypeOK
  <2> QED
    BY <2>3 DEF log_write
<1>3. /\ wrote' = [wrote EXCEPT ![p] = @ \cup {b}]
      /\ wrote'[p] = wrote[p] \cup {b}
      /\ \A q \in Proc \ {p} : wrote'[q] = wrote[q]
      /\ Cardinality(wrote'[p]) <= OPBLOCKS
  BY DEF log_write, TypeOK
<1>4. Cardinality(wrote'[p]) = IF b \in wrote[p] THEN Cardinality(wrote[p])
                               ELSE Cardinality(wrote[p]) + 1
  BY <1>3, WroteFinite, FS_AddElement, Zenon
<1>5. Logged(lh') = Logged(lh) \cup {b}
  BY <1>2, AppendLogged, ZenonT(40) DEF LogBlock, TypeOK
<1>6. \A q \in Proc : wrote'[q] \subseteq Logged(lh')
  BY <1>3, <1>5, Zenon DEF SpaceInv
<1>7. \A q \in Proc : Cardinality(wrote'[q]) <= OPBLOCKS
  BY <1>3, Zenon DEF SpaceInv
<1>8. Unused' \subseteq Unused
  <2> SUFFICES ASSUME NEW x \in Unused' PROVE x \in Unused
    OBVIOUS
  <2>1. x \in Op \X (1..MAXOPBLOCKS) /\ Cardinality(wrote'[x[1]]) < x[2]
    BY <1>1, Zenon DEF Unused
  <2>2. Cardinality(wrote[x[1]]) \in Nat /\ x[1] \in Proc /\ x[2] \in Nat
    BY <2>1, WroteFinite DEF Op
  <2>3. Cardinality(wrote[x[1]]) < x[2]
    <3>1. CASE x[1] = p
      <4>1. Cardinality(wrote[p]) <= Cardinality(wrote'[p])
        BY <1>4, WroteFinite
      <4>2. Cardinality(wrote'[p]) \in Nat
        BY <1>4, WroteFinite
      <4>3. /\ Cardinality(wrote[p]) \in Nat /\ x[2] \in Nat
            /\ Cardinality(wrote'[p]) < x[2]
        BY <2>1, <2>2, <3>1, Zenon
      <4>4. Cardinality(wrote[p]) < x[2]
        BY <4>1, <4>2, <4>3
      <4> QED
        BY <3>1, <4>4, Zenon
    <3>2. CASE x[1] # p
      BY <2>1, <2>2, <3>2, <1>3, Zenon
    <3> QED
      BY <3>1, <3>2, Zenon
  <2> QED
    BY <2>1, <2>3 DEF Unused
<1>9. CASE b \in Logged(lh)
  <2>1. lh' = lh /\ Len(lh') <= Len(lh)
    BY <1>2, <1>9, HeaderLength DEF LogBlock, TypeOK
  <2>2. Len(lh') + Cardinality(Unused') <= LOGBLOCKS
    BY <1>8, <2>1, SpaceShrinks, Zenon
  <2> QED
    BY <1>2, <1>6, <1>7, <2>2, Zenon DEF SpaceInv
<1>10. CASE b \notin Logged(lh)
  <2> DEFINE k == Cardinality(wrote[p]) + 1
  <2>1. b \notin wrote[p] /\ Cardinality(wrote'[p]) = k /\ k \in Nat
    <3>1. b \notin wrote[p]
      BY <1>10 DEF SpaceInv
    <3>2. Cardinality(wrote'[p]) = k
      BY <1>4, <3>1
    <3>3. k \in Nat
      BY WroteFinite
    <3> QED
      BY <3>1, <3>2, <3>3, ZenonT(40)
  <2>2. <<p, k>> \in Unused
    BY <1>1, <1>3, <2>1, LogAssumption, WroteFinite DEF Unused
  <2>3. <<p, k>> \notin Unused'
    BY <2>1 DEF Unused
  <2>4. Unused' \in SUBSET (Unused \ {<<p, k>>})
    BY <1>8, <2>3
  <2>5. /\ IsFiniteSet(Unused \ {<<p, k>>})
        /\ Cardinality(Unused \ {<<p, k>>}) = Cardinality(Unused) - 1
    BY <2>2, UnusedBound, FS_RemoveElement, Zenon
  <2>6. Cardinality(Unused') <= Cardinality(Unused) - 1 /\ Cardinality(Unused') \in Nat
    BY <2>4, <2>5, FS_Subset, FS_CardinalityType
  <2>7. Len(lh) \in Nat /\ Len(lh') = Len(lh) + 1
    <3>1. lh' = Append(lh, b) /\ lh \in Header
      BY <1>2, <1>10 DEF LogBlock, TypeOK
    <3> QED
      BY <3>1, HeaderLength
  <2>8. Len(lh') + Cardinality(Unused') <= LOGBLOCKS
    <3>1. Len(lh) + Cardinality(Unused) <= LOGBLOCKS /\ Cardinality(Unused) \in Nat
      BY UnusedBound DEF SpaceInv
    <3> QED
      BY <2>6, <2>7, <3>1, LogAssumption
  <2> QED
    BY <1>2, <1>6, <1>7, <2>8 DEF SpaceInv
<1> QED
  BY <1>2, <1>9, <1>10

\* With no active call the header alone has to fit.
LEMMA SpaceQuiet == TypeOK /\ ControlInv /\ Op = {} => SpaceInv
<1> SUFFICES ASSUME TypeOK, ControlInv, Op = {} PROVE SpaceInv
  OBVIOUS
<1>1. Unused = {} /\ Cardinality(Unused) = 0
  <2>1. Unused = {}
    BY DEF Unused
  <2> QED
    BY <2>1, FS_EmptySet
<1>2. \A p \in Proc : wrote[p] = {} /\ Cardinality(wrote[p]) = 0
  <2>1. \A p \in Proc : wrote[p] = {}
    BY DEF ControlInv
  <2> QED
    BY <2>1, FS_EmptySet
<1>3. Len(lh) \in Nat /\ Len(lh) <= LOGBLOCKS
  BY DEF TypeOK, Header
<1> QED
  BY <1>1, <1>2, <1>3, LogAssumption DEF SpaceInv

\* The same in the state after a step.
LEMMA SpaceQuietNext == (TypeOK /\ ControlInv /\ Op = {} => SpaceInv)'
BY SpaceQuiet, PTL

\* begin_op admits a call only if the reservations of all calls fit.
LEMMA SpaceBeginOp ==
    ASSUME TypeOK, ControlInv, SpaceInv, TypeOK', ControlInv',
           NEW p \in Proc, begin_op(p), ~MustWait
    PROVE  SpaceInv'
<1>1. outstanding' = outstanding + 1 /\ lh' = lh /\ wrote' = wrote
  BY Zenon DEF begin_op
<1>2. Cardinality(Op') = outstanding + 1
  BY <1>1 DEF ControlInv
<1>3. /\ Cardinality(Unused') \in Nat
      /\ Cardinality(Unused') <= Cardinality(Op') * MAXOPBLOCKS
  BY UnusedBoundNext
<1>4. Len(lh) + (outstanding + 1) * MAXOPBLOCKS <= LOGBLOCKS
  BY DEF MustWait, HasSpace
<1>5. (outstanding + 1) * MAXOPBLOCKS \in Nat /\ Len(lh) \in Nat
  BY LogAssumption DEF TypeOK, Header
<1>6. Len(lh') + Cardinality(Unused') <= LOGBLOCKS
  BY <1>1, <1>2, <1>3, <1>4, <1>5, LogAssumption
<1> QED
  BY <1>1, <1>6 DEF SpaceInv

\* end_op gives its call's reservation back, and does not panic.
LEMMA SpaceEndOp ==
    ASSUME TypeOK, ControlInv, SpaceInv, TypeOK', ControlInv',
           NEW p \in Proc, end_op(p)
    PROVE  SpaceInv' /\ panicked' = panicked
<1>1. ~committing
  BY DEF end_op, ControlInv, Op
<1>2. lh' = lh /\ wrote' = [wrote EXCEPT ![p] = {}] /\ panicked' = panicked
  BY <1>1 DEF end_op
<1>3. Op' \subseteq Op \ {p}
  BY <1>1 DEF end_op, Op, Wakeup, CommitEntry, TypeOK
<1>4. \A q \in Proc : wrote'[q] = IF q = p THEN {} ELSE wrote[q]
  BY <1>2, Zenon DEF TypeOK
<1>5. Unused' \subseteq Unused
  BY <1>3, <1>4 DEF Unused, Op
<1>6. Len(lh') + Cardinality(Unused') <= LOGBLOCKS
  <2>1. Len(lh') <= Len(lh)
    BY <1>2 DEF TypeOK, Header
  <2> QED
    BY <1>5, <2>1, SpaceShrinks
<1>7. \A q \in Proc : wrote'[q] \subseteq Logged(lh')
  BY <1>2, <1>4 DEF SpaceInv
<1>8. ASSUME NEW q \in Proc PROVE Cardinality(wrote'[q]) <= OPBLOCKS
  <2>1. CASE q = p
    <3>1. wrote'[q] = {}
      BY <1>4, <2>1
    <3>2. Cardinality(wrote'[q]) = 0
      BY <3>1, FS_EmptySet
    <3> QED
      BY <3>2, LogAssumption
  <2>2. CASE q # p
    BY <1>4, <2>2 DEF SpaceInv
  <2> QED
    BY <2>1, <2>2
<1> QED
  BY <1>2, <1>6, <1>7, <1>8 DEF SpaceInv

\* No step exhausts the log.
LEMMA SpaceStep ==
    ASSUME TypeOK, ControlInv, SpaceInv, NoPanic, [Next]_vars,
           TypeOK', ControlInv'
    PROVE  SpaceInv' /\ NoPanic'
<1>1. ASSUME Op' = {} PROVE SpaceInv'
  BY <1>1, SpaceQuietNext
<1>2. ASSUME UNCHANGED <<lh, wrote>>, Op' = Op PROVE SpaceInv'
  BY <1>2 DEF SpaceInv, Unused
<1>3. CASE Crash
  BY <1>1, <1>3 DEF Crash, NoPanic, Op
<1>4. CASE Recovery
  <2>1. boot # "up" /\ pc' = pc /\ panicked' = panicked
    BY <1>4 DEF Recovery, read_head, recover_install, recover_clear, install_block
  <2>2. Op' = {}
    BY <2>1 DEF Op, ControlInv
  <2> QED
    BY <1>1, <2>1, <2>2 DEF NoPanic
<1>5. ASSUME NEW p \in Proc, call(p) \/ kkill(p) \/ (begin_op(p) /\ MustWait)
      PROVE  SpaceInv' /\ NoPanic'
  <2>1. Op' = Op /\ UNCHANGED <<lh, wrote, panicked>>
    BY <1>5 DEF call, kkill, begin_op, Op, TypeOK
  <2> QED
    BY <1>2, <2>1 DEF NoPanic
<1>6. ASSUME NEW p \in Proc, begin_op(p), ~MustWait
      PROVE  SpaceInv' /\ NoPanic'
  BY <1>6, SpaceBeginOp, Zenon DEF begin_op, NoPanic
<1>7. ASSUME NEW p \in Proc, end_op(p)
      PROVE  SpaceInv' /\ NoPanic'
  BY <1>7, SpaceEndOp DEF NoPanic
<1>8. ASSUME NEW p \in Proc, CommitStep(p)
      PROVE  SpaceInv' /\ NoPanic'
  <2>1. Op = {}
    BY <1>8 DEF CommitStep, write_log, write_head, install_trans, finish_commit,
                ControlInv, Committer
  <2>2. panicked' = panicked
    BY <1>8, Zenon DEF CommitStep, write_log, write_head, install_trans, install_block,
                finish_commit
  <2>3. ASSUME finish_commit(p) PROVE Op' = {}
    BY <2>1, <2>3 DEF finish_commit, Wakeup, Op, TypeOK
  <2>4. ASSUME write_log(p) \/ write_head(p) \/ install_trans(p) PROVE Op' = {}
    <3>1. \A q \in Proc : pc'[q] = "op" => pc[q] = "op"
      BY <2>4 DEF write_log, write_head, install_trans, TypeOK
    <3> QED
      BY <2>1, <3>1, Zenon DEF Op
  <2>5. Op' = {}
    BY <1>8, <2>3, <2>4 DEF CommitStep
  <2> QED
    BY <1>1, <2>2, <2>5 DEF NoPanic
<1>9. ASSUME NEW p \in Proc, NEW b \in Block, NEW v \in Value, log_write(p, b, v)
      PROVE  SpaceInv' /\ NoPanic'
  BY <1>9, SpaceLogWrite DEF NoPanic
<1>10. ASSUME NEW b \in Block, bget_recycle(b)
       PROVE  SpaceInv' /\ NoPanic'
  BY <1>2, <1>10 DEF bget_recycle, Op, NoPanic
<1>11. CASE UNCHANGED vars
  <2>1. UNCHANGED <<lh, wrote, pc, panicked>>
    BY <1>11 DEF vars, volatile
  <2> QED
    BY <1>2, <2>1 DEF Op, NoPanic
<1> QED
  BY <1>3, <1>4, <1>5, <1>6, <1>7, <1>8, <1>9, <1>10, <1>11 DEF Next

\* The header and what is left of the reservations always fit into the log.
THEOREM SpaceSuffices == Spec => [](SpaceInv /\ NoPanic)
<1>1. Init => SpaceInv /\ NoPanic
  <2>1. Init => Op = {}
    BY DEF Init, Op
  <2> QED
    BY <2>1, ControlInit, SpaceQuiet DEF Init, NoPanic
<1>2. /\ TypeOK /\ ControlInv /\ SpaceInv /\ NoPanic /\ [Next]_vars
      /\ TypeOK' /\ ControlInv'
      => SpaceInv' /\ NoPanic'
  BY SpaceStep
<1> QED
  BY <1>1, <1>2, Control, PTL DEF Spec

\* The calls that begin_op admits never exhaust the log, so the panics of
\* log_write ("too big a transaction", "log_write outside of trans") and of
\* end_op ("log.committing") are unreachable.
THEOREM NeverPanics == Spec => []NoPanic
BY SpaceSuffices, PTL

\* A call that sleeps in begin_op has a waker: with no call active and no
\* commit under way the log is empty and has space for one call.
LEMMA WaiterBlocked ==
    ASSUME TypeOK, ControlInv, boot = "up", outstanding = 0, ~committing
    PROVE  ~MustWait
<1>1. lh = <<>>
  BY OpFinite DEF ControlInv
<1> QED
  BY <1>1, EmptyHeader, LogAssumption DEF MustWait, HasSpace

\* Whoever changes what begin_op waits for wakes the sleepers.
LEMMA WakerStep ==
    ASSUME TypeOK, ControlInv, SleeperHasWaker, [Next]_vars
    PROVE  SleeperHasWaker'
<1>1. ASSUME \A q \in Proc : pc'[q] # "sleep" PROVE SleeperHasWaker'
  BY <1>1 DEF SleeperHasWaker
<1>2. ASSUME \A q \in Proc : pc'[q] = "sleep" => pc[q] = "sleep",
             UNCHANGED <<outstanding, committing>>
      PROVE  SleeperHasWaker'
  BY <1>2 DEF SleeperHasWaker
<1>3. ASSUME committing' PROVE SleeperHasWaker'
  BY <1>3 DEF SleeperHasWaker
<1>4. CASE Crash
  BY <1>1, <1>4 DEF Crash
<1>5. CASE Recovery
  <2>1. UNCHANGED <<pc, outstanding, committing>>
    BY <1>5 DEF Recovery, read_head, recover_install, recover_clear, install_block
  <2> QED
    BY <1>2, <2>1
<1>6. ASSUME NEW p \in Proc, call(p) \/ kkill(p) PROVE SleeperHasWaker'
  BY <1>2, <1>6 DEF call, kkill, TypeOK
<1>7. ASSUME NEW p \in Proc, begin_op(p), MustWait PROVE SleeperHasWaker'
  <2>1. outstanding # 0 \/ committing
    BY <1>7, WaiterBlocked DEF begin_op, Running
  <2>2. UNCHANGED <<outstanding, committing>>
    BY <1>7 DEF begin_op
  <2> QED
    BY <2>1, <2>2 DEF SleeperHasWaker, TypeOK
<1>8. ASSUME NEW p \in Proc, begin_op(p), ~MustWait PROVE SleeperHasWaker'
  BY <1>8 DEF begin_op, SleeperHasWaker, TypeOK
<1>9. ASSUME NEW p \in Proc, end_op(p) PROVE SleeperHasWaker'
  <2>1. ~committing
    BY <1>9 DEF end_op, ControlInv, Op
  <2>2. CASE outstanding = 1
    BY <1>3, <1>9, <2>1, <2>2, Zenon DEF end_op
  <2>3. CASE outstanding # 1
    BY <1>1, <1>9, <2>1, <2>3 DEF end_op, Wakeup
  <2> QED
    BY <2>2, <2>3, Zenon
<1>10. ASSUME NEW p \in Proc, write_log(p) \/ write_head(p) \/ install_trans(p)
       PROVE  SleeperHasWaker'
  <2>1. committing /\ committing' = committing
    BY <1>10 DEF write_log, write_head, install_trans, install_block, ControlInv,
                 Committer
  <2> QED
    BY <1>3, <2>1, Zenon
<1>11. ASSUME NEW p \in Proc, finish_commit(p) PROVE SleeperHasWaker'
  BY <1>1, <1>11 DEF finish_commit, Wakeup
<1>12. ASSUME NEW p \in Proc, NEW b \in Block, NEW v \in Value, log_write(p, b, v)
       PROVE  SleeperHasWaker'
  BY <1>2, <1>12 DEF log_write
<1>13. ASSUME NEW b \in Block, bget_recycle(b) PROVE SleeperHasWaker'
  BY <1>2, <1>13 DEF bget_recycle
<1>14. CASE UNCHANGED vars
  BY <1>2, <1>14 DEF vars, volatile
<1> QED
  BY <1>4, <1>5, <1>6, <1>7, <1>8, <1>9, <1>10, <1>11, <1>12, <1>13, <1>14, Zenon
     DEF Next, CommitStep

\* Nobody sleeps in begin_op without an active call or a commit that will
\* call wakeup(&log).
THEOREM NoLostWakeup == Spec => []SleeperHasWaker
<1>1. Init => SleeperHasWaker
  BY DEF Init, SleeperHasWaker
<1>2. TypeOK /\ ControlInv /\ SleeperHasWaker /\ [Next]_vars => SleeperHasWaker'
  BY WakerStep
<1> QED
  BY <1>1, <1>2, Control, PTL DEF Spec

-----------------------------------------------------------------------------
(* The log implements group commit: module Log refines module GroupCommit,  *)
(* for any number of processes, blocks and values.                          *)

\* A header as a function from positions to blocks.
LEMMA HeaderDomain ==
    ASSUME NEW h \in Header
    PROVE  /\ Len(h) \in Nat /\ DOMAIN h = 1..Len(h)
           /\ \A i \in DOMAIN h : i \in Nat /\ 1 <= i /\ i <= Len(h)
           /\ \A i \in DOMAIN h : h[i] \in Block /\ i \in 1..LOGBLOCKS
BY LogAssumption DEF Header

\* log_write appends a block only if it is not in the header yet.
LEMMA AppendDistinct ==
    ASSUME NEW h \in Header, NEW b, b \notin Logged(h), Distinct(h)
    PROVE  Distinct(Append(h, b))
<1>1. /\ Len(h) \in Nat /\ DOMAIN h = 1..Len(h)
      /\ DOMAIN Append(h, b) = 1..(Len(h) + 1)
      /\ \A i \in 1..Len(h) : Append(h, b)[i] = h[i]
      /\ Append(h, b)[Len(h) + 1] = b
  BY DEF Header
<1> DEFINE g == Append(h, b)
<1>2. SUFFICES ASSUME NEW i \in DOMAIN g, NEW j \in DOMAIN g, g[i] = g[j]
               PROVE  i = j
  BY DEF Distinct
<1> HIDE DEF g
<1>3. \A k \in 1..Len(h) : g[k] = h[k] /\ h[k] # b
  BY <1>1 DEF Logged, g
<1>4. DOMAIN g = 1..(Len(h) + 1) /\ g[Len(h) + 1] = b
  BY <1>1 DEF g
<1>5. CASE i \in 1..Len(h) /\ j \in 1..Len(h)
  BY <1>1, <1>2, <1>3, <1>5 DEF Distinct
<1>6. CASE i = Len(h) + 1 \/ j = Len(h) + 1
  BY <1>1, <1>2, <1>3, <1>4, <1>6
<1> QED
  BY <1>1, <1>4, <1>5, <1>6

\* The committer's program counter says which phase the commit is in.
LEMMA Phase ==
    ASSUME TypeOK, ControlInv, NEW p \in Committer
    PROVE  \A s \in {"write_log", "write_head", "install_trans", "done"} :
               At(s) <=> pc[p] = s
BY CommitterAlone DEF At, Committer

\* Without a committer the commit is in no phase.
LEMMA NoPhase ==
    ASSUME Committer = {}
    PROVE  ~At("write_log") /\ ~At("write_head") /\ ~At("install_trans")
BY DEF At, Committer

\* Steps that touch no block and leave the commit in its phase.
LEMMA DataSame ==
    ASSUME DataInv,
           UNCHANGED <<disk, dlog, dhead, cache, pinned, lh, tail, boot>>,
           At("write_log")' <=> At("write_log"),
           At("write_head")' <=> At("write_head"),
           At("install_trans")' <=> At("install_trans")
    PROVE  DataInv'
<1>1. PinInv'
  BY Zenon DEF DataInv, PinInv, Distinct
<1>2. DiskInv'
  BY Zenon DEF DataInv, DiskInv
<1> QED
  BY <1>1, <1>2, Zenon DEF DataInv

\* Memory is lost, the disk is not.
LEMMA DataCrash == TypeOK /\ DataInv /\ Crash => DataInv'
<1> SUFFICES ASSUME TypeOK, DataInv, Crash PROVE DataInv'
  OBVIOUS
<1>1. /\ lh' = <<>> /\ pinned' = {} /\ boot' = "read_head"
      /\ \A q \in Proc : pc'[q] = "user"
      /\ \A b \in Block : cache'[b] = NotCached
      /\ UNCHANGED <<disk, dlog, dhead>>
  BY DEF Crash, durable
<1>2. Distinct(lh') /\ Distinct(dhead')
  BY <1>1, EmptyHeader DEF Distinct, DataInv, PinInv
<1>3. PinInv'
  BY <1>1, <1>2 DEF PinInv
<1>4. DiskInv'
  BY <1>1, EmptyHeader DEF DiskInv, At
<1> QED
  BY <1>3, <1>4 DEF DataInv

\* Recovery repeats the installation from the start and erases the header
\* only when every home block is on disk.
LEMMA DataRecovery ==
    ASSUME TypeOK, ControlInv, DataInv, Recovery
    PROVE  DataInv'
<1> USE DEF DataInv
<1>1. /\ \A q \in Proc : pc[q] = "user" /\ pc'[q] = "user"
      /\ pinned = {} /\ pinned' = {}
  BY DEF Recovery, read_head, recover_install, recover_clear, install_block,
         ControlInv, PinInv
<1>2. ~At("write_log")' /\ ~At("write_head")' /\ ~At("install_trans")'
  BY <1>1 DEF At
<1>3. CASE read_head
  <2>1. /\ lh' = dhead /\ tail' = 1 /\ UNCHANGED <<disk, dlog, dhead, cache>>
        /\ boot' = IF dhead = <<>> THEN "write_head" ELSE "install_trans"
    BY <1>3 DEF read_head, durable
  <2>2. PinInv'
    BY <1>1, <2>1, Zenon DEF PinInv, Distinct
  <2>3. DiskInv'
    BY <1>2, <2>1, EmptyHeader, HeaderDomain DEF DiskInv, TypeOK
  <2> QED
    BY <2>2, <2>3
<1>4. CASE recover_install
  <2>1. /\ dhead = lh /\ tail \in DOMAIN lh /\ lh[tail] \in Block
        /\ \A i \in DOMAIN lh : i < tail => disk[lh[i]] = dlog[i]
    BY <1>4, HeaderDomain DEF recover_install, DiskInv, ControlInv, TypeOK
  <2>2. /\ disk' = [disk EXCEPT ![lh[tail]] = dlog[tail]]
        /\ cache' = [cache EXCEPT ![lh[tail]] = dlog[tail]]
        /\ UNCHANGED <<dlog, dhead>>
    BY <1>4 DEF recover_install, install_block
  <2>3. \A i \in DOMAIN lh : i <= tail => disk'[lh[i]] = dlog'[i]
    BY <2>1, <2>2, HeaderDomain DEF TypeOK, PinInv, Distinct
  <2>4. \A b \in Block : cache'[b] \in {NotCached, disk'[b]}
    BY <1>1, <2>1, <2>2 DEF TypeOK, PinInv
  <2>5. CASE tail = Len(lh)
    <3>1. lh' = <<>> /\ boot' = "write_head"
      BY <1>4, <2>5, Zenon DEF recover_install
    <3>2. \A i \in DOMAIN dhead : disk'[dhead[i]] = dlog'[i]
      BY <2>1, <2>3, <2>5, HeaderDomain, Zenon DEF TypeOK
    <3>3. Distinct(lh') /\ Distinct(dhead')
      BY <3>1, <2>2, EmptyHeader DEF Distinct, PinInv
    <3>4. PinInv'
      BY <1>1, <2>4, <3>1, <3>3, Zenon DEF PinInv
    <3>5. DiskInv'
      BY <1>2, <2>2, <3>1, <3>2, EmptyHeader DEF DiskInv
    <3> QED
      BY <3>4, <3>5
  <2>6. CASE tail # Len(lh)
    <3>1. lh' = lh /\ tail' = tail + 1 /\ boot' = "install_trans"
      BY <1>4, <2>6, Zenon DEF recover_install
    <3>2. \A i \in DOMAIN lh' : i < tail' => disk'[lh'[i]] = dlog'[i]
      <4>1. \A i \in DOMAIN lh : i \in Nat
        BY HeaderDomain, Zenon DEF TypeOK
      <4>2. \A i \in DOMAIN lh : i < tail + 1 => i <= tail
        BY <2>1, <4>1
      <4> QED
        BY <2>3, <3>1, <4>2, Zenon
    <3>3. PinInv'
      BY <1>1, <2>2, <2>4, <3>1 DEF PinInv, Distinct
    <3>4. DiskInv'
      BY <1>2, <2>1, <2>2, <3>1, <3>2 DEF DiskInv
    <3> QED
      BY <3>3, <3>4
  <2> QED
    BY <2>5, <2>6, Zenon
<1>5. CASE recover_clear
  <2>1. /\ lh = <<>> /\ lh' = <<>> /\ dhead' = <<>> /\ boot' = "up"
        /\ UNCHANGED <<disk, cache>>
    BY <1>5 DEF recover_clear, ControlInv
  <2>2. Distinct(lh') /\ Distinct(dhead')
    BY <2>1, EmptyHeader, Zenon DEF Distinct
  <2>3. PinInv'
    BY <1>1, <2>1, <2>2, EmptyHeader, Zenon DEF PinInv
  <2>4. DiskInv'
    BY <1>2, <2>1, EmptyHeader, Zenon DEF DiskInv
  <2> QED
    BY <2>3, <2>4
<1> QED
  BY <1>3, <1>4, <1>5, Zenon DEF Recovery

\* A call changes its buffer and pins it; no commit is under way.
LEMMA DataLogWrite ==
    ASSUME TypeOK, ControlInv, DataInv, NoPanic',
           NEW p \in Proc, NEW b \in Block, NEW v \in Value, log_write(p, b, v)
    PROVE  DataInv'
<1> USE DEF DataInv
<1>1. boot = "up" /\ boot' = "up" /\ pc' = pc /\ UNCHANGED durable
  BY DEF log_write, Running
<1>2. ~At("write_log") /\ ~At("write_head") /\ ~At("install_trans")
  BY NoPhase DEF log_write, ControlInv, Op
<1>3. ~At("write_log")' /\ ~At("write_head")' /\ ~At("install_trans")'
  BY <1>1, <1>2 DEF At
<1>4. dhead = <<>>
  BY <1>1, <1>2, Zenon DEF DiskInv
<1>5. LogBlock(b) /\ cache' = [cache EXCEPT ![b] = v]
  BY Zenon DEF log_write, NoPanic
<1>6. DiskInv'
  BY <1>1, <1>3, <1>4, ZenonT(40) DEF DiskInv, durable
<1>7. \A c \in Block : c \in pinned <=> c \in Logged(lh)
  BY <1>1, <1>2, HeaderDomain DEF PinInv, Logged, TypeOK
<1>8. Logged(lh') = Logged(lh) \cup {b} /\ pinned' = pinned \cup {b}
  <2>1. CASE b \in Logged(lh)
    BY <1>5, <1>7, <2>1 DEF LogBlock
  <2>2. CASE b \notin Logged(lh)
    <3>1. lh' = Append(lh, b) /\ pinned' = pinned \cup {b} /\ lh \in Header
      BY <1>5, <2>2, Zenon DEF LogBlock, TypeOK
    <3> QED
      BY <3>1, AppendLogged
  <2> QED
    BY <2>1, <2>2
<1>9. Distinct(lh') /\ Distinct(dhead')
  BY <1>1, <1>5, AppendDistinct, Zenon DEF LogBlock, PinInv, TypeOK, durable
<1>10. \A c \in Block : c \in pinned' <=> \E i \in DOMAIN lh' : lh'[i] = c
  BY <1>7, <1>8 DEF Logged
<1>11. \A c \in Block : IF c \in pinned' THEN cache'[c] # NotCached
                        ELSE cache'[c] \in {NotCached, disk'[c]}
  BY <1>1, <1>5, <1>8, LogAssumption DEF PinInv, TypeOK, durable
<1> QED
  BY <1>1, <1>3, <1>6, <1>9, <1>10, <1>11, Zenon DEF PinInv

\* The last call out starts the commit at the first block.
LEMMA DataEndOp ==
    ASSUME TypeOK, ControlInv, DataInv, NEW p \in Proc, end_op(p)
    PROVE  DataInv'
<1> USE DEF DataInv
<1>1. Committer = {} /\ ~committing
  BY DEF end_op, ControlInv, Op
<1>2. ~At("write_log") /\ ~At("write_head") /\ ~At("install_trans")
  BY <1>1, NoPhase
<1>3. UNCHANGED <<disk, dlog, dhead, cache, pinned, lh, boot>>
  BY DEF end_op, durable
<1>4. \A q \in Proc : pc'[q] \notin {"write_head", "install_trans"}
  BY <1>1 DEF end_op, CommitEntry, Wakeup, Committer, TypeOK
<1>5. ~At("write_head")' /\ ~At("install_trans")'
  BY <1>4 DEF At
<1>6. At("write_log")' => tail' = 1
  BY <1>1, Zenon DEF end_op, At, Wakeup, Committer, TypeOK
<1>7. PinInv'
  BY <1>2, <1>3, <1>5 DEF PinInv, Distinct
<1>8. \A i \in DOMAIN lh' : ~(At("write_log")' /\ i < tail')
  BY <1>3, <1>6, HeaderDomain DEF TypeOK
<1>9. DiskInv'
  <2>1. boot = "up" /\ dhead = <<>>
    BY <1>2 DEF DiskInv, end_op, Running
  <2> QED
    BY <1>3, <1>5, <1>8, <2>1, EmptyHeader, ZenonT(40) DEF DiskInv
<1> QED
  BY <1>7, <1>9

\* The blocks the committer still has to copy are pinned and in the cache.
LEMMA PinnedAhead ==
    ASSUME TypeOK, ControlInv, DataInv, boot = "up",
           NEW i \in DOMAIN lh, At("install_trans") => tail <= i
    PROVE  lh[i] \in pinned /\ cache[lh[i]] # NotCached
<1>1. lh[i] \in Block
  BY HeaderDomain DEF TypeOK
<1> QED
  BY <1>1 DEF DataInv, PinInv

\* write_log copies a pinned buffer to the log.
LEMMA DataWriteLog ==
    ASSUME TypeOK, ControlInv, DataInv, NEW p \in Proc, write_log(p)
    PROVE  DataInv' /\ cache' = cache
<1> USE DEF DataInv
<1>1. p \in Committer /\ pc[p] = "write_log"
  BY DEF write_log, Committer
<1>2. boot = "up" /\ At("write_log") /\ ~At("write_head") /\ ~At("install_trans")
  BY <1>1, CommitterAlone, Phase
<1>3. tail \in DOMAIN lh /\ lh[tail] \in Block /\ tail \in 1..LOGBLOCKS
  BY <1>2, HeaderDomain DEF ControlInv, TypeOK
<1>4. cache[lh[tail]] # NotCached
  BY <1>2, <1>3, PinnedAhead, Zenon
<1>5. /\ cache' = cache
      /\ dlog' = [dlog EXCEPT ![tail] = cache[lh[tail]]]
      /\ UNCHANGED <<disk, dhead, pinned, lh, boot>>
  BY <1>3, <1>4, Zenon DEF write_log, bread, TypeOK
<1>6. dhead = <<>> /\ lh # <<>>
  BY <1>2, <1>3, EmptyHeader, ZenonT(40) DEF DiskInv
<1>7. ASSUME NEW i \in DOMAIN lh, i <= tail PROVE dlog'[i] = cache[lh[i]]
  <2>1. i \in 1..LOGBLOCKS
    BY HeaderDomain DEF TypeOK
  <2>2. CASE i = tail
    BY <1>5, <2>1, <2>2, Zenon DEF TypeOK
  <2>3. CASE i < tail
    BY <1>2, <1>5, <2>1, <2>3, Zenon DEF DiskInv, TypeOK
  <2>4. i = tail \/ i < tail
    BY <1>3, <1>7, <2>1
  <2> QED
    BY <2>2, <2>3, <2>4, Zenon
<1>8. \A q \in Proc \ {p} : pc'[q] \in {"user", "begin_op", "sleep"}
  BY <1>1, CommitterAlone DEF write_log, TypeOK
<1>9. CASE tail = Len(lh)
  <2>1. pc'[p] = "write_head"
    BY <1>9 DEF write_log, TypeOK
  <2>2. At("write_head")' /\ ~At("write_log")' /\ ~At("install_trans")'
    BY <1>8, <2>1, Zenon DEF At
  <2>3. PinInv'
    BY <1>2, <1>5, <2>2 DEF PinInv, Distinct
  <2>4. \A i \in DOMAIN lh : dlog'[i] = cache[lh[i]]
    BY <1>7, <1>9, HeaderDomain DEF TypeOK
  <2>5. dhead' = <<>> /\ lh' = lh /\ cache' = cache /\ boot' = "up"
    BY <1>2, <1>5, <1>6, Zenon
  <2>6. DiskInv'
    BY <2>2, <2>4, <2>5, EmptyHeader, Zenon DEF DiskInv
  <2> QED
    BY <2>3, <2>5, <2>6, Zenon
<1>10. CASE tail # Len(lh)
  <2>1. pc' = pc /\ tail' = tail + 1
    BY <1>10 DEF write_log
  <2>2. At("write_log")' /\ ~At("write_head")' /\ ~At("install_trans")'
    BY <1>2, <2>1, Zenon DEF At
  <2>3. PinInv'
    BY <1>2, <1>5, <2>2, Zenon DEF PinInv, Distinct
  <2>4. \A i \in DOMAIN lh : i < tail' => dlog'[i] = cache[lh[i]]
    BY <1>7, <2>1, HeaderDomain DEF TypeOK
  <2>5. dhead' = <<>> /\ lh' = lh /\ cache' = cache /\ boot' = "up"
    BY <1>2, <1>5, <1>6
  <2>6. DiskInv'
    BY <2>2, <2>4, <2>5, EmptyHeader DEF DiskInv
  <2> QED
    BY <2>3, <2>5, <2>6
<1> QED
  BY <1>9, <1>10

\* write_head commits what write_log copied, or erases what is installed.
LEMMA DataWriteHead ==
    ASSUME TypeOK, ControlInv, DataInv, NEW p \in Proc, write_head(p)
    PROVE  DataInv'
<1> USE DEF DataInv
<1>1. p \in Committer /\ pc[p] = "write_head"
  BY DEF write_head, Committer
<1>2. boot = "up" /\ At("write_head") /\ ~At("write_log") /\ ~At("install_trans")
  BY <1>1, CommitterAlone, Phase
<1>3. dhead' = lh /\ UNCHANGED <<disk, dlog, cache, pinned, lh, tail, boot>>
  BY Zenon DEF write_head
<1>4. \A q \in Proc \ {p} : pc'[q] \in {"user", "begin_op", "sleep"}
  BY <1>1, CommitterAlone, Zenon DEF write_head, TypeOK
<1>5. tail = 1
  BY <1>2 DEF ControlInv
<1>6. CASE lh = <<>>
  <2>1. pc'[p] = "done"
    BY <1>6 DEF write_head, TypeOK
  <2>2. ~At("write_head")' /\ ~At("write_log")' /\ ~At("install_trans")'
    BY <1>4, <2>1, Zenon DEF At
  <2>3. PinInv'
    BY <1>2, <1>3, <2>2, Zenon DEF PinInv, Distinct
  <2>4. DiskInv'
    BY <1>2, <1>3, <1>6, <2>2, Zenon DEF DiskInv
  <2> QED
    BY <2>3, <2>4
<1>7. CASE lh # <<>>
  <2>1. pc'[p] = "install_trans"
    BY <1>7 DEF write_head, TypeOK
  <2>2. ~At("write_head")' /\ ~At("write_log")' /\ At("install_trans")'
    BY <1>4, <2>1 DEF At
  <2>3. \A i \in DOMAIN lh : tail <= i /\ ~(i < tail)
    BY <1>5, HeaderDomain DEF TypeOK
  <2>4. PinInv'
    BY <1>2, <1>3, <2>2, <2>3, ZenonT(40) DEF PinInv, Distinct
  <2>5. DiskInv'
    BY <1>2, <1>3, <2>2, <2>3 DEF DiskInv
  <2> QED
    BY <2>4, <2>5
<1> QED
  BY <1>6, <1>7

\* install_trans brings one block home and unpins it.
LEMMA DataInstall ==
    ASSUME TypeOK, ControlInv, DataInv, NEW p \in Proc, install_trans(p)
    PROVE  DataInv' /\ dlog[tail] = cache[lh[tail]]
<1> USE DEF DataInv
<1>1. p \in Committer /\ pc[p] = "install_trans"
  BY DEF install_trans, Committer
<1>2. boot = "up" /\ At("install_trans") /\ ~At("write_log") /\ ~At("write_head")
  BY <1>1, CommitterAlone, Phase, Zenon
<1>3. tail \in DOMAIN lh /\ lh[tail] \in Block /\ tail \in Nat
  BY <1>2, HeaderDomain, Zenon DEF ControlInv, TypeOK
<1>4. dlog[tail] = cache[lh[tail]]
  BY <1>2, <1>3 DEF DiskInv
<1>5. /\ disk' = [disk EXCEPT ![lh[tail]] = dlog[tail]]
      /\ cache' = [cache EXCEPT ![lh[tail]] = dlog[tail]]
      /\ pinned' = pinned \ {lh[tail]}
      /\ UNCHANGED <<dlog, dhead, boot>>
  BY Zenon DEF install_trans, install_block
<1>6. dhead = lh /\ \A i \in DOMAIN lh : i < tail => disk[lh[i]] = dlog[i]
  BY <1>2, Zenon DEF DiskInv
<1>7. \A i \in DOMAIN lh : i # tail => lh[i] # lh[tail]
  BY <1>3, Zenon DEF PinInv, Distinct
<1>8. ASSUME NEW i \in DOMAIN lh, i <= tail PROVE disk'[lh[i]] = dlog[i]
  <2>1. lh[i] \in Block /\ i \in Nat
    BY HeaderDomain DEF TypeOK
  <2>2. CASE i = tail
    BY <1>5, <2>1, <2>2, Zenon DEF TypeOK
  <2>3. CASE i # tail
    <3>1. i < tail /\ lh[i] # lh[tail]
      BY <1>3, <1>7, <1>8, <2>1, <2>3
    <3> QED
      BY <1>5, <1>6, <2>1, <3>1 DEF TypeOK
  <2> QED
    BY <2>2, <2>3
<1>9. \A b \in Block : IF b \in pinned' THEN cache'[b] # NotCached
                       ELSE cache'[b] \in {NotCached, disk'[b]}
  BY <1>3, <1>5, Zenon DEF PinInv, TypeOK
<1>10. \A b \in Block : b \in pinned' <=> \E i \in DOMAIN lh : lh[i] = b /\ tail < i
  BY <1>2, <1>3, <1>5, <1>7, HeaderDomain DEF PinInv, TypeOK
<1>11. \A q \in Proc \ {p} : pc'[q] \in {"user", "begin_op", "sleep"}
  BY <1>1, CommitterAlone DEF install_trans, TypeOK
<1>12. CASE tail = Len(lh)
  <2>1. pc'[p] = "write_head" /\ lh' = <<>>
    BY <1>12 DEF install_trans, TypeOK
  <2>2. At("write_head")' /\ ~At("write_log")' /\ ~At("install_trans")'
    BY <1>11, <2>1 DEF At
  <2>3. \A b \in Block : b \notin pinned'
    BY <1>10, <1>12, HeaderDomain DEF TypeOK
  <2>4. Distinct(lh') /\ Distinct(dhead')
    BY <1>5, <2>1, EmptyHeader, Zenon DEF Distinct, PinInv
  <2>5. PinInv'
    BY <1>2, <1>5, <1>9, <2>1, <2>3, <2>4, EmptyHeader, Zenon DEF PinInv
  <2>6. \A i \in DOMAIN dhead : disk'[dhead[i]] = dlog[i]
    BY <1>6, <1>8, <1>12, HeaderDomain, ZenonT(40) DEF TypeOK
  <2>7. DiskInv'
    BY <1>2, <1>5, <2>1, <2>2, <2>6, EmptyHeader, ZenonT(40) DEF DiskInv
  <2> QED
    BY <1>4, <2>5, <2>7
<1>13. CASE tail # Len(lh)
  <2>1. pc' = pc /\ lh' = lh /\ tail' = tail + 1
    BY <1>13 DEF install_trans
  <2>2. At("install_trans")' /\ ~At("write_log")' /\ ~At("write_head")'
    BY <1>2, <2>1, Zenon DEF At
  <2>3. \A i \in DOMAIN lh : (tail < i <=> tail' <= i) /\ (i <= tail <=> i < tail')
    BY <1>3, <2>1, HeaderDomain DEF TypeOK
  <2>4. PinInv'
    BY <1>2, <1>5, <1>9, <1>10, <2>1, <2>2, <2>3, Zenon DEF PinInv, Distinct
  <2>5. \A i \in DOMAIN lh : tail' <= i => dlog[i] = cache'[lh[i]]
    <3> TAKE i \in DOMAIN lh
    <3> HAVE tail' <= i
    <3>1. i # tail /\ tail <= i /\ lh[i] \in Block
      BY <1>3, <2>1, HeaderDomain DEF TypeOK
    <3>2. dlog[i] = cache[lh[i]]
      BY <1>2, <3>1, Zenon DEF DiskInv
    <3> QED
      BY <1>3, <1>5, <1>7, <3>1, <3>2, Zenon DEF TypeOK
  <2>6. DiskInv'
    BY <1>2, <1>5, <1>6, <1>8, <2>1, <2>2, <2>3, <2>5, ZenonT(40) DEF DiskInv
  <2> QED
    BY <1>4, <2>4, <2>6
<1> QED
  BY <1>12, <1>13

\* bget recycles no buffer the commit still needs.
LEMMA DataRecycle ==
    ASSUME TypeOK, ControlInv, DataInv, NEW b \in Block, bget_recycle(b)
    PROVE  DataInv'
<1> USE DEF DataInv
<1>1. /\ b \notin pinned /\ cache' = [cache EXCEPT ![b] = NotCached]
      /\ UNCHANGED <<disk, dlog, dhead, pinned, lh, tail, boot, pc>>
  BY DEF bget_recycle, durable
<1>2. /\ At("write_log")' <=> At("write_log")
      /\ At("write_head")' <=> At("write_head")
      /\ At("install_trans")' <=> At("install_trans")
  BY <1>1, Zenon DEF At
<1>3. PinInv'
  BY <1>1, <1>2 DEF PinInv, Distinct, TypeOK
<1>4. ASSUME NEW i \in DOMAIN lh,
             \/ At("write_log") /\ i < tail
             \/ At("write_head")
             \/ At("install_trans") /\ tail <= i
      PROVE  dlog[i] = cache'[lh[i]]
  <2>1. PICK p \in Committer : pc[p] \in {"write_log", "write_head", "install_trans"}
    BY <1>4 DEF At, Committer
  <2>2. boot = "up" /\ (At("install_trans") => tail <= i)
    BY <1>4, <2>1, CommitterAlone, Phase, Zenon
  <2>3. lh[i] \in pinned
    BY <2>2, PinnedAhead, Zenon
  <2>4. dlog[i] = cache[lh[i]] /\ lh[i] \in Block
    BY <1>4, HeaderDomain, Zenon DEF DiskInv, TypeOK
  <2> QED
    BY <1>1, <2>3, <2>4 DEF TypeOK
<1>5. DiskInv'
  BY <1>1, <1>2, <1>4, ZenonT(40) DEF DiskInv
<1> QED
  BY <1>3, <1>5

\* Every step keeps cache, log and disk in agreement.
LEMMA DataStep ==
    ASSUME TypeOK, ControlInv, DataInv, NoPanic', [Next]_vars
    PROVE  DataInv'
<1>1. CASE Crash
  BY <1>1, DataCrash
<1>2. CASE Recovery
  BY <1>2, DataRecovery
<1>3. ASSUME NEW p \in Proc, call(p) \/ kkill(p) \/ begin_op(p) \/ finish_commit(p)
      PROVE  DataInv'
  <2>1. UNCHANGED <<disk, dlog, dhead, cache, pinned, lh, tail, boot>>
    BY <1>3, Zenon DEF call, kkill, begin_op, finish_commit, durable
  <2>2. \A q \in Proc, s \in {"write_log", "write_head", "install_trans"} :
            pc'[q] = s <=> pc[q] = s
    BY <1>3 DEF call, kkill, begin_op, finish_commit, Wakeup, TypeOK
  <2>3. \A s \in {"write_log", "write_head", "install_trans"} : At(s)' <=> At(s)
    BY <2>2 DEF At
  <2> QED
    BY <2>1, <2>3, DataSame, Zenon
<1>4. ASSUME NEW p \in Proc, end_op(p) PROVE DataInv'
  BY <1>4, DataEndOp
<1>5. ASSUME NEW p \in Proc, write_log(p) PROVE DataInv'
  BY <1>5, DataWriteLog
<1>6. ASSUME NEW p \in Proc, write_head(p) PROVE DataInv'
  BY <1>6, DataWriteHead
<1>7. ASSUME NEW p \in Proc, install_trans(p) PROVE DataInv'
  BY <1>7, DataInstall
<1>8. ASSUME NEW p \in Proc, NEW b \in Block, NEW v \in Value, log_write(p, b, v)
      PROVE  DataInv'
  BY <1>8, DataLogWrite
<1>9. ASSUME NEW b \in Block, bget_recycle(b) PROVE DataInv'
  BY <1>9, DataRecycle
<1>10. CASE UNCHANGED vars
  <2>1. UNCHANGED <<disk, dlog, dhead, cache, pinned, lh, tail, boot, pc>>
    BY <1>10 DEF vars, volatile, durable
  <2> QED
    BY <2>1, DataSame DEF At
<1> QED
  BY <1>1, <1>2, <1>3, <1>4, <1>5, <1>6, <1>7, <1>8, <1>9, <1>10
     DEF Next, CommitStep

\* Cache, log and disk agree as far as the commit or the recovery has got.
THEOREM DataAgrees == Spec => []DataInv
<1>1. Init => DataInv
  <2> SUFFICES ASSUME Init PROVE DataInv
    OBVIOUS
  <2>1. Distinct(lh) /\ Distinct(dhead)
    BY EmptyHeader DEF Init, Distinct
  <2>2. PinInv
    BY <2>1 DEF Init, PinInv
  <2>3. DiskInv
    BY EmptyHeader DEF Init, DiskInv, At
  <2> QED
    BY <2>2, <2>3 DEF DataInv
<1>2. TypeOK /\ ControlInv /\ DataInv /\ NoPanic' /\ [Next]_vars => DataInv'
  BY DataStep
<1> QED
  BY <1>1, <1>2, Control, SpaceSuffices, PTL DEF Spec

-----------------------------------------------------------------------------
(* The refinement.                                                          *)

\* After a reboot a block of the header on disk has its logged contents.
LEMMA RecoveredLogged ==
    TypeOK /\ DataInv => \A i \in DOMAIN dhead : Recovered[dhead[i]] = dlog[i]
<1> SUFFICES ASSUME TypeOK, DataInv, NEW i \in DOMAIN dhead
             PROVE  Recovered[dhead[i]] = dlog[i]
  OBVIOUS
<1>1. dhead[i] \in Block /\ dhead[i] \in Logged(dhead)
  BY HeaderDomain DEF TypeOK, Logged
<1>2. (CHOOSE j \in DOMAIN dhead : dhead[j] = dhead[i]) = i
  BY DEF DataInv, PinInv, Distinct
<1> QED
  BY <1>1, <1>2, Zenon DEF Recovered

\* The same in the state after a step.
LEMMA RecoveredLoggedNext ==
    (TypeOK /\ DataInv => \A i \in DOMAIN dhead : Recovered[dhead[i]] = dlog[i])'
BY RecoveredLogged, PTL

\* With the logged blocks at home, or no header, a reboot finds the home blocks.
LEMMA RecoveredHome ==
    ASSUME TypeOK, DataInv, \A i \in DOMAIN dhead : disk[dhead[i]] = dlog[i]
    PROVE  Recovered = disk
<1>1. ASSUME NEW b \in Block PROVE Recovered[b] = disk[b]
  <2>1. CASE b \in Logged(dhead)
    BY <2>1, RecoveredLogged DEF Logged
  <2>2. CASE b \notin Logged(dhead)
    BY <2>2 DEF Recovered
  <2> QED
    BY <2>1, <2>2
<1> QED
  BY <1>1 DEF Recovered, TypeOK

\* Recovery leaves a block that the header does not name as it is.
LEMMA RecoveredUnlogged ==
    ASSUME NEW b \in Block, b \notin Logged(dhead')
    PROVE  Recovered'[b] = disk'[b]
BY DEF Recovered

\* What recovery would find depends on the durable state only.
LEMMA SameRecovered ==
    ASSUME UNCHANGED <<disk, dlog, dhead>> PROVE Recovered' = Recovered
<1>1. Logged(dhead') = Logged(dhead)
  BY DEF Logged
<1> QED
  BY <1>1 DEF Recovered

\* With an empty header recovery finds the home blocks.
LEMMA RecoveredEmpty == ASSUME TypeOK', dhead' = <<>> PROVE Recovered' = disk'
<1>1. Logged(dhead') = {}
  BY EmptyHeader DEF Logged
<1> QED
  BY <1>1 DEF Recovered, TypeOK

\* Writing home a block that is in the header on disk changes nothing after a
\* reboot.
LEMMA RecoveredInstall ==
    ASSUME TypeOK, NEW b \in Logged(dhead), NEW v,
           disk' = [disk EXCEPT ![b] = v], UNCHANGED <<dlog, dhead>>
    PROVE  Recovered' = Recovered
<1>1. \A c \in Block : c \notin Logged(dhead) => disk'[c] = disk[c]
  BY DEF TypeOK
<1> QED
  BY <1>1 DEF Recovered

\* What calls see does not depend on whether a clean buffer is cached.
LEMMA ViewClean ==
    ASSUME TypeOK, DataInv, NEW b \in Block, b \notin pinned
    PROVE  bread(b) = disk[b]
BY DEF bread, DataInv, PinInv

\* The initial states of the log are those of group commit.
LEMMA RefinesInit == Init => GC!GCInit
<1> SUFFICES ASSUME Init PROVE GC!GCInit
  OBVIOUS
<1>1. Logged(dhead) = {}
  BY EmptyHeader DEF Init, Logged
<1>2. Recovered = [b \in Block |-> MkfsValue]
  BY <1>1 DEF Recovered, Init
<1>3. View = Recovered
  BY DEF View, Init
<1>4. Op = {}
  BY DEF Init, Op
<1> QED
  BY <1>2, <1>3, <1>4 DEF GC!GCInit

\* A crash is the abstract loss of power.
LEMMA RefinesCrash == Crash => GC!PowerLoss
<1> SUFFICES ASSUME Crash PROVE GC!PowerLoss
  OBVIOUS
<1>1. Recovered' = Recovered
  BY DEF Crash, durable, Recovered, Logged
<1>2. View' = Recovered'
  BY DEF Crash, View
<1>3. Op' = {}
  BY DEF Crash, Op
<1> QED
  BY <1>1, <1>2, <1>3, Zenon DEF GC!PowerLoss

\* Recovery changes neither what a further crash would leave nor what the
\* calls will see.
LEMMA RefinesRecovery ==
    ASSUME TypeOK, ControlInv, DataInv, TypeOK', Recovery
    PROVE  UNCHANGED <<View, Recovered, Op>>
<1>1. boot # "up" /\ pc' = pc /\ pinned = {}
  BY DEF Recovery, read_head, recover_install, recover_clear, install_block,
         DataInv, PinInv
<1>2. Op' = Op /\ View = Recovered
  BY <1>1 DEF Op, View
<1>3. CASE read_head
  <2>1. Recovered' = Recovered
    BY <1>3 DEF read_head, durable, Recovered, Logged
  <2>2. View' = Recovered'
    BY <1>3 DEF read_head, View
  <2> QED
    BY <1>2, <2>1, <2>2, Zenon
<1>4. CASE recover_install
  <2>1. /\ disk' = [disk EXCEPT ![lh[tail]] = dlog[tail]]
        /\ UNCHANGED <<dlog, dhead>> /\ boot' # "up"
    BY <1>4 DEF recover_install, install_block
  <2>2. lh[tail] \in Logged(dhead)
    <3>1. boot = "install_trans"
      BY <1>4, Zenon DEF recover_install
    <3>2. dhead = lh /\ tail \in 1..Len(lh)
      BY <3>1, Zenon DEF DataInv, DiskInv, ControlInv
    <3>3. tail \in DOMAIN lh
      BY <3>2, HeaderDomain, Zenon DEF TypeOK
    <3> QED
      BY <3>2, <3>3 DEF Logged
  <2>3. Recovered' = Recovered
    BY <2>1, <2>2, RecoveredInstall, Zenon
  <2>4. View' = Recovered'
    BY <2>1 DEF View
  <2> QED
    BY <1>2, <2>3, <2>4
<1>5. CASE recover_clear
  <2>1. /\ dhead' = <<>> /\ boot' = "up" /\ UNCHANGED <<disk, cache>>
    BY <1>5 DEF recover_clear, ControlInv
  <2>2. Recovered' = disk'
    BY <2>1, RecoveredEmpty, Zenon
  <2>3. Recovered = disk
    BY <1>5, RecoveredHome, Zenon DEF recover_clear, DataInv, DiskInv
  <2>4. \A b \in Block : bread(b)' = disk[b]
    BY <1>1, <2>1 DEF bread, DataInv, PinInv
  <2>5. View' = disk
    BY <2>1, <2>4 DEF View, TypeOK
  <2> QED
    BY <1>2, <2>1, <2>2, <2>3, <2>5
<1> QED
  BY <1>3, <1>4, <1>5, Zenon DEF Recovery

\* Steps that change no block.
LEMMA SameBlocks ==
    ASSUME UNCHANGED <<disk, dlog, dhead, cache, boot>>
    PROVE  UNCHANGED <<View, Recovered>>
<1>1. Recovered' = Recovered
  BY DEF Recovered, Logged
<1>2. \A b \in Block : bread(b)' = bread(b)
  BY DEF bread
<1> QED
  BY <1>1, <1>2 DEF View

\* log_write is the abstract write of the block.
LEMMA RefinesLogWrite ==
    ASSUME TypeOK,
           NEW p \in Proc, NEW b \in Block, NEW v \in Value, log_write(p, b, v)
    PROVE  GC!Write(p, b, v)
<1>1. /\ boot = "up" /\ boot' = "up" /\ pc' = pc /\ p \in Op
      /\ cache' = [cache EXCEPT ![b] = v] /\ UNCHANGED <<disk, dlog, dhead>>
  BY Zenon DEF log_write, Running, durable, Op
<1>2. Recovered' = Recovered /\ Op' = Op
  <2>1. Recovered' = Recovered
    BY <1>1, SameRecovered
  <2> QED
    BY <1>1, <2>1 DEF Op
<1>3. \A c \in Block : bread(c)' = IF c = b THEN v ELSE bread(c)
  BY <1>1, LogAssumption DEF bread, TypeOK
<1>4. View' = [View EXCEPT ![b] = v]
  BY <1>1, <1>3, Zenon DEF View
<1> QED
  BY <1>1, <1>2, <1>4, Zenon DEF GC!Write

\* write_log and the recycling of a buffer are invisible.
LEMMA RefinesWriteLog ==
    ASSUME TypeOK, ControlInv, DataInv, TypeOK', NEW p \in Proc, write_log(p)
    PROVE  UNCHANGED <<View, Recovered>>
<1>1. p \in Committer /\ pc[p] = "write_log"
  BY DEF write_log, Committer
<1>2. ~At("write_head") /\ ~At("install_trans") /\ boot = "up"
  BY <1>1, Phase, CommitterAlone
<1>3. dhead = <<>> /\ UNCHANGED <<disk, dhead, boot>> /\ cache' = cache
  BY <1>2, DataWriteLog, Zenon DEF write_log, DataInv, DiskInv
<1>4. Recovered' = disk' /\ Recovered = disk
  BY <1>3, EmptyHeader, RecoveredHome, RecoveredEmpty
<1>5. \A b \in Block : bread(b)' = bread(b)
  BY <1>3 DEF bread
<1>6. View' = View
  BY <1>2, <1>3, <1>5 DEF View
<1> QED
  BY <1>3, <1>4, <1>6

\* Dropping a clean buffer changes nothing a call sees: bread reads it again.
LEMMA RefinesRecycle ==
    ASSUME TypeOK, DataInv, NEW b \in Block, bget_recycle(b)
    PROVE  UNCHANGED <<View, Recovered>>
<1>1. /\ b \notin pinned /\ cache' = [cache EXCEPT ![b] = NotCached]
      /\ UNCHANGED <<disk, dlog, dhead, boot>>
  BY DEF bget_recycle, durable
<1>2. Recovered' = Recovered
  BY <1>1, SameRecovered, ZenonT(40)
<1>3. \A c \in Block : bread(c)' = bread(c)
  BY <1>1, ViewClean DEF bread, TypeOK
<1> QED
  BY <1>1, <1>2, <1>3 DEF View

\* Writing the header of a log that is not empty is the abstract commit.
LEMMA RefinesCommit ==
    ASSUME TypeOK, ControlInv, DataInv, TypeOK', DataInv',
           NEW p \in Proc, write_head(p), lh # <<>>
    PROVE  Recovered' = View /\ View' = View
<1>1. p \in Committer /\ pc[p] = "write_head"
  BY DEF write_head, Committer
<1>2. boot = "up" /\ At("write_head") /\ ~At("write_log") /\ ~At("install_trans")
  BY <1>1, CommitterAlone, Phase
<1>3. dhead' = lh /\ UNCHANGED <<disk, dlog, cache, boot>>
  BY DEF write_head
<1>4. ASSUME NEW b \in Block PROVE Recovered'[b] = bread(b)
  <2>1. CASE b \in Logged(lh)
    <3>1. PICK i \in DOMAIN lh : lh[i] = b
      BY <2>1, Zenon DEF Logged
    <3>2. Recovered'[b] = dlog[i]
      BY <1>3, <3>1, RecoveredLoggedNext, ZenonT(40)
    <3>3. dlog[i] = cache[b]
      BY <1>2, <3>1 DEF DataInv, DiskInv
    <3>4. cache[b] # NotCached
      BY <1>2, <3>1, PinnedAhead
    <3> QED
      BY <3>2, <3>3, <3>4 DEF bread
  <2>2. CASE b \notin Logged(lh)
    <3>1. Recovered'[b] = disk[b]
      <4>1. b \notin Logged(dhead')
        BY <1>3, <2>2
      <4>2. Recovered'[b] = disk'[b]
        BY <4>1, RecoveredUnlogged
      <4> QED
        BY <1>3, <4>2
    <3>2. b \notin pinned
      <4>1. b \in pinned => \E i \in DOMAIN lh : lh[i] = b
        BY <1>2, Zenon DEF DataInv, PinInv
      <4> QED
        BY <2>2, <4>1, Zenon DEF Logged
    <3> QED
      BY <3>1, <3>2, ViewClean
  <2> QED
    BY <2>1, <2>2
<1>5. Recovered' = View
  BY <1>2, <1>4, Zenon DEF View, Recovered
<1>6. \A b \in Block : bread(b)' = bread(b)
  BY <1>3 DEF bread
<1>7. View' = View
  BY <1>2, <1>3, <1>6 DEF View
<1> QED
  BY <1>5, <1>7

\* Erasing the header changes nothing, for the blocks are at home.
LEMMA RefinesErase ==
    ASSUME TypeOK, ControlInv, DataInv, TypeOK',
           NEW p \in Proc, write_head(p), lh = <<>>
    PROVE  UNCHANGED <<View, Recovered>>
<1>1. At("write_head")
  BY DEF write_head, At
<1>2. dhead' = <<>> /\ UNCHANGED <<disk, cache, boot>>
  BY ZenonT(40) DEF write_head
<1>3. Recovered = disk
  BY <1>1, RecoveredHome DEF DataInv, DiskInv
<1>4. Recovered' = disk'
  BY <1>2, RecoveredEmpty
<1>5. \A b \in Block : bread(b)' = bread(b)
  BY <1>2 DEF bread
<1>6. Recovered' = Recovered
  BY <1>2, <1>3, <1>4, ZenonT(40)
<1> QED
  BY <1>2, <1>5, <1>6 DEF View

\* Installing a block changes nothing: its buffer already has the contents.
LEMMA RefinesInstall ==
    ASSUME TypeOK, ControlInv, DataInv, NEW p \in Proc, install_trans(p)
    PROVE  UNCHANGED <<View, Recovered>>
<1>1. p \in Committer /\ pc[p] = "install_trans"
  BY DEF install_trans, Committer
<1>2. boot = "up" /\ At("install_trans")
  BY <1>1, CommitterAlone, Phase, Zenon
<1>3. tail \in DOMAIN lh /\ dhead = lh /\ lh[tail] \in Block
  BY <1>2, HeaderDomain, ZenonT(40) DEF DataInv, DiskInv, ControlInv, TypeOK
<1>4. /\ disk' = [disk EXCEPT ![lh[tail]] = dlog[tail]]
      /\ cache' = [cache EXCEPT ![lh[tail]] = dlog[tail]]
      /\ UNCHANGED <<dlog, dhead, boot>>
  BY DEF install_trans, install_block
<1>5. lh[tail] \in Logged(dhead)
  BY <1>3 DEF Logged
<1>6. Recovered' = Recovered
  BY <1>4, <1>5, RecoveredInstall, Zenon
<1>7. dlog[tail] = cache[lh[tail]] /\ cache[lh[tail]] # NotCached
  <2>1. tail <= tail
    BY DEF TypeOK
  <2> QED
    BY <1>2, <1>3, <2>1, DataInstall, PinnedAhead, Zenon
<1>8. \A b \in Block : bread(b)' = bread(b)
  BY <1>3, <1>4, <1>7, Zenon DEF bread, TypeOK
<1> QED
  BY <1>2, <1>4, <1>6, <1>8 DEF View

\* Every step of the log is a step of group commit or invisible to it.
LEMMA RefinesStep ==
    ASSUME TypeOK, ControlInv, DataInv, TypeOK', DataInv', [Next]_vars
    PROVE  [GC!GCNext]_(GC!gcVars)
<1>1. ASSUME UNCHANGED <<View, Recovered, Op>> PROVE [GC!GCNext]_(GC!gcVars)
  BY <1>1 DEF GC!gcVars
<1>2. ASSUME GC!GCNext PROVE [GC!GCNext]_(GC!gcVars)
  BY <1>2
<1>3. CASE Crash
  BY <1>2, <1>3, RefinesCrash DEF GC!GCNext
<1>4. CASE Recovery
  BY <1>1, <1>4, RefinesRecovery
<1>5. ASSUME NEW p \in Proc,
             call(p) \/ kkill(p) \/ finish_commit(p) \/ (begin_op(p) /\ MustWait)
      PROVE  [GC!GCNext]_(GC!gcVars)
  <2>1. Op' = Op
    BY <1>5, ZenonT(40) DEF call, kkill, finish_commit, begin_op, Wakeup, Op, TypeOK
  <2>2. UNCHANGED <<disk, dlog, dhead, cache, boot>>
    BY <1>5 DEF call, kkill, finish_commit, begin_op, durable
  <2> QED
    BY <1>1, <2>1, <2>2, SameBlocks, Zenon
<1>6. ASSUME NEW p \in Proc, begin_op(p), ~MustWait PROVE [GC!GCNext]_(GC!gcVars)
  <2>1. Op' = Op \cup {p} /\ p \notin Op
    BY <1>6, Zenon DEF begin_op, Op, TypeOK
  <2>2. UNCHANGED <<disk, dlog, dhead, cache, boot>>
    BY <1>6 DEF begin_op, durable
  <2>3. GC!Begin(p)
    BY <2>1, <2>2, SameBlocks DEF GC!Begin
  <2> QED
    BY <1>2, <2>3, Zenon DEF GC!GCNext
<1>7. ASSUME NEW p \in Proc, end_op(p) PROVE [GC!GCNext]_(GC!gcVars)
  <2>1. p \in Op /\ ~committing
    BY <1>7, Zenon DEF end_op, ControlInv, Op
  <2>2. Op' = Op \ {p}
    BY <1>7, <2>1, ZenonT(40) DEF end_op, Op, CommitEntry, Wakeup, TypeOK
  <2>3. UNCHANGED <<disk, dlog, dhead, cache, boot>>
    BY <1>7 DEF end_op, durable
  <2>4. GC!End(p)
    BY <2>1, <2>2, <2>3, SameBlocks, Zenon DEF GC!End
  <2> QED
    BY <1>2, <2>4, Zenon DEF GC!GCNext
<1>8. ASSUME NEW p \in Proc, write_log(p) \/ write_head(p) \/ install_trans(p)
      PROVE  Op = {} /\ Op' = {}
  <2>1. Op = {}
    BY <1>8 DEF write_log, write_head, install_trans, ControlInv, Committer
  <2> QED
    BY <1>8, <2>1, ZenonT(40) DEF write_log, write_head, install_trans, Op, TypeOK
<1>9. ASSUME NEW p \in Proc, write_log(p) PROVE [GC!GCNext]_(GC!gcVars)
  BY <1>1, <1>8, <1>9, RefinesWriteLog
<1>10. ASSUME NEW p \in Proc, write_head(p) PROVE [GC!GCNext]_(GC!gcVars)
  <2>1. CASE lh = <<>>
    BY <1>1, <1>8, <1>10, <2>1, RefinesErase
  <2>2. CASE lh # <<>>
    <3>1. GC!Commit
      BY <1>8, <1>10, <2>2, RefinesCommit, Zenon DEF GC!Commit
    <3> QED
      BY <1>2, <3>1 DEF GC!GCNext
  <2> QED
    BY <2>1, <2>2
<1>11. ASSUME NEW p \in Proc, install_trans(p) PROVE [GC!GCNext]_(GC!gcVars)
  BY <1>1, <1>8, <1>11, RefinesInstall
<1>12. ASSUME NEW p \in Proc, NEW b \in Block, NEW v \in Value, log_write(p, b, v)
       PROVE  [GC!GCNext]_(GC!gcVars)
  BY <1>2, <1>12, RefinesLogWrite DEF GC!GCNext
<1>13. ASSUME NEW b \in Block, bget_recycle(b) PROVE [GC!GCNext]_(GC!gcVars)
  <2>1. Op' = Op
    BY <1>13 DEF bget_recycle, Op
  <2> QED
    BY <1>1, <1>13, <2>1, RefinesRecycle
<1>14. CASE UNCHANGED vars
  <2>1. UNCHANGED <<disk, dlog, dhead, cache, boot, pc>>
    BY <1>14 DEF vars, volatile, durable
  <2> QED
    BY <1>1, <2>1, SameBlocks DEF Op
<1> QED
  BY <1>3, <1>4, <1>5, <1>6, <1>7, <1>9, <1>10, <1>11, <1>12, <1>13, <1>14, ZenonT(40)
     DEF Next, CommitStep

\* The log implements group commit: whatever the interleaving of calls and
\* wherever the power fails, the disk recovers to the contents of a moment at
\* which no call was active, and commits are invisible to running calls.
THEOREM ImplementsGroupCommit == Spec => CrashAtomic
<1>1. /\ TypeOK /\ ControlInv /\ DataInv /\ TypeOK' /\ DataInv' /\ [Next]_vars
      => [GC!GCNext]_(GC!gcVars)
  BY RefinesStep
<1> QED
  BY <1>1, RefinesInit, Control, DataAgrees, PTL DEF Spec, CrashAtomic, GC!GCSpec

\* When the end_op that committed returns, all that completed calls wrote is
\* durable.
THEOREM CommitIsDurable == Spec => []DoneIsDurable
<1>1. TypeOK /\ ControlInv /\ DataInv => DoneIsDurable
  <2> SUFFICES ASSUME TypeOK, ControlInv, DataInv, NEW p \in Proc, pc[p] = "done"
               PROVE  Recovered = View
    BY DEF DoneIsDurable
  <2>1. p \in Committer
    BY DEF Committer
  <2>2. boot = "up" /\ ~At("write_head") /\ ~At("install_trans") /\ At("done")
    BY <2>1, CommitterAlone, Phase, Zenon
  <2>3. dhead = <<>> /\ lh = <<>>
    BY <2>2, ZenonT(40) DEF DataInv, DiskInv, ControlInv
  <2>4. Recovered = disk
    BY <2>3, EmptyHeader, RecoveredHome, Zenon
  <2>5. \A b \in Block : bread(b) = disk[b]
    BY <2>2, <2>3, EmptyHeader, ViewClean, Zenon DEF DataInv, PinInv
  <2> QED
    BY <2>2, <2>4, <2>5, Zenon DEF View, TypeOK
<1> QED
  BY <1>1, Control, DataAgrees, PTL

=============================================================================
