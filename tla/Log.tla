-------------------------------- MODULE Log --------------------------------
(***************************************************************************)
(* The write-ahead log of kernel/log.c over the buffer cache and the disk, *)
(* with power loss at any moment and recovery at boot.                     *)
(*                                                                         *)
(* A step is one disk block write or one critical section of log.lock.     *)
(* Processes inside an active transaction return at once from begin_op,    *)
(* log_write and end_op and are not part of this module; see TxLog.        *)
(***************************************************************************)
EXTENDS Naturals, Sequences, FiniteSets

CONSTANTS
    Proc,          \* processes that make file-system calls
    Block,         \* home block numbers
    Value,         \* contents of a block
    MkfsValue,     \* contents of every block of the image mkfs wrote
    NotCached,     \* no buffer holds the block
    MAXOPBLOCKS,   \* log space reserved for one call (param.h)
    LOGBLOCKS,     \* data blocks of the on-disk log (param.h)
    OPBLOCKS       \* distinct blocks one call of the file system really logs

\* The calls of sysfile.c and file.c log at most seven distinct blocks, below
\* the ten that MAXOPBLOCKS reserves.
ASSUME LogAssumption ==
    /\ MAXOPBLOCKS \in Nat /\ LOGBLOCKS \in Nat /\ OPBLOCKS \in Nat
    /\ OPBLOCKS < MAXOPBLOCKS
    /\ MAXOPBLOCKS <= LOGBLOCKS
    /\ IsFiniteSet(Proc) /\ IsFiniteSet(Block)
    /\ MkfsValue \in Value
    /\ NotCached \notin Value

VARIABLES
    disk,          \* home locations on disk
    dlog,          \* data blocks of the log area on disk
    dhead,         \* block numbers in the on-disk log header
    cache,         \* bp->data of the buffer that holds a block, if one does
    pinned,        \* blocks whose buffer log_write pinned
    lh,            \* log.lh: the block numbers of the in-memory header
    outstanding,   \* log.outstanding
    committing,    \* log.committing
    pc,            \* where each process is
    wrote,         \* the blocks logged by the call a process is in
    tail,          \* loop index of write_log and install_trans
    boot,          \* where recovery is, "up" after it
    panicked       \* a panic() stopped the machine

durable == <<disk, dlog, dhead>>
volatile == <<cache, pinned, lh, outstanding, committing, pc, wrote, tail, boot,
              panicked>>
vars == <<durable, volatile>>

PCs == {"user", "begin_op", "sleep", "op", "write_log", "write_head",
        "install_trans", "done"}

\* The contents of a struct logheader.
Header == {h \in Seq(Block) : Len(h) <= LOGBLOCKS}

TypeOK ==
    /\ disk \in [Block -> Value]
    /\ dlog \in [1..LOGBLOCKS -> Value]
    /\ dhead \in Header
    /\ cache \in [Block -> Value \cup {NotCached}]
    /\ pinned \in SUBSET Block
    /\ lh \in Header
    /\ outstanding \in Nat
    /\ committing \in BOOLEAN
    /\ pc \in [Proc -> PCs]
    /\ wrote \in [Proc -> SUBSET Block]
    /\ tail \in 1..(LOGBLOCKS + 1)
    /\ boot \in {"read_head", "install_trans", "write_head", "up"}
    /\ panicked \in BOOLEAN

Logged(h) == {h[i] : i \in DOMAIN h}

\* What bread(b) finds: the cached copy, or the block read from disk.
bread(b) == IF cache[b] = NotCached THEN disk[b] ELSE cache[b]

Init ==
    /\ disk = [b \in Block |-> MkfsValue]
    /\ dlog = [i \in 1..LOGBLOCKS |-> MkfsValue]
    /\ dhead = <<>>
    /\ cache = [b \in Block |-> NotCached]
    /\ pinned = {}
    /\ lh = <<>>
    /\ outstanding = 0
    /\ committing = FALSE
    /\ pc = [p \in Proc |-> "user"]
    /\ wrote = [p \in Proc |-> {}]
    /\ tail = 1
    /\ boot = "read_head"
    /\ panicked = FALSE

\* The power fails and the machine boots again: memory is lost.
Crash ==
    /\ cache' = [b \in Block |-> NotCached]
    /\ pinned' = {}
    /\ lh' = <<>>
    /\ outstanding' = 0
    /\ committing' = FALSE
    /\ pc' = [p \in Proc |-> "user"]
    /\ wrote' = [p \in Proc |-> {}]
    /\ tail' = 1
    /\ boot' = "read_head"
    /\ panicked' = FALSE
    /\ UNCHANGED durable

-----------------------------------------------------------------------------
(* Recovery: initlog, before any other process runs.                        *)

Running == boot = "up" /\ ~panicked

read_head ==
    /\ boot = "read_head"
    /\ lh' = dhead
    /\ tail' = 1
    /\ boot' = IF dhead = <<>> THEN "write_head" ELSE "install_trans"
    /\ UNCHANGED <<durable, cache, pinned, outstanding, committing, pc, wrote,
                   panicked>>

\* One turn of the loop of install_trans: log block to home block.
install_block ==
    /\ disk' = [disk EXCEPT ![lh[tail]] = dlog[tail]]
    /\ cache' = [cache EXCEPT ![lh[tail]] = dlog[tail]]
    /\ UNCHANGED <<dlog, dhead, outstanding, committing, wrote, panicked>>

\* After the last turn the caller sets log.lh.n to 0.
recover_install ==
    /\ boot = "install_trans"
    /\ install_block
    /\ IF tail = Len(lh)
       THEN lh' = <<>> /\ tail' = 1 /\ boot' = "write_head"
       ELSE tail' = tail + 1 /\ UNCHANGED <<lh, boot>>
    /\ UNCHANGED <<pinned, pc>>

recover_clear ==
    /\ boot = "write_head"
    /\ dhead' = lh
    /\ boot' = "up"
    /\ UNCHANGED <<disk, dlog, cache, pinned, lh, outstanding, committing, pc,
                   wrote, tail, panicked>>

-----------------------------------------------------------------------------
(* begin_op, log_write, end_op.                                             *)

\* A process enters a file-system call.
call(p) ==
    /\ Running /\ pc[p] = "user"
    /\ pc' = [pc EXCEPT ![p] = "begin_op"]
    /\ UNCHANGED <<durable, cache, pinned, lh, outstanding, committing, wrote,
                   tail, boot, panicked>>

\* Mutant: the caller's own reservation is left out of the sum.
SpaceIgnoringCaller == Len(lh) + outstanding * MAXOPBLOCKS <= LOGBLOCKS

HasSpace == Len(lh) + (outstanding + 1) * MAXOPBLOCKS <= LOGBLOCKS

MustWait == committing \/ ~HasSpace

\* One turn of the loop of begin_op, from acquire or wakeup to sleep or release.
begin_op(p) ==
    /\ Running /\ pc[p] = "begin_op"
    /\ pc' = [pc EXCEPT ![p] = IF MustWait THEN "sleep" ELSE "op"]
    /\ outstanding' = IF MustWait THEN outstanding ELSE outstanding + 1
    /\ UNCHANGED <<durable, cache, pinned, lh, committing, wrote, tail, boot,
                   panicked>>

\* The caller modifies the buffer it has locked and log_write records it.
LogBlock(b) ==
    IF b \in Logged(lh)
    THEN UNCHANGED <<lh, pinned>>
    ELSE lh' = Append(lh, b) /\ pinned' = pinned \cup {b}

log_write(p, b, v) ==
    /\ Running /\ pc[p] = "op"
    /\ Cardinality(wrote[p] \cup {b}) <= OPBLOCKS
    /\ wrote' = [wrote EXCEPT ![p] = @ \cup {b}]
    /\ cache' = [cache EXCEPT ![b] = v]
    /\ IF Len(lh) >= LOGBLOCKS \/ outstanding < 1
       THEN panicked' = TRUE /\ UNCHANGED <<lh, pinned>>
       ELSE LogBlock(b) /\ UNCHANGED panicked
    /\ UNCHANGED <<durable, outstanding, committing, pc, tail, boot>>

\* Mutant: nobody is woken.
WakeupNobody(f) == f

\* wakeup(&log), applied to the program counters f.
Wakeup(f) == [q \in Proc |-> IF f[q] = "sleep" THEN "begin_op" ELSE f[q]]

\* Mutant: the header is written before the log blocks.
CommitEntryHeadFirst == IF lh = <<>> THEN "done" ELSE "write_head"

\* Mutant: commit() skips a log of one block.
CommitEntryOffByOne == IF Len(lh) <= 1 THEN "done" ELSE "write_log"

\* commit() has work to do only if log.lh.n > 0.
CommitEntry == IF lh = <<>> THEN "done" ELSE "write_log"

\* The last call out becomes the committer; any other wakes the waiters.
end_op(p) ==
    /\ Running /\ pc[p] = "op"
    /\ outstanding' = outstanding - 1
    /\ wrote' = [wrote EXCEPT ![p] = {}]
    /\ IF committing
       THEN panicked' = TRUE /\ UNCHANGED <<committing, pc, tail>>
       ELSE /\ UNCHANGED panicked
            /\ IF outstanding = 1
               THEN /\ committing' = TRUE
                    /\ pc' = [pc EXCEPT ![p] = CommitEntry]
                    /\ tail' = 1
               ELSE /\ pc' = Wakeup([pc EXCEPT ![p] = "user"])
                    /\ UNCHANGED <<committing, tail>>
    /\ UNCHANGED <<durable, cache, pinned, lh, boot>>

-----------------------------------------------------------------------------
(* commit, run by the process whose end_op found no other call.             *)

\* One turn of the loop of write_log.
write_log(p) ==
    /\ Running /\ pc[p] = "write_log"
    /\ dlog' = [dlog EXCEPT ![tail] = bread(lh[tail])]
    /\ cache' = [cache EXCEPT ![lh[tail]] = bread(lh[tail])]
    /\ IF tail = Len(lh)
       THEN pc' = [pc EXCEPT ![p] = "write_head"] /\ tail' = 1
       ELSE tail' = tail + 1 /\ UNCHANGED pc
    /\ UNCHANGED <<disk, dhead, pinned, lh, outstanding, committing, wrote, boot,
                   panicked>>

\* The commit point when log.lh.n > 0, the erasure of the log when it is 0.
write_head(p) ==
    /\ Running /\ pc[p] = "write_head"
    /\ dhead' = lh
    /\ pc' = [pc EXCEPT ![p] = IF lh = <<>> THEN "done" ELSE "install_trans"]
    /\ UNCHANGED <<disk, dlog, cache, pinned, lh, outstanding, committing, wrote,
                   tail, boot, panicked>>

install_trans(p) ==
    /\ Running /\ pc[p] = "install_trans"
    /\ install_block
    /\ pinned' = pinned \ {lh[tail]}
    /\ IF tail = Len(lh)
       THEN /\ lh' = <<>>
            /\ tail' = 1
            /\ pc' = [pc EXCEPT ![p] = "write_head"]
       ELSE tail' = tail + 1 /\ UNCHANGED <<lh, pc>>
    /\ UNCHANGED boot

\* The rest of end_op: committing = 0 and wakeup(&log).
finish_commit(p) ==
    /\ Running /\ pc[p] = "done"
    /\ committing' = FALSE
    /\ pc' = Wakeup([pc EXCEPT ![p] = "user"])
    /\ UNCHANGED <<durable, cache, pinned, lh, outstanding, wrote, tail, boot,
                   panicked>>

-----------------------------------------------------------------------------
(* The environment: the buffer cache recycles a buffer nobody references    *)
(* (bio.c, bget) and a sleeping process is woken early (proc.c, kkill).     *)

bget_recycle(b) ==
    /\ ~panicked
    /\ cache[b] # NotCached
    /\ b \notin pinned
    /\ cache' = [cache EXCEPT ![b] = NotCached]
    /\ UNCHANGED <<durable, pinned, lh, outstanding, committing, pc, wrote, tail,
                   boot, panicked>>

kkill(p) ==
    /\ Running /\ pc[p] = "sleep"
    /\ pc' = [pc EXCEPT ![p] = "begin_op"]
    /\ UNCHANGED <<durable, cache, pinned, lh, outstanding, committing, wrote,
                   tail, boot, panicked>>

Recovery == read_head \/ recover_install \/ recover_clear

\* The steps a process takes on its own once it is inside a call.
CommitStep(p) ==
    write_log(p) \/ write_head(p) \/ install_trans(p) \/ finish_commit(p)

Next ==
    \/ Crash
    \/ Recovery
    \/ \E p \in Proc :
          \/ call(p) \/ begin_op(p) \/ end_op(p) \/ CommitStep(p) \/ kkill(p)
          \/ \E b \in Block, v \in Value : log_write(p, b, v)
    \/ \E b \in Block : bget_recycle(b)

\* The scheduler runs every runnable process again and again, a call of the
\* file system does not run for ever, and a disk write completes.  Nothing
\* makes a process start a call, and nothing makes the power fail.
Fairness ==
    /\ WF_vars(Recovery)
    /\ \A p \in Proc : /\ WF_vars(begin_op(p))
                       /\ WF_vars(end_op(p))
                       /\ WF_vars(CommitStep(p))

Spec == Init /\ [][Next]_vars

-----------------------------------------------------------------------------
(* Correctness.                                                             *)

Op == {p \in Proc : pc[p] = "op"}

Committer == {p \in Proc : pc[p] \in {"write_log", "write_head",
                                       "install_trans", "done"}}

\* The home blocks as recovery would leave them if the power failed now.
Recovered ==
    [b \in Block |-> IF b \in Logged(dhead)
                     THEN dlog[CHOOSE i \in DOMAIN dhead : dhead[i] = b]
                     ELSE disk[b]]

\* The contents file-system calls see; during boot, those they will see.
View == IF boot = "up" THEN [b \in Block |-> bread(b)] ELSE Recovered

GC == INSTANCE GroupCommit WITH mem <- View, dur <- Recovered, active <- Op

\* The log implements group commit: whenever the power fails, also again
\* during recovery, the disk is brought to the contents of a moment at which
\* no call was active, never to a part of a call, and a commit or the
\* recycling of a buffer never changes what running calls read
\* (commit, recover_from_log, bget).
CrashAtomic == GC!GCSpec

\* The panics of log_write and end_op are unreachable: the space begin_op
\* reserves is never exhausted by the calls it admitted.
NoPanic == ~panicked

\* The log commits only when no call is active, by one process, as the header
\* of log.c says; log.outstanding counts the active calls exactly.
QuietCommit ==
    /\ outstanding = Cardinality(Op)
    /\ committing <=> Committer # {}
    /\ Committer # {} => Op = {} /\ Cardinality(Committer) = 1

\* When the end_op that committed returns, all that completed calls wrote
\* survives a power failure.
DoneIsDurable == \A p \in Proc : pc[p] = "done" => Recovered = View

\* Nobody sleeps in begin_op unless a process that will call wakeup(&log)
\* is on its way: no lost wakeup and no call waiting for a log that is free.
SleeperHasWaker ==
    (\E p \in Proc : pc[p] = "sleep") => outstanding > 0 \/ committing

\* A process asleep in begin_op is woken, whatever the other calls do.
SleeperWakes == \A p \in Proc : pc[p] = "sleep" ~> pc[p] # "sleep"

-----------------------------------------------------------------------------
(* The inductive invariants behind these properties.                        *)

At(s) == \E p \in Proc : pc[p] = s

\* The calls and the committer exclude each other, recovery excludes both, the
\* loops of the committer stay within the header, and the header is empty when
\* neither a call nor the committer is there to fill or to empty it.
ControlInv ==
    /\ outstanding = Cardinality(Op)
    /\ committing <=> Committer # {}
    /\ Committer # {} => Op = {}
    /\ \A p, q \in Committer : p = q
    /\ boot # "up" => \A p \in Proc : pc[p] = "user"
    /\ At("write_log") \/ At("install_trans") \/ boot = "install_trans"
          => tail \in 1..Len(lh)
    /\ At("write_head") => tail = 1
    /\ At("done") \/ boot = "write_head" => lh = <<>>
    /\ boot = "up" /\ Op = {} /\ Committer = {} => lh = <<>>
    /\ \A p \in Proc : p \notin Op => wrote[p] = {}

\* What is left of the space begin_op reserved for the active calls.
Unused == {x \in Op \X (1..MAXOPBLOCKS) : Cardinality(wrote[x[1]]) < x[2]}

\* The blocks in the header and the unused reservations of all active calls
\* fit into the log together, and no call has logged more than it may.
SpaceInv ==
    /\ \A p \in Proc : wrote[p] \subseteq Logged(lh)
    /\ \A p \in Proc : Cardinality(wrote[p]) <= OPBLOCKS
    /\ Len(lh) + Cardinality(Unused) <= LOGBLOCKS

Distinct(h) == \A i, j \in DOMAIN h : h[i] = h[j] => i = j

\* The pinned blocks are those of the header that install_trans has not
\* reached; every other buffer holds what is on disk.
PinInv ==
    /\ Distinct(lh) /\ Distinct(dhead)
    /\ boot # "up" => pinned = {}
    /\ boot = "up" =>
          \A b \in Block : b \in pinned <=>
              \E i \in DOMAIN lh : lh[i] = b /\ (At("install_trans") => tail <= i)
    /\ \A b \in Block : IF b \in pinned THEN cache[b] # NotCached
                        ELSE cache[b] \in {NotCached, disk[b]}

\* The header on disk is empty except from the commit point to the erasure;
\* then the home blocks are on disk as far as install_trans got and in the log
\* beyond.  Before the commit point the log agrees with the cache as far as
\* write_log got.
DiskInv ==
    /\ boot = "up" /\ dhead # <<>> =>
          At("install_trans") \/ (At("write_head") /\ lh = <<>>)
    /\ At("install_trans") \/ boot = "install_trans" =>
          /\ dhead = lh
          /\ \A i \in DOMAIN lh : i < tail => disk[lh[i]] = dlog[i]
    /\ (At("write_head") /\ lh = <<>>) \/ boot = "write_head" =>
          \A i \in DOMAIN dhead : disk[dhead[i]] = dlog[i]
    /\ \A i \in DOMAIN lh :
          \/ At("write_log") /\ i < tail
          \/ At("write_head")
          \/ At("install_trans") /\ tail <= i
          => dlog[i] = cache[lh[i]]

DataInv == PinInv /\ DiskInv
=============================================================================
