------------------------------- MODULE TxLog -------------------------------
(***************************************************************************)
(* Transactions on top of the log: buf_commit of kernel/tx.c, the swap of  *)
(* kernel/systx.c, and the early returns of begin_op, log_write and end_op *)
(* inside an active transaction.  Plain calls are those of module Log.     *)
(*                                                                         *)
(* Conflicts between transactions are the subject of module Tx: here a     *)
(* transaction only touches blocks no other transaction has a shadow of.   *)
(***************************************************************************)
EXTENDS Log

CONSTANTS
    NoShadow,      \* the transaction has no shadow of the block
    PlainProc      \* processes that also make calls outside transactions

ASSUME TxLogAssumption == NoShadow \notin Value /\ PlainProc \subseteq Proc

VARIABLES
    status,        \* tx->status
    shadow,        \* shadow contents per process and block
    entries        \* buffers whose commit_fn has not returned yet

txVars == <<status, shadow, entries>>
allVars == <<vars, txVars>>

Workset(p) == {b \in Block : shadow[p][b] # NoShadow}

TxTypeOK ==
    /\ TypeOK
    /\ status \in [Proc -> {"INACTIVE", "ACTIVE", "ABORTED", "COMMITTED"}]
    /\ shadow \in [Proc -> [Block -> Value \cup {NoShadow}]]
    /\ entries \in [Proc -> SUBSET Block]

NoWorkset == [p \in Proc |-> [b \in Block |-> NoShadow]]

TxInit ==
    /\ Init
    /\ status = [p \in Proc |-> "INACTIVE"]
    /\ shadow = NoWorkset
    /\ entries = [p \in Proc |-> {}]

TxCrash ==
    /\ Crash
    /\ status' = [p \in Proc |-> "INACTIVE"]
    /\ shadow' = NoWorkset
    /\ entries' = [p \in Proc |-> {}]

-----------------------------------------------------------------------------
Active(p) == status[p] = "ACTIVE"

\* p is in user mode; outside a transaction its workset is empty.
Idle(p) == Running /\ pc[p] = "user" /\ (Active(p) \/ Workset(p) = {})

sys_txbegin(p) ==
    /\ Idle(p) /\ ~Active(p)
    /\ status' = [status EXCEPT ![p] = "ACTIVE"]
    /\ shadow' = [shadow EXCEPT ![p] = [b \in Block |-> NoShadow]]
    /\ UNCHANGED <<vars, entries>>

\* A call inside the transaction goes through bdata to the shadow of b, made
\* on first use; begin_op, log_write and end_op return at once.
bdata(p, b, v) ==
    /\ Idle(p) /\ Active(p)
    /\ \A q \in Proc \ {p} : b \notin Workset(q)
    /\ shadow' = [shadow EXCEPT ![p][b] = v]
    /\ cache' = [cache EXCEPT ![b] = bread(b)]
    /\ UNCHANGED <<durable, pinned, lh, outstanding, committing, pc, wrote, tail,
                   boot, panicked, status, entries>>

tx_read(p, b) ==
    bdata(p, b, IF shadow[p][b] = NoShadow THEN bread(b) ELSE shadow[p][b])

tx_write(p, b) == \E v \in Value : bdata(p, b, v)

\* txcommit as far as the unlock loop: the buffers are swapped while all of
\* them are locked, so nobody sees some of them swapped and others not.
sys_txcommit(p) ==
    /\ Idle(p) /\ Active(p)
    /\ status' = [status EXCEPT ![p] = "COMMITTED"]
    /\ cache' = [b \in Block |-> IF b \in Workset(p) THEN shadow[p][b] ELSE cache[b]]
    /\ entries' = [entries EXCEPT ![p] = Workset(p)]
    /\ UNCHANGED <<durable, pinned, lh, outstanding, committing, pc, wrote, tail,
                   boot, panicked, shadow>>

sys_txabort(p) ==
    /\ Idle(p) /\ Active(p)
    /\ status' = [status EXCEPT ![p] = "ABORTED"]
    /\ shadow' = [shadow EXCEPT ![p] = [b \in Block |-> NoShadow]]
    /\ UNCHANGED <<vars, entries>>

\* The pins of the entries that are through go.
Unpin(p) ==
    shadow' = [shadow EXCEPT ![p] = [b \in Block |->
                  IF b \in entries[p] THEN @[b] ELSE NoShadow]]

\* Mutant: buf_commit calls log_write without begin_op.
buf_commit_bare(p) ==
    /\ Running /\ pc[p] = "user" /\ entries[p] # {}
    /\ pc' = [pc EXCEPT ![p] = "op"]
    /\ Unpin(p)
    /\ UNCHANGED <<durable, cache, pinned, lh, outstanding, committing, wrote,
                   tail, boot, panicked, status, entries>>

\* txcommit calls buf_commit for one entry after the other.  This step is the
\* bunpin of the last one and the entry into begin_op of the next.
buf_commit(p) ==
    /\ Running /\ pc[p] = "user" /\ entries[p] # {}
    /\ pc' = [pc EXCEPT ![p] = "begin_op"]
    /\ Unpin(p)
    /\ UNCHANGED <<durable, cache, pinned, lh, outstanding, committing, wrote,
                   tail, boot, panicked, status, entries>>

\* Then log_write(b), of the contents the buffer has by now.
buf_log_write(p, b) ==
    /\ b \in entries[p] /\ wrote[p] = {}
    /\ log_write(p, b, cache[b])
    /\ UNCHANGED txVars

\* Then end_op, which may make p the committer.
buf_end_op(p) ==
    /\ entries[p] # {} /\ wrote[p] # {}
    /\ end_op(p)
    /\ entries' = [entries EXCEPT ![p] = @ \ wrote[p]]
    /\ UNCHANGED <<status, shadow>>

\* The last bunpin, and workset_size = 0.
txdone(p) ==
    /\ Running /\ pc[p] = "user" /\ entries[p] = {}
    /\ ~Active(p) /\ Workset(p) # {}
    /\ Unpin(p)
    /\ UNCHANGED <<vars, status, entries>>

\* A call outside transactions.
PlainCall(p) ==
    /\ p \in PlainProc /\ ~Active(p) /\ Workset(p) = {}
    /\ \/ call(p)
       \/ end_op(p)
       \/ \E b \in Block, v \in Value : log_write(p, b, v)
    /\ UNCHANGED txVars

Transaction(p) ==
    \/ sys_txbegin(p) \/ sys_txcommit(p) \/ sys_txabort(p)
    \/ buf_commit(p) \/ buf_end_op(p) \/ txdone(p)
    \/ \E b \in Block : tx_read(p, b) \/ tx_write(p, b) \/ buf_log_write(p, b)

\* A buffer is also pinned while a transaction has a shadow of it.
tx_bget_recycle(b) ==
    /\ \A p \in Proc : b \notin Workset(p)
    /\ bget_recycle(b)
    /\ UNCHANGED txVars

TxNext ==
    \/ TxCrash
    \/ Recovery /\ UNCHANGED txVars
    \/ \E p \in Proc : \/ Transaction(p) \/ PlainCall(p)
                       \/ (begin_op(p) \/ CommitStep(p)) /\ UNCHANGED txVars
    \/ \E b \in Block : tx_bget_recycle(b)

TxSpec == TxInit /\ [][TxNext]_allVars

\* The fairness of Log: the log operation of a buf_commit ends like any other.
TxFairSpec == TxSpec /\ Fairness

-----------------------------------------------------------------------------
(* Correctness.                                                             *)

\* A log commit changes nothing that system calls read, so contents that
\* txcommit has published stay published.
CommitKeepsContents ==
    [][(\E p \in Proc : CommitStep(p)) => View' = View]_allVars
=============================================================================
