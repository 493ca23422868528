\* Transactions and plain calls share the log, and wait in begin_op, under the
\* fairness of the scheduler.
SPECIFICATION TxFairSpec
CONSTANTS
    Proc = {p1, p2}
    PlainProc = {p1, p2}
    Block = {b1, b2}
    Value = {v0, v1}
    MkfsValue = v0
    NotCached = NotCached
    NoShadow = NoShadow
    MAXOPBLOCKS = 2
    LOGBLOCKS = 4
    OPBLOCKS = 1
INVARIANTS
    QuietCommit
PROPERTIES
    SleeperWakes
