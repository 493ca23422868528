\* Transactions and plain calls on a file that may be open already
\* when the transaction begins.
SPECIFICATION Spec
CONSTANTS
    Proc = {p1, p2}
    cwd = cwd
    f1 = f1
    bd = bd
    b1 = b1
    Inode <- MCInode
    Buf <- MCBuf
    DataBuf <- MCDataBuf
    Addr <- MCAddr
    None = None
    Freed = Freed
    MAX_WORKSET = 4
    Mixes <- LateMixes
    RetryOnly = TRUE
    OpenInside = FALSE
    MaxVersion = 2
    MaxRef = 5
SYMMETRY Sym
CHECK_DEADLOCK FALSE
INVARIANTS
    NoLockInUserMode
