\* Transactions and plain calls on one file in one directory.
SPECIFICATION Spec
CONSTANTS
    Proc = {p1, p2}
    cwd = cwd
    f1 = f1
    bd = bd
    b1 = b1
    Inode <- MCInode
    Buf <- MCBuf
    DataBuf <- MCDataBuf
    Addr <- MCAddr
    None = None
    Freed = Freed
    MAX_WORKSET = 4
    Mixes <- MCMixes
    RetryOnly = TRUE
    OpenInside = TRUE
    MaxVersion = 2
    MaxRef = 5
SYMMETRY Sym
CHECK_DEADLOCK FALSE
INVARIANTS
    NoFault
    WriterExclusion
    NoDirtyData
    NoTornRead
    EntryHasLink
