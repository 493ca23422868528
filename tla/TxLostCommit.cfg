\* txcommit swaps a buffer that a log commit is about to install.
SPECIFICATION TxSpec
CONSTANTS
    Proc = {p1, p2}
    PlainProc = {p2}
    Block = {b1, b2}
    Value = {v0, v1}
    MkfsValue = v0
    NotCached = NotCached
    NoShadow = NoShadow
    MAXOPBLOCKS = 2
    LOGBLOCKS = 4
    OPBLOCKS = 1
PROPERTY CommitKeepsContents
