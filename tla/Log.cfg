\* Three processes with calls of one block in a log of two reservations, which
\* the blocks can fill, with crashes.
SPECIFICATION Spec
CONSTANTS
    Proc = {p1, p2, p3}
    Block = {b1, b2, b3, b4}
    Value = {v0, v1}
    MkfsValue = v0
    NotCached = NotCached
    MAXOPBLOCKS = 2
    LOGBLOCKS = 4
    OPBLOCKS = 1
SYMMETRY Symmetry
INVARIANTS
    DoneIsDurable
    NoPanic
PROPERTIES
    CrashAtomic
