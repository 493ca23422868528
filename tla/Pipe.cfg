CONSTANTS
    Proc = {p1, p2}
    NFILE = 2
    NOFILE = 2
    Page = {pg1}
    Byte = {0, 1}
    Messages <- MCMessages
    ReadSizes = {3}
    PIPESIZE = 2
    CountRange = 4
    None = None
SPECIFICATION Spec
SYMMETRY Symmetry
CHECK_DEADLOCK FALSE
INVARIANTS
    NoFault
    EndsOpen
PROPERTIES
    NoLostWakeup
    IsFifo
