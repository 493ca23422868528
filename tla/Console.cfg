CONSTANTS
    c1 = c1
    c2 = c2
    Cpu = {c1, c2}
    Calls <- MCCalls
    Key = {"a", "nl", "D", "H", "U", "P"}
    INPUT_BUF_SIZE = 2
    CountRange = 4
    ReadSizes = {2}
    WriteSizes = {2}
    Batch = 1
    RxSize = 1
    None = None
SPECIFICATION Spec
INVARIANTS
    NoSelfDeadlock
    SenderWoken
PROPERTIES
    IsTerminal
