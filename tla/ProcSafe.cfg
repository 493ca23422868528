CONSTANTS
    NPROC = 3
    NCPU = 2
    None = None
    Calls = {"fork", "exit", "wait", "kill", "pause"}
    MaxPid = 3
    TickRange = 2
    MaxPause = 1
SPECIFICATION Spec
INVARIANTS
    StackInUse
    ParentAlive
    NoLostChild
    PauseLongEnough
