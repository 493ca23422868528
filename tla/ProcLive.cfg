CONSTANTS
    NPROC = 3
    NCPU = 1
    None = None
    Calls = {"fork", "exit", "wait", "kill"}
    MaxPid = 3
    TickRange = 1
    MaxPause = 0
SPECIFICATION FairSpec
PROPERTIES
    OrphanReaped
    KilledExits
