CONSTANTS
    p1 = p1
    p2 = p2
    Proc = {p1, p2}
    None = None
    NINUM = 3
    TableSizes = {2, 3}
    NBLOCK = 5
    UPB = 3
    NDIRECT = 1
    NINDIRECT = 1
    WriteSizes = {2}
    Name = {"a", "b"}
    Calls <- MCCalls
SPECIFICATION Spec
INVARIANTS
    RefsCounted
    BlocksAccounted
    NamesHaveLinks
    IputNeverBlocks
