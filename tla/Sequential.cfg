SPECIFICATION Spec
CONSTANTS
    MAXARGS = 3
    MAXPROC = 5
    Lines <- MCLines
    MAXLINES = 2
    HEAPMAX = 9
    MINCORE = 4
    HEADER = 2
    Requests = {0, 2, 6}
    FSSIZE = 28
    NLOG = 2
    NINODES = 6
    IPB = 4
    BPB = 28
    BSIZE = 2
    NDIRECT = 2
    NINDIRECT = 2
    FileSizes = {0, 2, 3, 5, 7}
    MAXFILES = 3
    NPROC = 2
    NPAGE = 17
    PGSIZE = 2
    SPAN = 2
    NUSER = 4
    Images <- MCImages
    Grow <- MCGrow
    MAXARG = 2
    Alphabet <- MCAlphabet
    TextSize <- MCTextSize
INVARIANTS
    ParserMeetsGrammar
    PipesDrain
    ForegroundWaited
    HeapTiled
    ImageConsistent
    WorksetFound
    PagesAccounted
PROPERTIES
    KeepsPages
