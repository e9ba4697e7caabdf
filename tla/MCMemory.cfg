SPECIFICATION MCSpec
CONSTANTS
    Proc = {p1, p2}
    InitProc = p1
    Memories = {9, 12, 17}
    NPDE = 2
    NPTE = 2
    KTABS = 1
    PGSIZE = 2
    MaxSegs = 2
    MaxCalls = 3
    Increments <- MCIncrements
    Segments <- MCSegments
    HeapTop = 11
    NALLOC = 4
    MaxUnits = 3
    NoCpu = NoCpu
CHECK_DEADLOCK FALSE
INVARIANTS MemorySound
PROPERTIES RunnableRuns ProcessesEnd ImagesKept HeapSound
