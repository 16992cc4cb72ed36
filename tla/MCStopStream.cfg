SPECIFICATION FairSpec
CONSTANTS
    a = a
    b = b
    Path <- MCPath
    ClosureErrors <- MCClosureErrors
    MaxConcurrent = 1
    Capacity = 3
    Chunks = 2
INVARIANTS
    PrintedInOrder
    OkMeansReported
PROPERTIES
    DrainEnds
    DrainsLikeEventLoop
