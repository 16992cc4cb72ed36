SPECIFICATION FairSpec
CONSTANTS
    a = a
    b = b
    c = c
    d = d
    r1 = r1
    r2 = r2
    NoConnection = NoConnection
    MaxConcurrent = 2
    Path <- MCPath
    Request <- MCRequest
    Closure <- MCClosure
    Connection = {c1, c2}
    Panics = {b}
    Stuck = {d}
INVARIANTS
    Placement
    DrainIsComplete
    ProgressAddsUp
PROPERTIES
    PromiseKept
    StopEndsDaemon
    SeenIsHandled
\* A connection may go silent, and then the daemon waits for ever.
CHECK_DEADLOCK FALSE
