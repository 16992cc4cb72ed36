SPECIFICATION FairDaemonSpec
CONSTANTS
    b = b
    r1 = r1
    r2 = r2
    r3 = r3
    r4 = r4
    p1 = p1
    s1 = s1
    s2 = s2
    NoConnection = NoConnection
    MaxConcurrent = 1
    Panics = {b}
    Stuck = {}
    Path <- MCPath
    Request <- MCRequest
    Closure <- MCClosure
    Connection = {p1, s1, s2}
    Stopper = {s1, s2}
    Pushes <- MCPushes
    Garbled = {r3}
    Flaky = {s2}
INVARIANTS
    
    InOrder
PROPERTIES
    ClientsReturn
