SPECIFICATION DaemonSpec
CONSTANTS
    b = b
    r1 = r1
    r2 = r2
    r3 = r3
    r4 = r4
    p1 = p1
    s1 = s1
    s2 = s2
    NoConnection = NoConnection
    MaxConcurrent = 1
    Panics = {}
    Stuck = {}
    Path <- MCPath
    Request <- MCRequest
    Closure <- MCClosure
    Connection = {p1, s1}
    Stopper = {s1}
    Pushes <- MCPushes
    Garbled = {}
    Flaky = {}
INVARIANT AcknowledgedPushesDrained
