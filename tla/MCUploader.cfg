SPECIFICATION FairUploaderSpec
CONSTANTS
    a = a
    b = b
    r = r
    NoConnection = NoConnection
    MaxConcurrent = 2
    Panics = {a}
    Stuck = {}
    Path = {a, b}
    Request = {r}
    Closure <- MCClosure
    Connection = {c1}
    Upstream = {u1}
INVARIANTS
    DrainedClosuresWhole
    PushedIsPublished
    NarBeforeNarinfo
    DecisionFollowsAnswers
    ReportedIsAvailable
PROPERTIES
    SeenIsFetchable
\* A connection may go silent, and then the daemon waits for ever.
CHECK_DEADLOCK FALSE
