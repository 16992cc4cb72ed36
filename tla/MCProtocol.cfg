SPECIFICATION FairSpec
CONSTANTS
    short = short
    fits = fits
    long = long
    bad = bad
    split = split
    x = x
    y = y
    Path = {short, fits, long, bad, split}
    Byte = {x, y, Separator}
    Separator = Separator
    Sentinel = Sentinel
    Text <- MCText
    Malformed = {bad}
    StopDaemon = StopDaemon
    Capacity = 3
    BufSize = 3
    MaxSent = 4
INVARIANTS
    ReceivedIsSent
    OnlyOversizedDropped
PROPERTIES
    ReceiverEnds
\* A Sender may stay idle, and a Receiver that has ended does nothing.
CHECK_DEADLOCK FALSE
