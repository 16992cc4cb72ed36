SPECIFICATION FairSpec
CONSTANTS
    NarSizes = {1, 2, 3, 4, 5, 6, 7}
    PipeCapacity = 1
    PartSize = 2
    MaxPart = 3
    Batch = 2
    FirstUrls = {0, 1, 2}
    Ttls = {1, 3}
    Safety = 1
    MaxTime = 6
PROPERTY NoExpiredUrlUsed
\* A transfer that has ended stays as it is.
CHECK_DEADLOCK FALSE
