SPECIFICATION FairSpec
CONSTANTS
    v1 = v1
    v2 = v2
    v3 = v3
    h = h
    s = s
    t = t
    u = u
    Tag <- MCTag
    HexTag <- MCHexTag
    Sha <- MCSha
    UpperCase <- MCUpperCase
    Released <- MCReleased
    Abbreviates <- MCAbbreviates
    PerPage = 2
INVARIANTS
    NoTagMeansNone
    CommitIsDownloaded
PROPERTIES
    SearchEnds
