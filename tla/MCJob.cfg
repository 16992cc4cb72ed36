SPECIFICATION FairJobSpec
CONSTANTS
    Uses = 3
    Stuck = {2}
INVARIANTS
    HookMeansReady
    NoDaemonForgotten
    
PROPERTY JobEnds
