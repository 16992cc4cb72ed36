SPECIFICATION Spec
CONSTANTS
    Name <- MCName
    FileSystems <- MCFileSystems
    NarOf <- MCNarOf
    EntriesOf <- MCEntriesOf
INVARIANTS
    HashedIsSent
    WritesTheNar
    FailsForAReason
