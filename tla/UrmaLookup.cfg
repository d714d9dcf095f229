SPECIFICATION FairSpec
CONSTANTS
    c1 = c1
    c2 = c2
    c3 = c3
    None = None
    Clients <- ThreeClients
    Count <- Counts
    Plans <- FourPlans
CHECK_DEADLOCK FALSE
INVARIANTS
    TypeOK
    RangesDisjoint
    DirectoryCovers
    ReadsWritten
    MemoryOutlivesReaders
    FailsOnlyByFault
PROPERTIES
    RoundsSpec
    HealthyEnds
