SPECIFICATION FairSpec
CONSTANTS
    a = a
    b = b
    Nodes <- TwoNodes
    Setups <- FourSetups
    MaxFaults = 2
CHECK_DEADLOCK FALSE
INVARIANTS
    TypeOK
    MemoryOutlivesRead
    HonestOk
    ModeChoicesAgree
PROPERTIES
    HealthyEnds
    JoinDoesNotHang
