SPECIFICATION FairSpec
CONSTANTS
    a = a
    b = b
    Nodes <- TwoNodes
    Setups <- ThreeSetups
    Prompt = FALSE
    MaxFaults = 1
CHECK_DEADLOCK FALSE
INVARIANTS
    TypeOK
    SafeTeardown
    PongGoesHome
PROPERTIES
    HealthyEnds
    JoinEnds
