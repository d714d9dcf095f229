SPECIFICATION FairSpec
CONSTANTS
    a = a
    b = b
    Nodes <- TwoNodes
    Setups <- TwoMachines
    Prompt = TRUE
    MaxFaults = 0
CHECK_DEADLOCK FALSE
PROPERTIES
    StartOrderFree
