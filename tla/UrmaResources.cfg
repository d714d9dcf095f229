SPECIFICATION Spec
CONSTANTS
    Threads = {t1, t2}
    Handles = {h1, h2, h3, h4}
    Nodes = {n1, n2, n3, n4, n5}
    None = None
    Priorities = {0, 15}
    MixContexts = FALSE
SYMMETRY SlotSymmetry
CHECK_DEADLOCK FALSE
INVARIANTS
    TypeOK
    ParentsOutlive
    DeletesLive
    NoLeak
    NoUseAfterDrop
    LiveIsReachable
    InitOncePerThread
PROPERTIES
    UninitAtThreadExit
