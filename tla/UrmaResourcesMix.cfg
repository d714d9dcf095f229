SPECIFICATION Spec
CONSTANTS
    Threads = {t1}
    Handles = {h1, h2, h3}
    Nodes = {n1, n2, n3, n4, n5}
    None = None
    Priorities = {15}
    MixContexts = TRUE
SYMMETRY SlotSymmetry
CHECK_DEADLOCK FALSE
INVARIANTS
    ParentsOutlive
