SPECIFICATION FairSpec
CONSTANTS
    Threads = {t1}
    Handles = {h1, h2, h3}
    Nodes = {n1, n2, n3, n4}
    None = None
    Priorities = {15}
    MixContexts = FALSE
CHECK_DEADLOCK FALSE
PROPERTIES
    Reclaimed
