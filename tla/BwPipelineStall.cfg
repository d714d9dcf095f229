SPECIFICATION Spec
CONSTANTS
    CommandLines <- Stalling
    MaxJetties = 3
    DepthLimit <- DeviceDepth
    Sizes <- ThreeSizes
    SizeLimit <- DeviceSize
    SegLen <- LongestSeg
    DefaultDepth = 1
    PollBatch = 2
    MaxOps = 6
CHECK_DEADLOCK FALSE
INVARIANTS
    NeverStalls
