SPECIFICATION FairSpec
CONSTANTS
    CommandLines <- AllLines
    MaxJetties = 3
    DepthLimit <- DeviceDepth
    Sizes <- ParsedSizes
    SizeLimit <- DeviceSize
    SegLen <- LongestSeg
    DefaultDepth = 1
    PollBatch = 2
    MaxOps = 6
    K = 4
    SgeLimit = 40
    UsizeMax = 100
    Tokens <- TypedTokens
    MaxParts = 3
    MaxSamples = 120
    Digit = 2
    U32 = 1
    U64 = 2
    EidLen = 2
    Segs <- ExportedSegs
    Blobs <- OpaqueBlobs
    MaxBlobs = 3
CHECK_DEADLOCK FALSE
INVARIANTS
    TypeOK
    CountIsExact
    PassesIsolated
    FailureIsSeen
    QueuesFit
    NeverFails
    LandingDisjoint
    RemoteInBounds
    DescTravels
    SweepAsAsked
PROPERTIES
    LedgerSpec
    ProgramEnds
