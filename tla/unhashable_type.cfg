SPECIFICATION Spec
CONSTANTS
    MaxLength = 12
    MaxChunks = 3
    MaxBudget = 20
    ChunkChars = 3
    ChunkOverlap = 1
    PoolFactor = 1
    MinPool = 2
    MarkerCost = 2
    Mandatory = 1
    ScenarioHeader = 1
    NoBudget = NoBudget
    Proposition = {p1, p2}
    ConfMin = 1
    ConfMax = 2
    NaN = NaN
    NoConf = NoConf
    SingleChars = 4
    WindowMsgs = 3
    OverlapMsgs = 1
    Thresh = 2
    DupThresh = 3
    TopM = 2
    Hyphen = Hyphen
    KeyStopwords = {"the"}
    PlanStopwords = {"the", "best"}
    KeywordWords = 2
    MaxFallback = 2
    MaxKeys = 3
    Threshold = 2
    MaxCandidates = 3
    MaxSelected = 2
    NoSlot = NoSlot
    MaxMemories = 3
    WantA = 2
    WantB = 1
    WantC = 1
    TaughtFacts = 1
    Buckets = {1, 3}
    Fact = {f1, f2}
INVARIANT
    NeverRaises
CHECK_DEADLOCK FALSE
