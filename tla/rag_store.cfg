SPECIFICATION FairSpec
CONSTANTS
    Item = {i1, i2}
    NoItem = NoItem
    NChunks = 2
    Adder = {a1, a2, a3}
    Searcher = {s1, s2}
    NoThread = NoThread
INVARIANTS
    RagTypeOK
    FileParentsKnown
    AckedDurable
    WholeItems
    NoCandidateLost
    OnlyCrashTears
PROPERTY
    CallsEnd
CHECK_DEADLOCK FALSE
