SPECIFICATION Spec
CONSTANTS
    m1 = m1
    m2 = m2
    m3 = m3
    full = full
    Memory = {m1, m2, m3}
    Chat = {c1}
    Context = {full}
    None = None
    Query <- MCQuery
    Stem <- MCStem
    KeyPrompts <- MCKeyPrompts
    Lowered <- MCLowered
    Target <- MCTarget
    Label <- MCLabel
    Similarity <- MCSimilarity
    Threshold = 3
    MaxRows = 7
    MaxFailures = 1
INVARIANTS
    BookTypeOK
    CleanDecode
    ProvenanceTrue
    ProvenanceOnDisk
    ReadBack
    AttributionIsOfAnswer
    AttributionNamesTeacher
CHECK_DEADLOCK FALSE
