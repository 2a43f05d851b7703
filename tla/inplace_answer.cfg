SPECIFICATION Spec
CONSTANTS
    Item = {i1}
    NoItem = noItem
    MaxPatch = 0
    Adapter = {a1, a2}
    NoAdapter = noAdapter
    NoThread = noThread
    CheckpointMayFail = FALSE
    Worker = {}
    InPlace = {s1}
    EditRetries = 0
    Chat = {c1, c2}
    Client = {}
    Operations = {}
    MaxExtract = 1
    Crashes = FALSE
SYMMETRY Symmetry
CHECK_DEADLOCK FALSE
INVARIANT AnswerStable
