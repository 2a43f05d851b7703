SPECIFICATION Spec
CONSTANTS
    Item = {i1}
    NoItem = noItem
    MaxPatch = 0
    Adapter = {a1, a2}
    NoAdapter = noAdapter
    NoThread = noThread
    CheckpointMayFail = FALSE
    Worker = {w1}
    InPlace = {}
    EditRetries = 0
    Chat = {c1}
    Client = {u1}
    Operations = {"route"}
    MaxExtract = 1
    Crashes = FALSE
SYMMETRY Symmetry
INVARIANT NoDoubleExistence
