SPECIFICATION ListSpec
CONSTANTS
    Item = {i1, i2}
    NoItem = noItem
    MaxPatch = 1
    Adapter = {a1, a2}
    NoAdapter = noAdapter
    NoThread = noThread
    CheckpointMayFail = FALSE
    Worker = {w1}
    InPlace = {}
    EditRetries = 0
    Chat = {c1}
    Client = {u1}
    Operations = {"drop", "route", "patch"}
    MaxExtract = 2
    Crashes = TRUE
    Reader = {r1}
INVARIANTS
    NoneMissing
