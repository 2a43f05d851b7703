SPECIFICATION FairSpec
CONSTANTS
    Item = {i1}
    NoItem = noItem
    MaxPatch = 0
    Adapter = {a1, a2, a3}
    NoAdapter = noAdapter
    NoThread = noThread
    CheckpointMayFail = TRUE
    Worker = {w1}
    InPlace = {s1}
    EditRetries = 1
    Chat = {c1}
    Client = {u1}
    Operations = {"plug", "unplug"}
    MaxExtract = 1
    Crashes = FALSE
INVARIANTS
    NothingForgotten
PROPERTIES
    AdapterHeldForAnswer
    Progress
