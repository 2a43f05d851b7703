SPECIFICATION Spec
CONSTANTS
    Item = {i1, i2, i3}
    NoItem = noItem
    MaxPatch = 1
    Adapter = {a1, a2}
    NoAdapter = noAdapter
    NoThread = noThread
    CheckpointMayFail = FALSE
    Worker = {w1}
    InPlace = {}
    EditRetries = 1
    Chat = {c1}
    Client = {u1}
    Operations = {"drop", "route", "patch"}
    MaxExtract = 3
    Crashes = TRUE
SYMMETRY Symmetry
INVARIANTS
    TypeOK
    NoVacuum
    ConsolidatedAreTaught
    RetiredBySuccessor
    ReadYourWrites
    AnswerStable
