SPECIFICATION FairSpec
CONSTANTS
    Job = {j1, j2}
    NoJob = noJob
    Thread = {t1, t2, t3, t4, t5}
    NoWorker = noWorker
    MaxStops = 2
CHECK_DEADLOCK FALSE
INVARIANTS
    TypeOK
    NoOrphan
    StatusIsTrue
PROPERTIES
    ImplementsSerialJobs
    JobsFinish
