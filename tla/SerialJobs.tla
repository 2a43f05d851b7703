---- MODULE SerialJobs ----
(* What serving/async_editor.py promises ("Single-writer background            *)
(* consolidation queue"): every job is run at most once, one at a time, in     *)
(* the order in which the jobs were queued.                                   *)
EXTENDS Sequences

CONSTANTS
    Job,         \* ids of the jobs
    NoJob        \* no job is being run

VARIABLES
    waiting,     \* the queued jobs, the oldest first
    active,      \* the job being run
    finished     \* the jobs that succeeded or failed

jobVars == <<waiting, active, finished>>

Known == {waiting[n] : n \in DOMAIN waiting} \union {active} \union finished

Init ==
    /\ waiting = <<>>
    /\ active = NoJob
    /\ finished = {}

Enqueue(j) ==
    /\ j \notin Known
    /\ waiting' = Append(waiting, j)
    /\ UNCHANGED <<active, finished>>

Take ==
    /\ active = NoJob
    /\ waiting # <<>>
    /\ active' = Head(waiting)
    /\ waiting' = Tail(waiting)
    /\ UNCHANGED finished

Finish ==
    /\ active # NoJob
    /\ finished' = finished \union {active}
    /\ active' = NoJob
    /\ UNCHANGED waiting

Next ==
    \/ \E j \in Job : Enqueue(j)
    \/ Take
    \/ Finish

Spec == Init /\ [][Next]_jobVars

====
