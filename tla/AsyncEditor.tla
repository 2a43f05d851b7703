---- MODULE AsyncEditor ----
(* The job queue in front of the passes: serving/async_editor.py, started and  *)
(* stopped by the lifespan of serving/app.py.  Serving leaves it out: there,   *)
(* a worker begins a pass whenever it is idle.                                *)
EXTENDS Naturals, Sequences, FiniteSets

CONSTANTS
    Job,         \* each is submitted by one POST /consolidate/async
    NoJob,       \* None: the sentinel in the queue, no job in hand
    Thread,      \* worker thread objects; bound on how many are ever created
    NoWorker,    \* _worker = None
    MaxStops     \* bound on the calls of stop()

ASSUME NoJobAssumption == NoJob \notin Job
ASSUME NoWorkerAssumption == NoWorker \notin Thread
ASSUME MaxStopsAssumption == MaxStops \in Nat

VARIABLES
    q,           \* _q
    status,      \* _jobs[j].status, "none" while j is not in _jobs
    current,     \* _worker
    worker,      \* where each thread is in _worker_loop
    inHand,      \* its job_id
    stopSet,     \* _stop
    request,     \* where submit(j) is
    lifespan,    \* where the thread that starts and stops the server is
    stops        \* calls of stop() so far

editorVars == <<q, status, current, worker, inHand, stopSet, request, lifespan, stops>>

Init ==
    /\ q = <<>>
    /\ status = [j \in Job |-> "none"]
    /\ current = NoWorker
    /\ worker = [t \in Thread |-> "unborn"]
    /\ inHand = [t \in Thread |-> NoJob]
    /\ stopSet = FALSE
    /\ request = [j \in Job |-> "new"]
    /\ lifespan = "down"
    /\ stops = 0

IsAlive(t) == worker[t] \notin {"unborn", "ended"}

----
\* start(), in the lock.

\* Mutant: start does not look whether the worker is alive.
StartAnother ==
    \E t \in Thread :
       /\ worker[t] = "unborn"
       /\ current' = t
       /\ worker' = [worker EXCEPT ![t] = "loop"]
       /\ stopSet' = FALSE

Start ==
    \/ /\ current # NoWorker /\ IsAlive(current)
       /\ UNCHANGED <<current, worker, stopSet>>
    \/ /\ ~(current # NoWorker /\ IsAlive(current))
       /\ \E t \in Thread :
             /\ worker[t] = "unborn"
             /\ current' = t
             /\ worker' = [worker EXCEPT ![t] = "loop"]
             /\ stopSet' = FALSE

----
\* submit(): start, register the job in the lock, put its id in the queue.  The
\* server calls stop only after the requests have ended, and one thread does all
\* of it in the tests; so no submit overlaps a stop.

SubmitStart(j) ==
    /\ request[j] = "new"
    /\ lifespan \in {"up", "down"}
    /\ Start
    /\ request' = [request EXCEPT ![j] = "register"]
    /\ UNCHANGED <<q, status, inHand, lifespan, stops>>

SubmitRegister(j) ==
    /\ request[j] = "register"
    /\ status' = [status EXCEPT ![j] = "queued"]
    /\ request' = [request EXCEPT ![j] = "put"]
    /\ UNCHANGED <<q, current, worker, inHand, stopSet, lifespan, stops>>

SubmitPut(j) ==
    /\ request[j] = "put"
    /\ q' = Append(q, j)
    /\ request' = [request EXCEPT ![j] = "answered"]
    /\ UNCHANGED <<status, current, worker, inHand, stopSet, lifespan, stops>>

Submit(j) == SubmitStart(j) \/ SubmitRegister(j) \/ SubmitPut(j)

----
\* _worker_loop

LoopCheck(t) ==
    /\ worker[t] = "loop"
    /\ worker' = [worker EXCEPT ![t] = IF stopSet THEN "ended" ELSE "get"]
    /\ UNCHANGED <<q, status, current, inHand, stopSet, request, lifespan, stops>>

Get(t) ==
    /\ worker[t] = "get"
    /\ q # <<>>
    /\ q' = Tail(q)
    /\ worker' = [worker EXCEPT ![t] = IF Head(q) = NoJob THEN "ended" ELSE "mark"]
    /\ inHand' = [inHand EXCEPT ![t] = Head(q)]
    /\ UNCHANGED <<status, current, stopSet, request, lifespan, stops>>

\* Mutant: the job is run without a word.
MarkNothing(t) ==
    /\ worker[t] = "mark"
    /\ worker' = [worker EXCEPT ![t] = "run"]
    /\ UNCHANGED <<q, status, current, inHand, stopSet, request, lifespan, stops>>

MarkRunning(t) ==
    /\ worker[t] = "mark"
    /\ status' = [status EXCEPT ![inHand[t]] = "running"]
    /\ worker' = [worker EXCEPT ![t] = "run"]
    /\ UNCHANGED <<q, current, inHand, stopSet, request, lifespan, stops>>

\* Mutant: a job that failed gets a status no client waits for.
FinishWithError(t) ==
    /\ worker[t] = "run"
    /\ \E outcome \in {"succeeded", "error"} :
          status' = [status EXCEPT ![inHand[t]] = outcome]
    /\ inHand' = [inHand EXCEPT ![t] = NoJob]
    /\ worker' = [worker EXCEPT ![t] = "loop"]
    /\ UNCHANGED <<q, current, stopSet, request, lifespan, stops>>

\* Mutant: a pass that raises ends the thread and leaves the job running.
FinishOrDie(t) ==
    /\ worker[t] = "run"
    /\ \/ /\ status' = [status EXCEPT ![inHand[t]] = "succeeded"]
          /\ inHand' = [inHand EXCEPT ![t] = NoJob]
          /\ worker' = [worker EXCEPT ![t] = "loop"]
       \/ /\ worker' = [worker EXCEPT ![t] = "ended"]
          /\ UNCHANGED <<status, inHand>>
    /\ UNCHANGED <<q, current, stopSet, request, lifespan, stops>>

\* run_pass returns or raises; the worker goes on in both cases.
FinishJob(t) ==
    /\ worker[t] = "run"
    /\ \E outcome \in {"succeeded", "failed"} :
          status' = [status EXCEPT ![inHand[t]] = outcome]
    /\ inHand' = [inHand EXCEPT ![t] = NoJob]
    /\ worker' = [worker EXCEPT ![t] = "loop"]
    /\ UNCHANGED <<q, current, stopSet, request, lifespan, stops>>

WorkerStep(t) == LoopCheck(t) \/ Get(t) \/ MarkRunning(t) \/ FinishJob(t)

----
\* status(): what GET /consolidate/jobs shows, taken in one hold of the lock.

JobsOf(state) == {j \in Job : status[j] = state}

Status ==
    [worker_alive |-> current # NoWorker /\ IsAlive(current),
     queued  |-> JobsOf("queued"),
     running |-> JobsOf("running"),
     over    |-> JobsOf("succeeded") \union JobsOf("failed")]

\* consolidation_status with a job_id; a job that is not known is a 404.
JobView(j) == IF status[j] = "none" THEN "not found" ELSE status[j]

----
\* lifespan: start() before the first request, stop() after the last one.

StartUp ==
    /\ lifespan = "down"
    /\ Start
    /\ lifespan' = "up"
    /\ UNCHANGED <<q, status, inHand, request, stops>>

StopSet ==
    /\ lifespan \in {"up", "down"}
    /\ stops < MaxStops
    /\ \A j \in Job : request[j] \in {"new", "answered"}
    /\ current # NoWorker
    /\ stopSet' = TRUE
    /\ lifespan' = "put"
    /\ stops' = stops + 1
    /\ UNCHANGED <<q, status, current, worker, inHand, request>>

StopPut ==
    /\ lifespan = "put"
    /\ q' = Append(q, NoJob)
    /\ lifespan' = "join"
    /\ UNCHANGED <<status, current, worker, inHand, stopSet, request, stops>>

\* Mutant: the worker is forgotten although the join timed out.
StopForgets ==
    /\ lifespan = "join"
    /\ current' = NoWorker
    /\ lifespan' = "down"
    /\ UNCHANGED <<q, status, worker, inHand, stopSet, request, stops>>

\* The join ends with the thread or with its timeout.
StopJoin ==
    /\ lifespan = "join"
    /\ current' = IF IsAlive(current) THEN current ELSE NoWorker
    /\ lifespan' = "down"
    /\ UNCHANGED <<q, status, worker, inHand, stopSet, request, stops>>

Lifespan == StartUp \/ StopSet \/ StopPut \/ StopJoin

Next ==
    \/ \E j \in Job : Submit(j)
    \/ \E t \in Thread : WorkerStep(t)
    \/ Lifespan

Spec == Init /\ [][Next]_editorVars

\* A thread that can go on does; a request that began is answered.  Starting
\* and stopping the server is up to its operator.
FairSpec ==
    /\ Spec
    /\ \A t \in Thread : WF_editorVars(WorkerStep(t))
    /\ \A j \in Job : WF_editorVars(SubmitRegister(j) \/ SubmitPut(j))

----
\* Properties

\* Every variable has its type; the statuses of a job are those the clients
\* know.
TypeOK ==
    /\ q \in Seq(Job \union {NoJob})
    /\ status \in [Job -> {"none", "queued", "running", "succeeded", "failed"}]
    /\ current \in Thread \union {NoWorker}
    /\ worker \in [Thread -> {"unborn", "loop", "get", "mark", "run", "ended"}]
    /\ inHand \in [Thread -> Job \union {NoJob}]
    /\ stopSet \in BOOLEAN
    /\ request \in [Job -> {"new", "register", "put", "answered"}]
    /\ lifespan \in {"up", "down", "put", "join"}
    /\ stops \in 0 .. MaxStops

\* No worker is left running behind the module's back: a thread that outlives
\* the timeout of stop() is still _worker, so start() will not add a second one.
NoOrphan == \A t \in Thread : IsAlive(t) => current = t

\* What status() shows at any moment is true of the queue and the threads, which
\* it does not look at: the queued jobs are those in the queue, those that submit()
\* is about to put there and the one a worker has just taken; a running job is in
\* the hands of a worker, which is alive, and there is one at most.  Whoever has
\* the answer of a request finds its job.
StatusIsTrue ==
    /\ Status.queued = {j \in Job : \/ request[j] = "put"
                                    \/ \E i \in DOMAIN q : q[i] = j
                                    \/ \E t \in Thread : worker[t] = "mark" /\ inHand[t] = j}
    /\ Status.running = {j \in Job : \E t \in Thread : worker[t] = "run" /\ inHand[t] = j}
    /\ Status.running # {} => Status.worker_alive
    /\ \A j, k \in Status.running : j = k
    /\ \A j \in Job : request[j] = "answered" => JobView(j) # "not found"

Over(j) == status[j] \in {"succeeded", "failed"}

\* The jobs of a queue without its sentinels: the n-th one is at the place that
\* has n places of jobs up to and with itself.
JobPlaces(s) == {i \in DOMAIN s : s[i] # NoJob}

Rank(s, i) == Cardinality({k \in JobPlaces(s) : k <= i})

JobsIn(s) ==
    [n \in 1 .. Cardinality(JobPlaces(s)) |->
        s[CHOOSE i \in JobPlaces(s) : Rank(s, i) = n]]

Busy == {t \in Thread : worker[t] \in {"mark", "run"}}

ActiveJob == IF Busy = {} THEN NoJob ELSE inHand[CHOOSE t \in Busy : TRUE]

\* The queue implements SerialJobs: sentinels, threads that end and threads
\* that replace them never make two jobs run at once, one twice or out of order.
Serial == INSTANCE SerialJobs WITH
    waiting <- JobsIn(q),
    active <- ActiveJob,
    finished <- {j \in Job : Over(j)}

ImplementsSerialJobs == Serial!Spec

\* While nobody calls stop(), every job that was accepted is run to its end,
\* also after a job that failed.
JobsFinish == \A j \in Job : status[j] = "queued" ~> (Over(j) \/ stops > 0)

\* tests/test_async_editor.py submits a job after stop() and waits for its end:
\* whoever submits once the last stop() has returned is served.
ServedAfterStop ==
    \A j \in Job :
       (request[j] = "put" /\ stops = MaxStops /\ lifespan \in {"up", "down"})
          ~> Over(j)

====
