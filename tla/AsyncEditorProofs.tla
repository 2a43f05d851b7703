---- MODULE AsyncEditorProofs ----
(* Theorems about the job queue, for any number of jobs, threads and stops.   *)
(* The last is that AsyncEditor implements SerialJobs: the job queue of       *)
(* serving/async_editor.py, with its sentinels, threads and restarts, runs    *)
(* every job at most once, one at a time, in the order of submission.         *)
EXTENDS AsyncEditor, FiniteSetTheorems, FunctionTheorems, TLAPS

\* MarkRunning and FinishJob index status by the job in hand.
EditorType ==
    /\ TypeOK
    /\ \A t \in Thread : worker[t] \in {"mark", "run"} => inHand[t] \in Job

LEMMA InitType == Init => EditorType
<1> SUFFICES ASSUME Init PROVE EditorType
  OBVIOUS
<1>1. q \in Seq(Job \union {NoJob}) /\ stops \in 0 .. MaxStops
  BY MaxStopsAssumption DEF Init
<1>2. /\ status \in [Job -> {"none", "queued", "running", "succeeded", "failed"}]
      /\ worker \in [Thread -> {"unborn", "loop", "get", "mark", "run", "ended"}]
      /\ inHand \in [Thread -> Job \union {NoJob}]
      /\ request \in [Job -> {"new", "register", "put", "answered"}]
  BY DEF Init
<1> QED
  BY <1>1, <1>2 DEF Init, EditorType, TypeOK

LEMMA StartType ==
  ASSUME EditorType, Start
  PROVE  /\ current' \in Thread \union {NoWorker}
         /\ worker' \in [Thread -> {"unborn", "loop", "get", "mark", "run", "ended"}]
         /\ stopSet' \in BOOLEAN
         /\ \A t \in Thread : worker'[t] \in {"mark", "run"} => worker'[t] = worker[t]
<1>1. CASE UNCHANGED <<current, worker, stopSet>>
  BY <1>1 DEF EditorType, TypeOK
<1>2. CASE \E t \in Thread : /\ current' = t
                             /\ worker' = [worker EXCEPT ![t] = "loop"]
                             /\ stopSet' = FALSE
  BY <1>2 DEF EditorType, TypeOK
<1> QED
  BY <1>1, <1>2 DEF Start

LEMMA SubmitType ==
  ASSUME EditorType, NEW j \in Job, Submit(j)
  PROVE  EditorType'
<1>1. CASE SubmitStart(j)
  BY <1>1, StartType DEF SubmitStart, EditorType, TypeOK
<1>2. CASE SubmitRegister(j)
  BY <1>2 DEF SubmitRegister, EditorType, TypeOK
<1>3. CASE SubmitPut(j)
  <2>1. q' \in Seq(Job \union {NoJob})
    BY <1>3 DEF SubmitPut, EditorType, TypeOK
  <2> QED
    BY <1>3, <2>1 DEF SubmitPut, EditorType, TypeOK
<1> QED
  BY <1>1, <1>2, <1>3 DEF Submit

LEMMA WorkerType ==
  ASSUME EditorType, NEW t \in Thread, WorkerStep(t)
  PROVE  EditorType'
<1>1. CASE LoopCheck(t)
  BY <1>1 DEF LoopCheck, EditorType, TypeOK
<1>2. CASE Get(t)
  <2>1. Head(q) \in Job \union {NoJob} /\ q' \in Seq(Job \union {NoJob})
    BY <1>2 DEF Get, EditorType, TypeOK
  <2>2. worker'[t] = "mark" => inHand'[t] \in Job
    BY <1>2, <2>1 DEF Get, EditorType, TypeOK
  <2> QED
    BY <1>2, <2>1, <2>2 DEF Get, EditorType, TypeOK
<1>3. CASE MarkRunning(t)
  BY <1>3 DEF MarkRunning, EditorType, TypeOK
<1>4. CASE FinishJob(t)
  BY <1>4 DEF FinishJob, EditorType, TypeOK
<1> QED
  BY <1>1, <1>2, <1>3, <1>4 DEF WorkerStep

LEMMA LifespanType ==
  ASSUME EditorType, Lifespan
  PROVE  EditorType'
<1>1. CASE StartUp
  BY <1>1, StartType DEF StartUp, EditorType, TypeOK
<1>2. CASE StopSet
  BY <1>2, MaxStopsAssumption DEF StopSet, EditorType, TypeOK
<1>3. CASE StopPut
  <2>1. q' \in Seq(Job \union {NoJob})
    BY <1>3 DEF StopPut, EditorType, TypeOK
  <2> QED
    BY <1>3, <2>1 DEF StopPut, EditorType, TypeOK
<1>4. CASE StopJoin
  BY <1>4 DEF StopJoin, EditorType, TypeOK
<1> QED
  BY <1>1, <1>2, <1>3, <1>4 DEF Lifespan

LEMMA EditorTypeInvariant == Spec => []EditorType
<1>1. EditorType /\ [Next]_editorVars => EditorType'
  <2>1. CASE UNCHANGED editorVars
    BY <2>1 DEF editorVars, EditorType, TypeOK
  <2> QED
    BY <2>1, SubmitType, WorkerType, LifespanType DEF Next
<1> QED
  BY <1>1, InitType, PTL DEF Spec

\* Every variable of the queue keeps its type, and a job its known statuses.
THEOREM EditorTypeCorrect == Spec => []TypeOK
<1>1. EditorType => TypeOK
  BY DEF EditorType
<1> QED
  BY <1>1, EditorTypeInvariant, PTL

----
(* One worker.  Nothing but start() creates a thread, and only when _worker is *)
(* not alive; stop() clears _worker only when it is not alive either.  So the  *)
(* invariant needs no strengthening but the types.                           *)

LEMMA StartKeepsOne ==
  ASSUME EditorType, NoOrphan, Start
  PROVE  NoOrphan'
<1> USE DEF EditorType, TypeOK, NoOrphan, IsAlive
<1>1. CASE UNCHANGED <<current, worker, stopSet>>
  BY <1>1
<1>2. CASE /\ ~(current # NoWorker /\ IsAlive(current))
           /\ \E t \in Thread : /\ current' = t
                                /\ worker' = [worker EXCEPT ![t] = "loop"]
  <2>1. \A t \in Thread : ~IsAlive(t)
    BY <1>2, NoWorkerAssumption
  <2> QED
    BY <1>2, <2>1
<1> QED
  BY <1>1, <1>2 DEF Start

LEMMA NoOrphanStep ==
  ASSUME EditorType, NoOrphan, [Next]_editorVars
  PROVE  NoOrphan'
<1> USE DEF EditorType, TypeOK, NoOrphan, IsAlive
<1>1. ASSUME NEW j \in Job, Submit(j) PROVE NoOrphan'
  BY <1>1, StartKeepsOne DEF Submit, SubmitStart, SubmitRegister, SubmitPut
<1>2. ASSUME NEW t \in Thread, WorkerStep(t) PROVE NoOrphan'
  <2>1. current' = current /\ IsAlive(t)
    BY <1>2 DEF WorkerStep, LoopCheck, Get, MarkRunning, FinishJob
  <2>2. \A s \in Thread \ {t} : worker'[s] = worker[s]
    BY <1>2 DEF WorkerStep, LoopCheck, Get, MarkRunning, FinishJob
  <2> QED
    BY <2>1, <2>2
<1>3. CASE StartUp
  BY <1>3, StartKeepsOne DEF StartUp
<1>4. CASE StopSet \/ StopPut
  BY <1>4 DEF StopSet, StopPut
<1>5. CASE StopJoin
  BY <1>5 DEF StopJoin
<1>6. CASE UNCHANGED editorVars
  BY <1>6 DEF editorVars
<1> QED
  BY <1>1, <1>2, <1>3, <1>4, <1>5, <1>6 DEF Next, Lifespan

\* However often the server is stopped and started again, and however long a
\* thread outlives the timeout of stop(), the only worker alive is _worker.
THEOREM NoOrphanHolds == Spec => []NoOrphan
<1>1. Init => NoOrphan
  BY DEF Init, NoOrphan, IsAlive
<1> QED
  BY <1>1, NoOrphanStep, EditorTypeInvariant, PTL DEF Spec

\* Hence the single writer of serving/async_editor.py: two of its threads are
\* never both inside a job.
THEOREM OneJobAtATime ==
  Spec => [](\A s, t \in Thread :
                worker[s] \in {"mark", "run"} /\ worker[t] \in {"mark", "run"} => s = t)
<1>1. NoOrphan => \A s, t \in Thread :
        worker[s] \in {"mark", "run"} /\ worker[t] \in {"mark", "run"} => s = t
  BY DEF NoOrphan, IsAlive
<1> QED
  BY <1>1, NoOrphanHolds, PTL

----
(* What status() shows.  A job that was accepted is in one place: with        *)
(* submit(), in the queue, in the hands of a worker, or over.  The invariant   *)
(* says so from the side of the places, and from that of the statuses.        *)

InQueue(j) == \E i \in DOMAIN q : q[i] = j
Held(j, place) == \E t \in Thread : worker[t] = place /\ inHand[t] = j

OnceInQueue ==
    \A i, k \in DOMAIN q : q[i] = q[k] /\ q[i] # NoJob => i = k

PlacesHaveStatus ==
    \A j \in Job :
       /\ request[j] \in {"new", "register"} <=> status[j] = "none"
       /\ request[j] = "put" => status[j] = "queued"
       /\ InQueue(j) => request[j] = "answered" /\ status[j] = "queued"
       /\ Held(j, "mark") => request[j] = "answered" /\ status[j] = "queued" /\ ~InQueue(j)
       /\ Held(j, "run") => request[j] = "answered" /\ status[j] = "running"

StatusHasPlace ==
    \A j \in Job :
       /\ status[j] = "queued" => request[j] = "put" \/ InQueue(j) \/ Held(j, "mark")
       /\ status[j] = "running" => Held(j, "run")

PlaceInv == EditorType /\ NoOrphan /\ OnceInQueue /\ PlacesHaveStatus /\ StatusHasPlace

LEMMA StartKeepsHands ==
  ASSUME PlaceInv, Start, UNCHANGED inHand
  PROVE  \A j \in Job : /\ Held(j, "mark")' <=> Held(j, "mark")
                        /\ Held(j, "run")' <=> Held(j, "run")
<1> USE DEF PlaceInv, EditorType, TypeOK, Held
<1>1. CASE UNCHANGED <<current, worker, stopSet>>
  BY <1>1
<1>2. CASE \E t \in Thread : /\ worker[t] = "unborn"
                             /\ worker' = [worker EXCEPT ![t] = "loop"]
  BY <1>2
<1> QED
  BY <1>1, <1>2 DEF Start

LEMMA PlaceSubmit ==
  ASSUME PlaceInv, NEW j \in Job, Submit(j)
  PROVE  OnceInQueue' /\ PlacesHaveStatus' /\ StatusHasPlace'
<1> USE DEF PlaceInv
<1>1. CASE SubmitStart(j)
  <2>1. /\ \A k \in Job : /\ Held(k, "mark")' <=> Held(k, "mark")
                          /\ Held(k, "run")' <=> Held(k, "run")
                          /\ InQueue(k)' <=> InQueue(k)
    BY <1>1, StartKeepsHands DEF SubmitStart, InQueue
  <2>2. OnceInQueue'
    BY <1>1 DEF SubmitStart, OnceInQueue
  <2>3. request[j] = "new" /\ request' = [request EXCEPT ![j] = "register"] /\ status' = status
    BY <1>1 DEF SubmitStart
  <2>4. request \in [Job -> {"new", "register", "put", "answered"}]
    BY DEF EditorType, TypeOK
  <2> QED
    BY <2>1, <2>2, <2>3, <2>4 DEF PlacesHaveStatus, StatusHasPlace
<1>2. CASE SubmitRegister(j)
  <2>1. /\ \A k \in Job : /\ Held(k, "mark")' <=> Held(k, "mark")
                          /\ Held(k, "run")' <=> Held(k, "run")
                          /\ InQueue(k)' <=> InQueue(k)
    BY <1>2 DEF SubmitRegister, InQueue, Held
  <2>2. OnceInQueue'
    BY <1>2 DEF SubmitRegister, OnceInQueue
  <2>3. /\ request[j] = "register" /\ request' = [request EXCEPT ![j] = "put"]
        /\ status' = [status EXCEPT ![j] = "queued"]
    BY <1>2 DEF SubmitRegister
  <2>4. /\ request \in [Job -> {"new", "register", "put", "answered"}]
        /\ status \in [Job -> {"none", "queued", "running", "succeeded", "failed"}]
    BY DEF EditorType, TypeOK
  <2> QED
    BY <2>1, <2>2, <2>3, <2>4 DEF PlacesHaveStatus, StatusHasPlace
<1>3. CASE SubmitPut(j)
  <2>1. \A k \in Job : /\ Held(k, "mark")' <=> Held(k, "mark")
                       /\ Held(k, "run")' <=> Held(k, "run")
    BY <1>3 DEF SubmitPut, Held
  <2>2. q \in Seq(Job \union {NoJob}) /\ q' = Append(q, j)
    BY <1>3 DEF SubmitPut, EditorType, TypeOK
  <2>3. \A k \in Job : InQueue(k)' <=> InQueue(k) \/ k = j
    BY <2>2 DEF InQueue
  <2>4. /\ request[j] = "put" /\ request' = [request EXCEPT ![j] = "answered"]
        /\ status' = status
    BY <1>3 DEF SubmitPut
  <2>5. /\ request \in [Job -> {"new", "register", "put", "answered"}]
        /\ ~InQueue(j) /\ status[j] = "queued"
    BY <2>4 DEF EditorType, TypeOK, PlacesHaveStatus
  <2>6. OnceInQueue'
    BY <2>2, <2>5 DEF OnceInQueue, InQueue
  <2> QED
    BY <2>1, <2>3, <2>4, <2>5, <2>6 DEF PlacesHaveStatus, StatusHasPlace
<1> QED
  BY <1>1, <1>2, <1>3 DEF Submit

LEMMA PlaceGet ==
  ASSUME PlaceInv, NEW t \in Thread, Get(t)
  PROVE  OnceInQueue' /\ PlacesHaveStatus' /\ StatusHasPlace'
<1> USE DEF PlaceInv
<1> DEFINE h == Head(q)
<1>1. /\ q \in Seq(Job \union {NoJob}) /\ q # <<>> /\ q' = Tail(q)
      /\ h \in Job \union {NoJob} /\ h = q[1]
  BY DEF Get, EditorType, TypeOK
<1>2. OnceInQueue'
  BY <1>1 DEF OnceInQueue
<1>3. \A k \in Job : InQueue(k)' <=> InQueue(k) /\ k # h
  <2>1. ASSUME NEW k \in Job, InQueue(k)' PROVE InQueue(k) /\ k # h
    <3>1. PICK i \in DOMAIN q' : q'[i] = k
      BY <2>1 DEF InQueue
    <3>2. i + 1 \in DOMAIN q /\ q[i + 1] = k /\ i + 1 # 1 /\ 1 \in DOMAIN q
      BY <1>1, <3>1
    <3> QED
      BY <1>1, <3>2, NoJobAssumption DEF OnceInQueue, InQueue
  <2>2. ASSUME NEW k \in Job, InQueue(k), k # h PROVE InQueue(k)'
    <3>1. PICK i \in DOMAIN q : q[i] = k
      BY <2>2 DEF InQueue
    <3>2. i - 1 \in DOMAIN q' /\ q'[i - 1] = k
      BY <1>1, <2>2, <3>1
    <3> QED
      BY <3>2 DEF InQueue
  <2> QED
    BY <2>1, <2>2
<1>4. /\ worker[t] = "get" /\ inHand' = [inHand EXCEPT ![t] = h]
      /\ worker' = [worker EXCEPT ![t] = IF h = NoJob THEN "ended" ELSE "mark"]
      /\ UNCHANGED <<status, request>>
  BY DEF Get
<1>5. /\ worker \in [Thread -> {"unborn", "loop", "get", "mark", "run", "ended"}]
      /\ inHand \in [Thread -> Job \union {NoJob}]
  BY DEF EditorType, TypeOK
<1>6. \A k \in Job : /\ Held(k, "mark")' <=> Held(k, "mark") \/ k = h
                     /\ Held(k, "run")' <=> Held(k, "run")
  BY <1>4, <1>5, NoJobAssumption DEF Held
<1>7. h \in Job => InQueue(h)
  BY <1>1 DEF InQueue
<1> HIDE DEF h
<1> QED
  BY <1>2, <1>3, <1>4, <1>6, <1>7 DEF PlacesHaveStatus, StatusHasPlace

LEMMA PlaceWorker ==
  ASSUME PlaceInv, NEW t \in Thread, WorkerStep(t)
  PROVE  OnceInQueue' /\ PlacesHaveStatus' /\ StatusHasPlace'
<1> USE DEF PlaceInv
<1>0. /\ worker \in [Thread -> {"unborn", "loop", "get", "mark", "run", "ended"}]
      /\ inHand \in [Thread -> Job \union {NoJob}]
      /\ status \in [Job -> {"none", "queued", "running", "succeeded", "failed"}]
      /\ \A s \in Thread : worker[s] \in {"mark", "run"} => inHand[s] \in Job
      /\ \A s, r \in Thread : worker[s] \in {"mark", "run"} /\ worker[r] \in {"mark", "run"} => s = r
  BY DEF EditorType, TypeOK, NoOrphan, IsAlive
<1>1. CASE LoopCheck(t)
  <2>1. \A k \in Job : /\ Held(k, "mark")' <=> Held(k, "mark")
                       /\ Held(k, "run")' <=> Held(k, "run")
                       /\ InQueue(k)' <=> InQueue(k)
    BY <1>0, <1>1 DEF LoopCheck, Held, InQueue
  <2> QED
    BY <1>1, <2>1 DEF LoopCheck, OnceInQueue, PlacesHaveStatus, StatusHasPlace
<1>2. CASE Get(t)
  BY <1>2, PlaceGet
<1>3. CASE MarkRunning(t)
  <2>1. worker[t] = "mark" /\ inHand[t] \in Job /\ Held(inHand[t], "mark")
    BY <1>0, <1>3 DEF MarkRunning, Held
  <2>2. /\ \A k \in Job : ~Held(k, "mark")' /\ (Held(k, "run")' <=> k = inHand[t])
        /\ \A k \in Job : Held(k, "mark") \/ Held(k, "run") => k = inHand[t]
    BY <1>0, <1>3, <2>1 DEF MarkRunning, Held
  <2>3. /\ \A k \in Job : InQueue(k)' <=> InQueue(k)
        /\ status' = [status EXCEPT ![inHand[t]] = "running"] /\ UNCHANGED <<q, request>>
    BY <1>3 DEF MarkRunning, InQueue
  <2>4. OnceInQueue'
    BY <2>3 DEF OnceInQueue
  <2> QED
    BY <1>0, <2>1, <2>2, <2>3, <2>4 DEF PlacesHaveStatus, StatusHasPlace
<1>4. CASE FinishJob(t)
  <2>1. worker[t] = "run" /\ inHand[t] \in Job /\ Held(inHand[t], "run")
    BY <1>0, <1>4 DEF FinishJob, Held
  <2>2. /\ \A k \in Job : ~Held(k, "mark")' /\ ~Held(k, "run")'
        /\ \A k \in Job : Held(k, "mark") \/ Held(k, "run") => k = inHand[t]
        /\ \A k \in Job : ~Held(k, "mark")
    BY <1>0, <1>4, <2>1 DEF FinishJob, Held
  <2>3. /\ \A k \in Job : InQueue(k)' <=> InQueue(k)
        /\ UNCHANGED <<q, request>>
    BY <1>4 DEF FinishJob, InQueue
  <2>4. PICK outcome \in {"succeeded", "failed"} :
            status' = [status EXCEPT ![inHand[t]] = outcome]
    BY <1>4 DEF FinishJob
  <2>5. OnceInQueue'
    BY <2>3 DEF OnceInQueue
  <2> QED
    BY <1>0, <2>1, <2>2, <2>3, <2>4, <2>5 DEF PlacesHaveStatus, StatusHasPlace
<1> QED
  BY <1>1, <1>2, <1>3, <1>4 DEF WorkerStep

LEMMA PlaceLifespan ==
  ASSUME PlaceInv, Lifespan
  PROVE  OnceInQueue' /\ PlacesHaveStatus' /\ StatusHasPlace'
<1> USE DEF PlaceInv
<1>1. \A k \in Job : /\ Held(k, "mark")' <=> Held(k, "mark")
                     /\ Held(k, "run")' <=> Held(k, "run")
  <2>1. CASE StartUp
    BY <2>1, StartKeepsHands DEF StartUp
  <2> QED
    BY <2>1 DEF Lifespan, StopSet, StopPut, StopJoin, Held
<1>2. OnceInQueue' /\ \A k \in Job : InQueue(k)' <=> InQueue(k)
  <2>1. CASE StopPut
    <3>1. q \in Seq(Job \union {NoJob}) /\ q' = Append(q, NoJob)
      BY <2>1 DEF StopPut, EditorType, TypeOK
    <3> QED
      BY <3>1, NoJobAssumption DEF OnceInQueue, InQueue
  <2> QED
    BY <2>1 DEF Lifespan, StartUp, StopSet, StopJoin, OnceInQueue, InQueue
<1>3. UNCHANGED <<status, request>>
  BY DEF Lifespan, StartUp, StopSet, StopPut, StopJoin
<1> QED
  BY <1>1, <1>2, <1>3 DEF PlacesHaveStatus, StatusHasPlace

LEMMA PlaceStep == PlaceInv /\ [Next]_editorVars => PlaceInv'
<1> SUFFICES ASSUME PlaceInv, [Next]_editorVars PROVE PlaceInv'
  OBVIOUS
<1>1. EditorType'
  <2>1. CASE UNCHANGED editorVars
    BY <2>1 DEF editorVars, PlaceInv, EditorType, TypeOK
  <2> QED
    BY <2>1, SubmitType, WorkerType, LifespanType DEF Next, PlaceInv
<1>2. NoOrphan'
  BY NoOrphanStep DEF PlaceInv
<1>3. OnceInQueue' /\ PlacesHaveStatus' /\ StatusHasPlace'
  <2>1. CASE UNCHANGED editorVars
    <3>1. \A k \in Job : /\ Held(k, "mark")' <=> Held(k, "mark")
                         /\ Held(k, "run")' <=> Held(k, "run")
                         /\ InQueue(k)' <=> InQueue(k)
      BY <2>1 DEF editorVars, Held, InQueue
    <3> QED
      BY <2>1, <3>1 DEF editorVars, PlaceInv, OnceInQueue, PlacesHaveStatus, StatusHasPlace
  <2> QED
    BY <2>1, PlaceSubmit, PlaceWorker, PlaceLifespan DEF Next
<1> QED
  BY <1>1, <1>2, <1>3 DEF PlaceInv

LEMMA PlaceInvariant == Spec => []PlaceInv
<1>1. Init => PlaceInv
  <2> SUFFICES ASSUME Init PROVE PlaceInv
    OBVIOUS
  <2>1. EditorType
    BY InitType
  <2>2. NoOrphan
    BY DEF Init, NoOrphan, IsAlive
  <2>3. OnceInQueue /\ PlacesHaveStatus /\ StatusHasPlace
    BY DEF Init, OnceInQueue, PlacesHaveStatus, StatusHasPlace, InQueue, Held
  <2> QED
    BY <2>1, <2>2, <2>3 DEF PlaceInv
<1> QED
  BY <1>1, PlaceStep, PTL DEF Spec

\* What GET /consolidate/jobs shows is at every moment true of the queue and
\* of the threads, and never two running jobs.
THEOREM StatusIsTrueHolds == Spec => []StatusIsTrue
<1>1. PlaceInv => StatusIsTrue
  <2> SUFFICES ASSUME PlaceInv PROVE StatusIsTrue
    OBVIOUS
  <2>1. Status.queued = {j \in Job : \/ request[j] = "put"
                                     \/ \E i \in DOMAIN q : q[i] = j
                                     \/ \E t \in Thread : worker[t] = "mark" /\ inHand[t] = j}
    BY DEF Status, JobsOf, PlaceInv, PlacesHaveStatus, StatusHasPlace, InQueue, Held
  <2>2. Status.running = {j \in Job : \E t \in Thread : worker[t] = "run" /\ inHand[t] = j}
    BY DEF Status, JobsOf, PlaceInv, PlacesHaveStatus, StatusHasPlace, Held
  <2>3. /\ Status.running # {} => Status.worker_alive
        /\ \A j, k \in Status.running : j = k
    <3>1. Status.worker_alive = (current # NoWorker /\ IsAlive(current))
      BY DEF Status
    <3>2. \A t \in Thread : worker[t] = "run" => t = current /\ IsAlive(t)
      BY DEF PlaceInv, NoOrphan, IsAlive
    <3>3. \A t \in Thread : worker[t] = "run" => Status.worker_alive
      BY <3>1, <3>2, NoWorkerAssumption
    <3> QED
      BY <2>2, <3>2, <3>3
  <2>4. \A j \in Job : request[j] = "answered" => JobView(j) # "not found"
    BY DEF JobView, PlaceInv, PlacesHaveStatus, EditorType, TypeOK
  <2> QED
    BY <2>1, <2>2, <2>3, <2>4 DEF StatusIsTrue
<1> QED
  BY <1>1, PlaceInvariant, PTL

----
(* The refinement mapping reads the jobs of the queue off by rank.  What is    *)
(* needed of it: nothing is added by a sentinel, a job is added at the end,    *)
(* and what get() takes away is the head.                                     *)

Queue == Seq(Job \union {NoJob})

LEMMA PlacesFinite ==
  ASSUME NEW s \in Queue
  PROVE  /\ IsFiniteSet(JobPlaces(s)) /\ Cardinality(JobPlaces(s)) \in Nat
         /\ JobPlaces(s) \subseteq 1 .. Len(s)
         /\ \A i : /\ IsFiniteSet({k \in JobPlaces(s) : k <= i})
                   /\ Rank(s, i) \in Nat
<1>1. DOMAIN s = 1 .. Len(s) /\ Len(s) \in Nat
  BY DEF Queue
<1>2. IsFiniteSet(1 .. Len(s))
  BY <1>1, FS_Interval
<1>3. JobPlaces(s) \subseteq 1 .. Len(s)
  BY <1>1 DEF JobPlaces
<1>4. IsFiniteSet(JobPlaces(s)) /\ Cardinality(JobPlaces(s)) \in Nat
  BY <1>2, <1>3, FS_Subset, FS_CardinalityType
<1>5. ASSUME NEW i
      PROVE  IsFiniteSet({k \in JobPlaces(s) : k <= i}) /\ Rank(s, i) \in Nat
  <2>1. {k \in JobPlaces(s) : k <= i} \in SUBSET JobPlaces(s)
    OBVIOUS
  <2>2. IsFiniteSet({k \in JobPlaces(s) : k <= i})
    BY <1>4, <2>1, FS_Subset
  <2> QED
    BY <2>2, FS_CardinalityType DEF Rank
<1> QED
  BY <1>3, <1>4, <1>5

LEMMA RankIncreases ==
  ASSUME NEW s \in Queue, NEW i \in JobPlaces(s), NEW k \in JobPlaces(s), i < k
  PROVE  Rank(s, i) < Rank(s, k)
<1> DEFINE S == {n \in JobPlaces(s) : n <= i}
           T == {n \in JobPlaces(s) : n <= k}
<1>1. i \in Nat /\ k \in Nat /\ JobPlaces(s) \subseteq Nat
  BY PlacesFinite DEF Queue
<1>2. S \in SUBSET T /\ k \in T /\ k \notin S
  BY <1>1
<1>3. IsFiniteSet(T) /\ IsFiniteSet(S)
  BY PlacesFinite
<1>4. Rank(s, i) = Cardinality(S) /\ Rank(s, k) = Cardinality(T)
  BY DEF Rank
<1> HIDE DEF S, T
<1>5. Cardinality(S) <= Cardinality(T) /\ Cardinality(S) # Cardinality(T)
  BY <1>2, <1>3, FS_Subset
<1>6. Cardinality(S) \in Nat /\ Cardinality(T) \in Nat
  BY <1>3, FS_CardinalityType
<1> QED
  BY <1>4, <1>5, <1>6

LEMMA RankType ==
  ASSUME NEW s \in Queue, NEW i \in JobPlaces(s)
  PROVE  Rank(s, i) \in 1 .. Cardinality(JobPlaces(s))
<1> DEFINE S == {n \in JobPlaces(s) : n <= i}
<1>1. i \in Nat
  BY PlacesFinite DEF Queue
<1>2. S \in SUBSET JobPlaces(s) /\ i \in S
  BY <1>1
<1>3. IsFiniteSet(S) /\ Rank(s, i) = Cardinality(S)
  BY PlacesFinite DEF Rank
<1> HIDE DEF S
<1>4. Cardinality(S) <= Cardinality(JobPlaces(s)) /\ Cardinality(S) \in Nat
  BY <1>2, <1>3, PlacesFinite, FS_Subset, FS_CardinalityType
<1>5. Cardinality(S) # 0
  BY <1>2, <1>3, FS_EmptySet
<1> QED
  BY <1>3, <1>4, <1>5, PlacesFinite

\* Every rank up to the number of jobs is that of exactly one place.
LEMMA RankOnto ==
  ASSUME NEW s \in Queue, NEW n \in 1 .. Cardinality(JobPlaces(s))
  PROVE  \E i \in JobPlaces(s) : Rank(s, i) = n
<1> DEFINE m == Cardinality(JobPlaces(s))
           f == [i \in JobPlaces(s) |-> Rank(s, i)]
<1>1. f \in [JobPlaces(s) -> 1 .. m]
  BY RankType
<1>2. \A i, k \in JobPlaces(s) : f[i] = f[k] => i = k
  <2>1. \A i, k \in JobPlaces(s) : i < k \/ k < i \/ i = k
    BY PlacesFinite DEF Queue
  <2>2. \A i, k \in JobPlaces(s) : i < k => Rank(s, i) < Rank(s, k)
    BY RankIncreases
  <2>3. \A i \in JobPlaces(s) : Rank(s, i) \in Nat
    BY PlacesFinite
  <2> QED
    BY <2>1, <2>2, <2>3
<1>3. f \in Injection(JobPlaces(s), 1 .. m)
  BY <1>1, <1>2, Fun_IsInj
<1>4. IsFiniteSet(1 .. m) /\ Cardinality(1 .. m) = m
  <2>1. m \in Nat
    BY PlacesFinite
  <2> QED
    BY <2>1, FS_Interval
<1>5. f \in Surjection(JobPlaces(s), 1 .. m)
  <2>1. Cardinality(JobPlaces(s)) = Cardinality(1 .. m)
    BY <1>4
  <2> HIDE DEF f, m
  <2>2. Cardinality(JobPlaces(s)) = Cardinality(1 .. m)
           <=> f \in Surjection(JobPlaces(s), 1 .. m)
    BY <1>3, <1>4, FS_Injection
  <2> QED
    BY <2>1, <2>2
<1>6. \E i \in JobPlaces(s) : f[i] = n
  BY <1>5, n \in 1 .. m DEF Surjection
<1> QED
  BY <1>6

LEMMA JobsAt ==
  ASSUME NEW s \in Queue, NEW i \in JobPlaces(s)
  PROVE  JobsIn(s)[Rank(s, i)] = s[i]
<1> DEFINE n == Rank(s, i)
           k == CHOOSE k \in JobPlaces(s) : Rank(s, k) = n
<1>1. n \in 1 .. Cardinality(JobPlaces(s))
  BY RankType
<1>2. k \in JobPlaces(s) /\ Rank(s, k) = n
  OBVIOUS
<1>3. k = i
  <2>1. i < k \/ k < i \/ i = k
    BY <1>2, PlacesFinite DEF Queue
  <2>2. n \in Nat
    BY PlacesFinite
  <2> HIDE DEF k, n
  <2>3. Rank(s, i) = n
    BY DEF n
  <2> QED
    BY <1>2, <2>1, <2>2, <2>3, RankIncreases
<1>4. JobsIn(s)[n] = s[k]
  BY <1>1 DEF JobsIn
<1> QED
  BY <1>3, <1>4

LEMMA JobsInSeq ==
  ASSUME NEW s \in Queue
  PROVE  /\ JobsIn(s) \in Seq(Job)
         /\ Len(JobsIn(s)) = Cardinality(JobPlaces(s))
         /\ {JobsIn(s)[n] : n \in DOMAIN JobsIn(s)} = {s[i] : i \in JobPlaces(s)}
<1> DEFINE m == Cardinality(JobPlaces(s))
           w == JobsIn(s)
<1>1. m \in Nat /\ JobPlaces(s) \subseteq 1 .. Len(s)
  BY PlacesFinite
<1>2. \A i \in JobPlaces(s) : s[i] \in Job
  BY DEF JobPlaces, Queue
<1>3. DOMAIN w = 1 .. m
  BY DEF JobsIn
<1>4. ASSUME NEW n \in 1 .. m
      PROVE  \E i \in JobPlaces(s) : Rank(s, i) = n /\ w[n] = s[i]
  BY RankOnto, JobsAt
<1>5. ASSUME NEW i \in JobPlaces(s)
      PROVE  \E n \in 1 .. m : w[n] = s[i]
  BY RankType, JobsAt
<1>6. w \in [1 .. m -> Job]
  <2>1. \A n \in 1 .. m : w[n] \in Job
    <3> HIDE DEF w
    <3> QED
      BY <1>2, <1>4
  <2> QED
    BY <2>1 DEF JobsIn
<1> HIDE DEF w
<1>7. w \in Seq(Job) /\ Len(w) = m
  BY <1>1, <1>6
<1>8. {w[n] : n \in DOMAIN w} = {s[i] : i \in JobPlaces(s)}
  BY <1>3, <1>4, <1>5
<1> QED
  BY <1>7, <1>8 DEF w

\* Two enumerations of the same length agree when they agree by rank.
LEMMA JobsInIs ==
  ASSUME NEW s \in Queue, NEW w \in Seq(Job),
         Len(w) = Cardinality(JobPlaces(s)),
         \A i \in JobPlaces(s) : w[Rank(s, i)] = s[i]
  PROVE  JobsIn(s) = w
<1>1. JobsIn(s) \in Seq(Job) /\ Len(JobsIn(s)) = Len(w)
  BY JobsInSeq
<1>2. ASSUME NEW n \in 1 .. Len(w) PROVE JobsIn(s)[n] = w[n]
  BY RankOnto, JobsAt
<1> QED
  BY <1>1, <1>2

LEMMA JobsInEmpty == JobsIn(<< >>) = << >>
<1>1. << >> \in Queue /\ JobPlaces(<< >>) = {}
  BY DEF Queue, JobPlaces
<1>2. Cardinality(JobPlaces(<< >>)) = 0
  BY <1>1, FS_EmptySet
<1>3. << >> \in Seq(Job) /\ Len(<< >>) = 0
  OBVIOUS
<1>4. \A i \in JobPlaces(<< >>) : << >>[Rank(<< >>, i)] = << >>[i]
  BY <1>1
<1> QED
  BY <1>1, <1>2, <1>3, <1>4, JobsInIs

LEMMA JobsInAppend ==
  ASSUME NEW s \in Queue, NEW e \in Job \union {NoJob}
  PROVE  JobsIn(Append(s, e)) = IF e = NoJob THEN JobsIn(s) ELSE Append(JobsIn(s), e)
<1> DEFINE t == Append(s, e)
           last == Len(s) + 1
           m == Cardinality(JobPlaces(s))
<1>1. /\ t \in Queue /\ DOMAIN t = 1 .. last /\ t[last] = e
      /\ \A i \in 1 .. Len(s) : t[i] = s[i]
      /\ Len(s) \in Nat /\ DOMAIN s = 1 .. Len(s)
  BY DEF Queue
<1>2. JobPlaces(t) = IF e = NoJob THEN JobPlaces(s) ELSE JobPlaces(s) \union {last}
  <2> HIDE DEF t
  <2> QED
    BY <1>1 DEF JobPlaces
<1>3. /\ JobPlaces(s) \subseteq 1 .. Len(s) /\ IsFiniteSet(JobPlaces(s))
      /\ m \in Nat
  BY PlacesFinite
<1> HIDE DEF t
<1>4. ASSUME NEW i \in JobPlaces(s)
      PROVE  Rank(t, i) = Rank(s, i) /\ t[i] = s[i] /\ Rank(s, i) \in 1 .. m
  <2>1. {k \in JobPlaces(t) : k <= i} = {k \in JobPlaces(s) : k <= i}
    BY <1>1, <1>2, <1>3
  <2> QED
    BY <1>1, <1>3, <2>1, RankType DEF Rank
<1>5. JobsIn(s) \in Seq(Job) /\ Len(JobsIn(s)) = m
  BY JobsInSeq
<1>6. CASE e = NoJob
  <2>1. Len(JobsIn(s)) = Cardinality(JobPlaces(t))
    BY <1>2, <1>5, <1>6
  <2>2. \A i \in JobPlaces(t) : JobsIn(s)[Rank(t, i)] = t[i]
    BY <1>2, <1>4, <1>6, JobsAt
  <2> QED
    BY <1>1, <1>5, <1>6, <2>1, <2>2, JobsInIs DEF t
<1>7. CASE e # NoJob
  <2>1. last \notin JobPlaces(s) /\ e \in Job
    BY <1>1, <1>3, <1>7
  <2>2. Cardinality(JobPlaces(t)) = m + 1
    BY <1>2, <1>3, <1>7, <2>1, FS_AddElement
  <2>3. Rank(t, last) = m + 1
    <3>1. {k \in JobPlaces(t) : k <= last} = JobPlaces(t)
      BY <1>1, <1>2, <1>3
    <3> QED
      BY <2>2, <3>1 DEF Rank
  <2> DEFINE w == Append(JobsIn(s), e)
  <2>4. w \in Seq(Job) /\ Len(w) = m + 1 /\ w[m + 1] = e
    BY <1>3, <1>5, <2>1
  <2>5. ASSUME NEW i \in JobPlaces(t) PROVE w[Rank(t, i)] = t[i]
    <3>1. CASE i = last
      BY <1>1, <2>3, <2>4, <3>1
    <3>2. CASE i \in JobPlaces(s)
      <4>1. w[Rank(s, i)] = JobsIn(s)[Rank(s, i)]
        BY <1>3, <1>4, <1>5, <2>1, <3>2
      <4> QED
        BY <1>4, <3>2, <4>1, JobsAt
    <3> QED
      BY <1>2, <1>7, <3>1, <3>2
  <2> HIDE DEF w
  <2>6. JobsIn(t) = w
    BY <1>1, <2>2, <2>4, <2>5, JobsInIs
  <2> QED
    BY <1>7, <2>6 DEF t, w
<1> QED
  BY <1>6, <1>7

LEMMA ShiftedSize ==
  ASSUME NEW A \in SUBSET Nat, IsFiniteSet(A), NEW B, B = {a + 1 : a \in A}
  PROVE  IsFiniteSet(B) /\ Cardinality(B) = Cardinality(A)
<1> DEFINE f == [a \in A |-> a + 1]
<1>1. f \in [A -> B] /\ \A a, b \in A : f[a] = f[b] => a = b
  OBVIOUS
<1>2. \A b \in B : \E a \in A : f[a] = b
  OBVIOUS
<1>3. f \in Bijection(A, B)
  BY <1>1, <1>2, Fun_IsBij
<1> QED
  BY <1>3, FS_Bijection DEF ExistsBijection

LEMMA JobsInTail ==
  ASSUME NEW s \in Queue, s # << >>
  PROVE  IF Head(s) = NoJob
         THEN JobsIn(Tail(s)) = JobsIn(s)
         ELSE /\ JobsIn(s) # << >>
              /\ Head(JobsIn(s)) = Head(s)
              /\ JobsIn(Tail(s)) = Tail(JobsIn(s))
<1> DEFINE t == Tail(s)
           h == Head(s)
           m == Cardinality(JobPlaces(t))
           first == IF h = NoJob THEN {} ELSE {1}
           d == IF h = NoJob THEN 0 ELSE 1
<1>1. /\ t \in Queue /\ h = s[1] /\ h \in Job \union {NoJob}
      /\ Len(s) \in Nat \ {0} /\ DOMAIN s = 1 .. Len(s)
      /\ DOMAIN t = 1 .. (Len(s) - 1) /\ \A i \in 1 .. (Len(s) - 1) : t[i] = s[i + 1]
  BY DEF Queue
<1> HIDE DEF t, h
<1>2. /\ JobPlaces(t) \subseteq 1 .. (Len(s) - 1) /\ JobPlaces(t) \in SUBSET Nat
      /\ IsFiniteSet(JobPlaces(t)) /\ m \in Nat
  <2>1. JobPlaces(t) \subseteq 1 .. (Len(s) - 1)
    BY <1>1 DEF JobPlaces
  <2> QED
    BY <1>1, <2>1, PlacesFinite
<1>3. JobPlaces(s) = {i + 1 : i \in JobPlaces(t)} \union first
  <2>1. ASSUME NEW k \in JobPlaces(s), k # 1 PROVE k \in {i + 1 : i \in JobPlaces(t)}
    <3>1. k - 1 \in JobPlaces(t) /\ k = (k - 1) + 1
      BY <1>1, <2>1 DEF JobPlaces
    <3> QED
      BY <3>1
  <2>2. ASSUME NEW i \in JobPlaces(t) PROVE i + 1 \in JobPlaces(s)
    BY <1>1, <1>2, <2>2 DEF JobPlaces
  <2>3. 1 \in JobPlaces(s) <=> h # NoJob
    BY <1>1 DEF JobPlaces
  <2> QED
    BY <2>1, <2>2, <2>3
<1>4. ASSUME NEW A \in SUBSET JobPlaces(t)
      PROVE  Cardinality({a + 1 : a \in A} \union first) = Cardinality(A) + d
  <2> DEFINE B == {a + 1 : a \in A}
  <2>1. IsFiniteSet(A) /\ Cardinality(A) \in Nat /\ A \in SUBSET Nat
    BY <1>2, FS_Subset, FS_CardinalityType
  <2>2. IsFiniteSet(B) /\ Cardinality(B) = Cardinality(A)
    BY <2>1, ShiftedSize
  <2>3. 1 \notin B
    BY <1>2
  <2> HIDE DEF B
  <2>4. Cardinality(B \union {1}) = Cardinality(B) + 1
    BY <2>2, <2>3, FS_AddElement
  <2>5. CASE h = NoJob
    <3>1. B \union first = B
      BY <2>5
    <3> QED
      BY <2>1, <2>2, <2>5, <3>1 DEF B
  <2>6. CASE h # NoJob
    <3>1. B \union first = B \union {1}
      BY <2>6
    <3> QED
      BY <2>1, <2>2, <2>4, <2>6, <3>1 DEF B
  <2> QED
    BY <2>5, <2>6
<1>5. Cardinality(JobPlaces(s)) = m + d
  BY <1>3, <1>4
<1>6. ASSUME NEW i \in JobPlaces(t)
      PROVE  /\ i + 1 \in JobPlaces(s) /\ s[i + 1] = t[i]
             /\ Rank(s, i + 1) = Rank(t, i) + d
             /\ Rank(t, i) \in 1 .. m
  <2> DEFINE A == {k \in JobPlaces(t) : k <= i}
  <2>1. {k \in JobPlaces(s) : k <= i + 1} = {a + 1 : a \in A} \union first
    BY <1>2, <1>3
  <2>2. A \in SUBSET JobPlaces(t)
    OBVIOUS
  <2>3. Rank(t, i) = Cardinality(A)
    BY DEF Rank
  <2>4. Rank(s, i + 1) = Cardinality({a + 1 : a \in A} \union first)
    BY <2>1 DEF Rank
  <2> HIDE DEF A
  <2>5. Rank(s, i + 1) = Rank(t, i) + d
    BY <1>4, <2>2, <2>3, <2>4
  <2> QED
    BY <1>1, <1>2, <1>3, <2>5, RankType
<1>7. /\ JobsIn(s) \in Seq(Job) /\ Len(JobsIn(s)) = m + d
  BY <1>5, JobsInSeq
<1>8. CASE h = NoJob
  <2>1. \A i \in JobPlaces(t) : JobsIn(s)[Rank(t, i)] = t[i]
    <3>1. ASSUME NEW i \in JobPlaces(t) PROVE JobsIn(s)[Rank(t, i)] = t[i]
      <4>1. Rank(s, i + 1) = Rank(t, i)
        BY <1>6, <1>8
      <4> QED
        BY <1>6, <4>1, JobsAt
    <3> QED
      BY <3>1
  <2>2. Len(JobsIn(s)) = m
    BY <1>2, <1>7, <1>8
  <2>3. JobsIn(t) = JobsIn(s)
    BY <1>1, <1>7, <2>1, <2>2, JobsInIs
  <2> QED
    BY <1>8, <2>3 DEF t, h
<1>9. CASE h # NoJob
  <2> DEFINE w == Tail(JobsIn(s))
  <2>1. Len(JobsIn(s)) = m + 1
    BY <1>7, <1>9
  <2>2. /\ JobsIn(s) # << >> /\ w \in Seq(Job) /\ Len(w) = m
        /\ Head(JobsIn(s)) = JobsIn(s)[1]
        /\ \A n \in 1 .. m : w[n] = JobsIn(s)[n + 1]
    BY <1>2, <1>7, <2>1
  <2>3. JobsIn(s)[1] = h
    <3>1. 1 \in JobPlaces(s) /\ JobPlaces(s) \subseteq 1 .. Len(s)
      BY <1>1, <1>9, PlacesFinite DEF JobPlaces
    <3>2. {k \in JobPlaces(s) : k <= 1} = {1}
      BY <1>1, <3>1
    <3>3. Rank(s, 1) = 1
      BY <3>2, FS_Singleton DEF Rank
    <3> QED
      BY <1>1, <3>1, <3>3, JobsAt
  <2>4. ASSUME NEW i \in JobPlaces(t) PROVE w[Rank(t, i)] = t[i]
    <3>1. Rank(s, i + 1) = Rank(t, i) + 1 /\ Rank(t, i) \in 1 .. m
      BY <1>6, <1>9
    <3>2. w[Rank(t, i)] = JobsIn(s)[Rank(t, i) + 1]
      BY <2>2, <3>1
    <3> QED
      BY <1>6, <3>1, <3>2, JobsAt
  <2> HIDE DEF w
  <2>5. JobsIn(t) = w
    BY <1>1, <2>2, <2>4, JobsInIs
  <2> QED
    BY <1>9, <2>2, <2>3, <2>5 DEF t, h, w
<1> QED
  BY <1>8, <1>9

----
(* The refinement.                                                           *)

\* At most one thread is busy, and its job is the active one.
LEMMA ActiveIs ==
  ASSUME NoOrphan
  PROVE  /\ Busy = {} => ActiveJob = NoJob
         /\ \A t \in Thread : worker[t] \in {"mark", "run"} =>
               Busy = {t} /\ ActiveJob = inHand[t]
<1>1. \A s, t \in Busy : s = t
  BY DEF NoOrphan, IsAlive, Busy
<1>2. ASSUME NEW t \in Thread, worker[t] \in {"mark", "run"}
      PROVE  Busy = {t} /\ ActiveJob = inHand[t]
  <2>1. Busy = {t}
    BY <1>1, <1>2 DEF Busy
  <2> QED
    BY <2>1 DEF ActiveJob
<1> QED
  BY <1>2 DEF ActiveJob

Finished == {j \in Job : Over(j)}

LEMMA ActiveKept ==
  ASSUME Busy' = Busy, \A t \in Busy : inHand'[t] = inHand[t]
  PROVE  ActiveJob' = ActiveJob
BY DEF ActiveJob

LEMMA StartKeepsActive ==
  ASSUME PlaceInv, Start, UNCHANGED inHand
  PROVE  ActiveJob' = ActiveJob
<1>1. \A t \in Thread : worker'[t] \in {"mark", "run"} <=> worker[t] \in {"mark", "run"}
  <2>1. CASE UNCHANGED <<current, worker, stopSet>>
    BY <2>1
  <2>2. CASE \E t \in Thread : /\ worker[t] = "unborn"
                               /\ worker' = [worker EXCEPT ![t] = "loop"]
    BY <2>2 DEF PlaceInv, EditorType, TypeOK
  <2> QED
    BY <2>1, <2>2 DEF Start
<1>2. Busy' = Busy
  BY <1>1 DEF Busy
<1> QED
  BY <1>2, ActiveKept

LEMMA SubmitRefines ==
  ASSUME PlaceInv, NEW j \in Job, Submit(j)
  PROVE  Serial!Enqueue(j) \/ UNCHANGED Serial!jobVars
<1> USE DEF PlaceInv, EditorType, TypeOK
<1>1. CASE SubmitStart(j)
  <2>1. ActiveJob' = ActiveJob
    BY <1>1, StartKeepsActive DEF SubmitStart
  <2>2. JobsIn(q)' = JobsIn(q) /\ Finished' = Finished
    BY <1>1 DEF SubmitStart, Finished, Over
  <2> QED
    BY <2>1, <2>2 DEF Serial!jobVars, Finished
<1>2. CASE SubmitRegister(j)
  <2>1. ActiveJob' = ActiveJob /\ JobsIn(q)' = JobsIn(q)
    BY <1>2 DEF SubmitRegister, ActiveJob, Busy
  <2>2. status[j] = "none" /\ status' = [status EXCEPT ![j] = "queued"]
    BY <1>2 DEF SubmitRegister, PlacesHaveStatus
  <2>3. Finished' = Finished
    BY <2>2 DEF Finished, Over
  <2> QED
    BY <2>1, <2>3 DEF Serial!jobVars, Finished
<1>3. CASE SubmitPut(j)
  <2>1. /\ q \in Queue /\ q' = Append(q, j) /\ request[j] = "put"
        /\ UNCHANGED <<worker, inHand, status>>
    BY <1>3 DEF SubmitPut, Queue
  <2>2. JobsIn(q)' = Append(JobsIn(q), j)
    BY <2>1, JobsInAppend, NoJobAssumption
  <2>3. ActiveJob' = ActiveJob /\ Finished' = Finished
    BY <2>1 DEF ActiveJob, Busy, Finished, Over
  <2>4. j \notin {JobsIn(q)[n] : n \in DOMAIN JobsIn(q)}
    <3>1. ~InQueue(j)
      BY <2>1 DEF PlacesHaveStatus
    <3>2. j \notin {q[i] : i \in JobPlaces(q)}
      BY <3>1 DEF InQueue, JobPlaces
    <3> QED
      BY <2>1, <3>2, JobsInSeq
  <2>5. j # ActiveJob
    <3>1. ~Held(j, "mark") /\ ~Held(j, "run")
      BY <2>1 DEF PlacesHaveStatus
    <3>2. CASE Busy = {}
      BY <3>2, ActiveIs, NoJobAssumption
    <3>3. CASE Busy # {}
      BY <3>1, <3>3, ActiveIs DEF Busy, Held
    <3> QED
      BY <3>2, <3>3
  <2>6. j \notin Finished
    BY <2>1 DEF PlacesHaveStatus, Finished, Over
  <2>7. j \notin Serial!Known
    BY <2>4, <2>5, <2>6 DEF Serial!Known, Finished
  <2> QED
    BY <2>2, <2>3, <2>7 DEF Serial!Enqueue, Finished
<1> QED
  BY <1>1, <1>2, <1>3 DEF Submit

LEMMA WorkerRefines ==
  ASSUME PlaceInv, PlaceInv', NEW t \in Thread, WorkerStep(t)
  PROVE  Serial!Take \/ Serial!Finish \/ UNCHANGED Serial!jobVars
<1>0. /\ worker \in [Thread -> {"unborn", "loop", "get", "mark", "run", "ended"}]
      /\ inHand \in [Thread -> Job \union {NoJob}]
      /\ status \in [Job -> {"none", "queued", "running", "succeeded", "failed"}]
      /\ \A s \in Thread : worker[s] \in {"mark", "run"} => inHand[s] \in Job
      /\ q \in Queue /\ NoOrphan /\ NoOrphan'
  BY DEF PlaceInv, EditorType, TypeOK, Queue
<1>1. CASE LoopCheck(t)
  <2>1. Busy' = Busy
    BY <1>0, <1>1 DEF LoopCheck, Busy
  <2>2. ActiveJob' = ActiveJob
    BY <1>1, <2>1, ActiveKept DEF LoopCheck
  <2>3. JobsIn(q)' = JobsIn(q) /\ Finished' = Finished
    BY <1>1 DEF LoopCheck, Finished, Over
  <2> QED
    BY <2>2, <2>3 DEF Serial!jobVars, Finished
<1>2. CASE Get(t)
  <2>1. /\ q # << >> /\ q' = Tail(q) /\ worker[t] = "get" /\ status' = status
        /\ inHand' = [inHand EXCEPT ![t] = Head(q)]
        /\ worker' = [worker EXCEPT ![t] = IF Head(q) = NoJob THEN "ended" ELSE "mark"]
    BY <1>2 DEF Get
  <2>2. Finished' = Finished
    BY <2>1 DEF Finished, Over
  <2>3. CASE Head(q) = NoJob
    <3>1. JobsIn(q)' = JobsIn(q)
      BY <1>0, <2>1, <2>3, JobsInTail
    <3>2. Busy' = Busy /\ \A s \in Busy : inHand'[s] = inHand[s]
      BY <1>0, <2>1, <2>3 DEF Busy
    <3>3. ActiveJob' = ActiveJob
      BY <3>2, ActiveKept
    <3> QED
      BY <2>2, <3>1, <3>3 DEF Serial!jobVars, Finished
  <2>4. CASE Head(q) # NoJob
    <3>1. JobsIn(q) # << >> /\ Head(JobsIn(q)) = Head(q) /\ JobsIn(q)' = Tail(JobsIn(q))
      BY <1>0, <2>1, <2>4, JobsInTail
    <3>2. Busy = {}
      BY <1>0, <2>1 DEF NoOrphan, IsAlive, Busy
    <3>3. ActiveJob = NoJob
      BY <1>0, <3>2, ActiveIs
    <3>4. worker'[t] = "mark" /\ inHand'[t] = Head(q)
      BY <1>0, <2>1, <2>4
    <3>5. Busy' = {t}
      BY <1>0, <2>1, <2>4, <3>2 DEF Busy
    <3>6. ActiveJob' = Head(q)
      BY <3>4, <3>5 DEF ActiveJob
    <3> QED
      BY <2>2, <3>1, <3>3, <3>6 DEF Serial!Take, Finished
  <2> QED
    BY <2>3, <2>4
<1>3. CASE MarkRunning(t)
  <2>1. /\ worker[t] = "mark" /\ worker' = [worker EXCEPT ![t] = "run"]
        /\ status' = [status EXCEPT ![inHand[t]] = "running"]
        /\ UNCHANGED <<q, inHand>>
    BY <1>3 DEF MarkRunning
  <2>2. Busy' = Busy
    BY <1>0, <2>1 DEF Busy
  <2>3. ActiveJob' = ActiveJob /\ JobsIn(q)' = JobsIn(q)
    BY <2>1, <2>2, ActiveKept
  <2>4. status[inHand[t]] = "queued" /\ inHand[t] \in Job
    BY <1>0, <2>1 DEF PlaceInv, PlacesHaveStatus, Held
  <2>5. Finished' = Finished
    BY <1>0, <2>1, <2>4 DEF Finished, Over
  <2> QED
    BY <2>3, <2>5 DEF Serial!jobVars, Finished
<1>4. CASE FinishJob(t)
  <2>1. PICK outcome \in {"succeeded", "failed"} :
            status' = [status EXCEPT ![inHand[t]] = outcome]
    BY <1>4 DEF FinishJob
  <2>2. /\ worker[t] = "run" /\ worker' = [worker EXCEPT ![t] = "loop"]
        /\ UNCHANGED q /\ inHand[t] \in Job
    BY <1>0, <1>4 DEF FinishJob
  <2>3. Busy = {t} /\ ActiveJob = inHand[t]
    BY <1>0, <2>2, ActiveIs
  <2>4. Busy' = {}
    BY <1>0, <2>2, <2>3 DEF Busy
  <2>5. ActiveJob' = NoJob
    BY <2>4 DEF ActiveJob
  <2>6. Finished' = Finished \union {ActiveJob}
    BY <1>0, <2>1, <2>2, <2>3 DEF Finished, Over
  <2>7. ActiveJob # NoJob /\ JobsIn(q)' = JobsIn(q)
    BY <2>2, <2>3, NoJobAssumption
  <2> QED
    BY <2>5, <2>6, <2>7 DEF Serial!Finish, Finished
<1> QED
  BY <1>1, <1>2, <1>3, <1>4 DEF WorkerStep

LEMMA LifespanRefines ==
  ASSUME PlaceInv, Lifespan
  PROVE  UNCHANGED Serial!jobVars
<1>1. ActiveJob' = ActiveJob
  <2>1. CASE StartUp
    BY <2>1, StartKeepsActive DEF StartUp
  <2>2. CASE StopSet \/ StopPut \/ StopJoin
    <3>1. UNCHANGED <<worker, inHand>>
      BY <2>2 DEF StopSet, StopPut, StopJoin
    <3>2. Busy' = Busy
      BY <3>1 DEF Busy
    <3> QED
      BY <3>1, <3>2 DEF ActiveJob
  <2> QED
    BY <2>1, <2>2 DEF Lifespan
<1>2. JobsIn(q)' = JobsIn(q)
  <2>1. CASE StopPut
    <3>1. q \in Queue /\ q' = Append(q, NoJob)
      BY <2>1 DEF StopPut, Queue, PlaceInv, EditorType, TypeOK
    <3> QED
      BY <3>1, JobsInAppend
  <2> QED
    BY <2>1 DEF Lifespan, StartUp, StopSet, StopJoin
<1>3. Finished' = Finished
  BY DEF Lifespan, StartUp, StopSet, StopPut, StopJoin, Finished, Over
<1> QED
  BY <1>1, <1>2, <1>3 DEF Serial!jobVars, Finished

LEMMA InitRefines == Init => Serial!Init
<1> SUFFICES ASSUME Init PROVE Serial!Init
  OBVIOUS
<1>1. JobsIn(q) = << >>
  BY JobsInEmpty DEF Init
<1>2. ActiveJob = NoJob
  BY DEF Init, ActiveJob, Busy
<1>3. Finished = {}
  BY DEF Init, Finished, Over
<1> QED
  BY <1>1, <1>2, <1>3 DEF Serial!Init, Finished

LEMMA NextRefines ==
  ASSUME PlaceInv, PlaceInv', [Next]_editorVars
  PROVE  [Serial!Next]_Serial!jobVars
<1>1. CASE UNCHANGED editorVars
  BY <1>1 DEF editorVars, Serial!jobVars, ActiveJob, Busy, Over
<1>2. ASSUME NEW j \in Job, Submit(j) PROVE [Serial!Next]_Serial!jobVars
  BY <1>2, SubmitRefines DEF Serial!Next
<1>3. ASSUME NEW t \in Thread, WorkerStep(t) PROVE [Serial!Next]_Serial!jobVars
  BY <1>3, WorkerRefines DEF Serial!Next
<1>4. CASE Lifespan
  BY <1>4, LifespanRefines
<1> QED
  BY <1>1, <1>2, <1>3, <1>4 DEF Next

\* The job queue is an implementation of SerialJobs: whatever requests, the
\* worker and stop() do, each job is run at most once, one at a time and in the
\* order in which the jobs were put in the queue.
THEOREM ImplementsSerialJobsHolds == Spec => ImplementsSerialJobs
<1>1. Spec => []PlaceInv
  BY PlaceInvariant
<1>2. PlaceInv /\ PlaceInv' /\ [Next]_editorVars => [Serial!Next]_Serial!jobVars
  BY NextRefines
<1> QED
  BY <1>1, <1>2, InitRefines, PTL DEF Spec, ImplementsSerialJobs, Serial!Spec

====
