# Engram: a TLA+ model of the memory system

Engram (`serving/`, `memory/`, `editing.py`, `frontend/`) is a chat assistant that
learns facts from conversations. A fact goes to a *buffer* first, which is put into
every prompt; a *consolidation pass* later trains it into the weights with HoReN: one
row in the codebook of an adapter that hangs at one slot of a frozen language model.
Documents go to a retrieval store (*RAG*) instead. This directory models how a memory
moves through these layers while everything else is going on, what the codebook and the
chunk index hold meanwhile, and the pure algorithms in between.

## The system

| Part | State | Operations | Talks to |
|---|---|---|---|
| `memory/store.py`, `buffer.py`, `schema.py`, `persistence.py` | `_memories`, `_rag`: shared `MemoryItem` objects; `memory_store.json` | upsert, delete, by_status, rag_add, load | everybody, by reference |
| `memory/consolidate.py` | none; locals of a pass | run_pass, preview_verdict | dedup, store, an editing backend |
| `memory/dedup.py`, `embed.py` | none | classify: new, duplicate, supersede | a language model |
| `memory/extract.py`, `router.py` | none | extract, decompose | a language model |
| `memory/rag_store.py` | `_chunks`, its own file | add, search | store, embed |
| `memory/prompt.py`, `generate.py`, `keying.py` | `query_span` of the adapter | build_prompt, generate, gate | resident model |
| `serving/model_host.py` | the slot, recorded adapter, inference lock, `codebook.pt` | swap, promote, register, inference_session, save and load | editing backends, handlers |
| `editing.py` | none; mutates the live adapter | edit | HoReN, model_host |
| `serving/shadow_editing.py` | none; a private copy | edit | HoReN, model_host |
| `serving/async_editor.py` | queue, jobs, worker thread, stop flag | start, stop, submit, worker loop | consolidate |
| `serving/app.py`, `ingest.py`, `triggers.py` | none; one thread per request | chat, consolidate, drop, route, patch, edit-module, lifespan | all of the above |
| `serving/scenario_memory.py` | none | plan, response (read only) | store, keying |
| `frontend/` | a copy of the lists, button locks | the requests above | HTTP |
| `serving/store.py`, most of `triggers.py` | none | stubs | none |
| `eval/` | one resident model and the stores, shared by all rungs | load, rungs, scorers, table, probes | all of `memory/`, model_host |
| `spikes/` | | prototypes of what the server does now | |
| the rest of `third_party/horen` | | research code | |

What makes it hard: FastAPI runs each handler in a thread of its own, and `store.get`
hands out the stored object, so requests and passes share memories by reference; a pass
keeps items, a registry and a copy of the adapter across calls that take seconds; there
are two editing backends, one of which works on the live model; four writes (promotion,
`codebook.pt`, the superseded items, the item) are separate and so are their files; the
process may die between any two of them.

What each part owes:

* **store**: the file holds what memory holds.
* **consolidation**: a memory never disappears on its way (*zero vacuum*,
  `docs/online_updating/online_editing_design.md`); whatever is listed as consolidated is
  in the weights; nothing is retired for an edit that failed; a duplicate is a duplicate
  of something live.
* **resident model**: an answer sees one codebook; writers are not starved or deadlocked.
* **chat**: write-then-read: the answer to a message knows what the message taught.
* **job queue**: a single writer, jobs in order, each at most once, none forgotten.
* **RAG store**: an answered add is durable and whole; a search beside an add loses
  nothing; a RAG item is never in the weights.
* **codebook and attribution**: provenance stays true of the rows it names, in the adapter and
  on disk; a memory's prompts retrieve what was taught with them; an answer is attributed to
  the memory whose row it used.
* **listing**: what was in a list all along is in the answer to `GET /memories`.
* **prompt, extraction, dedup, chunking, key prompts, planner**: pure functions of texts
  and of whatever a language model answers, with boundary cases.
* **evaluation**: a rung measures its own setup, and the table blames the part at fault.

`PROJECT.json` lists each hazard with its line and the properties that would catch it.

## Modules

* `Store` is the edit-route table. `heap` is the `MemoryItem` objects, `memories` and
  `rag` are the keys of the two dicts, `storeFile` is the last save. Because objects are
  shared, assigning an attribute changes `heap` at once; the file sees it with the next
  save, whoever makes it. A text is its version number (`text`); `edit` is the version
  that `provenance["edit"]` was decomposed from. Of the provenance only `edit`,
  `duplicate_of` and `superseded_by` are kept.
* `ModelHost` is the resident model: `slot` (what sits in the module tree), `recorded`
  (`_S["adapter"]`), the `codebook` of each adapter object, the inference `lock` and
  `codebookFile`. Saving or loading the checkpoint may fail when `CheckpointMayFail`; both
  failures are swallowed, as in the code.
* `Consolidate` extends both with the passes. A thread in `Worker` runs passes with
  `shadow_editing`, a thread in `InPlace` is one synchronous `POST /consolidate` or
  `/consolidate/item` and uses `editing`. `pass[p].at` is the program counter:
  `registry` -> `next` -> (`drain` -> `delete` | `edit` -> ... -> `retire`) -> `next`.
  Shadow editing is `ShadowEdit`, `Promote`; editing in place is `ReadSlot` (HoReN reads
  the slot and looks at the type), `InstallAdapter` (builds an adapter and sets the
  attribute, whatever the slot holds by then), `AddKey`, `FinishTraining`,
  `AppendChatKeys`, `Register`, each a step of its own since others see the live adapter
  and nobody holds its lock. A row is (memory, version, trained).
* `Serving` composes them with the requests: `Chat` requests ingest and answer, `Client`
  requests discard, re-route, rewrite, plug or unplug, and `Restart` is a crash followed by
  `lifespan`. `learned` and `touched` are history variables for the properties only.
* `Listing` adds requests that read the three lists one after the other (`GET /memories`,
  the counts of `GET /health`) to `Serving`, whose every step may come between two reads.
  A memory may be in two lists at once (a re-route that races a pass) or come back after it
  was gone, as in `Serving`. The history variable `shown` is what every instant of the
  request had to show.
* `MCServing` has the symmetry set for TLC.
* `SerialJobs` is the promise of the job queue; `AsyncEditor` is `async_editor.py` with its
  queue, sentinel, flag, threads and the two callers of `start`, and implements it by the
  refinement mapping `Serial`. `Serving` uses the promise only: a worker thread begins a
  pass when it is idle.
* `RagStore` is `rag_store.add` and `search` step by step: the index `chunks` (a bag: how
  often each window of each item is in it), the items of record `rag`, a file for each, the
  lock, a frame per thread. `acked` and `torn` are history variables.
* `Codebook` follows one adapter as a sequence of rows (key, value, label), which
  `Consolidate` abstracts to a set: cloning with the mode and the query span of the moment,
  HoReN's first pass with `label_match`, the chat keys, promotion, provenance by row index,
  probes that switch the adapter off, the decode and the attribution after it, checkpoints
  that cannot be written or read. A key is what it was pooled from: a raw stem, the tail of
  stem and target that a left-over query span cuts out, or the span of a text in a chat
  prompt, beside whatever else that prompt held. `HeroKey` is the chat key of an empty window,
  which chat rows, probes and the gate use; a decode uses the `SpanKey` of its own prompt. Every
  key is compared with every row, whatever their forms (`Score`), so an edit may retrain a
  row of any form.
  `MCCodebook` gives three memories: two on one stem, of which the first has the noun of that
  stem as a canonical prompt, and one whose stem is this noun and whose label collides with
  that of the first. Its scores are ordered like the means that
  `docs/v0.3-planB-chat-keying-report.md` measured.
* The pure algorithms, in modules of operators: `Sequencing` (windows, sorting),
  `Retrieval` (candidates, re-ranking), `Prompt` (`_fit_prefix`, the segments of
  `build_prompt`), `Extraction` (windows, validation, merging, routing), `Dedup`,
  `KeyPrompts` (canonical prompts and probes), `Scenario` (planner, gate, attribution),
  `Files` (`atomic_write_json`), `Dataset`,
  `Evaluation` and `Probes` (`eval/`), `Prototypes` (spikes v07, v21, v26 and v27, compared
  with the server that grew out of them).
* `Algorithms` enumerates their inputs: one action per algorithm, each putting one input
  into `call`, and invariants that compare the result with a definition of another kind.
* `ServingProofs`, `ContentionProofs` (what needs no single writer), `AsyncEditorProofs` (with
  the refinement), `RagStoreProofs`, `CodebookProofs`, `AlgorithmProofs` and `KeyPromptProofs`
  hold the theorems; `SequencingProofs` has the lemmas about windows, recursion and sorting
  that the last two use.

Definitions whose comment starts with "Mutant" are wrong on purpose: each replaces a
definition of the model to show that a property notices.

Some steps of the code are one step of the model:

* assignments to one object between two calls, with the save that ends them, when nothing
  can tell the order (`old.status`, `old.provenance`, `upsert` in `RetireOld`; the same in
  `Commit`, `ClassifyDuplicate`); `route_memory`'s route and the status that
  `rag_store.add` pins (`Reroute`);
* cloning and training a shadow (`ShadowEdit`): nobody else sees it; that the copy is old
  when it is promoted is what matters, and `Promote` is a step of its own;
* in HoReN's `edit`, reading the adapter from the slot and the first forward pass
  (`AddKey`), and the iterations up to the last (`FinishTraining`).

Choices of a language model or of embeddings (what is extracted, its route, the verdict on
a candidate, whether a text decomposes) are nondeterministic; an exception of theirs is a
step where the code lets it through. In `Serving` two prompts of different versions have
different keys. The persistence of `app.py` is switched on, as it is by default.

Data are abstracted to what the properties tell apart. In `Codebook` the score of two keys is
a table, `Similarity`, over all keys. The iterations of the Hopfield query, which pull it
towards the rows it is near to, are folded into that table, so it does not change with the
rows of the moment. Its one assumption is that a key is nearer to itself than any other and
beyond the threshold; what other keys match, across forms too, is up to the instance, and ties
go to any row. In the pure modules a text is a number of units, a segment a sequence of costs,
a candidate memory its similarities and counts of shared words, an answer of the model under
test the set of facts it can draw on.

## Runs

| Run | Question | Bounds | States |
|---|---|---|---|
| `handoff` | Is a memory ever nowhere, or claimed to be where it is not? | 3 memories, 1 rewrite, 2 adapters, 1 worker, 1 chat, 1 client, 1 retry, crashes | 549,643 |
| `contention` | Do two kinds of writer, an answer and the toggle come to an end, and what survives them? | 1 memory, 3 adapters, 1 worker, 1 in-place pass, 1 chat, 1 client, 1 retry, failing checkpoints | 152,495 |
| `job_queue` | Is the queue a single writer, in order, and does every job end? | 2 jobs, 5 threads, 2 stops | 106,966 |
| `rag_store` | Can a chunk, an item or an answered add get lost, or a call hang? | 2 items, 2 windows each, 3 adds, 2 searches, crashes | 109,752 |
| `codebook` | Do row indices, retrieval and attribution stay true while rows are added and retrained? | 3 memories, 1 worker, 1 answer at a time, 1 query, 2 windows, 7 rows, 1 failing checkpoint, crashes | 554,959 |
| `listing` | Does a list made of three reads miss a memory that was there all along? | 2 memories, 1 rewrite, 1 worker, 1 chat, 1 client, 1 reader, crashes | 1,450,642 |
| `algorithms` | Does each algorithm do what is expected of it, on every small input? | see `algorithms.cfg` | 244,956 |
| `unplugged_edit` | Do edits stack when the module is unplugged? (no) | 2 memories, 1 worker, 1 client | violation |
| `inplace_answer` | Does an answer see one codebook beside an edit in place? (no) | 1 memory, 2 chats | violation |
| `reroute_race` | Is a RAG memory never taught? (no) | 1 memory, 1 client | violation |
| `codebook_collision` | Do edits of one codebook leave each other alone? (no) | as `codebook` | violation |
| `unhashable_type` | Does `_valid_candidate` never raise? (no) | as `algorithms` | violation |

Why the bounds are enough for what is asked: three memories are an old one, the one that
supersedes it and one that is a duplicate of either; two adapters are the live one and the
one being trained, three add the one that an in-place pass still holds; one rewrite tells
the text from the edit built before it; one retry has a first and a last attempt. A worker
runs any number of passes, and a process crashes any number of times. `MaxExtract` bounds
what one message teaches, `MaxPatch` the rewrites, `MaxStops` and the set `Thread` the life
of the queue. In `job_queue` each stop can end two workers, by the flag and by the
sentinel, which is why it has five threads.

In `rag_store` three adds are two of one item (a second re-route) beside one of another, and
one that comes after a restart; two windows make an item that can be half written. In
`codebook` seven rows let each memory be taught after any other, with the placeholder; three
memories give a pair with equal prompts, a pair with near ones and equal labels, and one with
a canonical prompt that repeats its stem; a window is empty or not. `listing` reads once:
readers do not see each other. One answer at a time is what the inference lock allows;
`MaxFailures` bounds the memories that a failing checkpoint concerns. In `algorithms` each
bound reaches past the branch it is for: texts of up to twelve units and windows of one to
four, a pool smaller than the index, four memories for a plan of three candidates and a lane
of two, three candidates in one to three windows, a shortlist of two out of three, all worlds
that a run of rungs can leave behind, three writes of every fate.

`handoff` checks the deployment that the code is written for: background passes only, the
module plugged in. There hold `NoVacuum`, `ConsolidatedAreTaught`, `RetiredBySuccessor`,
`ReadYourWrites` and `AnswerStable`, with every race between a pass and the user's operations
and with crashes anywhere. `contention` drops these assumptions and states what is left:
`AdapterHeldForAnswer` (only an edit in place that had found the Linear there replaces what an
answer decodes with), `NothingForgotten` and `Progress`. The runs that end in a violation show
that each assumption is needed, and that the code does not enforce it: the properties they
refute are quoted from the repository in `PROJECT.json`.

`codebook` states what holds whatever matches what. An edit may retrain the row of another
memory when its native key matches it with an equal label; so `ProvenanceTrue`,
`ProvenanceOnDisk`, `ReadBack` and `AttributionNamesTeacher` say that a row keeps its key and
index, and teaches the answer of its memory *unless* the native key of another taught memory
reaches the row with its label (`MayTrain`, `TeachesFor`). `codebook_collision` shows that the
exception is needed: without it the sentence of `docs/v0.4-memory-impl.md:292`, that
sequential edits do not disturb each other, is false of the code. `AttributionIsOfAnswer` is
about answers over an empty window; for other windows attribution may report a hit that the
answer did not have (`GateIsDecode`, below). Both depend on the scores, of which the instance
has the order that was measured.

`algorithms` has invariants only, most of them conjunctions of named parts in one section of
`Algorithms`. Each part relates an algorithm to something it does not know:
a ranking to its inputs (`RerankIsPermutation`, `SearchReturnsBest`), a budget to a smaller
one (`LowerNeverCosts`), a judge to the same judge without its mistakes
(`StrayIndicesIgnored`), the fallback to the shortlist (`FallbackAgrees`), the probes of the
planner to the keys of the edit (`ProbeHitsKey`), the lane of `/chat` to the attribution of
the answer (`LaneIsAttributed`), a prototype to the server (`PrototypeAgrees`), one rung to
another (`RungsIsolated`, `LossesBlameTheirModule`), a measurement to what the server does
(`PairsTellRegistry`, `ProbeSeesFirstEdit`, `FixtureSuffices`).

`CHECK_DEADLOCK` stays on where a worker can always begin another pass. It is off in
`inplace_answer`, `job_queue`, `rag_store` and the two runs of `Codebook`, where all requests
can have been answered or all memories taught and the system rests, and in the two runs of
`Algorithms`, where each behaviour is one call.

**Fairness** (`FairSpec`). `contention` assumes weak fairness of each pass that has begun,
each chat that has extracted and each client request that was accepted: an operating system
thread runs on when it can. Nothing makes a request arrive, a pass begin or a crash happen.
Weak fairness suffices for the lock because there are finitely many requests in the run, as in
a server between two bursts; Python's `RLock` gives no fairness, and under an endless stream
of answers a promotion could wait for ever. A step that fails is as fair as one that succeeds,
so `Progress` does not rely on luck. `job_queue` assumes the same of worker threads and
accepted submits, and nothing of `stop` and `start`. `rag_store` assumes it of adds that were
called and of searches, of which `CallsEnd` says that they end; no add need be called, no
other save happen. `codebook` and `algorithms` assume none. A call of `submit` does not
overlap one of `stop`: the server stops after its requests, and the tests call them from one
thread.

## Proofs

All checked by TLAPS, for all values of the constants under the named assumptions of the
modules (the sets of threads are disjoint, `None` is not an adapter, and so on).

* `TypeCorrect`: `Spec => []TypeOK`, without further assumptions. The inductive form
  `TypeInv` adds that a frame past the choice of its item or adapter holds one.
* `NoVacuumHolds`, `ConsolidatedAreTaughtHolds`, `RetiredBySuccessorHolds`,
  `AnswerStableHolds`, `ReadYourWritesHolds`, each assuming `SingleWriter`: no in-place
  pass, at most one worker, no unplugging, checkpoints that succeed. `unplugged_edit`
  and `inplace_answer` drop one conjunct each, and the code enforces neither.

  None of the properties is inductive. `NoVacuum` says nothing about what a pass will do
  next, what a file will bring back or what an object says that is in no table at the
  moment, and a late `upsert` may put such an object back. `IInv` therefore says:
  - `HostInv`: slot, recorded adapter and checkpoint agree, and no row is half trained;
  - `StoreInv`: every object, in memory or in the file, tells the truth (`ObjectSound`):
    consolidated means taught, retired means taught together with its successor, a
    duplicate's other memory is taught;
  - `AliveInv`: whatever a table or file names was born, so `Extract` never reuses it;
  - `LearnedInv`: only a drained duplicate or a touched memory leaves the table;
  - `PassInv`: what a pass has promised: its registry and the olds it will retire are
    taught, the adapter it will promote contains everything recorded and its own item;
  - `ClientInv`: only the user's request discards or re-routes;
  - `ChatInv`: an answer holds the lock, its view is current, and each memory it buffered
    is in its prompt or in the codebook.

  The argument: while somebody holds the lock nothing changes the model (`HostEffect`);
  recorded rows only grow, since the single worker's copy was taken from what is recorded
  and nobody else wrote since; each object moves only between sound states (`HeapMove`,
  `StoreEffect`). So the proof has, per group of actions, one lemma for the store, one for
  the host, and one per part of the invariant.
* `LockIsTheSession`, `AdapterHeldForAnswerHolds`, `NothingForgottenHolds` and
  `NoneMissingHolds` (`ContentionProofs`) hold with any number of workers and in-place passes,
  toggles, failing checkpoints and restarts; none assumes `SingleWriter`.
  - `SlotInv`: the lock is held by exactly the request that plans or decodes. Whoever changes
    the slot finds the lock free or is an edit in place that sets what it built
    (`SlotEffect`), so beside a decode it is the latter (`SlotMoves`).
  - `KeepInv`: `NothingForgotten` says nothing about what a restart reads back or a pass puts
    back late. `BornInv` adds that whatever memory, the file, `learned` or the frame of a
    pass, chat or request names was born, so no step makes a new object of it. Then born,
    `duplicateOf` that is set, `learned` and `touched` only grow (`HeapGrows`,
    `HistoryGrows`), and an item leaves the table only when the user touched it or
    `duplicateOf` is set (`TableGrows`): that of a memory once learned stays true.
  - `ListInv`: nothing leads back into the buffer, from the buffer a memory goes to the
    weights, to RAG or out of the lists, and RAG only grows (`Forward`, shown of every
    operation of `Serve`). So what had to be shown all along and was not found by the
    reads that are over is still ahead of the next one (`ReaderSound`).
* `NoOrphanHolds`, `OneJobAtATime`: the only live worker thread is `_worker`, hence two
  threads are never inside a job. Inductive once the types are known.
* `EditorTypeCorrect`, `StatusIsTrueHolds`: the job table agrees with queue and threads. The
  table says nothing of where a job is, so `PlaceInv` does: a job is in the queue at most
  once (`OnceInQueue`), a job that is somewhere has the status of that place
  (`PlacesHaveStatus`), and a status has its place (`StatusHasPlace`); `NoOrphan` makes the
  running job the one of a live worker.
* `ImplementsSerialJobsHolds` (`AsyncEditorProofs`): `Spec => Serial!Spec`, by `EditorInv` and
  the mapping that reads the abstract queue off the concrete one: the jobs in it, each at the
  rank of its place among the jobs (`JobPlaces`, `Rank`), so sentinels do not count.
  `JobsInAppend` and `JobsInTail` say what a `put` and a `get` do to that reading: a job is
  appended or is the head, a sentinel changes nothing.
* `RagTypeCorrect`, `FileParentsKnownHolds`, `AckedDurableHolds`, `WholeItemsHolds`,
  `NoCandidateLostHolds`, `OnlyCrashTearsHolds`, for any number of items, windows, adds,
  searches, failures and crashes, and without further assumptions. The properties speak of
  free moments and of files; `RagInv` adds what holds inside the critical section: who holds
  the lock is exactly the add between `EnterLock` and its end (`LockInv`, `FrameInv`), half
  way through its loop its item has one more of the windows already appended and all other
  items are whole (`WholeInv`), and chunks belong to an item of record or to the item of
  that add, which is registered, in memory and in the file, before the chunk file is written
  (`ParentInv`). So a chunk file is only ever written when its items are on disk, and a
  search, which copies under the lock, sees registered items only.
* `TypeSafe`, `DecodeIsClean`, `ProvenanceStaysTrue`, `CheckpointIsTrue`, `ReadsBack` and
  `AttributionIsTrue` of `Codebook`, for any memories, prompts, labels, scores, windows, numbers
  of rows, chats, failed checkpoints and restarts. Of the scores they assume
  `SimilarityAssumption` only: a key is nearer to itself than any other, and beyond the
  threshold. Scores between keys of different forms, labels, near texts, ties and the span of a
  copy are arbitrary.

  `ProvenanceTrue` alone is not inductive: it speaks of the live rows and of what is recorded,
  while an edit happens in a copy and is recorded after its promotion. `Inv` adds
  - `Records`: the same of the copy in hand and of the checkpoint, and where the edit that is
    being committed left its rows;
  - `Lessons`: every chat row was left by a memory that was taught (or is in the worker's
    hand) under one of its prompts, and teaches its answer or that of a taught memory whose
    native key reaches it;
  - `Attributions`: what an answer's frame was attributed to;
  - `Sessions`: who holds the lock, and the mode, span and window it relies on.

  The argument: an edit changes the value of one row and the key and label of none; that row
  has its native key, or matches it with an equal label (`AddKeyRows`), which `MayTrain` says
  of the row for good since keys and labels do not change; everything else goes behind the
  rows that exist (`AppendChatKeysRows`, `EditedRows`). So a row teaches what it was left
  with, or what a later memory that may train it taught (`TeachesAfter`), and the record of it
  stays true (`KeptByEdit`, `RecordOfEdit`). For `ReadBack`, the memory has a row with this
  very key, so the best row has it too (`NearestRow`), and `Lessons` says who left it.

* `AttributionIsOfAnswerHolds` assumes `NoTies`: no query, in an empty window, is equally near,
  beyond the threshold, to two different keys. With a tie `torch.max` may pick one row for the
  answer and the other for the attribution after it, and the property is false. It also
  assumes that `None` is no row (`RowAssumption`). The frame of an answer keeps the row it
  read; the lock keeps rows, mode and span until the attribution asks again. Nothing is
  claimed of a decode over another window.
* `WindowsCoverHolds`, `SearchSoundHolds`, `BudgetFairHolds`, `ExtractionSoundHolds`,
  `VerdictSoundHolds`, `KeysMeetProbesHolds`, `LaneSoundHolds`, `PrototypesCarryOverHolds`,
  `FileIsWholeHolds`, `DatasetIsSoundHolds`, `TablesMeasureHolds` (`AlgorithmProofs`, and
  `KeyPromptProofs` for the keys). Their lemmas hold for texts of any length with windows of
  any size, segments of any length and cost, chunks, registries, answers and documents of any
  size, and any number of writes, more than the invariants of `Algorithms` ask. The induction
  theorems of the library take an operator, which the prover cannot instantiate, but a set of
  numbers that is not empty has a least one (`LeastNumber`): the least number at which a
  recursive function would go wrong is 0 or has a predecessor at which it was right.
  `RecursionExists` shows in the same way that such a function exists at all, which its
  definition by `CHOOSE` needs.
  - Windows: `SteppingCovers` and `SteppingAdvances` are about any sequence of windows each of
    which starts a step after the one before (`Stepping`); `OverlappingWindowsStep` shows that
    the loop makes one.
  - Ranks: a sorted sequence is read off ranks. Under a total order of finitely many
    positions each has another number of predecessors (`RanksOnce`), so a list of them that
    ascends is the only one (`ListsOnce`); stable sorting by score is such an order
    (`BetterOrders`), and so are the positions that a filter keeps (`PickedIs`).
  - Retrieval: the candidates are the first chunks of their items within the best `TopN`
    (`CandidatesAre`). The first chunk of an item in the order of the scores has its best
    score (`BestScoreIs`), so what is found is best first (`CandidatesFound`); an item whose
    first chunk lies behind the pool has the whole pool before it (`CandidatesMissed`).
    `RerankIs` shows that `_rerank` permutes: the valid indices once each and the others are
    together as many as there are, and miss none. `SearchSound` speaks of the last call only,
    so what it needs of the state is the shape of that call (`Asked`).
  - Prompt: `GreedyIs` says that the loop stops at the first entry that does not fit,
    `FitPrefixIs` how far it is then evicted; from both follow what a segment shows
    (`PrefixIsLongest`) and what it takes (`PrefixTakes`, `HistoryTakes`, where `ReverseCosts`
    adds up the history from its end). `BudgetServes` adds up the five segments: each overruns
    what was left for it by a marker at most, and only when it shows nothing else.
    `LowerDoesNotCost` compares the segments before a given one with the prompt without the
    later ones. The shape of the last call is `Prompted`.
  - Extraction: `MergeStep` carries along the loop what its dict is about: one entry for each
    text, in the order of first mention, with the first of its best mentions so far
    (`MergeIs`, from `FirstMention`, `NewIsBest` and `OldIsBest`); of its content the theorem
    speaks where the confidences are numbers. What the windows say is one list of mentions
    (`SaidIs`), what `_valid_candidate` keeps of it a sub-list (`KeptIs`). The markers for a
    NaN and for no confidence are no numbers (`MarkerAssumption`); a NaN is below nothing and
    above nothing (`LessThanMin`), so the one that came first stays. The shape of the last
    call is `Extracted`.
  - Dedup: the shortlist is the beginning of the near memories by similarity and position
    (`ShortlistIs`), whose first is the nearest (`NearestIs`); whoever is nearer than its
    entry r has a lower position (`FewerNearer`). `ValidIs` and `ValidOfClean` say what is
    left of the judge's indices, `ProbeIs` what a probe with one memory answers.
  - Key prompts: the loop of `Without` skips whole matches, so it takes the first match out if
    there is one (`FoundAt`, `WithoutIs`), and cleaning only ever drops words (`CleanIs`). A
    text that has the first word of the answer once, and no hyphen, is free of the answer after
    one cleaning, one that has it once, or twice without a hyphen, after two (`FreeAfterTwo`).
    Such are the stem, the text and the keywords, which have every word once (`KeywordIs`), so
    only a provided prompt can name the answer (`KeysAreFree`). The first text that is not blank
    is a key (`FirstPrompt`) and one of the first two probes (`SecondPrompt`), whether it was
    provided, is the stem or the text, or is the subject, of which the keywords then consist
    (`ProbesMeet`). The keywords of the planner come last and add no word to the other probes
    (`OneMoreAddsNothing`), so their order cannot change the score. It assumes room for two keys
    and two keywords (`KeysAssumption`: the code has 6 and 8), and that no stopword is in the
    subjects of the calls (`WordsAssumption`). The shape of the last call is `Worded`.
  - Planner: the memories that share a word, ranked by score, time and id, are a total order
    (`RankingOrders`), so the candidates are its beginning (`CandidatesRank`). `PlanLoopIs` says
    what the loop has after each candidate; with `OwnerIs` and `BestProbeIs` (the first of the
    best probes) that is the lane of the property (`PlanIsRight`, `TakenVouches`), and what
    `/chat` shows beside it leads back to its memory (`TakenAttributed`). It assumes that
    thresholds are numbers (`PlanAssumption`). The shape of the last call is `Requested`.
  - Prototypes: unless a gate fails, the lane is the beginning of the candidates that pass
    (`LaneIsTaken`, from `PlanLoopIs` and `ListBegins`: an ascending list without a gap is a
    beginning). So a fixture all of whose probes hit fills the lane (`FixtureFills`), and from
    one plan the lane is the first of the memories that lead to themselves, while
    `_resolve_by_gate` takes whatever is led to (`GatesAgree`). What is recalled with notes is
    a superset of what is recalled without, so more of it means another memory (`MoreOf`,
    `GateDoesGain`). Two labels share three votes, and the majority is the first of the most
    frequent (`VotesShared`, `MajorityTells`). For the mailbox, `Trained` is invariant along a
    schedule, and a published job waits in the mailbox or is in the slot and in whatever may
    take its place (`Waits`, `Stays`, `PublishedStays`); `BeginningLeads` says that a
    beginning of a schedule leads to the states of the whole. It assumes that `max_memories`
    is a number (`MemoriesAssumption`). The shapes of the last call are `Fixed`, `Prototyped`,
    `Judged` and `Posted`.
  - Files: `WriteLeaves` is what one write leaves by its fate, on a disk without a temporary
    file of its name; `AfterWrites` says what the disk is after k writes, in which every
    temporary file has the name of an earlier write.
  - Dataset: a filter keeps a sub-list, and a sub-list of a sub-list is one (`SubOf`,
    `PickedAgain`), so the facts taught are the first of the backbone (`TaughtIs`). The last
    fact of the document is taught only when all are (`UnrelatedIs`). `TaughtFacts` is a
    number (`TaughtAssumption`). The shape of the last call is `Documented`.
  - Evaluation: after `clean_all` nothing of the world is left (`CleanAllIs`), hence no rung
    remembers (`RungsForget`); `RightIs` counts the answers of a rung that can draw on their
    fact, for a finite set of facts (`FactAssumption`), and `LossesAre` compares those counts
    (`BottleneckIs`). The shape of the last call is `Measured`.

Model-checked only:

* `Progress`, `JobsFinish`, `CallsEnd`: liveness is out of the prover's reach.

## What the code does at the edges

The properties of `algorithms` and `codebook` are stated with the exceptions that the code
makes. Where a text of the repository denies one, a violation run is named:

* `_fit_prefix` is greedy within a segment: a large buffered item can be left out while
  smaller things of lower priority stay (`LowerNeverCosts` is about what a segment costs
  those before it). The server passes no `token_budget`.
* A `type` that cannot be hashed fails the whole extraction (`unhashable_type`), a NaN
  confidence passes the gate and stays unbeaten (`HighestConfidence`, below);
  `ExtractionSound` speaks of the other answers. A stem or target of blanks makes an edit for `extract` and none for
  `decompose`.
* A key prompt loses the answer by repeated removal, a probe by one: a text that nests the
  answer, or an answer with hyphens, can leave a key that names it or a probe that no key
  matches.
* `search` ranks chunks before items: a long document can fill the pool.
* The plan counts a similarity equal to the threshold as a hit, the adapter and the
  attribution do not.
* A native key pooled with a left-over span may match and retrain a chat row of another memory
  (`codebook_collision`).
* An edit that is superseded by one with the same prompt leaves a key that is equal to the
  new one; which of the two rows answers is up to `argmax` (`ReadBack` allows both).
* After a checkpoint that failed and a restart, the row indices in the provenance of the
  lost memories may be taken by later rows; attribution may then name the lost memory
  (`lost` in `Codebook`).
* A shadow copied while an answer's probe has the adapter switched off cannot be trained;
  the attempt fails and is repeated. One copied after an answer inherits its query span, and
  its native key is pooled from the end of the prompt.
* `clean_all` of the harness leaves `_S["adapter"]` recorded; the slot, which is what answers
  see, is clean. `bottleneck` names `query_split` when nothing is lost. `score_B` counts a
  term that normalises to nothing as found. The question for locality is one about a taught
  fact if the whole backbone is taught.
* Spike v21 looks at the
  first item of a run only; spike v27 also takes a memory that was not planned, when its
  row was hit, and compares the model without notes with the oracle planner only.

## Not modelled

* Similarity, decoding and training as numbers; the wording of prompts; tokenisers. Where
  a property depends on one of them it is a table, a cost or a choice.
* The adapter's training flags and the row indices of the in-place backend; saves of
  `memory_store.json` that fail beside requests (`RagStore` and `Files` have failing saves).
* Writes are cut off by the death of the process, not of the machine: `atomic_write_json`
  does not call `fsync`.
* `serving/store.py` and most of `triggers.py`: stubs that raise.
* `memory/llm.py`, `memory/embed.py`: calls of services; their answers are inputs.
* `frontend/`: its requests are the clients of `Serving`; rendering and button locks are not
  modelled.
* In `eval/`: tokens, seconds, free-generation recall, the report. In `spikes/`: all that
  runs the real model on a GPU and records numbers; four prototypes are modelled, those
  whose logic the server took over. The vendored research code of `third_party/horen`
  beyond `HopfieldAdapter` and the editor.
* `ReadYourWrites` ends at the prompt: `Prompt` says what fits, and the server sets no budget.

## Plan

1. Done: the core (`Store`, `ModelHost`, `Consolidate`, `Serving`), the job queue, the RAG
   store, the codebook with attribution, the pure algorithms, and the proofs above.
2. A property about rewrites that race a pass (`text` against `edit`), and saves of
   `memory_store.json` that raise, in `Serving`.
3. The training flags of the adapter, and `Codebook` with an in-place writer beside the
   worker.

## Disagreements without a run

TLC also refutes these, each stated in its module beside the checked properties. No run keeps
them: their causes are those of a run that is there, or they are narrower. To see one, make it
the only `INVARIANT` or `PROPERTY` of the instance that is named.

* `ConsolidatedAreTaught` with both kinds of writer (`async_editor.py:1`: "Single-writer
  background consolidation queue"; `online_editing_design.md:81-84` asks for one writer). A
  synchronous `POST /consolidate` (`app.py:175`) trains the live adapter while the worker
  trains a copy made before; the promotion drops the rows of the first, whose memories stay
  listed as consolidated, and no later pass takes them up. It has the cause of
  `inplace_answer` too. Instance: `handoff.cfg` with a thread in `InPlace`, a third adapter and
  neither client operations nor crashes.
* `SwapAtBoundary` (`docs/online_updating/online_editing_design.md:59-60`: no swap between two
  tokens of one generate). `HOREN.__init__` looks at the slot (`editor.py:42-44`) and sets the
  attribute later (45-49), outside the lock; a promotion and the start of an answer may come in
  between, and the adapter is then replaced under the decode. It is the exception that
  `AdapterHeldForAnswer` makes, and has the cause of `inplace_answer`: edits in place take no
  inference session. Instance: `contention.cfg`.
* `GateIsDecode` (`keying.py:141-144`: the gate's score is "the SAME value compared to the 0.85
  threshold at inference"). The decode pools its key from the prompt with buffer, RAG hits and
  private lane (`generate.py:74-86`), the gate from one with an empty window
  (`keying.py:28-32`): attribution may report a hit on a row that the answer did not use.
  Instance: `codebook.cfg`.
* `HighestConfidence` (`extract.py:272`: "keeping the highest-confidence occurrence").
  `json.loads` accepts NaN, which is not below `CONF_MIN` (198), and nothing is greater than
  it (283). Instance: `algorithms.cfg`.
* `DuplicateOfLive` (`dedup.py:68`: a duplicate is the "same fact already in weights"). The
  registry of a pass only grows (`consolidate.py:220`), so a memory retired earlier in the pass
  absorbs a later duplicate. Instance: `handoff.cfg`.
* `ServedAfterStop` (`tests/test_async_editor.py:40-62`: a job submitted after `stop()` ends).
  A `stop()` that times out, or that meets a worker about to end, leaves its sentinel or its
  flag behind (`async_editor.py:95`). Instance: `job_queue.cfg`.
