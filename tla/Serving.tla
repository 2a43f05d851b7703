---- MODULE Serving ----
(* Engram at work: chat requests and the user's memory operations of          *)
(* serving/app.py and serving/ingest.py against the passes of Consolidate.    *)
(* FastAPI runs every synchronous handler in a thread of its own, so a        *)
(* handler interleaves with all others at each access to shared state.       *)
EXTENDS Consolidate, FiniteSets

CONSTANTS
    Chat,         \* one POST /chat request each
    Client,       \* one /memories/{id}/... or /edit-module request each
    Operations,   \* what the clients ask for: "drop", "route", "patch",
                  \* "plug", "unplug"
    MaxExtract,   \* bound: memories extracted from one message
    Crashes       \* may the process die and be started again?

ASSUME ThreadAssumption ==
    /\ NoThread \notin Chat
    /\ Chat \intersect (Pass \union Client) = {}
    /\ Client \intersect Pass = {}
ASSUME CrashesAssumption == Crashes \in BOOLEAN
ASSUME MaxExtractAssumption == MaxExtract \in Nat

VARIABLES
    chat,         \* the frame of each chat request
    client,       \* the frame of each client request
    learned,      \* history: memories that were put in the buffer
    touched       \* history: memories the user asked to discard or re-route

vars == <<storeVars, hostVars, pass, chat, client, learned, touched>>

ChatFrame ==
    [at   : {"start", "ingest", "preview", "index", "wait", "plan", "decode", "done"},
     todo : SUBSET Item,               \* extracted, not yet routed
     cur  : Item \union {NoItem},
     mine : SUBSET Item,               \* buffered by this request
     seen : SUBSET Item,               \* buffer items in the prompt
     view : [slot : Adapter \union {NoAdapter}, rows : SUBSET Row]]

ClientFrame ==
    [at  : {"start", "drop", "drop2", "route", "route2", "reroute", "index",
            "decompose", "done"},
     cur : Item \union {NoItem}]

NewChat == [at |-> "start", todo |-> {}, cur |-> NoItem, mine |-> {},
            seen |-> {}, view |-> [slot |-> NoAdapter, rows |-> {}]]
ChatDone == [NewChat EXCEPT !.at = "done"]
ClientDone == [at |-> "done", cur |-> NoItem]

Init ==
    /\ StoreInit
    /\ HostInit
    /\ PassInit
    /\ chat = [c \in Chat |-> NewChat]
    /\ client = [u \in Client |-> [at |-> "start", cur |-> NoItem]]
    /\ learned = {}
    /\ touched = {}

ChatBecomes(c, frame) == chat' = [chat EXCEPT ![c] = frame]
ClientBecomes(u, frame) == client' = [client EXCEPT ![u] = frame]

View == [slot |-> slot, rows |-> Rows(slot)]

----
\* POST /chat: ingest, then answer inside an inference session.

\* extract.extract: the objects exist, nobody else knows them yet.
Extract(c) ==
    /\ chat[c].at = "start"
    /\ \E new \in SUBSET {i \in Item : heap[i].status = "none"},
          edits \in SUBSET Item :
          /\ Cardinality(new) <= MaxExtract
          /\ edits \subseteq new
          /\ heap' = [i \in Item |-> IF i \in new
                THEN [Unborn EXCEPT !.status = "buffer",
                                    !.route = IF i \in edits THEN "edit" ELSE "rag"]
                ELSE heap[i]]
          /\ ChatBecomes(c, [chat[c] EXCEPT !.at = "ingest", !.todo = new])
    /\ UNCHANGED <<memories, rag, storeFile, hostVars, pass, client, learned, touched>>

\* Every edit-route item is buffered ...
Append(c, i) ==
    /\ chat[c].at = "ingest"
    /\ i \in chat[c].todo
    /\ heap[i].route = "edit"
    /\ Upsert(i, heap)
    /\ learned' = learned \union {i}
    /\ ChatBecomes(c, [chat[c] EXCEPT !.at = "preview", !.cur = i,
                                      !.todo = @ \ {i},
                                      !.mine = @ \union {i}])
    /\ UNCHANGED <<heap, rag, hostVars, pass, client, touched>>

\* ... and upserted again with the verdict of a preview that calls a language
\* model; when the preview raises, it is not.
Annotate(c) ==
    /\ chat[c].at = "preview"
    /\ \/ Upsert(chat[c].cur, heap)
       \/ UNCHANGED <<memories, storeFile>>
    /\ ChatBecomes(c, [chat[c] EXCEPT !.at = "ingest", !.cur = NoItem])
    /\ UNCHANGED <<heap, rag, hostVars, pass, client, learned, touched>>

\* rag_store.add pins the status before it embeds.
PinReference(c, i) ==
    /\ chat[c].at = "ingest"
    /\ i \in chat[c].todo
    /\ heap[i].route = "rag"
    /\ heap' = [heap EXCEPT ![i].status = "consolidated"]
    /\ ChatBecomes(c, [chat[c] EXCEPT !.at = "index", !.cur = i,
                                      !.todo = @ \ {i}])
    /\ UNCHANGED <<memories, rag, storeFile, hostVars, pass, client, learned, touched>>

IndexReference(c) ==
    /\ chat[c].at = "index"
    /\ RagAdd(chat[c].cur)
    /\ ChatBecomes(c, [chat[c] EXCEPT !.at = "ingest", !.cur = NoItem])
    /\ UNCHANGED <<heap, memories, hostVars, pass, client, learned, touched>>

\* An embedding that raises, for rag_store.add or for the search that precedes
\* the answer, ends the request with an error.
EmbeddingFails(c) ==
    /\ \/ chat[c].at = "index"
       \/ chat[c].at = "ingest" /\ chat[c].todo = {}
    /\ ChatBecomes(c, ChatDone)
    /\ UNCHANGED <<storeVars, hostVars, pass, client, learned, touched>>

StartSession(c) ==
    /\ chat[c].at = "ingest"
    /\ chat[c].todo = {}
    /\ EnterSession(c)
    /\ ChatBecomes(c, [chat[c] EXCEPT !.at = "plan"])
    /\ UNCHANGED <<storeVars, pass, client, learned, touched>>

\* The buffer is read for the prompt, then the model decodes in its slot.
Prompt(c) ==
    /\ chat[c].at = "plan"
    /\ ChatBecomes(c, [chat[c] EXCEPT !.at = "decode",
                                      !.seen = LoadUnconsolidated,
                                      !.view = View])
    /\ UNCHANGED <<storeVars, hostVars, pass, client, learned, touched>>

Reply(c) ==
    /\ chat[c].at = "decode"
    /\ LeaveSession(c)
    /\ ChatBecomes(c, ChatDone)
    /\ UNCHANGED <<storeVars, pass, client, learned, touched>>

ChatStep(c) ==
    \/ \E i \in Item : Append(c, i)
    \/ Annotate(c)
    \/ \E i \in Item : PinReference(c, i)
    \/ IndexReference(c)
    \/ EmbeddingFails(c)
    \/ StartSession(c)
    \/ Prompt(c)
    \/ Reply(c)

----
\* The user's operations.  Each handler first reads the item and its status
\* (404 otherwise); buffer.drop reads the status again before it deletes.

Ask(u, i, operation, at) ==
    /\ operation \in Operations
    /\ client[u].at = "start"
    /\ InBuffer(i)
    /\ ClientBecomes(u, [at |-> at, cur |-> i])

AskDrop(u, i) ==
    /\ Ask(u, i, "drop", "drop")
    /\ touched' = touched \union {i}
    /\ UNCHANGED <<storeVars, hostVars, pass, chat, learned>>

AskRoute(u, i) ==
    /\ Ask(u, i, "route", "route")
    /\ touched' = touched \union {i}
    /\ UNCHANGED <<storeVars, hostVars, pass, chat, learned>>

\* patch_memory assigns the text at once and decomposes it afterwards.
AskPatch(u, i) ==
    /\ Ask(u, i, "patch", "decompose")
    /\ heap[i].text < MaxPatch
    /\ heap' = [heap EXCEPT ![i].text = @ + 1]
    /\ UNCHANGED <<memories, rag, storeFile, hostVars, pass, chat, learned, touched>>

\* What the handler does after buffer.drop.
AfterDrop(u) ==
    IF client[u].at \in {"drop", "drop2"} THEN ClientDone
                                          ELSE [client[u] EXCEPT !.at = "reroute"]

BufferDropCheck(u) ==
    /\ client[u].at \in {"drop", "route"}
    /\ \/ /\ InBuffer(client[u].cur)
          /\ ClientBecomes(u, [client[u] EXCEPT
                !.at = IF @ = "drop" THEN "drop2" ELSE "route2"])
       \/ /\ ~InBuffer(client[u].cur)
          /\ ClientBecomes(u, AfterDrop(u))
    /\ UNCHANGED <<storeVars, hostVars, pass, chat, learned, touched>>

BufferDropDelete(u) ==
    /\ client[u].at \in {"drop2", "route2"}
    /\ Delete(client[u].cur)
    /\ ClientBecomes(u, AfterDrop(u))
    /\ UNCHANGED <<heap, rag, hostVars, pass, chat, learned, touched>>

\* route_memory after the drop: the route, and the status rag_store.add pins.
Reroute(u) ==
    /\ client[u].at = "reroute"
    /\ heap' = [heap EXCEPT ![client[u].cur].route = "rag",
                            ![client[u].cur].status = "consolidated"]
    /\ ClientBecomes(u, [client[u] EXCEPT !.at = "index"])
    /\ UNCHANGED <<memories, rag, storeFile, hostVars, pass, chat, learned, touched>>

\* The embedding may fail: the memory is then in no layer.
IndexRerouted(u) ==
    /\ client[u].at = "index"
    /\ \/ RagAdd(client[u].cur)
       \/ UNCHANGED <<rag, storeFile>>
    /\ ClientBecomes(u, ClientDone)
    /\ UNCHANGED <<heap, memories, hostVars, pass, chat, learned, touched>>

\* decompose may come back with nothing: the old decomposition stays.
PatchUpsert(u) ==
    /\ client[u].at = "decompose"
    /\ LET i == client[u].cur
       IN  /\ \/ heap' = [heap EXCEPT ![i].edit = heap[i].text]
              \/ UNCHANGED heap
           /\ Upsert(i, heap')
    /\ ClientBecomes(u, ClientDone)
    /\ UNCHANGED <<rag, hostVars, pass, chat, learned, touched>>

\* POST /edit-module, both ways inside an inference session.
Plug(u) ==
    /\ "plug" \in Operations
    /\ client[u].at = "start"
    /\ lock = NoThread
    /\ recorded # NoAdapter
    /\ SwapEditModule(recorded)
    /\ ClientBecomes(u, ClientDone)
    /\ UNCHANGED <<storeVars, recorded, codebook, lock, codebookFile, pass, chat,
                   learned, touched>>

\* Mutant: the toggle does not take the inference lock.
UnplugUnlocked(u) ==
    /\ "unplug" \in Operations
    /\ client[u].at = "start"
    /\ SwapEditModule(NoAdapter)
    /\ ClientBecomes(u, ClientDone)
    /\ UNCHANGED <<storeVars, recorded, codebook, lock, codebookFile, pass, chat,
                   learned, touched>>

Unplug(u) ==
    /\ "unplug" \in Operations
    /\ client[u].at = "start"
    /\ lock = NoThread
    /\ SwapEditModule(NoAdapter)
    /\ ClientBecomes(u, ClientDone)
    /\ UNCHANGED <<storeVars, recorded, codebook, lock, codebookFile, pass, chat,
                   learned, touched>>

ClientStep(u) ==
    \/ BufferDropCheck(u)
    \/ BufferDropDelete(u)
    \/ Reroute(u)
    \/ IndexRerouted(u)
    \/ PatchUpsert(u)

ClientAsks(u) ==
    \/ \E i \in Item : AskDrop(u, i)
    \/ \E i \in Item : AskRoute(u, i)
    \/ \E i \in Item : AskPatch(u, i)
    \/ Plug(u)
    \/ Unplug(u)

----

\* The process dies between any two steps and lifespan starts it again from the
\* two files.  Requests in flight get no answer; queued jobs are gone.
Restart ==
    /\ Crashes
    /\ LoadStore
    /\ LoadCodebook
    /\ pass' = [p \in Pass |-> Idle(IF p \in Worker \/ At(p, "idle")
                                    THEN "idle" ELSE "done")]
    /\ chat' = [c \in Chat |-> IF chat[c].at = "start" THEN chat[c] ELSE ChatDone]
    /\ client' = [u \in Client |->
                    IF client[u].at = "start" THEN client[u] ELSE ClientDone]
    /\ UNCHANGED <<learned, touched>>

PassBegins(p) == BeginPass(p) /\ UNCHANGED <<chat, client, learned, touched>>
PassRuns(p) == PassStep(p) /\ UNCHANGED <<chat, client, learned, touched>>

Serve ==
    \/ \E p \in Pass : PassBegins(p)
    \/ \E p \in Pass : PassRuns(p)
    \/ \E c \in Chat : Extract(c)
    \/ \E c \in Chat : ChatStep(c)
    \/ \E u \in Client : ClientAsks(u)
    \/ \E u \in Client : ClientStep(u)

Next == Serve \/ Restart

Spec == Init /\ [][Next]_vars

\* A thread that started runs on; requests and jobs come when they like.
Fairness ==
    /\ \A p \in Pass : WF_vars(PassRuns(p))
    /\ \A c \in Chat : WF_vars(ChatStep(c))
    /\ \A u \in Client : WF_vars(ClientStep(u))

FairSpec == Spec /\ Fairness

----
\* Properties

\* Every variable has its type, and memory_store.json holds exactly the ids
\* that are in memory: each handler that changes the key set saves it.
TypeOK ==
    /\ heap \in [Item -> MemoryItem]
    /\ memories \subseteq Item
    /\ rag \subseteq Item
    /\ storeFile.memories \in [memories -> MemoryItem]
    /\ storeFile = [memories |-> storeFile.memories, rag |-> rag]
    /\ slot \in Adapter \union {NoAdapter}
    /\ recorded \in Adapter \union {NoAdapter}
    /\ codebook \in [Adapter -> SUBSET Row]
    /\ lock \in Chat \union {NoThread}
    /\ codebookFile \in SUBSET Row
    /\ pass \in [Pass -> PassFrame]
    /\ chat \in [Chat -> ChatFrame]
    /\ client \in [Client -> ClientFrame]
    /\ learned \subseteq Item
    /\ touched \subseteq Item

Taught(i, rows) == \E r \in rows : r.item = i /\ r.trained

\* A memory that was drained as a duplicate is answered for by the other one.
TaughtFor(i, rows) ==
    \/ Taught(i, rows)
    \/ heap[i].duplicateOf # NoItem /\ Taught(heap[i].duplicateOf, rows)

\* No vacuum: a memory the user once stated, and did not discard or re-route,
\* is at every instant in the buffer or in the recorded codebook.  It is what
\* the order of consolidate._process_item is for (promote, then retire, then
\* flip the status), across failed edits, concurrent handlers and restarts.
NoVacuum ==
    \A i \in learned \ touched : InBuffer(i) \/ TaughtFor(i, Rows(recorded))

\* What GET /memories lists as consolidated is in the weights that are served,
\* also when a discard or a re-route raced the pass and after a restart.
ConsolidatedAreTaught ==
    \A i \in ConsolidatedEdits : Taught(i, Rows(recorded))

\* A retired memory is retired for a successor that is itself in the weights:
\* an edit that fails retires nothing (consolidate.py, "edit FIRST").
RetiredBySuccessor ==
    \A i \in memories : heap[i].status = "retired" =>
        Taught(heap[i].supersededBy, Rows(recorded))

\* Write-then-read: while /chat decodes, what this very request taught is in
\* the prompt it built or in the codebook it decodes with, although the
\* background pass may move it from one to the other in between.
ReadYourWrites ==
    \A c \in Chat : chat[c].at = "decode" =>
        \A i \in chat[c].mine \ touched :
            i \in chat[c].seen \/ TaughtFor(i, chat[c].view.rows)

\* One answer is decoded with one adapter and one state of its codebook.
AnswerStable == \A c \in Chat : chat[c].at = "decode" => chat[c].view = View

\* docs/online_updating/online_editing_design.md:59, a swap never comes in the
\* middle of a generate: the adapter that an answer started with stays in the slot.
SwapAtBoundary ==
    \A c \in Chat : chat[c].at = "decode" =>
        chat[c].view.slot \in {slot, NoAdapter}

\* The weaker promise that survives edits in place: while an answer decodes,
\* nobody promotes, plugs, unplugs or restores an adapter, and what changes the
\* slot under it is an edit in place that found the original Linear there.
AdapterHeldForAnswer ==
    [][\A c \in Chat :
          chat[c].at = "decode" /\ chat'[c].at = "decode" /\ slot' # slot =>
              \E p \in InPlace : At(p, "install") /\ pass'[p].at = "train"]_vars

\* With both kinds of writer, toggles and failures: a memory the user did not
\* touch never leaves the store but as a duplicate of another.
NothingForgotten ==
    \A i \in learned \ touched : i \in memories \/ heap[i].duplicateOf # NoItem

\* Every pass that began ends and every chat request is answered: bounded
\* retries, and no cycle of threads that wait for the inference lock.
Progress ==
    /\ \A p \in Pass : At(p, "registry") ~> pass[p].at \in {"idle", "done"}
    /\ \A c \in Chat : chat[c].at = "ingest" ~> chat[c].at = "done"

\* dedup.classify: "duplicate -> same fact already in weights (skip)".  The
\* memory a duplicate is drained for is a live one, not one that was retired.
DuplicateOfLive ==
    [][\A i \in Item : heap'[i].duplicateOf # heap[i].duplicateOf
          => heap[heap'[i].duplicateOf].status = "consolidated"]_vars

\* INV-4 and INV-8: a memory in RAG is never also taught to the weights.
NoDoubleExistence == \A i \in rag : ~Taught(i, Rows(recorded))

====
