---- MODULE Codebook ----
(* The codebook as HoReN and the server see it: a sequence of rows, each a    *)
(* retrieval key, a value and a label.  One worker copies the live adapter,   *)
(* trains the copy and promotes it; answers read keys off the live adapter    *)
(* inside an inference session; provenance names rows by index.  Which        *)
(* memories are processed when, and what becomes of the buffer, is in Serving. *)
EXTENDS Naturals, Sequences, FiniteSets, Sequencing

CONSTANTS
    Memory,        \* edit-route memories
    Chat,          \* request threads, one answer after the other
    Query,         \* messages that are asked
    Context,       \* what else a prompt may hold: buffer, RAG hits, private lane
    None,
    Stem,          \* stem of a memory's edit
    KeyPrompts,    \* its canonical key prompts; none is blank
    Lowered,       \* lower-case form of a text
    Target,        \* answer of a memory's edit
    Label,         \* what label_match compares: the mean of a label tensor
    Similarity,    \* score of one key against another
    Threshold,     \* hopfield_key_match_threshold
    MaxRows,       \* bound: no edit begins that would exceed it
    MaxFailures    \* bound: memories that a failing checkpoint concerns

ASSUME NoneAssumption ==
    /\ None \notin Memory \union Chat \union Nat
    /\ None \notin Context \union (Query \X (Context \union {None}))
    /\ None \notin [native : Nat, chat : Nat, canonical : Seq(Nat)]
ASSUME TextAssumption ==
    /\ Stem \in [Memory -> DOMAIN Lowered]
    /\ KeyPrompts \in [Memory -> Seq(DOMAIN Lowered)]
ASSUME QueryAssumption == Query \subseteq DOMAIN Lowered
ASSUME ThresholdAssumption == Threshold \in Nat

VARIABLES
    live,          \* adapter in the slot; rows = <<>>: still the Linear
    shadow,        \* private copy
    lock,          \* _S["inference_lock"]
    worker,        \* frame of shadow_editing.edit and of what follows it
    chat,          \* frame of each answer
    status,        \* status of each memory
    prov,          \* its PROV_CODEBOOK_KEYS
    file,          \* rows of codebook.pt
    taught,        \* history: memories whose edit was promoted
    unsaved,       \* history: promoted, but the checkpoint failed since
    lost           \* history: a restart came before a good checkpoint

bookVars == <<live, shadow, lock, worker, chat, status, prov, file,
              taught, unsaved, lost>>
history == <<taught, unsaved, lost>>

----
\* Keys and rows

\* What a key was pooled from: a raw stem, the query span of a chat prompt, or,
\* when a span is left over from a chat, the clamped end of stem and target; and
\* what stood beside the text: the target, or the window of the prompt.
Key(form, text, beside) == [form |-> form, text |-> text, beside |-> beside]

\* keying.compute_key of _hero_render, the prompt with an empty window; and the
\* key that a decode pools from the prompt it was really given.
HeroKey(text) == Key("chat", text, None)
SpanKey(text, window) == Key("chat", text, window)

\* adapter.query_span None: _select_query; else _pool_span, clamped.
NativeKeys(m) == {Key("raw", Stem[m], None), Key("tail", Stem[m], Target[m])}
NativeKey(m, span) ==
    IF span = None THEN Key("raw", Stem[m], None)
    ELSE Key("tail", Stem[m], Target[m])

\* Every row is compared with the query, however its key was pooled.
Score(k, q) == Similarity[k][q]

\* Row 0: a random key, with label -1.
Placeholder == [key |-> Key("random", None, None), teaches |-> None, label |-> None]

\* "Linear" is the empty codebook.
Adapter(rows) == [rows |-> rows, mode |-> "value", span |-> None]
Linear == Adapter(<<>>)

\* The stem and the canonical prompts, without repetitions in other case.
Prompts(m) == FirstOfEach(<<Stem[m]>> \o KeyPrompts[m], LAMBDA t : Lowered[t])

\* Every key is the random one or pooled from a text, every value answers.
Answer == {Target[m] : m \in Memory} \union {None}
Text == DOMAIN Lowered \union UNION {ToSet(Prompts(m)) : m \in Memory}
KeyOf == {Placeholder.key} \union
             [form : {"raw", "tail", "chat"}, text : Text, beside : Answer \union Context]
RowOf == [key : KeyOf, teaches : Answer, label : {Label[m] : m \in Memory} \union {None}]

ASSUME RowAssumption == None \notin RowOf

\* Rows that torch.max may return; equal keys tie.
Best(rows, q) ==
    {r \in DOMAIN rows : \A s \in DOMAIN rows :
        Score(rows[s].key, q) <= Score(rows[r].key, q)}

IsMatch(row, q) == Score(row.key, q) > Threshold

\* Rows whose value a query brings into the answer; None: deferred to the model.
Retrieved(rows, q) ==
    {IF IsMatch(rows[r], q) THEN r ELSE None : r \in Best(rows, q)}

RowAt(rows, r) == IF r = None THEN None ELSE rows[r]

\* The first training pass.  The nearest row is trained if it matches with the
\* same label; otherwise a row is added and the nearest row is looked up again,
\* which then has this very key.
Reusable(row, q, m) == IsMatch(row, q) /\ row.label = Label[m]

WithKey(rows, q, m) == Append(rows, [key |-> q, teaches |-> None, label |-> Label[m]])

Reused(rows, q, m) ==
    {[rows |-> rows, trained |-> r] :
        r \in {b \in Best(rows, q) : Reusable(rows[b], q, m)}}

Added(rows, q, m) ==
    {[rows |-> WithKey(rows, q, m), trained |-> v] :
        v \in {b \in Best(WithKey(rows, q, m), q) :
                  \E r \in Best(rows, q) : ~Reusable(rows[r], q, m)}}

\* The rows after it, with the one that is trained.
AddKey(rows, q, m) == Reused(rows, q, m) \union Added(rows, q, m)

\* Keys are normalised: nothing is as near to a key as that key itself.  Nothing
\* else is assumed: a raw key and a chat key may well match.
ASSUME SimilarityAssumption ==
    \A q \in KeyOf :
        /\ Similarity[q][q] > Threshold
        /\ \A k \in KeyOf : Similarity[k][q] \in Nat
        /\ \A k \in KeyOf \ {q} : Similarity[k][q] < Similarity[q][q]

\* Mutant: the values of the last row are copied, not of the trained one.
AppendChatKeysOfLast(rows, v, m) ==
    rows \o [i \in DOMAIN Prompts(m) |->
                [rows[Len(rows)] EXCEPT !.key = HeroKey(Prompts(m)[i])]]

\* One row per prompt, each a copy of the trained value and label.
AppendChatKeys(rows, v, m) ==
    rows \o [i \in DOMAIN Prompts(m) |->
                [rows[v] EXCEPT !.key = HeroKey(Prompts(m)[i])]]

\* Row v is trained, keeps its label, and is copied.
Taught(rows, v, m) == AppendChatKeys([rows EXCEPT ![v].teaches = Target[m]], v, m)

----
\* The worker

Idle == [at |-> "idle", memory |-> None, native |-> 0, before |-> 0]
NewChat == [at |-> "start", query |-> None, window |-> None, row |-> None,
            gated |-> None, memory |-> None]

Init ==
    /\ live = Linear
    /\ shadow = Linear
    /\ lock = None
    /\ worker = Idle
    /\ chat = [c \in Chat |-> NewChat]
    /\ status = [m \in Memory |-> "buffer"]
    /\ prov = [m \in Memory |-> None]
    /\ file = <<>>
    /\ taught = {}
    /\ unsaved = {}
    /\ lost = {}

BeginEdit(m) ==
    /\ worker.at = "idle"
    /\ status[m] = "buffer"
    /\ MaxOf(Len(live.rows), 1) + 1 + Len(Prompts(m)) <= MaxRows
    /\ worker' = [Idle EXCEPT !.at = "clone", !.memory = m]
    /\ UNCHANGED <<live, shadow, lock, chat, status, prov, file, history>>

\* _shadow_model: a deep copy of the live adapter, with whatever mode and span
\* it has at the moment; the inference lock is not taken.
CloneAdapter ==
    /\ worker.at = "clone"
    /\ shadow' = IF live.rows = <<>> THEN Adapter(<<Placeholder>>) ELSE live
    /\ worker' = [worker EXCEPT !.at = "train"]
    /\ UNCHANGED <<live, lock, chat, status, prov, file, history>>

\* HOREN.edit and _append_chat_keys on the copy.  The row that matches best is
\* trained, added or not.
TrainShadow ==
    /\ worker.at = "train"
    /\ shadow.mode = "value"
    /\ LET m == worker.memory
           q == NativeKey(m, shadow.span)
       IN  \E e \in AddKey(shadow.rows, q, m) :
              /\ shadow' = [shadow EXCEPT !.rows = Taught(e.rows, e.trained, m)]
              /\ worker' = [worker EXCEPT !.at = "promote", !.native = e.trained,
                                          !.before = Len(e.rows)]
    /\ UNCHANGED <<live, lock, chat, status, prov, file, history>>

\* "No trainable parameters" for a copy in mode none, or another exception: the
\* next attempt copies again, the last one gives up.
EditRaises ==
    /\ worker.at = "train"
    /\ \/ worker' = [worker EXCEPT !.at = "clone"]
       \/ worker' = Idle
    /\ shadow' = Linear
    /\ UNCHANGED <<live, lock, chat, status, prov, file, history>>

\* Mutant: the checkpoint is taken from the adapter that is replaced.
PromoteSavesOld ==
    /\ worker.at = "promote"
    /\ lock = None
    /\ live' = shadow
    /\ file' = live.rows
    /\ unsaved' = {}
    /\ taught' = taught \union {worker.memory}
    /\ shadow' = Linear
    /\ worker' = [worker EXCEPT !.at = "commit"]
    /\ UNCHANGED <<lock, chat, status, prov, lost>>

\* promote_edit_module; a checkpoint that fails is logged and swallowed.
Promote ==
    /\ worker.at = "promote"
    /\ lock = None
    /\ live' = shadow
    /\ \/ /\ file' = shadow.rows
          /\ unsaved' = {}
       \/ /\ Cardinality(unsaved \union lost) < MaxFailures
          /\ unsaved' = unsaved \union {worker.memory}
          /\ UNCHANGED file
    /\ taught' = taught \union {worker.memory}
    /\ shadow' = Linear
    /\ worker' = [worker EXCEPT !.at = "commit"]
    /\ UNCHANGED <<lock, chat, status, prov, lost>>

\* Two memories with a prompt in common; dedup may let one supersede the other.
Share(m, n) == \E i \in DOMAIN Prompts(m), j \in DOMAIN Prompts(n) :
                   Prompts(m)[i] = Prompts(n)[j]

\* Mutant: the chat key is taken to be the last row of the codebook.
CommitLastRow ==
    /\ worker.at = "commit"
    /\ LET m == worker.memory
           n == Len(Prompts(m))
       IN  /\ status' = [status EXCEPT ![m] = "consolidated"]
           /\ prov' = [prov EXCEPT ![m] = [native |-> worker.native,
                chat |-> worker.before + n,
                canonical |-> [i \in 1 .. n - 1 |-> worker.before + 1 + i]]]
    /\ worker' = Idle
    /\ UNCHANGED <<live, shadow, lock, chat, file, history>>

\* The end of _process_item: superseded memories, status, the rows of the edit.
\* The store is saved with each of them.
Commit ==
    /\ worker.at = "commit"
    /\ LET m == worker.memory
       IN  /\ \E olds \in SUBSET {o \in Memory :
                                    status[o] = "consolidated" /\ Share(m, o)} :
                status' = [o \in Memory |->
                    IF o = m THEN "consolidated"
                    ELSE IF o \in olds THEN "retired" ELSE status[o]]
           /\ prov' = [prov EXCEPT ![m] = [native |-> worker.native,
                chat |-> worker.before + 1,
                canonical |-> [i \in 1 .. Len(Prompts(m)) - 1 |->
                                 worker.before + 1 + i]]]
    /\ worker' = Idle
    /\ UNCHANGED <<live, shadow, lock, chat, file, history>>

----
\* An answer

Active == live.rows # <<>>

\* inference_session, then scenario_memory.plan, which probes the gate if an
\* edit is installed: keying.compute_key switches the adapter off.
EnterSession(c, q) ==
    /\ chat[c].at = "start"
    /\ lock = None
    /\ lock' = c
    /\ chat' = [chat EXCEPT ![c].query = q,
                            ![c].at = IF Active THEN "probe" ELSE "decode"]
    /\ live' = IF Active THEN [live EXCEPT !.mode = "none"] ELSE live
    /\ UNCHANGED <<shadow, worker, status, prov, file, history>>

\* Mutant: the mode is not restored when the forward pass raises.
EndProbeNoFinally(c) ==
    /\ chat[c].at = "probe"
    /\ live' \in {[live EXCEPT !.mode = "value"], live}
    /\ chat' = [chat EXCEPT ![c].at = "span"]
    /\ UNCHANGED <<shadow, lock, worker, status, prov, file, history>>

\* The probe ends or raises: compute_key restores the mode, plan goes on.
EndProbe(c) ==
    /\ chat[c].at = "probe"
    /\ live' = [live EXCEPT !.mode = "value"]
    /\ chat' = [chat EXCEPT ![c].at = "span"]
    /\ UNCHANGED <<shadow, lock, worker, status, prov, file, history>>

\* generate builds the prompt, with whatever the buffer, RAG and the plan give it,
\* and _set_read_query_span finds the message in it: the span stays on the adapter.
SetQuerySpan(c) ==
    /\ chat[c].at = "span"
    /\ \E w \in Context \union {None} :
          /\ live' = [live EXCEPT !.span = <<chat[c].query, w>>]
          /\ chat' = [chat EXCEPT ![c].at = "decode", ![c].window = w]
    /\ UNCHANGED <<shadow, lock, worker, status, prov, file, history>>

\* Mutant: the session ends with the decode, before attribution.
DecodeLeaves(c) ==
    /\ chat[c].at = "decode"
    /\ lock' = None
    /\ IF Active
       THEN \E r \in Retrieved(live.rows, SpanKey(chat[c].query, chat[c].window)) :
               chat' = [chat EXCEPT ![c].row = RowAt(live.rows, r),
                                    ![c].at = "attribute"]
       ELSE chat' = [chat EXCEPT ![c].at = "reply"]
    /\ UNCHANGED <<live, shadow, worker, status, prov, file, history>>

\* One retrieval per answer: use_cache is off and key_id pinned to the prompt.
\* Without an edit, attribution is None.
Decode(c) ==
    /\ chat[c].at = "decode"
    /\ IF Active
       THEN /\ \E r \in Retrieved(live.rows, SpanKey(chat[c].query, chat[c].window)) :
                  chat' = [chat EXCEPT ![c].row = RowAt(live.rows, r),
                                       ![c].at = "attribute"]
            /\ UNCHANGED lock
       ELSE /\ chat' = [chat EXCEPT ![c].at = "reply"]
            /\ lock' = None
    /\ UNCHANGED <<live, shadow, worker, status, prov, file, history>>

\* keying.gate in app.attribution.
BeginGate(c) ==
    /\ chat[c].at = "attribute"
    /\ live' = [live EXCEPT !.mode = "none"]
    /\ chat' = [chat EXCEPT ![c].at = "gate"]
    /\ UNCHANGED <<shadow, lock, worker, status, prov, file, history>>

\* Memories whose provenance claims a row.  The one that a miss names is not kept.
Claimants(r) == IF r = None THEN {} ELSE
    {m \in Memory : /\ status[m] = "consolidated"
                    /\ r \in {prov[m].native, prov[m].chat} \union
                              {prov[m].canonical[i] : i \in DOMAIN prov[m].canonical}}

\* Mutant: the session is not left after attribution.
EndGateKeepsLock(c) ==
    /\ chat[c].at = "gate"
    /\ live' = [live EXCEPT !.mode = "value"]
    /\ chat' = [chat EXCEPT ![c].at = "reply"]
    /\ UNCHANGED <<shadow, lock, worker, status, prov, file, history>>

\* The gate's own argmax, by the key of an empty window, and the first claimant of
\* that row in the order of the store; or an exception, and attribution is None.
\* The session ends.
EndGate(c) ==
    /\ chat[c].at = "gate"
    /\ live' = [live EXCEPT !.mode = "value"]
    /\ \/ \E r \in Retrieved(live.rows, HeroKey(chat[c].query)) :
          \E m \in IF Claimants(r) = {} THEN {None} ELSE Claimants(r) :
             chat' = [chat EXCEPT ![c].at = "reply", ![c].memory = m,
                                  ![c].gated = RowAt(live.rows, r)]
       \/ chat' = [chat EXCEPT ![c] = [NewChat EXCEPT !.at = "reply"]]
    /\ lock' = None
    /\ UNCHANGED <<shadow, worker, status, prov, file, history>>

\* The reply goes out, after the session; the next question may come.
Reply(c) ==
    /\ chat[c].at = "reply"
    /\ chat' = [chat EXCEPT ![c] = NewChat]
    /\ UNCHANGED <<live, shadow, lock, worker, status, prov, file, history>>

----

\* Mutant: the codebook is not restored at startup.
RestartBare ==
    /\ live' = Linear
    /\ shadow' = Linear
    /\ lock' = None
    /\ worker' = Idle
    /\ chat' = [c \in Chat |-> NewChat]
    /\ lost' = lost \union unsaved
    /\ unsaved' = {}
    /\ UNCHANGED <<status, prov, file, taught>>

\* The process dies, at any point; lifespan restores codebook.pt into a new
\* adapter, or leaves the Linear when the file cannot be read, and the memories
\* from their file.
Restart ==
    /\ \/ live' = Adapter(file) /\ lost' = lost \union unsaved
       \/ /\ Cardinality(lost \union taught) <= MaxFailures
          /\ live' = Linear /\ lost' = lost \union taught
    /\ shadow' = Linear
    /\ lock' = None
    /\ worker' = Idle
    /\ chat' = [c \in Chat |-> NewChat]
    /\ unsaved' = {}
    /\ UNCHANGED <<status, prov, file, taught>>

Next ==
    \/ \E m \in Memory : BeginEdit(m)
    \/ CloneAdapter
    \/ TrainShadow
    \/ EditRaises
    \/ Promote
    \/ Commit
    \/ \E c \in Chat, q \in Query : EnterSession(c, q)
    \/ \E c \in Chat : EndProbe(c)
    \/ \E c \in Chat : SetQuerySpan(c)
    \/ \E c \in Chat : Decode(c)
    \/ \E c \in Chat : BeginGate(c)
    \/ \E c \in Chat : EndGate(c)
    \/ \E c \in Chat : Reply(c)
    \/ Restart

Spec == Init /\ [][Next]_bookVars

----
\* Properties

InSession == {c \in Chat : chat[c].at \in {"probe", "span", "decode", "attribute", "gate"}}

\* Types of adapters and frames; the lock is held exactly by the answer that is
\* inside its session.
BookTypeOK ==
    /\ \A i \in DOMAIN live.rows : live.rows[i] \in RowOf
    /\ \A i \in DOMAIN file : file[i] \in RowOf
    /\ live.mode \in {"value", "none"}
    /\ live.span \in (Query \X (Context \union {None})) \union {None}
    /\ worker.at \in {"idle", "clone", "train", "promote", "commit"}
    /\ \A m \in Memory : status[m] # "buffer" => prov[m] # None
    /\ InSession = IF lock = None THEN {} ELSE {lock}

\* A decode uses an adapter that is switched on and that pools the span of this
\* query in this prompt.  Probes, attribution and copies that were made while
\* another answer had the adapter switched off never change that.
CleanDecode ==
    \A c \in Chat : chat[c].at = "decode" /\ Active =>
        live.mode = "value" /\ live.span = <<chat[c].query, chat[c].window>>

\* An edit of n trains a row that has its native key, or the row nearest to that
\* key when it matches with an equal label, be it a chat row of another memory.
MayTrain(n, row) ==
    \E q \in NativeKeys(n) : row.key = q \/ (IsMatch(row, q) /\ row.label = Label[n])

\* The row teaches what m said, or what one of ms said that may have trained it.
TeachesFor(row, m, ms) ==
    \E n \in {m} \union {o \in ms : MayTrain(o, row)} : row.teaches = Target[n]

\* The chat rows that a memory's provenance names, in the order of its prompts.
Named(m) == <<prov[m].chat>> \o prov[m].canonical

\* The rows that a memory's provenance names: the chat rows carry its own keys,
\* its native key reaches the native row, and every row still teaches its answer
\* unless a later edit could reach it.
RowsTrue(rows, m) ==
    /\ \A i \in DOMAIN Named(m) :
           /\ Named(m)[i] \in DOMAIN rows
           /\ rows[Named(m)[i]].key = HeroKey(Prompts(m)[i])
           /\ TeachesFor(rows[Named(m)[i]], m, taught)
    /\ prov[m].native \in DOMAIN rows
    /\ MayTrain(m, rows[prov[m].native])
    /\ TeachesFor(rows[prov[m].native], m, taught)

Recorded == {m \in Memory : prov[m] # None} \ lost

\* Whatever is trained later, in whichever row it lands, provenance stays true,
\* for retired memories too: indices never shift, and a value changes only for a
\* memory whose native key reaches the row with its label.
ProvenanceTrue == \A m \in Recorded : RowsTrue(live.rows, m)

\* The checkpoint agrees with the provenance in memory_store.json although the
\* two are written one after the other: a crash between them cannot make a
\* memory point at rows that do not exist.
ProvenanceOnDisk == \A m \in Recorded \ unsaved : RowsTrue(file, m)

\* Memories that may have left rows for a text.
Teachers(text) ==
    {m \in taught : \E i \in DOMAIN Prompts(m) : Prompts(m)[i] = text}

\* Asked by one of its own prompts with an empty window, a consolidated memory's
\* codebook row wins.  It teaches the answer of a memory that was taught with
\* that very prompt, unless a later edit could reach the row: neighbours with
\* other labels, ties of native rows and stale spans do not matter.
ReadBack ==
    \A m \in Memory \ lost : status[m] = "consolidated" =>
        \A i \in DOMAIN Prompts(m) :
            \A r \in Best(live.rows, HeroKey(Prompts(m)[i])) :
                /\ IsMatch(live.rows[r], HeroKey(Prompts(m)[i]))
                /\ \E n \in Teachers(Prompts(m)[i]) : TeachesFor(live.rows[r], n, taught)

\* A hit is reported exactly when the answer used a row, and then one with an
\* equal key.
GateAgrees(frame) ==
    /\ (frame.row = None) = (frame.gated = None)
    /\ frame.row # None => frame.gated.key = frame.row.key

\* Attribution repeats the retrieval of a decode whose prompt had an empty
\* window: no promotion comes between the two, and a probe or an attribution of
\* another answer changes neither.
AttributionIsOfAnswer ==
    \A c \in Chat : chat[c].at = "reply" /\ chat[c].window = None => GateAgrees(chat[c])

\* The row has the key of a prompt of m, or m's native key reaches it.
BelongsTo(row, m) ==
    \/ \E i \in DOMAIN Prompts(m) : row.key = HeroKey(Prompts(m)[i])
    \/ MayTrain(m, row)

\* The row that the gate found belongs to the memory that the answer is attributed
\* to, which taught it unless a later edit could reach the row.
AttributionNamesTeacher ==
    \A c \in Chat : chat[c].memory \notin lost \union {None} =>
        /\ BelongsTo(chat[c].gated, chat[c].memory)
        /\ TeachesFor(chat[c].gated, chat[c].memory, taught)

\* docs/v0.4-memory-impl.md:292, sequential edits of one codebook do not disturb
\* each other: the rows of a memory teach its own answer for good.
EditsDoNotDisturb ==
    \A m \in Recorded : \A i \in DOMAIN Named(m) :
        live.rows[Named(m)[i]].teaches = Target[m]

\* keying.gate, "this IS the production gate", and app.attribution, "ONE retrieval
\* decision": attribution finds what the answer used, whatever its prompt held.
GateIsDecode ==
    \A c \in Chat : chat[c].at = "reply" => GateAgrees(chat[c])

====
