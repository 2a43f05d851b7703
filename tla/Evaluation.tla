---- MODULE Evaluation ----
(* The offline harness of eval/: the rungs of conditions.py over the fixture  *)
(* of runtime.py, the scorers of metrics.py and the table of run_matrix.py.   *)
(* A rung installs knowledge and asks about each fact; what an answer can draw *)
(* on is what this module follows, the answer itself is the model's business.  *)
EXTENDS Sequencing, FiniteSetsExt

CONSTANT Fact        \* facts of a sample; each has a cloze and a sentence (rag_doc)

ASSUME FactAssumption == IsFiniteSet(Fact)

\* The resident model and the stores: facts taught to the adapter in the slot,
\* facts pending in the buffer, sentences among the items of RAG, and those whose
\* chunks are indexed.
World == [edits : SUBSET Fact, buffer : SUBSET Fact, rag : SUBSET Fact, chunks : SUBSET Fact]

\* What boot leaves.
Nothing == [edits |-> {}, buffer |-> {}, rag |-> {}, chunks |-> {}]

\* What the pipeline does with a sample, whichever rung runs it: where extractor
\* and router put each sentence, what dedup takes for a duplicate, of the
\* fixture's decompositions and of the extractor's.
Pipeline ==
    [extracted : [Fact -> {"edit", "rag", "dropped"}],
     dups      : SUBSET Fact,
     dupsRaw   : SUBSET Fact]

----
\* runtime.py

\* swap_edit_module(None), store.reset, rag_store.reset: the items of RAG are in
\* the one store, their chunks in the other.
SwapOut(w) == [w EXCEPT !.edits = {}]
StoreReset(w) == [w EXCEPT !.buffer = {}, !.rag = {}]
RagReset(w) == [w EXCEPT !.chunks = {}]

\* Mutant: the reset forgets the stores.
CleanAllKeepsStores(w) == SwapOut(w)

\* clean_all: the slot gets its Linear back, both stores are emptied.
CleanAll(w) == RagReset(StoreReset(SwapOut(w)))

\* reload_base: the weights are loaded again, into a new model.
ReloadBase(w) == Nothing

DoEdits(w, facts) == [w EXCEPT !.edits = @ \union facts]
BufferEdits(w, facts) == [w EXCEPT !.buffer = @ \union facts]
AddRags(w, facts) == [w EXCEPT !.rag = @ \union facts, !.chunks = @ \union facts]

\* ingest_sentence for each sentence, through the real extractor and router.
IngestSentences(w, facts, pipe) ==
    LET routed(to) == {f \in facts : pipe.extracted[f] = to}
    IN  AddRags([w EXCEPT !.buffer = @ \union routed("edit")], routed("rag"))

\* consolidate_now: one pass; a duplicate leaves the buffer untaught.
ConsolidateNow(w, dups) == [w EXCEPT !.edits = @ \union (w.buffer \ dups), !.buffer = {}]

\* Mutant: RAG is searched whatever the rung says.
GenAnswerAlwaysReads(w, fact, withRag) ==
    [fact |-> fact, edits |-> w.edits, docs |-> w.rag \intersect w.chunks]

\* gen_answer: what an answer can draw on.  The buffer is never in the prompt.
GenAnswer(w, fact, withRag) ==
    [fact |-> fact, edits |-> w.edits,
     docs |-> IF withRag THEN w.rag \intersect w.chunks ELSE {}]

----
\* conditions.py: the answers a rung asks for, starting in the world w.

\* The loop over queries or facts.
AskAll(w, facts, withRag) == {GenAnswer(w, f, withRag) : f \in facts}

RungP1(w, facts) == AskAll(DoEdits(CleanAll(w), facts), facts, FALSE)
RungP2(w, facts) == AskAll(AddRags(CleanAll(w), facts), facts, TRUE)
RungP3(w, facts) == AskAll(AddRags(DoEdits(CleanAll(w), facts), facts), facts, TRUE)

RungP3B(w, facts) == AskAll(AddRags(DoEdits(CleanAll(w), facts), facts), facts, FALSE)

RungP35(w, facts, pipe) ==
    AskAll(ConsolidateNow(AddRags(BufferEdits(CleanAll(w), facts), facts), pipe.dups),
           facts, FALSE)

RungP4(w, facts, pipe) ==
    AskAll(ConsolidateNow(IngestSentences(CleanAll(w), facts, pipe), pipe.dupsRaw),
           facts, FALSE)

RagOnly(w, facts) == AskAll(AddRags(CleanAll(w), facts), facts, TRUE)

\* b_freegen_diagnostic resets a second time before its last question.
FreeGen(w, facts) ==
    LET both == AddRags(DoEdits(CleanAll(w), facts), facts)
    IN  <<GenAnswer(both, "intro", FALSE), GenAnswer(both, "intro", TRUE),
          GenAnswer(AddRags(CleanAll(both), facts), "intro", TRUE)>>

CCondition(w, cond, f) ==
    GenAnswer(IF cond = "rag" THEN AddRags(CleanAll(w), {f})
              ELSE IF cond = "edit" THEN DoEdits(CleanAll(w), {f})
              ELSE CleanAll(w),
              f, cond = "rag")

----
\* metrics.py: how a normalised term relates to a normalised text.
Relation == {"empty", "inside", "overlaps", "absent"}

\* _judge_A, _judge_B: a request that fails is a no.
JudgeSays(reply) == reply = "yes"

\* score_A.  A judge that fails is a judge that says no.
ScoreA(term, judge) == term = "inside" \/ (term = "overlaps" /\ judge)

\* Mutant: the judge is asked about a clean miss too.
FactHitAsksAlways(terms, judge) == (\E t \in terms : t \in {"inside", "empty"}) \/ judge

\* One entry of score_B, by the terms of its match_any; the empty string is
\* inside every text.
FactHit(terms, judge) ==
    \/ \E t \in terms : t \in {"inside", "empty"}
    \/ (\E t \in terms : t = "overlaps") /\ judge

\* What a C sample's answer is read as: an option spelled as in the list, one
\* that differs from it only in case or blanks, another option, something that
\* is no option; or the request fails.
Choice == {"gold", "variant", "other", "stray", "fails"}

\* _extract_choice_C
ExtractChoice(reply, names) == IF reply \in names THEN reply ELSE "none"

\* score_C; names are the options of the sample.
ScoreC(reply, names) == ExtractChoice(reply, names) \in {"gold", "variant"}

----
\* run_matrix.py, of a model under test that states what it was taught or
\* shown.  A rate is a number of hits: all rungs ask as many questions.

Right(answers) == Cardinality({a \in answers : a.fact \in a.edits \union a.docs})

\* The A-ladder teaches and asks one fact at a time, the B-ladder a bundle.
Ladders(w, pipe) ==
    [p1  |-> Right(UNION {RungP1(w, {f}) : f \in Fact}),
     p2  |-> Right(UNION {RungP2(w, {f}) : f \in Fact}),
     p3  |-> Right(UNION {RungP3(w, {f}) : f \in Fact}),
     p3b |-> Right(RungP3B(w, Fact)),
     p35 |-> Right(RungP35(w, Fact, pipe)),
     p4  |-> Right(RungP4(w, Fact, pipe))]

\* The C-table: right choices under each condition.
CTable(w) ==
    [cond \in {"base", "rag", "edit"} |-> Right({CCondition(w, cond, f) : f \in Fact})]

\* max(losses, key = losses.get), in the order query_split, dedup, extractor.
Bottleneck(losses) ==
    CHOOSE m \in DOMAIN losses :
        \A n \in DOMAIN losses : losses[n] < losses[m] \/ (losses[n] = losses[m] /\ m <= n)

Losses(rate) ==
    <<MaxOf(rate.p1, rate.p2) - rate.p3, rate.p3b - rate.p35, rate.p35 - rate.p4>>

====
