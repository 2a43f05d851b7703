---- MODULE Algorithms ----
(* The pure algorithms of memory/, serving/scenario_memory.py and eval/ beside *)
(* what is expected of them: a step calls one algorithm with one input, and   *)
(* the invariants compare what it returns with a definition of another kind.  *)
EXTENDS Retrieval, Prompt, Extraction, Dedup, KeyPrompts, Scenario, Prototypes,
        Evaluation, Dataset, Probes, Files

CONSTANTS
    MaxLength,     \* longest text, in units of a window
    MaxChunks,     \* chunks in the index
    MaxBudget      \* largest token budget

ASSUME BoundAssumption == MaxLength \in Nat /\ MaxChunks \in Nat /\ MaxBudget \in Nat

VARIABLE call      \* the algorithm that was called and its input

Init == call = [op |-> "none"]

Fresh == call.op = "none"

----
\* The inputs.

SplitText ==
    \E n \in 0 .. MaxLength, size \in 1 .. 4 : \E overlap \in 0 .. size :
        call' = [op |-> "windows", n |-> n, size |-> size, overlap |-> overlap]

RankedItems == {"x", "y", "z"}

RerankItems ==
    \E n \in 0 .. 3, order \in SeqOf(-1 .. 3, 3) :
        call' = [op |-> "rerank",
                 candidates |-> SubSeq(<<"x", "y", "z">>, 1, n), order |-> order]

SearchItems ==
    \E chunks \in SeqOf([item : RankedItems, score : 1 .. 2], MaxChunks),
       known \in {RankedItems, {"x", "z"}}, k \in 1 .. 2, order \in SeqOf(0 .. 2, 2) :
        call' = [op |-> "search", chunks |-> chunks, known |-> known, k |-> k, order |-> order]

FitSegment ==
    \E costs \in SeqOf({1, 2, 4}, 3), budget \in 0 .. 9 :
        call' = [op |-> "fit", costs |-> costs, budget |-> budget]

AssemblePrompt ==
    \E private \in {<<>>, <<2>>},
       buffer \in SeqOf({1, 3}, 2) \union {<<1, 1, 3>>},
       history \in SeqOf({4}, 2),
       hits \in SeqOf([type : {"fact", "reference"}, cost : {1, 3}], 2),
       budget \in (0 .. MaxBudget) \union {NoBudget} :
        call' = [op |-> "prompt", in |->
                    [private |-> private, buffer |-> buffer, history |-> history,
                     hits |-> hits, budget |-> budget]]

CheckCandidate ==
    \E c \in RawCandidate : call' = [op |-> "candidate", cand |-> c]

\* Candidates that differ in what the loop of extract tells apart.
SomeCandidate ==
    LET of(text, conf) == [text |-> text, type |-> "belief", stem |-> "given",
                           target |-> "given", rest |-> "missing", conf |-> conf]
    IN  {of(p, c) : p \in Proposition, c \in {ConfMin, ConfMax, NaN, NoConf}}
        \union {[of(p, ConfMax) EXCEPT !.type = t] :
                    p \in Proposition, t \in {"fact", "unhashable"}}
        \union {[of(p, ConfMax) EXCEPT !.target = "missing"] : p \in Proposition}
        \union {of("blank", ConfMax)}

ExtractChat ==
    \E answers \in SeqOf(SeqOf(SomeCandidate, 1), 3) \union SeqOf(SeqOf(SomeCandidate, 2), 1) :
        call' = [op |-> "extract", answers |-> answers]

ClassifyCandidate ==
    \E sims \in SeqOf(0 .. 3, 3) \ {<<>>},
       judge \in [fails : {FALSE}, duplicates : SeqOf(0 .. 3, 2), supersedes : SeqOf(0 .. 3, 2)]
                     \union {JudgeFails} :
        call' = [op |-> "dedup", sims |-> sims, judge |-> judge]

\* Memory i has the rows i and 10 + i of its edit and its chat key, and the row
\* 20 + i; a row of the first memory may have been given to a later one as well,
\* when edits restarted from an empty adapter.
SomeMemory(i) ==
    {[native |-> native, chat |-> 10 + i, canonical |-> <<20 + i>>, score |-> score,
      ts |-> 0, id |-> i, live |-> live] :
        native \in {i, 1}, score \in 0 .. 2, live \in BOOLEAN}

SomeProbes(i) ==
    {GateFails, <<[sim |-> Threshold, slot |-> 1], [sim |-> Threshold, slot |-> i]>>,
     <<[sim |-> Threshold, slot |-> 20 + i], [sim |-> Threshold, slot |-> 10 + i]>>}
    \union {<<[sim |-> sim, slot |-> slot], [sim |-> 0, slot |-> i]>> :
                sim \in {Threshold - 1, Threshold}, slot \in {1, 10 + i, 20 + i}}

\* A memory that shares one word and is vouched for.
Steady(i) ==
    [native |-> i, chat |-> 10 + i, canonical |-> <<>>, score |-> 1,
     ts |-> i, id |-> i, live |-> TRUE]

PlanScenario ==
    \E m1 \in SomeMemory(1), m2 \in SomeMemory(2),
       p1 \in SomeProbes(1), p2 \in SomeProbes(2), editActive \in BOOLEAN :
        call' = [op |-> "plan", editActive |-> editActive,
                 registry |-> <<m1, m2, Steady(3), Steady(4)>>,
                 probes |-> <<p1, p2, <<[sim |-> Threshold + 1, slot |-> 13]>>,
                                      <<[sim |-> Threshold + 1, slot |-> 14]>>>>]

\* "pele" and "fog cold" are answers, "the" and "best" are stopwords of both lists
\* and of the planner alone.
SomeText ==
    {<<>>, <<"player">>, <<"best", "player">>, <<"the", "player", "pele">>,
     <<"player", "fog", "cold">>, <<"player", "fog", Hyphen, "cold", "player">>,
     <<"fog", "fog", "cold", "cold">>}

\* A stopword of both lists and one of the planner's may be in a text, but not in a
\* subject.
ASSUME WordsAssumption ==
    /\ Hyphen \notin {"player", "best", "the", "pele", "fog", "cold", "summer"}
    /\ KeyStopwords \intersect {"player", "summer", "cold"} = {}

MakeKeys ==
    \E provided \in SeqOf(SomeText, 2), subject \in {<<>>, <<"player">>, <<"summer", "cold">>},
       stem \in SomeText, text \in {<<>>, <<"the", "player", "pele">>, <<"player", "fog", "cold">>},
       target \in {<<>>, <<"pele">>, <<"fog", "cold">>, <<"fog", Hyphen, "cold">>} :
        call' = [op |-> "keys", memory |->
                    [provided |-> provided, subject |-> subject, stem |-> stem,
                     text |-> text, target |-> target]]

\* The planner of the prototype counts words of its own; its gate is the same.
PlanPrototype ==
    \E m1 \in {m \in SomeMemory(1) : m.score = 0}, m2 \in {m \in SomeMemory(2) : m.score = 0},
       p1 \in SomeProbes(1) \ {GateFails}, p2 \in SomeProbes(2) \ {GateFails},
       terms \in {<<1, 1, 1, 0>>, <<0, 2, 1, 1>>, <<1, 0, 2, 2>>}, aliases \in {0, 3},
       expected \in {<<1, 2>>, <<2>>, <<3, 1>>}, own \in {{}, {1}, {2, 3}}, ignores \in {{}, {1}} :
        call' = [op |-> "prototype", expected |-> expected,
                 says |-> [own |-> own, ignores |-> ignores],
                 memories |-> [i \in 1 .. 4 |->
                     [terms |-> terms[i], aliases |-> IF i = 2 THEN aliases ELSE 0, id |-> i]],
                 registry |-> <<m1, m2, Steady(3), Steady(4)>>,
                 probes |-> <<p1, p2, <<[sim |-> Threshold + 1, slot |-> 13]>>,
                                      <<[sim |-> Threshold + 1, slot |-> 14]>>>>]

RunMailbox ==
    \E schedule \in SeqOf({"worker", "request"}, 7), fails \in SeqOf(BOOLEAN, 3) :
        call' = [op |-> "mailbox", schedule |-> schedule, fails |-> fails]

\* Sizes of facts, gold_fact_set and rag_docs.
SomeSizes == {<<1, 1, 1>>, <<2, 2, 2>>, <<1, 2, 1>>, <<2, 2, 1>>}

SomeRaw ==
    LET raw(family, tier, type, sizes, missing) ==
            [family |-> family, key |-> 0, tier |-> tier, type |-> type, facts |-> sizes[1],
             gold |-> sizes[2], docs |-> sizes[3], missing |-> missing]
        none == <<0, 0, 0>>
    IN  {raw("A", tier, type, none, "none") : tier \in {"zero_prior", "known"}, type \in {"X", "Y"}}
        \union {raw("A", "zero_prior", "Y", none, field) : field \in {"rag_doc", "subject"}}
        \union {raw("B", "known", "Y", sizes, "none") : sizes \in SomeSizes}
        \union {raw("B", "known", "Y", <<1, 1, 1>>, field) :
                    field \in {"gold_fact_set.key", "gold_fact_set.match_any"}}
        \union {raw(family, "known", "Y", none, "none") : family \in {"C", "D"}}

LoadDataset ==
    \E raws \in SeqOf(SomeRaw, 4) :
        call' = [op |-> "load", doc |-> [i \in DOMAIN raws |-> [raws[i] EXCEPT !.key = i]]]

RunRungs ==
    \E w \in {x \in World : x.rag \subseteq x.chunks}, pipe \in Pipeline :
        call' = [op |-> "rungs", world |-> w, pipe |-> pipe]

\* One input of the dataset with all that its runs may find, or two.
JudgeRouter ==
    LET found == {<<"failed">>, <<>>, <<"fact">>, <<"belief">>, <<"other">>, <<"fact", "belief">>}
    IN  \E first \in found \X found \X found, gold1 \in Classes,
           second \in {<<"failed">>, <<"fact">>, <<"belief">>} \X {<<>>, <<"belief">>} \X {<<"fact">>},
           gold2 \in {"fact", "belief"}, n \in 1 .. 2 :
            call' = [op |-> "router",
                     inputs |-> Take(<<[gold |-> gold1, runs |-> first],
                                       [gold |-> gold2, runs |-> second]>>, n)]

ScoreAnswer ==
    \E terms \in SUBSET Relation, reply \in {"yes", "no", "fails"},
       names \in SUBSET (Choice \ {"stray", "fails"}) :
        call' = [op |-> "score", terms |-> terms, reply |-> reply, names |-> names]

WriteFile ==
    \E fates \in SeqOf(Fate, 3) : call' = [op |-> "write", fates |-> fates]

Next ==
    /\ Fresh
    /\ \/ SplitText
       \/ RerankItems
       \/ SearchItems
       \/ FitSegment
       \/ AssemblePrompt
       \/ CheckCandidate
       \/ ExtractChat
       \/ ClassifyCandidate
       \/ MakeKeys
       \/ PlanScenario
       \/ PlanPrototype
       \/ JudgeRouter
       \/ RunMailbox
       \/ LoadDataset
       \/ RunRungs
       \/ ScoreAnswer
       \/ WriteFile

Spec == Init /\ [][Next]_call

----
\* Windows (rag_store._split_chunks, extract._windows)

Covers(ws, n, size, overlap) ==
    /\ \A len \in 1 .. MinOf(overlap + 1, size) : \A start \in 0 .. n - len :
           \E i \in DOMAIN ws : ws[i].from <= start /\ start + len <= ws[i].to
    /\ \A i, j \in DOMAIN ws : i < j => ws[i].from < ws[j].from /\ ws[i].to < ws[j].to
    /\ \A i \in DOMAIN ws : ws[i].to - ws[i].from <= size

\* Whatever is no longer than the overlap plus one is whole in one of the windows,
\* so that a sentence is not lost because it lies across a boundary; and each
\* window brings something new: none is part of another.
WindowsCover ==
    call.op = "windows" =>
        /\ Covers(OverlappingWindows(call.n, call.size, call.overlap),
                  call.n, call.size, call.overlap)
        /\ Covers(SplitChunks(call.n), call.n, ChunkChars, ChunkOverlap)
        /\ Covers(Windows(call.n, SingleChars + 1), call.n, WindowMsgs, OverlapMsgs)

----
\* Retrieval (rag_store.search)

\* Whatever the language model answers, re-ranking loses no candidate and shows
\* none twice; an omitted candidate stays behind the listed ones, in order.
RerankIsPermutation ==
    call.op = "rerank" =>
        LET result == Rerank(call.candidates, call.order)
            listed == {call.candidates[i + 1] :
                          i \in ToSet(call.order) \intersect (0 .. Len(call.candidates) - 1)}
            at(seq, x) == CHOOSE i \in DOMAIN seq : seq[i] = x
        IN  /\ Len(result) = Len(call.candidates)
            /\ ToSet(result) = ToSet(call.candidates)
            /\ \A x, y \in ToSet(result) \ listed :
                   at(call.candidates, x) < at(call.candidates, y) <=> at(result, x) < at(result, y)
            /\ \A x \in listed, y \in ToSet(result) \ listed : at(result, x) < at(result, y)

\* The best similarity of an item, over all of its chunks.
BestScore(chunks, item) ==
    Max({0} \union {chunks[i].score : i \in {j \in DOMAIN chunks : chunks[j].item = item}})

\* search returns at most k known items, each once, with the score of its best
\* chunk.  A known item it does not consider was pushed out of the pool by TopN
\* chunks at least as good; one it considers and cuts off in cosine order is no
\* better than those it returns.
SearchReturnsBest ==
    call.op = "search" =>
        LET found  == Candidates(call.chunks, call.known, call.k)
            result == Search(call.chunks, call.known, call.k, call.order)
            names  == {found[i].item : i \in DOMAIN found}
            plain  == Search(call.chunks, call.known, call.k, NoOrder)
            shown  == {plain[i].item : i \in DOMAIN plain}
        IN  /\ Len(result) = MinOf(call.k, Len(found))
            /\ IsInjective([i \in DOMAIN result |-> result[i].item])
            /\ ToSet(result) \subseteq ToSet(found)
            /\ \A i \in DOMAIN found : /\ found[i].item \in call.known
                                       /\ found[i].score = BestScore(call.chunks, found[i].item)
            /\ \A x \in call.known \ names :
                   \/ BestScore(call.chunks, x) = 0
                   \/ TopN(call.k) <= Cardinality({i \in DOMAIN call.chunks :
                          call.chunks[i].score >= BestScore(call.chunks, x)
                          /\ call.chunks[i].item # x})
            /\ \A x \in names \ shown, y \in shown :
                   BestScore(call.chunks, x) <= BestScore(call.chunks, y)

\* A search shows the best items there are, and the language model, whose order
\* may repeat, miss or invent indices, changes only the order.
SearchSound == RerankIsPermutation /\ SearchReturnsBest

----
\* Prompt (build_prompt)

\* _fit_prefix keeps the longest prefix that fits, with its marker unless it is
\* everything.
FitPrefixIsLongest ==
    call.op = "fit" =>
        LET fit == FitPrefix(call.costs, call.budget)
            fits(n) == Cost(call.costs, n)
                          + (IF n < Len(call.costs) THEN MarkerCost ELSE 0) <= call.budget
        IN  /\ fit.kept = Max({0} \union {n \in 0 .. Len(call.costs) : fits(n)})
            /\ fit.kept + fit.omitted = Len(call.costs)

\* A segment loses nothing to the segments after it: it shows what it would show
\* if they were empty.  Pending memories go before retrieved facts, these before
\* the history, and this before reference material.
LowerNeverCosts ==
    call.op = "prompt" =>
        LET shown == BuildPrompt(call.in)
            facts == Picked(call.in.hits,
                            {i \in DOMAIN call.in.hits : call.in.hits[i].type = "fact"})
            noDocs    == [call.in EXCEPT !.hits = facts]
            noHistory == [noDocs EXCEPT !.history = <<>>]
            noHits    == [noHistory EXCEPT !.hits = <<>>]
        IN  /\ shown.private = BuildPrompt([noHits EXCEPT !.buffer = <<>>]).private
            /\ shown.buffer = BuildPrompt(noHits).buffer
            /\ shown.facts = BuildPrompt(noHistory).facts
            /\ shown.history = BuildPrompt(noDocs).history

Segments == {"private", "buffer", "facts", "docs"}

\* The prompt exceeds its budget by no more than one marker for each segment
\* that nothing fits of; and when all of it fits nothing is shed.
BudgetHolds ==
    call.op = "prompt" /\ call.in.budget # NoBudget =>
        LET shown == BuildPrompt(call.in)
            used  == shown.private.used + shown.buffer.used + shown.facts.used
                        + shown.history.used + shown.docs.used
            bare  == {seg \in Segments : shown[seg].kept = 0 /\ shown[seg].omitted > 0}
            whole == Everything(call.in)
        IN  /\ used <= Room(call.in) + MarkerCost * Cardinality(bare)
            /\ whole.private.used + whole.buffer.used + whole.facts.used
                   + whole.history.used + whole.docs.used <= Room(call.in) => shown = whole

\* The budget is used as far as it goes, in the order of priority, and overrun by
\* markers only.
BudgetFair == FitPrefixIsLongest /\ LowerNeverCosts /\ BudgetHolds

----
\* Extraction (extract)

\* A candidate is kept exactly when its text and its type are usable, nothing it
\* gives is of a wrong type, and its confidence is not a number below the bound:
\* what the model leaves out never counts against it.  What decompose would take
\* for an edit later, extract takes for one at once.
PermissiveGate ==
    call.op = "candidate" =>
        LET c == call.cand
            usable == /\ c.text \in Proposition
                      /\ c.type \in {"fact", "belief", "other"}
                      /\ "malformed" \notin {c.stem, c.target, c.rest}
        IN  /\ (ValidCandidate(c).kind = "valid") <=>
                   usable /\ c.conf \notin 0 .. ConfMin - 1
            /\ ValidCandidate(c).kind = "valid" /\ Decompose(c) => ValidCandidate(c).edit

\* memory/extract.py:173 of _valid_candidate: "Never raises."
NeverRaises == call.op = "candidate" => ValidCandidate(call.cand).kind # "raises"

\* When every type can be hashed, a text becomes one memory, however many windows
\* mention it, in the order of first mention; and when its confidences are numbers,
\* it is the first of its most confident mentions.
OneItemPerText ==
    call.op = "extract" =>
        LET result == Extract(call.answers)
            said == Picked(Said(call.answers), KeptMentions(Said(call.answers)))
            of(text) == {i \in DOMAIN said : said[i].c.text = text}
            conf(i) == Confidence(said[i].c)
            best(text) == CHOOSE i \in of(text) : \A j \in of(text) :
                              conf(i) > conf(j) \/ (conf(i) = conf(j) /\ i <= j)
            hashable == \A i \in DOMAIN Said(call.answers) :
                            Said(call.answers)[i].c.type # "unhashable"
        IN  hashable =>
               /\ ~ result.raises
               /\ IsInjective([i \in DOMAIN result.items |-> result.items[i].text])
               /\ {result.items[i].text : i \in DOMAIN result.items} =
                     {said[i].c.text : i \in DOMAIN said}
               /\ \A i, j \in DOMAIN result.items :
                     i < j => Min(of(result.items[i].text)) < Min(of(result.items[j].text))
               /\ \A i \in DOMAIN result.items :
                     /\ result.items[i].edit => result.items[i].route = "edit"
                     /\ (\A j \in of(result.items[i].text) : conf(j) # NaN) =>
                            /\ result.items[i].source = said[best(result.items[i].text)].ref
                            /\ result.items[i].type = said[best(result.items[i].text)].c.type

\* memory/extract.py:272 of extract: "keeping the highest-confidence occurrence".
\* No mention of a kept text has a confidence above the one that was kept.
HighestConfidence ==
    call.op = "extract" =>
        LET items == Extract(call.answers).items
            said == Picked(Said(call.answers), KeptMentions(Said(call.answers)))
        IN  \A i \in DOMAIN items, j \in DOMAIN said :
                said[j].c.text = items[i].text /\ Confidence(said[j].c) # NaN =>
                    items[i].conf # NaN /\ items[i].conf >= Confidence(said[j].c)

\* The extractor probe charges the extractor with a miss of what it did find only
\* if another proposition with an edit was mentioned before it.
ProbeSeesFirstEdit ==
    call.op = "extract" /\ ~Extract(call.answers).raises =>
        LET said == Picked(Said(call.answers), KeptMentions(Said(call.answers)))
            first(p) == Min({i \in DOMAIN said : said[i].c.text = p})
            items == Extract(call.answers).items
            edits == {it.text : it \in {x \in ToSet(items) : x.edit}}
            probes == [p \in Proposition |-> ExtractorProbe(items, p)]
        IN  \A p \in Proposition :
                /\ probes[p].routed <=> edits # {}
                /\ probes[p].match => \E i \in DOMAIN said :
                       /\ said[i].c.text = p
                       /\ said[i].c.type = "belief"
                       /\ {said[i].c.stem, said[i].c.target} \subseteq {"blank", "given"}
                /\ p \in edits /\ ~probes[p].match =>
                       \E other \in edits : first(other) < first(p)

\* The gate keeps what is usable, extract makes one memory of it from its best
\* mention, and the extractor probe misjudges what comes out in one way only.
ExtractionSound == PermissiveGate /\ OneItemPerText /\ ProbeSeesFirstEdit

----
\* Dedup (classify)

\* Whatever the judge answers, a verdict only touches memories that are near the
\* candidate and among the TOP_M nearest; a duplicate names one memory and then
\* nothing is retired.
VerdictOnNear ==
    call.op = "dedup" =>
        LET d == Classify(call.sims, call.judge)
            near == {i \in DOMAIN call.sims : call.sims[i] >= Thresh}
        IN  /\ ToSet(d.targets) \subseteq near
            /\ IsInjective(d.targets)
            /\ \A i \in ToSet(d.targets) :
                   Cardinality({j \in near : call.sims[j] > call.sims[i]}) < TopM
            /\ d.verdict = "new" <=> d.targets = <<>>
            /\ d.verdict = "duplicate" => Len(d.targets) = 1

\* Numbers of the judge that are no position of the shortlist change nothing.
StrayIndicesIgnored ==
    call.op = "dedup" /\ ~call.judge.fails =>
        LET listed == 1 .. Len(Shortlist(call.sims))
            clean(indices) == Picked(indices, {i \in DOMAIN indices : indices[i] \in listed})
        IN  Classify(call.sims, call.judge) =
                Classify(call.sims, Judge(clean(call.judge.duplicates),
                                          clean(call.judge.supersedes)))

\* Without the judge the thresholds decide, by the memory the judge would have
\* seen first: the two orders of ties agree, and something near is never new.
FallbackAgrees ==
    call.op = "dedup" /\ call.judge.fails /\ Shortlist(call.sims) # <<>> =>
        Classify(call.sims, call.judge).targets = <<Shortlist(call.sims)[1].pos>>

\* What the dedup probe measures, one memory at a time, is what /ingest does with a
\* registry, as long as the judge says the same of a memory in any company and
\* no more than TOP_M are near.
PairsTellRegistry ==
    call.op = "dedup" =>
        LET near == {i \in DOMAIN call.sims : call.sims[i] >= Thresh}
            alone == {DedupProbe(call.sims, call.judge, i) : i \in DOMAIN call.sims}
        IN  Cardinality(near) <= TopM =>
                Classify(call.sims, call.judge).verdict =
                    IF "duplicate" \in alone THEN "duplicate"
                    ELSE IF "supersede" \in alone THEN "supersede" ELSE "new"

\* A verdict of classify is about near memories whoever gives it, the judge, a
\* judge that strays or the thresholds, and the dedup probe measures the same.
VerdictSound == VerdictOnNear /\ StrayIndicesIgnored /\ FallbackAgrees /\ PairsTellRegistry

----
\* Keys and probes

\* No key prompt names an answer that is written without hyphens, however the
\* texts repeat or interleave it, unless the extractor provided that prompt with
\* a hyphen in it or with the answer inside another mention of it.
KeysAnswerFree ==
    call.op = "keys" /\ call.memory.target # <<>> /\ Hyphen \notin ToSet(call.memory.target) =>
        LET m == call.memory
            careless(p) == \/ Hyphen \in ToSet(p)
                           \/ Mentions(Without(p, m.target), m.target)
        IN  \A key \in ToSet(KeyPromptsOf(m)) : Mentions(key, m.target) =>
                \E p \in ToSet(m.provided) : careless(p) /\ key = CleanPrompt(p, m.target)

\* The planner, which makes up its probes on its own from the same memory, asks
\* for at least one text that has a key; unless the memory has no key prompt, or
\* a text of it nests the answer, which a key then loses more often than a probe.
ProbeHitsKey ==
    call.op = "keys" /\ KeyPromptsOf(call.memory) # <<>> =>
        LET m == call.memory
            nested(p) == m.target # <<>> /\ Mentions(CleanPrompt(p, m.target), m.target)
        IN  \/ \A queries \in ExpandedQueries(m) :
                   ToSet(queries) \intersect RegisteredTexts(m) # {}
            \/ \E p \in {m.subject, m.stem, m.text} \union ToSet(m.provided) : nested(p)

\* How well a memory fits a message does not depend on the order in which Python
\* iterates over a set of words, although a probe does.
ScoreIsStable ==
    call.op = "keys" =>
        \A first, second \in ExpandedQueries(call.memory) :
            \A message \in {{"player"}, {"cold"}, {"summer", "fog"}} :
                CandidateScore(message, first) = CandidateScore(message, second)

\* Keys do not give the answer away, and the planner's probes, made on their own,
\* meet them and rank a memory in the same way in every process.
KeysMeetProbes == KeysAnswerFree /\ ProbeHitsKey /\ ScoreIsStable

----
\* Scenario planner and attribution

\* The private lane holds memories that share a word with the request and that
\* the adapter vouches for, best first and at most MaxSelected; one that it
\* vouches for is only missing when the lane was full of better ones, or when a
\* gate failed, and then the lane is empty.
LaneIsVerified ==
    call.op = "plan" =>
        LET plan == Plan(call.editActive, call.registry, call.probes)
            lane == plan.selected
            reg  == call.registry
            candidates == {i \in DOMAIN reg : reg[i].live /\ reg[i].score > 0
                /\ Cardinality({j \in DOMAIN reg : reg[j].live /\ reg[j].score > 0
                                    /\ RanksBefore(reg[j], reg[i])}) < MaxCandidates}
            top(i) == Max({call.probes[i][q].sim : q \in DOMAIN call.probes[i]})
            vouched(i) == \E q \in DOMAIN call.probes[i] :
                /\ call.probes[i][q].sim = top(i)
                /\ top(i) >= Threshold
                /\ \A r \in 1 .. q - 1 : call.probes[i][r].sim < top(i)
                /\ call.probes[i][q].slot \in Slots(reg[i])
                /\ \A j \in 1 .. i - 1 : call.probes[i][q].slot \notin Slots(reg[j])
        IN  /\ Len(lane) <= MaxSelected
            /\ \A r \in DOMAIN lane : lane[r] \in candidates /\ vouched(lane[r])
            /\ \A r, t \in DOMAIN lane : r < t => RanksBefore(reg[lane[r]], reg[lane[t]])
            /\ ~call.editActive \/ plan.failed => lane = <<>>
            /\ call.editActive /\ (\A i \in candidates : call.probes[i] # GateFails) =>
                   \A i \in candidates : vouched(i) /\ i \notin ToSet(lane) =>
                       /\ Len(lane) = MaxSelected
                       /\ \A r \in DOMAIN lane : RanksBefore(reg[lane[r]], reg[i])

\* What /chat shows beside a memory of the private lane is a slot that the
\* attribution of an answer, with a search of its own, leads back to the same
\* memory.
LaneIsAttributed ==
    call.op = "plan" =>
        LET plan == Plan(call.editActive, call.registry, call.probes)
            shown == Response(plan, call.probes)
        IN  \A r \in DOMAIN shown :
                LET gate == [sim |-> shown[r].similarity, slot |-> shown[r].slot]
                IN  /\ Attribution(gate, call.registry).memory = shown[r].memory
                    /\ gate.sim # Threshold => Attribution(gate, call.registry).hit

\* The private lane is what the adapter vouches for, and attribution agrees.
LaneSound == LaneIsVerified /\ LaneIsAttributed

\* The criterion by which spike v26 accepts a fixture carries over to the server:
\* an alias of a candidate that hits a canonical row of its own is enough for the
\* private lane, if no other probe of the memory scores higher, no gate fails and
\* the lane is not full.
AliasesSuffice ==
    call.op = "plan" /\ call.editActive =>
        LET plan == Plan(TRUE, call.registry, call.probes)
            candidates == CandidateMemories(call.registry)
            passes(i) == /\ call.probes[i] # GateFails
                         /\ AliasHits(i, call.probes[i][1], call.registry)
                         /\ \A q \in DOMAIN call.probes[i] :
                                call.probes[i][q].sim <= call.probes[i][1].sim
        IN  \A r \in DOMAIN candidates : passes(candidates[r]) =>
                \/ candidates[r] \in ToSet(plan.selected)
                \/ plan.failed
                \/ Len(plan.selected) = MaxSelected

\* When the fixture passes as a whole, the lane has every memory of it that
\* shares a word with the request and that there is room for, whichever of the
\* questions scores highest.
FixtureSuffices ==
    call.op = "plan" =>
        LET registry == SubSeq(call.registry, 1, 2)
            probes   == SubSeq(call.probes, 1, 2)
        IN  (/\ GateFails \notin ToSet(probes)
             /\ FixturePasses([i \in 1 .. 2 |-> probes[i][2]],
                              [i \in 1 .. 2 |-> <<probes[i][1]>>], registry))
            => Plan(TRUE, registry, probes).selected =
                   Take(CandidateMemories(registry), MaxSelected)

\* From the same plan the server selects what spike v27 did, as far as it goes:
\* the first MaxSelected of the memories whose probes led back to themselves.  The
\* prototype also takes another memory that a probe led to, which the server does
\* not; it takes none that no probe led to, and none twice.
PrototypeAgrees ==
    call.op = "prototype" =>
        LET planned  == LexicalPlan(call.memories)
            resolved == ResolveByGate(planned, call.probes, call.registry)
            lane == PlanLoop(planned, call.probes, call.registry).selected
            best(i) == BestProbe(call.probes[i])
            leadsTo(i, j) == best(i).sim >= Threshold /\ Owner(best(i).slot, call.registry) = j
        IN  /\ lane = Take(Picked(planned, {r \in DOMAIN planned : leadsTo(planned[r], planned[r])}),
                           MaxSelected)
            /\ ToSet(lane) \subseteq ToSet(resolved)
            /\ \A j \in ToSet(resolved) : \E i \in ToSet(planned) : leadsTo(i, j)
            /\ IsInjective(resolved)

\* The verdict of spike v27, that planned memories are mentioned more often than
\* without notes, is one about the gate: with a model that heeds its notes the
\* oracle planner gains exactly when an expected memory leads to an expected one
\* that the model would not mention of itself.  The lexical planner finds more
\* than the oracle only by a detour over a memory that is not expected.
RecallIsOfGate ==
    call.op = "prototype" =>
        LET expected == ToSet(call.expected)
            mode(planned) == RunPlannedMode(planned, call.expected, call.probes,
                                            call.registry, call.says)
            best(i) == BestProbe(call.probes[i])
            leadsTo(i, j) == best(i).sim >= Threshold /\ Owner(best(i).slot, call.registry) = j
            lexical == LexicalPlan(call.memories)
            oracle  == OraclePlan(call.expected)
        IN  /\ mode(oracle) > RawMode(call.expected, call.says) <=>
                   \E i \in expected, j \in expected \ (call.says.own \union call.says.ignores) :
                       leadsTo(i, j)
            /\ mode(lexical) > mode(oracle) =>
                   \E i \in ToSet(lexical) \ expected, j \in expected : leadsTo(i, j)

\* When the gate of spike v21 passes no fact is taken for a belief by most of its
\* runs, nor by its first run if all of them differ; when it fails though every
\* run was usable, some fact is, or its runs are divided.  A run that finds a
\* belief behind another item goes unnoticed.
GateSeesLeaks ==
    call.op = "router" =>
        LET leaks(i) == Cardinality({r \in 1 .. 3 :
                            ClassifyOnce(call.inputs[i].runs[r]) = "belief"})
            facts == {i \in DOMAIN call.inputs : call.inputs[i].gold = "fact"}
            usable == \A i \in DOMAIN call.inputs : <<"failed">> \notin ToSet(call.inputs[i].runs)
            divided(i) == \A class \in Classes :
                Cardinality({r \in 1 .. 3 : ClassifyOnce(call.inputs[i].runs[r]) = class}) < 2
        IN  /\ RouterGate(call.inputs) =>
                   /\ usable
                   /\ \A i \in facts : leaks(i) < 2
                   /\ \A i \in facts : divided(i) => ClassifyOnce(call.inputs[i].runs[1]) # "belief"
            /\ usable /\ ~RouterGate(call.inputs) =>
                   \E i \in facts : leaks(i) >= 2 \/ (leaks(i) = 1 /\ divided(i))

\* In spike v07 an edit that was trained is lost only when the next one was copied
\* from the live adapter before a request had put the first in the slot; else the
\* slot or the mailbox has it at the end.  A job that failed is in neither.
OnlyOverwrittenLost ==
    call.op = "mailbox" =>
        LET n == Len(call.schedule)
            at(k) == Spike07(SubSeq(call.schedule, 1, k), call.fails)
            publishes(k, job) == at(k - 1).shadow.full /\ ~at(k).shadow.full /\ at(k - 1).next = job
            copies(k) == ~at(k - 1).shadow.full /\ at(k).shadow.full
            kept == at(n).live \union at(n).pending.jobs
        IN  /\ \A k \in 1 .. n, job \in DOMAIN call.fails : publishes(k, job) =>
                   \/ job \in kept
                   \/ \E c \in k + 1 .. n :
                          copies(c) /\ \A r \in k + 1 .. c - 1 : call.schedule[r] # "request"
            /\ \A job \in kept : ~call.fails[job]

\* What the prototypes concluded carries over to the server, as far as each of
\* these says: the fixture and its aliases, the gate, the planner, the router and
\* the mailbox.
PrototypesCarryOver ==
    /\ AliasesSuffice
    /\ FixtureSuffices
    /\ PrototypeAgrees
    /\ RecallIsOfGate
    /\ GateSeesLeaks
    /\ OnlyOverwrittenLost

----
\* Files

\* Whatever goes wrong with the writes, a start of the server finds the last
\* version that took the place of the file, whole, and fails to read only if none
\* did; a temporary file is left only by a process that died.
FileIsWhole ==
    call.op = "write" =>
        LET disk == Writes(call.fates)
            at(kinds, lo) == {v \in DOMAIN call.fates :
                                 call.fates[v].kind \in kinds /\ call.fates[v].at >= lo}
            placed == at({"returns", "dies"}, 5)
        IN  /\ LoadJson(disk) =
                   IF placed = {} THEN [raises |-> TRUE, version |-> 0]
                   ELSE [raises |-> FALSE, version |-> Max(placed)]
            /\ {t.version : t \in disk.tmps} = at({"dies"}, 3) \ placed

----
\* Evaluation harness

\* What the rungs and the scorers read of a sample without asking whether it is
\* there.
ReadByRungs ==
    [A |-> {"edit_prompt", "target_new", "rag_doc", "queries", "queries.q"},
     B |-> {"facts.edit_prompt", "facts.target_new", "facts.type", "facts.key", "rag_docs",
            "generation_prompt", "gold_fact_set.match_any"},
     C |-> {"user_fact.edit_prompt", "user_fact.target_new", "user_fact.type", "question",
            "list_items.name", "list_items.blurb", "rag_doc", "gold_answer"}]

\* A document that loads has lost no sample and none of what the rungs read, so
\* that they do not fail hours later, and its bundles can be walked in
\* parallel: every fact has its gold entry and its sentence.  The facts taught are
\* the first of the backbone, each size asked for is measured if there is a bundle
\* of it, and the question for locality is about no taught fact, unless the whole
\* backbone is taught.
DatasetIsSound ==
    call.op = "load" =>
        LET data == Load(call.doc)
            backbone == {i \in DOMAIN call.doc :
                            /\ call.doc[i].family = "A"
                            /\ call.doc[i].tier = "zero_prior"
                            /\ call.doc[i].type = "Y"}
            taught == {s.key : s \in ToSet(Taught(data))}
        IN  data.loads =>
                /\ Len(data.A) + Len(data.B) + Len(data.C) = Len(call.doc)
                /\ \A s \in ToSet(call.doc) : s.missing \notin ReadByRungs[s.family]
                /\ \A b \in ToSet(data.B) : b.gold = b.facts /\ b.docs = b.facts
                /\ taught \subseteq backbone
                /\ \A i \in backbone \ taught, j \in taught : j < i
                /\ {b.facts : b \in Bundles(data)} =
                       Buckets \intersect {b.facts : b \in ToSet(data.B)}
                /\ Unrelated(data).key \in taught => backbone = taught

\* What the answers of a rung can draw on does not depend on what the process did
\* before: every rung resets the adapter, the buffer and RAG, once or twice, and
\* the quick reset is as good as loading the model again.
RungsIsolated ==
    call.op = "rungs" =>
        LET w == call.world
        IN  /\ CleanAll(w) = ReloadBase(w)
            /\ RungP1(w, Fact) = RungP1(Nothing, Fact)
            /\ RungP2(w, Fact) = RungP2(Nothing, Fact)
            /\ RungP3(w, Fact) = RungP3(Nothing, Fact)
            /\ RungP3B(w, Fact) = RungP3B(Nothing, Fact)
            /\ RungP35(w, Fact, call.pipe) = RungP35(Nothing, Fact, call.pipe)
            /\ RungP4(w, Fact, call.pipe) = RungP4(Nothing, Fact, call.pipe)
            /\ RagOnly(w, Fact) = RagOnly(Nothing, Fact)
            /\ FreeGen(w, Fact) = FreeGen(Nothing, Fact)
            /\ \A cond \in {"base", "rag", "edit"}, f \in Fact :
                   CCondition(w, cond, f) = CCondition(Nothing, cond, f)

\* With a model that states what it was taught or shown the table blames the
\* part that lost the memories: dedup when only it dropped facts, the extractor
\* when only it kept facts out of the weights, and nothing is lost when both are
\* perfect.  The base condition knows nothing, whatever was taught before it.
LossesBlameTheirModule ==
    call.op = "rungs" =>
        LET w == call.world
            pipe == call.pipe
            losses == Losses(Ladders(w, pipe))
            extracts == \A f \in Fact : pipe.extracted[f] = "edit"
        IN  /\ extracts /\ pipe.dups = pipe.dupsRaw /\ pipe.dups # {} => Bottleneck(losses) = 2
            /\ pipe.dups = {} /\ pipe.dupsRaw = {} /\ ~extracts => Bottleneck(losses) = 3
            /\ extracts /\ pipe.dups = {} /\ pipe.dupsRaw = {} => losses = <<0, 0, 0>>
            /\ CTable(w) = [base |-> 0, rag |-> Cardinality(Fact), edit |-> Cardinality(Fact)]

\* The two ladders count alike: for one accepted form score_B agrees with score_A,
\* whatever the judge says, unless that form normalises to nothing; and another
\* accepted form never turns a hit into a miss.  A request that fails never counts
\* for the model under test, and neither does a choice that is no option.
ScorersAgree ==
    call.op = "score" =>
        LET judge == JudgeSays(call.reply)
        IN  /\ \A t \in Relation \ {"empty"} : FactHit({t}, judge) = ScoreA(t, judge)
            /\ \A t \in call.terms : FactHit({t}, judge) => FactHit(call.terms, judge)
            /\ FactHit(call.terms, JudgeSays("fails")) => FactHit(call.terms, judge)
            /\ ~\E choice \in {"other", "stray", "fails"} : ScoreC(choice, call.names)
            /\ ScoreC("gold", call.names) => "gold" \in call.names

\* The tables measure the part of the system that they name: rungs are isolated,
\* losses blame the module that caused them and the scorers count alike.
TablesMeasure == RungsIsolated /\ LossesBlameTheirModule /\ ScorersAgree

====
