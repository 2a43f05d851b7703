---- MODULE Dataset ----
(* eval/dataset.py and the subset that eval/run_matrix.py measures.  A raw    *)
(* sample is its family, the fields that select it, the field it lacks, if any, *)
(* and, of a bundle, the lengths of its three lists; a document is a sequence. *)
EXTENDS Sequencing

CONSTANTS
    WantA, WantB, WantC,   \* 370, 60 and 70
    TaughtFacts,           \* n_a
    Buckets                \* b_buckets

ASSUME TaughtAssumption == TaughtFacts \in Nat

\* The dataclasses; "part.field" is a field of every entry of that part.
Fields ==
    [A |-> {"id", "type", "prior_hardness", "category", "subject", "edit_prompt",
            "target_new", "rag_doc", "queries", "queries.q", "queries.a", "key"},
     B |-> {"id", "user", "facts", "facts.key", "facts.type", "facts.category",
            "facts.prior_hardness", "facts.edit_prompt", "facts.target_new",
            "generation_prompt", "gold_fact_set", "gold_fact_set.fact",
            "gold_fact_set.match_any", "gold_fact_set.key", "rag_docs"},
     C |-> {"id", "user_fact", "user_fact.type", "user_fact.category",
            "user_fact.prior_hardness", "user_fact.statement", "user_fact.edit_prompt",
            "user_fact.target_new", "user_fact.key", "list_domain",
            "domain_filter", "domain_filter.attribute", "domain_filter.op",
            "domain_filter.value", "user_filter", "user_filter.attribute",
            "user_filter.op", "user_filter.value", "list_items", "list_items.name",
            "list_items.attributes", "list_items.blurb", "gold_answer", "question",
            "rag_doc", "difficulty"}]

\* Read with get: None when they are missing.
OptionalFields == {"subject", "gold_fact_set.key", "domain_filter.value", "user_filter.value"}

\* Mutant: the sentences of a bundle are not counted.
AlignedButDocs(raw) == raw.facts = raw.gold

\* _parse_b: facts, gold_fact_set and rag_docs are parallel lists.
Aligned(raw) == raw.facts = raw.gold /\ raw.gold = raw.docs

\* _parse_a, _parse_b, _parse_c: a missing field is a KeyError.
Parses(raw) ==
    /\ raw.family \in DOMAIN Fields
    /\ raw.missing \notin Fields[raw.family] \ OptionalFields
    /\ raw.family = "B" => Aligned(raw)

Bucket(doc, family) == Picked(doc, {i \in DOMAIN doc : doc[i].family = family})

Refused == [loads |-> FALSE]

\* load: one bad sample, or one too few of a family, refuses the document.
Load(doc) ==
    LET a == Bucket(doc, "A")
        b == Bucket(doc, "B")
        c == Bucket(doc, "C")
    IN  IF \/ \E i \in DOMAIN doc : ~Parses(doc[i])
           \/ <<Len(a), Len(b), Len(c)>> # <<WantA, WantB, WantC>>
        THEN Refused
        ELSE [loads |-> TRUE, A |-> a, B |-> b, C |-> c]

ByTier(samples, tier) == Picked(samples, {i \in DOMAIN samples : samples[i].tier = tier})
ByType(samples, type) == Picked(samples, {i \in DOMAIN samples : samples[i].type = type})
ZeroPriorY(samples) == ByType(ByTier(samples, "zero_prior"), "Y")

\* run: the facts of the A-ladder, the first bundle of each size asked for, and
\* the sample whose question measures locality.
Taught(data) == Take(ZeroPriorY(data.A), TaughtFacts)
OfSize(data, m) == Picked(data.B, {i \in DOMAIN data.B : data.B[i].facts = m})
Bundles(data) == {OfSize(data, m)[1] : m \in {n \in Buckets : OfSize(data, n) # <<>>}}
Unrelated(data) == data.A[Len(data.A)]

====
