---- MODULE KeyPrompts ----
(* The texts under which an edit can be found again: the canonical keys that  *)
(* memory/consolidate.py registers in the codebook and the probes with which  *)
(* serving/scenario_memory.py looks for them.  A text is a sequence of words, *)
(* up to case and plural; words that a hyphen joins have Hyphen between them. *)
EXTENDS Sequencing

CONSTANTS
    Hyphen,
    KeyStopwords,    \* _KEY_STOPWORDS, and words of one or two letters
    PlanStopwords,   \* _STOPWORDS of the planner, and words of one or two letters
    KeywordWords,    \* words in a keyword prompt
    MaxFallback,     \* fallback prompts
    MaxKeys          \* key prompts, and probes

ASSUME KeysAssumption ==
    /\ KeywordWords \in Nat \ {0, 1}
    /\ MaxFallback \in Nat \ {0}
    /\ MaxKeys \in Nat \ {0, 1}

\* Whether phrase is part of a text, at word boundaries.
Mentions(text, phrase) ==
    \E i \in 1 .. Len(text) - Len(phrase) + 1 : SubSeq(text, i, i + Len(phrase) - 1) = phrase

\* A phrase that is not empty begins at word i.
MatchAt(text, phrase, i) ==
    /\ phrase # <<>>
    /\ i + Len(phrase) - 1 <= Len(text)
    /\ SubSeq(text, i, i + Len(phrase) - 1) = phrase

\* At word i of a text, of which kept is kept so far and next is not yet looked at.
ReplaceStep(s, text, phrase, i) ==
    IF i < s.next THEN s
    ELSE IF MatchAt(text, phrase, i) THEN [s EXCEPT !.next = i + Len(phrase)]
    ELSE [s EXCEPT !.kept = @ \union {i}]

\* re.sub(re.escape(phrase), " ", text): matches from left to right, the next one
\* behind the last.
Without(text, phrase) ==
    LET after[i \in 0 .. Len(text)] ==
            IF i = 0 THEN [kept |-> {}, next |-> 1] ELSE ReplaceStep(after[i - 1], text, phrase, i)
    IN  Picked(text, after[Len(text)].kept)

\* What is in s and not in S, once each.
Distinct(s, S) == OnceIn(s, ToSet(s) \ S)

\* _clean_key_prompt, _clean_prompt: the answer goes as it is written, then the
\* hyphens.
CleanPrompt(text, target) ==
    LET rest == Without(text, target)
    IN  Picked(rest, {i \in DOMAIN rest : rest[i] # Hyphen})

\* The loop over candidates: cleaned, not blank, once each.
CleanDistinct(prompts, target) ==
    Distinct([i \in DOMAIN prompts |-> CleanPrompt(prompts[i], target)], {<<>>})

----
\* consolidate.py; m is a memory with its edit: provided (PROV_KEY_PROMPTS),
\* subject, stem, text and target.

FallbackKeyPrompts(m) ==
    LET clean(text) == CleanPrompt(text, m.target)
        subject == clean(m.subject)
        skipped == KeyStopwords \union (IF Len(m.target) = 1 THEN ToSet(m.target) ELSE {})
        keyword == Take(Distinct(subject \o clean(m.stem) \o clean(m.text), skipped), KeywordWords)
        scoped  == IF subject # <<>> /\ keyword # <<>> /\ ~Mentions(keyword, subject)
                   THEN <<subject \o keyword>> ELSE <<>>
    IN  Take(CleanDistinct(<<clean(m.stem), clean(m.text), keyword>> \o scoped, m.target),
             MaxFallback)

\* Mutant: what the extractor provides is taken as it is.
KeyPromptsOfUncleaned(m) ==
    Take(Distinct(m.provided \o FallbackKeyPrompts(m), {<<>>}), MaxKeys)

\* _key_prompts: the provided prompts, then the fallbacks.
KeyPromptsOf(m) ==
    Take(CleanDistinct(m.provided \o FallbackKeyPrompts(m), m.target), MaxKeys)

\* build_edit_request and _append_chat_keys: every text with a chat key.
RegisteredTexts(m) == {m.stem} \union ToSet(KeyPromptsOf(m))

----
\* scenario_memory.py

\* _tokens
Tokens(text) == ToSet(text) \ PlanStopwords

\* The words of each chunk come in the order of a Python set, which is any.
PlannerKeywords(chunks) ==
    LET all == UNION {Tokens(chunks[i]) : i \in DOMAIN chunks}
        chunk(w) == CHOOSE i \in DOMAIN chunks :
                        w \in Tokens(chunks[i]) /\ \A j \in 1 .. i - 1 : w \notin Tokens(chunks[j])
    IN  {Take(p, KeywordWords) :
            p \in {s \in SetToSeqs(all) : \A i, j \in DOMAIN s : i < j => chunk(s[i]) <= chunk(s[j])}}

\* Mutant: the provided prompts are only mined for words.
ExpandedQueriesFallbackOnly(m) ==
    LET raw == <<m.subject, m.stem, m.text>>
    IN  {Take(CleanDistinct(Append(raw, keyword), m.target), MaxKeys) :
            keyword \in PlannerKeywords([i \in DOMAIN raw |-> CleanPrompt(raw[i], m.target)])}

\* _expanded_queries: the probes, for every order of the keyword prompt.
ExpandedQueries(m) ==
    LET raw == m.provided \o <<m.subject, m.stem, m.text>>
    IN  {Take(CleanDistinct(Append(raw, keyword), m.target), MaxKeys) :
            keyword \in PlannerKeywords([i \in DOMAIN raw |-> CleanPrompt(raw[i], m.target)])}

\* Mutant: only the last probe, the keywords, is compared with the message.
CandidateScoreOfKeywords(message, queries) ==
    Cardinality(message \intersect
        (IF queries = <<>> THEN {} ELSE Tokens(queries[Len(queries)])))

\* _candidate_score: the words of the message among those of the probes.
CandidateScore(message, queries) ==
    Cardinality(message \intersect UNION {Tokens(queries[i]) : i \in DOMAIN queries})

====
