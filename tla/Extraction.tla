---- MODULE Extraction ----
(* memory/extract.py and memory/router.py: from what a language model answers *)
(* for each window of a conversation to memories.  A proposition is its      *)
(* normalised text; of the other strings only whether they are there counts.  *)
EXTENDS Sequencing

CONSTANTS
    Proposition,     \* _norm_text of a candidate's text
    ConfMin,         \* CONF_MIN
    ConfMax,         \* 1.0, the confidence of a candidate that gives none
    NaN,             \* a literal NaN, which json.loads accepts
    NoConf,          \* no confidence, or one that float() refuses
    SingleChars,     \* _MAX_SINGLE_CHARS
    WindowMsgs,      \* _WINDOW_MSGS
    OverlapMsgs      \* _OVERLAP_MSGS

ASSUME ConfAssumption == ConfMax \in Nat /\ ConfMin \in 0 .. ConfMax
ASSUME MarkerAssumption == NaN \notin Int /\ NoConf \notin Int
ASSUME WindowAssumption ==
    SingleChars \in Nat /\ WindowMsgs \in Nat \ {0} /\ OverlapMsgs \in 0 .. WindowMsgs

\* _windows: chat is its number of messages and of rendered characters.
Windows(messages, chars) ==
    IF chars <= SingleChars THEN <<[from |-> 0, to |-> messages]>>
                            ELSE OverlappingWindows(messages, WindowMsgs, OverlapMsgs)

\* What _extract_window makes of an exception, no JSON or no list.
NoAnswer == <<>>

\* What json.loads may put in an optional string: nothing or "", only blanks,
\* text, or a value of another type (_opt_str).
Optional == {"missing", "blank", "given", "malformed"}

\* An entry of "items"; rest is its subject and its key prompts.  A type that
\* cannot be hashed (a list, an object) makes the test for membership in
\* _VALID_TYPES raise.
RawCandidate ==
    [text   : Proposition \union {"blank", "malformed"},
     type   : {"fact", "belief", "other", "unknown", "unhashable"},
     stem   : Optional,
     target : Optional,
     rest   : Optional,
     conf   : (0 .. ConfMax) \union {NaN, NoConf}]

Confidence(c) == IF c.conf = NoConf THEN ConfMax ELSE c.conf

\* Comparisons with a NaN are false.
Less(a, b) == NaN \notin {a, b} /\ a < b

Rejected(kind) == [kind |-> kind]

Accepted(c) ==
    [kind |-> "valid", text |-> c.text, type |-> c.type, conf |-> Confidence(c),
     edit |-> {c.stem, c.target} \subseteq {"blank", "given"}]

\* Mutant: a candidate without a confidence is taken for an uncertain one.
ValidCandidateNeedsConf(c) ==
    IF c.text \notin Proposition THEN Rejected("dropped")
    ELSE IF c.type = "unhashable" THEN Rejected("raises")
    ELSE IF \/ c.type = "unknown"
            \/ "malformed" \in {c.stem, c.target, c.rest}
            \/ c.conf = NoConf
            \/ Less(c.conf, ConfMin)
         THEN Rejected("dropped")
    ELSE Accepted(c)

\* _valid_candidate
ValidCandidate(c) ==
    IF c.text \notin Proposition THEN Rejected("dropped")
    ELSE IF c.type = "unhashable" THEN Rejected("raises")
    ELSE IF \/ c.type = "unknown"
            \/ "malformed" \in {c.stem, c.target, c.rest}
            \/ Less(Confidence(c), ConfMin)
         THEN Rejected("dropped")
    ELSE Accepted(c)

\* router.route
Route(type) == IF type = "belief" THEN "edit" ELSE "rag"

\* Mutant: the last occurrence wins.
MergeLast(merged, entry) ==
    LET same == {i \in DOMAIN merged : merged[i].cand.text = entry.cand.text}
    IN  IF same = {} THEN Append(merged, entry)
        ELSE ReplaceAt(merged, CHOOSE i \in same : TRUE, entry)

\* One step of the loop of extract: the dict keeps its order when a value of it
\* is replaced by a more confident one.
MergeCandidate(merged, entry) ==
    LET same == {i \in DOMAIN merged : merged[i].cand.text = entry.cand.text}
        at   == CHOOSE i \in same : TRUE
    IN  IF same = {} THEN Append(merged, entry)
        ELSE IF Less(merged[at].cand.conf, entry.cand.conf)
             THEN ReplaceAt(merged, at, entry)
        ELSE merged

\* The candidates of all windows in the order of the loops, with the window each
\* came from.
Said(answers) ==
    LET upTo[w \in 0 .. Len(answers)] ==
            IF w = 0 THEN <<>>
            ELSE upTo[w - 1] \o
                     [j \in DOMAIN answers[w] |-> [c |-> answers[w][j], ref |-> w]]
    IN  upTo[Len(answers)]

\* The positions of what _valid_candidate keeps.
KeptMentions(said) == {i \in DOMAIN said : ValidCandidate(said[i].c).kind = "valid"}

\* A mention that is kept, as extract puts it into its dict.
Entry(mention) == [cand |-> ValidCandidate(mention.c), ref |-> mention.ref]

\* The dict merged after the loop over the mentions that are kept.
Merge(kept) ==
    LET after[n \in 0 .. Len(kept)] ==
            IF n = 0 THEN <<>> ELSE MergeCandidate(after[n - 1], Entry(kept[n]))
    IN  after[Len(kept)]

\* extract; a type that cannot be hashed makes it raise.
Extract(answers) ==
    LET said   == Said(answers)
        merged == Merge(Picked(said, KeptMentions(said)))
    IN  IF \E i \in DOMAIN said : ValidCandidate(said[i].c).kind = "raises"
        THEN [raises |-> TRUE, items |-> <<>>]
        ELSE [raises |-> FALSE,
              items |-> [i \in DOMAIN merged |->
                [text |-> merged[i].cand.text, type |-> merged[i].cand.type,
                 route |-> Route(merged[i].cand.type), conf |-> merged[i].cand.conf,
                 edit |-> Route(merged[i].cand.type) = "edit" /\ merged[i].cand.edit,
                 source |-> merged[i].ref]]]

\* decompose for an answer that is an object: whether it gives an edit.  Unlike
\* _valid_candidate it refuses a half of blanks only.
Decompose(answer) == answer.stem = "given" /\ answer.target = "given"

====
