---- MODULE Dedup ----
(* memory/dedup.py: what a candidate is to the consolidated memories.  The    *)
(* registry is the sequence of their similarities to the candidate; a target  *)
(* is a position in it.                                                      *)
EXTENDS Sequencing

CONSTANTS
    Thresh,          \* THRESH
    DupThresh,       \* DUP_THRESH
    TopM             \* TOP_M

ASSUME ThreshAssumption == Thresh \in Nat /\ DupThresh \in Nat /\ Thresh <= DupThresh
ASSUME TopMAssumption == TopM \in Nat \ {0}

Decision(verdict, targets) == [verdict |-> verdict, targets |-> targets]

\* The language model lists positions of the shortlist; or it raises, or answers
\* something that is not two lists of numbers.
Judge(duplicates, supersedes) ==
    [fails |-> FALSE, duplicates |-> duplicates, supersedes |-> supersedes]
JudgeFails == [fails |-> TRUE, duplicates |-> <<>>, supersedes |-> <<>>]

\* Mutant: a later memory of the same similarity wins.
NearestLast(sims) ==
    CHOOSE i \in DOMAIN sims :
        \A j \in DOMAIN sims : sims[j] < sims[i] \/ (sims[j] = sims[i] /\ j <= i)

\* _nearest: the first of the most similar ones.
Nearest(sims) ==
    CHOOSE i \in DOMAIN sims :
        \A j \in DOMAIN sims : sims[j] < sims[i] \/ (sims[j] = sims[i] /\ i <= j)

\* _fallback
Fallback(sims) ==
    LET nn == Nearest(sims)
    IN  IF sims[nn] < Thresh THEN Decision("new", <<>>)
        ELSE IF sims[nn] >= DupThresh THEN Decision("duplicate", <<nn>>)
        ELSE Decision("supersede", <<nn>>)

\* Mutant: everything is shortlisted.
ShortlistAll(sims) == Take(BestFirst([i \in DOMAIN sims |-> [score |-> sims[i], pos |-> i]]), TopM)

\* The near ones, most similar first, at most TOP_M.
Shortlist(sims) ==
    Take(BestFirst(Picked([i \in DOMAIN sims |-> [score |-> sims[i], pos |-> i]],
                          {i \in DOMAIN sims : sims[i] >= Thresh})),
         TopM)

\* Mutant: indices that point past the shortlist are clipped to its end.
ValidClipped(indices, n) ==
    FirstOfEach([i \in DOMAIN indices |-> MaxOf(1, MinOf(indices[i], n))], LAMBDA x : x)

\* _valid: the indices of the shortlist among the judge's, once each.
Valid(indices, n) == OnceIn(indices, 1 .. n)

\* Mutant: what the candidate supersedes is looked at first.
ClassifySupersedesFirst(sims, judge) ==
    LET list == Shortlist(sims)
        dups == Valid(judge.duplicates, Len(list))
        sups == Valid(judge.supersedes, Len(list))
    IN  IF list = <<>> THEN Decision("new", <<>>)
        ELSE IF judge.fails THEN Fallback(sims)
        ELSE IF sups # <<>> THEN Decision("supersede", [i \in DOMAIN sups |-> list[sups[i]].pos])
        ELSE IF dups # <<>> THEN Decision("duplicate", <<list[dups[1]].pos>>)
        ELSE Decision("new", <<>>)

\* classify
Classify(sims, judge) ==
    LET list == Shortlist(sims)
        dups == Valid(judge.duplicates, Len(list))
        sups == Valid(judge.supersedes, Len(list))
    IN  IF list = <<>> THEN Decision("new", <<>>)
        ELSE IF judge.fails THEN Fallback(sims)
        ELSE IF dups # <<>> THEN Decision("duplicate", <<list[dups[1]].pos>>)
        ELSE IF sups # <<>> THEN Decision("supersede", [i \in DOMAIN sups |-> list[sups[i]].pos])
        ELSE Decision("new", <<>>)

====
