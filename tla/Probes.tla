---- MODULE Probes ----
(* eval/probes.py: the quality of the extractor and of dedup, each measured   *)
(* on its own, with one sentence or two at a time.                            *)
EXTENDS Extraction, Dedup

\* Mutant: the last memory with an edit is looked at.
ExtractorProbeLast(items, truth) ==
    LET edits == Picked(items, {i \in DOMAIN items : items[i].route = "edit" /\ items[i].edit})
    IN  [routed |-> edits # <<>>, match |-> edits # <<>> /\ Last(edits).text = truth]

\* extractor_probe, one row, for a sentence that states the proposition truth:
\* the first memory with an edit is compared with it.
ExtractorProbe(items, truth) ==
    LET edits == Picked(items, {i \in DOMAIN items : items[i].route = "edit" /\ items[i].edit})
    IN  [routed |-> edits # <<>>, match |-> edits # <<>> /\ Head(edits).text = truth]

\* What a judge that says the same of memory i, whatever else it is shown, says
\* when that is the only one.
Alone(sims, judge, i) ==
    LET at == {r \in DOMAIN Shortlist(sims) : Shortlist(sims)[r].pos = i}
        says(indices) == IF at \intersect ToSet(indices) # {} THEN <<1>> ELSE <<>>
    IN  [judge EXCEPT !.duplicates = says(@), !.supersedes = says(@)]

\* dedup_probe, one row: the candidate against a registry of one memory.
DedupProbe(sims, judge, i) == Classify(<<sims[i]>>, Alone(sims, judge, i)).verdict

====
