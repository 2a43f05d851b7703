---- MODULE Prototypes ----
(* The prototypes of spikes/ that the server's design rests on: the mailbox   *)
(* of spike v07, the gate of spike v21, the criterion of spike v26 and the    *)
(* planner of spike v27.                                                      *)
EXTENDS Scenario

CONSTANT MaxMemories    \* max_memories of _lexical_plan

ASSUME MemoriesAssumption == MaxMemories \in Nat

----
\* spike v07: one worker trains copies of the live adapter and leaves them in a
\* mailbox of one place; a request takes what is there and puts it in the slot.
\* An adapter is the set of jobs it was trained with.

Nothing07 == [full |-> FALSE, jobs |-> {}]
Holds(jobs) == [full |-> TRUE, jobs |-> jobs]

Spike07Init == [live |-> {}, pending |-> Nothing07, shadow |-> Nothing07, next |-> 1]

\* Mutant: the copy starts from an empty codebook.
CloneEmpty(s, fails) ==
    IF fails[s.next] THEN [s EXCEPT !.next = @ + 1]
    ELSE [s EXCEPT !.shadow = Holds({})]

\* worker_loop up to the training; a job that raises is given up.
Clone(s, fails) ==
    IF fails[s.next] THEN [s EXCEPT !.next = @ + 1]
    ELSE [s EXCEPT !.shadow = Holds(s.live)]

\* The trained copy goes to the mailbox, whatever lies in it.
Publish(s) ==
    [s EXCEPT !.pending = Holds(s.shadow.jobs \union {s.next}),
              !.shadow = Nothing07, !.next = @ + 1]

\* serve: maybe_promote, then the answer.
ServeRequest(s) ==
    IF s.pending.full THEN [s EXCEPT !.live = s.pending.jobs, !.pending = Nothing07] ELSE s

\* One event of a schedule; the worker has nothing to do when no job is left.
Spike07Step(s, event, fails) ==
    IF event = "request" THEN ServeRequest(s)
    ELSE IF s.shadow.full THEN Publish(s)
    ELSE IF s.next \in DOMAIN fails THEN Clone(s, fails)
    ELSE s

Spike07(schedule, fails) ==
    LET after[k \in 0 .. Len(schedule)] ==
            IF k = 0 THEN Spike07Init ELSE Spike07Step(after[k - 1], schedule[k], fails)
    IN  after[Len(schedule)]

----
\* spike v21: each labelled input is given to the real extractor several times.
\* A run is the types of the items that it found, or <<"failed">>.

Classes == {"fact", "belief", "other", "dropped"}

\* classify_once: only the first item counts.
ClassifyOnce(run) == IF run = <<>> THEN "dropped" ELSE Head(run)

Usable(runs) ==
    LET labels == [i \in DOMAIN runs |-> ClassifyOnce(runs[i])]
    IN  Picked(labels, {i \in DOMAIN labels : labels[i] # "failed"})

Votes(labels, class) == Cardinality({i \in DOMAIN labels : labels[i] = class})

\* Mutant: the last run decides.
MajorityLast(runs) == IF Usable(runs) = <<>> THEN "failed" ELSE Last(Usable(runs))

\* Counter(usable).most_common(1): of the most frequent, the first that came.
Majority(runs) ==
    LET labels == Usable(runs)
        most == {i \in DOMAIN labels :
                    \A class \in Classes : Votes(labels, class) <= Votes(labels, labels[i])}
    IN  IF labels = <<>> THEN "failed" ELSE labels[Min(most)]

\* How many inputs that should be of class gold are taken for class pred.
Confusion(inputs, gold, pred) ==
    Cardinality({i \in DOMAIN inputs : inputs[i].gold = gold /\ Majority(inputs[i].runs) = pred})

\* The verdict: no fact is taken for a belief, and no run failed.
RouterGate(inputs) ==
    /\ Confusion(inputs, "fact", "belief") = 0
    /\ \A i \in DOMAIN inputs : <<"failed">> \notin ToSet(inputs[i].runs)

----
\* spike v26: memories are taught, then asked for.

\* Mutant: whose row an alias hits is not looked at.
AliasHitsAnything(i, probe, registry) == probe.sim >= Threshold

CanonicalSlots(m) == ToSet(m.canonical)

\* The natural question about a memory may hit any of its rows.
ProbeHits(i, probe, registry) ==
    /\ Owner(probe.slot, registry) = i
    /\ probe.sim >= Threshold

AliasHits(i, probe, registry) ==
    /\ ProbeHits(i, probe, registry)
    /\ probe.slot \in CanonicalSlots(registry[i])

\* The verdict: every case was taught with canonical rows, and its question and
\* its aliases find them.
FixturePasses(natural, aliases, registry) ==
    \A i \in DOMAIN registry :
        /\ registry[i].live
        /\ registry[i].canonical # <<>>
        /\ ProbeHits(i, natural[i], registry)
        /\ \A a \in DOMAIN aliases[i] : AliasHits(i, aliases[i][a], registry)

----
\* spike v27

\* _lexical_plan: three times the planner terms and once the alias words; a
\* memory without a planner term in common is left out.  Ties go to the higher id.
LexicalPlan(memories) ==
    LET score(i) == 3 * memories[i].terms + memories[i].aliases
        before(i, j) == \/ score(i) > score(j)
                        \/ score(i) = score(j) /\ memories[i].id > memories[j].id
    IN  Take(Sorted({i \in DOMAIN memories : memories[i].terms > 0}, before), MaxMemories)

\* Mutant: the planned memory is taken, not the owner of the row it hits.
ResolvePlanned(planned, probes, registry) ==
    Picked(planned, {r \in DOMAIN planned : BestProbe(probes[planned[r]]).sim >= Threshold})

\* _resolve_by_gate: the owners of the rows that the planned memories hit best,
\* once each; it need not be the planned memory.
ResolveByGate(planned, probes, registry) ==
    OnceIn([r \in DOMAIN planned |->
               IF BestProbe(probes[planned[r]]).sim >= Threshold
               THEN Owner(BestProbe(probes[planned[r]]).slot, registry) ELSE 0],
           DOMAIN registry)

\* _notes_for, _generate: what an answer mentions is what the model says of
\* itself, and the notes it is given, but for those it ignores.
Answer(notes, says) == says.own \union (notes \ says.ignores)

\* Mutant: whatever is mentioned counts.
Score27OfAll(answer, expected) == Cardinality(answer)

\* _score: how many of the expected memories the answer mentions.
Score27(answer, expected) == Cardinality(answer \intersect ToSet(expected))

\* _run_planned_mode; _oracle_plan plans what is expected, the raw mode nothing.
RunPlannedMode(planned, expected, probes, registry, says) ==
    Score27(Answer(ToSet(ResolveByGate(planned, probes, registry)), says), expected)

OraclePlan(expected) == expected

RawMode(expected, says) == Score27(Answer({}, says), expected)

====
