---- MODULE Prompt ----
(* memory/prompt.py: which memories a prompt shows.  An item is its cost in   *)
(* tokens as a numbered line, a segment the sequence of its items' costs.     *)
(* Every line costs at least its newline, every turn its role.                *)
EXTENDS Sequencing

CONSTANTS
    MarkerCost,      \* tokens of "(... N more omitted)", the same for every N
    Mandatory,       \* SYSTEM, the three headers and the slack
    ScenarioHeader,  \* tokens of SCENARIO_HEADER
    NoBudget         \* token_budget = None

ASSUME CostAssumption ==
    MarkerCost \in Nat \ {0} /\ Mandatory \in Nat /\ ScenarioHeader \in Nat
ASSUME NoBudgetAssumption == NoBudget \notin Nat

\* Tokens of the first n entries of a segment.
Cost(costs, n) ==
    LET sum[i \in 0 .. Len(costs)] == IF i = 0 THEN 0 ELSE sum[i - 1] + costs[i]
    IN  sum[n]

\* Mutant: an entry that fits exactly is refused.
GreedyStrict(costs, budget) ==
    LET kept[i \in 0 .. Len(costs)] ==
            IF i = 0 THEN 0
            ELSE IF kept[i - 1] = i - 1 /\ Cost(costs, i) < budget THEN i ELSE kept[i - 1]
    IN  kept[Len(costs)]

\* How many entries the loop keeps that ends at the first one that does not fit.
Greedy(costs, budget) ==
    LET kept[i \in 0 .. Len(costs)] ==
            IF i = 0 THEN 0
            ELSE IF kept[i - 1] = i - 1 /\ Cost(costs, i) <= budget THEN i ELSE kept[i - 1]
    IN  kept[Len(costs)]

\* Mutant: the marker is added without making room for it.
FitPrefixNoEviction(costs, budget) ==
    LET kept == Greedy(costs, budget)
    IN  IF kept = Len(costs)
        THEN [kept |-> kept, omitted |-> 0, used |-> Cost(costs, kept)]
        ELSE [kept |-> kept, omitted |-> Len(costs) - kept,
              used |-> Cost(costs, kept) + MarkerCost]

\* _fit_prefix: when entries are omitted, kept ones are evicted from the end
\* until the marker fits; when even then it does not, it is shown all the same.
FitPrefix(costs, budget) ==
    LET greedy == Greedy(costs, budget)
        evict[n \in 0 .. Len(costs)] ==
            IF n > 0 /\ Cost(costs, n) + MarkerCost > budget THEN evict[n - 1] ELSE n
    IN  IF greedy = Len(costs)
        THEN [kept |-> greedy, omitted |-> 0, used |-> Cost(costs, greedy)]
        ELSE [kept |-> evict[greedy], omitted |-> Len(costs) - evict[greedy],
              used |-> Cost(costs, evict[greedy]) + MarkerCost]

\* _fit_history_newest: the kept turns are the last ones.
FitHistoryNewest(costs, budget) ==
    LET kept == Greedy(Reverse(costs), budget)
    IN  [kept |-> kept, used |-> Cost(Reverse(costs), kept)]

\* _split_rag: the costs of the hits that are facts, and of the others.
CostsOf(hits, positions) ==
    LET some == Picked(hits, positions) IN [i \in DOMAIN some |-> some[i].cost]
FactsOf(hits) == CostsOf(hits, {i \in DOMAIN hits : hits[i].type = "fact"})
DocsOf(hits) == CostsOf(hits, {i \in DOMAIN hits : hits[i].type # "fact"})

\* What is left for the segments: an empty private lane has no header.
Room(in) ==
    MaxOf(0, in.budget - Mandatory - (IF in.private = <<>> THEN 0 ELSE ScenarioHeader))

\* Without a budget, as the server asks for it, nothing is omitted.
Everything(in) ==
    LET all(costs) == [kept |-> Len(costs), omitted |-> 0, used |-> Cost(costs, Len(costs))]
    IN  [private |-> all(in.private), buffer |-> all(in.buffer), facts |-> all(FactsOf(in.hits)),
         history |-> [kept |-> Len(in.history), used |-> Cost(in.history, Len(in.history))],
         docs |-> all(DocsOf(in.hits))]

Left(room, shown) == MaxOf(0, room - shown.used)

\* Mutant: the pending memories are served last.
WithinBudgetBufferLast(in) ==
    LET private == FitPrefix(in.private, Room(in))
        room1   == Left(Room(in), private)
        facts   == FitPrefix(FactsOf(in.hits), room1)
        room2   == Left(room1, facts)
        history == FitHistoryNewest(in.history, room2)
        room3   == Left(room2, history)
        docs    == FitPrefix(DocsOf(in.hits), room3)
        buffer  == FitPrefix(in.buffer, Left(room3, docs))
    IN  [private |-> private, buffer |-> buffer, facts |-> facts,
         history |-> history, docs |-> docs]

\* build_prompt with a budget: each segment takes, in order, what it can of what
\* the ones before it left.
WithinBudget(in) ==
    LET private == FitPrefix(in.private, Room(in))
        room1   == Left(Room(in), private)
        buffer  == FitPrefix(in.buffer, room1)
        room2   == Left(room1, buffer)
        facts   == FitPrefix(FactsOf(in.hits), room2)
        room3   == Left(room2, facts)
        history == FitHistoryNewest(in.history, room3)
        docs    == FitPrefix(DocsOf(in.hits), Left(room3, history))
    IN  [private |-> private, buffer |-> buffer, facts |-> facts,
         history |-> history, docs |-> docs]

BuildPrompt(in) == IF in.budget = NoBudget THEN Everything(in) ELSE WithinBudget(in)

====
