---- MODULE Scenario ----
(* serving/scenario_memory.py and app.attribution: from a codebook slot back  *)
(* to the memory it belongs to, and the memories a free-form request gets in  *)
(* its private lane.  A registry is the sequence store.by_status returns.     *)
EXTENDS Sequencing

CONSTANTS
    Threshold,       \* hopfield_key_match_threshold
    MaxCandidates,   \* max_candidates of plan
    MaxSelected,     \* max_selected
    NoSlot           \* a key index that is not recorded

ASSUME PlanAssumption ==
    Threshold \in Nat /\ MaxCandidates \in Nat \ {0} /\ MaxSelected \in Nat \ {0}

\* _slots: the indices under PROV_CODEBOOK_KEYS.
Slots(m) == ({m.native, m.chat} \union ToSet(m.canonical)) \ {NoSlot}

\* _owner_for_slot: the position of the first memory that lists the slot; 0 for
\* None.
Owner(slot, registry) ==
    LET owners == {i \in DOMAIN registry : slot \in Slots(registry[i])}
    IN  IF owners = {} THEN 0
        ELSE CHOOSE i \in owners : \A j \in owners : i <= j

\* Mutant: the search does not stop at the first memory that lists the slot.
AttributionLast(gate, registry) ==
    LET matches == {i \in DOMAIN registry : gate.slot \in
                       {registry[i].native, registry[i].chat} \union ToSet(registry[i].canonical)}
    IN  [hit    |-> gate.sim > Threshold,
         memory |-> IF matches = {} THEN 0
                    ELSE CHOOSE i \in matches : \A j \in matches : j <= i]

\* app.attribution for what the gate said; its own search for the slot.
Attribution(gate, registry) ==
    LET matches == {i \in DOMAIN registry :
                       \/ gate.slot = registry[i].native
                       \/ gate.slot = registry[i].chat
                       \/ gate.slot \in ToSet(registry[i].canonical)}
    IN  [hit    |-> gate.sim > Threshold,
         memory |-> IF matches = {} THEN 0
                    ELSE CHOOSE i \in matches : \A j \in matches : i <= j]

\* scored.sort(reverse = True): by overlap, then time, then id.
RanksBefore(m, n) ==
    \/ m.score > n.score
    \/ m.score = n.score /\ m.ts > n.ts
    \/ m.score = n.score /\ m.ts = n.ts /\ m.id > n.id

\* _candidate_memories, as positions.  An object of the registry may have been
\* retired since it was listed.
CandidateMemories(registry) ==
    Take(Sorted({i \in DOMAIN registry : registry[i].live /\ registry[i].score > 0},
                LAMBDA i, j : RanksBefore(registry[i], registry[j])),
         MaxCandidates)

\* The probes of a candidate whose gate raises; any other has some.
GateFails == <<>>

\* The best of a candidate's probes: the first one of the highest similarity.
BestProbe(probes) ==
    probes[CHOOSE q \in DOMAIN probes :
              \A r \in DOMAIN probes : probes[r].sim < probes[q].sim
                                       \/ (probes[r].sim = probes[q].sim /\ q <= r)]

\* Mutant: a probe above the threshold counts whosever slot it hits.
VerifiedByScore(i, probes, registry) == BestProbe(probes).sim >= Threshold

\* The probe leads back to the candidate's own rows.
Verified(i, probes, registry) ==
    LET best == BestProbe(probes)
    IN  Owner(best.slot, registry) = i /\ best.sim >= Threshold

\* One candidate of the loop of plan; an exception of a gate ends it all.
PlanStep(plan, i, probes, registry) ==
    IF plan.failed \/ Len(plan.selected) >= MaxSelected THEN plan
    ELSE IF probes[i] = GateFails THEN [selected |-> <<>>, failed |-> TRUE]
    ELSE IF Verified(i, probes[i], registry)
         THEN [plan EXCEPT !.selected = Append(@, i)]
         ELSE plan

\* The loop over candidates.
NothingPlanned == [selected |-> <<>>, failed |-> FALSE]
PlanLoop(candidates, probes, registry) ==
    LET after[r \in 0 .. Len(candidates)] ==
            IF r = 0 THEN NothingPlanned
                     ELSE PlanStep(after[r - 1], candidates[r], probes, registry)
    IN  after[Len(candidates)]

\* plan: the selected memories, as positions.
Plan(editActive, registry, probes) ==
    IF editActive THEN PlanLoop(CandidateMemories(registry), probes, registry)
                  ELSE NothingPlanned

\* response: what the user interface shows of each selected memory.
Response(plan, probes) ==
    [r \in DOMAIN plan.selected |->
        [memory |-> plan.selected[r],
         similarity |-> BestProbe(probes[plan.selected[r]]).sim,
         slot |-> BestProbe(probes[plan.selected[r]]).slot]]

====
