---- MODULE Retrieval ----
(* The pure parts of memory/rag_store.py: how a text becomes windows and how  *)
(* search ranks the items behind them.  A text is its length, a similarity an *)
(* integer.                                                                  *)
EXTENDS Sequencing

CONSTANTS
    ChunkChars,      \* CHUNK_CHARS
    ChunkOverlap,    \* CHUNK_OVERLAP
    PoolFactor,      \* the 4 of max(k * 4, 20)
    MinPool          \* the 20 of it

ASSUME ChunkAssumption == ChunkChars \in Nat \ {0} /\ ChunkOverlap \in 0 .. ChunkChars
ASSUME PoolAssumption == PoolFactor \in Nat \ {0} /\ MinPool \in Nat

\* _split_chunks
SplitChunks(n) ==
    IF n <= ChunkChars THEN <<Window(n, 0, ChunkChars)>>
                       ELSE OverlappingWindows(n, ChunkChars, ChunkOverlap)

TopN(k) == MaxOf(k * PoolFactor, MinPool)

\* Mutant: the pool of chunks is not sorted before it is cut.
UnsortedCandidates(chunks, known, k) ==
    SelectSeq(FirstOfEach(Take(chunks, TopN(k)), LAMBDA c : c.item),
              LAMBDA c : c.item \in known)

\* search: the best chunks, the item of each with its best score, without the
\* items that store.rag_all does not know.
Candidates(chunks, known, k) ==
    LET pool == Take(BestFirst(chunks), TopN(k))
    IN  Picked(pool, {i \in DOMAIN pool :
                         /\ pool[i].item \in known
                         /\ \A j \in 1 .. i - 1 : pool[j].item # pool[i].item})

\* What _rerank makes of a language model that raises or lists no numbers.
NoOrder == <<>>

\* Mutant: an index that is listed twice is honoured twice.
RerankRepeats(candidates, order) ==
    LET valid == SelectSeq(order, LAMBDA x : x \in 0 .. Len(candidates) - 1)
        rest  == SelectSeq([i \in DOMAIN candidates |-> i - 1],
                           LAMBDA x : x \notin ToSet(valid))
    IN  [i \in DOMAIN (valid \o rest) |-> candidates[(valid \o rest)[i] + 1]]

\* _rerank: valid indices once each, in the model's order, then the others as
\* they came.  order counts from 0.
Rerank(candidates, order) ==
    LET valid == OnceIn(order, 0 .. Len(candidates) - 1)
        rest  == Picked([i \in DOMAIN candidates |-> i - 1],
                        {i \in DOMAIN candidates : i - 1 \notin ToSet(valid)})
    IN  [i \in DOMAIN (valid \o rest) |-> candidates[(valid \o rest)[i] + 1]]

\* search: the language model is only asked when there is something to cut.
Search(chunks, known, k, order) ==
    LET found == Candidates(chunks, known, k)
    IN  IF Len(found) <= k THEN Take(found, k)
                          ELSE Take(Rerank(found, order), k)

====
