---- MODULE AlgorithmProofs ----
(* Theorems about what Algorithms compares: each is first shown of the         *)
(* algorithm for every input, whatever its size, and then of the calls.        *)
EXTENDS Algorithms, SequencingProofs

----
\* Calls

\* Which algorithm was called last.
LEMMA CallOf ==
    ASSUME Next
    PROVE
        /\ call'.op = "windows" => SplitText
        /\ call'.op = "rerank" => RerankItems
        /\ call'.op = "search" => SearchItems
        /\ call'.op = "fit" => FitSegment
        /\ call'.op = "prompt" => AssemblePrompt
        /\ call'.op = "candidate" => CheckCandidate
        /\ call'.op = "extract" => ExtractChat
        /\ call'.op = "dedup" => ClassifyCandidate
        /\ call'.op = "keys" => MakeKeys
        /\ call'.op = "plan" => PlanScenario
        /\ call'.op = "prototype" => PlanPrototype
        /\ call'.op = "router" => JudgeRouter
        /\ call'.op = "mailbox" => RunMailbox
        /\ call'.op = "load" => LoadDataset
        /\ call'.op = "rungs" => RunRungs
        /\ call'.op = "score" => ScoreAnswer
        /\ call'.op = "write" => WriteFile
<1>1. SplitText => call'.op = "windows"
  BY DEF SplitText
<1>2. RerankItems => call'.op = "rerank"
  <2>1. RerankItems => \E x1, x2 :
            call' = [op |-> "rerank", candidates |-> x1, order |-> x2]
    BY Zenon DEF RerankItems
  <2> QED BY <2>1
<1>3. SearchItems => call'.op = "search"
  <2>1. SearchItems => \E x1, x2, x3, x4 :
            call' = [op |-> "search", chunks |-> x1, known |-> x2, k |-> x3, order |-> x4]
    BY Zenon DEF SearchItems
  <2> QED BY <2>1
<1>4. FitSegment => call'.op = "fit"
  <2>1. FitSegment => \E x1, x2 :
            call' = [op |-> "fit", costs |-> x1, budget |-> x2]
    BY Zenon DEF FitSegment
  <2> QED BY <2>1
<1>5. AssemblePrompt => call'.op = "prompt"
  <2>1. AssemblePrompt => \E x1 :
            call' = [op |-> "prompt", in |-> x1]
    BY Zenon DEF AssemblePrompt
  <2> QED BY <2>1
<1>6. CheckCandidate => call'.op = "candidate"
  BY DEF CheckCandidate
<1>7. ExtractChat => call'.op = "extract"
  BY DEF ExtractChat
<1>8. ClassifyCandidate => call'.op = "dedup"
  BY DEF ClassifyCandidate
<1>9. MakeKeys => call'.op = "keys"
  <2>1. MakeKeys => \E x1 :
            call' = [op |-> "keys", memory |-> x1]
    BY Zenon DEF MakeKeys
  <2> QED BY <2>1
<1>10. PlanScenario => call'.op = "plan"
  <2>1. PlanScenario => \E x1, x2, x3 :
            call' = [op |-> "plan", editActive |-> x1, registry |-> x2, probes |-> x3]
    BY Zenon DEF PlanScenario
  <2> QED BY <2>1
<1>11. PlanPrototype => call'.op = "prototype"
  <2>1. PlanPrototype => \E x1, x2, x3, x4, x5 :
            call' = [op |-> "prototype", expected |-> x1, says |-> x2, memories |-> x3, registry |-> x4, probes |-> x5]
    BY ZenonT(40) DEF PlanPrototype
  <2> QED BY <2>1
<1>12. JudgeRouter => call'.op = "router"
  <2>1. JudgeRouter => \E x1 :
            call' = [op |-> "router", inputs |-> x1]
    BY Zenon DEF JudgeRouter
  <2> QED BY <2>1
<1>13. RunMailbox => call'.op = "mailbox"
  BY DEF RunMailbox
<1>15. LoadDataset => call'.op = "load"
  <2>1. LoadDataset => \E x1 :
            call' = [op |-> "load", doc |-> x1]
    BY Zenon DEF LoadDataset
  <2> QED BY <2>1
<1>16. RunRungs => call'.op = "rungs"
  BY DEF RunRungs
<1>17. ScoreAnswer => call'.op = "score"
  BY DEF ScoreAnswer
<1>18. WriteFile => call'.op = "write"
  BY DEF WriteFile
<1> QED BY <1>1, <1>2, <1>3, <1>4, <1>5, <1>6, <1>7, <1>8, <1>9, <1>10, <1>11, <1>12, <1>13, <1>15, <1>16, <1>17, <1>18 DEF Next

----
\* Windows

LEMMA WindowsAreSound ==
    ASSUME NEW n \in Nat, NEW size \in Nat \ {0}, NEW overlap \in 0 .. size
    PROVE  Covers(OverlappingWindows(n, size, overlap), n, size, overlap)
<1> DEFINE ws   == OverlappingWindows(n, size, overlap)
           step == StepOf(size, overlap)
<1>1. Stepping(ws, 0, n, size, step)
  BY OverlappingWindowsStep
<1>2. step \in 1 .. size
  BY DEF StepOf, MaxOf
<1> HIDE DEF ws
<1>3. ASSUME NEW len \in 1 .. MinOf(overlap + 1, size), NEW start \in 0 .. n - len
      PROVE  \E i \in DOMAIN ws : ws[i].from <= start /\ start + len <= ws[i].to
  BY <1>1, <1>3, SteppingCovers
<1> HIDE DEF step
<1>4. \A i, j \in DOMAIN ws : i < j => ws[i].from < ws[j].from /\ ws[i].to < ws[j].to
  BY <1>1, <1>2, SteppingAdvances
<1>5. ASSUME NEW i \in DOMAIN ws
      PROVE  ws[i].to - ws[i].from <= size
  <2>1. ws \in Seq(Windowed)
    BY <1>1 DEF Stepping
  <2>2. i \in 1 .. Len(ws) /\ ws[i] \in Windowed
    BY <2>1
  <2>3. ws[i].from \in Nat /\ ws[i].to = MinOf(ws[i].from + size, n)
    BY <1>1, <2>2 DEF Stepping, Windowed
  <2> QED BY <2>3 DEF MinOf
<1> QED BY <1>3, <1>4, <1>5 DEF Covers, ws

\* One window, when it is long enough for everything.
LEMMA OneWindowIsSound ==
    ASSUME NEW n \in Nat, NEW size \in Nat, n <= size, NEW overlap \in Nat, NEW to, to = n
    PROVE  Covers(<<[from |-> 0, to |-> to]>>, n, size, overlap)
<1> DEFINE ws == <<[from |-> 0, to |-> to]>>
<1>1. DOMAIN ws = {1} /\ ws[1].from = 0 /\ ws[1].to = n
  OBVIOUS
<1> HIDE DEF ws
<1>2. ASSUME NEW len \in 1 .. MinOf(overlap + 1, size), NEW start \in 0 .. n - len
      PROVE  \E i \in DOMAIN ws : ws[i].from <= start /\ start + len <= ws[i].to
  <2>1. 0 <= start /\ start + len <= n
    BY DEF MinOf
  <2> QED BY <1>1, <2>1
<1>3. \A i, j \in DOMAIN ws : i < j => ws[i].from < ws[j].from /\ ws[i].to < ws[j].to
  BY <1>1
<1>4. \A i \in DOMAIN ws : ws[i].to - ws[i].from <= size
  BY <1>1
<1> QED BY <1>2, <1>3, <1>4 DEF Covers, ws

LEMMA SplitChunksAreSound ==
    ASSUME NEW n \in Nat
    PROVE  Covers(SplitChunks(n), n, ChunkChars, ChunkOverlap)
<1>1. CASE n <= ChunkChars
  <2>1. SplitChunks(n) = <<[from |-> 0, to |-> MinOf(0 + ChunkChars, n)]>>
    BY <1>1 DEF SplitChunks, Window
  <2>2. MinOf(0 + ChunkChars, n) = n
    BY <1>1, ChunkAssumption DEF MinOf
  <2> QED BY <1>1, <2>1, <2>2, OneWindowIsSound, ChunkAssumption
<1>2. CASE ~ (n <= ChunkChars)
  BY <1>2, WindowsAreSound, ChunkAssumption DEF SplitChunks
<1> QED BY <1>1, <1>2

LEMMA ChatWindowsAreSound ==
    ASSUME NEW n \in Nat
    PROVE  Covers(Windows(n, SingleChars + 1), n, WindowMsgs, OverlapMsgs)
<1>1. ~ (SingleChars + 1 <= SingleChars)
  BY WindowAssumption
<1> QED BY <1>1, WindowsAreSound, WindowAssumption DEF Windows

\* A text of any length, cut with any size and overlap, is covered by its windows:
\* what is no longer than the overlap plus one is whole in one of them, and none
\* is part of another (rag_store._split_chunks, extract._windows).
THEOREM WindowsCoverHolds == Spec => []WindowsCover
<1>1. Init => WindowsCover
  BY DEF Init, WindowsCover
<1>2. WindowsCover /\ [Next]_call => WindowsCover'
  <2> SUFFICES ASSUME Next, call'.op = "windows" PROVE WindowsCover'
    BY DEF WindowsCover
  <2>1. PICK n \in 0 .. MaxLength, size \in 1 .. 4 : \E overlap \in 0 .. size :
            call' = [op |-> "windows", n |-> n, size |-> size, overlap |-> overlap]
    BY CallOf DEF SplitText
  <2>2. PICK overlap \in 0 .. size :
            call' = [op |-> "windows", n |-> n, size |-> size, overlap |-> overlap]
    BY <2>1
  <2>3. n \in Nat /\ size \in Nat \ {0}
    BY BoundAssumption
  <2>4. /\ Covers(OverlappingWindows(n, size, overlap), n, size, overlap)
        /\ Covers(SplitChunks(n), n, ChunkChars, ChunkOverlap)
        /\ Covers(Windows(n, SingleChars + 1), n, WindowMsgs, OverlapMsgs)
    BY <2>3, WindowsAreSound, SplitChunksAreSound, ChatWindowsAreSound
  <2>5. call'.n = n /\ call'.size = size /\ call'.overlap = overlap
    BY <2>2
  <2> QED BY <2>4, <2>5 DEF WindowsCover
<1> QED BY <1>1, <1>2, PTL DEF Spec

----
\* Retrieval

\* w lists the candidates, counted from 0, in the order that _rerank puts them in:
\* first the a that the language model lists, then the others as they came.
Reranks(candidates, order, n, a, w) ==
    /\ a \in 0 .. n
    /\ w \in [1 .. n -> 0 .. n - 1]
    /\ \A x \in 0 .. n - 1 : \E r \in 1 .. n : w[r] = x
    /\ \A q, r \in 1 .. n : w[q] = w[r] => q = r
    /\ \A r \in 1 .. n : r <= a <=> w[r] \in ToSet(order)
    /\ \A q, r \in 1 .. n : a < q /\ q < r => w[q] < w[r]
    /\ Rerank(candidates, order) = [r \in 1 .. n |-> candidates[w[r] + 1]]

LEMMA RerankIs ==
    ASSUME NEW n \in Nat, NEW S, NEW candidates \in [1 .. n -> S],
           NEW N \in Nat, NEW order, DOMAIN order = 1 .. N
    PROVE  \E a, w : Reranks(candidates, order, n, a, w)
<1> DEFINE Z == 0 .. n - 1
           v == OnceIn(order, Z)
           R == {i \in 1 .. n : i - 1 \notin ToSet(v)}
           from == [i \in 1 .. n |-> i - 1]
           u == Picked(from, R)
           w == v \o u
<1>1. Len(candidates) = n /\ DOMAIN candidates = 1 .. n
  <2>1. candidates \in Seq(S) /\ DOMAIN candidates = 1 .. n
    OBVIOUS
  <2> QED BY <2>1
<1>2. Rerank(candidates, order) = [r \in DOMAIN w |-> candidates[w[r] + 1]]
  BY <1>1 DEF Rerank
<1>3. IsOnceOf(v, order, Z)
  BY OnceInIs
<1>4. IsFiniteSet(R) /\ R \subseteq Int
  <2>1. R \in SUBSET (1 .. n) /\ 1 .. n \subseteq Int
    OBVIOUS
  <2>2. IsFiniteSet(1 .. n)
    BY FS_Interval
  <2> HIDE DEF R
  <2> QED BY <2>1, <2>2, FS_Subset
<1>5. PICK b, e : Picking(from, R, b, e)
  BY <1>4, PickedBy
<1>6. \A i : i \in R <=> i \in 1 .. n /\ i - 1 \notin ToSet(v)
  OBVIOUS
<1>7. \A i \in 1 .. n : from[i] = i - 1
  OBVIOUS
<1>8. \A x : x \in Z <=> x \in Int /\ 0 <= x /\ x < n
  OBVIOUS
<1> HIDE DEF v, R, from, Z
<1>9. PICK a \in Nat : v \in [1 .. a -> Z]
  BY <1>3 DEF IsOnceOf
<1>10. /\ \A q, r \in 1 .. a : v[q] = v[r] => q = r
       /\ \A x : x \in ToSet(v) <=> x \in ToSet(order) /\ x \in Z
       /\ \A x : x \in ToSet(v) <=> \E r \in 1 .. a : v[r] = x
  <2>1. DOMAIN v = 1 .. a
    BY <1>9
  <2> QED BY <1>3, <2>1 DEF IsOnceOf, ToSet
<1>11. /\ b \in Nat
       /\ \A r \in 1 .. b : e[r] \in R
       /\ \A i \in R : \E r \in 1 .. b : e[r] = i
       /\ \A q, r \in 1 .. b : q < r => e[q] < e[r]
       /\ u = Through(from, e, b)
  BY <1>5 DEF Picking
<1> HIDE DEF u
<1>12. u \in [1 .. b -> Z] /\ \A r \in 1 .. b : u[r] = e[r] - 1 /\ u[r] \in Z /\ u[r] \notin ToSet(v)
  <2>1. \A r \in 1 .. b : from[e[r]] = e[r] - 1 /\ e[r] \in 1 .. n /\ e[r] - 1 \notin ToSet(v)
    BY <1>6, <1>7, <1>11
  <2>2. \A r \in 1 .. b : e[r] - 1 \in Z
    <3> TAKE r \in 1 .. b
    <3>1. /\ e[r] \in Int /\ 1 <= e[r] /\ e[r] <= n
          /\ e[r] - 1 \in Int
      BY <2>1
    <3>2. 0 <= e[r] - 1 /\ e[r] - 1 < n
      BY <3>1
    <3> HIDE DEF Z
    <3> QED BY <1>8, <3>1, <3>2
  <2> QED BY <1>11, <2>1, <2>2 DEF Through
<1>13. \A q, r \in 1 .. b : q < r => u[q] < u[r]
  <2>1. \A r \in 1 .. b : e[r] \in Int
    BY <1>4, <1>11
  <2> QED BY <1>11, <1>12, <2>1
<1>14. /\ w \in [1 .. a + b -> Z]
       /\ \A r \in 1 .. a : w[r] = v[r]
       /\ \A r \in 1 .. b : w[a + r] = u[r]
       /\ \A r \in 1 .. a + b : r \in 1 .. a \/ (r - a \in 1 .. b /\ r = a + (r - a) /\ a < r)
  <2>1. v \in Seq(Z) /\ u \in Seq(Z) /\ Len(v) = a /\ Len(u) = b
    BY <1>9, <1>11, <1>12
  <2>2. v \o u \in Seq(Z) /\ Len(v \o u) = a + b /\ DOMAIN (v \o u) = 1 .. a + b
    BY <1>9, <1>11, <2>1
  <2>3. \A r \in 1 .. a : w[r] = v[r]
    BY <1>9, <1>11, <2>1
  <2>4. \A r \in 1 .. b : w[a + r] = u[r]
    BY <1>9, <1>11, <2>1
  <2>5. \A r \in 1 .. a + b : r \in 1 .. a \/ (r - a \in 1 .. b /\ r = a + (r - a) /\ a < r)
    BY <1>9, <1>11
  <2>6. w \in Seq(Z) /\ Len(w) = a + b
    BY <2>2
  <2> HIDE DEF w
  <2>7. w \in [1 .. a + b -> Z]
    BY <2>6
  <2> QED BY <2>3, <2>4, <2>5, <2>7
<1> HIDE DEF w
<1>15. \A r \in 1 .. a + b : /\ r \in 1 .. a <=> r <= a
                             /\ r <= a <=> w[r] \in ToSet(v)
  <2> SUFFICES ASSUME NEW r \in 1 .. a + b
               PROVE  /\ r \in 1 .. a <=> r <= a
                      /\ r <= a <=> w[r] \in ToSet(v)
    OBVIOUS
  <2>1. CASE r \in 1 .. a
    BY <1>9, <1>10, <1>14, <2>1
  <2>2. CASE r - a \in 1 .. b /\ r = a + (r - a) /\ a < r
    <3>1. w[r] = u[r - a]
      BY <1>14, <2>2
    <3>2. ~ (r <= a)
      BY <1>9, <2>2
    <3> QED BY <1>12, <2>2, <3>1, <3>2
  <2> QED BY <1>14, <2>1, <2>2
<1>16. \A x \in Z : \E r \in 1 .. a + b : w[r] = x
  <2> SUFFICES ASSUME NEW x \in Z PROVE \E r \in 1 .. a + b : w[r] = x
    OBVIOUS
  <2>1. CASE x \in ToSet(v)
    <3>1. PICK r \in 1 .. a : v[r] = x
      BY <1>10, <2>1
    <3>2. r \in 1 .. a + b
      BY <1>9, <1>11
    <3> QED BY <1>14, <3>1, <3>2
  <2>2. CASE x \notin ToSet(v)
    <3>1. x + 1 \in 1 .. n /\ (x + 1) - 1 = x /\ x \in Int
      BY <1>8
    <3>2. x + 1 \in R
      BY <1>6, <2>2, <3>1
    <3>3. PICK r \in 1 .. b : e[r] = x + 1
      BY <1>11, <3>2
    <3>4. a + r \in 1 .. a + b
      BY <1>9, <1>11
    <3>5. w[a + r] = e[r] - 1
      BY <1>12, <1>14
    <3> QED BY <3>1, <3>3, <3>4, <3>5
  <2> QED BY <2>1, <2>2
<1>17. ASSUME NEW q \in 1 .. a + b, NEW r \in 1 .. a + b, a < q, q < r
       PROVE  w[q] < w[r]
  <2>1. q - a \in 1 .. b /\ r - a \in 1 .. b /\ q - a < r - a
        /\ q = a + (q - a) /\ r = a + (r - a)
    BY <1>9, <1>11, <1>17
  <2>2. w[q] = u[q - a] /\ w[r] = u[r - a]
    BY <1>14, <2>1
  <2> QED BY <1>13, <2>1, <2>2
<1>18. ASSUME NEW q \in 1 .. a + b, NEW r \in 1 .. a + b, w[q] = w[r]
       PROVE  q = r
  <2>1. q <= a <=> r <= a
    BY <1>15, <1>18
  <2>2. CASE q <= a
    BY <1>10, <1>14, <1>15, <1>18, <2>1, <2>2
  <2>3. CASE ~ (q <= a)
    <3>1. a < q /\ a < r /\ w[q] \in Int
      BY <1>8, <1>9, <1>11, <1>14, <2>1, <2>3
    <3>2. ~ (q < r) /\ ~ (r < q)
      BY <1>17, <1>18, <3>1
    <3> QED BY <3>2, <1>9, <1>11
  <2> QED BY <2>2, <2>3
<1>19. a + b = n
  <2>1. IsFiniteSet(1 .. a + b) /\ Cardinality(1 .. a + b) = a + b
    BY <1>9, <1>11, FS_Interval
  <2>2. IsFiniteSet(Z) /\ Cardinality(Z) = n
    BY FS_Interval DEF Z
  <2>3. w \in Surjection(1 .. a + b, Z)
    BY <1>14, <1>16 DEF Surjection
  <2>4. w \in Injection(1 .. a + b, Z)
    BY <1>14, <1>18 DEF Injection, IsInjective
  <2>5. n = a + b
    BY <2>1, <2>2, <2>3, <2>4, FS_Surjection
  <2> QED BY <2>5
<1>20. DOMAIN w = 1 .. n
  BY <1>14, <1>19
<1>21. \A r \in 1 .. n : r <= a <=> w[r] \in ToSet(order)
  BY <1>10, <1>14, <1>15, <1>19
<1>22. Rerank(candidates, order) = [r \in 1 .. n |-> candidates[w[r] + 1]]
  BY <1>2, <1>20
<1>23. a \in 0 .. n
  BY <1>9, <1>11, <1>19
<1>24. Reranks(candidates, order, n, a, w)
  BY <1>14, <1>16, <1>17, <1>18, <1>19, <1>21, <1>22, <1>23 DEF Reranks, Z
<1> QED BY <1>24

\* Where x is in a sequence that has it once.
At(seq, x) == CHOOSE i \in DOMAIN seq : seq[i] = x

LEMMA AtIs ==
    ASSUME NEW n \in Nat, NEW seq, DOMAIN seq = 1 .. n,
           \A q, r \in 1 .. n : seq[q] = seq[r] => q = r,
           NEW r \in 1 .. n
    PROVE  At(seq, seq[r]) = r
BY DEF At

Different(c, n) == \A q, r \in 1 .. n : c[q] = c[r] => q = r

\* What _rerank promises of one call.
Permutes(c, result, listed) ==
    /\ Len(result) = Len(c)
    /\ ToSet(result) = ToSet(c)
    /\ \A x, y \in ToSet(result) \ listed :
           At(c, x) < At(c, y) <=> At(result, x) < At(result, y)
    /\ \A x \in listed, y \in ToSet(result) \ listed : At(result, x) < At(result, y)

LEMMA RerankPermutes ==
    ASSUME NEW n \in Nat, NEW S, NEW c \in [1 .. n -> S], Different(c, n),
           NEW N \in Nat, NEW order, DOMAIN order = 1 .. N,
           NEW result, result = Rerank(c, order),
           NEW listed, listed = {c[i + 1] : i \in ToSet(order) \intersect (0 .. Len(c) - 1)}
    PROVE  Permutes(c, result, listed)
<1>0. \A q, r \in 1 .. n : c[q] = c[r] => q = r
  BY DEF Different
<1>1. PICK a, w : Reranks(c, order, n, a, w)
  BY RerankIs
<1>2. /\ a \in 0 .. n
      /\ \A r \in 1 .. n : w[r] \in 0 .. n - 1 /\ w[r] + 1 \in 1 .. n
      /\ \A x \in 0 .. n - 1 : \E r \in 1 .. n : w[r] = x
      /\ \A q, r \in 1 .. n : w[q] = w[r] => q = r
      /\ \A r \in 1 .. n : r <= a <=> w[r] \in ToSet(order)
      /\ \A q, r \in 1 .. n : a < q /\ q < r => w[q] < w[r]
      /\ result = [r \in 1 .. n |-> c[w[r] + 1]]
  BY <1>1 DEF Reranks
<1>3. Len(c) = n /\ DOMAIN c = 1 .. n
  <2>1. c \in Seq(S) /\ DOMAIN c = 1 .. n
    OBVIOUS
  <2> QED BY <2>1
<1>4. DOMAIN result = 1 .. n /\ \A r \in 1 .. n : result[r] = c[w[r] + 1]
  BY <1>2
<1>5. Len(result) = n
  <2>1. result \in [1 .. n -> S]
    BY <1>2
  <2>2. result \in Seq(S) /\ DOMAIN result = 1 .. n
    BY <2>1
  <2> QED BY <2>2
<1>6. \A q, r \in 1 .. n : result[q] = result[r] => q = r
  <2> SUFFICES ASSUME NEW q \in 1 .. n, NEW r \in 1 .. n, result[q] = result[r] PROVE q = r
    OBVIOUS
  <2>1. w[q] + 1 = w[r] + 1
    BY <1>0, <1>2, <1>4
  <2>2. w[q] \in Int /\ w[r] \in Int
    BY <1>2
  <2>3. w[q] = w[r]
    BY <2>1, <2>2
  <2> QED BY <1>2, <2>3
<1>7. \A x : x \in ToSet(result) <=> \E r \in 1 .. n : result[r] = x
  BY <1>4 DEF ToSet
<1>8. \A x : x \in ToSet(c) <=> \E i \in 1 .. n : c[i] = x
  BY <1>3 DEF ToSet
<1>9. ToSet(result) = ToSet(c)
  <2>1. ASSUME NEW i \in 1 .. n
        PROVE  \E r \in 1 .. n : result[r] = c[i]
    <3>1. i - 1 \in 0 .. n - 1 /\ (i - 1) + 1 = i
      OBVIOUS
    <3>2. PICK r \in 1 .. n : w[r] = i - 1
      BY <1>2, <3>1
    <3> QED BY <1>4, <3>1, <3>2
  <2>2. \A r \in 1 .. n : \E i \in 1 .. n : c[i] = result[r]
    BY <1>2, <1>4
  <2>3. \A x : x \in ToSet(result) <=> x \in ToSet(c)
    BY <1>7, <1>8, <2>1, <2>2
  <2> QED BY <2>3
<1>10. ASSUME NEW r \in 1 .. n
       PROVE  /\ At(result, result[r]) = r
              /\ At(c, result[r]) = w[r] + 1
              /\ result[r] \in listed <=> r <= a
  <2>1. At(result, result[r]) = r
    BY <1>4, <1>6, AtIs
  <2>2. At(c, c[w[r] + 1]) = w[r] + 1
    <3>1. \A i \in 1 .. n : At(c, c[i]) = i
      BY <1>0, <1>3, AtIs
    <3> QED BY <1>2, <3>1
  <2>3. ASSUME result[r] \in listed
        PROVE  r <= a
    <3>1. PICK i \in ToSet(order) \intersect (0 .. n - 1) : c[i + 1] = c[w[r] + 1]
      BY <1>3, <1>4, <2>3
    <3>2. i + 1 \in 1 .. n /\ i \in Int
      OBVIOUS
    <3>3. i + 1 = w[r] + 1
      BY <1>0, <1>2, <3>1, <3>2
    <3>4. i = w[r]
      BY <1>2, <3>2, <3>3
    <3> QED BY <1>2, <3>4
  <2>4. ASSUME r <= a
        PROVE  result[r] \in listed
    <3>1. w[r] \in ToSet(order) \intersect (0 .. Len(c) - 1)
      BY <1>2, <1>3, <2>4
    <3> QED BY <1>4, <3>1
  <2> QED BY <1>4, <2>1, <2>2, <2>3, <2>4
<1>11. ASSUME NEW x \in ToSet(result) \ listed, NEW y \in ToSet(result) \ listed
       PROVE  At(c, x) < At(c, y) <=> At(result, x) < At(result, y)
  <2>1. PICK q \in 1 .. n : result[q] = x
    BY <1>7
  <2>2. PICK r \in 1 .. n : result[r] = y
    BY <1>7
  <2>3. /\ At(result, x) = q /\ At(c, x) = w[q] + 1
        /\ At(result, y) = r /\ At(c, y) = w[r] + 1
        /\ ~ (q <= a) /\ ~ (r <= a)
    BY <1>10, <2>1, <2>2
  <2>4. w[q] \in Int /\ w[r] \in Int /\ a < q /\ a < r
    BY <1>2, <2>3
  <2>5. q < r => w[q] < w[r]
    BY <1>2, <2>4
  <2>6. r < q => w[r] < w[q]
    BY <1>2, <2>4
  <2>7. q = r \/ q < r \/ r < q
    OBVIOUS
  <2> QED BY <2>3, <2>4, <2>5, <2>6, <2>7
<1>12. ASSUME NEW x \in listed, NEW y \in ToSet(result) \ listed
       PROVE  At(result, x) < At(result, y)
  <2>1. PICK i \in ToSet(order) \intersect (0 .. n - 1) : c[i + 1] = x
    BY <1>3
  <2>2. PICK q \in 1 .. n : w[q] = i
    BY <1>2
  <2>3. result[q] = x
    BY <1>4, <2>1, <2>2
  <2>4. PICK r \in 1 .. n : result[r] = y
    BY <1>7
  <2>5. /\ At(result, x) = q /\ q <= a
        /\ At(result, y) = r /\ ~ (r <= a)
    BY <1>10, <2>3, <2>4
  <2> QED BY <1>2, <2>5
<1> QED BY <1>3, <1>5, <1>9, <1>11, <1>12 DEF Permutes

\* What search finds, before it cuts: h sorts the chunks, the first p are the pool,
\* and f lists the places in it where a known item is for the first time.
Firstly(chunks, h, r) == \A j \in 1 .. r - 1 : chunks[h[j]].item # chunks[h[r]].item

Finds(chunks, known, k, n, h, p, m, f) ==
    /\ Sorting(chunks, n, h)
    /\ p = MinOf(n, TopN(k)) /\ p \in 0 .. n
    /\ m \in Nat
    /\ \A i \in 1 .. m : /\ f[i] \in 1 .. p
                         /\ chunks[h[f[i]]].item \in known
                         /\ Firstly(chunks, h, f[i])
    /\ \A r \in 1 .. p : chunks[h[r]].item \in known /\ Firstly(chunks, h, r) =>
          \E i \in 1 .. m : f[i] = r
    /\ \A q, r \in 1 .. m : q < r => f[q] < f[r]
    /\ Candidates(chunks, known, k) = [i \in 1 .. m |-> chunks[h[f[i]]]]

LEMMA TopNIs ==
    ASSUME NEW k \in Nat
    PROVE  TopN(k) \in Nat
<1>1. k * PoolFactor \in Nat
  BY PoolAssumption
<1>2. PICK x : x = k * PoolFactor
  OBVIOUS
<1> QED BY <1>1, <1>2, PoolAssumption DEF TopN, MaxOf

LEMMA CandidatesAre ==
    ASSUME NEW n \in Nat, NEW S, NEW chunks \in [1 .. n -> S],
           \A i \in 1 .. n : chunks[i].score \in Nat,
           NEW known, NEW k \in Nat
    PROVE  \E h, p, m, f : Finds(chunks, known, k, n, h, p, m, f)
<1>1. PICK h : Sorting(chunks, n, h)
  <2>1. DOMAIN chunks = 1 .. n /\ \A i \in 1 .. n : chunks[i].score \in Int
    OBVIOUS
  <2> QED BY <2>1, SortedBy
<1> DEFINE best == Through(chunks, h, n)
           p    == MinOf(n, TopN(k))
           pool == Take(best, TopN(k))
           P    == {i \in DOMAIN pool :
                       /\ pool[i].item \in known
                       /\ \A j \in 1 .. i - 1 : pool[j].item # pool[i].item}
<1>2. h \in [1 .. n -> 1 .. n] /\ BestFirst(chunks) = best
  BY <1>1 DEF Sorting
<1>3. best \in [1 .. n -> S] /\ \A r \in 1 .. n : best[r] = chunks[h[r]]
  BY <1>2 DEF Through
<1>4. Candidates(chunks, known, k) = Picked(pool, P)
  BY <1>2 DEF Candidates
<1>5. p \in 0 .. n
  BY TopNIs DEF MinOf
<1> HIDE DEF best
<1>6. Begins(pool, best, p, S)
  BY <1>3, TakeIs, TopNIs
<1> HIDE DEF pool
<1>7. DOMAIN pool = 1 .. p /\ \A r \in 1 .. p : pool[r] = chunks[h[r]]
  <2>1. pool \in [1 .. p -> S] /\ \A r \in 1 .. p : pool[r] = best[r]
    BY <1>6 DEF Begins
  <2>2. \A r \in 1 .. p : r \in 1 .. n
    BY <1>5
  <2> QED BY <1>3, <2>1, <2>2
<1>8. \A r : r \in P <=> r \in 1 .. p /\ chunks[h[r]].item \in known /\ Firstly(chunks, h, r)
  <2> SUFFICES ASSUME NEW r \in 1 .. p
               PROVE  (\A j \in 1 .. r - 1 : pool[j].item # pool[r].item) <=> Firstly(chunks, h, r)
    BY <1>7
  <2>1. \A j \in 1 .. r - 1 : j \in 1 .. p
    BY <1>5
  <2> QED BY <1>7, <2>1 DEF Firstly
<1>9. IsFiniteSet(P) /\ P \subseteq Int
  <2>1. P \in SUBSET (1 .. p) /\ 1 .. p \subseteq Int
    BY <1>8
  <2>2. IsFiniteSet(1 .. p)
    BY <1>5, FS_Interval
  <2> HIDE DEF P
  <2> QED BY <2>1, <2>2, FS_Subset
<1> HIDE DEF P
<1>10. PICK m, f : Picking(pool, P, m, f)
  BY <1>9, PickedBy
<1>11. /\ m \in Nat
       /\ \A r \in 1 .. m : f[r] \in P
       /\ \A i \in P : \E r \in 1 .. m : f[r] = i
       /\ \A q, r \in 1 .. m : q < r => f[q] < f[r]
       /\ Picked(pool, P) = Through(pool, f, m)
  BY <1>10 DEF Picking
<1>12. \A i \in 1 .. m : /\ f[i] \in 1 .. p
                         /\ chunks[h[f[i]]].item \in known
                         /\ Firstly(chunks, h, f[i])
  BY <1>8, <1>11
<1>13. \A r \in 1 .. p : chunks[h[r]].item \in known /\ Firstly(chunks, h, r) =>
           \E i \in 1 .. m : f[i] = r
  BY <1>8, <1>11
<1>14. Candidates(chunks, known, k) = [i \in 1 .. m |-> chunks[h[f[i]]]]
  <2>1. \A i \in 1 .. m : pool[f[i]] = chunks[h[f[i]]]
    BY <1>7, <1>12
  <2> QED BY <1>4, <1>11, <2>1 DEF Through
<1>15. p = MinOf(n, TopN(k))
  OBVIOUS
<1> HIDE DEF p
<1>16. Finds(chunks, known, k, n, h, p, m, f)
  BY <1>1, <1>5, <1>11, <1>12, <1>13, <1>14, <1>15 DEF Finds
<1> QED BY <1>16

Scored(chunks, n) == DOMAIN chunks = 1 .. n /\ \A i \in 1 .. n : chunks[i].score \in Nat

BestAt(chunks, h, r) == BestScore(chunks, chunks[h[r]].item) = chunks[h[r]].score

\* The first chunk of an item in the order of the scores has the best of its scores.
LEMMA BestScoreIs ==
    ASSUME NEW n \in Nat, NEW chunks, Scored(chunks, n),
           NEW h, Sorting(chunks, n, h), NEW r \in 1 .. n, Firstly(chunks, h, r)
    PROVE  BestAt(chunks, h, r)
<1>0. DOMAIN chunks = 1 .. n /\ \A i \in 1 .. n : chunks[i].score \in Nat
  BY DEF Scored
<1> DEFINE x == chunks[h[r]].item
           T == {0} \union {chunks[i].score : i \in {j \in DOMAIN chunks : chunks[j].item = x}}
<1>1. /\ \A q \in 1 .. n : h[q] \in 1 .. n
      /\ \A i \in 1 .. n : \E q \in 1 .. n : h[q] = i
      /\ \A q \in 1 .. n : r < q => chunks[h[r]].score >= chunks[h[q]].score
  <2>1. \A q \in 1 .. n : h[q] \in 1 .. n /\ chunks[h[q]].score \in Nat
    BY <1>0 DEF Sorting
  <2>2. \A q \in 1 .. n : r < q => chunks[h[r]].score > chunks[h[q]].score \/ chunks[h[r]].score = chunks[h[q]].score
    BY DEF Sorting
  <2>3. \A i \in 1 .. n : \E q \in 1 .. n : h[q] = i
    BY DEF Sorting
  <2>4. ASSUME NEW q \in 1 .. n, r < q
        PROVE  chunks[h[r]].score >= chunks[h[q]].score
    <3>1. chunks[h[q]].score \in Nat /\ chunks[h[r]].score \in Nat
      BY <2>1
    <3>2. chunks[h[r]].score > chunks[h[q]].score \/ chunks[h[r]].score = chunks[h[q]].score
      BY <2>2, <2>4
    <3> QED BY <3>1, <3>2
  <2>5. \A q \in 1 .. n : h[q] \in 1 .. n
    BY <2>1
  <2> QED BY <2>3, <2>4, <2>5
<1>2. ASSUME NEW i \in 1 .. n, chunks[i].item = x
      PROVE  chunks[i].score <= chunks[h[r]].score
  <2>1. PICK q \in 1 .. n : h[q] = i
    BY <1>1
  <2>2. ~ (q < r)
    <3> SUFFICES ASSUME q < r PROVE FALSE
      OBVIOUS
    <3>1. q \in 1 .. r - 1
      OBVIOUS
    <3> QED BY <1>2, <2>1, <3>1 DEF Firstly
  <2>3. q = r \/ r < q
    BY <2>2
  <2>4. chunks[h[r]].score \in Nat /\ chunks[i].score \in Nat
    BY <1>0, <1>1
  <2>5. CASE q = r
    <3>1. chunks[i].score = chunks[h[r]].score
      BY <2>1, <2>5
    <3> QED BY <2>4, <3>1
  <2>6. CASE r < q
    <3>1. chunks[h[r]].score >= chunks[i].score
      BY <1>1, <2>1, <2>6
    <3> QED BY <2>4, <3>1
  <2> QED BY <2>3, <2>5, <2>6
<1>3. chunks[h[r]].score \in T /\ T \subseteq Nat
  <2>1. h[r] \in {j \in DOMAIN chunks : chunks[j].item = x}
    BY <1>0, <1>1
  <2>2. chunks[h[r]].score \in T
    BY <2>1
  <2>3. T \subseteq Nat
    BY <1>0
  <2> QED BY <2>2, <2>3
<1>4. \A y \in T : y <= chunks[h[r]].score
  <2>1. chunks[h[r]].score \in Nat
    BY <1>0, <1>1
  <2> QED BY <1>0, <1>2, <2>1
<1>5. BestScore(chunks, x) = Max(T)
  BY DEF BestScore
<1> HIDE DEF T, x
<1>6. BestScore(chunks, x) = chunks[h[r]].score
  BY <1>3, <1>4, <1>5, MaxIs
<1> QED BY <1>6 DEF x, BestAt

LEMMA NoScoreIs ==
    ASSUME NEW chunks, NEW x, \A i \in DOMAIN chunks : chunks[i].item # x
    PROVE  BestScore(chunks, x) = 0
<1>1. BestScore(chunks, x) = Max({0})
  <2>1. {0} \union {chunks[i].score : i \in {j \in DOMAIN chunks : chunks[j].item = x}} = {0}
    OBVIOUS
  <2> QED BY <2>1 DEF BestScore
<1>2. Max({0}) = 0
  BY MaxIs
<1> QED BY <1>1, <1>2

\* Where an item is for the first time.
LEMMA FirstlyExists ==
    ASSUME NEW n \in Nat, NEW chunks, NEW h, NEW q \in 1 .. n
    PROVE  \E r \in 1 .. q : chunks[h[r]].item = chunks[h[q]].item /\ Firstly(chunks, h, r)
<1> DEFINE same == {j \in 1 .. q : chunks[h[j]].item = chunks[h[q]].item}
<1>1. same \subseteq Nat /\ q \in same
  OBVIOUS
<1>2. \A j : j \in same <=> j \in 1 .. q /\ chunks[h[j]].item = chunks[h[q]].item
  OBVIOUS
<1> HIDE DEF same
<1>3. PICK r \in same : \A l \in same : r <= l
  BY <1>1, LeastNumber
<1>4. r \in 1 .. q /\ chunks[h[r]].item = chunks[h[q]].item
  BY <1>2
<1>5. Firstly(chunks, h, r)
  <2> SUFFICES ASSUME NEW j \in 1 .. r - 1, chunks[h[j]].item = chunks[h[r]].item PROVE FALSE
    BY DEF Firstly
  <2>1. j \in 1 .. q /\ ~ (r <= j)
    BY <1>4
  <2> QED BY <1>2, <1>3, <1>4, <2>1
<1> QED BY <1>4, <1>5

\* What search finds: known items, each once, with its best score, best first; and
\* why it did not find another known item.
FoundIs(found, chunks, known, k, m, S) ==
    /\ found \in [1 .. m -> S]
    /\ \A i \in 1 .. m : /\ found[i].item \in known
                         /\ found[i].score = BestScore(chunks, found[i].item)
                         /\ found[i].score \in Nat
    /\ \A q, r \in 1 .. m : found[q].item = found[r].item => q = r
    /\ \A q, r \in 1 .. m : q < r => found[q].score >= found[r].score

PushedOut(x, chunks, k) ==
    \/ BestScore(chunks, x) = 0
    \/ TopN(k) <= Cardinality({i \in DOMAIN chunks :
                      chunks[i].score >= BestScore(chunks, x) /\ chunks[i].item # x})

LEMMA CandidatesFound ==
    ASSUME NEW n \in Nat, NEW S, NEW chunks \in [1 .. n -> S],
           \A i \in 1 .. n : chunks[i].score \in Nat,
           NEW known, NEW k \in Nat, NEW h, NEW p, NEW m, NEW f,
           Finds(chunks, known, k, n, h, p, m, f)
    PROVE  FoundIs(Candidates(chunks, known, k), chunks, known, k, m, S)
<1> DEFINE found == Candidates(chunks, known, k)
<1>1. /\ Sorting(chunks, n, h)
      /\ p \in 0 .. n
      /\ m \in Nat
      /\ \A i \in 1 .. m : /\ f[i] \in 1 .. p
                           /\ chunks[h[f[i]]].item \in known
                           /\ Firstly(chunks, h, f[i])
      /\ \A q, r \in 1 .. m : q < r => f[q] < f[r]
      /\ found = [i \in 1 .. m |-> chunks[h[f[i]]]]
  BY DEF Finds
<1>2. /\ \A r \in 1 .. n : h[r] \in 1 .. n
      /\ \A q, r \in 1 .. n : q < r =>
            chunks[h[q]].score > chunks[h[r]].score \/ chunks[h[q]].score = chunks[h[r]].score
  BY <1>1 DEF Sorting
<1> HIDE DEF found
<1>3. \A i \in 1 .. m : f[i] \in 1 .. n /\ f[i] \in Int
  BY <1>1
<1>4. found \in [1 .. m -> S] /\ \A i \in 1 .. m : found[i] = chunks[h[f[i]]]
  BY <1>1, <1>2, <1>3
<1>5. ASSUME NEW i \in 1 .. m
      PROVE  /\ found[i].item \in known
             /\ found[i].score = BestScore(chunks, found[i].item)
             /\ found[i].score \in Nat
  <2>1. BestScore(chunks, chunks[h[f[i]]].item) = chunks[h[f[i]]].score
    <3>1. Scored(chunks, n)
      BY DEF Scored
    <3>2. f[i] \in 1 .. n /\ Firstly(chunks, h, f[i])
      BY <1>1, <1>3
    <3>3. BestAt(chunks, h, f[i])
      BY <1>1, <3>1, <3>2, BestScoreIs
    <3> QED BY <3>3 DEF BestAt
  <2>2. chunks[h[f[i]]].score \in Nat
    BY <1>2, <1>3
  <2> QED BY <1>1, <1>4, <2>1, <2>2
<1>6. ASSUME NEW q \in 1 .. m, NEW r \in 1 .. m, q < r
      PROVE  found[q].item # found[r].item /\ found[q].score >= found[r].score
  <2>1. f[q] \in 1 .. n /\ f[r] \in 1 .. n /\ f[q] < f[r] /\ f[q] \in 1 .. f[r] - 1
    BY <1>1, <1>3, <1>6
  <2>2. chunks[h[f[q]]].item # chunks[h[f[r]]].item
    BY <1>1, <2>1 DEF Firstly
  <2>3. found[q].score > found[r].score \/ found[q].score = found[r].score
    <3>1. chunks[h[f[q]]].score > chunks[h[f[r]]].score
            \/ chunks[h[f[q]]].score = chunks[h[f[r]]].score
      BY <1>2, <2>1
    <3> QED BY <1>4, <3>1
  <2>4. found[q].score \in Nat /\ found[r].score \in Nat
    BY <1>5
  <2> QED BY <1>4, <2>2, <2>3, <2>4
<1>7. \A q, r \in 1 .. m : found[q].item = found[r].item => q = r
  <2> SUFFICES ASSUME NEW q \in 1 .. m, NEW r \in 1 .. m, found[q].item = found[r].item
               PROVE  q = r
    OBVIOUS
  <2>1. ~ (q < r) /\ ~ (r < q)
    BY <1>6
  <2> QED BY <2>1
<1>8. FoundIs(found, chunks, known, k, m, S)
  BY <1>4, <1>5, <1>6, <1>7 DEF FoundIs
<1> QED BY <1>8 DEF found

LEMMA CandidatesMissed ==
    ASSUME NEW n \in Nat, NEW S, NEW chunks \in [1 .. n -> S],
           \A i \in 1 .. n : chunks[i].score \in Nat,
           NEW known, NEW k \in Nat, NEW h, NEW p, NEW m, NEW f,
           Finds(chunks, known, k, n, h, p, m, f),
           NEW x \in known, \A i \in 1 .. m : Candidates(chunks, known, k)[i].item # x
    PROVE  PushedOut(x, chunks, k)
<1>1. /\ Sorting(chunks, n, h)
      /\ p = MinOf(n, TopN(k)) /\ p \in 0 .. n
      /\ \A i \in 1 .. m : f[i] \in 1 .. p
      /\ \A r \in 1 .. p : chunks[h[r]].item \in known /\ Firstly(chunks, h, r) =>
            \E i \in 1 .. m : f[i] = r
      /\ Candidates(chunks, known, k) = [i \in 1 .. m |-> chunks[h[f[i]]]]
  BY DEF Finds
<1>2. /\ h \in [1 .. n -> 1 .. n]
      /\ \A i \in 1 .. n : \E r \in 1 .. n : h[r] = i
      /\ \A q, r \in 1 .. n : q < r =>
            chunks[h[q]].score > chunks[h[r]].score
              \/ (chunks[h[q]].score = chunks[h[r]].score /\ h[q] < h[r])
  BY <1>1 DEF Sorting
<1>3. CASE \A i \in DOMAIN chunks : chunks[i].item # x
  BY <1>3, NoScoreIs DEF PushedOut
<1>4. CASE \E i \in DOMAIN chunks : chunks[i].item = x
  <2>1. PICK q \in 1 .. n : chunks[h[q]].item = x
    BY <1>2, <1>4
  <2>2. PICK r \in 1 .. q : chunks[h[r]].item = x /\ Firstly(chunks, h, r)
    BY <2>1, FirstlyExists
  <2>3. r \in 1 .. n
    OBVIOUS
  <2>4. BestScore(chunks, x) = chunks[h[r]].score
    <3>1. Scored(chunks, n)
      BY DEF Scored
    <3>2. BestAt(chunks, h, r)
      BY <1>1, <2>2, <2>3, <3>1, BestScoreIs
    <3> QED BY <2>2, <3>2 DEF BestAt
  <2>5. r \notin 1 .. p
    <3> SUFFICES ASSUME r \in 1 .. p PROVE FALSE
      OBVIOUS
    <3>1. PICK i \in 1 .. m : f[i] = r
      BY <1>1, <2>2
    <3> QED BY <1>1, <2>2, <3>1
  <2>6. p < r /\ p < n
    BY <1>1, <2>3, <2>5
  <2>7. p = TopN(k)
    BY <1>1, <2>6, TopNIs DEF MinOf
  <2> DEFINE B == {i \in DOMAIN chunks : chunks[i].score >= BestScore(chunks, x)
                                         /\ chunks[i].item # x}
             g == [j \in 1 .. p |-> h[j]]
  <2>8. ASSUME NEW j \in 1 .. p
        PROVE  h[j] \in B
    <3>1. j \in 1 .. r - 1 /\ j \in 1 .. n /\ j < r
      BY <1>1, <2>3, <2>6
    <3>2. chunks[h[j]].item # x
      BY <2>2, <3>1 DEF Firstly
    <3>3. chunks[h[j]].score > chunks[h[r]].score \/ chunks[h[j]].score = chunks[h[r]].score
      BY <1>2, <2>3, <3>1
    <3>4. h[j] \in 1 .. n /\ h[r] \in 1 .. n
      BY <1>2, <2>3, <3>1
    <3>5. chunks[h[j]].score \in Nat /\ chunks[h[r]].score \in Nat
      BY <3>4
    <3>6. chunks[h[j]].score >= BestScore(chunks, x)
      BY <2>4, <3>3, <3>5
    <3> QED BY <3>2, <3>4, <3>6
  <2>9. \A i, j \in 1 .. p : h[i] = h[j] => i = j
    <3> SUFFICES ASSUME NEW i \in 1 .. p, NEW j \in 1 .. p, h[i] = h[j], i < j PROVE FALSE
      BY <1>1
    <3>1. i \in 1 .. n /\ j \in 1 .. n
      BY <1>1
    <3>2. h[i] \in 1 .. n /\ chunks[h[i]].score \in Nat
      BY <1>2, <3>1
    <3>3. chunks[h[i]].score > chunks[h[j]].score
            \/ (chunks[h[i]].score = chunks[h[j]].score /\ h[i] < h[j])
      BY <1>2, <3>1
    <3> QED BY <3>2, <3>3
  <2>10. IsFiniteSet(B)
    <3>1. B \in SUBSET (1 .. n)
      OBVIOUS
    <3>2. IsFiniteSet(1 .. n)
      BY FS_Interval
    <3> HIDE DEF B
    <3> QED BY <3>1, <3>2, FS_Subset
  <2> HIDE DEF B
  <2>11. g \in [1 .. p -> B] /\ \A j \in 1 .. p : g[j] = h[j]
    BY <2>8
  <2> HIDE DEF g
  <2>12. g \in Injection(1 .. p, B)
    BY <2>9, <2>11 DEF Injection, IsInjective
  <2>13. Cardinality(1 .. p) <= Cardinality(B)
    BY <2>10, <2>12, FS_Injection
  <2>14. Cardinality(1 .. p) = p
    BY <1>1, FS_Interval
  <2>15. TopN(k) <= Cardinality(B)
    BY <2>7, <2>13, <2>14
  <2> QED BY <2>15 DEF PushedOut, B
<1> QED BY <1>3, <1>4

\* What search shows of what it found: z lists the places of the l found items that
\* it returns; if the language model lists none of them, these are the first l.
Shows(result, found, m, k, order, l, z) ==
    /\ l = MinOf(k, m) /\ l \in 0 .. m
    /\ DOMAIN result = 1 .. l /\ Len(result) = l
    /\ \A r \in 1 .. l : z[r] \in 1 .. m /\ result[r] = found[z[r]]
    /\ \A q, r \in 1 .. l : z[q] = z[r] => q = r
    /\ ToSet(order) = {} => \A i \in 1 .. m : \/ \E r \in 1 .. l : z[r] = i
                                              \/ \A r \in 1 .. l : z[r] < i

LEMMA SearchIs ==
    ASSUME NEW chunks, NEW known, NEW k \in Nat, NEW m \in Nat, NEW S,
           NEW found, found = Candidates(chunks, known, k), found \in [1 .. m -> S],
           NEW N \in Nat, NEW order, DOMAIN order = 1 .. N
    PROVE  \E l, z : Shows(Search(chunks, known, k, order), found, m, k, order, l, z)
<1> DEFINE l == MinOf(m, k)
           result == Search(chunks, known, k, order)
<1>1. l = MinOf(k, m) /\ l \in 0 .. m /\ (m <= k => l = m) /\ l <= k
  BY DEF MinOf
<1>2. Len(found) = m
  <2>1. found \in Seq(S) /\ DOMAIN found = 1 .. m
    OBVIOUS
  <2> QED BY <2>1
<1>3. result = IF m <= k THEN Take(found, k) ELSE Take(Rerank(found, order), k)
  BY <1>2 DEF Search
<1>4. ASSUME NEW seq \in [1 .. m -> S], result = Take(seq, k)
      PROVE  /\ DOMAIN result = 1 .. l /\ Len(result) = l
             /\ \A r \in 1 .. l : r \in 1 .. m /\ result[r] = seq[r]
  <2>1. Begins(result, seq, l, S)
    BY <1>4, TakeIs
  <2>2. result \in [1 .. l -> S] /\ \A r \in 1 .. l : result[r] = seq[r]
    BY <2>1 DEF Begins
  <2> HIDE DEF result, l
  <2>3. l \in Nat /\ \A r \in 1 .. l : r \in 1 .. m
    BY <1>1
  <2>4. result \in Seq(S) /\ DOMAIN result = 1 .. l
    BY <2>2, <2>3
  <2> QED BY <2>2, <2>3, <2>4
<1>5. CASE m <= k
  <2> DEFINE z == [r \in 1 .. l |-> r]
  <2>1. /\ DOMAIN result = 1 .. l /\ Len(result) = l
        /\ \A r \in 1 .. l : r \in 1 .. m /\ result[r] = found[r]
    BY <1>3, <1>4, <1>5
  <2>2. \A r \in 1 .. l : z[r] = r
    OBVIOUS
  <2>3. l = m
    BY <1>1, <1>5
  <2> HIDE DEF z, l, result
  <2>4. Shows(result, found, m, k, order, l, z)
    BY <1>1, <2>1, <2>2, <2>3 DEF Shows
  <2> QED BY <2>4 DEF result
<1>6. CASE ~ (m <= k)
  <2>1. PICK a, w : Reranks(found, order, m, a, w)
    BY RerankIs
  <2>2. /\ a \in 0 .. m
        /\ \A r \in 1 .. m : w[r] \in 0 .. m - 1 /\ w[r] + 1 \in 1 .. m
        /\ \A x \in 0 .. m - 1 : \E r \in 1 .. m : w[r] = x
        /\ \A q, r \in 1 .. m : w[q] = w[r] => q = r
        /\ \A r \in 1 .. m : r <= a <=> w[r] \in ToSet(order)
        /\ \A q, r \in 1 .. m : a < q /\ q < r => w[q] < w[r]
        /\ Rerank(found, order) = [r \in 1 .. m |-> found[w[r] + 1]]
    <3>1. /\ a \in 0 .. m
          /\ w \in [1 .. m -> 0 .. m - 1]
          /\ \A x \in 0 .. m - 1 : \E r \in 1 .. m : w[r] = x
          /\ \A q, r \in 1 .. m : w[q] = w[r] => q = r
          /\ \A r \in 1 .. m : r <= a <=> w[r] \in ToSet(order)
          /\ \A q, r \in 1 .. m : a < q /\ q < r => w[q] < w[r]
          /\ Rerank(found, order) = [r \in 1 .. m |-> found[w[r] + 1]]
      BY <2>1, Zenon DEF Reranks
    <3>2. \A r \in 1 .. m : w[r] \in 0 .. m - 1 /\ w[r] + 1 \in 1 .. m
      BY <3>1
    <3> QED BY <3>1, <3>2
  <2> DEFINE seq == Rerank(found, order)
             z == [r \in 1 .. l |-> w[r] + 1]
  <2>3. seq \in [1 .. m -> S] /\ \A r \in 1 .. m : seq[r] = found[w[r] + 1]
    BY <2>2
  <2>4. result = Take(seq, k)
    BY <1>3, <1>6
  <2> HIDE DEF seq
  <2>5. /\ DOMAIN result = 1 .. l /\ Len(result) = l
        /\ \A r \in 1 .. l : r \in 1 .. m /\ result[r] = seq[r]
    BY <1>4, <2>3, <2>4
  <2>6. \A r \in 1 .. l : z[r] = w[r] + 1 /\ r \in 1 .. m
    BY <2>5
  <2> HIDE DEF z, l, result
  <2>7. ASSUME NEW r \in 1 .. l
        PROVE  z[r] \in 1 .. m /\ result[r] = found[z[r]]
    <3>1. r \in 1 .. m /\ z[r] = w[r] + 1 /\ result[r] = seq[r]
      BY <2>5, <2>6
    <3> QED BY <2>2, <2>3, <3>1
  <2>8. \A q, r \in 1 .. l : z[q] = z[r] => q = r
    <3> SUFFICES ASSUME NEW q \in 1 .. l, NEW r \in 1 .. l, z[q] = z[r] PROVE q = r
      OBVIOUS
    <3>1. q \in 1 .. m /\ r \in 1 .. m /\ w[q] + 1 = w[r] + 1
      BY <2>6
    <3>2. w[q] = w[r]
      BY <2>2, <3>1
    <3> QED BY <2>2, <3>1, <3>2
  <2>9. ASSUME ToSet(order) = {}, NEW i \in 1 .. m
        PROVE  \/ \E r \in 1 .. l : z[r] = i
               \/ \A r \in 1 .. l : z[r] < i
    <3>1. a = 0
      <4>1. ~ (1 \in 1 .. m /\ 1 <= a)
        BY <2>2, <2>9
      <4> QED BY <2>2, <4>1
    <3>2. i - 1 \in 0 .. m - 1 /\ (i - 1) + 1 = i
      OBVIOUS
    <3>3. PICK s \in 1 .. m : w[s] = i - 1
      BY <2>2, <3>2
    <3>4. CASE s <= l
      <4>1. s \in 1 .. l
        BY <1>1, <3>4
      <4> QED BY <2>6, <3>2, <3>3, <4>1
    <3>5. CASE ~ (s <= l)
      <4>1. ASSUME NEW r \in 1 .. l
            PROVE  z[r] < i
        <5>1. r \in 1 .. m /\ 0 < r /\ r < s
          BY <1>1, <2>6, <3>5
        <5>2. w[r] < w[s]
          BY <2>2, <3>1, <5>1
        <5>3. z[r] = w[r] + 1 /\ w[r] \in Int /\ w[s] = i - 1
          BY <2>2, <2>6, <3>3, <5>1
        <5> QED BY <5>2, <5>3
      <4> QED BY <4>1
    <3> QED BY <3>4, <3>5
  <2>10. Shows(result, found, m, k, order, l, z)
    BY <1>1, <2>5, <2>7, <2>8, <2>9 DEF Shows
  <2> QED BY <2>10 DEF result
<1> QED BY <1>5, <1>6

\* What search promises of one call.
Returns(result, found, k, m) ==
    /\ Len(result) = MinOf(k, m)
    /\ IsInjective([i \in DOMAIN result |-> result[i].item])
    /\ ToSet(result) \subseteq ToSet(found)

NamesOf(s) == {s[i].item : i \in DOMAIN s}

NoBetter(chunks, names, shown) ==
    \A x \in names \ shown, y \in shown : BestScore(chunks, x) <= BestScore(chunks, y)

LEMMA SearchReturns ==
    ASSUME NEW chunks, NEW known, NEW k, NEW m \in Nat, NEW S, NEW found,
           FoundIs(found, chunks, known, k, m, S),
           NEW result, NEW order, NEW l, NEW z, Shows(result, found, m, k, order, l, z)
    PROVE  Returns(result, found, k, m)
<1>1. /\ DOMAIN found = 1 .. m
      /\ \A q, r \in 1 .. m : found[q].item = found[r].item => q = r
  BY DEF FoundIs
<1>2. /\ l = MinOf(k, m) /\ DOMAIN result = 1 .. l /\ Len(result) = l
      /\ \A r \in 1 .. l : z[r] \in 1 .. m /\ result[r] = found[z[r]]
      /\ \A q, r \in 1 .. l : z[q] = z[r] => q = r
  BY DEF Shows
<1>3. ASSUME NEW q \in 1 .. l, NEW r \in 1 .. l, result[q].item = result[r].item
      PROVE  q = r
  <2>1. /\ z[q] \in 1 .. m /\ z[r] \in 1 .. m
        /\ result[q] = found[z[q]] /\ result[r] = found[z[r]]
    BY <1>2
  <2>2. found[z[q]].item = found[z[r]].item
    BY <1>3, <2>1, Zenon
  <2>3. z[q] = z[r]
    BY <1>1, <2>1, <2>2, Zenon
  <2> QED BY <1>2, <2>3, Zenon
<1>4. IsInjective([i \in DOMAIN result |-> result[i].item])
  BY <1>2, <1>3 DEF IsInjective
<1>5. ToSet(result) \subseteq ToSet(found)
  BY <1>1, <1>2 DEF ToSet
<1> QED BY <1>2, <1>4, <1>5 DEF Returns

LEMMA SearchShowsBest ==
    ASSUME NEW chunks, NEW known, NEW k, NEW m \in Nat, NEW S, NEW found,
           FoundIs(found, chunks, known, k, m, S),
           NEW plain, NEW order, ToSet(order) = {},
           NEW l, NEW z, Shows(plain, found, m, k, order, l, z)
    PROVE  NoBetter(chunks, NamesOf(found), NamesOf(plain))
<1>1. /\ DOMAIN found = 1 .. m
      /\ \A i \in 1 .. m : /\ found[i].score = BestScore(chunks, found[i].item)
                           /\ found[i].score \in Nat
      /\ \A q, r \in 1 .. m : q < r => found[q].score >= found[r].score
  BY DEF FoundIs
<1>2. /\ DOMAIN plain = 1 .. l
      /\ \A r \in 1 .. l : z[r] \in 1 .. m /\ plain[r] = found[z[r]]
      /\ \A i \in 1 .. m : \/ \E r \in 1 .. l : z[r] = i
                           \/ \A r \in 1 .. l : z[r] < i
  BY DEF Shows
<1> SUFFICES ASSUME NEW x \in NamesOf(found) \ NamesOf(plain), NEW y \in NamesOf(plain)
             PROVE  BestScore(chunks, x) <= BestScore(chunks, y)
  BY DEF NoBetter
<1>3. PICK i \in 1 .. m : found[i].item = x
  BY <1>1 DEF NamesOf
<1>4. PICK r \in 1 .. l : plain[r].item = y
  BY <1>2 DEF NamesOf
<1>5. ~ \E q \in 1 .. l : z[q] = i
  BY <1>2, <1>3 DEF NamesOf
<1>6. z[r] \in 1 .. m /\ z[r] < i /\ found[z[r]].item = y
  BY <1>2, <1>4, <1>5
<1>7. found[z[r]].score >= found[i].score
  BY <1>1, <1>6
<1>8. /\ found[i].score = BestScore(chunks, x) /\ found[i].score \in Nat
      /\ found[z[r]].score = BestScore(chunks, y) /\ found[z[r]].score \in Nat
  BY <1>1, <1>3, <1>6
<1> QED BY <1>7, <1>8

\* What the calls ask of search.
IsSearch(chunks, k, order) ==
    /\ \E n \in Nat : \E S : chunks \in [1 .. n -> S] /\ \A c \in S : c.score \in Nat
    /\ k \in Nat
    /\ \E N \in Nat : DOMAIN order = 1 .. N

LEMMA SearchCallIs ==
    ASSUME SearchItems
    PROVE  IsSearch(call'.chunks, call'.k, call'.order)
<1> DEFINE S == [item : RankedItems, score : 1 .. 2]
<1>1. PICK chunks \in SeqOf(S, MaxChunks), known \in {RankedItems, {"x", "z"}},
           k \in 1 .. 2, order \in SeqOf(0 .. 2, 2) :
          call' = [op |-> "search", chunks |-> chunks, known |-> known, k |-> k,
                   order |-> order]
  BY DEF SearchItems
<1>2. call'.chunks = chunks /\ call'.k = k /\ call'.order = order
  BY <1>1
<1>3. \A c \in S : c.score \in Nat
  OBVIOUS
<1> HIDE DEF S
<1>4. PICK n \in 0 .. MaxChunks : chunks \in [1 .. n -> S]
  BY DEF SeqOf
<1>5. PICK N \in 0 .. 2 : order \in [1 .. N -> 0 .. 2]
  BY DEF SeqOf
<1>6. n \in Nat /\ N \in Nat /\ DOMAIN order = 1 .. N /\ k \in Nat
  BY <1>4, <1>5, BoundAssumption
<1> QED BY <1>2, <1>3, <1>4, <1>6 DEF IsSearch

\* The calls of _rerank have different candidates.
IsRerank(candidates, order) ==
    /\ \E n \in Nat : \E S : candidates \in [1 .. n -> S] /\ Different(candidates, n)
    /\ \E N \in Nat : DOMAIN order = 1 .. N

LEMMA RerankCallIs ==
    ASSUME RerankItems
    PROVE  IsRerank(call'.candidates, call'.order)
<1> DEFINE all == <<"x", "y", "z">>
<1>1. PICK n \in 0 .. 3, order \in SeqOf(-1 .. 3, 3) :
          call' = [op |-> "rerank", candidates |-> SubSeq(all, 1, n), order |-> order]
  BY DEF RerankItems
<1>2. call'.candidates = SubSeq(all, 1, n) /\ call'.order = order
  BY <1>1
<1>3. /\ \A q \in 1 .. 3 : all[q] \in RankedItems
      /\ \A q, r \in 1 .. 3 : all[q] = all[r] => q = r
  BY DEF RankedItems
<1>4. all \in Seq(RankedItems) /\ Len(all) = 3
  BY DEF RankedItems
<1> HIDE DEF all
<1>5. SubSeq(all, 1, n) = [r \in 1 .. n |-> all[r]]
  BY <1>4
<1>6. PICK c : c = SubSeq(all, 1, n)
  OBVIOUS
<1>7. c \in [1 .. n -> RankedItems] /\ Different(c, n)
  <2>1. \A r \in 1 .. n : r \in 1 .. 3
    OBVIOUS
  <2> QED BY <1>3, <1>5, <1>6, <2>1 DEF Different
<1>8. PICK N \in 0 .. 3 : order \in [1 .. N -> -1 .. 3]
  BY DEF SeqOf
<1>9. n \in Nat /\ N \in Nat /\ DOMAIN order = 1 .. N
  BY <1>8
<1> QED BY <1>2, <1>6, <1>7, <1>9 DEF IsRerank

\* What the last call asked of _rerank or of search.
Asked ==
    /\ call.op = "rerank" => IsRerank(call.candidates, call.order)
    /\ call.op = "search" => IsSearch(call.chunks, call.k, call.order)

LEMMA AskedHolds == Spec => []Asked
<1>1. Init => Asked
  BY DEF Init, Asked
<1>2. Asked /\ [Next]_call => Asked'
  <2>1. CASE UNCHANGED call
    BY <2>1 DEF Asked
  <2>2. CASE Next
    BY <2>2, CallOf, RerankCallIs, SearchCallIs DEF Asked
  <2> QED BY <2>1, <2>2
<1> QED BY <1>1, <1>2, PTL DEF Spec

LEMMA SearchIsSound ==
    ASSUME Asked
    PROVE  SearchSound
<1>1. CASE call.op = "rerank"
  <2> DEFINE c == call.candidates
             order == call.order
             result == Rerank(c, order)
             listed == {c[i + 1] : i \in ToSet(order) \intersect (0 .. Len(c) - 1)}
  <2>1. IsRerank(c, order)
    BY <1>1 DEF Asked
  <2>2. Permutes(c, result, listed)
    <3> HIDE DEF c, order
    <3>1. PICK n \in Nat : \E S : c \in [1 .. n -> S] /\ Different(c, n)
      BY <2>1 DEF IsRerank
    <3>2. PICK N \in Nat : DOMAIN order = 1 .. N
      BY <2>1 DEF IsRerank
    <3>3. PICK S : c \in [1 .. n -> S]
      BY <3>1
    <3> QED BY <3>1, <3>2, <3>3, RerankPermutes
  <2>3. RerankIsPermutation
    BY <2>2 DEF RerankIsPermutation, Permutes, At
  <2>4. SearchReturnsBest
    BY <1>1 DEF SearchReturnsBest
  <2> QED BY <2>3, <2>4 DEF SearchSound
<1>2. CASE call.op = "search"
  <2> DEFINE chunks == call.chunks
             known == call.known
             k == call.k
             order == call.order
             found == Candidates(chunks, known, k)
             result == Search(chunks, known, k, order)
             plain == Search(chunks, known, k, NoOrder)
  <2>1. IsSearch(chunks, k, order)
    BY <1>2 DEF Asked
  <2> HIDE DEF chunks, known, k, order
  <2>2. PICK n \in Nat : \E S : chunks \in [1 .. n -> S] /\ \A s \in S : s.score \in Nat
    BY <2>1 DEF IsSearch
  <2>3. PICK S : chunks \in [1 .. n -> S] /\ \A s \in S : s.score \in Nat
    BY <2>2
  <2>4. k \in Nat /\ \A i \in 1 .. n : chunks[i].score \in Nat
    BY <2>1, <2>3 DEF IsSearch
  <2>5. PICK N \in Nat : DOMAIN order = 1 .. N
    BY <2>1 DEF IsSearch
  <2>6. PICK h, p, m, f : Finds(chunks, known, k, n, h, p, m, f)
    BY <2>3, <2>4, CandidatesAre
  <2>7. m \in Nat
    BY <2>6 DEF Finds
  <2>8. FoundIs(found, chunks, known, k, m, S)
    BY <2>3, <2>4, <2>6, CandidatesFound
  <2>9. ASSUME NEW x \in known \ NamesOf(found)
        PROVE  PushedOut(x, chunks, k)
    <3>1. \A i \in 1 .. m : Candidates(chunks, known, k)[i].item # x
      BY <2>8 DEF FoundIs, NamesOf
    <3> QED BY <2>3, <2>4, <2>6, <3>1, CandidatesMissed
  <2> HIDE DEF found
  <2>10. /\ found \in [1 .. m -> S] /\ DOMAIN found = 1 .. m
         /\ \A i \in 1 .. m : /\ found[i].item \in known
                              /\ found[i].score = BestScore(chunks, found[i].item)
    BY <2>8 DEF FoundIs
  <2>11. Len(found) = m
    <3>1. found \in Seq(S)
      BY <2>7, <2>10
    <3> QED BY <2>7, <2>10, <3>1
  <2>12. PICK l, z : Shows(result, found, m, k, order, l, z)
    <3>1. found = Candidates(chunks, known, k)
      BY DEF found
    <3> QED BY <2>4, <2>5, <2>7, <2>10, <3>1, SearchIs
  <2>13. PICK l2, z2 : Shows(plain, found, m, k, NoOrder, l2, z2)
    <3>1. found = Candidates(chunks, known, k)
      BY DEF found
    <3>2. DOMAIN NoOrder = 1 .. 0
      BY DEF NoOrder
    <3> QED BY <2>4, <2>7, <2>10, <3>1, <3>2, SearchIs
  <2> HIDE DEF result, plain
  <2>14. Returns(result, found, k, m)
    BY <2>7, <2>8, <2>12, SearchReturns
  <2>15. NoBetter(chunks, NamesOf(found), NamesOf(plain))
    <3>1. ToSet(NoOrder) = {}
      BY DEF NoOrder, ToSet
    <3> QED BY <2>7, <2>8, <2>13, <3>1, SearchShowsBest
  <2>16. SearchReturnsBest
    BY <2>9, <2>10, <2>11, <2>14, <2>15
       DEF SearchReturnsBest, Returns, NoBetter, NamesOf, PushedOut,
           found, result, plain, chunks, known, k, order
  <2>17. RerankIsPermutation
    BY <1>2 DEF RerankIsPermutation
  <2> QED BY <2>16, <2>17 DEF SearchSound
<1>3. CASE call.op \notin {"rerank", "search"}
  BY <1>3 DEF SearchSound, RerankIsPermutation, SearchReturnsBest
<1> QED BY <1>1, <1>2, <1>3

\* Whatever the language model lists, _rerank neither loses nor repeats a candidate
\* and leaves the unlisted ones in order behind the listed; and search returns known
\* items, each once, with their best scores: however many chunks there are, what it
\* does not consider was pushed out of the pool by chunks at least as good, and what
\* it cuts off in cosine order is no better than what it returns.
THEOREM SearchSoundHolds == Spec => []SearchSound
<1>1. Asked => SearchSound
  BY SearchIsSound
<1> QED BY <1>1, AskedHolds, PTL

----
\* Prompt

\* The sums of the first entries.
Sums(costs, f) ==
    f = [i \in 0 .. Len(costs) |-> IF i = 0 THEN 0 ELSE f[i - 1] + costs[i]]

LEMMA SumsExist ==
    ASSUME NEW N \in Nat, NEW costs \in [1 .. N -> Nat], Len(costs) = N
    PROVE  \E f : Sums(costs, f)
<1> DEFINE next == [i \in 1 .. N |-> [x \in Nat |-> x + costs[i]]]
<1>1. next \in [1 .. N -> [Nat -> Nat]]
  OBVIOUS
<1>2. \A x \in Nat, i \in 1 .. N : next[i][x] = x + costs[i]
  OBVIOUS
<1> HIDE DEF next
<1>3. PICK f : Recursion(N, Nat, 0, next, f)
  BY <1>1, RecursionExists
<1>4. /\ f \in [0 .. N -> Nat] /\ f[0] = 0
      /\ \A i \in 1 .. N : f[i] = next[i][f[i - 1]]
  BY <1>3 DEF Recursion
<1>5. ASSUME NEW i \in 0 .. N
      PROVE  f[i] = IF i = 0 THEN 0 ELSE f[i - 1] + costs[i]
  <2>1. CASE i = 0
    BY <1>4, <2>1
  <2>2. CASE i # 0
    <3>1. i \in 1 .. N /\ i - 1 \in 0 .. N
      BY <2>2
    <3> QED BY <1>2, <1>4, <2>2, <3>1
  <2> QED BY <2>1, <2>2
<1>6. f = [i \in 0 .. N |-> IF i = 0 THEN 0 ELSE f[i - 1] + costs[i]]
  BY <1>4, <1>5
<1> QED BY <1>6 DEF Sums

\* A segment of N entries: its costs add up.
Segment(costs, N) ==
    /\ N \in Nat /\ costs \in [1 .. N -> Nat] /\ Len(costs) = N
    /\ Cost(costs, 0) = 0
    /\ \A n \in 0 .. N : Cost(costs, n) \in Nat
    /\ \A n \in 1 .. N : Cost(costs, n) = Cost(costs, n - 1) + costs[n]
    /\ \A m, n \in 0 .. N : m <= n => Cost(costs, m) <= Cost(costs, n)

LEMMA SegmentIs ==
    ASSUME NEW N \in Nat, NEW costs \in [1 .. N -> Nat]
    PROVE  Segment(costs, N)
<1>1. Len(costs) = N
  <2>1. costs \in Seq(Nat) /\ DOMAIN costs = 1 .. N
    OBVIOUS
  <2> QED BY <2>1
<1> DEFINE f == CHOOSE f : Sums(costs, f)
<1>2. Sums(costs, f)
  BY <1>1, SumsExist
<1>3. \A n : Cost(costs, n) = f[n]
  BY Zenon DEF Cost, Sums
<1> HIDE DEF f
<1>4. \A i \in 0 .. N : f[i] = IF i = 0 THEN 0 ELSE f[i - 1] + costs[i]
  BY <1>1, <1>2 DEF Sums
<1>5. Cost(costs, 0) = 0
  BY <1>3, <1>4
<1>6. \A n \in 1 .. N : Cost(costs, n) = Cost(costs, n - 1) + costs[n]
  <2> SUFFICES ASSUME NEW n \in 1 .. N PROVE f[n] = f[n - 1] + costs[n]
    BY <1>3
  <2>1. n \in 0 .. N /\ n # 0
    OBVIOUS
  <2> QED BY <1>4, <2>1
<1> DEFINE C == [n \in 0 .. N |-> Cost(costs, n)]
<1>7. /\ C[0] = 0
      /\ \A n \in 1 .. N : C[n] = C[n - 1] + costs[n] /\ costs[n] \in Nat
      /\ \A n \in 0 .. N : C[n] = Cost(costs, n)
  BY <1>5, <1>6
<1> HIDE DEF C
<1> DEFINE fails == {n \in 0 .. N : C[n] \notin Nat}
<1>8. fails = {}
  <2> SUFFICES ASSUME fails # {} PROVE FALSE
    OBVIOUS
  <2>1. fails \subseteq Nat /\ \A n \in 0 .. N : n \notin fails => C[n] \in Nat
    OBVIOUS
  <2>2. \A n \in fails : n \in 0 .. N /\ C[n] \notin Nat
    OBVIOUS
  <2> HIDE DEF fails
  <2>3. PICK n \in fails : \A m \in fails : n <= m
    BY <2>1, LeastNumber
  <2>4. n # 0
    BY <1>7, <2>2
  <2>5. n \in 1 .. N /\ n - 1 \in 0 .. N /\ ~ (n <= n - 1)
    BY <2>2, <2>4
  <2>6. C[n - 1] \in Nat
    BY <2>1, <2>3, <2>5
  <2> QED BY SMTT(30), <1>7, <2>2, <2>5, <2>6
<1>9. \A n \in 0 .. N : C[n] \in Nat
  BY <1>8
<1>10. ASSUME NEW m \in 0 .. N, NEW n \in 0 .. N, m <= n
       PROVE  C[m] <= C[n]
  <2> DEFINE lower == {j \in m .. N : C[j] < C[m]}
  <2>1. lower = {}
    <3> SUFFICES ASSUME lower # {} PROVE FALSE
      OBVIOUS
    <3>1. lower \subseteq Nat
      OBVIOUS
    <3>2. \A j : j \in lower <=> j \in m .. N /\ C[j] < C[m]
      OBVIOUS
    <3> HIDE DEF lower
    <3>3. PICK j \in lower : \A i \in lower : j <= i
      BY <3>1, LeastNumber
    <3>4. C[m] \in Nat
      BY <1>9
    <3>5. j # m /\ j \in m .. N
      BY <3>2, <3>4
    <3>6. j \in 1 .. N /\ j - 1 \in m .. N /\ j - 1 \in 0 .. N /\ ~ (j <= j - 1)
      BY <3>5
    <3>7. ~ (C[j - 1] < C[m])
      BY <3>2, <3>3, <3>6
    <3>8. C[j] = C[j - 1] + costs[j] /\ costs[j] \in Nat /\ C[j - 1] \in Nat
      BY <1>7, <1>9, <3>6
    <3>9. C[j] < C[m]
      BY <3>2
    <3> QED BY <3>4, <3>7, <3>8, <3>9
  <2>2. n \in m .. N
    BY <1>10
  <2>3. ~ (C[n] < C[m])
    BY <2>1, <2>2
  <2> QED BY <1>9, <2>3
<1>11. /\ \A n \in 0 .. N : Cost(costs, n) \in Nat
       /\ \A m, n \in 0 .. N : m <= n => Cost(costs, m) <= Cost(costs, n)
  BY <1>7, <1>9, <1>10
<1> QED BY <1>1, <1>5, <1>6, <1>11 DEF Segment

\* How many of the first entries the loop keeps.
Keeps(costs, budget, f) ==
    f = [i \in 0 .. Len(costs) |->
            IF i = 0 THEN 0
            ELSE IF f[i - 1] = i - 1 /\ Cost(costs, i) <= budget THEN i ELSE f[i - 1]]

LEMMA KeepsExist ==
    ASSUME NEW N, NEW costs, Segment(costs, N), NEW budget
    PROVE  \E f : Keeps(costs, budget, f)
<1>0. N \in Nat /\ Len(costs) = N
  BY DEF Segment
<1> DEFINE next == [i \in 1 .. N |-> [x \in Nat |->
                       IF x = i - 1 /\ Cost(costs, i) <= budget THEN i ELSE x]]
<1>1. next \in [1 .. N -> [Nat -> Nat]]
  BY <1>0
<1>2. \A x \in Nat, i \in 1 .. N :
          next[i][x] = IF x = i - 1 /\ Cost(costs, i) <= budget THEN i ELSE x
  OBVIOUS
<1> HIDE DEF next
<1>3. PICK f : Recursion(N, Nat, 0, next, f)
  BY <1>0, <1>1, RecursionExists
<1>4. /\ f \in [0 .. N -> Nat] /\ f[0] = 0
      /\ \A i \in 1 .. N : f[i] = next[i][f[i - 1]]
  BY <1>3 DEF Recursion
<1>5. ASSUME NEW i \in 0 .. N
      PROVE  f[i] = IF i = 0 THEN 0
                    ELSE IF f[i - 1] = i - 1 /\ Cost(costs, i) <= budget THEN i ELSE f[i - 1]
  <2>1. CASE i = 0
    BY <1>4, <2>1
  <2>2. CASE i # 0
    <3>1. i \in 1 .. N /\ i - 1 \in 0 .. N
      BY <1>0, <2>2
    <3>2. f[i - 1] \in Nat
      BY <1>4, <3>1
    <3> QED BY <1>2, <1>4, <2>2, <3>1, <3>2
  <2> QED BY <2>1, <2>2
<1>6. f = [i \in 0 .. N |->
              IF i = 0 THEN 0
              ELSE IF f[i - 1] = i - 1 /\ Cost(costs, i) <= budget THEN i ELSE f[i - 1]]
  BY <1>4, <1>5
<1> QED BY <1>0, <1>6 DEF Keeps

\* The loop keeps as many entries as fit together.
Fits(costs, budget, N, g) ==
    g \in 0 .. N /\ \A n \in 0 .. N : n <= g <=> Cost(costs, n) <= budget

LEMMA GreedyIs ==
    ASSUME NEW N, NEW costs, Segment(costs, N), NEW budget \in Nat
    PROVE  Fits(costs, budget, N, Greedy(costs, budget))
<1>0. /\ N \in Nat /\ Len(costs) = N /\ Cost(costs, 0) = 0
      /\ \A n \in 0 .. N : Cost(costs, n) \in Nat
      /\ \A m, n \in 0 .. N : m <= n => Cost(costs, m) <= Cost(costs, n)
  BY DEF Segment
<1> DEFINE f == CHOOSE f : Keeps(costs, budget, f)
<1>1. Keeps(costs, budget, f)
  BY KeepsExist
<1>2. Greedy(costs, budget) = f[Len(costs)]
  BY Zenon DEF Greedy, Keeps
<1> HIDE DEF f
<1>3. \A i \in 0 .. N : f[i] = IF i = 0 THEN 0
          ELSE IF f[i - 1] = i - 1 /\ Cost(costs, i) <= budget THEN i ELSE f[i - 1]
  BY <1>0, <1>1 DEF Keeps
<1> DEFINE Fills(i) == /\ f[i] \in 0 .. i
                       /\ Cost(costs, f[i]) <= budget
                       /\ f[i] < i => ~ (Cost(costs, f[i] + 1) <= budget)
           fails == {i \in 0 .. N : ~ Fills(i)}
<1>4. fails = {}
  <2> SUFFICES ASSUME fails # {} PROVE FALSE
    OBVIOUS
  <2>1. fails \subseteq Nat /\ \A i \in fails : i \in 0 .. N
    OBVIOUS
  <2>2. \A i \in 0 .. N : i \in fails <=> ~ Fills(i)
    OBVIOUS
  <2> HIDE DEF fails
  <2>3. PICK i \in fails : \A j \in fails : i <= j
    BY <2>1, LeastNumber
  <2>4. i \in 0 .. N /\ ~ Fills(i)
    BY <2>1, <2>2
  <2>5. CASE i = 0
    <3>1. f[0] = 0
      BY <1>3, <2>4, <2>5
    <3> QED BY <1>0, <2>4, <2>5, <3>1
  <2>6. CASE i # 0
    <3>1. i \in 1 .. N /\ i - 1 \in 0 .. N /\ ~ (i <= i - 1)
      BY <1>0, <2>4, <2>6
    <3>2. Fills(i - 1)
      BY <2>2, <2>3, <3>1
    <3>3. f[i] = IF f[i - 1] = i - 1 /\ Cost(costs, i) <= budget THEN i ELSE f[i - 1]
      BY <1>3, <2>4, <2>6
    <3>4. CASE f[i - 1] = i - 1 /\ Cost(costs, i) <= budget
      <4>1. f[i] = i /\ i \in 0 .. i
        BY <3>1, <3>3, <3>4
      <4> QED BY <2>4, <3>4, <4>1
    <3>5. CASE f[i - 1] = i - 1 /\ ~ (Cost(costs, i) <= budget)
      <4>1. f[i] = i - 1 /\ i - 1 \in 0 .. i /\ (i - 1) + 1 = i
        BY <3>1, <3>3, <3>5
      <4> QED BY <2>4, <3>2, <3>5, <4>1
    <3>6. CASE f[i - 1] # i - 1
      <4>1. f[i] = f[i - 1] /\ f[i - 1] \in 0 .. i - 1 /\ f[i - 1] < i - 1
        BY <3>1, <3>2, <3>3, <3>6
      <4>2. f[i] \in 0 .. i
        BY <3>1, <4>1
      <4> QED BY <2>4, <3>2, <4>1, <4>2
    <3> QED BY <3>4, <3>5, <3>6
  <2> QED BY <2>5, <2>6
<1>5. Fills(N)
  BY <1>0, <1>4
<1> DEFINE g == f[N]
<1>6. g \in 0 .. N /\ Cost(costs, g) <= budget /\ (g < N => ~ (Cost(costs, g + 1) <= budget))
  BY <1>5
<1>7. g = Greedy(costs, budget)
  BY <1>0, <1>2
<1> HIDE DEF g
<1>8. ASSUME NEW n \in 0 .. N
      PROVE  n <= g <=> Cost(costs, n) <= budget
  <2>1. Cost(costs, n) \in Nat /\ Cost(costs, g) \in Nat
    BY <1>0, <1>6
  <2>2. CASE n <= g
    <3>1. Cost(costs, n) <= Cost(costs, g)
      BY <1>0, <1>6, <2>2
    <3> QED BY <1>6, <2>1, <2>2, <3>1
  <2>3. CASE ~ (n <= g)
    <3>1. g < N /\ g + 1 \in 0 .. N /\ g + 1 <= n
      BY <1>0, <1>6, <2>3
    <3>2. Cost(costs, g + 1) <= Cost(costs, n) /\ Cost(costs, g + 1) \in Nat
      BY <1>0, <3>1
    <3> QED BY <1>6, <2>1, <2>3, <3>1, <3>2
  <2> QED BY <2>2, <2>3
<1> QED BY <1>6, <1>7, <1>8 DEF Fits

\* The number of entries that are left when the last ones make way for the marker.
Evicts(costs, budget, f) ==
    f = [n \in 0 .. Len(costs) |->
            IF n > 0 /\ Cost(costs, n) + MarkerCost > budget THEN f[n - 1] ELSE n]

LEMMA EvictsExist ==
    ASSUME NEW N, NEW costs, Segment(costs, N), NEW budget
    PROVE  \E f : Evicts(costs, budget, f)
<1>0. N \in Nat /\ Len(costs) = N
  BY DEF Segment
<1> DEFINE next == [n \in 1 .. N |-> [x \in Nat |->
                       IF Cost(costs, n) + MarkerCost > budget THEN x ELSE n]]
<1>1. next \in [1 .. N -> [Nat -> Nat]]
  BY <1>0
<1>2. \A x \in Nat, n \in 1 .. N :
          next[n][x] = IF Cost(costs, n) + MarkerCost > budget THEN x ELSE n
  OBVIOUS
<1> HIDE DEF next
<1>3. PICK f : Recursion(N, Nat, 0, next, f)
  BY <1>0, <1>1, RecursionExists
<1>4. /\ f \in [0 .. N -> Nat] /\ f[0] = 0
      /\ \A n \in 1 .. N : f[n] = next[n][f[n - 1]]
  BY <1>3 DEF Recursion
<1>5. ASSUME NEW n \in 0 .. N
      PROVE  f[n] = IF n > 0 /\ Cost(costs, n) + MarkerCost > budget THEN f[n - 1] ELSE n
  <2>1. CASE n = 0
    BY <1>4, <2>1
  <2>2. CASE n # 0
    <3>1. n \in 1 .. N /\ n - 1 \in 0 .. N /\ n > 0
      BY <1>0, <2>2
    <3>2. f[n - 1] \in Nat
      BY <1>4, <3>1
    <3> QED BY <1>2, <1>4, <3>1, <3>2
  <2> QED BY <2>1, <2>2
<1>6. f = [n \in 0 .. N |->
              IF n > 0 /\ Cost(costs, n) + MarkerCost > budget THEN f[n - 1] ELSE n]
  BY <1>4, <1>5
<1> QED BY <1>0, <1>6 DEF Evicts

\* Which n entries fit, with the marker unless they are all.
Marked(costs, budget, N, n) ==
    Cost(costs, n) + (IF n < N THEN MarkerCost ELSE 0) <= budget

\* What _fit_prefix returns: the longest prefix that fits, or nothing but a marker.
Prefix(costs, budget, N, fit) ==
    /\ fit = [kept |-> fit.kept, omitted |-> N - fit.kept,
              used |-> Cost(costs, fit.kept) + (IF fit.kept < N THEN MarkerCost ELSE 0)]
    /\ fit.kept \in 0 .. N
    /\ fit.kept = 0 \/ Marked(costs, budget, N, fit.kept)
    /\ \A n \in 0 .. N : Marked(costs, budget, N, n) => n <= fit.kept

LEMMA FitPrefixIs ==
    ASSUME NEW N, NEW costs, Segment(costs, N), NEW budget \in Nat
    PROVE  Prefix(costs, budget, N, FitPrefix(costs, budget))
<1>0. /\ N \in Nat /\ Len(costs) = N /\ Cost(costs, 0) = 0
      /\ \A n \in 0 .. N : Cost(costs, n) \in Nat
      /\ MarkerCost \in Nat /\ MarkerCost # 0
  BY CostAssumption DEF Segment
<1> DEFINE g == Greedy(costs, budget)
           f == CHOOSE f : Evicts(costs, budget, f)
           fit == FitPrefix(costs, budget)
<1>1. g \in 0 .. N /\ \A n \in 0 .. N : n <= g <=> Cost(costs, n) <= budget
  BY GreedyIs DEF Fits
<1>2. Evicts(costs, budget, f)
  BY EvictsExist
<1>3. fit = IF g = Len(costs)
            THEN [kept |-> g, omitted |-> 0, used |-> Cost(costs, g)]
            ELSE [kept |-> f[g], omitted |-> Len(costs) - f[g],
                  used |-> Cost(costs, f[g]) + MarkerCost]
  BY ZenonT(40) DEF FitPrefix, Evicts
<1> SUFFICES Prefix(costs, budget, N, fit)
  OBVIOUS
<1> HIDE DEF f, g, fit
<1>4. \A n \in 0 .. N :
          f[n] = IF n > 0 /\ Cost(costs, n) + MarkerCost > budget THEN f[n - 1] ELSE n
  BY <1>0, <1>2 DEF Evicts
<1>5. CASE g = N
  <2>1. fit = [kept |-> N, omitted |-> 0, used |-> Cost(costs, N)]
    BY <1>0, <1>3, <1>5
  <2>2. fit.kept = N /\ N - N = 0 /\ ~ (N < N) /\ Cost(costs, N) + 0 = Cost(costs, N)
        /\ N \in 0 .. N /\ N <= g
    BY <1>0, <1>5, <2>1
  <2>3. Cost(costs, N) <= budget
    BY <1>1, <2>2
  <2>4. Marked(costs, budget, N, N)
    BY <2>2, <2>3 DEF Marked
  <2>5. \A n \in 0 .. N : n <= N
    BY <1>0
  <2>6. Cost(costs, N) \in Nat
    BY <1>0
  <2>7. fit = [kept |-> fit.kept, omitted |-> N - fit.kept,
               used |-> Cost(costs, fit.kept) + (IF fit.kept < N THEN MarkerCost ELSE 0)]
    BY <2>1, <2>2, <2>6
  <2> QED BY <2>2, <2>4, <2>5, <2>7 DEF Prefix
<1>6. CASE g # N
  <2> DEFINE Fills(i) == /\ f[i] \in 0 .. i
                         /\ f[i] = 0 \/ Cost(costs, f[i]) + MarkerCost <= budget
                         /\ \A n \in f[i] + 1 .. i : Cost(costs, n) + MarkerCost > budget
             fails == {i \in 0 .. N : ~ Fills(i)}
  <2>1. fails = {}
    <3> SUFFICES ASSUME fails # {} PROVE FALSE
      OBVIOUS
    <3>1. fails \subseteq Nat /\ \A i \in fails : i \in 0 .. N
      OBVIOUS
    <3>2. \A i \in 0 .. N : i \in fails <=> ~ Fills(i)
      OBVIOUS
    <3> HIDE DEF fails
    <3>3. PICK i \in fails : \A j \in fails : i <= j
      BY <3>1, LeastNumber
    <3>4. i \in 0 .. N /\ ~ Fills(i)
      BY <3>1, <3>2
    <3>5. CASE ~ (i > 0 /\ Cost(costs, i) + MarkerCost > budget)
      <4>1. f[i] = i
        BY <1>4, <3>4, <3>5
      <4>2. Cost(costs, i) \in Nat /\ i \in 0 .. i
        BY <1>0, <3>4
      <4>3. i = 0 \/ Cost(costs, i) + MarkerCost <= budget
        BY <1>0, <3>4, <3>5, <4>2
      <4>4. i + 1 .. i = {}
        BY <1>0, <3>4
      <4> QED BY <3>4, <4>1, <4>2, <4>3, <4>4
    <3>6. CASE i > 0 /\ Cost(costs, i) + MarkerCost > budget
      <4>1. i \in 1 .. N /\ i - 1 \in 0 .. N /\ ~ (i <= i - 1)
        BY <1>0, <3>4, <3>6
      <4>2. Fills(i - 1)
        BY <3>2, <3>3, <4>1
      <4>3. f[i] = f[i - 1]
        BY <1>4, <3>4, <3>6
      <4>4. f[i - 1] \in 0 .. i - 1
        BY <4>2
      <4>5. \A n \in f[i - 1] + 1 .. i : n \in f[i - 1] + 1 .. i - 1 \/ n = i
        BY <4>1, <4>4
      <4>6. f[i - 1] \in 0 .. i
        BY <4>1, <4>4
      <4> QED BY <3>4, <3>6, <4>2, <4>3, <4>5, <4>6
    <3> QED BY <3>5, <3>6
  <2>2. Fills(g)
    BY <1>1, <2>1
  <2> DEFINE e == f[g]
  <2>3. /\ e \in 0 .. g /\ (e = 0 \/ Cost(costs, e) + MarkerCost <= budget)
        /\ \A n \in e + 1 .. g : Cost(costs, n) + MarkerCost > budget
        /\ fit = [kept |-> e, omitted |-> N - e, used |-> Cost(costs, e) + MarkerCost]
    BY <1>0, <1>3, <1>6, <2>2
  <2> HIDE DEF e
  <2>4. e < N /\ e \in 0 .. N /\ fit.kept = e
    BY <1>0, <1>1, <1>6, <2>3
  <2>5. e = 0 \/ Marked(costs, budget, N, e)
    BY <2>3, <2>4 DEF Marked
  <2>6. ASSUME NEW n \in 0 .. N, Marked(costs, budget, N, n)
        PROVE  n <= e
    <3>1. Cost(costs, n) \in Nat
      BY <1>0
    <3>2. Cost(costs, n) <= budget
      BY <1>0, <2>6, <3>1 DEF Marked
    <3>3. n <= g /\ n < N
      BY <1>0, <1>1, <1>6, <3>2
    <3>4. Cost(costs, n) + MarkerCost <= budget
      BY <2>6, <3>3 DEF Marked
    <3>5. n \notin e + 1 .. g
      BY <1>0, <2>3, <3>1, <3>4
    <3> QED BY <1>0, <1>1, <2>4, <3>3, <3>5
  <2>7. fit = [kept |-> fit.kept, omitted |-> N - fit.kept,
               used |-> Cost(costs, fit.kept) + (IF fit.kept < N THEN MarkerCost ELSE 0)]
    BY <2>3, <2>4
  <2> QED BY <2>4, <2>5, <2>6, <2>7 DEF Prefix
<1> QED BY <1>5, <1>6

\* The last call asked for the longest prefix.
IsFit(costs, budget) == budget \in Nat /\ \E N : Segment(costs, N)

LEMMA PrefixIsLongest ==
    ASSUME NEW N, NEW costs, Segment(costs, N), NEW budget \in Nat,
           NEW fit, Prefix(costs, budget, N, fit)
    PROVE  fit.kept = Max({0} \union {n \in 0 .. N : Marked(costs, budget, N, n)})
<1> DEFINE T == {0} \union {n \in 0 .. N : Marked(costs, budget, N, n)}
<1>1. /\ fit.kept \in 0 .. N
      /\ fit.kept = 0 \/ Marked(costs, budget, N, fit.kept)
      /\ \A n \in 0 .. N : Marked(costs, budget, N, n) => n <= fit.kept
  BY DEF Prefix
<1>2. N \in Nat
  BY DEF Segment
<1>3. T \subseteq Nat /\ fit.kept \in T
  BY <1>1, <1>2
<1>4. \A x \in T : x <= fit.kept
  BY <1>1, <1>2
<1> HIDE DEF T
<1>5. Max(T) = fit.kept
  BY <1>3, <1>4, MaxIs
<1> QED BY <1>5 DEF T

\* What a segment takes of a room, and how it leaves it.
Takes(costs, room, N, shown, bare) ==
    /\ shown.used \in Nat
    /\ shown.used <= room + (IF bare THEN MarkerCost ELSE 0)
    /\ bare <=> shown.kept = 0 /\ shown.omitted > 0
    /\ Cost(costs, N) <= room => shown = [kept |-> N, omitted |-> 0, used |-> Cost(costs, N)]

LEMMA PrefixTakes ==
    ASSUME NEW N, NEW costs, Segment(costs, N), NEW room \in Nat
    PROVE  LET shown == FitPrefix(costs, room)
           IN  Takes(costs, room, N, shown, shown.kept = 0 /\ shown.omitted > 0)
<1> DEFINE shown == FitPrefix(costs, room)
           bare == shown.kept = 0 /\ shown.omitted > 0
<1>1. Prefix(costs, room, N, shown)
  BY FitPrefixIs
<1> SUFFICES Takes(costs, room, N, shown, bare)
  OBVIOUS
<1> HIDE DEF shown
<1>2. /\ shown = [kept |-> shown.kept, omitted |-> N - shown.kept,
                  used |-> Cost(costs, shown.kept)
                             + (IF shown.kept < N THEN MarkerCost ELSE 0)]
      /\ shown.kept \in 0 .. N
      /\ shown.kept = 0 \/ Marked(costs, room, N, shown.kept)
      /\ \A n \in 0 .. N : Marked(costs, room, N, n) => n <= shown.kept
  BY <1>1 DEF Prefix
<1>3. /\ N \in Nat /\ Cost(costs, 0) = 0 /\ \A n \in 0 .. N : Cost(costs, n) \in Nat
      /\ MarkerCost \in Nat
  BY CostAssumption DEF Segment
<1> DEFINE k == shown.kept
<1>4. /\ shown.omitted = N - k
      /\ shown.used = Cost(costs, k) + (IF k < N THEN MarkerCost ELSE 0)
      /\ k \in 0 .. N /\ Cost(costs, k) \in Nat
  BY <1>2, <1>3
<1> HIDE DEF k
<1>5. shown.used \in Nat
  BY <1>3, <1>4
<1>6. CASE k = 0 /\ k < N
  <2>1. bare
    BY <1>3, <1>4, <1>6 DEF k
  <2>2. shown.used <= room + MarkerCost
    BY <1>3, <1>4, <1>6
  <2>3. ~ (Cost(costs, N) <= room)
    <3> SUFFICES ASSUME Cost(costs, N) <= room PROVE FALSE
      OBVIOUS
    <3>1. N \in 0 .. N /\ Cost(costs, N) \in Nat
      BY <1>3
    <3>2. Marked(costs, room, N, N)
      BY <1>3, <3>1 DEF Marked
    <3>3. N <= k
      BY <1>2, <3>1, <3>2 DEF k
    <3> QED BY <1>3, <1>6, <3>3
  <2> QED BY <1>5, <2>1, <2>2, <2>3 DEF Takes
<1>7. CASE ~ (k = 0 /\ k < N)
  <2>1. ~ bare
    BY <1>3, <1>4, <1>7 DEF k
  <2>2. CASE k < N
    <3>1. Marked(costs, room, N, k)
      BY <1>2, <1>7, <2>2 DEF k
    <3>2. shown.used <= room
      BY <1>4, <2>2, <3>1 DEF Marked
    <3>3. ~ (Cost(costs, N) <= room)
      <4> SUFFICES ASSUME Cost(costs, N) <= room PROVE FALSE
        OBVIOUS
      <4>1. N \in 0 .. N /\ Cost(costs, N) \in Nat
        BY <1>3
      <4>2. Marked(costs, room, N, N)
        BY <1>3, <4>1 DEF Marked
      <4>3. N <= k
        BY <1>2, <4>1, <4>2 DEF k
      <4> QED BY <1>3, <1>4, <2>2, <4>3
    <3>4. shown.used <= room + 0
      BY <1>5, <3>2
    <3> QED BY <1>5, <2>1, <3>3, <3>4 DEF Takes
  <2>3. CASE ~ (k < N)
    <3>1. k = N /\ N - N = 0
      BY <1>3, <1>4, <2>3
    <3>2. shown = [kept |-> N, omitted |-> 0, used |-> Cost(costs, N)]
      <4>1. Cost(costs, N) + 0 = Cost(costs, N) /\ ~ (N < N)
        BY <1>3, <1>4, <3>1
      <4> QED BY <1>2, <3>1, <4>1 DEF k
    <3>3. shown.used <= room + 0
      <4>1. shown.used = Cost(costs, N) /\ Cost(costs, N) \in Nat
        BY <1>4, <3>1, <3>2
      <4>2. N = 0 \/ Marked(costs, room, N, N)
        BY <1>2, <3>1 DEF k
      <4>3. N = 0 => Cost(costs, N) = 0
        BY <1>3
      <4>4. Marked(costs, room, N, N) => Cost(costs, N) <= room
        BY <1>3, <4>1 DEF Marked
      <4> QED BY <4>1, <4>2, <4>3, <4>4
    <3> QED BY <1>5, <2>1, <3>2, <3>3 DEF Takes
  <2> QED BY <2>2, <2>3
<1> QED BY <1>6, <1>7

\* The last entries cost what is left of all when the others are taken away.
LEMMA ReverseCosts ==
    ASSUME NEW N, NEW costs, Segment(costs, N)
    PROVE  Segment(Reverse(costs), N) /\ Cost(Reverse(costs), N) = Cost(costs, N)
<1> DEFINE rev == Reverse(costs)
<1>1. /\ N \in Nat /\ costs \in [1 .. N -> Nat] /\ Len(costs) = N
      /\ Cost(costs, 0) = 0
      /\ \A n \in 0 .. N : Cost(costs, n) \in Nat
      /\ \A n \in 1 .. N : Cost(costs, n) = Cost(costs, n - 1) + costs[n]
  BY DEF Segment
<1>2. rev = [i \in 1 .. N |-> costs[(N - i) + 1]]
  BY <1>1 DEF Reverse
<1>3. \A i \in 1 .. N : (N - i) + 1 \in 1 .. N
  BY <1>1
<1> HIDE DEF rev
<1>4. rev \in [1 .. N -> Nat] /\ \A i \in 1 .. N : rev[i] = costs[(N - i) + 1]
  BY <1>1, <1>2, <1>3
<1>5. Segment(rev, N)
  BY <1>1, <1>4, SegmentIs
<1>6. /\ Cost(rev, 0) = 0
      /\ \A n \in 0 .. N : Cost(rev, n) \in Nat
      /\ \A n \in 1 .. N : Cost(rev, n) = Cost(rev, n - 1) + rev[n]
  BY <1>5 DEF Segment
<1> DEFINE fails == {n \in 0 .. N : Cost(rev, n) + Cost(costs, N - n) # Cost(costs, N)}
<1>7. fails = {}
  <2> SUFFICES ASSUME fails # {} PROVE FALSE
    OBVIOUS
  <2>1. fails \subseteq Nat /\ \A n \in fails : n \in 0 .. N
    OBVIOUS
  <2>2. \A n \in 0 .. N : n \in fails <=> Cost(rev, n) + Cost(costs, N - n) # Cost(costs, N)
    OBVIOUS
  <2> HIDE DEF fails
  <2>3. PICK n \in fails : \A m \in fails : n <= m
    BY <2>1, LeastNumber
  <2>4. n \in 0 .. N
    BY <2>1
  <2>5. CASE n = 0
    <3>1. N - 0 = N /\ N \in 0 .. N /\ Cost(costs, N) \in Nat
      BY <1>1
    <3>2. Cost(rev, 0) + Cost(costs, N - 0) = Cost(costs, N)
      BY <1>6, <3>1
    <3> QED BY <2>2, <2>4, <2>5, <3>2
  <2>6. CASE n # 0
    <3>1. n \in 1 .. N /\ n - 1 \in 0 .. N /\ ~ (n <= n - 1)
      BY <1>1, <2>4, <2>6
    <3>2. /\ (N - n) + 1 \in 1 .. N /\ N - (n - 1) = (N - n) + 1
          /\ ((N - n) + 1) - 1 = N - n /\ N - n \in 0 .. N
      BY <1>1, <3>1
    <3>3. Cost(rev, n - 1) + Cost(costs, (N - n) + 1) = Cost(costs, N)
      BY <2>2, <2>3, <3>1, <3>2
    <3>4. Cost(costs, (N - n) + 1) = Cost(costs, N - n) + costs[(N - n) + 1]
      BY <1>1, <3>2
    <3>5. Cost(rev, n) = Cost(rev, n - 1) + costs[(N - n) + 1]
      BY <1>4, <1>6, <3>1
    <3>6. /\ Cost(rev, n - 1) \in Nat /\ Cost(costs, N - n) \in Nat
          /\ costs[(N - n) + 1] \in Nat
      BY <1>1, <1>6, <3>1, <3>2
    <3>7. Cost(rev, n) + Cost(costs, N - n) = Cost(costs, N)
      BY <3>3, <3>4, <3>5, <3>6
    <3> QED BY <2>2, <2>4, <3>7
  <2> QED BY <2>5, <2>6
<1>8. Cost(rev, N) = Cost(costs, N)
  <2>1. N \in 0 .. N /\ N - N = 0 /\ Cost(rev, N) \in Nat
    BY <1>1, <1>6
  <2>2. Cost(rev, N) + Cost(costs, N - N) = Cost(costs, N)
    BY <1>7, <2>1
  <2> QED BY <1>1, <2>1, <2>2
<1> QED BY <1>5, <1>8 DEF rev

\* The history takes no more than its room.
LEMMA HistoryTakes ==
    ASSUME NEW N, NEW costs, Segment(costs, N), NEW room \in Nat,
           NEW shown, shown = FitHistoryNewest(costs, room)
    PROVE  /\ shown.used \in Nat /\ shown.used <= room
           /\ Cost(costs, N) <= room => shown = [kept |-> N, used |-> Cost(costs, N)]
<1> DEFINE rev == Reverse(costs)
           g == Greedy(rev, room)
<1>1. Segment(rev, N) /\ Cost(rev, N) = Cost(costs, N)
  BY ReverseCosts
<1>2. shown = [kept |-> g, used |-> Cost(rev, g)]
  BY DEF FitHistoryNewest
<1> HIDE DEF rev
<1>3. g \in 0 .. N /\ \A n \in 0 .. N : n <= g <=> Cost(rev, n) <= room
  BY <1>1, GreedyIs DEF Fits
<1>4. N \in Nat /\ \A n \in 0 .. N : Cost(rev, n) \in Nat
  BY <1>1 DEF Segment
<1> HIDE DEF g
<1>5. g <= g /\ N \in 0 .. N
  BY <1>3, <1>4
<1>6. Cost(rev, g) \in Nat /\ Cost(rev, g) <= room
  BY <1>3, <1>4, <1>5
<1>7. Cost(rev, N) <= room => g = N
  BY <1>3, <1>4, <1>5
<1> QED BY <1>1, <1>2, <1>6, <1>7

\* The costs of the hits at some places are a segment.
LEMMA CostsAre ==
    ASSUME NEW n \in Nat, NEW S, NEW hits \in [1 .. n -> S], \A c \in S : c.cost \in Nat,
           NEW P, P \subseteq 1 .. n
    PROVE  \E N : Segment(CostsOf(hits, P), N)
<1>1. IsFiniteSet(P) /\ P \subseteq Int
  <2>1. IsFiniteSet(1 .. n) /\ 1 .. n \subseteq Int
    BY FS_Interval
  <2> QED BY <2>1, FS_Subset
<1>2. PICK k, e : Picking(hits, P, k, e)
  BY <1>1, PickedBy
<1>3. /\ k \in Nat /\ \A r \in 1 .. k : e[r] \in 1 .. n
      /\ Picked(hits, P) = [r \in 1 .. k |-> hits[e[r]]]
  BY <1>2 DEF Picking, Through
<1>4. CostsOf(hits, P) = [r \in 1 .. k |-> hits[e[r]].cost]
  BY <1>3 DEF CostsOf
<1>5. \A r \in 1 .. k : hits[e[r]].cost \in Nat
  BY <1>3
<1>6. CostsOf(hits, P) \in [1 .. k -> Nat]
  BY <1>4, <1>5
<1>7. Segment(CostsOf(hits, P), k)
  BY <1>3, <1>6, SegmentIs
<1> QED BY <1>7

\* The facts among the facts are the facts.
LEMMA FactsOfFacts ==
    ASSUME NEW n \in Nat, NEW hits, DOMAIN hits = 1 .. n,
           NEW facts, facts = Picked(hits, {i \in DOMAIN hits : hits[i].type = "fact"})
    PROVE  FactsOf(facts) = FactsOf(hits)
<1> DEFINE P == {i \in DOMAIN hits : hits[i].type = "fact"}
           Q == {i \in DOMAIN facts : facts[i].type = "fact"}
<1>1. IsFiniteSet(P) /\ P \subseteq Int
  <2>1. IsFiniteSet(1 .. n) /\ 1 .. n \subseteq Int /\ P \in SUBSET (1 .. n)
    BY FS_Interval
  <2> HIDE DEF P
  <2> QED BY <2>1, FS_Subset
<1>2. PICK k, e : Picking(hits, P, k, e)
  <2> HIDE DEF P
  <2> QED BY <1>1, PickedBy
<1>3. /\ k \in Nat /\ \A r \in 1 .. k : e[r] \in P
      /\ facts = [r \in 1 .. k |-> hits[e[r]]]
  BY <1>2 DEF Picking, Through
<1>4. DOMAIN facts = 1 .. k /\ \A r \in 1 .. k : facts[r].type = "fact"
  BY <1>3
<1>5. Q = 1 .. k
  BY <1>4
<1>6. Picked(facts, Q) = facts
  <2>1. DOMAIN facts = 1 .. k /\ facts = [r \in 1 .. k |-> facts[r]]
    BY <1>3
  <2> HIDE DEF P, Q
  <2> QED BY <1>3, <1>5, <2>1, PickedAll
<1>7. FactsOf(hits) = [i \in DOMAIN facts |-> facts[i].cost]
  BY DEF FactsOf, CostsOf
<1>8. FactsOf(facts) = [i \in DOMAIN Picked(facts, Q) |-> Picked(facts, Q)[i].cost]
  BY DEF FactsOf, CostsOf
<1> HIDE DEF Q
<1> QED BY <1>6, <1>7, <1>8

\* What a call asks of build_prompt.
IsPrompt(in) ==
    /\ in = [private |-> in.private, buffer |-> in.buffer, history |-> in.history,
             hits |-> in.hits, budget |-> in.budget]
    /\ \E N : Segment(in.private, N)
    /\ \E N : Segment(in.buffer, N)
    /\ \E N : Segment(in.history, N)
    /\ \E n \in Nat : \E S : in.hits \in [1 .. n -> S] /\ \A c \in S : c.cost \in Nat
    /\ in.budget = NoBudget \/ in.budget \in Nat

LEMMA RoomIs ==
    ASSUME NEW in, in.budget \in Nat
    PROVE  Room(in) \in Nat
<1> DEFINE header == IF in.private = << >> THEN 0 ELSE ScenarioHeader
<1>1. header \in Nat /\ Mandatory \in Nat
  BY CostAssumption
<1>2. Room(in) = MaxOf(0, in.budget - Mandatory - header)
  BY DEF Room
<1> HIDE DEF header
<1> QED BY <1>1, <1>2 DEF MaxOf

LEMMA LeftIs ==
    ASSUME NEW room \in Nat, NEW shown, shown.used \in Nat
    PROVE  /\ Left(room, shown) \in Nat
           /\ shown.used + Left(room, shown) >= room
           /\ shown.used <= room => shown.used + Left(room, shown) = room
           /\ \A m \in Nat : shown.used <= room + m => shown.used + Left(room, shown) <= room + m
BY DEF Left, MaxOf

\* Whether a segment shows only its marker.
Bare(shown) == shown.kept = 0 /\ shown.omitted > 0

MarkerOf(bare) == IF bare THEN MarkerCost ELSE 0

BareOf(shown) == {seg \in Segments : shown[seg].kept = 0 /\ shown[seg].omitted > 0}

LEMMA OneMore ==
    ASSUME NEW S, IsFiniteSet(S), NEW x, x \notin S, NEW T, T = S \/ T = S \union {x}
    PROVE  /\ IsFiniteSet(T)
           /\ Cardinality(T) = Cardinality(S) + (IF x \in T THEN 1 ELSE 0)
<1>1. Cardinality(S) \in Nat
  BY FS_CardinalityType
<1>2. CASE T = S
  BY <1>1, <1>2
<1>3. CASE T = S \union {x}
  BY <1>1, <1>3, FS_AddElement
<1> QED BY <1>2, <1>3

\* A marker for each segment that shows nothing else.
LEMMA MarkersAre ==
    ASSUME NEW shown
    PROVE  MarkerCost * Cardinality(BareOf(shown)) =
               MarkerOf(Bare(shown.private)) + MarkerOf(Bare(shown.buffer))
                   + MarkerOf(Bare(shown.facts)) + MarkerOf(Bare(shown.docs))
<1> DEFINE T == BareOf(shown)
           T1 == T \intersect {"private"}
           T2 == T \intersect {"private", "buffer"}
           T3 == T \intersect {"private", "buffer", "facts"}
           C(x) == IF x \in T THEN 1 ELSE 0
<1>1. /\ "private" \in T <=> Bare(shown.private)
      /\ "buffer" \in T <=> Bare(shown.buffer)
      /\ "facts" \in T <=> Bare(shown.facts)
      /\ "docs" \in T <=> Bare(shown.docs)
      /\ T \subseteq {"private", "buffer", "facts", "docs"}
  BY DEF BareOf, Bare, Segments
<1> HIDE DEF T
<1>2. IsFiniteSet({}) /\ Cardinality({}) = 0
  BY FS_EmptySet
<1>3. IsFiniteSet(T1) /\ Cardinality(T1) = Cardinality({}) + C("private")
  <2>1. T1 = {} \/ T1 = {} \union {"private"}
    OBVIOUS
  <2>2. "private" \in T1 <=> "private" \in T
    OBVIOUS
  <2> HIDE DEF T1
  <2> QED BY <1>2, <2>1, <2>2, OneMore
<1>4. IsFiniteSet(T2) /\ Cardinality(T2) = Cardinality(T1) + C("buffer")
  <2>1. T2 = T1 \/ T2 = T1 \union {"buffer"}
    OBVIOUS
  <2>2. ("buffer" \in T2 <=> "buffer" \in T) /\ "buffer" \notin T1
    OBVIOUS
  <2> HIDE DEF T1, T2
  <2> QED BY <1>3, <2>1, <2>2, OneMore
<1>5. IsFiniteSet(T3) /\ Cardinality(T3) = Cardinality(T2) + C("facts")
  <2>1. T3 = T2 \/ T3 = T2 \union {"facts"}
    OBVIOUS
  <2>2. ("facts" \in T3 <=> "facts" \in T) /\ "facts" \notin T2
    OBVIOUS
  <2> HIDE DEF T2, T3
  <2> QED BY <1>4, <2>1, <2>2, OneMore
<1>6. Cardinality(T) = Cardinality(T3) + C("docs")
  <2>1. T = T3 \/ T = T3 \union {"docs"}
    BY <1>1
  <2>2. "docs" \notin T3
    OBVIOUS
  <2> HIDE DEF T3
  <2> QED BY <1>5, <2>1, <2>2, OneMore
<1> HIDE DEF T1, T2, T3
<1>7. Cardinality(T) = C("private") + C("buffer") + C("facts") + C("docs")
  <2>1. \A x : C(x) \in Nat
    OBVIOUS
  <2> HIDE DEF C
  <2> QED BY <1>2, <1>3, <1>4, <1>5, <1>6, <2>1
<1>8. \A x : MarkerCost * C(x) = MarkerOf(x \in T) /\ C(x) \in Nat
  BY CostAssumption DEF MarkerOf
<1> DEFINE c1 == C("private")
           c2 == C("buffer")
           c3 == C("facts")
           c4 == C("docs")
<1>9. c1 \in Nat /\ c2 \in Nat /\ c3 \in Nat /\ c4 \in Nat /\ MarkerCost \in Nat
  BY <1>8, CostAssumption
<1>10. /\ MarkerCost * c1 = MarkerOf("private" \in T)
       /\ MarkerCost * c2 = MarkerOf("buffer" \in T)
       /\ MarkerCost * c3 = MarkerOf("facts" \in T)
       /\ MarkerCost * c4 = MarkerOf("docs" \in T)
  BY <1>8
<1>11. Cardinality(T) = c1 + c2 + c3 + c4
  BY <1>7
<1> HIDE DEF C, c1, c2, c3, c4
<1>12. MarkerCost * (c1 + c2 + c3 + c4) =
           MarkerCost * c1 + MarkerCost * c2 + MarkerCost * c3 + MarkerCost * c4
  BY <1>9
<1>13. MarkerCost * Cardinality(T) =
           MarkerOf("private" \in T) + MarkerOf("buffer" \in T)
               + MarkerOf("facts" \in T) + MarkerOf("docs" \in T)
  BY <1>10, <1>11, <1>12
<1>14. /\ MarkerOf("private" \in T) = MarkerOf(Bare(shown.private))
       /\ MarkerOf("buffer" \in T) = MarkerOf(Bare(shown.buffer))
       /\ MarkerOf("facts" \in T) = MarkerOf(Bare(shown.facts))
       /\ MarkerOf("docs" \in T) = MarkerOf(Bare(shown.docs))
  BY <1>1 DEF MarkerOf
<1>15. T = BareOf(shown)
  BY DEF T
<1> QED BY <1>13, <1>14, <1>15, Zenon

Uses(shown) == shown.private.used + shown.buffer.used + shown.facts.used
                   + shown.history.used + shown.docs.used

\* What build_prompt shows in a room.
Serves(in, room, shown) ==
    /\ Uses(shown) <= room + MarkerCost * Cardinality(BareOf(shown))
    /\ Uses(Everything(in)) <= room => shown = Everything(in)

LEMMA FiveParts ==
    ASSUME NEW r0 \in Nat, NEW r1 \in Nat, NEW r2 \in Nat, NEW r3 \in Nat, NEW r4 \in Nat,
           NEW u1 \in Nat, NEW u2 \in Nat, NEW u3 \in Nat, NEW u4 \in Nat, NEW u5 \in Nat,
           NEW m1 \in Nat, NEW m2 \in Nat, NEW m3 \in Nat, NEW m5 \in Nat,
           u1 + r1 <= r0 + m1, u2 + r2 <= r1 + m2, u3 + r3 <= r2 + m3,
           u4 + r4 <= r3, u5 <= r4 + m5
    PROVE  u1 + u2 + u3 + u4 + u5 <= r0 + (m1 + m2 + m3 + m5)
OBVIOUS

LEMMA BudgetServes ==
    ASSUME NEW in, IsPrompt(in), in.budget \in Nat
    PROVE  Serves(in, Room(in), WithinBudget(in))
<1> DEFINE r0 == Room(in)
           cp == in.private
           cb == in.buffer
           ch == in.history
           cf == FactsOf(in.hits)
           cd == DocsOf(in.hits)
           sp == FitPrefix(cp, r0)
           r1 == Left(r0, sp)
           sb == FitPrefix(cb, r1)
           r2 == Left(r1, sb)
           sf == FitPrefix(cf, r2)
           r3 == Left(r2, sf)
           sh == FitHistoryNewest(ch, r3)
           r4 == Left(r3, sh)
           sd == FitPrefix(cd, r4)
           shown == WithinBudget(in)
           whole == Everything(in)
<1>1. PICK np : Segment(cp, np)
  BY DEF IsPrompt
<1>2. PICK nb : Segment(cb, nb)
  BY DEF IsPrompt
<1>3. PICK nh : Segment(ch, nh)
  BY DEF IsPrompt
<1>4. PICK n \in Nat : \E S : in.hits \in [1 .. n -> S] /\ \A c \in S : c.cost \in Nat
  BY DEF IsPrompt
<1>5. PICK S : in.hits \in [1 .. n -> S] /\ \A c \in S : c.cost \in Nat
  BY <1>4
<1>6. PICK nf : Segment(cf, nf)
  <2> DEFINE P == {i \in DOMAIN in.hits : in.hits[i].type = "fact"}
  <2>1. P \subseteq 1 .. n /\ cf = CostsOf(in.hits, P)
    BY <1>5 DEF FactsOf
  <2> HIDE DEF P, cf
  <2> QED BY <1>5, <2>1, CostsAre
<1>7. PICK nd : Segment(cd, nd)
  <2> DEFINE P == {i \in DOMAIN in.hits : in.hits[i].type # "fact"}
  <2>1. P \subseteq 1 .. n /\ cd = CostsOf(in.hits, P)
    BY <1>5 DEF DocsOf
  <2> HIDE DEF P, cd
  <2> QED BY <1>5, <2>1, CostsAre
<1>8. shown = [private |-> sp, buffer |-> sb, facts |-> sf, history |-> sh, docs |-> sd]
  BY DEF WithinBudget
<1>9. whole = [private |-> [kept |-> Len(cp), omitted |-> 0, used |-> Cost(cp, Len(cp))],
               buffer |-> [kept |-> Len(cb), omitted |-> 0, used |-> Cost(cb, Len(cb))],
               facts |-> [kept |-> Len(cf), omitted |-> 0, used |-> Cost(cf, Len(cf))],
               history |-> [kept |-> Len(ch), used |-> Cost(ch, Len(ch))],
               docs |-> [kept |-> Len(cd), omitted |-> 0, used |-> Cost(cd, Len(cd))]]
  BY DEF Everything
<1>10. /\ Len(cp) = np /\ Cost(cp, np) \in Nat
       /\ Len(cb) = nb /\ Cost(cb, nb) \in Nat
       /\ Len(cf) = nf /\ Cost(cf, nf) \in Nat
       /\ Len(ch) = nh /\ Cost(ch, nh) \in Nat
       /\ Len(cd) = nd /\ Cost(cd, nd) \in Nat
  <2>1. \A c, N : Segment(c, N) => Len(c) = N /\ Cost(c, N) \in Nat
    BY DEF Segment
  <2> HIDE DEF cp, cb, cf, ch, cd
  <2> QED BY <1>1, <1>2, <1>3, <1>6, <1>7, <2>1
<1>11. r0 \in Nat
  BY RoomIs
<1> HIDE DEF r0, cp, cb, ch, cf, cd, shown, whole
<1>12. Takes(cp, r0, np, sp, Bare(sp))
  BY <1>1, <1>11, PrefixTakes DEF Bare
<1>13. sp.used \in Nat /\ r1 \in Nat
  BY <1>11, <1>12, LeftIs DEF Takes
<1> HIDE DEF sp, r1
<1>14. Takes(cb, r1, nb, sb, Bare(sb))
  BY <1>2, <1>13, PrefixTakes DEF Bare
<1>15. sb.used \in Nat /\ r2 \in Nat
  BY <1>13, <1>14, LeftIs DEF Takes
<1> HIDE DEF sb, r2
<1>16. Takes(cf, r2, nf, sf, Bare(sf))
  BY <1>6, <1>15, PrefixTakes DEF Bare
<1>17. sf.used \in Nat /\ r3 \in Nat
  BY <1>15, <1>16, LeftIs DEF Takes
<1> HIDE DEF sf, r3
<1>18. /\ sh.used \in Nat /\ sh.used <= r3
       /\ Cost(ch, nh) <= r3 => sh = [kept |-> nh, used |-> Cost(ch, nh)]
  BY <1>3, <1>17, HistoryTakes
<1>19. r4 \in Nat
  BY <1>17, <1>18, LeftIs
<1> HIDE DEF sh, r4
<1>20. Takes(cd, r4, nd, sd, Bare(sd))
  BY <1>7, <1>19, PrefixTakes DEF Bare
<1> HIDE DEF sd
<1>21. sd.used \in Nat /\ sd.used <= r4 + MarkerOf(Bare(sd))
  BY <1>20 DEF Takes, MarkerOf
<1>22. \A b : MarkerOf(b) \in Nat
  BY CostAssumption DEF MarkerOf
<1>23. /\ sp.used + r1 <= r0 + MarkerOf(Bare(sp)) /\ sp.used + r1 >= r0
       /\ sp.used <= r0 => sp.used + r1 = r0
  <2>1. sp.used <= r0 + MarkerOf(Bare(sp))
    BY <1>12 DEF Takes, MarkerOf
  <2> QED BY <1>11, <1>13, <1>22, <2>1, LeftIs DEF r1
<1>24. /\ sb.used + r2 <= r1 + MarkerOf(Bare(sb)) /\ sb.used + r2 >= r1
       /\ sb.used <= r1 => sb.used + r2 = r1
  <2>1. sb.used <= r1 + MarkerOf(Bare(sb))
    BY <1>14 DEF Takes, MarkerOf
  <2> QED BY <1>13, <1>15, <1>22, <2>1, LeftIs DEF r2
<1>25. /\ sf.used + r3 <= r2 + MarkerOf(Bare(sf)) /\ sf.used + r3 >= r2
       /\ sf.used <= r2 => sf.used + r3 = r2
  <2>1. sf.used <= r2 + MarkerOf(Bare(sf))
    BY <1>16 DEF Takes, MarkerOf
  <2> QED BY <1>15, <1>17, <1>22, <2>1, LeftIs DEF r3
<1>26. sh.used + r4 = r3
  BY <1>17, <1>18, LeftIs DEF r4
<1>27. Uses(shown) = sp.used + sb.used + sf.used + sh.used + sd.used
  BY <1>8 DEF Uses
<1>28. Uses(shown) <= r0 + MarkerCost * Cardinality(BareOf(shown))
  <2>1. MarkerCost * Cardinality(BareOf(shown)) =
            MarkerOf(Bare(sp)) + MarkerOf(Bare(sb)) + MarkerOf(Bare(sf)) + MarkerOf(Bare(sd))
    BY <1>8, MarkersAre
  <2>2. sh.used + r4 <= r3
    BY <1>17, <1>26
  <2>3. sp.used + sb.used + sf.used + sh.used + sd.used <=
            r0 + (MarkerOf(Bare(sp)) + MarkerOf(Bare(sb)) + MarkerOf(Bare(sf))
                    + MarkerOf(Bare(sd)))
    BY <1>11, <1>13, <1>15, <1>17, <1>18, <1>19, <1>21, <1>22, <1>23, <1>24, <1>25, <2>2,
       FiveParts
  <2> QED BY <1>27, <2>1, <2>3
<1>29. ASSUME Uses(whole) <= r0
       PROVE  shown = whole
  <2> DEFINE kp == Cost(cp, np)
             kb == Cost(cb, nb)
             kf == Cost(cf, nf)
             kh == Cost(ch, nh)
             kd == Cost(cd, nd)
  <2>1. Uses(whole) = kp + kb + kf + kh + kd
    BY <1>9, <1>10 DEF Uses
  <2>2. /\ kp \in Nat /\ kb \in Nat /\ kf \in Nat /\ kh \in Nat /\ kd \in Nat
        /\ kp + kb + kf + kh + kd <= r0
    BY <1>10, <1>29, <2>1
  <2>3. /\ kp <= r0 => sp = [kept |-> np, omitted |-> 0, used |-> kp]
        /\ kb <= r1 => sb = [kept |-> nb, omitted |-> 0, used |-> kb]
        /\ kf <= r2 => sf = [kept |-> nf, omitted |-> 0, used |-> kf]
        /\ kh <= r3 => sh = [kept |-> nh, used |-> kh]
        /\ kd <= r4 => sd = [kept |-> nd, omitted |-> 0, used |-> kd]
    BY <1>12, <1>14, <1>16, <1>18, <1>20 DEF Takes
  <2> HIDE DEF kp, kb, kf, kh, kd
  <2>4. sp = [kept |-> np, omitted |-> 0, used |-> kp] /\ kb + kf + kh + kd <= r1
    <3>1. kp <= r0
      BY <1>11, <2>2
    <3>2. sp = [kept |-> np, omitted |-> 0, used |-> kp]
      BY <2>3, <3>1
    <3>3. kp + r1 >= r0
      BY <1>23, <3>2
    <3> QED BY <1>11, <1>13, <2>2, <3>2, <3>3
  <2>5. sb = [kept |-> nb, omitted |-> 0, used |-> kb] /\ kf + kh + kd <= r2
    <3>1. kb <= r1
      BY <1>13, <2>2, <2>4
    <3>2. sb = [kept |-> nb, omitted |-> 0, used |-> kb]
      BY <2>3, <3>1
    <3>3. kb + r2 >= r1
      BY <1>24, <3>2
    <3> QED BY <1>13, <1>15, <2>2, <2>4, <3>2, <3>3
  <2>6. sf = [kept |-> nf, omitted |-> 0, used |-> kf] /\ kh + kd <= r3
    <3>1. kf <= r2
      BY <1>15, <2>2, <2>5
    <3>2. sf = [kept |-> nf, omitted |-> 0, used |-> kf]
      BY <2>3, <3>1
    <3>3. kf + r3 >= r2
      BY <1>25, <3>2
    <3> QED BY <1>15, <1>17, <2>2, <2>5, <3>2, <3>3
  <2>7. sh = [kept |-> nh, used |-> kh] /\ kd <= r4
    <3>1. kh <= r3
      BY <1>17, <2>2, <2>6
    <3>2. sh = [kept |-> nh, used |-> kh]
      BY <2>3, <3>1
    <3>3. kh + r4 = r3
      BY <1>26, <3>2
    <3> QED BY <1>17, <1>19, <2>2, <2>6, <3>2, <3>3
  <2>8. sd = [kept |-> nd, omitted |-> 0, used |-> kd]
    BY <2>3, <2>7
  <2>9. whole = [private |-> sp, buffer |-> sb, facts |-> sf, history |-> sh, docs |-> sd]
    BY <1>9, <1>10, <2>4, <2>5, <2>6, <2>7, <2>8, Zenon DEF kp, kb, kf, kh, kd
  <2> QED BY <1>8, <2>9
<1> QED BY <1>28, <1>29 DEF Serves, r0, shown, whole

\* The input of build_prompt by its parts ...
Input(private, buffer, history, hits, budget) ==
    [private |-> private, buffer |-> buffer, history |-> history, hits |-> hits,
     budget |-> budget]

\* ... and what each segment shows, by the parts that matter: p, b and c are the costs
\* of the private memories, of the buffer and of the facts, bu the budget.
Room1(p, bu) == Left(Room([private |-> p, budget |-> bu]),
                     FitPrefix(p, Room([private |-> p, budget |-> bu])))
Room2(p, b, bu) == Left(Room1(p, bu), FitPrefix(b, Room1(p, bu)))
Room3(p, b, c, bu) == Left(Room2(p, b, bu), FitPrefix(c, Room2(p, b, bu)))

All(costs) == [kept |-> Len(costs), omitted |-> 0, used |-> Cost(costs, Len(costs))]

PrivateShown(p, bu) ==
    IF bu = NoBudget THEN All(p) ELSE FitPrefix(p, Room([private |-> p, budget |-> bu]))
BufferShown(p, b, bu) == IF bu = NoBudget THEN All(b) ELSE FitPrefix(b, Room1(p, bu))
FactsShown(p, b, c, bu) == IF bu = NoBudget THEN All(c) ELSE FitPrefix(c, Room2(p, b, bu))
HistoryShown(p, b, c, hi, bu) ==
    IF bu = NoBudget THEN [kept |-> Len(hi), used |-> Cost(hi, Len(hi))]
                     ELSE FitHistoryNewest(hi, Room3(p, b, c, bu))

LEMMA PartsAre ==
    ASSUME NEW p, NEW b, NEW hi, NEW h, NEW bu
    PROVE  /\ BuildPrompt(Input(p, b, hi, h, bu)).private = PrivateShown(p, bu)
           /\ BuildPrompt(Input(p, b, hi, h, bu)).buffer = BufferShown(p, b, bu)
           /\ BuildPrompt(Input(p, b, hi, h, bu)).facts = FactsShown(p, b, FactsOf(h), bu)
           /\ BuildPrompt(Input(p, b, hi, h, bu)).history =
                  HistoryShown(p, b, FactsOf(h), hi, bu)
<1> DEFINE in == Input(p, b, hi, h, bu)
           shown == BuildPrompt(in)
<1>1. /\ in.private = p /\ in.buffer = b /\ in.history = hi /\ in.hits = h /\ in.budget = bu
  BY DEF Input
<1> HIDE DEF in
<1>2. CASE bu = NoBudget
  <2>1. shown = Everything(in)
    BY <1>1, <1>2 DEF BuildPrompt
  <2>2. /\ Everything(in).private = All(p) /\ Everything(in).buffer = All(b)
        /\ Everything(in).facts = All(FactsOf(h))
        /\ Everything(in).history = [kept |-> Len(hi), used |-> Cost(hi, Len(hi))]
    BY <1>1 DEF Everything, All
  <2> HIDE DEF shown
  <2>3. /\ shown.private = PrivateShown(p, bu) /\ shown.buffer = BufferShown(p, b, bu)
        /\ shown.facts = FactsShown(p, b, FactsOf(h), bu)
        /\ shown.history = HistoryShown(p, b, FactsOf(h), hi, bu)
    BY <1>2, <2>1, <2>2 DEF PrivateShown, BufferShown, FactsShown, HistoryShown
  <2> QED BY <2>3 DEF shown, in
<1>3. CASE bu # NoBudget
  <2>1. shown = WithinBudget(in)
    BY <1>1, <1>3 DEF BuildPrompt
  <2>2. Room(in) = Room([private |-> p, budget |-> bu])
    BY <1>1 DEF Room
  <2>3. /\ WithinBudget(in).private = FitPrefix(p, Room(in))
        /\ WithinBudget(in).buffer = FitPrefix(b, Room1(p, bu))
        /\ WithinBudget(in).facts = FitPrefix(FactsOf(h), Room2(p, b, bu))
        /\ WithinBudget(in).history = FitHistoryNewest(hi, Room3(p, b, FactsOf(h), bu))
    BY <1>1, <2>2 DEF WithinBudget, Room1, Room2, Room3
  <2> HIDE DEF shown
  <2>4. /\ shown.private = PrivateShown(p, bu) /\ shown.buffer = BufferShown(p, b, bu)
        /\ shown.facts = FactsShown(p, b, FactsOf(h), bu)
        /\ shown.history = HistoryShown(p, b, FactsOf(h), hi, bu)
    BY <1>3, <2>1, <2>2, <2>3 DEF PrivateShown, BufferShown, FactsShown, HistoryShown
  <2> QED BY <2>4 DEF shown, in
<1> QED BY <1>2, <1>3

\* What a segment shows does not depend on the parts after it.
Costless(in, facts) ==
    LET noDocs    == [in EXCEPT !.hits = facts]
        noHistory == [noDocs EXCEPT !.history = << >>]
        noHits    == [noHistory EXCEPT !.hits = << >>]
    IN  /\ BuildPrompt(in).private = BuildPrompt([noHits EXCEPT !.buffer = << >>]).private
        /\ BuildPrompt(in).buffer = BuildPrompt(noHits).buffer
        /\ BuildPrompt(in).facts = BuildPrompt(noHistory).facts
        /\ BuildPrompt(in).history = BuildPrompt(noDocs).history

LEMMA LowerDoesNotCost ==
    ASSUME NEW p, NEW b, NEW hi, NEW h, NEW bu, NEW facts, FactsOf(facts) = FactsOf(h)
    PROVE  Costless(Input(p, b, hi, h, bu), facts)
<1> DEFINE in        == Input(p, b, hi, h, bu)
           noDocs    == [in EXCEPT !.hits = facts]
           noHistory == [noDocs EXCEPT !.history = << >>]
           noHits    == [noHistory EXCEPT !.hits = << >>]
           noBuffer  == [noHits EXCEPT !.buffer = << >>]
<1>1. /\ noDocs = Input(p, b, hi, facts, bu)
      /\ noHistory = Input(p, b, << >>, facts, bu)
      /\ noHits = Input(p, b, << >>, << >>, bu)
      /\ noBuffer = Input(p, << >>, << >>, << >>, bu)
  <2>1. noDocs = Input(p, b, hi, facts, bu)
    BY DEF Input
  <2> HIDE DEF noDocs
  <2>2. noHistory = Input(p, b, << >>, facts, bu)
    BY <2>1 DEF Input
  <2> HIDE DEF noHistory
  <2>3. noHits = Input(p, b, << >>, << >>, bu)
    BY <2>2 DEF Input
  <2> HIDE DEF noHits
  <2>4. noBuffer = Input(p, << >>, << >>, << >>, bu)
    BY <2>3 DEF Input
  <2> QED BY <2>1, <2>2, <2>3, <2>4
<1> HIDE DEF in, noDocs, noHistory, noHits, noBuffer
<1>2. BuildPrompt(noBuffer).private = PrivateShown(p, bu)
  BY <1>1, PartsAre, ZenonT(40)
<1>3. BuildPrompt(noHits).buffer = BufferShown(p, b, bu)
  BY <1>1, PartsAre, ZenonT(40)
<1>4. BuildPrompt(noHistory).facts = FactsShown(p, b, FactsOf(h), bu)
  <2>1. BuildPrompt(Input(p, b, << >>, facts, bu)).facts = FactsShown(p, b, FactsOf(facts), bu)
    BY PartsAre
  <2> QED BY <1>1, <2>1, Zenon
<1>5. BuildPrompt(noDocs).history = HistoryShown(p, b, FactsOf(h), hi, bu)
  <2>1. BuildPrompt(Input(p, b, hi, facts, bu)).history =
            HistoryShown(p, b, FactsOf(facts), hi, bu)
    BY PartsAre
  <2> QED BY <1>1, <2>1, Zenon
<1>6. /\ BuildPrompt(in).private = PrivateShown(p, bu)
      /\ BuildPrompt(in).buffer = BufferShown(p, b, bu)
      /\ BuildPrompt(in).facts = FactsShown(p, b, FactsOf(h), bu)
      /\ BuildPrompt(in).history = HistoryShown(p, b, FactsOf(h), hi, bu)
  BY PartsAre DEF in
<1>7. /\ BuildPrompt(in).private = BuildPrompt(noBuffer).private
      /\ BuildPrompt(in).buffer = BuildPrompt(noHits).buffer
      /\ BuildPrompt(in).facts = BuildPrompt(noHistory).facts
      /\ BuildPrompt(in).history = BuildPrompt(noDocs).history
  BY <1>2, <1>3, <1>4, <1>5, <1>6, Zenon
<1> QED BY <1>7, Zenon DEF Costless, in, noDocs, noHistory, noHits, noBuffer

\* What the last call asked of the prompt.
Prompted ==
    /\ call.op = "fit" => IsFit(call.costs, call.budget)
    /\ call.op = "prompt" => IsPrompt(call.in)

LEMMA FitCallIs ==
    ASSUME FitSegment
    PROVE  IsFit(call'.costs, call'.budget)
<1>1. PICK costs \in SeqOf({1, 2, 4}, 3), budget \in 0 .. 9 :
          call' = [op |-> "fit", costs |-> costs, budget |-> budget]
  BY DEF FitSegment
<1>2. PICK n \in 0 .. 3 : costs \in [1 .. n -> {1, 2, 4}]
  BY DEF SeqOf
<1>3. n \in Nat /\ costs \in [1 .. n -> Nat]
  BY <1>2
<1>4. Segment(costs, n)
  BY <1>3, SegmentIs
<1>5. call'.costs = costs /\ call'.budget = budget /\ budget \in Nat
  BY <1>1
<1> QED BY <1>4, <1>5 DEF IsFit

LEMMA PromptCallIs ==
    ASSUME AssemblePrompt
    PROVE  IsPrompt(call'.in)
<1> DEFINE Hit == [type : {"fact", "reference"}, cost : {1, 3}]
<1>1. PICK private \in {<< >>, << 2 >>},
           buffer \in SeqOf({1, 3}, 2) \union {<<1, 1, 3>>},
           history \in SeqOf({4}, 2),
           hits \in SeqOf(Hit, 2),
           budget \in (0 .. MaxBudget) \union {NoBudget} :
          call' = [op |-> "prompt", in |->
                      [private |-> private, buffer |-> buffer, history |-> history,
                       hits |-> hits, budget |-> budget]]
  BY DEF AssemblePrompt
<1>2. \A c \in Hit : c.cost \in Nat
  OBVIOUS
<1> HIDE DEF Hit
<1>3. \E N : Segment(private, N)
  <2>1. CASE private = << >>
    <3>1. private \in [1 .. 0 -> Nat]
      BY <2>1
    <3> QED BY <3>1, SegmentIs
  <2>2. CASE private = << 2 >>
    <3>1. private \in [1 .. 1 -> Nat]
      BY <2>2
    <3> QED BY <3>1, SegmentIs
  <2> QED BY <2>1, <2>2
<1>4. \E N : Segment(buffer, N)
  <2>1. CASE buffer \in SeqOf({1, 3}, 2)
    <3>1. PICK n \in 0 .. 2 : buffer \in [1 .. n -> {1, 3}]
      BY <2>1 DEF SeqOf
    <3>2. n \in Nat /\ buffer \in [1 .. n -> Nat]
      BY <3>1
    <3> QED BY <3>2, SegmentIs
  <2>2. CASE buffer = <<1, 1, 3>>
    <3>1. buffer \in [1 .. 3 -> Nat]
      BY <2>2
    <3> QED BY <3>1, SegmentIs
  <2> QED BY <2>1, <2>2
<1>5. \E N : Segment(history, N)
  <2>1. PICK n \in 0 .. 2 : history \in [1 .. n -> {4}]
    BY DEF SeqOf
  <2>2. n \in Nat /\ history \in [1 .. n -> Nat]
    BY <2>1
  <2> QED BY <2>2, SegmentIs
<1>6. \E n \in Nat : \E S : hits \in [1 .. n -> S] /\ \A c \in S : c.cost \in Nat
  <2>1. PICK n \in 0 .. 2 : hits \in [1 .. n -> Hit]
    BY DEF SeqOf
  <2>2. n \in Nat
    OBVIOUS
  <2> QED BY <1>2, <2>1, <2>2
<1>7. budget = NoBudget \/ budget \in Nat
  BY BoundAssumption
<1>8. call'.in = [private |-> private, buffer |-> buffer, history |-> history,
                  hits |-> hits, budget |-> budget]
  BY <1>1
<1>9. PICK in : in = call'.in
  OBVIOUS
<1>10. /\ in.private = private /\ in.buffer = buffer /\ in.history = history
       /\ in.hits = hits /\ in.budget = budget
       /\ in = [private |-> in.private, buffer |-> in.buffer, history |-> in.history,
                hits |-> in.hits, budget |-> in.budget]
  BY <1>8, <1>9
<1>11. IsPrompt(in)
  BY <1>3, <1>4, <1>5, <1>6, <1>7, <1>10 DEF IsPrompt
<1> QED BY <1>9, <1>11

LEMMA PromptedHolds == Spec => []Prompted
<1>1. Init => Prompted
  BY DEF Init, Prompted
<1>2. Prompted /\ [Next]_call => Prompted'
  <2>1. CASE UNCHANGED call
    BY <2>1 DEF Prompted
  <2>2. CASE Next
    BY <2>2, CallOf, FitCallIs, PromptCallIs DEF Prompted
  <2> QED BY <2>1, <2>2
<1> QED BY <1>1, <1>2, PTL DEF Spec

LEMMA PromptIsFair ==
    ASSUME Prompted
    PROVE  BudgetFair
<1>1. FitPrefixIsLongest
  <2> SUFFICES ASSUME call.op = "fit" PROVE FitPrefixIsLongest
    BY DEF FitPrefixIsLongest
  <2> DEFINE costs == call.costs
             budget == call.budget
             fit == FitPrefix(costs, budget)
  <2>1. budget \in Nat /\ \E N : Segment(costs, N)
    BY DEF Prompted, IsFit
  <2> HIDE DEF costs, budget
  <2>2. PICK N : Segment(costs, N)
    BY <2>1
  <2>3. Len(costs) = N /\ N \in Nat
    BY <2>2 DEF Segment
  <2>4. Prefix(costs, budget, N, fit)
    BY <2>1, <2>2, FitPrefixIs
  <2> HIDE DEF fit
  <2>5. fit.kept = Max({0} \union {n \in 0 .. N : Marked(costs, budget, N, n)})
    BY <2>1, <2>2, <2>4, PrefixIsLongest
  <2>6. fit.kept + fit.omitted = N
    <3>1. fit.omitted = N - fit.kept /\ fit.kept \in 0 .. N
      BY <2>4 DEF Prefix
    <3> QED BY <2>3, <3>1
  <2> QED BY <2>3, <2>5, <2>6 DEF FitPrefixIsLongest, Marked, fit, costs, budget
<1>2. LowerNeverCosts
  <2> SUFFICES ASSUME call.op = "prompt" PROVE LowerNeverCosts
    BY DEF LowerNeverCosts
  <2> DEFINE in == call.in
             facts == Picked(in.hits, {i \in DOMAIN in.hits : in.hits[i].type = "fact"})
  <2>1. IsPrompt(in)
    BY DEF Prompted
  <2> HIDE DEF in
  <2>2. PICK n \in Nat : \E S : in.hits \in [1 .. n -> S] /\ \A c \in S : c.cost \in Nat
    BY <2>1 DEF IsPrompt
  <2>3. DOMAIN in.hits = 1 .. n
    BY <2>2
  <2>4. FactsOf(facts) = FactsOf(in.hits)
    BY <2>3, FactsOfFacts
  <2>5. in = Input(in.private, in.buffer, in.history, in.hits, in.budget)
    BY <2>1 DEF IsPrompt, Input
  <2> HIDE DEF facts
  <2>6. Costless(Input(in.private, in.buffer, in.history, in.hits, in.budget), facts)
    BY <2>4, LowerDoesNotCost
  <2>7. Costless(in, facts)
    BY <2>5, <2>6, Zenon
  <2> QED BY <2>7 DEF LowerNeverCosts, Costless, in, facts
<1>3. BudgetHolds
  <2> SUFFICES ASSUME call.op = "prompt", call.in.budget # NoBudget PROVE BudgetHolds
    BY DEF BudgetHolds
  <2> DEFINE in == call.in
  <2>1. IsPrompt(in) /\ in.budget # NoBudget
    BY DEF Prompted
  <2> HIDE DEF in
  <2>2. in.budget \in Nat
    BY <2>1 DEF IsPrompt
  <2>3. Serves(in, Room(in), WithinBudget(in))
    BY <2>1, <2>2, BudgetServes
  <2>4. BuildPrompt(in) = WithinBudget(in)
    BY <2>1 DEF BuildPrompt
  <2>5. Serves(in, Room(in), BuildPrompt(in))
    BY <2>3, <2>4, Zenon
  <2> QED BY <2>5 DEF BudgetHolds, Serves, Uses, BareOf, in
<1> QED BY <1>1, <1>2, <1>3 DEF BudgetFair

\* What the budget buys: a segment shows the longest prefix that fits with its
\* marker; it loses nothing to the segments after it; and the whole prompt exceeds
\* its budget by markers only and sheds nothing when all of it fits.
THEOREM BudgetFairHolds == Spec => []BudgetFair
<1>1. Prompted => BudgetFair
  BY PromptIsFair
<1> QED BY <1>1, PromptedHolds, PTL

----
\* Extraction

\* The candidates that _valid_candidate accepts, with their window.
Mentioning == [c : RawCandidate, ref : Nat]
Keepable == {e \in Mentioning : ValidCandidate(e.c).kind = "valid"}

Confs == (0 .. ConfMax) \union {NaN}

LEMMA ConfidenceIs ==
    ASSUME NEW c \in RawCandidate
    PROVE  Confidence(c) \in Confs
<1>1. c.conf \in (0 .. ConfMax) \union {NaN, NoConf}
  BY DEF RawCandidate
<1>2. ConfMax \in 0 .. ConfMax
  BY ConfAssumption
<1> QED BY <1>1, <1>2 DEF Confidence, Confs

LEMMA RejectedIsNot ==
    ASSUME NEW kind
    PROVE  Rejected(kind).kind = kind
BY DEF Rejected

LEMMA AcceptedIs ==
    ASSUME NEW c
    PROVE  /\ Accepted(c).kind = "valid" /\ Accepted(c).text = c.text
           /\ Accepted(c).type = c.type /\ Accepted(c).conf = Confidence(c)
           /\ Accepted(c).edit = ({c.stem, c.target} \subseteq {"blank", "given"})
BY DEF Accepted

\* The three ways through _valid_candidate.
Dropping(c) ==
    \/ c.type = "unknown"
    \/ "malformed" \in {c.stem, c.target, c.rest}
    \/ Less(Confidence(c), ConfMin)

LEMMA ValidCandidateIs ==
    ASSUME NEW c
    PROVE  /\ c.text \notin Proposition => ValidCandidate(c).kind = "dropped"
           /\ c.text \in Proposition /\ c.type = "unhashable" => ValidCandidate(c).kind = "raises"
           /\ c.text \in Proposition /\ c.type # "unhashable" /\ Dropping(c) =>
                  ValidCandidate(c).kind = "dropped"
           /\ c.text \in Proposition /\ c.type # "unhashable" /\ ~ Dropping(c) =>
                  ValidCandidate(c) = Accepted(c)
<1>1. CASE c.text \notin Proposition
  <2>1. ValidCandidate(c) = Rejected("dropped")
    BY <1>1, Zenon DEF ValidCandidate
  <2> QED BY <1>1, <2>1, RejectedIsNot
<1>2. CASE c.text \in Proposition /\ c.type = "unhashable"
  <2>1. ValidCandidate(c) = Rejected("raises")
    BY <1>2, Zenon DEF ValidCandidate
  <2> QED BY <1>2, <2>1, RejectedIsNot
<1>3. CASE c.text \in Proposition /\ c.type # "unhashable" /\ Dropping(c)
  <2>1. ValidCandidate(c) = Rejected("dropped")
    BY <1>3, Zenon DEF ValidCandidate, Dropping
  <2> QED BY <1>3, <2>1, RejectedIsNot
<1>4. CASE c.text \in Proposition /\ c.type # "unhashable" /\ ~ Dropping(c)
  <2>1. ValidCandidate(c) = Accepted(c)
    BY <1>4, Zenon DEF ValidCandidate, Dropping
  <2> QED BY <1>4, <2>1
<1> QED BY <1>1, <1>2, <1>3, <1>4

LEMMA ValidIsAccepted ==
    ASSUME NEW c, ValidCandidate(c).kind = "valid"
    PROVE  /\ ValidCandidate(c) = Accepted(c) /\ c.text \in Proposition
           /\ c.type # "unhashable" /\ ~ Dropping(c)
BY ValidCandidateIs

\* A confidence is below CONF_MIN if it is a number that is.
LEMMA LessThanMin ==
    ASSUME NEW c \in RawCandidate
    PROVE  Less(Confidence(c), ConfMin) <=> c.conf \in 0 .. ConfMin - 1
<1>1. c.conf \in 0 .. ConfMax \/ c.conf = NaN \/ c.conf = NoConf
  BY DEF RawCandidate
<1>2. ConfMax \in Nat /\ ConfMin \in Nat /\ ConfMin <= ConfMax /\ ConfMin # NaN /\ ConfMax # NaN
  BY ConfAssumption, MarkerAssumption
<1>3. CASE c.conf = NoConf
  <2>1. Confidence(c) = ConfMax /\ c.conf \notin Int
    BY <1>3, MarkerAssumption DEF Confidence
  <2>2. ~ (ConfMax < ConfMin)
    BY <1>2
  <2> QED BY <2>1, <2>2 DEF Less
<1>4. CASE c.conf = NaN /\ c.conf # NoConf
  <2>1. Confidence(c) = NaN /\ c.conf \notin Int
    BY <1>4, MarkerAssumption DEF Confidence
  <2> QED BY <2>1 DEF Less
<1>5. CASE c.conf \in 0 .. ConfMax /\ c.conf # NoConf
  <2>1. Confidence(c) = c.conf /\ c.conf # NaN
    BY <1>5, MarkerAssumption DEF Confidence
  <2>2. Less(Confidence(c), ConfMin) <=> c.conf < ConfMin
    BY <1>2, <2>1 DEF Less
  <2> QED BY <1>2, <1>5, <2>2
<1> QED BY <1>1, <1>3, <1>4, <1>5

\* The gate keeps what it can use.
LEMMA GateIsPermissive ==
    ASSUME call.op = "candidate" => call.cand \in RawCandidate
    PROVE  PermissiveGate
<1> SUFFICES ASSUME call.op = "candidate"
             PROVE  PermissiveGate
  BY DEF PermissiveGate
<1> DEFINE c == call.cand
           usable == /\ c.text \in Proposition
                     /\ c.type \in {"fact", "belief", "other"}
                     /\ "malformed" \notin {c.stem, c.target, c.rest}
<1>1. c \in RawCandidate
  OBVIOUS
<1>2. c.type \in {"fact", "belief", "other", "unknown", "unhashable"}
  BY <1>1 DEF RawCandidate
<1>3. Less(Confidence(c), ConfMin) <=> c.conf \in 0 .. ConfMin - 1
  BY <1>1, LessThanMin
<1> HIDE DEF c
<1>4. (ValidCandidate(c).kind = "valid") <=> usable /\ c.conf \notin 0 .. ConfMin - 1
  <2>1. (ValidCandidate(c).kind = "valid") <=>
            c.text \in Proposition /\ c.type # "unhashable" /\ ~ Dropping(c)
    BY ValidCandidateIs, AcceptedIs
  <2> QED BY <1>2, <1>3, <2>1 DEF Dropping
<1>5. ValidCandidate(c).kind = "valid" /\ Decompose(c) => ValidCandidate(c).edit
  <2> SUFFICES ASSUME ValidCandidate(c).kind = "valid", Decompose(c)
               PROVE  ValidCandidate(c).edit
    OBVIOUS
  <2>1. {c.stem, c.target} \subseteq {"blank", "given"}
    BY DEF Decompose
  <2>2. ValidCandidate(c) = Accepted(c)
    BY ValidIsAccepted
  <2> QED BY <2>1, <2>2, AcceptedIs
<1> QED BY <1>4, <1>5 DEF PermissiveGate, c

\* What extract keeps of a mention.
LEMMA EntryIs ==
    ASSUME NEW e \in Keepable
    PROVE  /\ Entry(e).cand = Accepted(e.c) /\ Entry(e).ref = e.ref
           /\ Entry(e).cand.text = e.c.text /\ Entry(e).cand.conf = Confidence(e.c)
           /\ Entry(e).cand.type = e.c.type
           /\ Entry(e).cand.edit = ({e.c.stem, e.c.target} \subseteq {"blank", "given"})
           /\ e.c.text \in Proposition /\ Confidence(e.c) \in Confs
<1>1. e.c \in RawCandidate /\ ValidCandidate(e.c).kind = "valid"
  BY DEF Keepable, Mentioning
<1>2. ValidCandidate(e.c) = Accepted(e.c) /\ e.c.text \in Proposition
  BY <1>1, ValidIsAccepted
<1>3. Entry(e).cand = ValidCandidate(e.c) /\ Entry(e).ref = e.ref
  BY DEF Entry
<1>4. Confidence(e.c) \in Confs
  BY <1>1, ConfidenceIs
<1> QED BY <1>2, <1>3, <1>4, AcceptedIs

\* The first mention of a text among the first n, and the mention that is kept.
FirstIn(s, n, i) == i \in 1 .. n /\ \A j \in 1 .. i - 1 : s[j].c.text # s[i].c.text

AtLeast(s, i, j) ==
    \/ Confidence(s[j].c) = NaN
    \/ /\ Confidence(s[i].c) # NaN
       /\ \/ Confidence(s[i].c) > Confidence(s[j].c)
          \/ Confidence(s[i].c) = Confidence(s[j].c) /\ i <= j

BestIn(s, n, i, b) ==
    /\ b \in 1 .. n /\ s[b].c.text = s[i].c.text
    /\ Confidence(s[i].c) = NaN => b = i
    /\ Confidence(s[i].c) # NaN =>
           /\ Confidence(s[b].c) # NaN
           /\ \A j \in 1 .. n : s[j].c.text = s[i].c.text => AtLeast(s, b, j)

\* M is the dict after n mentions: its entry x is mentioned first at f[x], best at b[x].
MergedAs(s, n, M, k, f, b) ==
    /\ k \in Nat /\ M = [x \in 1 .. k |-> Entry(s[b[x]])]
    /\ \A x \in 1 .. k : FirstIn(s, n, f[x])
    /\ \A x \in 1 .. k : BestIn(s, n, f[x], b[x])
    /\ \A x, y \in 1 .. k : x < y => f[x] < f[y]
    /\ \A i \in 1 .. n : FirstIn(s, n, i) => \E x \in 1 .. k : f[x] = i

LEMMA FirstMention ==
    ASSUME NEW s, NEW n \in Nat, NEW i \in 1 .. n
    PROVE  \E j \in 1 .. n : FirstIn(s, n, j) /\ s[j].c.text = s[i].c.text /\ j <= i
<1> DEFINE same == {j \in 1 .. n : s[j].c.text = s[i].c.text}
<1>1. same \subseteq Nat /\ same # {} /\ i \in same
  OBVIOUS
<1>2. \A j : j \in same <=> j \in 1 .. n /\ s[j].c.text = s[i].c.text
  OBVIOUS
<1> HIDE DEF same
<1>3. PICK j \in same : \A w \in same : j <= w
  BY <1>1, LeastNumber
<1>4. j \in 1 .. n /\ s[j].c.text = s[i].c.text /\ j <= i
  BY <1>1, <1>2, <1>3
<1>5. ASSUME NEW w \in 1 .. j - 1 PROVE s[w].c.text # s[j].c.text
  <2>1. w \in 1 .. n /\ ~ (j <= w)
    BY <1>4
  <2> QED BY <1>2, <1>3, <1>4, <2>1
<1> QED BY <1>4, <1>5 DEF FirstIn

LEMMA FirstsDiffer ==
    ASSUME NEW s, NEW n \in Nat, NEW i, NEW j, FirstIn(s, n, i), FirstIn(s, n, j), i # j
    PROVE  s[i].c.text # s[j].c.text
<1>1. i \in 1 .. n /\ j \in 1 .. n
  BY DEF FirstIn
<1>2. CASE i < j
  <2>1. i \in 1 .. j - 1
    BY <1>1, <1>2
  <2> QED BY <2>1 DEF FirstIn
<1>3. CASE j < i
  <2>1. j \in 1 .. i - 1
    BY <1>1, <1>3
  <2> QED BY <2>1 DEF FirstIn
<1> QED BY <1>1, <1>2, <1>3

\* A first mention stays one, and no mention of a text that was there becomes one.
LEMMA FirstStays ==
    ASSUME NEW s, NEW n \in Nat, NEW i
    PROVE  /\ FirstIn(s, n, i) => FirstIn(s, n + 1, i)
           /\ FirstIn(s, n + 1, i) => FirstIn(s, n, i) \/ i = n + 1
<1>1. 1 .. n + 1 = (1 .. n) \union {n + 1}
  OBVIOUS
<1> QED BY <1>1 DEF FirstIn

\* The best mention of a text stays so when another text is mentioned.
LEMMA BestStays ==
    ASSUME NEW s, NEW n \in Nat, NEW i, NEW b, BestIn(s, n, i, b),
           s[n + 1].c.text # s[i].c.text
    PROVE  BestIn(s, n + 1, i, b)
<1>1. \A j : j \in 1 .. n + 1 <=> j \in 1 .. n \/ j = n + 1
  OBVIOUS
<1> QED BY <1>1 DEF BestIn

\* A text that is mentioned for the first time goes behind the others.
LEMMA MergeNew ==
    ASSUME NEW s, NEW n \in Nat, NEW M, NEW k, NEW f, NEW b, MergedAs(s, n, M, k, f, b),
           \A i \in 1 .. n : s[i].c.text # s[n + 1].c.text
    PROVE  \E g, d : MergedAs(s, n + 1, Append(M, Entry(s[n + 1])), k + 1, g, d)
<1> DEFINE g == [x \in 1 .. k + 1 |-> IF x = k + 1 THEN n + 1 ELSE f[x]]
           d == [x \in 1 .. k + 1 |-> IF x = k + 1 THEN n + 1 ELSE b[x]]
           A == Append(M, Entry(s[n + 1]))
<1>1. /\ k \in Nat /\ M = [x \in 1 .. k |-> Entry(s[b[x]])]
      /\ \A x \in 1 .. k : FirstIn(s, n, f[x])
      /\ \A x \in 1 .. k : BestIn(s, n, f[x], b[x])
      /\ \A x, y \in 1 .. k : x < y => f[x] < f[y]
      /\ \A i \in 1 .. n : FirstIn(s, n, i) => \E x \in 1 .. k : f[x] = i
  BY DEF MergedAs
<1>2. \A x \in 1 .. k : g[x] = f[x] /\ d[x] = b[x] /\ x \in 1 .. k + 1
  BY <1>1
<1>3. g[k + 1] = n + 1 /\ d[k + 1] = n + 1 /\ k + 1 \in 1 .. k + 1
  BY <1>1
<1>4. \A x : x \in 1 .. k + 1 <=> x \in 1 .. k \/ x = k + 1
  BY <1>1
<1>5. A = [x \in 1 .. k + 1 |-> Entry(s[d[x]])]
  <2>1. Len(M) = k
    BY <1>1
  <2>2. A = [x \in 1 .. k + 1 |-> IF x = k + 1 THEN Entry(s[n + 1]) ELSE M[x]]
    BY <1>1, <2>1
  <2>3. \A x \in 1 .. k : M[x] = Entry(s[b[x]])
    BY <1>1
  <2> HIDE DEF A, d
  <2>4. ASSUME NEW x \in 1 .. k + 1
        PROVE  (IF x = k + 1 THEN Entry(s[n + 1]) ELSE M[x]) = Entry(s[d[x]])
    <3>1. CASE x = k + 1
      BY <1>3, <3>1
    <3>2. CASE x # k + 1
      <4>1. x \in 1 .. k
        BY <1>4, <3>2
      <4> QED BY <1>2, <2>3, <3>2, <4>1
    <3> QED BY <3>1, <3>2
  <2> QED BY <2>2, <2>4
<1> HIDE DEF g, d, A
<1>6. FirstIn(s, n + 1, n + 1) /\ BestIn(s, n + 1, n + 1, n + 1)
  <2>1. n + 1 \in 1 .. n + 1 /\ 1 .. n + 1 - 1 = 1 .. n
    OBVIOUS
  <2>2. \A j \in 1 .. n + 1 : s[j].c.text = s[n + 1].c.text => j = n + 1
    OBVIOUS
  <2>3. AtLeast(s, n + 1, n + 1)
    BY DEF AtLeast
  <2>4. FirstIn(s, n + 1, n + 1)
    BY <2>1 DEF FirstIn
  <2> QED BY <2>1, <2>2, <2>3, <2>4 DEF BestIn
<1>7. \A x \in 1 .. k + 1 : FirstIn(s, n + 1, g[x])
  BY <1>1, <1>2, <1>3, <1>4, <1>6, FirstStays
<1>8. ASSUME NEW x \in 1 .. k PROVE BestIn(s, n + 1, f[x], b[x])
  <2>1. f[x] \in 1 .. n
    BY <1>1 DEF FirstIn
  <2> QED BY <1>1, <2>1, BestStays
<1>9. \A x \in 1 .. k + 1 : BestIn(s, n + 1, g[x], d[x])
  BY <1>2, <1>3, <1>4, <1>6, <1>8
<1>10. ASSUME NEW x \in 1 .. k + 1, NEW y \in 1 .. k + 1, x < y PROVE g[x] < g[y]
  <2>1. x \in 1 .. k
    BY <1>1, <1>10
  <2>2. f[x] \in 1 .. n
    BY <1>1, <2>1 DEF FirstIn
  <2>3. CASE y = k + 1
    BY <1>2, <1>3, <2>1, <2>2, <2>3
  <2>4. CASE y \in 1 .. k
    BY <1>1, <1>2, <1>10, <2>1, <2>4
  <2> QED BY <1>4, <2>3, <2>4
<1>11. ASSUME NEW i \in 1 .. n + 1, FirstIn(s, n + 1, i)
       PROVE  \E x \in 1 .. k + 1 : g[x] = i
  <2>1. CASE i = n + 1
    BY <1>3, <2>1
  <2>2. CASE FirstIn(s, n, i)
    <3>1. i \in 1 .. n
      BY <2>2 DEF FirstIn
    <3>2. PICK x \in 1 .. k : f[x] = i
      BY <1>1, <2>2, <3>1
    <3> QED BY <1>2, <3>2
  <2> QED BY <1>11, <2>1, <2>2, FirstStays
<1>12. k + 1 \in Nat
  BY <1>1
<1>13. MergedAs(s, n + 1, A, k + 1, g, d)
  BY <1>5, <1>7, <1>9, <1>10, <1>11, <1>12 DEF MergedAs
<1> QED BY <1>13 DEF A

\* The entry of the dict that a text has already.
LEMMA PlaceOf ==
    ASSUME NEW s, NEW n \in Nat, NEW M, NEW k, NEW f, NEW b, MergedAs(s, n, M, k, f, b),
           NEW i \in 1 .. n
    PROVE  \E x \in 1 .. k : s[f[x]].c.text = s[i].c.text
<1>1. PICK j \in 1 .. n : FirstIn(s, n, j) /\ s[j].c.text = s[i].c.text
  BY FirstMention
<1>2. \E x \in 1 .. k : f[x] = j
  BY <1>1 DEF MergedAs
<1> QED BY <1>1, <1>2

LEMMA PlacesDiffer ==
    ASSUME NEW s, NEW n \in Nat, NEW M, NEW k, NEW f, NEW b, MergedAs(s, n, M, k, f, b),
           NEW x \in 1 .. k, NEW y \in 1 .. k, s[f[x]].c.text = s[f[y]].c.text
    PROVE  x = y
<1>1. k \in Nat /\ FirstIn(s, n, f[x]) /\ FirstIn(s, n, f[y])
  BY DEF MergedAs
<1>2. f[x] = f[y]
  BY <1>1, FirstsDiffer
<1>3. f[x] \in 1 .. n /\ f[y] \in 1 .. n
  BY <1>1 DEF FirstIn
<1>4. (x < y => f[x] < f[y]) /\ (y < x => f[y] < f[x])
  BY DEF MergedAs
<1> QED BY <1>1, <1>2, <1>3, <1>4

\* Another mention of a text takes its place or is dropped: in the end the best one
\* is there.
LEMMA MergeKnown ==
    ASSUME NEW s, NEW n \in Nat, NEW M, NEW k, NEW f, NEW b, MergedAs(s, n, M, k, f, b),
           NEW at \in 1 .. k, s[f[at]].c.text = s[n + 1].c.text,
           NEW e, BestIn(s, n + 1, f[at], e)
    PROVE  \E d : MergedAs(s, n + 1, ReplaceAt(M, at, Entry(s[e])), k, f, d)
<1> DEFINE d == [x \in 1 .. k |-> IF x = at THEN e ELSE b[x]]
           R == ReplaceAt(M, at, Entry(s[e]))
<1>1. /\ k \in Nat /\ M = [x \in 1 .. k |-> Entry(s[b[x]])]
      /\ \A x \in 1 .. k : FirstIn(s, n, f[x])
      /\ \A x \in 1 .. k : BestIn(s, n, f[x], b[x])
      /\ \A x, y \in 1 .. k : x < y => f[x] < f[y]
      /\ \A i \in 1 .. n : FirstIn(s, n, i) => \E x \in 1 .. k : f[x] = i
  BY DEF MergedAs
<1>2. \A x \in 1 .. k : d[x] = IF x = at THEN e ELSE b[x]
  OBVIOUS
<1>3. R = [x \in 1 .. k |-> Entry(s[d[x]])]
  <2>1. R = [x \in 1 .. k |-> IF x = at THEN Entry(s[e]) ELSE M[x]]
    BY <1>1 DEF ReplaceAt
  <2>2. \A x \in 1 .. k : M[x] = Entry(s[b[x]])
    BY <1>1
  <2> HIDE DEF R, d
  <2>3. \A x \in 1 .. k : (IF x = at THEN Entry(s[e]) ELSE M[x]) = Entry(s[d[x]])
    BY <1>2, <2>2
  <2> QED BY <2>1, <2>3
<1> HIDE DEF R, d
<1>4. \A x \in 1 .. k : FirstIn(s, n + 1, f[x])
  BY <1>1, FirstStays
<1>5. ASSUME NEW x \in 1 .. k PROVE BestIn(s, n + 1, f[x], d[x])
  <2>1. CASE x = at
    BY <1>2, <2>1
  <2>2. CASE x # at
    <3>1. s[f[x]].c.text # s[n + 1].c.text
      BY <2>2, PlacesDiffer
    <3> QED BY <1>1, <1>2, <2>2, <3>1, BestStays
  <2> QED BY <2>1, <2>2
<1>6. ASSUME NEW i \in 1 .. n + 1, FirstIn(s, n + 1, i)
      PROVE  \E x \in 1 .. k : f[x] = i
  <2>1. i # n + 1
    <3>1. f[at] \in 1 .. n + 1 - 1
      BY <1>1 DEF FirstIn
    <3> QED BY <1>6, <3>1 DEF FirstIn
  <2>2. FirstIn(s, n, i) /\ i \in 1 .. n
    BY <1>6, <2>1, FirstStays
  <2> QED BY <1>1, <2>2
<1>7. MergedAs(s, n + 1, R, k, f, d)
  BY <1>1, <1>3, <1>4, <1>5, <1>6 DEF MergedAs
<1> QED BY <1>7 DEF R

\* Confidences are numbers or NaN.
LEMMA LessIs ==
    ASSUME NEW a \in Confs, NEW c \in Confs
    PROVE  Less(a, c) <=> a # NaN /\ c # NaN /\ a < c
BY DEF Less

LEMMA ConfsAre ==
    ASSUME NEW a \in Confs, a # NaN
    PROVE  a \in Int
<1>1. ConfMax \in Nat
  BY ConfAssumption
<1> QED BY <1>1 DEF Confs

\* The new mention is the best if it is more confident than the best so far, else
\* that stays the best.
LEMMA NewIsBest ==
    ASSUME NEW s, NEW n \in Nat, NEW i, NEW b, BestIn(s, n, i, b),
           \A j \in 1 .. n + 1 : Confidence(s[j].c) \in Confs,
           s[n + 1].c.text = s[i].c.text, i \in 1 .. n,
           Less(Confidence(s[b].c), Confidence(s[n + 1].c))
    PROVE  BestIn(s, n + 1, i, n + 1)
<1>1. b \in 1 .. n /\ b \in 1 .. n + 1 /\ n + 1 \in 1 .. n + 1
  BY DEF BestIn
<1>2. PICK x : x = Confidence(s[b].c)
  OBVIOUS
<1>3. PICK y : y = Confidence(s[n + 1].c)
  OBVIOUS
<1>4. x \in Confs /\ y \in Confs
  BY <1>1, <1>2, <1>3
<1>5. x # NaN /\ y # NaN /\ x < y
  BY <1>2, <1>3, <1>4, LessIs
<1>6. x \in Int /\ y \in Int
  BY <1>4, <1>5, ConfsAre
<1>7. Confidence(s[i].c) # NaN
  BY <1>2, <1>5 DEF BestIn
<1>8. ASSUME NEW j \in 1 .. n, s[j].c.text = s[i].c.text
      PROVE  AtLeast(s, n + 1, j)
  <2>1. AtLeast(s, b, j)
    BY <1>7, <1>8 DEF BestIn
  <2>2. CASE Confidence(s[j].c) = NaN
    BY <2>2 DEF AtLeast
  <2>3. CASE Confidence(s[j].c) # NaN
    <3>1. PICK z : z = Confidence(s[j].c)
      OBVIOUS
    <3>2. j \in 1 .. n + 1
      OBVIOUS
    <3>3. z \in Int
      BY <2>3, <3>1, <3>2, ConfsAre
    <3>4. x > z \/ x = z
      BY <1>2, <2>1, <2>3, <3>1 DEF AtLeast
    <3>5. y > z
      BY <1>5, <1>6, <3>3, <3>4
    <3> QED BY <1>3, <1>5, <3>1, <3>5 DEF AtLeast
  <2> QED BY <2>2, <2>3
<1>9. AtLeast(s, n + 1, n + 1)
  BY DEF AtLeast
<1>10. \A j : j \in 1 .. n + 1 <=> j \in 1 .. n \/ j = n + 1
  OBVIOUS
<1> QED BY <1>1, <1>3, <1>5, <1>7, <1>8, <1>9, <1>10 DEF BestIn

LEMMA OldIsBest ==
    ASSUME NEW s, NEW n \in Nat, NEW i, NEW b, BestIn(s, n, i, b),
           \A j \in 1 .. n + 1 : Confidence(s[j].c) \in Confs,
           s[n + 1].c.text = s[i].c.text, i \in 1 .. n,
           ~ Less(Confidence(s[b].c), Confidence(s[n + 1].c))
    PROVE  BestIn(s, n + 1, i, b)
<1>1. b \in 1 .. n /\ b \in 1 .. n + 1 /\ n + 1 \in 1 .. n + 1
  BY DEF BestIn
<1>2. PICK x : x = Confidence(s[b].c)
  OBVIOUS
<1>3. PICK y : y = Confidence(s[n + 1].c)
  OBVIOUS
<1>4. x \in Confs /\ y \in Confs
  BY <1>1, <1>2, <1>3
<1>5. CASE Confidence(s[i].c) = NaN
  BY <1>1, <1>5 DEF BestIn
<1>6. CASE Confidence(s[i].c) # NaN
  <2>1. x # NaN
    BY <1>2, <1>6 DEF BestIn
  <2>2. AtLeast(s, b, n + 1)
    <3>1. CASE y = NaN
      BY <1>3, <3>1 DEF AtLeast
    <3>2. CASE y # NaN
      <4>1. ~ (x < y)
        BY <1>2, <1>3, <1>4, <2>1, <3>2, LessIs
      <4>2. x \in Int /\ y \in Int
        BY <1>4, <2>1, <3>2, ConfsAre
      <4>3. x > y \/ x = y
        BY <4>1, <4>2
      <4>4. b <= n + 1
        BY <1>1
      <4> QED BY <1>2, <1>3, <2>1, <4>3, <4>4 DEF AtLeast
    <3> QED BY <3>1, <3>2
  <2>3. \A j : j \in 1 .. n + 1 <=> j \in 1 .. n \/ j = n + 1
    OBVIOUS
  <2> QED BY <1>1, <1>6, <2>2, <2>3 DEF BestIn
<1> QED BY <1>5, <1>6

\* One step of the loop of extract.
Merged(s, n, M) == \E k, f, b : MergedAs(s, n, M, k, f, b)

LEMMA MergeStep ==
    ASSUME NEW m \in Nat, NEW s \in [1 .. m -> Keepable], NEW n \in Nat, n + 1 <= m,
           NEW M, Merged(s, n, M)
    PROVE  Merged(s, n + 1, MergeCandidate(M, Entry(s[n + 1])))
<1>1. PICK k, f, b : MergedAs(s, n, M, k, f, b)
  BY DEF Merged
<1>2. /\ k \in Nat /\ M = [x \in 1 .. k |-> Entry(s[b[x]])]
      /\ \A x \in 1 .. k : FirstIn(s, n, f[x])
      /\ \A x \in 1 .. k : BestIn(s, n, f[x], b[x])
  BY <1>1 DEF MergedAs
<1>3. \A x \in 1 .. k : f[x] \in 1 .. n /\ b[x] \in 1 .. n /\ s[b[x]].c.text = s[f[x]].c.text
  BY <1>2 DEF FirstIn, BestIn
<1>4. \A j \in 1 .. n + 1 : s[j] \in Keepable
  OBVIOUS
<1>5. n + 1 \in 1 .. n + 1 /\ \A j \in 1 .. n : j \in 1 .. n + 1
  OBVIOUS
<1> DEFINE entry == Entry(s[n + 1])
           same == {x \in DOMAIN M : M[x].cand.text = entry.cand.text}
           at == CHOOSE x \in same : TRUE
<1>6. entry.cand.text = s[n + 1].c.text /\ entry.cand.conf = Confidence(s[n + 1].c)
  BY <1>4, <1>5, EntryIs
<1>7. \A x \in 1 .. k : /\ M[x] = Entry(s[b[x]]) /\ M[x].cand.text = s[f[x]].c.text
                        /\ M[x].cand.conf = Confidence(s[b[x]].c)
  <2>1. ASSUME NEW x \in 1 .. k
        PROVE  /\ M[x] = Entry(s[b[x]]) /\ M[x].cand.text = s[f[x]].c.text
               /\ M[x].cand.conf = Confidence(s[b[x]].c)
    <3>1. M[x] = Entry(s[b[x]])
      BY <1>2
    <3>2. s[b[x]] \in Keepable
      BY <1>3, <1>4, <1>5
    <3> QED BY <1>3, <3>1, <3>2, EntryIs
  <2> QED BY <2>1
<1>8. DOMAIN M = 1 .. k
  BY <1>2
<1>9. \A x : x \in same <=> x \in 1 .. k /\ s[f[x]].c.text = s[n + 1].c.text
  BY <1>6, <1>7, <1>8
<1>10. MergeCandidate(M, entry) =
           IF same = {} THEN Append(M, entry)
           ELSE IF Less(M[at].cand.conf, entry.cand.conf) THEN ReplaceAt(M, at, entry)
           ELSE M
  BY DEF MergeCandidate
<1>11. same # {} => at \in same
  BY Zenon
<1>12. \A j \in 1 .. n + 1 : Confidence(s[j].c) \in Confs
  BY <1>4, EntryIs
<1> HIDE DEF same, at
<1>13. CASE same = {}
  <2>1. \A i \in 1 .. n : s[i].c.text # s[n + 1].c.text
    BY <1>1, <1>9, <1>13, PlaceOf
  <2>2. PICK g, d : MergedAs(s, n + 1, Append(M, entry), k + 1, g, d)
    BY <1>1, <2>1, MergeNew
  <2> QED BY <1>10, <1>13, <2>2 DEF Merged
<1>14. CASE same # {} /\ Less(M[at].cand.conf, entry.cand.conf)
  <2>1. at \in 1 .. k /\ s[f[at]].c.text = s[n + 1].c.text
    BY <1>9, <1>11, <1>14
  <2>2. Less(Confidence(s[b[at]].c), Confidence(s[n + 1].c))
    BY <1>6, <1>7, <1>14, <2>1
  <2>3. BestIn(s, n + 1, f[at], n + 1)
    BY <1>2, <1>3, <1>12, <2>1, <2>2, NewIsBest
  <2>4. PICK d : MergedAs(s, n + 1, ReplaceAt(M, at, entry), k, f, d)
    BY <1>1, <2>1, <2>3, MergeKnown
  <2>5. MergeCandidate(M, entry) = ReplaceAt(M, at, entry)
    BY <1>10, <1>14
  <2> QED BY <2>4, <2>5 DEF Merged
<1>15. CASE same # {} /\ ~ Less(M[at].cand.conf, entry.cand.conf)
  <2>1. at \in 1 .. k /\ s[f[at]].c.text = s[n + 1].c.text
    BY <1>9, <1>11, <1>15
  <2>2. ~ Less(Confidence(s[b[at]].c), Confidence(s[n + 1].c))
    BY <1>6, <1>7, <1>15, <2>1
  <2>3. BestIn(s, n + 1, f[at], b[at])
    BY <1>2, <1>3, <1>12, <2>1, <2>2, OldIsBest
  <2>4. PICK d : MergedAs(s, n + 1, ReplaceAt(M, at, Entry(s[b[at]])), k, f, d)
    BY <1>1, <2>1, <2>3, MergeKnown
  <2>5. ReplaceAt(M, at, Entry(s[b[at]])) = M
    BY <1>2, <1>7, <2>1 DEF ReplaceAt
  <2>6. MergeCandidate(M, entry) = M
    BY <1>10, <1>15
  <2> QED BY <2>4, <2>5, <2>6 DEF Merged
<1> QED BY <1>13, <1>14, <1>15

\* The dict after each of the mentions.
MergeLooped(s, f) ==
    f = [n \in 0 .. Len(s) |->
            IF n = 0 THEN << >> ELSE MergeCandidate(f[n - 1], Entry(s[n]))]

LEMMA MergeType ==
    ASSUME NEW S, NEW M \in Seq(S), NEW e \in S
    PROVE  MergeCandidate(M, e) \in Seq(S)
<1> DEFINE same == {x \in DOMAIN M : M[x].cand.text = e.cand.text}
           at == CHOOSE x \in same : TRUE
<1>1. MergeCandidate(M, e) =
          IF same = {} THEN Append(M, e)
          ELSE IF Less(M[at].cand.conf, e.cand.conf) THEN ReplaceAt(M, at, e)
          ELSE M
  BY DEF MergeCandidate
<1>2. Append(M, e) \in Seq(S)
  OBVIOUS
<1>3. ReplaceAt(M, at, e) \in Seq(S)
  <2> HIDE DEF at
  <2>1. PICK l \in Nat : M \in [1 .. l -> S]
    OBVIOUS
  <2>2. ReplaceAt(M, at, e) \in [1 .. l -> S]
    BY <2>1 DEF ReplaceAt
  <2> QED BY <2>1, <2>2
<1> HIDE DEF same, at
<1> QED BY <1>1, <1>2, <1>3

LEMMA MergeLoopedExists ==
    ASSUME NEW m \in Nat, NEW S, NEW s, Len(s) = m, \A n \in 1 .. m : Entry(s[n]) \in S
    PROVE  \E f : MergeLooped(s, f)
<1> DEFINE next == [n \in 1 .. m |-> [M \in Seq(S) |-> MergeCandidate(M, Entry(s[n]))]]
<1>1. next \in [1 .. m -> [Seq(S) -> Seq(S)]]
  BY MergeType
<1>2. \A M \in Seq(S), n \in 1 .. m : next[n][M] = MergeCandidate(M, Entry(s[n]))
  OBVIOUS
<1>3. << >> \in Seq(S)
  OBVIOUS
<1> HIDE DEF next
<1>4. PICK f : Recursion(m, Seq(S), << >>, next, f)
  BY <1>1, <1>3, RecursionExists
<1>5. /\ f \in [0 .. m -> Seq(S)] /\ f[0] = << >>
      /\ \A n \in 1 .. m : f[n] = next[n][f[n - 1]]
  BY <1>4 DEF Recursion
<1>6. ASSUME NEW n \in 0 .. m
      PROVE  f[n] = IF n = 0 THEN << >> ELSE MergeCandidate(f[n - 1], Entry(s[n]))
  <2>1. CASE n = 0
    BY <1>5, <2>1
  <2>2. CASE n # 0
    <3>1. n \in 1 .. m /\ n - 1 \in 0 .. m
      BY <2>2
    <3> QED BY <1>2, <1>5, <2>2, <3>1
  <2> QED BY <2>1, <2>2
<1>7. f = [n \in 0 .. m |-> IF n = 0 THEN << >> ELSE MergeCandidate(f[n - 1], Entry(s[n]))]
  BY <1>5, <1>6
<1> QED BY <1>7 DEF MergeLooped

\* What the loop over any mentions leaves.
LEMMA MergeIs ==
    ASSUME NEW m \in Nat, NEW s \in [1 .. m -> Keepable], Len(s) = m
    PROVE  Merged(s, m, Merge(s))
<1> DEFINE S == {Entry(s[n]) : n \in 1 .. m}
           f == CHOOSE f : MergeLooped(s, f)
<1>1. \A n \in 1 .. m : Entry(s[n]) \in S
  OBVIOUS
<1>2. \E g : MergeLooped(s, g)
  <2> HIDE DEF S
  <2> QED BY <1>1, MergeLoopedExists
<1>3. MergeLooped(s, f)
  BY <1>2
<1>4. Merge(s) = f[Len(s)]
  BY Zenon DEF Merge, MergeLooped
<1> HIDE DEF f, S
<1>5. \A n \in 0 .. m : f[n] = IF n = 0 THEN << >> ELSE MergeCandidate(f[n - 1], Entry(s[n]))
  BY <1>3 DEF MergeLooped
<1> DEFINE fails == {n \in 0 .. m : ~ Merged(s, n, f[n])}
<1>6. fails = {}
  <2> SUFFICES ASSUME fails # {} PROVE FALSE
    OBVIOUS
  <2>1. fails \subseteq Nat
    OBVIOUS
  <2>2. \A n : n \in fails <=> n \in 0 .. m /\ ~ Merged(s, n, f[n])
    OBVIOUS
  <2> HIDE DEF fails
  <2>3. PICK n \in fails : \A w \in fails : n <= w
    BY <2>1, LeastNumber
  <2>4. CASE n = 0
    <3>1. f[0] = [x \in 1 .. 0 |-> Entry(s[x])]
      BY <1>5
    <3>2. PICK b : b = [x \in 1 .. 0 |-> x]
      OBVIOUS
    <3>3. f[0] = [x \in 1 .. 0 |-> Entry(s[b[x]])]
      BY <3>1
    <3>4. MergedAs(s, 0, f[0], 0, b, b)
      BY <3>3 DEF MergedAs
    <3> QED BY <2>2, <2>4, <3>4 DEF Merged
  <2>5. CASE n # 0
    <3>1. n \in 1 .. m /\ n - 1 \in 0 .. m /\ n - 1 \in Nat /\ ~ (n <= n - 1)
          /\ n - 1 + 1 = n /\ n - 1 + 1 <= m
      BY <2>2, <2>5
    <3>2. Merged(s, n - 1, f[n - 1])
      BY <2>2, <2>3, <3>1
    <3>3. f[n] = MergeCandidate(f[n - 1], Entry(s[n]))
      BY <1>5, <2>2, <2>5
    <3>4. PICK q : q = n - 1
      OBVIOUS
    <3>5. q \in Nat /\ q + 1 <= m /\ q + 1 = n /\ Merged(s, q, f[q])
      BY <3>1, <3>2, <3>4
    <3>6. Merged(s, q + 1, MergeCandidate(f[q], Entry(s[q + 1])))
      BY <3>5, MergeStep
    <3> QED BY <2>2, <3>3, <3>4, <3>5, <3>6
  <2> QED BY <2>4, <2>5
<1>7. m \in 0 .. m
  OBVIOUS
<1> QED BY <1>4, <1>6, <1>7

\* What is said in the first windows.
Block(answers, w) == [j \in DOMAIN answers[w] |-> [c |-> answers[w][j], ref |-> w]]

SaidLooped(answers, f) ==
    f = [w \in 0 .. Len(answers) |-> IF w = 0 THEN << >> ELSE f[w - 1] \o Block(answers, w)]

IsChat(answers) == \E n \in Nat : answers \in [1 .. n -> Seq(RawCandidate)]

LEMMA BlockType ==
    ASSUME NEW n \in Nat, NEW answers \in [1 .. n -> Seq(RawCandidate)], NEW w \in 1 .. n
    PROVE  Block(answers, w) \in Seq(Mentioning)
<1>1. answers[w] \in Seq(RawCandidate)
  OBVIOUS
<1>2. PICK l \in Nat : answers[w] \in [1 .. l -> RawCandidate]
  BY <1>1
<1>3. \A j \in 1 .. l : [c |-> answers[w][j], ref |-> w] \in Mentioning
  BY <1>2 DEF Mentioning
<1>4. Block(answers, w) \in [1 .. l -> Mentioning]
  BY <1>2, <1>3 DEF Block
<1> QED BY <1>4

LEMMA SaidIs ==
    ASSUME NEW answers, IsChat(answers)
    PROVE  \E N \in Nat : Said(answers) \in [1 .. N -> Mentioning]
<1>1. PICK n \in Nat : answers \in [1 .. n -> Seq(RawCandidate)]
  BY DEF IsChat
<1>2. Len(answers) = n
  BY <1>1
<1> DEFINE T == Seq(Mentioning)
           next == [w \in 1 .. n |-> [t \in T |-> t \o Block(answers, w)]]
<1>3. ASSUME NEW w \in 1 .. n, NEW t \in T
      PROVE  t \o Block(answers, w) \in T
  <2>1. Block(answers, w) \in Seq(Mentioning)
    BY <1>1, BlockType
  <2> QED BY <2>1
<1>4. next \in [1 .. n -> [T -> T]]
  <2> HIDE DEF T
  <2> QED BY <1>3
<1>5. \A t \in T, w \in 1 .. n : next[w][t] = t \o Block(answers, w)
  OBVIOUS
<1>6. << >> \in T
  OBVIOUS
<1> HIDE DEF next, T
<1>7. PICK f : Recursion(n, T, << >>, next, f)
  BY <1>4, <1>6, RecursionExists
<1>8. /\ f \in [0 .. n -> T] /\ f[0] = << >>
      /\ \A w \in 1 .. n : f[w] = next[w][f[w - 1]]
  BY <1>7 DEF Recursion
<1>9. ASSUME NEW w \in 0 .. n
      PROVE  f[w] = IF w = 0 THEN << >> ELSE f[w - 1] \o Block(answers, w)
  <2>1. CASE w = 0
    BY <1>8, <2>1
  <2>2. CASE w # 0
    <3>1. w \in 1 .. n /\ w - 1 \in 0 .. n
      BY <2>2
    <3> QED BY <1>5, <1>8, <2>2, <3>1
  <2> QED BY <2>1, <2>2
<1>10. f = [w \in 0 .. n |-> IF w = 0 THEN << >> ELSE f[w - 1] \o Block(answers, w)]
  BY <1>8, <1>9
<1>11. SaidLooped(answers, f)
  BY <1>2, <1>10 DEF SaidLooped
<1> DEFINE g == CHOOSE g : SaidLooped(answers, g)
<1>12. SaidLooped(answers, g)
  BY <1>11
<1>13. Said(answers) = g[Len(answers)]
  BY Zenon DEF Said, SaidLooped, Block
<1> HIDE DEF g
<1>14. \A w \in 0 .. n : g[w] = IF w = 0 THEN << >> ELSE g[w - 1] \o Block(answers, w)
  BY <1>2, <1>12 DEF SaidLooped
<1> DEFINE fails == {w \in 0 .. n : g[w] \notin T}
<1>15. fails = {}
  <2> SUFFICES ASSUME fails # {} PROVE FALSE
    OBVIOUS
  <2>1. fails \subseteq Nat
    OBVIOUS
  <2>2. \A w : w \in fails <=> w \in 0 .. n /\ g[w] \notin T
    OBVIOUS
  <2> HIDE DEF fails
  <2>3. PICK w \in fails : \A v \in fails : w <= v
    BY <2>1, LeastNumber
  <2>4. CASE w = 0
    BY <1>6, <1>14, <2>2, <2>4
  <2>5. CASE w # 0
    <3>1. w \in 1 .. n /\ w - 1 \in 0 .. n /\ ~ (w <= w - 1)
      BY <2>2, <2>5
    <3>2. g[w - 1] \in T
      BY <2>2, <2>3, <3>1
    <3>3. g[w] = g[w - 1] \o Block(answers, w)
      BY <1>14, <2>2, <2>5
    <3> QED BY <1>3, <2>2, <3>1, <3>2, <3>3
  <2> QED BY <2>4, <2>5
<1>16. g[n] \in T
  BY <1>15
<1>17. g[n] \in Seq(Mentioning)
  BY <1>16 DEF T
<1>18. \E N \in Nat : g[n] \in [1 .. N -> Mentioning]
  BY <1>17
<1> QED BY <1>2, <1>13, <1>18

\* What is kept of what is said.
LEMMA KeptIs ==
    ASSUME NEW N \in Nat, NEW said \in [1 .. N -> Mentioning]
    PROVE  \E m \in Nat : /\ Picked(said, KeptMentions(said)) \in [1 .. m -> Keepable]
                          /\ Len(Picked(said, KeptMentions(said))) = m
<1> DEFINE P == KeptMentions(said)
           s == Picked(said, P)
<1>1. \A i : i \in P <=> i \in 1 .. N /\ ValidCandidate(said[i].c).kind = "valid"
  BY DEF KeptMentions
<1>2. IsFiniteSet(P) /\ P \subseteq Int
  <2>1. P \in SUBSET (1 .. N)
    BY <1>1
  <2>2. IsFiniteSet(1 .. N)
    BY UpToFinite
  <2>3. P \subseteq Int
    BY <1>1
  <2> HIDE DEF P
  <2>4. IsFiniteSet(P)
    BY <2>1, <2>2, FS_Subset
  <2> QED BY <2>3, <2>4
<1> HIDE DEF P
<1>3. PICK m, e : Picking(said, P, m, e)
  BY <1>2, PickedBy
<1>4. /\ m \in Nat /\ \A r \in 1 .. m : e[r] \in P
      /\ s = [r \in 1 .. m |-> said[e[r]]]
  BY <1>3 DEF Picking, Through
<1>5. ASSUME NEW r \in 1 .. m PROVE said[e[r]] \in Keepable
  <2>1. e[r] \in 1 .. N /\ ValidCandidate(said[e[r]].c).kind = "valid"
    BY <1>1, <1>4
  <2> QED BY <2>1 DEF Keepable
<1> HIDE DEF s
<1>6. s \in [1 .. m -> Keepable] /\ Len(s) = m
  BY <1>4, <1>5
<1> QED BY <1>4, <1>6 DEF s, P

\* The items are what the dict holds: item x is mentioned first at f[x], best at b[x].
ItemsAs(s, m, items, k, f, b) ==
    /\ k \in Nat /\ DOMAIN items = 1 .. k
    /\ \A x \in 1 .. k : FirstIn(s, m, f[x])
    /\ \A x \in 1 .. k : BestIn(s, m, f[x], b[x])
    /\ \A x, y \in 1 .. k : x < y => f[x] < f[y]
    /\ \A i \in 1 .. m : FirstIn(s, m, i) => \E x \in 1 .. k : f[x] = i
    /\ \A x \in 1 .. k : /\ items[x].text = s[f[x]].c.text
                         /\ items[x].type = s[b[x]].c.type
                         /\ items[x].source = s[b[x]].ref
    /\ \A x \in 1 .. k : /\ items[x].edit \in BOOLEAN
                         /\ items[x].edit => /\ items[x].route = "edit"
                                             /\ s[b[x]].c.type = "belief"
                                             /\ {s[b[x]].c.stem, s[b[x]].c.target}
                                                    \subseteq {"blank", "given"}

ItemOf(e) ==
    [text |-> e.cand.text, type |-> e.cand.type,
     route |-> Route(e.cand.type), conf |-> e.cand.conf,
     edit |-> Route(e.cand.type) = "edit" /\ e.cand.edit,
     source |-> e.ref]

LEMMA ItemOfIs ==
    ASSUME NEW e \in Keepable, NEW it, it = ItemOf(Entry(e))
    PROVE  /\ it.text = e.c.text /\ it.type = e.c.type /\ it.source = e.ref
           /\ it.edit \in BOOLEAN
           /\ it.edit => /\ it.route = "edit" /\ e.c.type = "belief"
                         /\ {e.c.stem, e.c.target} \subseteq {"blank", "given"}
<1> DEFINE g == Entry(e)
<1>1. /\ g.cand.text = e.c.text /\ g.cand.type = e.c.type /\ g.ref = e.ref
      /\ g.cand.edit = ({e.c.stem, e.c.target} \subseteq {"blank", "given"})
  BY EntryIs
<1> HIDE DEF g
<1>2. /\ it.text = g.cand.text /\ it.type = g.cand.type /\ it.source = g.ref
      /\ it.route = Route(g.cand.type)
      /\ it.edit = (Route(g.cand.type) = "edit" /\ g.cand.edit)
  BY DEF ItemOf, g
<1>3. Route(g.cand.type) = "edit" => g.cand.type = "belief"
  BY DEF Route
<1>4. it.edit => it.route = "edit" /\ e.c.type = "belief"
  BY <1>1, <1>2, <1>3
<1>5. it.edit => g.cand.edit
  BY <1>2
<1>6. it.edit \in BOOLEAN
  BY <1>2
<1>7. it.edit => {e.c.stem, e.c.target} \subseteq {"blank", "given"}
  BY <1>1, <1>5
<1> QED BY <1>1, <1>2, <1>4, <1>6, <1>7

\* What extract returns, unless it raises.
LEMMA ExtractIs ==
    ASSUME NEW answers, IsChat(answers), ~ Extract(answers).raises
    PROVE  LET s == Picked(Said(answers), KeptMentions(Said(answers)))
           IN  \E m, k, f, b : /\ m \in Nat /\ s \in [1 .. m -> Keepable] /\ Len(s) = m
                               /\ ItemsAs(s, m, Extract(answers).items, k, f, b)
<1> DEFINE s == Picked(Said(answers), KeptMentions(Said(answers)))
           items == Extract(answers).items
           M == Merge(s)
<1>1. PICK m \in Nat : s \in [1 .. m -> Keepable] /\ Len(s) = m
  BY SaidIs, KeptIs
<1>2. items = [x \in DOMAIN M |-> ItemOf(M[x])]
  <2>1. Extract(answers) = [raises |-> FALSE, items |-> [x \in DOMAIN M |-> ItemOf(M[x])]]
    BY DEF Extract, ItemOf
  <2> HIDE DEF M
  <2> QED BY <2>1
<1> HIDE DEF s, items
<1>3. PICK k, f, b : MergedAs(s, m, M, k, f, b)
  BY <1>1, MergeIs DEF Merged
<1> HIDE DEF M
<1>4. k \in Nat /\ M = [x \in 1 .. k |-> Entry(s[b[x]])]
  BY <1>3 DEF MergedAs
<1>5. DOMAIN items = 1 .. k /\ \A x \in 1 .. k : items[x] = ItemOf(Entry(s[b[x]]))
  BY <1>2, <1>4
<1>6. \A x \in 1 .. k : b[x] \in 1 .. m /\ s[b[x]].c.text = s[f[x]].c.text
  BY <1>3 DEF MergedAs, BestIn
<1>7. \A x \in 1 .. k : s[b[x]] \in Keepable
  BY <1>1, <1>6
<1>8. \A x \in 1 .. k : /\ items[x].text = s[f[x]].c.text
                        /\ items[x].type = s[b[x]].c.type
                        /\ items[x].source = s[b[x]].ref
  BY <1>5, <1>6, <1>7, ItemOfIs
<1>9. \A x \in 1 .. k : /\ items[x].edit \in BOOLEAN
                        /\ items[x].edit => /\ items[x].route = "edit"
                                            /\ s[b[x]].c.type = "belief"
                                            /\ {s[b[x]].c.stem, s[b[x]].c.target}
                                                   \subseteq {"blank", "given"}
  BY <1>5, <1>7, ItemOfIs
<1>10. ItemsAs(s, m, items, k, f, b)
  BY <1>3, <1>4, <1>5, <1>8, <1>9 DEF ItemsAs, MergedAs
<1> QED BY <1>1, <1>10 DEF s, items

MentionsOf(s, text) == {i \in DOMAIN s : s[i].c.text = text}

\* The first mention of the text of an item.
LEMMA FirstOfText ==
    ASSUME NEW m \in Nat, NEW s, DOMAIN s = 1 .. m, NEW i, FirstIn(s, m, i)
    PROVE  Min(MentionsOf(s, s[i].c.text)) = i
<1> DEFINE S == MentionsOf(s, s[i].c.text)
<1>1. i \in 1 .. m /\ \A j \in 1 .. i - 1 : s[j].c.text # s[i].c.text
  BY DEF FirstIn
<1>2. \A j : j \in S <=> j \in 1 .. m /\ s[j].c.text = s[i].c.text
  BY DEF MentionsOf
<1> HIDE DEF S
<1>3. S \subseteq Int /\ i \in S
  BY <1>1, <1>2
<1>4. ASSUME NEW j \in S PROVE i <= j
  <2>1. j \in 1 .. m /\ j \notin 1 .. i - 1
    BY <1>1, <1>2
  <2> QED BY <1>1, <2>1
<1>5. Min(S) = i
  BY <1>3, <1>4, LeastIs
<1> QED BY <1>5 DEF S

\* The best mention of the text of an item, as the property picks it.
Numeric(s, text) == \A j \in MentionsOf(s, text) : Confidence(s[j].c) # NaN

BestOf(s, text) ==
    CHOOSE i \in MentionsOf(s, text) : \A j \in MentionsOf(s, text) :
        \/ Confidence(s[i].c) > Confidence(s[j].c)
        \/ Confidence(s[i].c) = Confidence(s[j].c) /\ i <= j

LEMMA BestOfText ==
    ASSUME NEW m \in Nat, NEW s \in [1 .. m -> Keepable],
           NEW i, FirstIn(s, m, i), NEW b, BestIn(s, m, i, b), Numeric(s, s[i].c.text)
    PROVE  BestOf(s, s[i].c.text) = b
<1> DEFINE S == MentionsOf(s, s[i].c.text)
           Above(x, j) == \/ Confidence(s[x].c) > Confidence(s[j].c)
                          \/ Confidence(s[x].c) = Confidence(s[j].c) /\ x <= j
           Tops(x) == \A j \in S : Above(x, j)
<1>1. \A j : j \in S <=> j \in 1 .. m /\ s[j].c.text = s[i].c.text
  BY DEF MentionsOf
<1>2. i \in S /\ \A j \in S : Confidence(s[j].c) # NaN
  BY <1>1 DEF FirstIn, Numeric
<1> HIDE DEF S
<1>3. ASSUME NEW j \in S PROVE Confidence(s[j].c) \in Int /\ j \in Int
  <2>1. s[j] \in Keepable /\ j \in 1 .. m
    BY <1>1, <1>3
  <2> QED BY <1>2, <1>3, <2>1, EntryIs, ConfsAre
<1>4. b \in S /\ \A j \in S : AtLeast(s, b, j)
  BY <1>1, <1>2 DEF BestIn
<1>5. Tops(b)
  BY <1>2, <1>4 DEF AtLeast
<1>6. ASSUME NEW x \in S, Tops(x) PROVE x = b
  <2>1. Above(x, b) /\ Above(b, x)
    BY <1>4, <1>5, <1>6
  <2> QED BY <1>3, <1>4, <1>6, <2>1
<1> HIDE DEF Tops
<1>7. (CHOOSE x \in S : Tops(x)) = b
  BY <1>4, <1>5, <1>6, Zenon
<1> QED BY <1>7, Zenon DEF BestOf, S, Tops, Above

\* One item per text, as the property says it of what is kept.
OneItem(result, s) ==
    /\ IsInjective([i \in DOMAIN result.items |-> result.items[i].text])
    /\ {result.items[i].text : i \in DOMAIN result.items} =
          {s[i].c.text : i \in DOMAIN s}
    /\ \A i, j \in DOMAIN result.items :
          i < j => Min(MentionsOf(s, result.items[i].text)) <
                   Min(MentionsOf(s, result.items[j].text))
    /\ \A i \in DOMAIN result.items :
          /\ result.items[i].edit => result.items[i].route = "edit"
          /\ Numeric(s, result.items[i].text) =>
                 /\ result.items[i].source = s[BestOf(s, result.items[i].text)].ref
                 /\ result.items[i].type = s[BestOf(s, result.items[i].text)].c.type

LEMMA ItemsAreOne ==
    ASSUME NEW m \in Nat, NEW s \in [1 .. m -> Keepable], NEW result, NEW k, NEW f, NEW b,
           ItemsAs(s, m, result.items, k, f, b)
    PROVE  OneItem(result, s)
<1> DEFINE items == result.items
<1>1. k \in Nat /\ DOMAIN items = 1 .. k /\ DOMAIN s = 1 .. m
  BY DEF ItemsAs
<1>2. \A x \in 1 .. k : /\ items[x].text = s[f[x]].c.text
                        /\ items[x].type = s[b[x]].c.type
                        /\ items[x].source = s[b[x]].ref
                        /\ items[x].edit => items[x].route = "edit"
  BY DEF ItemsAs
<1>3. \A x \in 1 .. k : FirstIn(s, m, f[x]) /\ BestIn(s, m, f[x], b[x])
  BY DEF ItemsAs
<1>4. \A x, y \in 1 .. k : x < y => f[x] < f[y]
  BY DEF ItemsAs
<1>5. \A i \in 1 .. m : FirstIn(s, m, i) => \E x \in 1 .. k : f[x] = i
  BY DEF ItemsAs
<1> HIDE DEF items
<1>6. \A x \in 1 .. k : Min(MentionsOf(s, items[x].text)) = f[x]
  BY <1>1, <1>2, <1>3, FirstOfText
<1>7. ASSUME NEW x \in 1 .. k, Numeric(s, items[x].text)
      PROVE  BestOf(s, items[x].text) = b[x]
  <2>1. items[x].text = s[f[x]].c.text
    BY <1>2
  <2>2. BestOf(s, s[f[x]].c.text) = b[x]
    BY <1>3, <1>7, <2>1, BestOfText
  <2> QED BY <2>1, <2>2
<1>8. IsInjective([i \in DOMAIN items |-> items[i].text])
  <2>1. ASSUME NEW x \in 1 .. k, NEW y \in 1 .. k, items[x].text = items[y].text
        PROVE  x = y
    <3>1. f[x] = f[y]
      BY <1>6, <2>1
    <3>2. f[x] \in 1 .. m /\ f[y] \in 1 .. m
      BY <1>3 DEF FirstIn
    <3> QED BY <1>1, <1>4, <3>1, <3>2
  <2> QED BY <1>1, <2>1 DEF IsInjective
<1>9. {items[i].text : i \in DOMAIN items} = {s[i].c.text : i \in DOMAIN s}
  <2>1. ASSUME NEW x \in 1 .. k PROVE \E i \in 1 .. m : items[x].text = s[i].c.text
    <3>1. f[x] \in 1 .. m
      BY <1>3 DEF FirstIn
    <3> QED BY <1>2, <3>1
  <2>2. ASSUME NEW i \in 1 .. m PROVE \E x \in 1 .. k : items[x].text = s[i].c.text
    <3>1. PICK j \in 1 .. m : FirstIn(s, m, j) /\ s[j].c.text = s[i].c.text
      BY FirstMention
    <3>2. PICK x \in 1 .. k : f[x] = j
      BY <1>5, <3>1
    <3> QED BY <1>2, <3>1, <3>2
  <2> DEFINE A == {items[i].text : i \in DOMAIN items}
             B == {s[i].c.text : i \in DOMAIN s}
  <2>3. \A t : t \in A <=> \E x \in 1 .. k : t = items[x].text
    BY <1>1
  <2>4. \A t : t \in B <=> \E i \in 1 .. m : t = s[i].c.text
    BY <1>1
  <2>5. A = B
    <3> HIDE DEF A, B
    <3>1. \A t : t \in A => t \in B
      BY <2>1, <2>3, <2>4
    <3>2. \A t : t \in B => t \in A
      BY <2>2, <2>3, <2>4
    <3> QED BY <3>1, <3>2
  <2> QED BY <2>5
<1>10. \A i, j \in DOMAIN items :
           i < j => Min(MentionsOf(s, items[i].text)) < Min(MentionsOf(s, items[j].text))
  BY <1>1, <1>4, <1>6
<1>11. \A i \in DOMAIN items :
          /\ items[i].edit => items[i].route = "edit"
          /\ Numeric(s, items[i].text) =>
                 /\ items[i].source = s[BestOf(s, items[i].text)].ref
                 /\ items[i].type = s[BestOf(s, items[i].text)].c.type
  BY <1>1, <1>2, <1>7
<1> QED BY <1>8, <1>9, <1>10, <1>11 DEF OneItem, items

\* A chat is what the language model answers for each window.
Extracted ==
    /\ call.op = "candidate" => call.cand \in RawCandidate
    /\ call.op = "extract" => IsChat(call.answers)

LEMMA OneItemPerTextOf ==
    ASSUME Extracted
    PROVE  OneItemPerText
<1> DEFINE said == Said(call.answers)
<1> SUFFICES ASSUME call.op = "extract",
                    \A i \in DOMAIN said : said[i].c.type # "unhashable"
             PROVE  /\ ~ Extract(call.answers).raises
                    /\ OneItem(Extract(call.answers),
                               Picked(said, KeptMentions(said)))
  BY Zenon DEF OneItemPerText, OneItem, BestOf, Numeric, MentionsOf
<1>0. ~ Extract(call.answers).raises
  <2> SUFFICES \A i \in DOMAIN said : ValidCandidate(said[i].c).kind # "raises"
    BY DEF Extract
  <2> TAKE i \in DOMAIN said
  <2>1. said[i].c.type # "unhashable"
    OBVIOUS
  <2> HIDE DEF said
  <2> QED BY <2>1, ValidCandidateIs, AcceptedIs
<1> DEFINE s == Picked(Said(call.answers), KeptMentions(Said(call.answers)))
<1>1. IsChat(call.answers)
  BY DEF Extracted
<1>2. PICK m, k, f, b : /\ m \in Nat /\ s \in [1 .. m -> Keepable] /\ Len(s) = m
                        /\ ItemsAs(s, m, Extract(call.answers).items, k, f, b)
  BY <1>0, <1>1, ExtractIs
<1> HIDE DEF s
<1>3. OneItem(Extract(call.answers), s)
  BY <1>2, ItemsAreOne
<1> QED BY <1>0, <1>3 DEF s

\* The probe looks at the first item with an edit.
FirstEdit(items, x) == items[x].edit /\ \A y \in 1 .. x - 1 : ~ items[y].edit

LEMMA ProbeLooksAt ==
    ASSUME NEW k \in Nat, NEW items, DOMAIN items = 1 .. k, NEW truth,
           \A x \in 1 .. k : items[x].edit => items[x].route = "edit"
    PROVE  /\ ExtractorProbe(items, truth).routed <=> \E x \in 1 .. k : items[x].edit
           /\ ExtractorProbe(items, truth).match <=>
                  \E x \in 1 .. k : FirstEdit(items, x) /\ items[x].text = truth
<1> DEFINE P == {i \in DOMAIN items : items[i].route = "edit" /\ items[i].edit}
           E == Picked(items, P)
           probe == ExtractorProbe(items, truth)
<1>1. probe = [routed |-> E # << >>, match |-> E # << >> /\ Head(E).text = truth]
  BY DEF ExtractorProbe
<1>2. \A i : i \in P <=> i \in 1 .. k /\ items[i].edit
  OBVIOUS
<1>3. IsFiniteSet(P) /\ P \subseteq Int
  <2>1. P \in SUBSET (1 .. k)
    BY <1>2
  <2>2. IsFiniteSet(1 .. k)
    BY UpToFinite
  <2>3. P \subseteq Int
    BY <1>2
  <2> HIDE DEF P
  <2>4. IsFiniteSet(P)
    BY <2>1, <2>2, FS_Subset
  <2> QED BY <2>3, <2>4
<1> HIDE DEF P
<1>4. PICK n, e : Picking(items, P, n, e)
  BY <1>3, PickedBy
<1>5. /\ n \in Nat /\ E = [r \in 1 .. n |-> items[e[r]]]
      /\ \A r \in 1 .. n : e[r] \in P
      /\ \A i \in P : \E r \in 1 .. n : e[r] = i
      /\ \A q, r \in 1 .. n : q < r => e[q] < e[r]
  BY <1>4 DEF Picking, Through
<1> HIDE DEF E, probe
<1>6. probe.routed = (E # << >>) /\ probe.match = (E # << >> /\ Head(E).text = truth)
  BY <1>1
<1>7. CASE n = 0
  <2>1. E = << >>
    BY <1>5, <1>7
  <2>2. \A i \in 1 .. k : ~ items[i].edit
    BY <1>2, <1>5, <1>7
  <2>3. ~ probe.routed /\ ~ probe.match
    BY <1>6, <2>1
  <2> QED BY <2>2, <2>3 DEF FirstEdit, probe
<1>8. CASE n # 0
  <2>1. 1 \in 1 .. n
    BY <1>5, <1>8
  <2>2. E # << >> /\ Head(E) = items[e[1]]
    <3>1. Len(E) = n /\ E[1] = items[e[1]]
      BY <1>5, <2>1
    <3>2. E # << >>
      BY <1>8, <3>1
    <3>3. Head(E) = E[1]
      BY <1>5
    <3> QED BY <3>1, <3>2, <3>3
  <2>3. e[1] \in 1 .. k /\ items[e[1]].edit
    BY <1>2, <1>5, <2>1
  <2>4. ASSUME NEW y \in 1 .. k, items[y].edit PROVE e[1] <= y
    <3>1. PICK r \in 1 .. n : e[r] = y
      BY <1>2, <1>5, <2>4
    <3>2. r = 1 \/ 1 < r
      BY <1>5
    <3> QED BY <1>5, <2>1, <2>3, <3>1, <3>2
  <2>5. FirstEdit(items, e[1])
    <3>1. ASSUME NEW y \in 1 .. e[1] - 1 PROVE ~ items[y].edit
      <4>1. y \in 1 .. k /\ ~ (e[1] <= y)
        BY <2>3
      <4> QED BY <2>4, <4>1
    <3> QED BY <2>3, <3>1 DEF FirstEdit
  <2>6. ASSUME NEW x \in 1 .. k, FirstEdit(items, x) PROVE x = e[1]
    <3>1. items[x].edit /\ e[1] \notin 1 .. x - 1
      BY <2>3, <2>6 DEF FirstEdit
    <3>2. e[1] <= x
      BY <2>4, <3>1
    <3> QED BY <2>3, <3>1, <3>2
  <2>7. probe.routed /\ (probe.match <=> items[e[1]].text = truth)
    BY <1>6, <2>2
  <2>8. probe.match <=> \E x \in 1 .. k : FirstEdit(items, x) /\ items[x].text = truth
    BY <2>3, <2>5, <2>6, <2>7
  <2> QED BY <2>3, <2>7, <2>8 DEF probe
<1> QED BY <1>5, <1>7, <1>8

\* If an item has an edit, one is the first.
LEMMA FirstEditExists ==
    ASSUME NEW k \in Nat, NEW items, NEW x \in 1 .. k, items[x].edit
    PROVE  \E y \in 1 .. k : FirstEdit(items, y) /\ y <= x
<1> DEFINE S == {y \in 1 .. k : items[y].edit}
<1>1. S \subseteq Nat /\ S # {} /\ \A y : y \in S <=> y \in 1 .. k /\ items[y].edit
  OBVIOUS
<1> HIDE DEF S
<1>2. PICK y \in S : \A w \in S : y <= w
  BY <1>1, LeastNumber
<1>3. y \in 1 .. k /\ items[y].edit /\ y <= x
  BY <1>1, <1>2
<1>4. ASSUME NEW w \in 1 .. y - 1 PROVE ~ items[w].edit
  <2>1. w \in 1 .. k /\ ~ (y <= w)
    BY <1>3
  <2> QED BY <1>1, <1>2, <2>1
<1> QED BY <1>3, <1>4 DEF FirstEdit

LEMMA ProbeSeesFirstEditOf ==
    ASSUME Extracted
    PROVE  ProbeSeesFirstEdit
<1> SUFFICES ASSUME call.op = "extract", ~ Extract(call.answers).raises
             PROVE  ProbeSeesFirstEdit
  BY DEF ProbeSeesFirstEdit
<1> DEFINE s == Picked(Said(call.answers), KeptMentions(Said(call.answers)))
           items == Extract(call.answers).items
           edits == {it.text : it \in {x \in ToSet(items) : x.edit}}
           first(p) == Min({i \in DOMAIN s : s[i].c.text = p})
           probes == [p \in Proposition |-> ExtractorProbe(items, p)]
<1>1. IsChat(call.answers)
  BY DEF Extracted
<1>2. PICK m, k, f, b : /\ m \in Nat /\ s \in [1 .. m -> Keepable] /\ Len(s) = m
                        /\ ItemsAs(s, m, items, k, f, b)
  BY <1>1, ExtractIs
<1> HIDE DEF s, items
<1>3. /\ m \in Nat /\ k \in Nat /\ DOMAIN items = 1 .. k /\ DOMAIN s = 1 .. m
      /\ \A x \in 1 .. k : FirstIn(s, m, f[x])
      /\ \A x \in 1 .. k : BestIn(s, m, f[x], b[x])
      /\ \A x, y \in 1 .. k : x < y => f[x] < f[y]
  BY <1>2 DEF ItemsAs
<1>4. \A x \in 1 .. k : /\ items[x].text = s[f[x]].c.text
                        /\ items[x].edit => /\ items[x].route = "edit"
                                            /\ s[b[x]].c.type = "belief"
                                            /\ {s[b[x]].c.stem, s[b[x]].c.target}
                                                   \subseteq {"blank", "given"}
  BY <1>2 DEF ItemsAs
<1>5. \A x \in 1 .. k : f[x] \in 1 .. m /\ b[x] \in 1 .. m /\ s[b[x]].c.text = items[x].text
  BY <1>3, <1>4 DEF FirstIn, BestIn
<1>6. \A t : t \in edits <=> \E x \in 1 .. k : items[x].edit /\ items[x].text = t
  BY <1>3 DEF ToSet
<1>7. ASSUME NEW x \in 1 .. k PROVE first(items[x].text) = f[x]
  <2>1. Min(MentionsOf(s, s[f[x]].c.text)) = f[x]
    BY <1>3, FirstOfText
  <2>2. first(items[x].text) = Min(MentionsOf(s, items[x].text))
    BY DEF MentionsOf
  <2> HIDE DEF first
  <2> QED BY <1>4, <2>1, <2>2
<1>8. \A p \in Proposition : probes[p] = ExtractorProbe(items, p)
  OBVIOUS
<1> HIDE DEF edits, first, probes
<1>9. ASSUME NEW p \in Proposition
      PROVE  /\ probes[p].routed <=> edits # {}
             /\ probes[p].match => \E i \in DOMAIN s :
                    /\ s[i].c.text = p
                    /\ s[i].c.type = "belief"
                    /\ {s[i].c.stem, s[i].c.target} \subseteq {"blank", "given"}
             /\ p \in edits /\ ~ probes[p].match =>
                    \E other \in edits : first(other) < first(p)
  <2>1. /\ probes[p].routed <=> \E x \in 1 .. k : items[x].edit
        /\ probes[p].match <=> \E x \in 1 .. k : FirstEdit(items, x) /\ items[x].text = p
    BY <1>3, <1>4, <1>8, ProbeLooksAt
  <2>2. probes[p].routed <=> edits # {}
    BY <1>6, <2>1
  <2>3. probes[p].match => \E i \in DOMAIN s :
            /\ s[i].c.text = p
            /\ s[i].c.type = "belief"
            /\ {s[i].c.stem, s[i].c.target} \subseteq {"blank", "given"}
    <3> SUFFICES ASSUME probes[p].match
                 PROVE  \E i \in 1 .. m :
                            /\ s[i].c.text = p
                            /\ s[i].c.type = "belief"
                            /\ {s[i].c.stem, s[i].c.target} \subseteq {"blank", "given"}
      BY <1>3
    <3>1. PICK x \in 1 .. k : FirstEdit(items, x) /\ items[x].text = p
      BY <2>1
    <3>2. items[x].edit
      BY <3>1 DEF FirstEdit
    <3>3. /\ s[b[x]].c.type = "belief" /\ s[b[x]].c.text = p /\ b[x] \in 1 .. m
          /\ {s[b[x]].c.stem, s[b[x]].c.target} \subseteq {"blank", "given"}
      BY <1>4, <1>5, <3>1, <3>2
    <3> QED BY <3>3
  <2>4. ASSUME p \in edits, ~ probes[p].match
        PROVE  \E other \in edits : first(other) < first(p)
    <3>1. PICK x \in 1 .. k : items[x].edit /\ items[x].text = p
      BY <1>6, <2>4
    <3>2. PICK y \in 1 .. k : FirstEdit(items, y) /\ y <= x
      BY <1>3, <3>1, FirstEditExists
    <3>3. items[y].text # p
      BY <2>1, <2>4, <3>2
    <3>4. y < x
      BY <1>3, <3>1, <3>2, <3>3
    <3>5. first(items[y].text) < first(p)
      BY <1>3, <1>7, <3>1, <3>4
    <3>6. items[y].text \in edits
      BY <1>6, <3>2 DEF FirstEdit
    <3> QED BY <3>5, <3>6
  <2> QED BY <2>2, <2>3, <2>4
<1> QED BY <1>9, Zenon DEF ProbeSeesFirstEdit, s, items, edits, first, probes

LEMMA SomeCandidateIs ==
    SomeCandidate \subseteq RawCandidate
<1> DEFINE of(text, conf) == [text |-> text, type |-> "belief", stem |-> "given",
                              target |-> "given", rest |-> "missing", conf |-> conf]
           Confidences == (0 .. ConfMax) \union {NaN, NoConf}
           texts == Proposition \union {"blank", "malformed"}
           types == {"fact", "belief", "other", "unknown", "unhashable"}
<1>1. ConfMin \in Confidences /\ ConfMax \in Confidences /\ NaN \in Confidences
      /\ NoConf \in Confidences
  BY ConfAssumption
<1> HIDE DEF Confidences
<1>2. \A p \in texts, c \in Confidences : of(p, c) \in RawCandidate
  BY DEF RawCandidate, Optional, Confidences
<1>3. \A p \in texts, t \in types : [of(p, ConfMax) EXCEPT !.type = t] \in RawCandidate
  BY <1>1 DEF RawCandidate, Optional, Confidences
<1>4. \A p \in texts : [of(p, ConfMax) EXCEPT !.target = "missing"] \in RawCandidate
  BY <1>1 DEF RawCandidate, Optional, Confidences
<1> HIDE DEF of
<1>5. \A p \in Proposition : p \in texts
  OBVIOUS
<1>6. "blank" \in texts /\ "fact" \in types /\ "unhashable" \in types
  OBVIOUS
<1> HIDE DEF texts, types
<1> DEFINE A == {of(p, c) : p \in Proposition, c \in {ConfMin, ConfMax, NaN, NoConf}}
           B == {[of(p, ConfMax) EXCEPT !.type = t] :
                    p \in Proposition, t \in {"fact", "unhashable"}}
           C == {[of(p, ConfMax) EXCEPT !.target = "missing"] : p \in Proposition}
           D == {of("blank", ConfMax)}
<1>7. SomeCandidate = A \union B \union C \union D
  BY DEF SomeCandidate, of
<1>8. A \subseteq RawCandidate
  BY <1>1, <1>2, <1>5
<1>9. B \subseteq RawCandidate
  BY <1>3, <1>5, <1>6
<1>10. C \subseteq RawCandidate
  BY <1>4, <1>5
<1>11. D \subseteq RawCandidate
  BY <1>1, <1>2, <1>6
<1> QED BY <1>7, <1>8, <1>9, <1>10, <1>11

LEMMA ExtractCallIs ==
    ASSUME ExtractChat
    PROVE  IsChat(call'.answers)
<1>1. PICK answers \in SeqOf(SeqOf(SomeCandidate, 1), 3)
                           \union SeqOf(SeqOf(SomeCandidate, 2), 1) :
          call' = [op |-> "extract", answers |-> answers]
  BY Zenon DEF ExtractChat
<1>2. call'.answers = answers
  BY <1>1
<1>3. \A l \in Nat : SeqOf(SomeCandidate, l) \subseteq Seq(RawCandidate)
  BY SomeCandidateIs DEF SeqOf
<1>4. ASSUME NEW S, S \subseteq Seq(RawCandidate), NEW l \in Nat, NEW a \in SeqOf(S, l)
      PROVE  IsChat(a)
  <2>1. PICK n \in 0 .. l : a \in [1 .. n -> S]
    BY <1>4 DEF SeqOf
  <2>2. n \in Nat /\ a \in [1 .. n -> Seq(RawCandidate)]
    BY <1>4, <2>1
  <2> QED BY <2>2 DEF IsChat
<1>5. SeqOf(SomeCandidate, 1) \subseteq Seq(RawCandidate)
      /\ SeqOf(SomeCandidate, 2) \subseteq Seq(RawCandidate)
  BY <1>3
<1> QED BY <1>1, <1>2, <1>4, <1>5

LEMMA CandidateCallIs ==
    ASSUME CheckCandidate
    PROVE  call'.cand \in RawCandidate
<1>1. PICK c \in RawCandidate : call' = [op |-> "candidate", cand |-> c]
  BY DEF CheckCandidate
<1> QED BY <1>1

LEMMA ExtractedHolds == Spec => []Extracted
<1>1. Init => Extracted
  BY DEF Init, Extracted
<1>2. Extracted /\ [Next]_call => Extracted'
  <2>1. CASE UNCHANGED call
    BY <2>1 DEF Extracted
  <2>2. CASE Next
    BY <2>2, CallOf, CandidateCallIs, ExtractCallIs DEF Extracted
  <2> QED BY <2>1, <2>2
<1> QED BY <1>1, <1>2, PTL DEF Spec

\* ExtractionSound: _valid_candidate keeps what it can use; when every type is a string,
\* extract makes one item of each text, in the order of first mention, and of numeric
\* confidences it takes the first that is highest; extractor_probe judges by the first
\* edit.  The lemmas say it of any number of windows and mentions.
THEOREM ExtractionSoundHolds == Spec => []ExtractionSound
<1>1. Extracted => ExtractionSound
  <2>1. Extracted => PermissiveGate
    BY GateIsPermissive DEF Extracted
  <2>2. Extracted => OneItemPerText
    BY OneItemPerTextOf
  <2>3. Extracted => ProbeSeesFirstEdit
    BY ProbeSeesFirstEditOf
  <2> QED BY <2>1, <2>2, <2>3 DEF ExtractionSound
<1> QED BY <1>1, ExtractedHolds, PTL

----
\* Dedup

NearOf(sims) == {i \in DOMAIN sims : sims[i] >= Thresh}

\* g lists what is near, the nearest first and the first of equally near ones, and
\* the shortlist is its beginning.
Nears(sims, m, g) ==
    /\ m = Cardinality(NearOf(sims)) /\ m \in Nat
    /\ \A r \in 1 .. m : g[r] \in NearOf(sims)
    /\ \A i \in NearOf(sims) : \E r \in 1 .. m : g[r] = i
    /\ \A q, r \in 1 .. m : q < r =>
          sims[g[q]] > sims[g[r]] \/ (sims[g[q]] = sims[g[r]] /\ g[q] < g[r])
    /\ DOMAIN Shortlist(sims) = 1 .. MinOf(m, TopM)
    /\ Len(Shortlist(sims)) = MinOf(m, TopM)
    /\ Shortlist(sims) = << >> <=> m = 0
    /\ \A r \in 1 .. MinOf(m, TopM) : Shortlist(sims)[r].pos = g[r]

LEMMA ShortlistIs ==
    ASSUME NEW n \in Nat, NEW sims \in [1 .. n -> Nat]
    PROVE  \E m, g : Nears(sims, m, g)
<1> DEFINE near   == NearOf(sims)
           scored == [i \in DOMAIN sims |-> [score |-> sims[i], pos |-> i]]
           sorted == BestFirst(Picked(scored, near))
<1>1. /\ near \subseteq 1 .. n /\ near \subseteq Int /\ IsFiniteSet(near)
      /\ \A i \in near : sims[i] \in Nat
  <2>1. near \subseteq 1 .. n /\ near \subseteq Int /\ \A i \in near : sims[i] \in Nat
    BY DEF NearOf
  <2>2. IsFiniteSet(1 .. n)
    BY FS_Interval
  <2> QED BY <2>1, <2>2, FS_Subset
<1>2. Shortlist(sims) = Take(sorted, TopM)
  BY DEF Shortlist, NearOf
<1>3. \A i \in near : scored[i].score = sims[i] /\ scored[i].pos = i
  BY DEF NearOf
<1> HIDE DEF near, scored
<1>4. ASSUME NEW i \in near PROVE scored[i].score \in Int
  <2>1. scored[i].score = sims[i] /\ sims[i] \in Nat
    BY <1>1, <1>3
  <2> QED BY <2>1
<1>5. PICK m, g : ByScore(scored, near, m, g)
  BY <1>1, <1>4, SortedPicks
<1>6. /\ m = Cardinality(near) /\ m \in Nat
      /\ \A r \in 1 .. m : g[r] \in near
      /\ \A i \in near : \E r \in 1 .. m : g[r] = i
      /\ \A q, r \in 1 .. m : q < r =>
            scored[g[q]].score > scored[g[r]].score
            \/ (scored[g[q]].score = scored[g[r]].score /\ g[q] < g[r])
      /\ sorted = Through(scored, g, m)
  BY <1>5 DEF ByScore
<1>7. ASSUME NEW q \in 1 .. m, NEW r \in 1 .. m, q < r
      PROVE  sims[g[q]] > sims[g[r]] \/ (sims[g[q]] = sims[g[r]] /\ g[q] < g[r])
  <2>1. scored[g[q]].score = sims[g[q]] /\ scored[g[r]].score = sims[g[r]]
    BY <1>3, <1>6
  <2>2. scored[g[q]].score > scored[g[r]].score
        \/ (scored[g[q]].score = scored[g[r]].score /\ g[q] < g[r])
    BY <1>6, <1>7
  <2> QED BY <2>1, <2>2, Zenon
<1> HIDE DEF sorted
<1> DEFINE k == MinOf(m, TopM)
           S == {scored[i] : i \in near}
<1>8. sorted \in [1 .. m -> S] /\ \A r \in 1 .. m : sorted[r] = scored[g[r]]
  BY <1>6 DEF Through
<1>9. k \in Nat /\ k <= m /\ (k = 0 <=> m = 0) /\ TopM \in Nat
  BY <1>6, TopMAssumption DEF MinOf
<1> HIDE DEF S
<1>10. Begins(Take(sorted, TopM), sorted, k, S)
  <2>1. m \in Nat /\ TopM \in Nat
    BY <1>6, <1>9
  <2>2. sorted \in [1 .. m -> S]
    BY <1>8
  <2> QED BY <2>1, <2>2, TakeIs
<1> HIDE DEF k
<1>11. /\ Shortlist(sims) \in [1 .. k -> S]
       /\ \A r \in 1 .. k : Shortlist(sims)[r] = sorted[r]
  BY <1>2, <1>10, Zenon DEF Begins
<1>12. ASSUME NEW r \in 1 .. k
       PROVE  Shortlist(sims)[r].pos = g[r]
  <2>1. r \in 1 .. m
    BY <1>6, <1>9
  <2>2. Shortlist(sims)[r] = sorted[r]
    BY <1>11
  <2>3. sorted[r] = scored[g[r]] /\ g[r] \in near
    BY <1>6, <1>8, <2>1
  <2>4. scored[g[r]].pos = g[r]
    BY <1>3, <2>3, Zenon
  <2> QED BY <2>2, <2>3, <2>4, Zenon
<1>13. Len(Shortlist(sims)) = k /\ (Shortlist(sims) = << >> <=> k = 0)
  <2>1. \A t \in [1 .. k -> S] : Len(t) = k /\ (t = << >> <=> k = 0)
    BY <1>9
  <2> QED BY <1>11, <2>1
<1>14. /\ DOMAIN Shortlist(sims) = 1 .. MinOf(m, TopM)
       /\ Len(Shortlist(sims)) = MinOf(m, TopM)
       /\ Shortlist(sims) = << >> <=> m = 0
       /\ \A r \in 1 .. MinOf(m, TopM) : Shortlist(sims)[r].pos = g[r]
  BY <1>9, <1>11, <1>12, <1>13 DEF k
<1>15. Nears(sims, m, g)
  BY <1>6, <1>7, <1>14 DEF Nears, near
<1> QED BY <1>15

LEMMA ValidIs ==
    ASSUME NEW N \in Nat, NEW indices, DOMAIN indices = 1 .. N, NEW n \in Nat
    PROVE  IsOnceOf(Valid(indices, n), indices, 1 .. n)
BY OnceInIs DEF Valid

\* What is out of range is skipped: without it the same is kept, in the same order.
LEMMA ValidOfClean ==
    ASSUME NEW N \in Nat, NEW indices, DOMAIN indices = 1 .. N, NEW n \in Nat
    PROVE  Valid(Picked(indices, {i \in DOMAIN indices : indices[i] \in 1 .. n}), n)
               = Valid(indices, n)
<1> DEFINE Q == {i \in DOMAIN indices : indices[i] \in 1 .. n}
           P == Firsts(indices, 1 .. n)
           c == Picked(indices, Q)
           m == Cardinality(Q)
           e == ByRank(Q, Earlier)
           F == Firsts(c, 1 .. n)
           k == Cardinality(F)
           h == ByRank(F, Earlier)
           d == [r \in 1 .. k |-> e[h[r]]]
<1>1. IsFiniteSet(Q) /\ Q \subseteq Int /\ m \in Nat
  <2>1. Q \in SUBSET (1 .. N) /\ 1 .. N \subseteq Int
    OBVIOUS
  <2>2. IsFiniteSet(1 .. N)
    BY FS_Interval
  <2> HIDE DEF Q
  <2> QED BY <2>1, <2>2, FS_Subset, FS_CardinalityType
<1>2. IsFiniteSet(P) /\ P \subseteq Int
  BY FirstsFinite
<1>3. \A i : i \in P <=> i \in Q /\ \A j \in Q : j < i => indices[j] # indices[i]
  <2>1. \A i \in P : i \in Q /\ \A j \in Q : j < i => indices[j] # indices[i]
    BY DEF Firsts
  <2>2. ASSUME NEW i \in Q, \A j \in Q : j < i => indices[j] # indices[i]
        PROVE  i \in P
    <3>1. i \in 1 .. N /\ indices[i] \in 1 .. n
      OBVIOUS
    <3>2. ASSUME NEW j \in 1 .. i - 1, indices[j] = indices[i]
          PROVE  FALSE
      <4>1. j \in Q /\ j < i
        BY <3>1, <3>2
      <4> QED BY <2>2, <3>2, <4>1
    <3> QED BY <3>1, <3>2 DEF Firsts
  <2> QED BY <2>1, <2>2
<1>4. \A i \in Q : indices[i] \in 1 .. n
  OBVIOUS
<1>5. /\ Valid(indices, n) = Picked(indices, P)
      /\ Valid(c, n) = Picked(c, F)
  BY DEF Valid, OnceIn, Firsts
<1> HIDE DEF Q, P
<1>6. Lists(e, Q, Earlier)
  BY <1>1, EarlierOrders, ByRankLists
<1>7. c = Through(indices, e, m)
  BY <1>1, PickedIs
<1>8. /\ \A r \in 1 .. m : e[r] \in Q /\ e[r] \in Int
      /\ \A i \in Q : \E r \in 1 .. m : e[r] = i
      /\ \A q, r \in 1 .. m : q < r => e[q] < e[r]
  BY <1>1, <1>6 DEF Lists, Earlier
<1> HIDE DEF e, m, c
<1>9. DOMAIN c = 1 .. m /\ \A r \in 1 .. m : c[r] = indices[e[r]] /\ c[r] \in 1 .. n
  BY <1>4, <1>7, <1>8, ThroughIs
<1>10. \A q, r \in 1 .. m : e[q] < e[r] => q < r
  <2> SUFFICES ASSUME NEW q \in 1 .. m, NEW r \in 1 .. m, e[q] < e[r] PROVE q < r
    OBVIOUS
  <2>1. e[q] \in Int /\ e[r] \in Int /\ q # r /\ ~ (e[r] < e[q])
    BY <1>8
  <2>2. ~ (r < q)
    BY <1>8, <2>1
  <2> QED BY <1>1, <2>1, <2>2
<1>11. ASSUME NEW r \in 1 .. m
       PROVE  r \in F <=> e[r] \in P
  <2>1. r \in F <=> \A j \in 1 .. r - 1 : c[j] # c[r]
    BY <1>9 DEF Firsts
  <2>2. \A j \in 1 .. r - 1 : j \in 1 .. m /\ j < r
    BY <1>1
  <2>3. ASSUME \A j \in 1 .. r - 1 : c[j] # c[r]
        PROVE  e[r] \in P
    <3>1. ASSUME NEW i \in Q, i < e[r]
          PROVE  indices[i] # indices[e[r]]
      <4>1. PICK j \in 1 .. m : e[j] = i
        BY <1>8
      <4>2. j < r
        BY <1>10, <3>1, <4>1
      <4>3. j \in 1 .. r - 1
        BY <1>1, <4>2
      <4> QED BY <1>9, <2>3, <4>1, <4>3
    <3> QED BY <1>3, <1>8, <3>1
  <2>4. ASSUME e[r] \in P, NEW j \in 1 .. r - 1
        PROVE  c[j] # c[r]
    <3>1. j \in 1 .. m /\ e[j] < e[r] /\ e[j] \in Q
      BY <1>8, <2>2
    <3> QED BY <1>3, <1>9, <2>4, <3>1
  <2> QED BY <2>1, <2>3, <2>4
<1>12. /\ IsFiniteSet(F) /\ F \subseteq Int /\ k \in Nat
  BY <1>1, <1>9, FirstsFinite
<1>13. F \subseteq 1 .. m
  BY <1>9 DEF Firsts
<1> HIDE DEF F
<1>14. Lists(h, F, Earlier)
  BY <1>12, EarlierOrders, ByRankLists
<1>15. Picked(c, F) = Through(c, h, k)
  BY <1>12, PickedIs
<1>16. /\ \A r \in 1 .. k : h[r] \in F /\ h[r] \in 1 .. m
       /\ \A i \in F : \E r \in 1 .. k : h[r] = i
       /\ \A q, r \in 1 .. k : q < r => h[q] < h[r]
  BY <1>13, <1>14 DEF Lists, Earlier
<1> HIDE DEF h, k
<1>17. d = [r \in 1 .. k |-> d[r]] /\ \A r \in 1 .. k : d[r] = e[h[r]]
  OBVIOUS
<1> HIDE DEF d
<1>18. \A r \in 1 .. k : d[r] \in P
  BY <1>11, <1>16, <1>17
<1>19. ASSUME NEW i \in P
       PROVE  \E r \in 1 .. k : d[r] = i
  <2>1. PICK j \in 1 .. m : e[j] = i
    BY <1>3, <1>8
  <2>2. j \in F
    BY <1>11, <2>1
  <2>3. PICK r \in 1 .. k : h[r] = j
    BY <1>16, <2>2
  <2> QED BY <1>17, <2>1, <2>3
<1>20. \A q, r \in 1 .. k : q < r => d[q] < d[r]
  BY <1>8, <1>16, <1>17
<1>21. Picked(indices, P) = Through(indices, d, k)
  BY <1>2, <1>12, <1>17, <1>18, <1>19, <1>20, PickedAs
<1>22. Through(c, h, k) = Through(indices, d, k)
  <2>1. \A r \in 1 .. k : c[h[r]] = indices[d[r]]
    BY <1>9, <1>16, <1>17
  <2> QED BY <2>1 DEF Through
<1>23. Valid(c, n) = Valid(indices, n)
  BY <1>5, <1>15, <1>21, <1>22
<1> QED BY <1>23 DEF c, Q

LEMMA ValidSome ==
    ASSUME NEW N \in Nat, NEW indices, DOMAIN indices = 1 .. N, NEW n \in Nat
    PROVE  Valid(indices, n) # << >> <=> \E x \in ToSet(indices) : x \in 1 .. n
<1> DEFINE v == Valid(indices, n)
<1>0. IsOnceOf(v, indices, 1 .. n)
  BY ValidIs
<1> HIDE DEF v
<1>1. PICK k \in Nat : v \in [1 .. k -> 1 .. n]
  BY <1>0 DEF IsOnceOf
<1>2. ToSet(v) = ToSet(indices) \intersect (1 .. n)
  BY <1>0 DEF IsOnceOf
<1>3. v # << >> <=> k # 0
  BY <1>1
<1>4. \A x : x \in ToSet(v) <=> \E r \in 1 .. k : v[r] = x
  BY <1>1 DEF ToSet
<1>5. k # 0 <=> \E x : x \in ToSet(v)
  <2>1. k # 0 => 1 \in 1 .. k
    OBVIOUS
  <2>2. k = 0 => 1 .. k = {}
    OBVIOUS
  <2> QED BY <1>4, <2>1, <2>2
<1> QED BY <1>2, <1>3, <1>5 DEF v

Nearer(sims, x) == {j \in NearOf(sims) : sims[j] > sims[x]}

\* The memories that are nearer than the one at position r are at lower positions.
LEMMA FewerNearer ==
    ASSUME NEW n \in Nat, NEW sims \in [1 .. n -> Nat], NEW m, NEW g, Nears(sims, m, g),
           NEW r \in 1 .. MinOf(m, TopM)
    PROVE  Cardinality(Nearer(sims, g[r])) < TopM
<1> DEFINE B == Nearer(sims, g[r])
           f == [j \in B |-> CHOOSE q \in 1 .. m : g[q] = j]
<1>1. m \in Nat /\ r \in 1 .. m /\ r <= TopM /\ TopM \in Nat
  BY TopMAssumption DEF Nears, MinOf
<1>2. \A j \in B : f[j] \in 1 .. m /\ g[f[j]] = j
  BY DEF Nears, Nearer
<1>3. \A i \in NearOf(sims) : i \in 1 .. n /\ sims[i] \in Nat
  BY DEF NearOf
<1>4. ASSUME NEW j \in B
      PROVE  f[j] \in 1 .. r - 1
  <2> DEFINE q == f[j]
  <2>1. q \in 1 .. m /\ g[q] = j /\ j \in NearOf(sims) /\ sims[j] > sims[g[r]]
    BY <1>2 DEF Nearer
  <2> HIDE DEF q, f
  <2>2. sims[j] \in Nat /\ sims[g[r]] \in Nat
    BY <1>1, <1>3, <2>1 DEF Nears
  <2>3. r < q => sims[g[r]] >= sims[g[q]]
    <3>1. r < q => sims[g[r]] > sims[g[q]] \/ sims[g[r]] = sims[g[q]]
      BY <1>1, <2>1, Zenon DEF Nears
    <3>2. g[q] = j
      BY <2>1
    <3> QED BY <2>2, <3>1, <3>2
  <2>4. q # r /\ ~ (r < q)
    BY <1>1, <2>1, <2>2, <2>3
  <2>5. q \in 1 .. r - 1
    BY <1>1, <2>1, <2>4
  <2> QED BY <2>5 DEF q
<1>5. f \in [B -> 1 .. r - 1] /\ DOMAIN f = B
  BY <1>4
<1>6. f \in Injection(B, 1 .. r - 1)
  <2> HIDE DEF f, B
  <2>1. IsInjective(f)
    BY <1>2, <1>5 DEF IsInjective
  <2> QED BY <1>5, <2>1 DEF Injection
<1>7. IsFiniteSet(1 .. r - 1) /\ Cardinality(1 .. r - 1) = r - 1
  BY <1>1, FS_Interval
<1> HIDE DEF B, f
<1>8. IsFiniteSet(B) /\ Cardinality(B) <= r - 1
  BY <1>6, <1>7, FS_Injection
<1>9. Cardinality(B) \in Nat
  BY <1>8, FS_CardinalityType
<1>10. Cardinality(B) < TopM
  BY <1>1, <1>8, <1>9
<1> QED BY <1>10 DEF B

\* The memory that the thresholds judge is the first of the shortlist.
LEMMA NearestIs ==
    ASSUME NEW n \in Nat, NEW sims \in [1 .. n -> Nat], NEW m, NEW g, Nears(sims, m, g),
           m # 0
    PROVE  1 \in 1 .. MinOf(m, TopM) /\ Nearest(sims) = g[1] /\ g[1] \in NearOf(sims)
<1>1. m \in Nat /\ 1 \in 1 .. m /\ 1 \in 1 .. MinOf(m, TopM)
  BY TopMAssumption DEF Nears, MinOf
<1>2. g[1] \in NearOf(sims)
  BY <1>1 DEF Nears
<1>3. g[1] \in 1 .. n /\ sims[g[1]] >= Thresh /\ sims[g[1]] \in Nat
  BY <1>2 DEF NearOf
<1>4. ASSUME NEW j \in 1 .. n
      PROVE  sims[j] < sims[g[1]] \/ (sims[j] = sims[g[1]] /\ g[1] <= j)
  <2>1. CASE j \notin NearOf(sims)
    <3>1. ~ (sims[j] >= Thresh)
      BY <2>1 DEF NearOf
    <3> QED BY <1>3, <3>1, ThreshAssumption
  <2>2. CASE j \in NearOf(sims)
    <3>1. PICK r \in 1 .. m : g[r] = j
      BY <2>2 DEF Nears
    <3>2. CASE r = 1
      BY <1>3, <3>1, <3>2
    <3>3. CASE r # 1
      <4>1. 1 < r
        BY <1>1, <3>3
      <4>2. sims[g[1]] > sims[g[r]] \/ (sims[g[1]] = sims[g[r]] /\ g[1] < g[r])
        BY <1>1, <4>1 DEF Nears
      <4> QED BY <1>3, <3>1, <4>2
    <3> QED BY <3>2, <3>3
  <2> QED BY <2>1, <2>2
<1>5. ASSUME NEW i \in 1 .. n,
             \A j \in 1 .. n : sims[j] < sims[i] \/ (sims[j] = sims[i] /\ i <= j)
      PROVE  i = g[1]
  <2>1. sims[g[1]] < sims[i] \/ (sims[g[1]] = sims[i] /\ i <= g[1])
    BY <1>3, <1>5
  <2>2. sims[i] < sims[g[1]] \/ (sims[i] = sims[g[1]] /\ g[1] <= i)
    BY <1>4
  <2> QED BY <1>3, <2>1, <2>2
<1>6. DOMAIN sims = 1 .. n
  OBVIOUS
<1>7. Nearest(sims) = g[1]
  BY <1>3, <1>4, <1>5, <1>6 DEF Nearest
<1> QED BY <1>1, <1>2, <1>7

\* What classify decides, in terms of the memories that are near.
Decides(sims, judge, m, g, dups, sups) ==
    Classify(sims, judge) =
        IF m = 0 THEN Decision("new", << >>)
        ELSE IF judge.fails
             THEN Decision(IF sims[g[1]] >= DupThresh THEN "duplicate" ELSE "supersede", <<g[1]>>)
        ELSE IF dups # << >> THEN Decision("duplicate", <<g[dups[1]]>>)
        ELSE IF sups # << >> THEN Decision("supersede", [i \in DOMAIN sups |-> g[sups[i]]])
        ELSE Decision("new", << >>)

\* The judge lists numbers, or it fails.
IsJudge(judge) ==
    /\ judge.fails \in BOOLEAN
    /\ \E N \in Nat : DOMAIN judge.duplicates = 1 .. N
    /\ \E N \in Nat : DOMAIN judge.supersedes = 1 .. N

LEMMA ClassifyIs ==
    ASSUME NEW n \in Nat, NEW sims \in [1 .. n -> Nat], NEW m, NEW g, Nears(sims, m, g),
           NEW judge, IsJudge(judge)
    PROVE  Decides(sims, judge, m, g, Valid(judge.duplicates, MinOf(m, TopM)),
                                      Valid(judge.supersedes, MinOf(m, TopM)))
<1> DEFINE list == Shortlist(sims)
           l    == MinOf(m, TopM)
           dups == Valid(judge.duplicates, l)
           sups == Valid(judge.supersedes, l)
<1>1. m \in Nat /\ l \in Nat
  BY TopMAssumption DEF Nears, MinOf
<1>2. /\ Len(list) = l
      /\ list = << >> <=> m = 0
      /\ \A r \in 1 .. l : list[r].pos = g[r]
  BY DEF Nears
<1>3. IsOnceOf(dups, judge.duplicates, 1 .. l) /\ IsOnceOf(sups, judge.supersedes, 1 .. l)
  BY <1>1, ValidIs DEF IsJudge
<1>4. Classify(sims, judge) =
          IF list = << >> THEN Decision("new", << >>)
          ELSE IF judge.fails THEN Fallback(sims)
          ELSE IF dups # << >> THEN Decision("duplicate", <<list[dups[1]].pos>>)
          ELSE IF sups # << >>
               THEN Decision("supersede", [i \in DOMAIN sups |-> list[sups[i]].pos])
          ELSE Decision("new", << >>)
  BY <1>2 DEF Classify
<1> HIDE DEF l, list, dups, sups
<1>5. dups # << >> => list[dups[1]].pos = g[dups[1]]
  <2>1. PICK k \in Nat : dups \in [1 .. k -> 1 .. l]
    BY <1>3 DEF IsOnceOf
  <2>2. dups # << >> => 1 \in 1 .. k
    BY <2>1
  <2> QED BY <1>2, <2>1, <2>2
<1>6. [i \in DOMAIN sups |-> list[sups[i]].pos] = [i \in DOMAIN sups |-> g[sups[i]]]
  <2>1. PICK k \in Nat : sups \in [1 .. k -> 1 .. l]
    BY <1>3 DEF IsOnceOf
  <2>2. \A i \in DOMAIN sups : list[sups[i]].pos = g[sups[i]]
    BY <1>2, <2>1
  <2> QED BY <2>2
<1>7. m # 0 => Fallback(sims) =
          Decision(IF sims[g[1]] >= DupThresh THEN "duplicate" ELSE "supersede", <<g[1]>>)
  <2> SUFFICES ASSUME m # 0
               PROVE  Fallback(sims) =
          Decision(IF sims[g[1]] >= DupThresh THEN "duplicate" ELSE "supersede", <<g[1]>>)
    OBVIOUS
  <2>1. Nearest(sims) = g[1] /\ g[1] \in NearOf(sims)
    BY NearestIs
  <2>2. sims[g[1]] \in Nat /\ sims[g[1]] >= Thresh
    BY <2>1 DEF NearOf
  <2>3. ~ (sims[g[1]] < Thresh)
    BY <2>2, ThreshAssumption
  <2> QED BY <2>1, <2>3 DEF Fallback
<1>8. Decides(sims, judge, m, g, dups, sups)
  BY <1>2, <1>4, <1>5, <1>6, <1>7 DEF Decides
<1> QED BY <1>8 DEF dups, sups, l

\* A verdict is about near memories, each among the nearest.
OnNear(sims, d) ==
    LET near == {i \in DOMAIN sims : sims[i] >= Thresh}
    IN  /\ ToSet(d.targets) \subseteq near
        /\ IsInjective(d.targets)
        /\ \A i \in ToSet(d.targets) : Cardinality({j \in near : sims[j] > sims[i]}) < TopM
        /\ d.verdict = "new" <=> d.targets = << >>
        /\ d.verdict = "duplicate" => Len(d.targets) = 1

\* Positions of the shortlist, once each.
Picks(v, k, m) ==
    /\ v \in [1 .. k -> 1 .. MinOf(m, TopM)]
    /\ \A q, r \in 1 .. k : v[q] = v[r] => q = r

LEMMA SomeOnNear ==
    ASSUME NEW n \in Nat, NEW sims \in [1 .. n -> Nat], NEW m, NEW g, Nears(sims, m, g),
           NEW k \in Nat, NEW v, Picks(v, k, m),
           NEW verdict, verdict = "new" <=> k = 0, verdict = "duplicate" => k = 1
    PROVE  OnNear(sims, Decision(verdict, Through(g, v, k)))
<1> DEFINE l == MinOf(m, TopM)
           t == Through(g, v, k)
<1>0. /\ v \in [1 .. k -> 1 .. l]
      /\ \A q, r \in 1 .. k : v[q] = v[r] => q = r
      /\ t = [r \in 1 .. k |-> g[v[r]]]
  BY DEF Picks, Through
<1> HIDE DEF t
<1>1. m \in Nat /\ 1 .. l \subseteq 1 .. m
  BY TopMAssumption DEF Nears, MinOf
<1>2. \A r \in 1 .. k : v[r] \in 1 .. l /\ t[r] = g[v[r]] /\ t[r] \in NearOf(sims)
  BY <1>0, <1>1 DEF Nears
<1>3. \A x \in ToSet(t) : \E r \in 1 .. l : x = g[r] /\ x \in NearOf(sims)
  BY <1>0, <1>2 DEF ToSet
<1>4. \A x \in ToSet(t) : Cardinality(Nearer(sims, x)) < TopM
  <2> SUFFICES ASSUME NEW x \in ToSet(t)
               PROVE  Cardinality(Nearer(sims, x)) < TopM
    OBVIOUS
  <2>1. PICK r \in 1 .. l : x = g[r]
    BY <1>3
  <2>2. Cardinality(Nearer(sims, g[r])) < TopM
    BY FewerNearer
  <2> QED BY <2>1, <2>2
<1>5. \A q, r \in 1 .. m : g[q] = g[r] => q = r
  <2> SUFFICES ASSUME NEW q \in 1 .. m, NEW r \in 1 .. m, g[q] = g[r], q < r PROVE FALSE
    BY <1>1
  <2>1. g[r] \in NearOf(sims)
    BY DEF Nears
  <2>2. g[r] \in 1 .. n /\ sims[g[r]] \in Nat
    BY <2>1 DEF NearOf
  <2>3. sims[g[q]] > sims[g[r]] \/ (sims[g[q]] = sims[g[r]] /\ g[q] < g[r])
    BY DEF Nears
  <2> QED BY <2>2, <2>3
<1>6. ASSUME NEW q \in 1 .. k, NEW r \in 1 .. k, t[q] = t[r]
      PROVE  q = r
  <2>1. v[q] \in 1 .. m /\ v[r] \in 1 .. m
    BY <1>0, <1>1
  <2>2. v[q] = v[r]
    BY <1>2, <1>5, <1>6, <2>1
  <2> QED BY <1>0, <2>2
<1>7. IsInjective(t)
  <2>1. DOMAIN t = 1 .. k
    BY <1>0
  <2> QED BY <1>6, <2>1 DEF IsInjective
<1>8. t = << >> <=> k = 0
  <2>1. t \in [1 .. k -> NearOf(sims)]
    BY <1>0, <1>2
  <2> QED BY <2>1
<1>9. k = 1 => Len(t) = 1
  <2>1. t \in Seq(NearOf(sims)) /\ DOMAIN t = 1 .. k
    BY <1>0, <1>2
  <2> QED BY <2>1
<1>10. Decision(verdict, t).targets = t /\ Decision(verdict, t).verdict = verdict
  BY DEF Decision
<1>11. /\ NearOf(sims) = {i \in DOMAIN sims : sims[i] >= Thresh}
       /\ \A x : Nearer(sims, x) = {j \in NearOf(sims) : sims[j] > sims[x]}
  BY DEF NearOf, Nearer
<1>12. ToSet(t) \subseteq NearOf(sims)
  BY <1>3
<1> HIDE DEF l
<1>13. OnNear(sims, Decision(verdict, t))
  BY <1>4, <1>7, <1>8, <1>9, <1>10, <1>11, <1>12, Zenon DEF OnNear
<1> QED BY <1>13 DEF t

LEMMA ClassifyOnNear ==
    ASSUME NEW n \in Nat, NEW sims \in [1 .. n -> Nat], NEW judge, IsJudge(judge)
    PROVE  OnNear(sims, Classify(sims, judge))
<1>1. PICK m, g : Nears(sims, m, g)
  BY ShortlistIs
<1> DEFINE l    == MinOf(m, TopM)
           dups == Valid(judge.duplicates, l)
           sups == Valid(judge.supersedes, l)
           d    == Classify(sims, judge)
<1>2. m \in Nat /\ l \in Nat
  BY <1>1, TopMAssumption DEF Nears, MinOf
<1>3. IsOnceOf(dups, judge.duplicates, 1 .. l) /\ IsOnceOf(sups, judge.supersedes, 1 .. l)
  BY <1>2, ValidIs DEF IsJudge
<1>4. Decides(sims, judge, m, g, dups, sups)
  BY <1>1, ClassifyIs
<1> HIDE DEF dups, sups, d
<1>5. d = Decision("new", << >>) => OnNear(sims, d)
  <2>1. Picks(<< >>, 0, m) /\ Through(g, << >>, 0) = << >>
    BY DEF Picks, Through
  <2>2. OnNear(sims, Decision("new", Through(g, << >>, 0)))
    BY <1>1, <2>1, SomeOnNear
  <2> QED BY <2>1, <2>2
<1>6. ASSUME NEW verdict, verdict # "new", NEW r \in 1 .. l, d = Decision(verdict, <<g[r]>>)
      PROVE  OnNear(sims, d)
  <2>1. Picks(<<r>>, 1, m)
    BY DEF Picks
  <2>2. Through(g, <<r>>, 1) = <<g[r]>>
    BY DEF Through
  <2>3. OnNear(sims, Decision(verdict, Through(g, <<r>>, 1)))
    BY <1>1, <1>6, <2>1, SomeOnNear
  <2> QED BY <1>6, <2>2, <2>3
<1>7. ASSUME NEW v, NEW s, IsOnceOf(v, s, 1 .. l), v # << >>
      PROVE  v[1] \in 1 .. l
  <2>1. PICK k \in Nat : v \in [1 .. k -> 1 .. l]
    BY <1>7 DEF IsOnceOf
  <2>2. 1 \in 1 .. k
    BY <1>7, <2>1
  <2> QED BY <2>1, <2>2
<1>8. ASSUME sups # << >>, d = Decision("supersede", [i \in DOMAIN sups |-> g[sups[i]]])
      PROVE  OnNear(sims, d)
  <2>1. PICK k \in Nat : sups \in [1 .. k -> 1 .. l]
    BY <1>3 DEF IsOnceOf
  <2>2. Picks(sups, k, m)
    BY <1>3, <2>1 DEF IsOnceOf, Picks
  <2>3. k # 0 /\ DOMAIN sups = 1 .. k
    BY <1>8, <2>1
  <2>4. OnNear(sims, Decision("supersede", Through(g, sups, k)))
    BY <1>1, <2>1, <2>2, <2>3, SomeOnNear
  <2>5. Through(g, sups, k) = [i \in DOMAIN sups |-> g[sups[i]]]
    BY <2>3 DEF Through
  <2> QED BY <1>8, <2>4, <2>5
<1>9. m # 0 => 1 \in 1 .. l
  BY <1>1, NearestIs
<1> HIDE DEF l
<1>10. OnNear(sims, d)
  <2>1. CASE m = 0
    BY <1>4, <1>5, <2>1 DEF Decides, d
  <2>2. CASE m # 0 /\ judge.fails
    <3> DEFINE verdict == IF sims[g[1]] >= DupThresh THEN "duplicate" ELSE "supersede"
    <3>1. d = Decision(verdict, <<g[1]>>)
      BY <1>4, <2>2 DEF Decides, d
    <3>2. verdict # "new"
      OBVIOUS
    <3> QED BY <1>6, <1>9, <2>2, <3>1, <3>2
  <2>3. CASE m # 0 /\ ~ judge.fails /\ dups # << >>
    <3>1. d = Decision("duplicate", <<g[dups[1]]>>) /\ dups[1] \in 1 .. l
      BY <1>3, <1>4, <1>7, <2>3 DEF Decides, d
    <3> QED BY <1>6, <3>1
  <2>4. CASE m # 0 /\ ~ judge.fails /\ dups = << >> /\ sups # << >>
    <3>1. d = Decision("supersede", [i \in DOMAIN sups |-> g[sups[i]]])
      BY <1>4, <2>4 DEF Decides, d
    <3> QED BY <1>8, <2>4, <3>1
  <2>5. CASE m # 0 /\ ~ judge.fails /\ dups = << >> /\ sups = << >>
    BY <1>4, <1>5, <2>5 DEF Decides, d
  <2> QED BY <2>1, <2>2, <2>3, <2>4, <2>5
<1> QED BY <1>10 DEF d

Clean(indices, listed) == Picked(indices, {i \in DOMAIN indices : indices[i] \in listed})

\* What is no position of the shortlist can be left out of the answer.
LEMMA ClassifyOfClean ==
    ASSUME NEW n \in Nat, NEW sims \in [1 .. n -> Nat],
           NEW duplicates, NEW M \in Nat, DOMAIN duplicates = 1 .. M,
           NEW supersedes, NEW N \in Nat, DOMAIN supersedes = 1 .. N,
           NEW listed, listed = 1 .. Len(Shortlist(sims))
    PROVE  Classify(sims, Judge(duplicates, supersedes)) =
               Classify(sims, Judge(Clean(duplicates, listed), Clean(supersedes, listed)))
<1> DEFINE a == Judge(duplicates, supersedes)
           p == Clean(duplicates, listed)
           q == Clean(supersedes, listed)
           b == Judge(p, q)
           l == Len(Shortlist(sims))
<1>1. l \in Nat
  <2>1. PICK m, g : Nears(sims, m, g)
    BY ShortlistIs
  <2> QED BY <2>1, TopMAssumption DEF Nears, MinOf
<1>2. Valid(p, l) = Valid(duplicates, l) /\ Valid(q, l) = Valid(supersedes, l)
  <2>1. listed = 1 .. l
    OBVIOUS
  <2>2. p = Picked(duplicates, {i \in DOMAIN duplicates : duplicates[i] \in 1 .. l})
    BY <2>1 DEF Clean
  <2>3. q = Picked(supersedes, {i \in DOMAIN supersedes : supersedes[i] \in 1 .. l})
    BY <2>1 DEF Clean
  <2> HIDE DEF l, p, q
  <2>4. Valid(Picked(duplicates, {i \in DOMAIN duplicates : duplicates[i] \in 1 .. l}), l)
            = Valid(duplicates, l)
    BY <1>1, ValidOfClean
  <2>5. Valid(Picked(supersedes, {i \in DOMAIN supersedes : supersedes[i] \in 1 .. l}), l)
            = Valid(supersedes, l)
    BY <1>1, ValidOfClean
  <2> QED BY <2>2, <2>3, <2>4, <2>5
<1> HIDE DEF p, q
<1>3. /\ a.fails = b.fails
      /\ a.duplicates = duplicates /\ b.duplicates = p
      /\ a.supersedes = supersedes /\ b.supersedes = q
  BY DEF Judge
<1> HIDE DEF a, b
<1>4. Classify(sims, a) = Classify(sims, b)
  BY <1>2, <1>3 DEF Classify, l
<1> QED BY <1>4 DEF a, b, p, q

LEMMA AloneIs ==
    ASSUME NEW sims, NEW judge, IsJudge(judge),
           judge = [fails |-> judge.fails, duplicates |-> judge.duplicates,
                    supersedes |-> judge.supersedes],
           NEW i
    PROVE  LET at == {r \in DOMAIN Shortlist(sims) : Shortlist(sims)[r].pos = i}
               says(indices) == IF at \intersect ToSet(indices) # {} THEN << 1 >> ELSE << >>
           IN  /\ Alone(sims, judge, i).fails = judge.fails
               /\ Alone(sims, judge, i).duplicates = says(judge.duplicates)
               /\ Alone(sims, judge, i).supersedes = says(judge.supersedes)
BY DEF Alone

\* The judge marks a memory: it lists its position.
Marks(indices, m, g, i) == \E r \in 1 .. m : g[r] = i /\ r \in ToSet(indices)

ProbeSays(sims, judge, m, g, i) ==
    IF i \notin NearOf(sims) THEN "new"
    ELSE IF judge.fails THEN IF sims[i] >= DupThresh THEN "duplicate" ELSE "supersede"
    ELSE IF Marks(judge.duplicates, m, g, i) THEN "duplicate"
    ELSE IF Marks(judge.supersedes, m, g, i) THEN "supersede"
    ELSE "new"

LEMMA ProbeIs ==
    ASSUME NEW n \in Nat, NEW sims \in [1 .. n -> Nat], NEW m, NEW g, Nears(sims, m, g),
           m <= TopM, NEW judge, IsJudge(judge),
           judge = [fails |-> judge.fails, duplicates |-> judge.duplicates,
                    supersedes |-> judge.supersedes],
           NEW i \in 1 .. n
    PROVE  DedupProbe(sims, judge, i) = ProbeSays(sims, judge, m, g, i)
<1> DEFINE one == <<sims[i]>>
           a   == Alone(sims, judge, i)
           at  == {r \in DOMAIN Shortlist(sims) : Shortlist(sims)[r].pos = i}
<1>1. at = {r \in 1 .. m : g[r] = i}
  <2>1. MinOf(m, TopM) = m
    BY TopMAssumption DEF MinOf, Nears
  <2>2. DOMAIN Shortlist(sims) = 1 .. m /\ \A r \in 1 .. m : Shortlist(sims)[r].pos = g[r]
    BY <2>1 DEF Nears
  <2> QED BY <2>2
<1>2. /\ a.fails = judge.fails
      /\ a.duplicates = IF at \intersect ToSet(judge.duplicates) # {} THEN << 1 >> ELSE << >>
      /\ a.supersedes = IF at \intersect ToSet(judge.supersedes) # {} THEN << 1 >> ELSE << >>
  BY AloneIs
<1> HIDE DEF a, at
<1>3. IsJudge(a)
  <2>1. DOMAIN << 1 >> = 1 .. 1 /\ DOMAIN << >> = 1 .. 0
    OBVIOUS
  <2>2. a.fails \in BOOLEAN
    BY <1>2 DEF IsJudge
  <2>3. \E N \in Nat : DOMAIN a.duplicates = 1 .. N
    BY <1>2, <2>1
  <2>4. \E N \in Nat : DOMAIN a.supersedes = 1 .. N
    BY <1>2, <2>1
  <2> QED BY <2>2, <2>3, <2>4 DEF IsJudge
<1>4. one \in [1 .. 1 -> Nat] /\ DOMAIN one = 1 .. 1 /\ one[1] = sims[i]
  OBVIOUS
<1>5. PICK k, h : Nears(one, k, h)
  BY <1>4, ShortlistIs
<1>6. Decides(one, a, k, h, Valid(a.duplicates, MinOf(k, TopM)),
                            Valid(a.supersedes, MinOf(k, TopM)))
  BY <1>3, <1>4, <1>5, ClassifyIs
<1>7. DedupProbe(sims, judge, i) = Classify(one, a).verdict
  BY DEF DedupProbe, a
<1>8. i \in NearOf(sims) <=> sims[i] >= Thresh
  BY DEF NearOf
<1>9. NearOf(one) = {j \in {1} : sims[i] >= Thresh}
  BY <1>4 DEF NearOf
<1> HIDE DEF one
<1>10. CASE i \notin NearOf(sims)
  <2>1. k = 0
    BY <1>5, <1>8, <1>9, <1>10, FS_EmptySet DEF Nears
  <2> QED BY <1>6, <1>7, <1>10, <2>1 DEF Decides, Decision, ProbeSays
<1>11. CASE i \in NearOf(sims)
  <2>1. NearOf(one) = {1} /\ k = 1
    <3>1. NearOf(one) = {1}
      BY <1>8, <1>9, <1>11
    <3>2. Cardinality({1}) = 1
      BY FS_Singleton
    <3> QED BY <1>5, <3>1, <3>2 DEF Nears
  <2>2. h[1] = 1 /\ MinOf(k, TopM) = 1
    BY <1>5, <2>1, TopMAssumption DEF Nears, MinOf
  <2>3. ASSUME NEW s, NEW v,
               v = IF at \intersect ToSet(s) # {} THEN << 1 >> ELSE << >>
        PROVE  Valid(v, 1) # << >> <=> Marks(s, m, g, i)
    <3>1. ToSet(<< 1 >>) = {1} /\ ToSet(<< >>) = {} /\ DOMAIN << 1 >> = 1 .. 1 /\ DOMAIN << >> = 1 .. 0
      BY DEF ToSet
    <3>2. Valid(<< 1 >>, 1) # << >> <=> \E x \in ToSet(<< 1 >>) : x \in 1 .. 1
      BY <3>1, ValidSome
    <3>3. Valid(<< >>, 1) # << >> <=> \E x \in ToSet(<< >>) : x \in 1 .. 1
      BY <3>1, ValidSome
    <3>4. at \intersect ToSet(s) # {} <=> Marks(s, m, g, i)
      BY <1>1 DEF Marks
    <3> QED BY <2>3, <3>1, <3>2, <3>3, <3>4
  <2>4. /\ Valid(a.duplicates, 1) # << >> <=> Marks(judge.duplicates, m, g, i)
        /\ Valid(a.supersedes, 1) # << >> <=> Marks(judge.supersedes, m, g, i)
    BY <1>2, <2>3
  <2>5. Decides(one, a, 1, h, Valid(a.duplicates, 1), Valid(a.supersedes, 1))
    BY <1>6, <2>1, <2>2
  <2> QED BY <1>2, <1>4, <1>7, <1>11, <2>2, <2>4, <2>5 DEF Decides, Decision, ProbeSays
<1> QED BY <1>10, <1>11

\* What the probe says of each memory alone is what classify says of all of them.
LEMMA PairsTell ==
    ASSUME NEW n \in Nat, NEW sims \in [1 .. n -> Nat], NEW judge, IsJudge(judge),
           judge = [fails |-> judge.fails, duplicates |-> judge.duplicates,
                    supersedes |-> judge.supersedes],
           Cardinality(NearOf(sims)) <= TopM,
           NEW alone, alone = {DedupProbe(sims, judge, i) : i \in DOMAIN sims}
    PROVE  Classify(sims, judge).verdict =
               IF "duplicate" \in alone THEN "duplicate"
               ELSE IF "supersede" \in alone THEN "supersede" ELSE "new"
<1>1. PICK m, g : Nears(sims, m, g)
  BY ShortlistIs
<1>2. m \in Nat /\ m <= TopM /\ MinOf(m, TopM) = m
  BY <1>1 DEF Nears, MinOf
<1> DEFINE dups == Valid(judge.duplicates, m)
           sups == Valid(judge.supersedes, m)
<1>3. Decides(sims, judge, m, g, dups, sups)
  BY <1>1, <1>2, ClassifyIs
<1>4. /\ dups # << >> <=> \E x \in ToSet(judge.duplicates) : x \in 1 .. m
      /\ sups # << >> <=> \E x \in ToSet(judge.supersedes) : x \in 1 .. m
  BY <1>2, ValidSome DEF IsJudge
<1> HIDE DEF dups, sups
<1>5. \A v : v \in alone <=> \E i \in 1 .. n : v = ProbeSays(sims, judge, m, g, i)
  <2>1. \A i \in 1 .. n : DedupProbe(sims, judge, i) = ProbeSays(sims, judge, m, g, i)
    BY <1>1, <1>2, ProbeIs
  <2> QED BY <2>1
<1>6. /\ \A i \in NearOf(sims) : i \in 1 .. n /\ \E r \in 1 .. m : g[r] = i
      /\ \A r \in 1 .. m : g[r] \in NearOf(sims)
  BY <1>1 DEF Nears, NearOf
<1>7. ASSUME NEW s
      PROVE  (\E i \in NearOf(sims) : Marks(s, m, g, i)) <=> \E x \in ToSet(s) : x \in 1 .. m
  BY <1>6 DEF Marks
<1>8. CASE m = 0
  <2>1. \A i \in 1 .. n : ProbeSays(sims, judge, m, g, i) = "new"
    <3>1. NearOf(sims) = {}
      BY <1>6, <1>8
    <3> QED BY <3>1 DEF ProbeSays
  <2>2. "duplicate" \notin alone /\ "supersede" \notin alone
    BY <1>5, <2>1
  <2> QED BY <1>3, <1>8, <2>2 DEF Decides, Decision
<1>9. CASE m # 0 /\ judge.fails
  <2>1. g[1] \in NearOf(sims) /\ g[1] \in 1 .. n /\ sims[g[1]] \in Nat
    BY <1>1, <1>6, <1>9, NearestIs
  <2>2. \A i \in NearOf(sims) : sims[i] \in Nat /\ sims[i] <= sims[g[1]]
    <3> SUFFICES ASSUME NEW i \in NearOf(sims)
                 PROVE  sims[i] \in Nat /\ sims[i] <= sims[g[1]]
      OBVIOUS
    <3>1. PICK r \in 1 .. m : g[r] = i
      BY <1>6
    <3>2. sims[i] \in Nat
      BY <1>6
    <3>3. 1 \in 1 .. m /\ (r = 1 \/ 1 < r)
      BY <1>2, <1>9
    <3>4. 1 < r => sims[g[1]] > sims[g[r]] \/ sims[g[1]] = sims[g[r]]
      BY <1>1, <3>3 DEF Nears
    <3> QED BY <2>1, <3>1, <3>2, <3>3, <3>4
  <2>3. \A i \in 1 .. n : ProbeSays(sims, judge, m, g, i) =
            IF i \notin NearOf(sims) THEN "new"
            ELSE IF sims[i] >= DupThresh THEN "duplicate" ELSE "supersede"
    BY <1>9 DEF ProbeSays
  <2>4. "duplicate" \in alone <=> sims[g[1]] >= DupThresh
    <3>1. "duplicate" \in alone <=> \E i \in 1 .. n : "duplicate" = ProbeSays(sims, judge, m, g, i)
      BY <1>5
    <3>2. "duplicate" \in alone => \E i \in NearOf(sims) : sims[i] >= DupThresh
      BY <2>3, <3>1
    <3>3. sims[g[1]] >= DupThresh => "duplicate" \in alone
      BY <2>1, <2>3, <3>1
    <3> QED BY <2>1, <2>2, <3>2, <3>3, ThreshAssumption
  <2>5. "duplicate" \notin alone => "supersede" \in alone
    <3>1. "supersede" \in alone <=> \E i \in 1 .. n : "supersede" = ProbeSays(sims, judge, m, g, i)
      BY <1>5
    <3> QED BY <2>1, <2>3, <2>4, <3>1
  <2>6. Classify(sims, judge).verdict =
            IF sims[g[1]] >= DupThresh THEN "duplicate" ELSE "supersede"
    BY <1>3, <1>9 DEF Decides, Decision
  <2> QED BY <2>4, <2>5, <2>6
<1>10. CASE m # 0 /\ ~ judge.fails
  <2>1. \A i \in 1 .. n : ProbeSays(sims, judge, m, g, i) =
            IF i \notin NearOf(sims) THEN "new"
            ELSE IF Marks(judge.duplicates, m, g, i) THEN "duplicate"
            ELSE IF Marks(judge.supersedes, m, g, i) THEN "supersede" ELSE "new"
    BY <1>10 DEF ProbeSays
  <2>2. "duplicate" \in alone <=> dups # << >>
    <3>1. "duplicate" \in alone <=> \E i \in 1 .. n : "duplicate" = ProbeSays(sims, judge, m, g, i)
      BY <1>5
    <3>2. "duplicate" \in alone <=> \E i \in NearOf(sims) : Marks(judge.duplicates, m, g, i)
      BY <1>6, <2>1, <3>1
    <3> QED BY <1>4, <1>7, <3>2
  <2>3. "duplicate" \notin alone => ("supersede" \in alone <=> sups # << >>)
    <3>1. "supersede" \in alone <=> \E i \in 1 .. n : "supersede" = ProbeSays(sims, judge, m, g, i)
      BY <1>5
    <3>2. "duplicate" \notin alone => \A i \in NearOf(sims) : ~ Marks(judge.duplicates, m, g, i)
      BY <1>4, <1>7, <2>2
    <3>3. "duplicate" \notin alone =>
              ("supersede" \in alone <=> \E i \in NearOf(sims) : Marks(judge.supersedes, m, g, i))
      BY <1>6, <2>1, <3>1, <3>2
    <3> QED BY <1>4, <1>7, <3>3
  <2>4. Classify(sims, judge).verdict =
            IF dups # << >> THEN "duplicate" ELSE IF sups # << >> THEN "supersede" ELSE "new"
    BY <1>3, <1>10 DEF Decides, Decision
  <2> QED BY <2>2, <2>3, <2>4
<1> QED BY <1>8, <1>9, <1>10

\* What the calls ask of classify: a registry that is not empty, and a judge that
\* lists numbers or fails.
IsDedup(sims, judge) ==
    /\ \E n \in Nat : sims \in [1 .. n -> Nat]
    /\ judge = [fails |-> judge.fails, duplicates |-> judge.duplicates,
                supersedes |-> judge.supersedes]
    /\ IsJudge(judge)
    /\ ~ judge.fails => judge = Judge(judge.duplicates, judge.supersedes)

LEMMA DedupCallIs ==
    ASSUME ClassifyCandidate
    PROVE  IsDedup(call'.sims, call'.judge)
<1>1. PICK sims \in SeqOf(0 .. 3, 3) \ {<<>>},
           judge \in [fails : {FALSE}, duplicates : SeqOf(0 .. 3, 2), supersedes : SeqOf(0 .. 3, 2)]
                         \union {JudgeFails} :
          call' = [op |-> "dedup", sims |-> sims, judge |-> judge]
  BY DEF ClassifyCandidate
<1>2. call'.sims = sims /\ call'.judge = judge
  BY <1>1
<1>3. \E n \in Nat : sims \in [1 .. n -> Nat]
  <2>1. PICK n \in 0 .. 3 : sims \in [1 .. n -> 0 .. 3]
    BY DEF SeqOf
  <2> QED BY <2>1
<1>4. CASE judge = JudgeFails
  <2>1. DOMAIN << >> = 1 .. 0
    OBVIOUS
  <2>2. /\ judge = [fails |-> TRUE, duplicates |-> << >>, supersedes |-> << >>]
        /\ judge.fails = TRUE /\ judge.duplicates = << >> /\ judge.supersedes = << >>
    BY <1>4 DEF JudgeFails
  <2>3. IsJudge(judge)
    BY <2>1, <2>2 DEF IsJudge
  <2>4. IsDedup(sims, judge)
    BY <1>3, <2>2, <2>3 DEF IsDedup
  <2> QED BY <1>2, <2>4
<1>5. CASE judge \in [fails : {FALSE}, duplicates : SeqOf(0 .. 3, 2), supersedes : SeqOf(0 .. 3, 2)]
  <2>1. /\ judge = [fails |-> FALSE, duplicates |-> judge.duplicates,
                    supersedes |-> judge.supersedes]
        /\ judge.fails = FALSE
        /\ judge.duplicates \in SeqOf(0 .. 3, 2) /\ judge.supersedes \in SeqOf(0 .. 3, 2)
    BY <1>5
  <2>2. ASSUME NEW s \in SeqOf(0 .. 3, 2)
        PROVE  \E N \in Nat : DOMAIN s = 1 .. N
    <3>1. PICK k \in 0 .. 2 : s \in [1 .. k -> 0 .. 3]
      BY DEF SeqOf
    <3> QED BY <3>1
  <2>3. judge = Judge(judge.duplicates, judge.supersedes)
    BY <2>1 DEF Judge
  <2>4. IsJudge(judge)
    BY <2>1, <2>2 DEF IsJudge
  <2>5. IsDedup(sims, judge)
    BY <1>3, <2>1, <2>3, <2>4 DEF IsDedup
  <2> QED BY <1>2, <2>5
<1> QED BY <1>1, <1>4, <1>5

\* Without the judge the first of the shortlist is decided on.
LEMMA FallbackIsFirst ==
    ASSUME NEW n \in Nat, NEW sims \in [1 .. n -> Nat], NEW judge, IsJudge(judge),
           judge.fails, Shortlist(sims) # << >>
    PROVE  Classify(sims, judge).targets = <<Shortlist(sims)[1].pos>>
<1>1. PICK m, g : Nears(sims, m, g)
  BY ShortlistIs
<1>2. m # 0
  BY <1>1 DEF Nears
<1>3. 1 \in 1 .. MinOf(m, TopM)
  BY <1>1, <1>2, NearestIs
<1>4. Shortlist(sims)[1].pos = g[1]
  BY <1>1, <1>3 DEF Nears
<1>5. Decides(sims, judge, m, g, Valid(judge.duplicates, MinOf(m, TopM)),
                                 Valid(judge.supersedes, MinOf(m, TopM)))
  BY <1>1, ClassifyIs
<1> QED BY <1>2, <1>4, <1>5 DEF Decides, Decision

\* Whatever the judge answers, and whether or not it does, a verdict is about
\* near memories; what is no position of the shortlist changes nothing; without
\* the judge the nearest memory decides; and the probe, one memory at a time,
\* measures what classify says of a registry.
THEOREM VerdictSoundHolds == Spec => []VerdictSound
<1>1. Init => VerdictSound
  BY DEF Init, VerdictSound, VerdictOnNear, StrayIndicesIgnored, FallbackAgrees,
         PairsTellRegistry
<1>2. VerdictSound /\ [Next]_call => VerdictSound'
  <2>1. CASE UNCHANGED call
    BY <2>1 DEF VerdictSound, VerdictOnNear, StrayIndicesIgnored, FallbackAgrees,
                PairsTellRegistry
  <2>2. CASE Next /\ call'.op # "dedup"
    BY <2>2 DEF VerdictSound, VerdictOnNear, StrayIndicesIgnored, FallbackAgrees,
                PairsTellRegistry
  <2>3. CASE Next /\ call'.op = "dedup"
    <3> DEFINE sims == call'.sims
               judge == call'.judge
    <3>1. IsDedup(sims, judge)
      BY <2>3, CallOf, DedupCallIs
    <3>2. PICK n \in Nat : sims \in [1 .. n -> Nat]
      BY <3>1 DEF IsDedup
    <3>3. /\ IsJudge(judge)
          /\ judge = [fails |-> judge.fails, duplicates |-> judge.duplicates,
                      supersedes |-> judge.supersedes]
          /\ ~ judge.fails => judge = Judge(judge.duplicates, judge.supersedes)
      BY <3>1 DEF IsDedup
    <3>4. VerdictOnNear'
      <4> HIDE DEF sims, judge
      <4>1. OnNear(sims, Classify(sims, judge))
        BY <3>2, <3>3, ClassifyOnNear
      <4> QED BY <4>1 DEF OnNear, VerdictOnNear, sims, judge
    <3>5. StrayIndicesIgnored'
      <4> HIDE DEF sims, judge
      <4> DEFINE du == judge.duplicates
                 su == judge.supersedes
                 listed == 1 .. Len(Shortlist(sims))
      <4>1. PICK M \in Nat : DOMAIN du = 1 .. M
        BY <3>3 DEF IsJudge
      <4>2. PICK N \in Nat : DOMAIN su = 1 .. N
        BY <3>3 DEF IsJudge
      <4>3. Classify(sims, Judge(du, su)) =
                Classify(sims, Judge(Clean(du, listed), Clean(su, listed)))
        <5> HIDE DEF du, su
        <5> QED BY <3>2, <4>1, <4>2, ClassifyOfClean
      <4>4. ~ judge.fails => Classify(sims, judge) =
                Classify(sims, Judge(Clean(du, listed), Clean(su, listed)))
        BY <3>3, <4>3
      <4> QED BY <4>4 DEF StrayIndicesIgnored, Clean, sims, judge
    <3>6. FallbackAgrees'
      <4> HIDE DEF sims, judge
      <4>1. judge.fails /\ Shortlist(sims) # << >> =>
                Classify(sims, judge).targets = <<Shortlist(sims)[1].pos>>
        BY <3>2, <3>3, FallbackIsFirst
      <4> QED BY <4>1 DEF FallbackAgrees, sims, judge
    <3>7. PairsTellRegistry'
      <4> HIDE DEF sims, judge
      <4> DEFINE alone == {DedupProbe(sims, judge, i) : i \in DOMAIN sims}
      <4>1. Cardinality(NearOf(sims)) <= TopM => Classify(sims, judge).verdict =
                IF "duplicate" \in alone THEN "duplicate"
                ELSE IF "supersede" \in alone THEN "supersede" ELSE "new"
        BY <3>2, <3>3, PairsTell
      <4> QED BY <4>1 DEF PairsTellRegistry, NearOf, sims, judge
    <3> QED BY <3>4, <3>5, <3>6, <3>7 DEF VerdictSound
  <2> QED BY <2>1, <2>2, <2>3
<1> QED BY <1>1, <1>2, PTL DEF Spec

----
\* Scenario planner

\* A registry of N memories, no two of which share an id.
Registry(reg, N) ==
    /\ N \in Nat /\ DOMAIN reg = 1 .. N
    /\ \A i \in 1 .. N : reg[i].score \in Nat /\ reg[i].ts \in Nat /\ reg[i].id \in Nat
    /\ \A i, j \in 1 .. N : reg[i].id = reg[j].id => i = j

Scoring(reg) == {i \in DOMAIN reg : reg[i].live /\ reg[i].score > 0}

Ranking(reg) ==
    {p \in (DOMAIN reg) \X (DOMAIN reg) : RanksBefore(reg[p[1]], reg[p[2]])}

LEMMA RankingOrders ==
    ASSUME NEW reg, NEW N, Registry(reg, N)
    PROVE  Orders(Ranking(reg), Scoring(reg))
<1> DEFINE R == Ranking(reg)
           P == Scoring(reg)
<1>1. \A i \in P : /\ i \in 1 .. N
                   /\ reg[i].score \in Nat /\ reg[i].ts \in Nat /\ reg[i].id \in Nat
  BY DEF Registry, Scoring
<1>2. \A i, j \in P : <<i, j>> \in R <=> RanksBefore(reg[i], reg[j])
  BY DEF Ranking, Scoring
<1>3. \A i, j \in P : reg[i].id = reg[j].id => i = j
  BY <1>1 DEF Registry
<1> HIDE DEF P, R
<1>4. \A i \in P : <<i, i>> \notin R
  BY <1>1, <1>2 DEF RanksBefore
<1>5. ASSUME NEW i \in P, NEW j \in P, NEW k \in P, <<i, j>> \in R, <<j, k>> \in R
      PROVE  <<i, k>> \in R
  <2>1. RanksBefore(reg[i], reg[j]) /\ RanksBefore(reg[j], reg[k])
    BY <1>2, <1>5
  <2>2. RanksBefore(reg[i], reg[k])
    BY <1>1, <2>1 DEF RanksBefore
  <2> QED BY <1>2, <2>2
<1>6. ASSUME NEW i \in P, NEW j \in P
      PROVE  i = j \/ <<i, j>> \in R \/ <<j, i>> \in R
  <2>1. reg[i].id = reg[j].id \/ RanksBefore(reg[i], reg[j]) \/ RanksBefore(reg[j], reg[i])
    BY <1>1 DEF RanksBefore
  <2> QED BY <1>2, <1>3, <2>1
<1>7. Orders(R, P)
  BY <1>4, <1>5, <1>6 DEF Orders
<1> QED BY <1>7 DEF R, P

\* e lists the m memories that share a word with the request, best first; the
\* candidates are its beginning.
Ranks(reg, m, e) ==
    /\ m \in Nat /\ e \in [1 .. m -> Scoring(reg)]
    /\ \A i \in Scoring(reg) : \E r \in 1 .. m : e[r] = i
    /\ \A q, r \in 1 .. m : q < r => RanksBefore(reg[e[q]], reg[e[r]])
    /\ \A r \in 1 .. m :
          Cardinality({j \in Scoring(reg) : RanksBefore(reg[j], reg[e[r]])}) = r - 1
    /\ CandidateMemories(reg) = Take(e, MaxCandidates)

LEMMA CandidatesRank ==
    ASSUME NEW reg, NEW N, Registry(reg, N)
    PROVE  \E m, e : Ranks(reg, m, e)
<1> DEFINE R == Ranking(reg)
           P == Scoring(reg)
           m == Cardinality(P)
           e == ByRank(P, R)
<1>1. P \in SUBSET (1 .. N) /\ N \in Nat
  BY DEF Scoring, Registry
<1>2. IsFiniteSet(P) /\ m \in Nat
  <2>1. IsFiniteSet(1 .. N)
    BY <1>1, UpToFinite
  <2> QED BY <1>1, <2>1, FS_Subset, FS_CardinalityType
<1>3. Orders(R, P)
  BY RankingOrders
<1>4. Lists(e, P, R)
  BY <1>2, <1>3, ByRankLists
<1>5. \A x \in P : Before(R, P, x) = {y \in P : RanksBefore(reg[y], reg[x])}
  BY DEF Before, Ranking, Scoring
<1>6. \A r \in 1 .. m : Cardinality(Before(R, P, e[r])) = r - 1
  <2>1. \A r \in 1 .. m : \E x \in P : Cardinality(Before(R, P, x)) = r - 1
    BY <1>2, <1>3, RanksOnce
  <2> QED BY <2>1 DEF ByRank
<1> DEFINE G(r) == CHOOSE x \in P : Cardinality({y \in P : RanksBefore(reg[y], reg[x])}) = r - 1
<1>7. e = [r \in 1 .. m |-> G(r)]
  <2>1. \A r \in 1 .. m : (CHOOSE x \in P : Cardinality(Before(R, P, x)) = r - 1) = G(r)
    BY <1>5
  <2>2. \A r \in 1 .. m : e[r] = G(r)
    BY <2>1 DEF ByRank
  <2>3. e = [r \in 1 .. m |-> e[r]]
    BY DEF ByRank
  <2> HIDE DEF G, e
  <2> QED BY <2>2, <2>3
<1>8. CandidateMemories(reg) = Take(e, MaxCandidates)
  BY <1>7, Zenon DEF CandidateMemories, Sorted, Scoring
<1>9. e = [r \in 1 .. m |-> e[r]]
  BY DEF ByRank
<1>10. \A x, y \in P : <<x, y>> \in R => RanksBefore(reg[x], reg[y])
  BY DEF Ranking
<1>11. P = Scoring(reg)
  OBVIOUS
<1> HIDE DEF e, m, P, R
<1>12. m = Cardinality(P)
  BY DEF m
<1>13. /\ e \in [1 .. m -> P]
       /\ \A i \in P : \E r \in 1 .. m : e[r] = i
       /\ \A q, r \in 1 .. m : q < r => RanksBefore(reg[e[q]], reg[e[r]])
  BY <1>4, <1>9, <1>10, <1>12 DEF Lists
<1>14. \A r \in 1 .. m : Cardinality({j \in P : RanksBefore(reg[j], reg[e[r]])}) = r - 1
  BY <1>5, <1>6, <1>13
<1>15. Ranks(reg, m, e)
  BY <1>2, <1>8, <1>11, <1>13, <1>14 DEF Ranks
<1> QED BY <1>15

\* A candidate that the loop takes when it comes to it.
Taken(i, probes, reg) == probes[i] # GateFails /\ Verified(i, probes[i], reg)

\* After r candidates a gate has failed ...
GateFailed(c, r, plan, probes) ==
    /\ plan.selected = << >> /\ plan.failed = TRUE
    /\ \E q \in 1 .. r : probes[c[q]] = GateFails

\* ... or the lane has the l first ones that are taken, those that g points to, and
\* whichever it does not have came when it was full.
InLane(c, r, plan, l, g, probes, reg) ==
    /\ l \in 0 .. MaxSelected /\ g \in [1 .. l -> 1 .. r]
    /\ plan.failed = FALSE
    /\ plan.selected = [t \in 1 .. l |-> c[g[t]]]
    /\ \A s, t \in 1 .. l : s < t => g[s] < g[t]
    /\ \A t \in 1 .. l : Taken(c[g[t]], probes, reg)
    /\ \A q \in 1 .. r : Taken(c[q], probes, reg) =>
          \/ \E t \in 1 .. l : g[t] = q
          \/ l = MaxSelected /\ \A t \in 1 .. l : g[t] < q

Planned(c, r, plan, probes, reg) ==
    \/ GateFailed(c, r, plan, probes)
    \/ \E l, g : InLane(c, r, plan, l, g, probes, reg)

LEMMA PlannedNone ==
    ASSUME NEW c, NEW probes, NEW reg
    PROVE  Planned(c, 0, NothingPlanned, probes, reg)
<1> DEFINE g == [t \in 1 .. 0 |-> 1]
<1>1. NothingPlanned.selected = [t \in 1 .. 0 |-> c[g[t]]] /\ NothingPlanned.failed = FALSE
  BY DEF NothingPlanned
<1>2. g \in [1 .. 0 -> 1 .. 0] /\ 0 \in 0 .. MaxSelected
  BY PlanAssumption
<1> HIDE DEF g
<1>3. InLane(c, 0, NothingPlanned, 0, g, probes, reg)
  BY <1>1, <1>2 DEF InLane
<1> QED BY <1>3 DEF Planned

LEMMA PlanStepSame ==
    ASSUME NEW c, NEW r \in Nat \ {0}, NEW plan, NEW probes, NEW reg,
           NEW l, NEW g, InLane(c, r - 1, plan, l, g, probes, reg),
           l = MaxSelected \/ ~ Taken(c[r], probes, reg)
    PROVE  InLane(c, r, plan, l, g, probes, reg)
<1>1. /\ l \in 0 .. MaxSelected /\ g \in [1 .. l -> 1 .. r - 1]
      /\ plan.failed = FALSE
      /\ plan.selected = [t \in 1 .. l |-> c[g[t]]]
      /\ \A s, t \in 1 .. l : s < t => g[s] < g[t]
      /\ \A t \in 1 .. l : Taken(c[g[t]], probes, reg)
      /\ \A q \in 1 .. r - 1 : Taken(c[q], probes, reg) =>
            \/ \E t \in 1 .. l : g[t] = q
            \/ l = MaxSelected /\ \A t \in 1 .. l : g[t] < q
  BY DEF InLane
<1>2. g \in [1 .. l -> 1 .. r] /\ \A t \in 1 .. l : g[t] < r
  BY <1>1
<1>3. \A q \in 1 .. r : Taken(c[q], probes, reg) =>
            \/ \E t \in 1 .. l : g[t] = q
            \/ l = MaxSelected /\ \A t \in 1 .. l : g[t] < q
  <2> SUFFICES ASSUME NEW q \in 1 .. r, Taken(c[q], probes, reg)
               PROVE  \/ \E t \in 1 .. l : g[t] = q
                      \/ l = MaxSelected /\ \A t \in 1 .. l : g[t] < q
    OBVIOUS
  <2>1. CASE q = r
    BY <1>2, <2>1
  <2>2. CASE q # r
    <3>1. q \in 1 .. r - 1
      BY <2>2
    <3> QED BY <1>1, <3>1
  <2> QED BY <2>1, <2>2
<1> QED BY <1>1, <1>2, <1>3 DEF InLane

LEMMA PlanStepTakes ==
    ASSUME NEW S, NEW k \in Nat, NEW c \in [1 .. k -> S], NEW r \in 1 .. k,
           NEW plan, NEW probes, NEW reg,
           NEW l, NEW g, InLane(c, r - 1, plan, l, g, probes, reg),
           l < MaxSelected, Taken(c[r], probes, reg),
           NEW next, next.failed = FALSE, next.selected = Append(plan.selected, c[r])
    PROVE  \E h : InLane(c, r, next, l + 1, h, probes, reg)
<1> DEFINE h == [t \in 1 .. l + 1 |-> IF t = l + 1 THEN r ELSE g[t]]
<1>1. /\ l \in 0 .. MaxSelected /\ g \in [1 .. l -> 1 .. r - 1]
      /\ plan.selected = [t \in 1 .. l |-> c[g[t]]]
      /\ \A s, t \in 1 .. l : s < t => g[s] < g[t]
      /\ \A t \in 1 .. l : Taken(c[g[t]], probes, reg)
      /\ \A q \in 1 .. r - 1 : Taken(c[q], probes, reg) =>
            \/ \E t \in 1 .. l : g[t] = q
            \/ l = MaxSelected /\ \A t \in 1 .. l : g[t] < q
  BY DEF InLane
<1>2. l \in Nat /\ l + 1 \in 0 .. MaxSelected /\ r \in 1 .. r
  BY <1>1, PlanAssumption
<1>3. /\ h \in [1 .. l + 1 -> 1 .. r] /\ h[l + 1] = r
      /\ \A t \in 1 .. l : h[t] = g[t] /\ t \in 1 .. l + 1
  BY <1>1, <1>2
<1>4. \A t \in 1 .. l + 1 : t \in 1 .. l \/ t = l + 1
  BY <1>2
<1> HIDE DEF h
<1>5. next.selected = [t \in 1 .. l + 1 |-> c[h[t]]]
  <2>1. plan.selected \in [1 .. l -> S]
    BY <1>1
  <2>2. plan.selected \in Seq(S) /\ Len(plan.selected) = l /\ c[r] \in S
    BY <1>2, <2>1
  <2>3. next.selected = [t \in 1 .. l + 1 |-> IF t = l + 1 THEN c[r] ELSE plan.selected[t]]
    BY <1>2, <2>2
  <2>4. \A t \in 1 .. l + 1 : (IF t = l + 1 THEN c[r] ELSE plan.selected[t]) = c[h[t]]
    <3> SUFFICES ASSUME NEW t \in 1 .. l + 1
                 PROVE  (IF t = l + 1 THEN c[r] ELSE plan.selected[t]) = c[h[t]]
      OBVIOUS
    <3>1. CASE t = l + 1
      BY <1>3, <3>1
    <3>2. CASE t # l + 1
      <4>1. t \in 1 .. l
        BY <1>4, <3>2
      <4> QED BY <1>1, <1>3, <3>2, <4>1
    <3> QED BY <3>1, <3>2
  <2> QED BY <2>3, <2>4
<1>6. ASSUME NEW s \in 1 .. l + 1, NEW t \in 1 .. l + 1, s < t
      PROVE  h[s] < h[t]
  <2>1. s \in 1 .. l /\ h[s] = g[s] /\ g[s] \in 1 .. r - 1
    BY <1>1, <1>2, <1>3, <1>6
  <2>2. CASE t = l + 1
    BY <1>3, <2>1, <2>2
  <2>3. CASE t \in 1 .. l
    BY <1>1, <1>3, <1>6, <2>1, <2>3
  <2> QED BY <1>4, <2>2, <2>3
<1>7. \A t \in 1 .. l + 1 : Taken(c[h[t]], probes, reg)
  BY <1>1, <1>3, <1>4
<1>8. ASSUME NEW q \in 1 .. r, Taken(c[q], probes, reg)
      PROVE  \E t \in 1 .. l + 1 : h[t] = q
  <2>1. CASE q = r
    BY <1>2, <1>3, <2>1
  <2>2. CASE q # r
    <3>1. q \in 1 .. r - 1 /\ l # MaxSelected
      BY <1>1, <2>2, PlanAssumption
    <3>2. PICK t \in 1 .. l : g[t] = q
      BY <1>1, <1>8, <3>1
    <3> QED BY <1>3, <3>2
  <2> QED BY <2>1, <2>2
<1>9. InLane(c, r, next, l + 1, h, probes, reg)
  BY <1>2, <1>3, <1>5, <1>6, <1>7, <1>8 DEF InLane
<1> QED BY <1>9

LEMMA PlanStepPlans ==
    ASSUME NEW S, NEW k \in Nat, NEW c \in [1 .. k -> S], NEW r \in 1 .. k,
           NEW plan, NEW probes, NEW reg, Planned(c, r - 1, plan, probes, reg),
           plan = [selected |-> plan.selected, failed |-> plan.failed]
    PROVE  Planned(c, r, PlanStep(plan, c[r], probes, reg), probes, reg)
<1> DEFINE next == PlanStep(plan, c[r], probes, reg)
<1>1. r \in Nat \ {0} /\ r \in 1 .. r
  OBVIOUS
<1>2. CASE GateFailed(c, r - 1, plan, probes)
  <2>1. next = plan
    BY <1>2 DEF PlanStep, GateFailed
  <2>2. GateFailed(c, r, plan, probes)
    <3>1. PICK q \in 1 .. r - 1 : probes[c[q]] = GateFails
      BY <1>2 DEF GateFailed
    <3>2. q \in 1 .. r
      BY <1>1
    <3> QED BY <1>2, <3>1, <3>2 DEF GateFailed
  <2> QED BY <2>1, <2>2 DEF Planned
<1>3. CASE \E l, g : InLane(c, r - 1, plan, l, g, probes, reg)
  <2>1. PICK l, g : InLane(c, r - 1, plan, l, g, probes, reg)
    BY <1>3
  <2>2. /\ l \in 0 .. MaxSelected /\ l \in Nat /\ MaxSelected \in Nat
        /\ plan.failed = FALSE /\ Len(plan.selected) = l
    <3>1. /\ l \in 0 .. MaxSelected /\ g \in [1 .. l -> 1 .. r - 1] /\ plan.failed = FALSE
          /\ plan.selected = [t \in 1 .. l |-> c[g[t]]]
      BY <2>1 DEF InLane
    <3>2. plan.selected \in [1 .. l -> S] /\ l \in Nat
      BY <1>1, <3>1
    <3>3. plan.selected \in Seq(S) /\ Len(plan.selected) = l
      BY <3>2
    <3> QED BY <3>1, <3>2, <3>3, PlanAssumption
  <2>3. CASE l = MaxSelected
    <3>1. next = plan
      BY <2>2, <2>3 DEF PlanStep
    <3>2. InLane(c, r, plan, l, g, probes, reg)
      BY <1>1, <2>1, <2>3, PlanStepSame
    <3> QED BY <3>1, <3>2 DEF Planned
  <2>4. CASE l < MaxSelected /\ probes[c[r]] = GateFails
    <3>1. next = [selected |-> << >>, failed |-> TRUE]
      BY <2>2, <2>4 DEF PlanStep
    <3>2. GateFailed(c, r, next, probes)
      BY <1>1, <2>4, <3>1 DEF GateFailed
    <3> QED BY <3>2 DEF Planned
  <2>5. CASE l < MaxSelected /\ probes[c[r]] # GateFails /\ Verified(c[r], probes[c[r]], reg)
    <3>1. next = [plan EXCEPT !.selected = Append(@, c[r])]
      BY <2>2, <2>5 DEF PlanStep
    <3>2. next.failed = FALSE /\ next.selected = Append(plan.selected, c[r])
      BY <2>2, <3>1
    <3>3. Taken(c[r], probes, reg)
      BY <2>5 DEF Taken
    <3> HIDE DEF next
    <3>4. \E h : InLane(c, r, next, l + 1, h, probes, reg)
      BY <2>1, <2>5, <3>2, <3>3, PlanStepTakes
    <3>5. Planned(c, r, next, probes, reg)
      BY <3>4 DEF Planned
    <3> QED BY <3>5 DEF next
  <2>6. CASE l < MaxSelected /\ probes[c[r]] # GateFails /\ ~ Verified(c[r], probes[c[r]], reg)
    <3>1. next = plan
      BY <2>2, <2>6 DEF PlanStep
    <3>2. ~ Taken(c[r], probes, reg)
      BY <2>6 DEF Taken
    <3>3. InLane(c, r, plan, l, g, probes, reg)
      BY <1>1, <2>1, <3>2, PlanStepSame
    <3> QED BY <3>1, <3>3 DEF Planned
  <2> QED BY <2>2, <2>3, <2>4, <2>5, <2>6
<1> QED BY <1>2, <1>3 DEF Planned


\* The plan after each of the candidates.
PlanLooped(c, probes, reg, f) ==
    f = [r \in 0 .. Len(c) |->
            IF r = 0 THEN NothingPlanned ELSE PlanStep(f[r - 1], c[r], probes, reg)]

Plans(S) == [selected : Seq(S), failed : BOOLEAN]

LEMMA PlanStepType ==
    ASSUME NEW S, NEW plan \in Plans(S), NEW i \in S, NEW probes, NEW reg
    PROVE  PlanStep(plan, i, probes, reg) \in Plans(S)
<1>1. plan.selected \in Seq(S) /\ plan.failed \in BOOLEAN
  BY DEF Plans
<1>2. [plan EXCEPT !.selected = Append(@, i)] = [selected |-> Append(plan.selected, i), failed |-> plan.failed]
  BY DEF Plans
<1>3. Append(plan.selected, i) \in Seq(S) /\ << >> \in Seq(S)
  BY <1>1
<1>4. [plan EXCEPT !.selected = Append(@, i)] \in Plans(S)
  BY <1>1, <1>2, <1>3 DEF Plans
<1>5. [selected |-> << >>, failed |-> TRUE] \in Plans(S)
  BY <1>3 DEF Plans
<1>6. \/ PlanStep(plan, i, probes, reg) = plan
      \/ PlanStep(plan, i, probes, reg) = [selected |-> << >>, failed |-> TRUE]
      \/ PlanStep(plan, i, probes, reg) = [plan EXCEPT !.selected = Append(@, i)]
  BY Zenon DEF PlanStep
<1> QED BY <1>4, <1>5, <1>6

LEMMA PlanLoopedExists ==
    ASSUME NEW n \in Nat, NEW S, NEW c \in [1 .. n -> S], Len(c) = n, NEW probes, NEW reg
    PROVE  \E f : PlanLooped(c, probes, reg, f) /\ f \in [0 .. n -> Plans(S)]
<1> DEFINE next == [r \in 1 .. n |-> [plan \in Plans(S) |-> PlanStep(plan, c[r], probes, reg)]]
<1>1. next \in [1 .. n -> [Plans(S) -> Plans(S)]]
  BY PlanStepType
<1>2. \A plan \in Plans(S), r \in 1 .. n : next[r][plan] = PlanStep(plan, c[r], probes, reg)
  OBVIOUS
<1>3. NothingPlanned \in Plans(S)
  <2>1. << >> \in Seq(S)
    OBVIOUS
  <2> QED BY <2>1 DEF NothingPlanned, Plans
<1> HIDE DEF next
<1>4. PICK f : Recursion(n, Plans(S), NothingPlanned, next, f)
  BY <1>1, <1>3, RecursionExists
<1>5. /\ f \in [0 .. n -> Plans(S)] /\ f[0] = NothingPlanned
      /\ \A r \in 1 .. n : f[r] = next[r][f[r - 1]]
  BY <1>4 DEF Recursion
<1>6. ASSUME NEW r \in 0 .. n
      PROVE  f[r] = IF r = 0 THEN NothingPlanned ELSE PlanStep(f[r - 1], c[r], probes, reg)
  <2>1. CASE r = 0
    BY <1>5, <2>1
  <2>2. CASE r # 0
    <3>1. r \in 1 .. n /\ r - 1 \in 0 .. n
      BY <2>2
    <3> QED BY <1>2, <1>5, <2>2, <3>1
  <2> QED BY <2>1, <2>2
<1>7. f = [r \in 0 .. n |-> IF r = 0 THEN NothingPlanned ELSE PlanStep(f[r - 1], c[r], probes, reg)]
  BY <1>5, <1>6
<1> QED BY <1>5, <1>7 DEF PlanLooped

LEMMA PlanLoopIsLooped ==
    ASSUME NEW n \in Nat, NEW S, NEW c \in [1 .. n -> S], Len(c) = n, NEW probes, NEW reg
    PROVE  \E f : PlanLooped(c, probes, reg, f) /\ PlanLoop(c, probes, reg) = f[Len(c)]
<1> DEFINE f == CHOOSE f : PlanLooped(c, probes, reg, f)
<1>1. PlanLooped(c, probes, reg, f)
  BY PlanLoopedExists
<1>2. PlanLoop(c, probes, reg) = f[Len(c)]
  BY Zenon DEF PlanLoop, PlanLooped
<1> QED BY <1>1, <1>2

\* What the loop over any candidates leaves.
LEMMA PlanLoopIs ==
    ASSUME NEW n \in Nat, NEW S, NEW c \in [1 .. n -> S], Len(c) = n, NEW probes, NEW reg
    PROVE  Planned(c, n, PlanLoop(c, probes, reg), probes, reg)
<1>1. PICK f : PlanLooped(c, probes, reg, f) /\ PlanLoop(c, probes, reg) = f[n]
  BY PlanLoopIsLooped
<1>2. \A r \in 0 .. n :
          f[r] = IF r = 0 THEN NothingPlanned ELSE PlanStep(f[r - 1], c[r], probes, reg)
  BY <1>1 DEF PlanLooped
<1> DEFINE AsPlanned(r) == Planned(c, r, f[r], probes, reg) /\ f[r] \in Plans(S)
           fails == {r \in 0 .. n : ~ AsPlanned(r)}
<1>3. fails = {}
  <2> SUFFICES ASSUME fails # {} PROVE FALSE
    OBVIOUS
  <2>1. fails \subseteq Nat
    OBVIOUS
  <2>2. \A r \in fails : r \in 0 .. n /\ ~ AsPlanned(r)
    OBVIOUS
  <2>3. \A r \in 0 .. n : r \notin fails => AsPlanned(r)
    OBVIOUS
  <2> HIDE DEF fails
  <2>4. PICK r \in fails : \A w \in fails : r <= w
    BY <2>1, LeastNumber
  <2>5. CASE r = 0
    <3>1. f[0] = NothingPlanned
      BY <1>2
    <3>2. Planned(c, 0, f[0], probes, reg)
      BY <3>1, PlannedNone
    <3>3. f[0] \in Plans(S)
      <4>1. << >> \in Seq(S)
        OBVIOUS
      <4> QED BY <3>1, <4>1 DEF NothingPlanned, Plans
    <3> QED BY <2>2, <2>5, <3>2, <3>3
  <2>6. CASE r # 0
    <3>1. r \in 1 .. n /\ r - 1 \in 0 .. n /\ ~ (r <= r - 1)
      BY <2>2, <2>6
    <3>2. AsPlanned(r - 1)
      BY <2>3, <2>4, <3>1
    <3>3. f[r] = PlanStep(f[r - 1], c[r], probes, reg)
      BY <1>2, <2>2, <2>6
    <3>4. c[r] \in S
      BY <3>1
    <3>5. f[r] \in Plans(S)
      BY <3>2, <3>3, <3>4, PlanStepType
    <3>6. f[r - 1] = [selected |-> f[r - 1].selected, failed |-> f[r - 1].failed]
      BY <3>2 DEF Plans
    <3>7. Planned(c, r, f[r], probes, reg)
      BY <3>1, <3>2, <3>3, <3>6, PlanStepPlans
    <3> QED BY <2>2, <3>5, <3>7
  <2> QED BY <2>5, <2>6
<1>4. n \in 0 .. n /\ n \notin fails
  BY <1>3
<1> QED BY <1>1, <1>4

\* The owner of a slot is the first memory that lists it.
LEMMA OwnerIs ==
    ASSUME NEW reg, NEW N \in Nat, DOMAIN reg = 1 .. N, NEW slot, NEW i \in 1 .. N
    PROVE  Owner(slot, reg) = i <=> /\ slot \in Slots(reg[i])
                                    /\ \A j \in 1 .. i - 1 : slot \notin Slots(reg[j])
<1> DEFINE owners == {k \in DOMAIN reg : slot \in Slots(reg[k])}
<1>1. \A k : k \in owners <=> k \in 1 .. N /\ slot \in Slots(reg[k])
  OBVIOUS
<1>2. Owner(slot, reg) = IF owners = {} THEN 0
                         ELSE CHOOSE k \in owners : \A j \in owners : k <= j
  BY DEF Owner
<1> HIDE DEF owners
<1>3. CASE owners = {}
  BY <1>1, <1>2, <1>3
<1>4. CASE owners # {}
  <2>1. owners \subseteq Nat
    BY <1>1
  <2>2. \E k \in owners : \A j \in owners : k <= j
    BY <1>4, <2>1, LeastNumber
  <2>3. Owner(slot, reg) \in owners /\ \A j \in owners : Owner(slot, reg) <= j
    BY <1>2, <1>4, <2>2, Zenon
  <2>4. PICK o : o = Owner(slot, reg)
    OBVIOUS
  <2>5. o \in 1 .. N /\ slot \in Slots(reg[o])
        /\ \A j \in 1 .. N : slot \in Slots(reg[j]) => o <= j
    BY <1>1, <2>3, <2>4
  <2>6. ASSUME o = i PROVE slot \in Slots(reg[i]) /\ \A j \in 1 .. i - 1 : slot \notin Slots(reg[j])
    BY <2>5, <2>6
  <2>7. ASSUME slot \in Slots(reg[i]), \A j \in 1 .. i - 1 : slot \notin Slots(reg[j])
        PROVE  o = i
    <3>1. o <= i
      BY <2>5, <2>7
    <3>2. ~ (o \in 1 .. i - 1)
      BY <2>5, <2>7
    <3> QED BY <2>5, <3>1, <3>2
  <2> QED BY <2>4, <2>6, <2>7
<1> QED BY <1>3, <1>4

\* n probes of a candidate.
Probing(probes, n) == n \in Nat \ {0} /\ DOMAIN probes = 1 .. n /\ \A q \in 1 .. n : probes[q].sim \in Int

\* The first probe of the highest similarity.
Foremost(probes, n, q) ==
    /\ q \in 1 .. n
    /\ \A r \in 1 .. n : probes[r].sim < probes[q].sim
                         \/ (probes[r].sim = probes[q].sim /\ q <= r)

Closer(probes) ==
    {p \in (DOMAIN probes) \X (DOMAIN probes) :
        \/ probes[p[1]].sim > probes[p[2]].sim
        \/ probes[p[1]].sim = probes[p[2]].sim /\ p[1] < p[2]}

LEMMA ForemostExists ==
    ASSUME NEW probes, NEW n, Probing(probes, n)
    PROVE  \E q : Foremost(probes, n, q)
<1> DEFINE R == Closer(probes)
           P == 1 .. n
<1>1. n \in Nat \ {0} /\ DOMAIN probes = 1 .. n /\ \A q \in P : q \in Int /\ probes[q].sim \in Int
  BY DEF Probing
<1>2. \A q, r \in P : <<q, r>> \in R <=>
          probes[q].sim > probes[r].sim \/ (probes[q].sim = probes[r].sim /\ q < r)
  BY <1>1 DEF Closer
<1>3. IsFiniteSet(P) /\ Cardinality(P) = n
  BY <1>1, UpToFinite
<1> HIDE DEF R, P
<1>4. Orders(R, P)
  <2>1. \A q \in P : <<q, q>> \notin R
    BY <1>1, <1>2
  <2>2. ASSUME NEW q \in P, NEW r \in P, NEW s \in P, <<q, r>> \in R, <<r, s>> \in R
        PROVE  <<q, s>> \in R
    BY <1>1, <1>2, <2>2
  <2>3. ASSUME NEW q \in P, NEW r \in P
        PROVE  q = r \/ <<q, r>> \in R \/ <<r, q>> \in R
    <3>1. /\ probes[q].sim \in Int /\ probes[r].sim \in Int
          /\ q < r \/ r < q \/ q = r
      BY <1>1
    <3>2. probes[q].sim > probes[r].sim \/ probes[r].sim > probes[q].sim \/ probes[q].sim = probes[r].sim
      BY <3>1
    <3> QED BY <1>2, <3>1, <3>2
  <2> QED BY <2>1, <2>2, <2>3 DEF Orders
<1>5. PICK q \in P : Cardinality(Before(R, P, q)) = 0
  <2>1. 1 \in 1 .. Cardinality(P)
    BY <1>1, <1>3
  <2>2. \E q \in P : Cardinality(Before(R, P, q)) = 1 - 1
    BY <1>3, <1>4, <2>1, RanksOnce
  <2> QED BY <2>2
<1>6. Before(R, P, q) = {}
  BY <1>3, <1>5, BeforeFinite, FS_EmptySet
<1>7. \A r \in P : <<r, q>> \notin R
  BY <1>6 DEF Before
<1>8. \A r \in P : probes[r].sim < probes[q].sim \/ (probes[r].sim = probes[q].sim /\ q <= r)
  <2> SUFFICES ASSUME NEW r \in P
               PROVE  probes[r].sim < probes[q].sim \/ (probes[r].sim = probes[q].sim /\ q <= r)
    OBVIOUS
  <2>1. q \in Int /\ r \in Int /\ probes[q].sim \in Int /\ probes[r].sim \in Int
    BY <1>1
  <2>2. ~ (probes[r].sim > probes[q].sim) /\ ~ (probes[r].sim = probes[q].sim /\ r < q)
    BY <1>2, <1>7
  <2> QED BY <2>1, <2>2
<1>9. Foremost(probes, n, q)
  BY <1>5, <1>8 DEF Foremost, P
<1> QED BY <1>9

LEMMA BestProbeIs ==
    ASSUME NEW probes, NEW n, Probing(probes, n)
    PROVE  \E q : Foremost(probes, n, q) /\ BestProbe(probes) = probes[q]
<1> DEFINE Best(q) == \A r \in DOMAIN probes : probes[r].sim < probes[q].sim
                                   \/ (probes[r].sim = probes[q].sim /\ q <= r)
           q == CHOOSE q \in DOMAIN probes : Best(q)
<1>1. DOMAIN probes = 1 .. n
  BY DEF Probing
<1>2. \E x \in DOMAIN probes : Best(x)
  BY <1>1, ForemostExists DEF Foremost
<1>3. BestProbe(probes) = probes[q]
  BY Zenon DEF BestProbe
<1> HIDE DEF Best
<1>4. q \in DOMAIN probes /\ Best(q)
  BY <1>2, Zenon
<1>5. Foremost(probes, n, q)
  <2> HIDE DEF q
  <2> QED BY <1>1, <1>4 DEF Foremost, Best
<1> QED BY <1>3, <1>5

\* What a candidate needs to be taken, in the words of the property.
Vouches(i, probes, reg) ==
    \E q \in DOMAIN probes[i] :
        /\ probes[i][q].sim = Max({probes[i][s].sim : s \in DOMAIN probes[i]})
        /\ Max({probes[i][s].sim : s \in DOMAIN probes[i]}) >= Threshold
        /\ \A r \in 1 .. q - 1 : probes[i][r].sim < Max({probes[i][s].sim : s \in DOMAIN probes[i]})
        /\ probes[i][q].slot \in Slots(reg[i])
        /\ \A j \in 1 .. i - 1 : probes[i][q].slot \notin Slots(reg[j])

LEMMA TakenVouches ==
    ASSUME NEW probes, NEW reg, NEW N \in Nat, DOMAIN reg = 1 .. N, NEW i \in 1 .. N,
           NEW n, Probing(probes[i], n)
    PROVE  Taken(i, probes, reg) <=> Vouches(i, probes, reg)
<1> DEFINE p == probes[i]
           T == {p[s].sim : s \in DOMAIN p}
<1>1. PICK q : Foremost(p, n, q) /\ BestProbe(p) = p[q]
  BY BestProbeIs
<1>2. n \in Nat \ {0} /\ DOMAIN p = 1 .. n /\ \A s \in 1 .. n : p[s].sim \in Int
  BY DEF Probing
<1>3. /\ q \in 1 .. n
      /\ \A r \in 1 .. n : p[r].sim < p[q].sim \/ (p[r].sim = p[q].sim /\ q <= r)
  BY <1>1 DEF Foremost
<1>4. p # GateFails
  <2>1. DOMAIN GateFails = 1 .. 0
    BY DEF GateFails
  <2>2. 1 \in DOMAIN p /\ 1 \notin 1 .. 0
    BY <1>2
  <2> HIDE DEF p
  <2> QED BY <2>1, <2>2
<1>5. Verified(i, p, reg) <=> /\ p[q].slot \in Slots(reg[i])
                              /\ \A j \in 1 .. i - 1 : p[q].slot \notin Slots(reg[j])
                              /\ p[q].sim >= Threshold
  <2>1. Verified(i, p, reg) <=> Owner(p[q].slot, reg) = i /\ p[q].sim >= Threshold
    BY <1>1 DEF Verified
  <2> QED BY <2>1, OwnerIs
<1> HIDE DEF p
<1>6. Max(T) = p[q].sim
  <2>1. T \subseteq Int /\ p[q].sim \in T /\ \A x \in T : x <= p[q].sim
    BY <1>2, <1>3
  <2> HIDE DEF T
  <2> QED BY <2>1, GreatestIs
<1>7. \A s \in 1 .. n : /\ p[s].sim = p[q].sim
                        /\ \A r \in 1 .. s - 1 : p[r].sim < p[q].sim
                        => s = q
  <2> SUFFICES ASSUME NEW s \in 1 .. n, p[s].sim = p[q].sim,
                      \A r \in 1 .. s - 1 : p[r].sim < p[q].sim
               PROVE  s = q
    OBVIOUS
  <2>1. q <= s /\ p[q].sim \in Int
    BY <1>2, <1>3
  <2>2. ~ (q \in 1 .. s - 1)
    BY <2>1
  <2> QED BY <1>3, <2>1, <2>2
<1>8. \A r \in 1 .. q - 1 : p[r].sim < p[q].sim
  BY <1>2, <1>3
<1> HIDE DEF T
<1>9. Vouches(i, probes, reg) <=>
          \E s \in 1 .. n : /\ p[s].sim = p[q].sim
                            /\ p[q].sim >= Threshold
                            /\ \A r \in 1 .. s - 1 : p[r].sim < p[q].sim
                            /\ p[s].slot \in Slots(reg[i])
                            /\ \A j \in 1 .. i - 1 : p[s].slot \notin Slots(reg[j])
  BY <1>2, <1>6, Zenon DEF Vouches, p, T
<1>10. Vouches(i, probes, reg) <=>
          /\ p[q].sim >= Threshold
          /\ p[q].slot \in Slots(reg[i])
          /\ \A j \in 1 .. i - 1 : p[q].slot \notin Slots(reg[j])
  BY <1>3, <1>7, <1>8, <1>9
<1> QED BY <1>4, <1>5, <1>10 DEF Taken, p

\* The candidates, in the words of the property.
Eligible(reg) ==
    {i \in DOMAIN reg : reg[i].live /\ reg[i].score > 0
        /\ Cardinality({j \in DOMAIN reg : reg[j].live /\ reg[j].score > 0
                            /\ RanksBefore(reg[j], reg[i])}) < MaxCandidates}

\* c lists the candidates, best first.
ListsCandidates(c, k, reg) ==
    /\ k \in Nat /\ c \in [1 .. k -> Eligible(reg)] /\ Len(c) = k
    /\ \A i \in Eligible(reg) : \E r \in 1 .. k : c[r] = i
    /\ \A q, r \in 1 .. k : q < r => RanksBefore(reg[c[q]], reg[c[r]])

LEMMA CandidatesListed ==
    ASSUME NEW reg, NEW N, Registry(reg, N)
    PROVE  \E k : ListsCandidates(CandidateMemories(reg), k, reg)
<1> DEFINE c == CandidateMemories(reg)
<1>1. PICK m, e : Ranks(reg, m, e)
  BY CandidatesRank
<1> DEFINE k == MinOf(m, MaxCandidates)
<1>2. /\ m \in Nat /\ e \in [1 .. m -> Scoring(reg)]
      /\ \A i \in Scoring(reg) : \E r \in 1 .. m : e[r] = i
      /\ \A q, r \in 1 .. m : q < r => RanksBefore(reg[e[q]], reg[e[r]])
      /\ \A r \in 1 .. m :
            Cardinality({j \in Scoring(reg) : RanksBefore(reg[j], reg[e[r]])}) = r - 1
      /\ c = Take(e, MaxCandidates)
  BY <1>1 DEF Ranks
<1>3. MaxCandidates \in Nat \ {0}
  BY PlanAssumption
<1>4. Begins(c, e, k, Scoring(reg))
  BY <1>2, <1>3, TakeIs
<1>5. k \in 0 .. m /\ k \in Nat /\ \A r \in 1 .. m : r \in 1 .. k <=> r - 1 < MaxCandidates
  BY <1>2, <1>3 DEF MinOf
<1> HIDE DEF c, k
<1>6. c \in [1 .. k -> Scoring(reg)] /\ \A r \in 1 .. k : c[r] = e[r] /\ r \in 1 .. m
  <2>1. c \in [1 .. k -> Scoring(reg)] /\ \A r \in 1 .. k : c[r] = e[r]
    BY <1>4 DEF Begins
  <2>2. \A r \in 1 .. k : r \in 1 .. m
    BY <1>2, <1>5
  <2> QED BY <2>1, <2>2
<1>7. \A i : i \in Eligible(reg) <=>
          /\ i \in Scoring(reg)
          /\ Cardinality({j \in Scoring(reg) : RanksBefore(reg[j], reg[i])}) < MaxCandidates
  <2> SUFFICES ASSUME NEW i
               PROVE  i \in Eligible(reg) <=>
                        /\ i \in Scoring(reg)
                        /\ Cardinality({j \in Scoring(reg) : RanksBefore(reg[j], reg[i])}) < MaxCandidates
    OBVIOUS
  <2>1. {j \in DOMAIN reg : reg[j].live /\ reg[j].score > 0 /\ RanksBefore(reg[j], reg[i])}
            = {j \in Scoring(reg) : RanksBefore(reg[j], reg[i])}
    BY DEF Scoring
  <2>2. i \in Scoring(reg) <=> i \in DOMAIN reg /\ reg[i].live /\ reg[i].score > 0
    BY DEF Scoring
  <2> QED BY <2>1, <2>2, Zenon DEF Eligible
<1>8. \A r \in 1 .. m : e[r] \in Eligible(reg) <=> r \in 1 .. k
  <2> SUFFICES ASSUME NEW r \in 1 .. m PROVE e[r] \in Eligible(reg) <=> r \in 1 .. k
    OBVIOUS
  <2> DEFINE x == e[r]
             B == Cardinality({j \in Scoring(reg) : RanksBefore(reg[j], reg[x])})
  <2>1. x \in Scoring(reg) /\ B = r - 1
    BY <1>2
  <2>2. x \in Eligible(reg) <=> x \in Scoring(reg) /\ B < MaxCandidates
    BY <1>7
  <2> HIDE DEF x, B
  <2>3. x \in Eligible(reg) <=> r \in 1 .. k
    BY <1>5, <2>1, <2>2
  <2> QED BY <2>3 DEF x
<1>9. c \in [1 .. k -> Eligible(reg)]
  BY <1>6, <1>8
<1>10. Len(c) = k
  BY <1>5, <1>6
<1>11. ASSUME NEW i \in Eligible(reg) PROVE \E r \in 1 .. k : c[r] = i
  <2>1. PICK r \in 1 .. m : e[r] = i
    BY <1>2, <1>7
  <2>2. r \in 1 .. k
    BY <1>8, <2>1
  <2> QED BY <1>6, <2>1, <2>2
<1>12. \A q, r \in 1 .. k : q < r => RanksBefore(reg[c[q]], reg[c[r]])
  BY <1>2, <1>6
<1>13. ListsCandidates(c, k, reg)
  BY <1>5, <1>9, <1>10, <1>11, <1>12 DEF ListsCandidates
<1> QED BY <1>13 DEF c

\* What the lane promises.
LaneRight(active, reg, probes, plan) ==
    /\ Len(plan.selected) <= MaxSelected
    /\ \A r \in DOMAIN plan.selected :
          plan.selected[r] \in Eligible(reg) /\ Vouches(plan.selected[r], probes, reg)
    /\ \A r, t \in DOMAIN plan.selected :
          r < t => RanksBefore(reg[plan.selected[r]], reg[plan.selected[t]])
    /\ ~active \/ plan.failed => plan.selected = << >>
    /\ active /\ (\A i \in Eligible(reg) : probes[i] # GateFails) =>
           \A i \in Eligible(reg) : Vouches(i, probes, reg) /\ i \notin ToSet(plan.selected) =>
               /\ Len(plan.selected) = MaxSelected
               /\ \A r \in DOMAIN plan.selected : RanksBefore(reg[plan.selected[r]], reg[i])

\* A request to plan: the gate of a memory raises or answers its probes.
IsPlan(reg, probes) ==
    \E N : /\ Registry(reg, N)
           /\ \A i \in 1 .. N : probes[i] = GateFails \/ \E n : Probing(probes[i], n)

LEMMA CandidatesVouch ==
    ASSUME NEW reg, NEW probes, IsPlan(reg, probes), NEW i \in Eligible(reg)
    PROVE  /\ Taken(i, probes, reg) => Vouches(i, probes, reg)
           /\ probes[i] # GateFails /\ Vouches(i, probes, reg) => Taken(i, probes, reg)
<1>1. PICK N : /\ Registry(reg, N)
               /\ \A j \in 1 .. N : probes[j] = GateFails \/ \E n : Probing(probes[j], n)
  BY DEF IsPlan
<1>2. N \in Nat /\ DOMAIN reg = 1 .. N
  BY <1>1 DEF Registry
<1>3. i \in 1 .. N
  BY <1>2 DEF Eligible
<1>4. CASE probes[i] = GateFails
  BY <1>4 DEF Taken
<1>5. CASE probes[i] # GateFails
  <2>1. PICK n : Probing(probes[i], n)
    BY <1>1, <1>3, <1>5
  <2> QED BY <1>2, <1>3, <2>1, TakenVouches
<1> QED BY <1>4, <1>5

LEMMA NoLaneIsRight ==
    ASSUME NEW reg, NEW probes, NEW plan, plan.selected = << >>, NEW active,
           active => \E i \in Eligible(reg) : probes[i] = GateFails
    PROVE  LaneRight(active, reg, probes, plan)
<1>1. Len(plan.selected) = 0 /\ \A r : r \notin DOMAIN plan.selected
  OBVIOUS
<1>2. Len(plan.selected) <= MaxSelected
  BY <1>1, PlanAssumption
<1> QED BY <1>1, <1>2, Zenon DEF LaneRight

LEMMA LaneIsRight ==
    ASSUME NEW reg, NEW probes, IsPlan(reg, probes), NEW c, NEW k, ListsCandidates(c, k, reg),
           NEW plan, NEW l, NEW g, InLane(c, k, plan, l, g, probes, reg)
    PROVE  LaneRight(TRUE, reg, probes, plan)
<1> DEFINE lane == plan.selected
           C == Eligible(reg)
<1>1. /\ k \in Nat /\ c \in [1 .. k -> C]
      /\ \A i \in C : \E r \in 1 .. k : c[r] = i
      /\ \A q, r \in 1 .. k : q < r => RanksBefore(reg[c[q]], reg[c[r]])
  BY DEF ListsCandidates
<1>2. /\ l \in 0 .. MaxSelected /\ g \in [1 .. l -> 1 .. k]
      /\ plan.failed = FALSE
      /\ lane = [t \in 1 .. l |-> c[g[t]]]
      /\ \A s, t \in 1 .. l : s < t => g[s] < g[t]
      /\ \A t \in 1 .. l : Taken(c[g[t]], probes, reg)
      /\ \A q \in 1 .. k : Taken(c[q], probes, reg) =>
            \/ \E t \in 1 .. l : g[t] = q
            \/ l = MaxSelected /\ \A t \in 1 .. l : g[t] < q
  BY DEF InLane
<1> HIDE DEF lane, C
<1>3. /\ l \in Nat /\ DOMAIN lane = 1 .. l /\ lane \in [1 .. l -> C]
      /\ \A t \in 1 .. l : lane[t] = c[g[t]] /\ g[t] \in 1 .. k
  BY <1>1, <1>2
<1>4. Len(lane) = l /\ l <= MaxSelected
  <2>1. Len(lane) = l
    BY <1>3
  <2> QED BY <1>2, <2>1, PlanAssumption
<1>5. ASSUME NEW r \in 1 .. l PROVE lane[r] \in C /\ Vouches(lane[r], probes, reg)
  <2>1. lane[r] \in C /\ Taken(lane[r], probes, reg)
    BY <1>2, <1>3
  <2> QED BY <2>1, CandidatesVouch DEF C
<1>6. \A r, t \in 1 .. l : r < t => RanksBefore(reg[lane[r]], reg[lane[t]])
  BY <1>1, <1>2, <1>3
<1>7. ASSUME \A i \in C : probes[i] # GateFails, NEW i \in C,
             Vouches(i, probes, reg), i \notin ToSet(lane)
      PROVE  /\ l = MaxSelected
             /\ \A r \in 1 .. l : RanksBefore(reg[lane[r]], reg[i])
  <2>1. Taken(i, probes, reg)
    BY <1>7, CandidatesVouch DEF C
  <2>2. PICK q \in 1 .. k : c[q] = i
    BY <1>1
  <2>3. ~ \E t \in 1 .. l : g[t] = q
    <3>1. \A t \in 1 .. l : lane[t] # i
      BY <1>3, <1>7 DEF ToSet
    <3> QED BY <1>3, <2>2, <3>1
  <2>4. l = MaxSelected /\ \A t \in 1 .. l : g[t] < q
    BY <1>2, <2>1, <2>2, <2>3
  <2> QED BY <1>1, <1>3, <2>2, <2>4
<1>8. /\ Len(lane) <= MaxSelected
      /\ \A r \in DOMAIN lane : lane[r] \in C /\ Vouches(lane[r], probes, reg)
      /\ \A r, t \in DOMAIN lane : r < t => RanksBefore(reg[lane[r]], reg[lane[t]])
  BY <1>3, <1>4, <1>5, <1>6
<1>9. (\A i \in C : probes[i] # GateFails) =>
          \A i \in C : Vouches(i, probes, reg) /\ i \notin ToSet(lane) =>
             /\ Len(lane) = MaxSelected
             /\ \A r \in DOMAIN lane : RanksBefore(reg[lane[r]], reg[i])
  BY <1>3, <1>4, <1>7
<1> QED BY <1>2, <1>8, <1>9, Zenon DEF LaneRight, lane, C

LEMMA PlanIsRight ==
    ASSUME NEW reg, NEW probes, IsPlan(reg, probes), NEW active \in BOOLEAN
    PROVE  LaneRight(active, reg, probes, Plan(active, reg, probes))
<1> DEFINE c == CandidateMemories(reg)
           plan == Plan(active, reg, probes)
<1>1. CASE active = FALSE
  <2>1. plan.selected = << >>
    BY <1>1 DEF Plan, NothingPlanned
  <2> QED BY <1>1, <2>1, NoLaneIsRight
<1>2. CASE active = TRUE
  <2>1. PICK N : Registry(reg, N)
    BY DEF IsPlan
  <2>2. PICK k : ListsCandidates(c, k, reg)
    BY <2>1, CandidatesListed
  <2>3. k \in Nat /\ c \in [1 .. k -> Eligible(reg)] /\ Len(c) = k
    BY <2>2 DEF ListsCandidates
  <2>4. plan = PlanLoop(c, probes, reg)
    BY <1>2 DEF Plan
  <2> HIDE DEF c, plan
  <2>5. Planned(c, k, plan, probes, reg)
    BY <2>3, <2>4, PlanLoopIs
  <2>6. CASE GateFailed(c, k, plan, probes)
    <3>1. plan.selected = << >> /\ \E q \in 1 .. k : probes[c[q]] = GateFails
      BY <2>6 DEF GateFailed
    <3>2. \E i \in Eligible(reg) : probes[i] = GateFails
      BY <2>3, <3>1
    <3> QED BY <3>1, <3>2, NoLaneIsRight DEF plan
  <2>7. CASE \E l, g : InLane(c, k, plan, l, g, probes, reg)
    <3>1. LaneRight(TRUE, reg, probes, plan)
      BY <2>2, <2>7, LaneIsRight
    <3> QED BY <1>2, <3>1 DEF plan
  <2> QED BY <2>5, <2>6, <2>7 DEF Planned
<1> QED BY <1>1, <1>2

LEMMA OwnerAttributed ==
    ASSUME NEW reg, NEW N \in Nat, DOMAIN reg = 1 .. N, NEW gate, NEW i \in 1 .. N,
           Owner(gate.slot, reg) = i
    PROVE  Attribution(gate, reg).memory = i
<1> DEFINE matches == {k \in DOMAIN reg : \/ gate.slot = reg[k].native
                                          \/ gate.slot = reg[k].chat
                                          \/ gate.slot \in ToSet(reg[k].canonical)}
<1>1. /\ gate.slot \in Slots(reg[i])
      /\ \A j \in 1 .. i - 1 : gate.slot \notin Slots(reg[j])
  BY OwnerIs
<1>2. \A k \in 1 .. N : k \in matches <=> gate.slot \in Slots(reg[k])
  BY <1>1 DEF Slots
<1>3. \A k \in matches : k \in 1 .. N
  OBVIOUS
<1>4. Attribution(gate, reg).memory =
          IF matches = {} THEN 0 ELSE CHOOSE k \in matches : \A j \in matches : k <= j
  BY DEF Attribution
<1> HIDE DEF matches
<1>5. i \in matches /\ \A j \in matches : i <= j
  <2>1. ASSUME NEW j \in matches PROVE i <= j
    <3>1. j \in 1 .. N /\ ~ (j \in 1 .. i - 1)
      BY <1>1, <1>2, <1>3, <2>1
    <3> QED BY <3>1
  <2> QED BY <1>1, <1>2, <2>1
<1>6. PICK x : x = CHOOSE k \in matches : \A j \in matches : k <= j
  OBVIOUS
<1>7. x \in matches /\ \A j \in matches : x <= j
  BY <1>5, <1>6, Zenon
<1>8. x = i
  BY <1>3, <1>5, <1>7
<1>9. matches # {}
  BY <1>5
<1> QED BY <1>4, <1>6, <1>8, <1>9, Zenon

\* A memory that is taken is the one that its best probe is attributed to.
LEMMA TakenAttributed ==
    ASSUME NEW reg, NEW probes, IsPlan(reg, probes), NEW i \in Eligible(reg),
           Vouches(i, probes, reg),
           NEW gate, gate.slot = BestProbe(probes[i]).slot, gate.sim = BestProbe(probes[i]).sim
    PROVE  /\ Attribution(gate, reg).memory = i
           /\ gate.sim # Threshold => Attribution(gate, reg).hit
<1>1. PICK N : /\ Registry(reg, N)
               /\ \A j \in 1 .. N : probes[j] = GateFails \/ \E n : Probing(probes[j], n)
  BY DEF IsPlan
<1>2. N \in Nat /\ DOMAIN reg = 1 .. N
  BY <1>1 DEF Registry
<1>3. i \in 1 .. N
  BY <1>2 DEF Eligible
<1>4. probes[i] # GateFails
  <2>1. PICK q : q \in DOMAIN probes[i]
    BY DEF Vouches
  <2> QED BY <2>1 DEF GateFails
<1>5. PICK n : Probing(probes[i], n)
  BY <1>1, <1>3, <1>4
<1>6. Owner(gate.slot, reg) = i /\ gate.sim >= Threshold
  BY <1>4, CandidatesVouch DEF Taken, Verified
<1>7. gate.sim \in Int
  <2>1. PICK q : Foremost(probes[i], n, q) /\ BestProbe(probes[i]) = probes[i][q]
    BY <1>5, BestProbeIs
  <2> QED BY <1>5, <2>1 DEF Foremost, Probing
<1>8. gate.sim # Threshold => gate.sim > Threshold
  BY <1>6, <1>7, PlanAssumption
<1>9. Attribution(gate, reg).hit = (gate.sim > Threshold)
  BY DEF Attribution
<1> QED BY <1>2, <1>3, <1>6, <1>8, <1>9, OwnerAttributed

\* What the last call asked of the planner.
Requested ==
    call.op = "plan" => /\ IsPlan(call.registry, call.probes)
                        /\ call.editActive \in BOOLEAN

LEMMA SomeProbesAre ==
    ASSUME NEW i, NEW p \in SomeProbes(i)
    PROVE  p = GateFails \/ Probing(p, 2)
<1>1. Threshold \in Int /\ Threshold - 1 \in Int
  BY PlanAssumption
<1>2. \A x, y : x.sim \in Int /\ y.sim \in Int => Probing(<<x, y>>, 2)
  BY DEF Probing
<1>3. \/ p = GateFails
      \/ p = <<[sim |-> Threshold, slot |-> 1], [sim |-> Threshold, slot |-> i]>>
      \/ p = <<[sim |-> Threshold, slot |-> 20 + i], [sim |-> Threshold, slot |-> 10 + i]>>
      \/ \E sim \in {Threshold - 1, Threshold}, slot \in {1, 10 + i, 20 + i} :
            p = <<[sim |-> sim, slot |-> slot], [sim |-> 0, slot |-> i]>>
  BY DEF SomeProbes
<1>4. CASE p = <<[sim |-> Threshold, slot |-> 1], [sim |-> Threshold, slot |-> i]>>
  BY <1>1, <1>2, <1>4
<1>5. CASE p = <<[sim |-> Threshold, slot |-> 20 + i], [sim |-> Threshold, slot |-> 10 + i]>>
  BY <1>1, <1>2, <1>5
<1>6. CASE \E sim \in {Threshold - 1, Threshold}, slot \in {1, 10 + i, 20 + i} :
              p = <<[sim |-> sim, slot |-> slot], [sim |-> 0, slot |-> i]>>
  <2>1. PICK sim \in {Threshold - 1, Threshold}, slot \in {1, 10 + i, 20 + i} :
            p = <<[sim |-> sim, slot |-> slot], [sim |-> 0, slot |-> i]>>
    BY <1>6
  <2>2. sim \in Int
    BY <1>1
  <2> QED BY <1>2, <2>1, <2>2
<1> QED BY <1>3, <1>4, <1>5, <1>6

LEMMA SomeMemoryIs ==
    ASSUME NEW i \in Nat, NEW m \in SomeMemory(i)
    PROVE  m.score \in Nat /\ m.ts \in Nat /\ m.id = i
<1>1. PICK native \in {i, 1}, score \in 0 .. 2, live \in BOOLEAN :
          m = [native |-> native, chat |-> 10 + i, canonical |-> <<20 + i>>, score |-> score,
               ts |-> 0, id |-> i, live |-> live]
  BY DEF SomeMemory
<1>2. m.score = score /\ m.ts = 0 /\ m.id = i
  BY <1>1
<1> QED BY <1>2

LEMMA PlanCallIs ==
    ASSUME PlanScenario
    PROVE  IsPlan(call'.registry, call'.probes) /\ call'.editActive \in BOOLEAN
<1>1. PICK m1 \in SomeMemory(1), m2 \in SomeMemory(2),
           p1 \in SomeProbes(1), p2 \in SomeProbes(2), editActive \in BOOLEAN :
          call' = [op |-> "plan", editActive |-> editActive,
                   registry |-> <<m1, m2, Steady(3), Steady(4)>>,
                   probes |-> <<p1, p2, <<[sim |-> Threshold + 1, slot |-> 13]>>,
                                        <<[sim |-> Threshold + 1, slot |-> 14]>>>>]
  BY Zenon DEF PlanScenario
<1> DEFINE p3 == <<[sim |-> Threshold + 1, slot |-> 13]>>
           p4 == <<[sim |-> Threshold + 1, slot |-> 14]>>
           reg == <<m1, m2, Steady(3), Steady(4)>>
           probes == <<p1, p2, p3, p4>>
<1>2. call'.registry = reg /\ call'.probes = probes /\ call'.editActive = editActive
  BY <1>1
<1>3. /\ Steady(3).score = 1 /\ Steady(3).ts = 3 /\ Steady(3).id = 3
      /\ Steady(4).score = 1 /\ Steady(4).ts = 4 /\ Steady(4).id = 4
  BY DEF Steady
<1>4. /\ m1.score \in Nat /\ m1.ts \in Nat /\ m1.id = 1
      /\ m2.score \in Nat /\ m2.ts \in Nat /\ m2.id = 2
  BY SomeMemoryIs
<1>5. /\ DOMAIN reg = 1 .. 4
      /\ reg[1] = m1 /\ reg[2] = m2 /\ reg[3] = Steady(3) /\ reg[4] = Steady(4)
  OBVIOUS
<1> HIDE DEF reg
<1>6. \A i \in 1 .. 4 : reg[i].score \in Nat /\ reg[i].ts \in Nat /\ reg[i].id = i
  <2>1. \A i \in 1 .. 4 : i = 1 \/ i = 2 \/ i = 3 \/ i = 4
    OBVIOUS
  <2>2. 1 \in Nat /\ 3 \in Nat /\ 4 \in Nat
    OBVIOUS
  <2> QED BY <1>3, <1>4, <1>5, <2>1, <2>2, Zenon
<1>7. Registry(reg, 4)
  BY <1>5, <1>6 DEF Registry
<1>8. Probing(p3, 1) /\ Probing(p4, 1)
  BY PlanAssumption DEF Probing
<1>9. probes[1] = p1 /\ probes[2] = p2 /\ probes[3] = p3 /\ probes[4] = p4
  OBVIOUS
<1> HIDE DEF p3, p4, probes
<1>10. \A i \in 1 .. 4 : probes[i] = GateFails \/ \E n : Probing(probes[i], n)
  <2>1. \A i \in 1 .. 4 : i = 1 \/ i = 2 \/ i = 3 \/ i = 4
    OBVIOUS
  <2>2. /\ p1 = GateFails \/ Probing(p1, 2)
        /\ p2 = GateFails \/ Probing(p2, 2)
    BY SomeProbesAre
  <2> QED BY <1>8, <1>9, <2>1, <2>2, Zenon
<1>11. IsPlan(reg, probes)
  BY <1>7, <1>10 DEF IsPlan
<1> QED BY <1>2, <1>11

LEMMA RequestedHolds == Spec => []Requested
<1>1. Init => Requested
  BY DEF Init, Requested
<1>2. Requested /\ [Next]_call => Requested'
  <2>1. CASE UNCHANGED call
    BY <2>1 DEF Requested
  <2>2. CASE Next
    BY <2>2, CallOf, PlanCallIs DEF Requested
  <2> QED BY <2>1, <2>2
<1> QED BY <1>1, <1>2, PTL DEF Spec

LEMMA RequestedIsSound ==
    ASSUME Requested
    PROVE  LaneSound
<1> SUFFICES ASSUME call.op = "plan" PROVE LaneSound
  BY DEF LaneSound, LaneIsVerified, LaneIsAttributed
<1> DEFINE reg == call.registry
           probes == call.probes
           active == call.editActive
           plan == Plan(active, reg, probes)
           lane == plan.selected
           shown == Response(plan, probes)
<1>1. IsPlan(reg, probes) /\ active \in BOOLEAN
  BY DEF Requested
<1>2. LaneRight(active, reg, probes, plan)
  BY <1>1, PlanIsRight
<1>3. LaneIsVerified
  BY <1>2, Zenon DEF LaneIsVerified, LaneRight, Eligible, Vouches
<1>4. DOMAIN shown = DOMAIN lane
  BY DEF Response
<1>5. ASSUME NEW r \in DOMAIN lane,
             NEW gate, gate = [sim |-> shown[r].similarity, slot |-> shown[r].slot]
      PROVE  /\ Attribution(gate, reg).memory = shown[r].memory
             /\ gate.sim # Threshold => Attribution(gate, reg).hit
  <2> DEFINE i == lane[r]
  <2>1. /\ shown[r].memory = i
        /\ shown[r].similarity = BestProbe(probes[i]).sim
        /\ shown[r].slot = BestProbe(probes[i]).slot
    BY DEF Response
  <2>2. i \in Eligible(reg) /\ Vouches(i, probes, reg)
    BY <1>2, <1>5 DEF LaneRight
  <2> HIDE DEF i, shown, lane, plan, reg, probes, active
  <2>3. gate.slot = BestProbe(probes[i]).slot /\ gate.sim = BestProbe(probes[i]).sim
    BY <1>5, <2>1
  <2>4. /\ Attribution(gate, reg).memory = i
        /\ gate.sim # Threshold => Attribution(gate, reg).hit
    BY <1>1, <2>2, <2>3, TakenAttributed
  <2> QED BY <2>1, <2>4
<1>6. LaneIsAttributed
  BY <1>4, <1>5, Zenon DEF LaneIsAttributed
<1> QED BY <1>3, <1>6 DEF LaneSound

\* Whatever the gates answer, wherever the threshold lies and however much the lane
\* may hold, the private lane is the best of what the adapter vouches for, and the
\* attribution of what is shown beside it leads back to the same memories.
THEOREM LaneSoundHolds == Spec => []LaneSound
<1>1. Requested => LaneSound
  BY RequestedIsSound
<1> QED BY <1>1, RequestedHolds, PTL

----
\* Prototypes

\* Unless a gate fails, the lane is the beginning of the candidates that are taken.
AllTaken(T, c, n, probes, reg) ==
    /\ n \in Nat
    /\ Len(c) = n
    /\ \E S : c \in [1 .. n -> S]
    /\ \A r \in 1 .. n : probes[c[r]] # GateFails
    /\ \A r : r \in T <=> r \in 1 .. n /\ Taken(c[r], probes, reg)

LEMMA LaneIsTaken ==
    ASSUME NEW T, NEW c, NEW n, NEW probes, NEW reg, AllTaken(T, c, n, probes, reg)
    PROVE  PlanLoop(c, probes, reg).selected = Take(Picked(c, T), MaxSelected)
<1> DEFINE plan == PlanLoop(c, probes, reg)
           p == Picked(c, T)
<1>0. PICK S : n \in Nat /\ c \in [1 .. n -> S] /\ Len(c) = n
  BY DEF AllTaken
<1>1. Planned(c, n, plan, probes, reg)
  BY <1>0, PlanLoopIs
<1>2. PICK l, g : InLane(c, n, plan, l, g, probes, reg)
  BY <1>1 DEF Planned, GateFailed, AllTaken
<1> HIDE DEF plan
<1>3. /\ l \in 0 .. MaxSelected /\ g \in [1 .. l -> 1 .. n]
      /\ plan.selected = [t \in 1 .. l |-> c[g[t]]]
      /\ \A s, t \in 1 .. l : s < t => g[s] < g[t]
      /\ \A t \in 1 .. l : Taken(c[g[t]], probes, reg)
      /\ \A q \in 1 .. n : Taken(c[q], probes, reg) =>
            \/ \E t \in 1 .. l : g[t] = q
            \/ l = MaxSelected /\ \A t \in 1 .. l : g[t] < q
  BY <1>2 DEF InLane
<1>4. MaxSelected \in Nat /\ l \in Nat /\ l <= MaxSelected
  BY <1>0, <1>3, PlanAssumption
<1>5. T \in SUBSET (1 .. n) /\ T \subseteq Int
  <2>1. \A r \in T : r \in 1 .. n
    BY DEF AllTaken
  <2>2. T \subseteq 1 .. n
    BY <2>1
  <2> QED BY <2>2
<1>6. IsFiniteSet(T)
  <2>1. IsFiniteSet(1 .. n)
    BY <1>0, UpToFinite
  <2> QED BY <1>5, <2>1, FS_Subset
<1>7. PICK m, e : Picking(c, T, m, e)
  BY <1>0, <1>5, <1>6, PickedBy
<1>8. /\ m \in Nat
      /\ \A r \in 1 .. m : e[r] \in T
      /\ \A i \in T : \E r \in 1 .. m : e[r] = i
      /\ \A q, r \in 1 .. m : q < r => e[q] < e[r]
      /\ p = Through(c, e, m)
  BY <1>7 DEF Picking
<1> HIDE DEF p
<1>9. \A r \in 1 .. m : e[r] \in Int /\ e[r] \in 1 .. n /\ Taken(c[e[r]], probes, reg)
  BY <1>0, <1>5, <1>8 DEF AllTaken
<1>10. \A t \in 1 .. l : g[t] \in 1 .. n /\ g[t] \in T
  BY <1>3 DEF AllTaken
<1>11. \A t \in 1 .. l : t \in 1 .. m /\ g[t] = e[t]
  <2>1. \A t \in 1 .. l : \E r \in 1 .. m : e[r] = g[t]
    BY <1>8, <1>10
  <2>2. ASSUME NEW r \in 1 .. m, NEW t \in 1 .. l, e[r] <= g[t]
        PROVE  \E u \in 1 .. l : g[u] = e[r]
    <3>1. ~ (g[t] < e[r])
      BY <1>9, <1>10, <2>2
    <3> QED BY <1>3, <1>9, <3>1
  <2>3. Gapless(g, l, e, m)
    BY <1>3, <1>8, <1>9, <2>1, <2>2 DEF Gapless
  <2> QED BY <1>4, <1>8, <2>3, ListBegins
<1>12. l = MinOf(m, MaxSelected)
  <2>1. l <= m
    <3>1. l = 0 \/ l \in 1 .. l
      BY <1>4
    <3> QED BY <1>4, <1>8, <1>11, <3>1
  <2>2. ASSUME l # MaxSelected PROVE m <= l
    <3>1. m = 0 \/ m \in 1 .. m
      BY <1>8
    <3>2. ASSUME m \in 1 .. m PROVE m <= l
      <4>1. PICK t \in 1 .. l : g[t] = e[m]
        BY <1>3, <1>9, <2>2, <3>2
      <4>2. t \in 1 .. m /\ e[t] = e[m]
        BY <1>11, <4>1
      <4>3. ~ (t < m)
        <5> SUFFICES ASSUME t < m PROVE FALSE
          OBVIOUS
        <5>1. e[t] < e[m] /\ e[m] \in Int
          BY <1>8, <1>9, <3>2, <4>2
        <5> QED BY <4>2, <5>1
      <4> QED BY <1>8, <4>2, <4>3
    <3> QED BY <1>4, <3>1, <3>2
  <2> QED BY <1>4, <1>8, <2>1, <2>2 DEF MinOf
<1>13. p \in [1 .. m -> S] /\ \A r \in 1 .. m : p[r] = c[e[r]]
  BY <1>0, <1>8, <1>9, ThroughIs DEF Through
<1>14. Begins(Take(p, MaxSelected), p, l, S)
  BY <1>4, <1>8, <1>12, <1>13, TakeIs
<1> DEFINE t == Take(p, MaxSelected)
<1>15. t \in [1 .. l -> S] /\ \A r \in 1 .. l : t[r] = p[r]
  BY <1>14 DEF Begins
<1> HIDE DEF t
<1>16. \A r \in 1 .. l : t[r] = c[g[r]]
  BY <1>11, <1>13, <1>15
<1>17. t = plan.selected
  BY <1>3, <1>15, <1>16
<1> QED BY <1>17 DEF t, p, plan

\* An alias that hits a row of its own, and no probe scores higher.
LEMMA AliasTakes ==
    ASSUME NEW probes, NEW reg, NEW i, NEW n, Probing(probes[i], n),
           AliasHits(i, probes[i][1], reg),
           \A q \in DOMAIN probes[i] : probes[i][q].sim <= probes[i][1].sim
    PROVE  Verified(i, probes[i], reg)
<1> DEFINE p == probes[i]
<1>1. PICK q : Foremost(p, n, q) /\ BestProbe(p) = p[q]
  BY BestProbeIs
<1>2. n \in Nat \ {0} /\ DOMAIN p = 1 .. n /\ \A s \in 1 .. n : p[s].sim \in Int
  BY DEF Probing
<1>3. Owner(p[1].slot, reg) = i /\ p[1].sim >= Threshold
  BY DEF AliasHits, ProbeHits
<1> HIDE DEF p
<1>4. q = 1
  <2>1. /\ q \in 1 .. n /\ 1 \in 1 .. n
        /\ p[1].sim < p[q].sim \/ (p[1].sim = p[q].sim /\ q <= 1)
    BY <1>1, <1>2 DEF Foremost
  <2>2. p[q].sim <= p[1].sim /\ p[q].sim \in Int /\ p[1].sim \in Int
    BY <1>2, <2>1 DEF p
  <2> QED BY <2>1, <2>2
<1> QED BY <1>1, <1>3, <1>4 DEF Verified, p

\* Of the candidates that pass by an alias the loop leaves out only those that came
\* when the lane was full.
AliasesLead(c, probes, reg, plan) ==
    \A r \in DOMAIN c :
        (/\ probes[c[r]] # GateFails
         /\ AliasHits(c[r], probes[c[r]][1], reg)
         /\ \A q \in DOMAIN probes[c[r]] : probes[c[r]][q].sim <= probes[c[r]][1].sim)
        => \/ c[r] \in ToSet(plan.selected)
           \/ plan.failed
           \/ Len(plan.selected) = MaxSelected

LEMMA AliasesLeadIn ==
    ASSUME NEW reg, NEW probes, IsPlan(reg, probes)
    PROVE  AliasesLead(CandidateMemories(reg), probes, reg, Plan(TRUE, reg, probes))
<1> DEFINE c == CandidateMemories(reg)
           plan == Plan(TRUE, reg, probes)
<1>1. PICK N : /\ Registry(reg, N)
               /\ \A i \in 1 .. N : probes[i] = GateFails \/ \E n : Probing(probes[i], n)
  BY DEF IsPlan
<1>2. PICK k : ListsCandidates(c, k, reg)
  BY <1>1, CandidatesListed
<1>3. k \in Nat /\ c \in [1 .. k -> Eligible(reg)] /\ Len(c) = k
  BY <1>2 DEF ListsCandidates
<1>4. plan = PlanLoop(c, probes, reg)
  BY DEF Plan
<1> HIDE DEF c, plan
<1>5. Planned(c, k, plan, probes, reg)
  BY <1>3, <1>4, PlanLoopIs
<1>6. CASE GateFailed(c, k, plan, probes)
  <2>1. plan.failed
    BY <1>6 DEF GateFailed
  <2> QED BY <2>1 DEF AliasesLead, c, plan
<1>7. CASE \E l, g : InLane(c, k, plan, l, g, probes, reg)
  <2>1. PICK l, g : InLane(c, k, plan, l, g, probes, reg)
    BY <1>7
  <2>2. /\ l \in 0 .. MaxSelected /\ g \in [1 .. l -> 1 .. k]
        /\ plan.selected = [t \in 1 .. l |-> c[g[t]]]
        /\ \A q \in 1 .. k : Taken(c[q], probes, reg) =>
              \/ \E t \in 1 .. l : g[t] = q
              \/ l = MaxSelected /\ \A t \in 1 .. l : g[t] < q
    BY <2>1 DEF InLane
  <2>3. l \in Nat /\ DOMAIN plan.selected = 1 .. l /\ Len(plan.selected) = l
    BY <2>2, PlanAssumption
  <2> SUFFICES ASSUME NEW r \in 1 .. k,
                      probes[c[r]] # GateFails,
                      AliasHits(c[r], probes[c[r]][1], reg),
                      \A q \in DOMAIN probes[c[r]] : probes[c[r]][q].sim <= probes[c[r]][1].sim
               PROVE  c[r] \in ToSet(plan.selected) \/ Len(plan.selected) = MaxSelected
    BY <1>3 DEF AliasesLead, c, plan
  <2>4. c[r] \in 1 .. N
    BY <1>1, <1>3 DEF Eligible, Registry
  <2>5. PICK n : Probing(probes[c[r]], n)
    BY <1>1, <2>4
  <2>6. PICK i : i = c[r]
    OBVIOUS
  <2>7. Verified(i, probes[i], reg)
    BY <2>5, <2>6, AliasTakes
  <2>8. Taken(c[r], probes, reg)
    BY <2>6, <2>7 DEF Taken
  <2>9. CASE l = MaxSelected
    BY <2>3, <2>9
  <2>10. CASE \E t \in 1 .. l : g[t] = r
    <3>1. PICK t \in 1 .. l : g[t] = r
      BY <2>10
    <3>2. t \in DOMAIN plan.selected /\ plan.selected[t] = c[r]
      BY <2>2, <2>3, <3>1
    <3> QED BY <3>2 DEF ToSet
  <2> QED BY <2>2, <2>8, <2>9, <2>10
<1> QED BY <1>5, <1>6, <1>7 DEF Planned

\* A registry of two memories, whose gates answer two probes each.
Pair(reg, probes) ==
    /\ Registry(reg, 2)
    /\ DOMAIN probes = 1 .. 2
    /\ \A i \in 1 .. 2 : probes[i] # GateFails => Probing(probes[i], 2)

LEMMA FixtureTakes ==
    ASSUME NEW reg, NEW probes, Pair(reg, probes), GateFails \notin ToSet(probes),
           FixturePasses([i \in 1 .. 2 |-> probes[i][2]],
                         [i \in 1 .. 2 |-> <<probes[i][1]>>], reg)
    PROVE  \A i \in 1 .. 2 : Taken(i, probes, reg)
<1> DEFINE natural == [i \in 1 .. 2 |-> probes[i][2]]
           aliases == [i \in 1 .. 2 |-> <<probes[i][1]>>]
<1> SUFFICES ASSUME NEW i \in 1 .. 2 PROVE Taken(i, probes, reg)
  OBVIOUS
<1>1. DOMAIN reg = 1 .. 2 /\ DOMAIN probes = 1 .. 2
  BY DEF Pair, Registry
<1>2. probes[i] # GateFails
  BY <1>1 DEF ToSet
<1>3. Probing(probes[i], 2)
  BY <1>2 DEF Pair
<1>4. /\ natural[i] = probes[i][2] /\ aliases[i] = <<probes[i][1]>>
      /\ 1 \in DOMAIN aliases[i] /\ aliases[i][1] = probes[i][1]
  OBVIOUS
<1> HIDE DEF natural, aliases
<1>5. FixturePasses(natural, aliases, reg)
  BY DEF natural, aliases
<1>6. ProbeHits(i, natural[i], reg) /\ AliasHits(i, aliases[i][1], reg)
  BY <1>1, <1>4, <1>5, Zenon DEF FixturePasses
<1>7. \A q \in 1 .. 2 : ProbeHits(i, probes[i][q], reg)
  <2>1. ProbeHits(i, probes[i][2], reg) /\ ProbeHits(i, probes[i][1], reg)
    BY <1>4, <1>6 DEF AliasHits
  <2>2. \A q \in 1 .. 2 : q = 1 \/ q = 2
    OBVIOUS
  <2> QED BY <2>1, <2>2, Zenon
<1>8. PICK q : Foremost(probes[i], 2, q) /\ BestProbe(probes[i]) = probes[i][q]
  BY <1>3, BestProbeIs
<1>9. ProbeHits(i, probes[i][q], reg)
  BY <1>7, <1>8 DEF Foremost
<1> QED BY <1>2, <1>8, <1>9 DEF Taken, Verified, ProbeHits

LEMMA FixtureFills ==
    ASSUME NEW reg, NEW probes, Pair(reg, probes), GateFails \notin ToSet(probes),
           FixturePasses([i \in 1 .. 2 |-> probes[i][2]],
                         [i \in 1 .. 2 |-> <<probes[i][1]>>], reg)
    PROVE  Plan(TRUE, reg, probes).selected = Take(CandidateMemories(reg), MaxSelected)
<1> DEFINE c == CandidateMemories(reg)
<1>1. \A i \in 1 .. 2 : Taken(i, probes, reg)
  BY FixtureTakes
<1>2. Registry(reg, 2) /\ DOMAIN reg = 1 .. 2
  BY DEF Pair, Registry
<1>3. PICK k : ListsCandidates(c, k, reg)
  BY <1>2, CandidatesListed
<1>4. k \in Nat /\ c \in [1 .. k -> Eligible(reg)] /\ Len(c) = k
  BY <1>3 DEF ListsCandidates
<1>5. Plan(TRUE, reg, probes) = PlanLoop(c, probes, reg)
  BY DEF Plan
<1> HIDE DEF c
<1>6. \A r \in 1 .. k : Taken(c[r], probes, reg) /\ probes[c[r]] # GateFails
  BY <1>1, <1>2, <1>4 DEF Eligible, Taken
<1>7. c = [r \in 1 .. k |-> c[r]]
  BY <1>4
<1>8. Picked(c, 1 .. k) = c
  BY <1>4, <1>7, PickedAll
<1> DEFINE T == 1 .. k
<1>9. \A r : r \in T <=> r \in 1 .. k /\ Taken(c[r], probes, reg)
  BY <1>6
<1>10. \A r \in 1 .. k : probes[c[r]] # GateFails
  BY <1>6
<1>11. PlanLoop(c, probes, reg).selected = Take(Picked(c, T), MaxSelected)
  <2> HIDE DEF T
  <2>1. AllTaken(T, c, k, probes, reg)
    BY <1>4, <1>9, <1>10 DEF AllTaken
  <2> QED BY <2>1, LaneIsTaken
<1> QED BY <1>5, <1>8, <1>11 DEF c

LEMMA FirstTwo ==
    ASSUME NEW n \in Nat, 2 <= n, NEW s, s = [i \in 1 .. n |-> s[i]]
    PROVE  DOMAIN SubSeq(s, 1, 2) = 1 .. 2 /\ \A i \in 1 .. 2 : SubSeq(s, 1, 2)[i] = s[i]
<1> DEFINE S == {s[i] : i \in 1 .. n}
<1>1. s \in [1 .. n -> S]
  OBVIOUS
<1> HIDE DEF S
<1>2. s \in Seq(S) /\ Len(s) = n
  BY <1>1
<1> QED BY <1>2

\* What the last call asked of the planner begins with the fixture of spike v26.
HasFixture(reg, probes) ==
    \E N \in Nat :
        /\ 2 <= N
        /\ Registry(reg, N) /\ reg = [i \in 1 .. N |-> reg[i]]
        /\ probes = [i \in 1 .. N |-> probes[i]]
        /\ \A i \in 1 .. 2 : probes[i] # GateFails => Probing(probes[i], 2)

Fixed ==
    call.op = "plan" => HasFixture(call.registry, call.probes)

LEMMA FixtureCallIs ==
    ASSUME PlanScenario
    PROVE  HasFixture(call'.registry, call'.probes)
<1>1. IsPlan(call'.registry, call'.probes)
  BY PlanCallIs
<1>2. PICK m1 \in SomeMemory(1), m2 \in SomeMemory(2),
           p1 \in SomeProbes(1), p2 \in SomeProbes(2), editActive \in BOOLEAN :
          call' = [op |-> "plan", editActive |-> editActive,
                   registry |-> <<m1, m2, Steady(3), Steady(4)>>,
                   probes |-> <<p1, p2, <<[sim |-> Threshold + 1, slot |-> 13]>>,
                                        <<[sim |-> Threshold + 1, slot |-> 14]>>>>]
  BY Zenon DEF PlanScenario
<1> DEFINE p3 == <<[sim |-> Threshold + 1, slot |-> 13]>>
           p4 == <<[sim |-> Threshold + 1, slot |-> 14]>>
<1>3. call'.registry = <<m1, m2, Steady(3), Steady(4)>> /\ call'.probes = <<p1, p2, p3, p4>>
  BY <1>2
<1> HIDE DEF p3, p4
<1> DEFINE reg == call'.registry
           probes == call'.probes
<1>4. /\ reg = [i \in 1 .. 4 |-> reg[i]] /\ DOMAIN reg = 1 .. 4
      /\ probes = [i \in 1 .. 4 |-> probes[i]]
      /\ probes[1] = p1 /\ probes[2] = p2
  BY <1>3
<1> HIDE DEF reg, probes
<1>5. Registry(reg, 4)
  <2>1. PICK N : Registry(reg, N)
    BY <1>1 DEF IsPlan, reg
  <2>2. N \in Nat /\ DOMAIN reg = 1 .. N
    BY <2>1 DEF Registry
  <2>3. N = 4
    <3>1. 4 \in 1 .. N /\ ~ (5 \in 1 .. N)
      BY <1>4, <2>2
    <3> QED BY <2>2, <3>1
  <2> QED BY <2>1, <2>3
<1>6. \A i \in 1 .. 2 : probes[i] # GateFails => Probing(probes[i], 2)
  <2>1. \A i \in 1 .. 2 : i = 1 \/ i = 2
    OBVIOUS
  <2>2. /\ p1 = GateFails \/ Probing(p1, 2)
        /\ p2 = GateFails \/ Probing(p2, 2)
    BY SomeProbesAre
  <2>3. ASSUME NEW i \in 1 .. 2, probes[i] # GateFails PROVE Probing(probes[i], 2)
    <3>1. CASE i = 1
      BY <1>4, <2>2, <2>3, <3>1
    <3>2. CASE i = 2
      BY <1>4, <2>2, <2>3, <3>2
    <3> QED BY <2>1, <3>1, <3>2
  <2> QED BY <2>3
<1>7. 4 \in Nat /\ 2 <= 4
  OBVIOUS
<1>8. HasFixture(reg, probes)
  BY <1>4, <1>5, <1>6, <1>7 DEF HasFixture
<1> QED BY <1>8 DEF reg, probes

LEMMA FixedHolds == Spec => []Fixed
<1>1. Init => Fixed
  BY DEF Init, Fixed
<1>2. Fixed /\ [Next]_call => Fixed'
  <2>1. CASE UNCHANGED call
    BY <2>1 DEF Fixed
  <2>2. CASE Next
    BY <2>2, CallOf, FixtureCallIs DEF Fixed
  <2> QED BY <2>1, <2>2
<1> QED BY <1>1, <1>2, PTL DEF Spec

LEMMA FixtureIsEnough ==
    ASSUME Fixed
    PROVE  FixtureSuffices
<1> SUFFICES ASSUME call.op = "plan",
                    GateFails \notin ToSet(SubSeq(call.probes, 1, 2)),
                    FixturePasses([i \in 1 .. 2 |-> SubSeq(call.probes, 1, 2)[i][2]],
                                  [i \in 1 .. 2 |-> <<SubSeq(call.probes, 1, 2)[i][1]>>],
                                  SubSeq(call.registry, 1, 2))
             PROVE  Plan(TRUE, SubSeq(call.registry, 1, 2), SubSeq(call.probes, 1, 2)).selected
                    = Take(CandidateMemories(SubSeq(call.registry, 1, 2)), MaxSelected)
  BY Zenon DEF FixtureSuffices
<1> DEFINE reg == SubSeq(call.registry, 1, 2)
           probes == SubSeq(call.probes, 1, 2)
<1>1. PICK N \in Nat :
        /\ 2 <= N
        /\ Registry(call.registry, N) /\ call.registry = [i \in 1 .. N |-> call.registry[i]]
        /\ call.probes = [i \in 1 .. N |-> call.probes[i]]
        /\ \A i \in 1 .. 2 : call.probes[i] # GateFails => Probing(call.probes[i], 2)
  BY DEF Fixed, HasFixture
<1>2. DOMAIN reg = 1 .. 2 /\ \A i \in 1 .. 2 : reg[i] = call.registry[i]
  BY <1>1, FirstTwo
<1>3. DOMAIN probes = 1 .. 2 /\ \A i \in 1 .. 2 : probes[i] = call.probes[i]
  BY <1>1, FirstTwo
<1> HIDE DEF reg, probes
<1>4. Registry(reg, 2)
  <2>1. \A i \in 1 .. 2 : i \in 1 .. N
    BY <1>1
  <2> QED BY <1>1, <1>2, <2>1 DEF Registry
<1>5. Pair(reg, probes)
  BY <1>1, <1>3, <1>4 DEF Pair
<1>6. Plan(TRUE, reg, probes).selected = Take(CandidateMemories(reg), MaxSelected)
  BY <1>5, FixtureFills DEF reg, probes
<1> QED BY <1>6 DEF reg, probes

LEMMA AliasesAreEnough ==
    ASSUME Requested
    PROVE  AliasesSuffice
<1> SUFFICES ASSUME call.op = "plan" PROVE AliasesSuffice
  BY DEF AliasesSuffice
<1>1. IsPlan(call.registry, call.probes)
  BY DEF Requested
<1>2. AliasesLead(CandidateMemories(call.registry), call.probes, call.registry,
                  Plan(TRUE, call.registry, call.probes))
  BY <1>1, AliasesLeadIn
<1> QED BY <1>2, Zenon DEF AliasesSuffice, AliasesLead

\* Some memories as the planner of spike v27 sees them; no two share an id.
Lexicon(memories, N) ==
    /\ N \in Nat /\ DOMAIN memories = 1 .. N
    /\ \A i \in 1 .. N :
          memories[i].terms \in Int /\ memories[i].aliases \in Int /\ memories[i].id \in Int
    /\ \A i, j \in 1 .. N : memories[i].id = memories[j].id => i = j

WordsOf(memories, i) == 3 * memories[i].terms + memories[i].aliases

LexicalBefore(memories, i, j) ==
    \/ WordsOf(memories, i) > WordsOf(memories, j)
    \/ /\ WordsOf(memories, i) = WordsOf(memories, j)
       /\ memories[i].id > memories[j].id

LexicalOrder(memories) ==
    {p \in (DOMAIN memories) \X (DOMAIN memories) : LexicalBefore(memories, p[1], p[2])}

LEMMA LexicalOrders ==
    ASSUME NEW memories, NEW N, Lexicon(memories, N), NEW P, P \subseteq 1 .. N
    PROVE  Orders(LexicalOrder(memories), P)
<1> DEFINE R == LexicalOrder(memories)
           w == [i \in 1 .. N |-> WordsOf(memories, i)]
           v == [i \in 1 .. N |-> memories[i].id]
<1>1. /\ DOMAIN memories = 1 .. N
      /\ \A i \in 1 .. N : memories[i].terms \in Int /\ memories[i].aliases \in Int
                           /\ v[i] \in Int /\ v[i] = memories[i].id
  BY DEF Lexicon
<1>2. \A i \in 1 .. N : w[i] = WordsOf(memories, i) /\ w[i] \in Int
  BY <1>1 DEF WordsOf
<1>3. \A i, j \in 1 .. N : v[i] = v[j] => i = j
  BY DEF Lexicon
<1> HIDE DEF w, v
<1>4. \A i, j \in 1 .. N :
          <<i, j>> \in R <=> w[i] > w[j] \/ (w[i] = w[j] /\ v[i] > v[j])
  BY <1>1, <1>2 DEF LexicalOrder, LexicalBefore
<1>5. \A i \in P : i \in 1 .. N /\ w[i] \in Int /\ v[i] \in Int
  BY <1>1, <1>2
<1> HIDE DEF R
<1>6. \A i \in P : <<i, i>> \notin R
  BY <1>4, <1>5
<1>7. ASSUME NEW i \in P, NEW j \in P, NEW k \in P, <<i, j>> \in R, <<j, k>> \in R
      PROVE  <<i, k>> \in R
  <2>1. /\ w[i] > w[j] \/ (w[i] = w[j] /\ v[i] > v[j])
        /\ w[j] > w[k] \/ (w[j] = w[k] /\ v[j] > v[k])
    BY <1>4, <1>5, <1>7
  <2>2. w[i] > w[k] \/ (w[i] = w[k] /\ v[i] > v[k])
    BY <1>5, <2>1
  <2> QED BY <1>4, <1>5, <2>2
<1>8. ASSUME NEW i \in P, NEW j \in P
      PROVE  i = j \/ <<i, j>> \in R \/ <<j, i>> \in R
  <2>1. i = j \/ w[i] > w[j] \/ w[j] > w[i] \/ (w[i] = w[j] /\ (v[i] > v[j] \/ v[j] > v[i]))
    BY <1>3, <1>5
  <2> QED BY <1>4, <1>5, <2>1
<1>9. Orders(R, P)
  BY <1>6, <1>7, <1>8 DEF Orders
<1> QED BY <1>9 DEF R

\* The memories that share a planner term.
Sharing(memories) == {i \in DOMAIN memories : memories[i].terms > 0}

\* A plan is a sequence of memories.
PlanOf(c, N) == \E k \in Nat : c \in [1 .. k -> 1 .. N] /\ Len(c) = k

LEMMA LexicalPlanIs ==
    ASSUME NEW memories, NEW N, Lexicon(memories, N)
    PROVE  PlanOf(LexicalPlan(memories), N)
<1> DEFINE R == LexicalOrder(memories)
           P == Sharing(memories)
           m == Cardinality(P)
           e == ByRank(P, R)
<1>1. N \in Nat /\ DOMAIN memories = 1 .. N
  BY DEF Lexicon
<1>2. P \in SUBSET (1 .. N)
  BY <1>1 DEF Sharing
<1>3. IsFiniteSet(P) /\ m \in Nat
  <2>1. IsFiniteSet(1 .. N)
    BY <1>1, UpToFinite
  <2> QED BY <1>2, <2>1, FS_Subset, FS_CardinalityType
<1>4. Orders(R, P)
  <2> HIDE DEF P, R
  <2> QED BY <1>2, LexicalOrders DEF R
<1>5. Lists(e, P, R)
  BY <1>3, <1>4, ByRankLists
<1>6. \A x \in P : Before(R, P, x) = {y \in P : LexicalBefore(memories, y, x)}
  BY DEF Before, LexicalOrder, Sharing
<1> DEFINE G(r) == CHOOSE x \in P :
                     Cardinality({y \in P : LexicalBefore(memories, y, x)}) = r - 1
<1>7. e = [r \in 1 .. m |-> G(r)]
  <2>1. \A r \in 1 .. m : (CHOOSE x \in P : Cardinality(Before(R, P, x)) = r - 1) = G(r)
    BY <1>6
  <2>2. \A r \in 1 .. m : e[r] = G(r)
    BY <2>1 DEF ByRank
  <2>3. e = [r \in 1 .. m |-> e[r]]
    BY DEF ByRank
  <2> HIDE DEF G, e
  <2> QED BY <2>2, <2>3
<1>8. LexicalPlan(memories) = Take(e, MaxMemories)
  BY <1>7, Zenon DEF LexicalPlan, Sorted, Sharing, LexicalBefore, WordsOf
<1>9. e = [r \in 1 .. m |-> e[r]]
  BY DEF ByRank
<1> DEFINE S == 1 .. N
           k == MinOf(m, MaxMemories)
<1> HIDE DEF e, P, R, S
<1>10. \A r \in 1 .. m : e[r] \in S
  BY <1>2, <1>5 DEF Lists, S
<1>11. e \in [1 .. m -> S]
  BY <1>9, <1>10
<1> HIDE DEF m
<1>12. Begins(LexicalPlan(memories), e, k, S)
  BY <1>3, <1>8, <1>11, TakeIs, MemoriesAssumption
<1>13. k \in Nat
  BY <1>3, MemoriesAssumption DEF MinOf
<1> HIDE DEF k
<1>14. LexicalPlan(memories) \in [1 .. k -> S]
  BY <1>12 DEF Begins
<1>15. Len(LexicalPlan(memories)) = k
  BY <1>13, <1>14
<1> QED BY <1>13, <1>14, <1>15 DEF PlanOf, S

\* The best probe of a memory leads to one.
Leads(i, j, probes, reg) ==
    BestProbe(probes[i]).sim >= Threshold /\ Owner(BestProbe(probes[i]).slot, reg) = j

\* Where the memories of a plan lead, once each.
LEMMA ResolvedIs ==
    ASSUME NEW N \in Nat, NEW planned, PlanOf(planned, N), NEW probes,
           NEW reg, DOMAIN reg = 1 .. N,
           NEW v, v = ResolveByGate(planned, probes, reg)
    PROVE  /\ \A q, r \in DOMAIN v : v[q] = v[r] => q = r
           /\ \A j : j \in ToSet(v) <=>
                 j \in 1 .. N /\ \E i \in ToSet(planned) : Leads(i, j, probes, reg)
<1> DEFINE s == [r \in DOMAIN planned |->
                   IF BestProbe(probes[planned[r]]).sim >= Threshold
                   THEN Owner(BestProbe(probes[planned[r]]).slot, reg) ELSE 0]
<1>1. PICK k \in Nat : planned \in [1 .. k -> 1 .. N]
  BY DEF PlanOf
<1>2. DOMAIN s = 1 .. k
  BY <1>1
<1>3. v = OnceIn(s, 1 .. N)
  BY DEF ResolveByGate
<1>4. \A r \in 1 .. k : s[r] = IF BestProbe(probes[planned[r]]).sim >= Threshold
                               THEN Owner(BestProbe(probes[planned[r]]).slot, reg) ELSE 0
  BY <1>1
<1> HIDE DEF s
<1>5. IsOnceOf(v, s, 1 .. N)
  BY <1>1, <1>2, <1>3, OnceInIs
<1>6. /\ \A q, r \in DOMAIN v : v[q] = v[r] => q = r
      /\ ToSet(v) = ToSet(s) \intersect (1 .. N)
  BY <1>5 DEF IsOnceOf
<1>7. \A j : j \in ToSet(s) <=> \E r \in 1 .. k : s[r] = j
  BY <1>2 DEF ToSet
<1>8. \A i : i \in ToSet(planned) <=> \E r \in 1 .. k : planned[r] = i
  BY <1>1 DEF ToSet
<1>9. \A j \in 1 .. N, r \in 1 .. k : s[r] = j <=> Leads(planned[r], j, probes, reg)
  <2> SUFFICES ASSUME NEW j \in 1 .. N, NEW r \in 1 .. k
               PROVE  s[r] = j <=> Leads(planned[r], j, probes, reg)
    OBVIOUS
  <2>1. j # 0
    OBVIOUS
  <2> QED BY <1>4, <2>1, Zenon DEF Leads
<1>10. \A j \in 1 .. N : j \in ToSet(s) <=> \E i \in ToSet(planned) : Leads(i, j, probes, reg)
  <2> TAKE j \in 1 .. N
  <2>1. \A r \in 1 .. k : s[r] = j <=> Leads(planned[r], j, probes, reg)
    BY <1>9
  <2>2. j \in ToSet(s) <=> \E r \in 1 .. k : Leads(planned[r], j, probes, reg)
    BY <1>7, <2>1, Zenon
  <2>3. (\E r \in 1 .. k : Leads(planned[r], j, probes, reg))
            <=> \E i \in ToSet(planned) : Leads(i, j, probes, reg)
    BY <1>8, Zenon
  <2> QED BY <2>2, <2>3
<1>11. \A j : j \in ToSet(v) <=> j \in 1 .. N /\ j \in ToSet(s)
  BY <1>6
<1> QED BY <1>6, <1>10, <1>11

\* The loop of the server and the gate of the prototype, from the same plan.
GateAgrees(planned, probes, reg, lane, resolved) ==
    /\ lane = Take(Picked(planned,
                          {r \in DOMAIN planned : Leads(planned[r], planned[r], probes, reg)}),
                   MaxSelected)
    /\ ToSet(lane) \subseteq ToSet(resolved)
    /\ \A j \in ToSet(resolved) : \E i \in ToSet(planned) : Leads(i, j, probes, reg)
    /\ IsInjective(resolved)

LEMMA GatesAgree ==
    ASSUME NEW N \in Nat, NEW planned, PlanOf(planned, N), NEW probes,
           \A i \in 1 .. N : \E n : Probing(probes[i], n),
           NEW reg, DOMAIN reg = 1 .. N
    PROVE  GateAgrees(planned, probes, reg, PlanLoop(planned, probes, reg).selected,
                      ResolveByGate(planned, probes, reg))
<1> DEFINE lane == PlanLoop(planned, probes, reg).selected
           resolved == ResolveByGate(planned, probes, reg)
           T == {r \in DOMAIN planned : Leads(planned[r], planned[r], probes, reg)}
           p == Picked(planned, T)
<1>1. PICK k \in Nat : planned \in [1 .. k -> 1 .. N] /\ Len(planned) = k
  BY DEF PlanOf
<1>2. \A i \in 1 .. N : probes[i] # GateFails
  <2> SUFFICES ASSUME NEW i \in 1 .. N PROVE probes[i] # GateFails
    OBVIOUS
  <2>1. PICK n : Probing(probes[i], n)
    OBVIOUS
  <2>2. 1 \in DOMAIN probes[i]
    BY <2>1 DEF Probing
  <2> QED BY <2>2 DEF GateFails
<1>3. \A i \in 1 .. N : Taken(i, probes, reg) <=> Leads(i, i, probes, reg)
  BY <1>2 DEF Taken, Verified, Leads
<1>4. \A r : r \in T <=> r \in 1 .. k /\ Taken(planned[r], probes, reg)
  BY <1>1, <1>3
<1>5. \A r \in 1 .. k : planned[r] \in 1 .. N /\ probes[planned[r]] # GateFails
  BY <1>1, <1>2
<1>6. lane = Take(p, MaxSelected)
  <2>1. \A r \in 1 .. k : probes[planned[r]] # GateFails
    BY <1>5
  <2> HIDE DEF T
  <2>2. AllTaken(T, planned, k, probes, reg)
    BY <1>1, <1>4, <2>1 DEF AllTaken
  <2>3. PlanLoop(planned, probes, reg).selected = Take(Picked(planned, T), MaxSelected)
    BY <2>2, LaneIsTaken
  <2> QED BY <2>3 DEF lane, p
<1>7. /\ \A q, r \in DOMAIN resolved : resolved[q] = resolved[r] => q = r
      /\ \A j : j \in ToSet(resolved) <=>
            j \in 1 .. N /\ \E i \in ToSet(planned) : Leads(i, j, probes, reg)
  <2> HIDE DEF resolved
  <2> QED BY ResolvedIs DEF resolved
<1>8. Planned(planned, k, PlanLoop(planned, probes, reg), probes, reg)
  BY <1>1, PlanLoopIs
<1>9. ASSUME NEW j \in ToSet(lane)
      PROVE  j \in 1 .. N /\ j \in ToSet(planned) /\ Leads(j, j, probes, reg)
  <2>1. PICK l, g : InLane(planned, k, PlanLoop(planned, probes, reg), l, g, probes, reg)
    BY <1>5, <1>8 DEF Planned, GateFailed
  <2>2. /\ g \in [1 .. l -> 1 .. k]
        /\ lane = [t \in 1 .. l |-> planned[g[t]]]
        /\ \A t \in 1 .. l : Taken(planned[g[t]], probes, reg)
    BY <2>1 DEF InLane
  <2> HIDE DEF lane
  <2>3. PICK t \in 1 .. l : planned[g[t]] = j
    BY <1>9, <2>2 DEF ToSet
  <2>4. g[t] \in 1 .. k /\ g[t] \in DOMAIN planned
    BY <1>1, <2>2
  <2>5. j \in ToSet(planned)
    BY <2>3, <2>4 DEF ToSet
  <2> QED BY <1>3, <1>5, <2>2, <2>3, <2>4, <2>5
<1> HIDE DEF lane, resolved
<1>10. ToSet(lane) \subseteq ToSet(resolved)
  BY <1>7, <1>9
<1>11. IsInjective(resolved)
  BY <1>7 DEF IsInjective
<1>12. GateAgrees(planned, probes, reg, lane, resolved)
  BY <1>6, <1>7, <1>10, <1>11, Zenon DEF GateAgrees
<1> QED BY <1>12 DEF lane, resolved

LEMMA MoreOf ==
    ASSUME NEW B, IsFiniteSet(B), NEW A, A \subseteq B
    PROVE  /\ Cardinality(A) \in Nat /\ Cardinality(B) \in Nat
           /\ Cardinality(A) <= Cardinality(B)
           /\ Cardinality(B) > Cardinality(A) <=> \E x \in B : x \notin A
<1>1. A \in SUBSET B
  OBVIOUS
<1>2. /\ IsFiniteSet(A) /\ Cardinality(A) <= Cardinality(B)
      /\ Cardinality(A) = Cardinality(B) => A = B
  BY <1>1, FS_Subset
<1>3. Cardinality(A) \in Nat /\ Cardinality(B) \in Nat
  BY <1>2, FS_CardinalityType
<1>4. A # B <=> \E x \in B : x \notin A
  OBVIOUS
<1>5. Cardinality(B) > Cardinality(A) <=> A # B
  <2>1. A = B => Cardinality(A) = Cardinality(B)
    OBVIOUS
  <2> QED BY <1>2, <1>3, <2>1
<1> QED BY <1>2, <1>3, <1>4, <1>5

\* What is expected and mentioned, with the notes of a plan and without.
Recalled(planned, expected, probes, reg, says) ==
    Answer(ToSet(ResolveByGate(planned, probes, reg)), says) \intersect ToSet(expected)

Recited(expected, says) == Answer({}, says) \intersect ToSet(expected)

LEMMA RecalledIs ==
    ASSUME NEW N \in Nat, NEW planned, PlanOf(planned, N), NEW probes,
           NEW reg, DOMAIN reg = 1 .. N, NEW expected, PlanOf(expected, N), NEW says
    PROVE  \A j : j \in Recalled(planned, expected, probes, reg, says) <=>
              /\ j \in ToSet(expected)
              /\ \/ j \in says.own
                 \/ j \notin says.ignores /\ \E i \in ToSet(planned) : Leads(i, j, probes, reg)
<1> DEFINE v == ResolveByGate(planned, probes, reg)
<1>1. \A j : j \in ToSet(v) <=>
          j \in 1 .. N /\ \E i \in ToSet(planned) : Leads(i, j, probes, reg)
  <2> HIDE DEF v
  <2> QED BY ResolvedIs DEF v
<1>2. \A j \in ToSet(expected) : j \in 1 .. N
  BY DEF PlanOf, ToSet
<1> HIDE DEF v
<1>3. \A j : j \in Recalled(planned, expected, probes, reg, says) <=>
          j \in ToSet(expected) /\ (j \in says.own \/ (j \in ToSet(v) /\ j \notin says.ignores))
  BY DEF Recalled, Answer, v
<1> QED BY <1>1, <1>2, <1>3, Zenon

LEMMA ExpectedFinite ==
    ASSUME NEW N \in Nat, NEW expected, PlanOf(expected, N)
    PROVE  IsFiniteSet(ToSet(expected))
<1>1. ToSet(expected) \in SUBSET (1 .. N)
  BY DEF PlanOf, ToSet
<1>2. IsFiniteSet(1 .. N)
  BY UpToFinite
<1> QED BY <1>1, <1>2, FS_Subset

LEMMA PartFinite ==
    ASSUME NEW S, IsFiniteSet(S), NEW T
    PROVE  IsFiniteSet(T \intersect S)
<1>1. T \intersect S \in SUBSET S
  OBVIOUS
<1> QED BY <1>1, FS_Subset

\* With a model that heeds its notes a gate gains what it leads to.
GateGains(lexical, expected, probes, reg, says) ==
    LET mode(planned) == RunPlannedMode(planned, expected, probes, reg, says)
        oracle == OraclePlan(expected)
    IN  /\ mode(oracle) > RawMode(expected, says) <=>
              \E i \in ToSet(expected), j \in ToSet(expected) \ (says.own \union says.ignores) :
                  Leads(i, j, probes, reg)
        /\ mode(lexical) > mode(oracle) =>
              \E i \in ToSet(lexical) \ ToSet(expected), j \in ToSet(expected) :
                  Leads(i, j, probes, reg)

LEMMA GateDoesGain ==
    ASSUME NEW N \in Nat, NEW lexical, PlanOf(lexical, N), NEW probes,
           NEW reg, DOMAIN reg = 1 .. N, NEW expected, PlanOf(expected, N), NEW says
    PROVE  GateGains(lexical, expected, probes, reg, says)
<1> DEFINE E == ToSet(expected)
           Led == Recalled(expected, expected, probes, reg, says)
           Lex == Recalled(lexical, expected, probes, reg, says)
           Raw == Recited(expected, says)
           L(i, j) == Leads(i, j, probes, reg)
<1>1. /\ RunPlannedMode(OraclePlan(expected), expected, probes, reg, says) = Cardinality(Led)
      /\ RunPlannedMode(lexical, expected, probes, reg, says) = Cardinality(Lex)
      /\ RawMode(expected, says) = Cardinality(Raw)
  BY Zenon DEF RunPlannedMode, OraclePlan, RawMode, Score27, Recalled, Recited
<1>2. \A j : j \in Led <=> j \in E /\ (j \in says.own \/ (j \notin says.ignores /\ \E i \in E : L(i, j)))
  BY RecalledIs
<1>3. \A j : j \in Lex <=> j \in E /\ (j \in says.own \/ (j \notin says.ignores /\ \E i \in ToSet(lexical) : L(i, j)))
  BY RecalledIs
<1>4. \A j : j \in Raw <=> j \in E /\ j \in says.own
  BY DEF Recited, Answer
<1>5. IsFiniteSet(Led) /\ IsFiniteSet(Lex)
  BY ExpectedFinite, PartFinite DEF Recalled
<1> HIDE DEF E, Led, Lex, Raw, L
<1>6. Cardinality(Led) > Cardinality(Raw) <=>
          \E i \in E, j \in E \ (says.own \union says.ignores) : L(i, j)
  <2>1. Raw \subseteq Led
    BY <1>2, <1>4
  <2>2. Cardinality(Led) > Cardinality(Raw) <=> \E x \in Led : x \notin Raw
    BY <1>5, <2>1, MoreOf
  <2>3. (\E x \in Led : x \notin Raw) <=>
            \E i \in E, j \in E \ (says.own \union says.ignores) : L(i, j)
    BY <1>2, <1>4
  <2> QED BY <2>2, <2>3
<1>7. ASSUME Cardinality(Lex) > Cardinality(Led)
      PROVE  \E i \in ToSet(lexical) \ E, j \in E : L(i, j)
  <2> SUFFICES ASSUME \A i \in ToSet(lexical) \ E, j \in E : ~ L(i, j) PROVE FALSE
    OBVIOUS
  <2>1. Lex \subseteq Led
    BY <1>2, <1>3
  <2>2. /\ Cardinality(Lex) \in Nat /\ Cardinality(Led) \in Nat
        /\ Cardinality(Lex) <= Cardinality(Led)
    BY <1>5, <2>1, MoreOf
  <2> QED BY <1>7, <2>2
<1> QED BY <1>1, <1>6, <1>7, Zenon DEF GateGains, E, L

\* What the last call gave the prototype of the planner.
Prototype(memories, expected, probes, reg) ==
    \E N : /\ Lexicon(memories, N) /\ DOMAIN reg = 1 .. N
           /\ \A i \in 1 .. N : \E n : Probing(probes[i], n)
           /\ PlanOf(expected, N)

Prototyped ==
    call.op = "prototype" =>
        Prototype(call.memories, call.expected, call.probes, call.registry)

LEMMA PrototypeCallIs ==
    ASSUME PlanPrototype
    PROVE  Prototype(call'.memories, call'.expected, call'.probes, call'.registry)
<1>1. PICK m1 \in {m \in SomeMemory(1) : m.score = 0}, m2 \in {m \in SomeMemory(2) : m.score = 0},
           p1 \in SomeProbes(1) \ {GateFails}, p2 \in SomeProbes(2) \ {GateFails},
           terms \in {<<1, 1, 1, 0>>, <<0, 2, 1, 1>>, <<1, 0, 2, 2>>}, aliases \in {0, 3},
           expected \in {<<1, 2>>, <<2>>, <<3, 1>>}, own \in {{}, {1}, {2, 3}}, ignores \in {{}, {1}} :
        call' = [op |-> "prototype", expected |-> expected,
                 says |-> [own |-> own, ignores |-> ignores],
                 memories |-> [i \in 1 .. 4 |->
                     [terms |-> terms[i], aliases |-> IF i = 2 THEN aliases ELSE 0, id |-> i]],
                 registry |-> <<m1, m2, Steady(3), Steady(4)>>,
                 probes |-> <<p1, p2, <<[sim |-> Threshold + 1, slot |-> 13]>>,
                                      <<[sim |-> Threshold + 1, slot |-> 14]>>>>]
  BY Zenon DEF PlanPrototype
<1> DEFINE p3 == <<[sim |-> Threshold + 1, slot |-> 13]>>
           p4 == <<[sim |-> Threshold + 1, slot |-> 14]>>
           memories == [i \in 1 .. 4 |->
                     [terms |-> terms[i], aliases |-> IF i = 2 THEN aliases ELSE 0, id |-> i]]
           reg == <<m1, m2, Steady(3), Steady(4)>>
           probes == <<p1, p2, p3, p4>>
<1>2. /\ call'.memories = memories /\ call'.expected = expected
      /\ call'.probes = probes /\ call'.registry = reg
  BY <1>1
<1>3. Lexicon(memories, 4)
  <2>1. \A i \in 1 .. 4 : terms[i] \in Int
    OBVIOUS
  <2>2. DOMAIN memories = 1 .. 4
    OBVIOUS
  <2>3. \A i \in 1 .. 4 : /\ memories[i].terms = terms[i] /\ memories[i].id = i
                          /\ memories[i].aliases \in {0, aliases}
    OBVIOUS
  <2>4. \A i \in 1 .. 4 : memories[i].aliases \in Int
    BY <2>3
  <2> HIDE DEF memories
  <2> QED BY <2>1, <2>2, <2>3, <2>4 DEF Lexicon
<1>4. DOMAIN reg = 1 .. 4
  OBVIOUS
<1>5. Probing(p3, 1) /\ Probing(p4, 1)
  BY PlanAssumption DEF Probing
<1>6. Probing(p1, 2) /\ Probing(p2, 2)
  BY SomeProbesAre
<1>7. probes[1] = p1 /\ probes[2] = p2 /\ probes[3] = p3 /\ probes[4] = p4
  OBVIOUS
<1> HIDE DEF p3, p4, probes, memories, reg
<1>8. \A i \in 1 .. 4 : \E n : Probing(probes[i], n)
  <2>1. \A i \in 1 .. 4 : i = 1 \/ i = 2 \/ i = 3 \/ i = 4
    OBVIOUS
  <2> QED BY <1>5, <1>6, <1>7, <2>1, Zenon
<1>9. PlanOf(expected, 4)
  <2>1. /\ <<1, 2>> \in [1 .. 2 -> 1 .. 4] /\ Len(<<1, 2>>) = 2
        /\ <<2>> \in [1 .. 1 -> 1 .. 4] /\ Len(<<2>>) = 1
        /\ <<3, 1>> \in [1 .. 2 -> 1 .. 4] /\ Len(<<3, 1>>) = 2
    OBVIOUS
  <2>2. expected = <<1, 2>> \/ expected = <<2>> \/ expected = <<3, 1>>
    OBVIOUS
  <2>3. 1 \in Nat /\ 2 \in Nat
    OBVIOUS
  <2> QED BY <2>1, <2>2, <2>3, Zenon DEF PlanOf
<1>10. Prototype(memories, expected, probes, reg)
  BY <1>3, <1>4, <1>8, <1>9 DEF Prototype
<1> QED BY <1>2, <1>10

LEMMA PrototypedHolds == Spec => []Prototyped
<1>1. Init => Prototyped
  BY DEF Init, Prototyped
<1>2. Prototyped /\ [Next]_call => Prototyped'
  <2>1. CASE UNCHANGED call
    BY <2>1 DEF Prototyped
  <2>2. CASE Next
    BY <2>2, CallOf, PrototypeCallIs DEF Prototyped
  <2> QED BY <2>1, <2>2
<1> QED BY <1>1, <1>2, PTL DEF Spec

LEMMA PrototypedAgrees ==
    ASSUME Prototyped
    PROVE  PrototypeAgrees /\ RecallIsOfGate
<1> SUFFICES ASSUME call.op = "prototype" PROVE PrototypeAgrees /\ RecallIsOfGate
  BY DEF PrototypeAgrees, RecallIsOfGate
<1>1. PICK N : /\ Lexicon(call.memories, N) /\ DOMAIN call.registry = 1 .. N
               /\ \A i \in 1 .. N : \E n : Probing(call.probes[i], n)
               /\ PlanOf(call.expected, N)
  BY DEF Prototyped, Prototype
<1> DEFINE planned == LexicalPlan(call.memories)
<1>2. N \in Nat /\ PlanOf(planned, N)
  <2>1. N \in Nat
    BY <1>1 DEF Lexicon
  <2> QED BY <1>1, <2>1, LexicalPlanIs
<1>3. GateAgrees(planned, call.probes, call.registry,
                 PlanLoop(planned, call.probes, call.registry).selected,
                 ResolveByGate(planned, call.probes, call.registry))
  <2> HIDE DEF planned
  <2> QED BY <1>1, <1>2, GatesAgree
<1>4. GateGains(planned, call.expected, call.probes, call.registry, call.says)
  <2> HIDE DEF planned
  <2> QED BY <1>1, <1>2, GateDoesGain
<1>5. PrototypeAgrees
  BY <1>3, Zenon DEF PrototypeAgrees, GateAgrees, Leads
<1>6. RecallIsOfGate
  BY <1>4, Zenon DEF RecallIsOfGate, GateGains, Leads
<1> QED BY <1>5, <1>6

\* The labels of three runs that were all usable.
Ballot(v) == v \in [1 .. 3 -> Classes]

Voters(v, class) == {i \in 1 .. 3 : v[i] = class}

LEMMA VotesAre ==
    ASSUME NEW v, Ballot(v), NEW class
    PROVE  /\ Votes(v, class) = Cardinality(Voters(v, class))
           /\ IsFiniteSet(Voters(v, class))
           /\ Votes(v, class) \in 0 .. 3
           /\ Votes(v, class) = 0 <=> \A i \in 1 .. 3 : v[i] # class
<1>1. DOMAIN v = 1 .. 3
  BY DEF Ballot
<1>2. Votes(v, class) = Cardinality(Voters(v, class))
  BY <1>1 DEF Votes, Voters
<1> DEFINE W == Voters(v, class)
<1>3. W \in SUBSET (1 .. 3)
  BY DEF Voters
<1>4. W = {} <=> \A i \in 1 .. 3 : v[i] # class
  BY DEF Voters
<1>5. IsFiniteSet(1 .. 3) /\ Cardinality(1 .. 3) = 3
  BY UpToFinite
<1> HIDE DEF W
<1>6. IsFiniteSet(W) /\ Cardinality(W) <= 3
  BY <1>3, <1>5, FS_Subset
<1>7. Cardinality(W) \in Nat
  BY <1>6, FS_CardinalityType
<1>8. Cardinality(W) = 0 <=> W = {}
  BY <1>6, FS_EmptySet
<1>9. Cardinality(W) \in 0 .. 3
  BY <1>6, <1>7
<1> QED BY <1>2, <1>4, <1>6, <1>8, <1>9 DEF W

\* Two classes share the three votes.
LEMMA VotesShared ==
    ASSUME NEW v, Ballot(v), NEW c, NEW d, c # d
    PROVE  Votes(v, c) + Votes(v, d) <= 3
<1> DEFINE C == Voters(v, c)
           D == Voters(v, d)
<1>1. IsFiniteSet(C) /\ IsFiniteSet(D)
  BY VotesAre
<1>2. C \intersect D = {}
  BY DEF Voters
<1>3. C \union D \in SUBSET (1 .. 3)
  BY DEF Voters
<1>4. Votes(v, c) = Cardinality(C) /\ Votes(v, d) = Cardinality(D)
  BY VotesAre
<1> HIDE DEF C, D
<1>5. IsFiniteSet(1 .. 3) /\ Cardinality(1 .. 3) = 3
  BY UpToFinite
<1>6. Cardinality(C \union D) <= 3
  BY <1>3, <1>5, FS_Subset
<1>7. Cardinality(C \union D) = Cardinality(C) + Cardinality(D) - Cardinality(C \intersect D)
  BY <1>1, FS_Union
<1>8. Cardinality(C \intersect D) = 0
  BY <1>2, FS_EmptySet
<1>9. Cardinality(C) \in Nat /\ Cardinality(D) \in Nat
  BY <1>1, FS_CardinalityType
<1> QED BY <1>4, <1>6, <1>7, <1>8, <1>9

\* Position q has the label of the majority.
Leading(v, q) ==
    /\ q \in 1 .. 3
    /\ \A class \in Classes : Votes(v, class) <= Votes(v, v[q])

LEMMA SomeLeads ==
    ASSUME NEW v, Ballot(v)
    PROVE  \E q : Leading(v, q)
<1> DEFINE V == {3 - Votes(v, v[i]) : i \in 1 .. 3}
<1>1. \A i \in 1 .. 3 : Votes(v, v[i]) \in 0 .. 3
  BY VotesAre
<1>2. V \subseteq Nat /\ V # {}
  <2>1. \A i \in 1 .. 3 : 3 - Votes(v, v[i]) \in Nat
    BY <1>1
  <2>2. 1 \in 1 .. 3
    OBVIOUS
  <2> QED BY <2>1, <2>2
<1>3. \A i \in 1 .. 3 : 3 - Votes(v, v[i]) \in V
  OBVIOUS
<1>4. \A x \in V : \E i \in 1 .. 3 : x = 3 - Votes(v, v[i])
  OBVIOUS
<1> HIDE DEF V
<1>5. PICK x \in V : \A y \in V : x <= y
  BY <1>2, LeastNumber
<1>6. PICK q \in 1 .. 3 : x = 3 - Votes(v, v[q])
  BY <1>4
<1>7. ASSUME NEW class \in Classes
      PROVE  Votes(v, class) <= Votes(v, v[q])
  <2>1. CASE Votes(v, class) = 0
    BY <1>1, <2>1
  <2>2. CASE Votes(v, class) # 0
    <3>1. PICK i \in 1 .. 3 : v[i] = class
      BY <2>2, VotesAre
    <3>2. 3 - Votes(v, v[q]) <= 3 - Votes(v, v[i])
      BY <1>3, <1>5, <1>6
    <3>3. Votes(v, v[q]) \in 0 .. 3 /\ Votes(v, v[i]) \in 0 .. 3
      BY <1>1
    <3>4. Votes(v, v[i]) <= Votes(v, v[q])
      BY <3>2, <3>3
    <3> QED BY <3>1, <3>4
  <2> QED BY <2>1, <2>2
<1> QED BY <1>7 DEF Leading

\* What most runs say, and of equally many the first, for runs that were usable.
Winning(v, q) == Leading(v, q) /\ \A i : Leading(v, i) => q <= i

LEMMA WinnerExists ==
    ASSUME NEW v, Ballot(v)
    PROVE  \E q : Winning(v, q) /\ Min({i \in DOMAIN v :
               \A class \in Classes : Votes(v, class) <= Votes(v, v[i])}) = q
<1> DEFINE most == {i \in DOMAIN v : \A class \in Classes : Votes(v, class) <= Votes(v, v[i])}
<1>1. DOMAIN v = 1 .. 3
  BY DEF Ballot
<1>2. \A i : i \in most <=> Leading(v, i)
  BY <1>1 DEF Leading
<1>3. most \subseteq Nat
  BY <1>1
<1> HIDE DEF most
<1>4. most # {}
  BY <1>2, SomeLeads
<1>5. PICK q \in most : \A i \in most : q <= i
  BY <1>3, <1>4, LeastNumber
<1>6. most \subseteq Int
  BY <1>3
<1>7. Min(most) = q
  BY <1>5, <1>6, LeastIs
<1>8. Winning(v, q)
  BY <1>2, <1>5 DEF Winning
<1> QED BY <1>7, <1>8 DEF most

\* What the majority tells about beliefs among the labels.
LEMMA MajorityTells ==
    ASSUME NEW v, Ballot(v), NEW q, Winning(v, q)
    PROVE  /\ v[q] # "belief" => Votes(v, "belief") < 2
           /\ v[q] # "belief" /\ (\A class \in Classes : Votes(v, class) < 2) => v[1] # "belief"
           /\ v[q] = "belief" => \/ Votes(v, "belief") >= 2
                                 \/ /\ Votes(v, "belief") = 1
                                    /\ \A class \in Classes : Votes(v, class) < 2
<1>1. q \in 1 .. 3 /\ \A class \in Classes : Votes(v, class) <= Votes(v, v[q])
  BY DEF Winning, Leading
<1>2. "belief" \in Classes /\ v[q] \in Classes
  BY <1>1 DEF Ballot, Classes
<1>3. \A class : Votes(v, class) \in 0 .. 3
  BY VotesAre
<1>4. \A i \in 1 .. 3 : Votes(v, v[i]) # 0
  BY VotesAre
<1>5. ASSUME v[q] # "belief" PROVE Votes(v, "belief") < 2
  <2>1. Votes(v, "belief") + Votes(v, v[q]) <= 3
    BY <1>5, VotesShared
  <2>2. Votes(v, "belief") <= Votes(v, v[q])
    BY <1>1, <1>2
  <2>3. Votes(v, "belief") \in 0 .. 3 /\ Votes(v, v[q]) \in 0 .. 3
    BY <1>3
  <2> QED BY <2>1, <2>2, <2>3
<1>6. ASSUME v[q] # "belief", \A class \in Classes : Votes(v, class) < 2
      PROVE  v[1] # "belief"
  <2>1. Leading(v, 1)
    <3>1. Votes(v, v[1]) >= 1
      <4>1. Votes(v, v[1]) \in 0 .. 3 /\ Votes(v, v[1]) # 0
        BY <1>3, <1>4
      <4> QED BY <4>1
    <3>2. ASSUME NEW class \in Classes PROVE Votes(v, class) <= Votes(v, v[1])
      <4>1. Votes(v, class) < 2 /\ Votes(v, class) \in 0 .. 3 /\ Votes(v, v[1]) \in 0 .. 3
        BY <1>3, <1>6
      <4> QED BY <3>1, <4>1
    <3> QED BY <3>2 DEF Leading
  <2>2. q <= 1
    BY <2>1 DEF Winning
  <2>3. q = 1
    BY <1>1, <2>2
  <2> QED BY <1>6, <2>3
<1>7. ASSUME v[q] = "belief", ~ (Votes(v, "belief") >= 2)
      PROVE  /\ Votes(v, "belief") = 1
             /\ \A class \in Classes : Votes(v, class) < 2
  <2>1. Votes(v, "belief") \in 0 .. 3 /\ Votes(v, "belief") # 0
    BY <1>1, <1>3, <1>4, <1>7
  <2>2. Votes(v, "belief") = 1
    BY <1>7, <2>1
  <2>3. ASSUME NEW class \in Classes PROVE Votes(v, class) < 2
    <3>1. Votes(v, class) <= 1 /\ Votes(v, class) \in 0 .. 3
      BY <1>1, <1>3, <1>7, <2>2
    <3> QED BY <3>1
  <2> QED BY <2>2, <2>3
<1> QED BY <1>5, <1>6, <1>7

\* A labelled input with its three runs, of which some may have failed.
LabelledInput(x) ==
    /\ DOMAIN x.runs = 1 .. 3
    /\ \A r \in 1 .. 3 : x.runs[r] = <<"failed">> \/ ClassifyOnce(x.runs[r]) \in Classes

LabelsOf(x) == [r \in 1 .. 3 |-> ClassifyOnce(x.runs[r])]

LEMMA MajorityIs ==
    ASSUME NEW x, LabelledInput(x), <<"failed">> \notin ToSet(x.runs)
    PROVE  /\ Ballot(LabelsOf(x))
           /\ \E q : Winning(LabelsOf(x), q) /\ Majority(x.runs) = LabelsOf(x)[q]
<1> DEFINE v == LabelsOf(x)
<1>1. DOMAIN x.runs = 1 .. 3
  BY DEF LabelledInput
<1>2. \A r \in 1 .. 3 : v[r] = ClassifyOnce(x.runs[r]) /\ v[r] \in Classes
  <2> SUFFICES ASSUME NEW r \in 1 .. 3
               PROVE  v[r] = ClassifyOnce(x.runs[r]) /\ v[r] \in Classes
    OBVIOUS
  <2>1. x.runs[r] # <<"failed">>
    BY <1>1 DEF ToSet
  <2>2. v[r] = ClassifyOnce(x.runs[r])
    BY DEF LabelsOf
  <2> QED BY <2>1, <2>2 DEF LabelledInput
<1>3. v = [r \in 1 .. 3 |-> v[r]] /\ v = [r \in DOMAIN x.runs |-> ClassifyOnce(x.runs[r])]
  BY <1>1 DEF LabelsOf
<1> HIDE DEF v
<1>4. Ballot(v) /\ DOMAIN v = 1 .. 3
  BY <1>2, <1>3 DEF Ballot
<1>5. {r \in DOMAIN v : v[r] # "failed"} = 1 .. 3
  BY <1>2, <1>4 DEF Classes
<1>6. Picked(v, 1 .. 3) = v
  BY <1>3, PickedAll
<1>7. Usable(x.runs) = v
  BY <1>3, <1>5, <1>6, Zenon DEF Usable
<1>8. v # << >>
  BY <1>4
<1>9. PICK q : Winning(v, q) /\ Min({i \in DOMAIN v :
                  \A class \in Classes : Votes(v, class) <= Votes(v, v[i])}) = q
  BY <1>4, WinnerExists
<1>10. Majority(x.runs) = v[q]
  BY <1>7, <1>8, <1>9, Zenon DEF Majority
<1> QED BY <1>4, <1>9, <1>10 DEF v

LeaksIn(x) == Cardinality({r \in 1 .. 3 : ClassifyOnce(x.runs[r]) = "belief"})

DividedIn(x) ==
    \A class \in Classes : Cardinality({r \in 1 .. 3 : ClassifyOnce(x.runs[r]) = class}) < 2

LEMMA InputTells ==
    ASSUME NEW x, LabelledInput(x), <<"failed">> \notin ToSet(x.runs)
    PROVE  /\ Majority(x.runs) # "belief" => LeaksIn(x) < 2
           /\ Majority(x.runs) # "belief" /\ DividedIn(x) => ClassifyOnce(x.runs[1]) # "belief"
           /\ Majority(x.runs) = "belief" =>
                 LeaksIn(x) >= 2 \/ (LeaksIn(x) = 1 /\ DividedIn(x))
<1> DEFINE v == LabelsOf(x)
<1>1. Ballot(v)
  BY MajorityIs
<1>2. PICK q : Winning(v, q) /\ Majority(x.runs) = v[q]
  BY MajorityIs
<1>3. \A class : Cardinality({r \in 1 .. 3 : ClassifyOnce(x.runs[r]) = class}) = Votes(v, class)
  <2> SUFFICES ASSUME NEW class
               PROVE  Cardinality({r \in 1 .. 3 : ClassifyOnce(x.runs[r]) = class}) = Votes(v, class)
    OBVIOUS
  <2>1. {r \in 1 .. 3 : ClassifyOnce(x.runs[r]) = class} = Voters(v, class)
    BY DEF Voters, LabelsOf
  <2>2. Votes(v, class) = Cardinality(Voters(v, class))
    BY <1>1, VotesAre
  <2> QED BY <2>1, <2>2, Zenon
<1>4. LeaksIn(x) = Votes(v, "belief") /\ (DividedIn(x) <=> \A class \in Classes : Votes(v, class) < 2)
  BY <1>3, Zenon DEF LeaksIn, DividedIn
<1>5. ClassifyOnce(x.runs[1]) = v[1]
  BY DEF LabelsOf
<1> HIDE DEF v
<1>6. /\ v[q] # "belief" => Votes(v, "belief") < 2
      /\ v[q] # "belief" /\ (\A class \in Classes : Votes(v, class) < 2) => v[1] # "belief"
      /\ v[q] = "belief" => \/ Votes(v, "belief") >= 2
                            \/ /\ Votes(v, "belief") = 1
                               /\ \A class \in Classes : Votes(v, class) < 2
  BY <1>1, <1>2, MajorityTells
<1> QED BY <1>2, <1>4, <1>5, <1>6, Zenon

Labelled(inputs) ==
    \E n \in Nat : DOMAIN inputs = 1 .. n /\ \A i \in 1 .. n : LabelledInput(inputs[i])

LEMMA NoneConfused ==
    ASSUME NEW inputs, Labelled(inputs)
    PROVE  Confusion(inputs, "fact", "belief") = 0 <=>
              \A i \in DOMAIN inputs :
                  inputs[i].gold = "fact" => Majority(inputs[i].runs) # "belief"
<1> DEFINE W == {i \in DOMAIN inputs :
                    inputs[i].gold = "fact" /\ Majority(inputs[i].runs) = "belief"}
<1>1. PICK n \in Nat : DOMAIN inputs = 1 .. n
  BY DEF Labelled
<1>2. IsFiniteSet(W)
  <2>1. W \in SUBSET (1 .. n)
    BY <1>1
  <2>2. IsFiniteSet(1 .. n)
    BY UpToFinite
  <2> HIDE DEF W
  <2> QED BY <2>1, <2>2, FS_Subset
<1>3. Confusion(inputs, "fact", "belief") = Cardinality(W)
  BY Zenon DEF Confusion
<1>4. W = {} <=> \A i \in DOMAIN inputs :
                    inputs[i].gold = "fact" => Majority(inputs[i].runs) # "belief"
  OBVIOUS
<1> HIDE DEF W
<1>5. Cardinality(W) = 0 <=> W = {}
  BY <1>2, FS_EmptySet
<1> QED BY <1>3, <1>4, <1>5

\* What the last call labelled.
Judged == call.op = "router" => Labelled(call.inputs)

LEMMA RouterCallIs ==
    ASSUME JudgeRouter
    PROVE  Labelled(call'.inputs)
<1> DEFINE found == {<<"failed">>, << >>, <<"fact">>, <<"belief">>, <<"other">>, <<"fact", "belief">>}
<1>1. PICK first \in found \X found \X found, gold1 \in Classes,
           second \in {<<"failed">>, <<"fact">>, <<"belief">>} \X {<< >>, <<"belief">>} \X {<<"fact">>},
           gold2 \in {"fact", "belief"}, n \in 1 .. 2 :
          call' = [op |-> "router",
                   inputs |-> Take(<<[gold |-> gold1, runs |-> first],
                                     [gold |-> gold2, runs |-> second]>>, n)]
  BY Zenon DEF JudgeRouter
<1>2. \A run \in found : run = <<"failed">> \/ ClassifyOnce(run) \in Classes
  BY DEF ClassifyOnce, Classes
<1>3. /\ DOMAIN first = 1 .. 3 /\ \A r \in 1 .. 3 : first[r] \in found
      /\ DOMAIN second = 1 .. 3 /\ \A r \in 1 .. 3 : second[r] \in found
  OBVIOUS
<1> HIDE DEF found
<1> DEFINE x == [gold |-> gold1, runs |-> first]
           y == [gold |-> gold2, runs |-> second]
           s == <<x, y>>
<1>4. LabelledInput(x) /\ LabelledInput(y)
  BY <1>2, <1>3 DEF LabelledInput
<1>5. call'.inputs = Take(s, n)
  BY <1>1
<1> HIDE DEF x, y
<1> DEFINE S == {z \in {x, y} : TRUE}
<1>6. s \in [1 .. 2 -> S] /\ \A z \in S : LabelledInput(z)
  BY <1>4
<1> HIDE DEF s, S
<1>7. Begins(Take(s, n), s, MinOf(2, n), S)
  <2>1. PICK m \in Nat : m = 2
    OBVIOUS
  <2>2. s \in [1 .. m -> S] /\ n \in Nat
    BY <1>6, <2>1
  <2>3. Begins(Take(s, n), s, MinOf(m, n), S)
    BY <2>2, TakeIs
  <2> QED BY <2>1, <2>3
<1>8. MinOf(2, n) \in Nat
  BY DEF MinOf
<1>9. Take(s, n) \in [1 .. MinOf(2, n) -> S]
  BY <1>7 DEF Begins
<1>10. Labelled(Take(s, n))
  BY <1>6, <1>8, <1>9 DEF Labelled
<1> QED BY <1>5, <1>10

LEMMA JudgedHolds == Spec => []Judged
<1>1. Init => Judged
  BY DEF Init, Judged
<1>2. Judged /\ [Next]_call => Judged'
  <2>1. CASE UNCHANGED call
    BY <2>1 DEF Judged
  <2>2. CASE Next
    BY <2>2, CallOf, RouterCallIs DEF Judged
  <2> QED BY <2>1, <2>2
<1> QED BY <1>1, <1>2, PTL DEF Spec

\* What the verdict says about the inputs.
LeaksSeen(inputs) ==
    LET facts  == {i \in DOMAIN inputs : inputs[i].gold = "fact"}
        usable == \A i \in DOMAIN inputs : <<"failed">> \notin ToSet(inputs[i].runs)
    IN  /\ RouterGate(inputs) =>
               /\ usable
               /\ \A i \in facts : LeaksIn(inputs[i]) < 2
               /\ \A i \in facts : DividedIn(inputs[i]) =>
                      ClassifyOnce(inputs[i].runs[1]) # "belief"
        /\ usable /\ ~ RouterGate(inputs) =>
               \E i \in facts : \/ LeaksIn(inputs[i]) >= 2
                                \/ LeaksIn(inputs[i]) = 1 /\ DividedIn(inputs[i])

LEMMA LeaksAreSeen ==
    ASSUME NEW inputs, Labelled(inputs)
    PROVE  LeaksSeen(inputs)
<1> DEFINE facts == {i \in DOMAIN inputs : inputs[i].gold = "fact"}
           usable == \A i \in DOMAIN inputs : <<"failed">> \notin ToSet(inputs[i].runs)
           m(i) == Majority(inputs[i].runs)
<1>1. \A i \in DOMAIN inputs : LabelledInput(inputs[i])
  BY DEF Labelled
<1>2. RouterGate(inputs) <=> usable /\ \A i \in facts : m(i) # "belief"
  BY NoneConfused DEF RouterGate
<1>3. ASSUME usable, NEW i \in facts
      PROVE  /\ m(i) # "belief" => LeaksIn(inputs[i]) < 2
             /\ m(i) # "belief" /\ DividedIn(inputs[i]) => ClassifyOnce(inputs[i].runs[1]) # "belief"
             /\ m(i) = "belief" =>
                   LeaksIn(inputs[i]) >= 2 \/ (LeaksIn(inputs[i]) = 1 /\ DividedIn(inputs[i]))
  <2>1. LabelledInput(inputs[i]) /\ <<"failed">> \notin ToSet(inputs[i].runs)
    BY <1>1, <1>3
  <2> QED BY <2>1, InputTells
<1> HIDE DEF facts, usable, m
<1>4. RouterGate(inputs) =>
          /\ usable
          /\ \A i \in facts : LeaksIn(inputs[i]) < 2
          /\ \A i \in facts : DividedIn(inputs[i]) => ClassifyOnce(inputs[i].runs[1]) # "belief"
  BY <1>2, <1>3
<1>5. usable /\ ~ RouterGate(inputs) =>
          \E i \in facts : LeaksIn(inputs[i]) >= 2 \/ (LeaksIn(inputs[i]) = 1 /\ DividedIn(inputs[i]))
  BY <1>2, <1>3
<1> QED BY <1>4, <1>5, Zenon DEF LeaksSeen, facts, usable

LEMMA JudgedSees ==
    ASSUME Judged
    PROVE  GateSeesLeaks
<1> SUFFICES ASSUME call.op = "router" PROVE GateSeesLeaks
  BY DEF GateSeesLeaks
<1>1. LeaksSeen(call.inputs)
  BY LeaksAreSeen DEF Judged
<1> QED BY <1>1, Zenon DEF GateSeesLeaks, LeaksSeen, LeaksIn, DividedIn

\* The states of spike v07.
Boxes == [full : BOOLEAN, jobs : SUBSET Int]
States07 == [live : SUBSET Int, pending : Boxes, shadow : Boxes, next : Int]

\* What an event of a schedule does, from s to t.
Delivered(s, t, event) ==
    /\ event = "request" /\ s.pending.full
    /\ t.live = s.pending.jobs /\ t.pending = Nothing07
    /\ t.shadow = s.shadow /\ t.next = s.next

Idled(s, t, event) == t = s /\ (event = "request" => ~ s.pending.full)

Published(s, t, event) ==
    /\ event # "request" /\ s.shadow.full
    /\ t.live = s.live /\ t.pending = Holds(s.shadow.jobs \union {s.next})
    /\ t.shadow = Nothing07 /\ t.next = s.next + 1

GivenUp(s, t, event) ==
    /\ event # "request" /\ ~ s.shadow.full
    /\ t.live = s.live /\ t.pending = s.pending /\ t.shadow = s.shadow /\ t.next = s.next + 1

Cloned(s, t, event, fails) ==
    /\ event # "request" /\ ~ s.shadow.full
    /\ s.next \in DOMAIN fails /\ ~ fails[s.next]
    /\ t.live = s.live /\ t.pending = s.pending
    /\ t.shadow = Holds(s.live) /\ t.next = s.next

Steps07(s, t, event, fails) ==
    \/ Delivered(s, t, event)
    \/ Idled(s, t, event)
    \/ Published(s, t, event)
    \/ GivenUp(s, t, event)
    \/ Cloned(s, t, event, fails)

LEMMA Step07Is ==
    ASSUME NEW s \in States07, NEW event, NEW fails
    PROVE  /\ Steps07(s, Spike07Step(s, event, fails), event, fails)
           /\ Spike07Step(s, event, fails) \in States07
<1> DEFINE t == Spike07Step(s, event, fails)
<1>1. /\ s.live \in SUBSET Int /\ s.next \in Int /\ s.pending \in Boxes /\ s.shadow \in Boxes
      /\ s = [live |-> s.live, pending |-> s.pending, shadow |-> s.shadow, next |-> s.next]
  BY DEF States07
<1>2. s.pending.jobs \in SUBSET Int /\ s.shadow.jobs \in SUBSET Int
  BY <1>1 DEF Boxes
<1>3. Nothing07 \in Boxes /\ \A J \in SUBSET Int : Holds(J) \in Boxes
  BY DEF Nothing07, Holds, Boxes
<1>4. CASE event = "request" /\ s.pending.full
  <2>1. t = [s EXCEPT !.live = s.pending.jobs, !.pending = Nothing07]
    BY <1>4 DEF Spike07Step, ServeRequest
  <2>2. t = [live |-> s.pending.jobs, pending |-> Nothing07, shadow |-> s.shadow, next |-> s.next]
    BY <1>1, <2>1
  <2> HIDE DEF t
  <2>3. t \in States07
    BY <1>1, <1>2, <1>3, <2>2 DEF States07
  <2>4. Delivered(s, t, event)
    BY <1>4, <2>2 DEF Delivered
  <2> QED BY <2>3, <2>4 DEF Steps07, t
<1>5. CASE event = "request" /\ ~ s.pending.full
  <2>1. t = s
    BY <1>5 DEF Spike07Step, ServeRequest
  <2> QED BY <1>5, <2>1 DEF Steps07, Idled
<1>6. CASE event # "request" /\ s.shadow.full
  <2>1. t = [s EXCEPT !.pending = Holds(s.shadow.jobs \union {s.next}),
                      !.shadow = Nothing07, !.next = @ + 1]
    BY <1>6 DEF Spike07Step, Publish
  <2>2. t = [live |-> s.live, pending |-> Holds(s.shadow.jobs \union {s.next}),
             shadow |-> Nothing07, next |-> s.next + 1]
    BY <1>1, <2>1
  <2> HIDE DEF t
  <2>3. t \in States07
    <3>1. s.shadow.jobs \union {s.next} \in SUBSET Int /\ s.next + 1 \in Int
      BY <1>1, <1>2
    <3> QED BY <1>1, <1>3, <2>2, <3>1 DEF States07
  <2>4. Published(s, t, event)
    BY <1>6, <2>2 DEF Published
  <2> QED BY <2>3, <2>4 DEF Steps07, t
<1>7. CASE event # "request" /\ ~ s.shadow.full /\ s.next \in DOMAIN fails /\ fails[s.next]
  <2>1. t = [s EXCEPT !.next = @ + 1]
    BY <1>7 DEF Spike07Step, Clone
  <2>2. t = [live |-> s.live, pending |-> s.pending, shadow |-> s.shadow, next |-> s.next + 1]
    BY <1>1, <2>1
  <2> HIDE DEF t
  <2>3. t \in States07
    BY <1>1, <2>2 DEF States07
  <2>4. GivenUp(s, t, event)
    BY <1>7, <2>2 DEF GivenUp
  <2> QED BY <2>3, <2>4 DEF Steps07, t
<1>8. CASE event # "request" /\ ~ s.shadow.full /\ s.next \in DOMAIN fails /\ ~ fails[s.next]
  <2>1. t = [s EXCEPT !.shadow = Holds(s.live)]
    BY <1>8 DEF Spike07Step, Clone
  <2>2. t = [live |-> s.live, pending |-> s.pending, shadow |-> Holds(s.live), next |-> s.next]
    BY <1>1, <2>1
  <2> HIDE DEF t
  <2>3. t \in States07
    BY <1>1, <1>3, <2>2 DEF States07
  <2>4. Cloned(s, t, event, fails)
    BY <1>8, <2>2 DEF Cloned
  <2> QED BY <2>3, <2>4 DEF Steps07, t
<1>9. CASE event # "request" /\ ~ s.shadow.full /\ s.next \notin DOMAIN fails
  <2>1. t = s
    BY <1>9 DEF Spike07Step
  <2> QED BY <1>9, <2>1 DEF Steps07, Idled
<1> QED BY <1>4, <1>5, <1>6, <1>7, <1>8, <1>9

\* The states after each event.
Spiked(schedule, fails, f) ==
    f = [k \in 0 .. Len(schedule) |->
            IF k = 0 THEN Spike07Init ELSE Spike07Step(f[k - 1], schedule[k], fails)]

LEMMA Init07Is == Spike07Init \in States07
<1>1. /\ {} \in SUBSET Int /\ Nothing07 \in Boxes /\ 1 \in Int
  BY DEF Nothing07, Boxes
<1> QED BY <1>1 DEF Spike07Init, States07

LEMMA SpikedExists ==
    ASSUME NEW n \in Nat, NEW schedule, Len(schedule) = n, NEW fails
    PROVE  \E f : Spiked(schedule, fails, f) /\ f \in [0 .. n -> States07]
<1> DEFINE next == [k \in 1 .. n |-> [s \in States07 |-> Spike07Step(s, schedule[k], fails)]]
<1>1. next \in [1 .. n -> [States07 -> States07]]
  BY Step07Is
<1>2. \A s \in States07, k \in 1 .. n : next[k][s] = Spike07Step(s, schedule[k], fails)
  OBVIOUS
<1> HIDE DEF next
<1>3. PICK f : Recursion(n, States07, Spike07Init, next, f)
  BY <1>1, Init07Is, RecursionExists
<1>4. /\ f \in [0 .. n -> States07] /\ f[0] = Spike07Init
      /\ \A k \in 1 .. n : f[k] = next[k][f[k - 1]]
  BY <1>3 DEF Recursion
<1>5. ASSUME NEW k \in 0 .. n
      PROVE  f[k] = IF k = 0 THEN Spike07Init ELSE Spike07Step(f[k - 1], schedule[k], fails)
  <2>1. CASE k = 0
    BY <1>4, <2>1
  <2>2. CASE k # 0
    <3>1. k \in 1 .. n /\ k - 1 \in 0 .. n
      BY <2>2
    <3> QED BY <1>2, <1>4, <2>2, <3>1
  <2> QED BY <2>1, <2>2
<1>6. f = [k \in 0 .. n |->
              IF k = 0 THEN Spike07Init ELSE Spike07Step(f[k - 1], schedule[k], fails)]
  BY <1>4, <1>5
<1> QED BY <1>4, <1>6 DEF Spiked

LEMMA Spike07Is ==
    ASSUME NEW n \in Nat, NEW schedule, Len(schedule) = n, NEW fails
    PROVE  \E f : Spiked(schedule, fails, f) /\ Spike07(schedule, fails) = f[n]
<1> DEFINE f == CHOOSE f : Spiked(schedule, fails, f)
<1>1. Spiked(schedule, fails, f)
  BY SpikedExists
<1>2. Spike07(schedule, fails) = f[Len(schedule)]
  BY Zenon DEF Spike07, Spiked
<1> QED BY <1>1, <1>2

\* The beginning of a schedule leads to the states of the whole.
BegunBy(schedule, fails, n, f, k) ==
    /\ n \in Nat /\ k \in 0 .. n
    /\ \E Events : schedule \in [1 .. n -> Events]
    /\ Spiked(schedule, fails, f)

LEMMA BeginningLeads ==
    ASSUME NEW schedule, NEW fails, NEW n, NEW f, NEW k, BegunBy(schedule, fails, n, f, k)
    PROVE  Spike07(SubSeq(schedule, 1, k), fails) = f[k]
<1> DEFINE s == SubSeq(schedule, 1, k)
<1>0. /\ n \in Nat /\ k \in 0 .. n
      /\ Spiked(schedule, fails, f)
  BY DEF BegunBy
<1>1. PICK Events : schedule \in Seq(Events) /\ Len(schedule) = n
  <2>1. PICK Events : schedule \in [1 .. n -> Events]
    BY DEF BegunBy
  <2> QED BY <1>0, <2>1
<1>2. Len(s) = k /\ \A r \in 1 .. k : s[r] = schedule[r]
  BY <1>0, <1>1
<1> HIDE DEF s
<1>3. PICK g : Spiked(s, fails, g) /\ Spike07(s, fails) = g[k]
  BY <1>0, <1>2, Spike07Is
<1>4. \A r \in 0 .. k :
          g[r] = IF r = 0 THEN Spike07Init ELSE Spike07Step(g[r - 1], s[r], fails)
  BY <1>0, <1>2, <1>3 DEF Spiked
<1>5. \A r \in 0 .. n :
          f[r] = IF r = 0 THEN Spike07Init ELSE Spike07Step(f[r - 1], schedule[r], fails)
  BY <1>0, <1>1 DEF Spiked
<1> DEFINE differs == {r \in 0 .. k : g[r] # f[r]}
<1>6. differs = {}
  <2> SUFFICES ASSUME differs # {} PROVE FALSE
    OBVIOUS
  <2>1. /\ differs \subseteq Nat
        /\ \A r \in differs : r \in 0 .. k /\ g[r] # f[r]
        /\ \A r \in 0 .. k : r \notin differs => g[r] = f[r]
    BY <1>0
  <2> HIDE DEF differs
  <2>2. PICK r \in differs : \A w \in differs : r <= w
    BY <2>1, LeastNumber
  <2>3. r \in 0 .. k /\ r \in 0 .. n /\ g[r] # f[r]
    BY <1>0, <2>1, <2>2
  <2>4. CASE r = 0
    BY <1>0, <1>4, <1>5, <2>3, <2>4
  <2>5. CASE r # 0
    <3>1. r - 1 \in 0 .. k /\ ~ (r <= r - 1) /\ r \in 1 .. k
      BY <1>0, <2>3, <2>5
    <3>2. g[r - 1] = f[r - 1]
      BY <2>1, <2>2, <3>1
    <3>3. g[r] = Spike07Step(g[r - 1], s[r], fails)
      BY <1>0, <1>4, <2>3, <2>5
    <3>4. f[r] = Spike07Step(f[r - 1], schedule[r], fails)
      BY <1>0, <1>5, <2>3, <2>5
    <3> QED BY <1>0, <1>2, <2>3, <3>1, <3>2, <3>3, <3>4
  <2> QED BY <2>4, <2>5
<1>7. k \in 0 .. k /\ k \notin differs
  BY <1>0, <1>6
<1>8. g[k] = f[k]
  BY <1>7
<1> QED BY <1>3, <1>8 DEF s

\* A run of spike v07: f has its states, from the first to the last.
Run07(schedule, fails, n, f) ==
    /\ n \in Nat /\ f[0] = Spike07Init
    /\ \A k \in 0 .. n : f[k] \in States07
    /\ \A k \in 1 .. n : Steps07(f[k - 1], f[k], schedule[k], fails)

LEMMA SpikedRuns ==
    ASSUME NEW n \in Nat, NEW schedule, Len(schedule) = n, NEW fails,
           NEW f, Spiked(schedule, fails, f)
    PROVE  Run07(schedule, fails, n, f)
<1>1. \A k \in 0 .. n :
          f[k] = IF k = 0 THEN Spike07Init ELSE Spike07Step(f[k - 1], schedule[k], fails)
  BY DEF Spiked
<1> DEFINE others == {k \in 0 .. n : f[k] \notin States07}
<1>2. others = {}
  <2> SUFFICES ASSUME others # {} PROVE FALSE
    OBVIOUS
  <2>1. /\ others \subseteq Nat
        /\ \A k \in others : k \in 0 .. n /\ f[k] \notin States07
        /\ \A k \in 0 .. n : k \notin others => f[k] \in States07
    OBVIOUS
  <2> HIDE DEF others
  <2>2. PICK k \in others : \A w \in others : k <= w
    BY <2>1, LeastNumber
  <2>3. k \in 0 .. n /\ f[k] \notin States07
    BY <2>1
  <2>4. CASE k = 0
    BY <1>1, <2>3, <2>4, Init07Is
  <2>5. CASE k # 0
    <3>1. k - 1 \in 0 .. n /\ ~ (k <= k - 1)
      BY <2>3, <2>5
    <3>2. f[k - 1] \in States07
      BY <2>1, <2>2, <3>1
    <3>3. f[k] = Spike07Step(f[k - 1], schedule[k], fails)
      BY <1>1, <2>3, <2>5
    <3> QED BY <2>3, <3>2, <3>3, Step07Is
  <2> QED BY <2>4, <2>5
<1>3. \A k \in 0 .. n : f[k] \in States07
  BY <1>2
<1>4. ASSUME NEW k \in 1 .. n PROVE Steps07(f[k - 1], f[k], schedule[k], fails)
  <2>1. k \in 0 .. n /\ k # 0 /\ k - 1 \in 0 .. n
    OBVIOUS
  <2>2. f[k] = Spike07Step(f[k - 1], schedule[k], fails) /\ f[k - 1] \in States07
    BY <1>1, <1>3, <2>1
  <2> QED BY <2>2, Step07Is
<1>5. f[0] = Spike07Init
  BY <1>1
<1> QED BY <1>3, <1>4, <1>5 DEF Run07

\* Only jobs that did not fail are in the slot, the mailbox and the copy.
Trained(s, fails) ==
    /\ \A j \in s.live \union s.pending.jobs \union s.shadow.jobs :
          j \in DOMAIN fails /\ ~ fails[j]
    /\ s.shadow.full => s.next \in DOMAIN fails /\ ~ fails[s.next]

LEMMA StepTrains ==
    ASSUME NEW s, NEW t, NEW event, NEW fails, Steps07(s, t, event, fails), Trained(s, fails)
    PROVE  Trained(t, fails)
<1>1. /\ \A j \in s.live \union s.pending.jobs \union s.shadow.jobs :
            j \in DOMAIN fails /\ ~ fails[j]
      /\ s.shadow.full => s.next \in DOMAIN fails /\ ~ fails[s.next]
  BY DEF Trained
<1>2. /\ Nothing07.full = FALSE /\ Nothing07.jobs = {}
      /\ \A J : Holds(J).full = TRUE /\ Holds(J).jobs = J
  BY DEF Nothing07, Holds
<1>3. CASE Delivered(s, t, event)
  BY <1>1, <1>2, <1>3 DEF Delivered, Trained
<1>4. CASE Idled(s, t, event)
  BY <1>4 DEF Idled
<1>5. CASE Published(s, t, event)
  BY <1>1, <1>2, <1>5 DEF Published, Trained
<1>6. CASE GivenUp(s, t, event)
  BY <1>1, <1>2, <1>6 DEF GivenUp, Trained
<1>7. CASE Cloned(s, t, event, fails)
  BY <1>1, <1>2, <1>7 DEF Cloned, Trained
<1> QED BY <1>3, <1>4, <1>5, <1>6, <1>7 DEF Steps07

LEMMA RunTrains ==
    ASSUME NEW schedule, NEW fails, NEW n, NEW f, Run07(schedule, fails, n, f)
    PROVE  \A k \in 0 .. n : Trained(f[k], fails)
<1>1. /\ n \in Nat /\ f[0] = Spike07Init
      /\ \A k \in 1 .. n : Steps07(f[k - 1], f[k], schedule[k], fails)
  BY DEF Run07
<1> DEFINE others == {k \in 0 .. n : ~ Trained(f[k], fails)}
<1>2. others = {}
  <2> SUFFICES ASSUME others # {} PROVE FALSE
    OBVIOUS
  <2>1. /\ others \subseteq Nat
        /\ \A k \in others : k \in 0 .. n /\ ~ Trained(f[k], fails)
        /\ \A k \in 0 .. n : k \notin others => Trained(f[k], fails)
    BY <1>1
  <2> HIDE DEF others
  <2>2. PICK k \in others : \A w \in others : k <= w
    BY <2>1, LeastNumber
  <2>3. k \in 0 .. n /\ ~ Trained(f[k], fails)
    BY <2>1
  <2>4. Trained(f[0], fails)
    BY <1>1 DEF Spike07Init, Nothing07, Trained
  <2>5. CASE k # 0
    <3>1. k - 1 \in 0 .. n /\ ~ (k <= k - 1) /\ k \in 1 .. n
      BY <1>1, <2>3, <2>5
    <3>2. Trained(f[k - 1], fails)
      BY <2>1, <2>2, <3>1
    <3> QED BY <1>1, <2>3, <3>1, <3>2, StepTrains
  <2> QED BY <2>3, <2>4, <2>5
<1> QED BY <1>2

\* A published job still lies in the mailbox, since no request came ...
Waits(s, job) == s.pending.full /\ job \in s.pending.jobs /\ ~ s.shadow.full

\* ... or is in the slot and in whatever may take its place.
Stays(s, job) ==
    /\ job \in s.live
    /\ s.pending.full => job \in s.pending.jobs
    /\ s.shadow.full => job \in s.shadow.jobs

LEMMA StepStays ==
    ASSUME NEW s, NEW t, NEW event, NEW fails, Steps07(s, t, event, fails),
           NEW job, Stays(s, job)
    PROVE  Stays(t, job)
<1>1. /\ job \in s.live
      /\ s.pending.full => job \in s.pending.jobs
      /\ s.shadow.full => job \in s.shadow.jobs
  BY DEF Stays
<1>2. /\ Nothing07.full = FALSE /\ Nothing07.jobs = {}
      /\ \A J : Holds(J).full = TRUE /\ Holds(J).jobs = J
  BY DEF Nothing07, Holds
<1>3. CASE Delivered(s, t, event)
  BY <1>1, <1>2, <1>3 DEF Delivered, Stays
<1>4. CASE Idled(s, t, event)
  BY <1>4 DEF Idled
<1>5. CASE Published(s, t, event)
  BY <1>1, <1>2, <1>5 DEF Published, Stays
<1>6. CASE GivenUp(s, t, event)
  BY <1>1, <1>6 DEF GivenUp, Stays
<1>7. CASE Cloned(s, t, event, fails)
  BY <1>1, <1>2, <1>7 DEF Cloned, Stays
<1> QED BY <1>3, <1>4, <1>5, <1>6, <1>7 DEF Steps07

LEMMA StepWaits ==
    ASSUME NEW s, NEW t, NEW event, NEW fails, Steps07(s, t, event, fails),
           NEW job, Waits(s, job), ~ t.shadow.full
    PROVE  Stays(t, job) \/ (event # "request" /\ Waits(t, job))
<1>1. s.pending.full /\ job \in s.pending.jobs /\ ~ s.shadow.full
  BY DEF Waits
<1>2. /\ Nothing07.full = FALSE
      /\ \A J : Holds(J).full = TRUE
  BY DEF Nothing07, Holds
<1>3. CASE Delivered(s, t, event)
  BY <1>1, <1>2, <1>3 DEF Delivered, Stays
<1>4. CASE Idled(s, t, event)
  BY <1>1, <1>4 DEF Idled, Waits
<1>5. CASE Published(s, t, event)
  BY <1>1, <1>5 DEF Published
<1>6. CASE GivenUp(s, t, event)
  BY <1>1, <1>6 DEF GivenUp, Waits
<1>7. CASE Cloned(s, t, event, fails)
  BY <1>2, <1>7 DEF Cloned
<1> QED BY <1>3, <1>4, <1>5, <1>6, <1>7 DEF Steps07

Publishes07(f, k, job) == f[k - 1].shadow.full /\ ~ f[k].shadow.full /\ f[k - 1].next = job
Copies07(f, k) == ~ f[k - 1].shadow.full /\ f[k].shadow.full

\* What is published and not overwritten is in the slot or the mailbox at the end.
LEMMA PublishedStays ==
    ASSUME NEW schedule, NEW fails, NEW n, NEW f, Run07(schedule, fails, n, f),
           NEW k \in 1 .. n, NEW job, Publishes07(f, k, job),
           \A c \in k + 1 .. n :
               ~ (Copies07(f, c) /\ \A r \in k + 1 .. c - 1 : schedule[r] # "request")
    PROVE  job \in f[n].live \union f[n].pending.jobs
<1>1. /\ n \in Nat
      /\ \A m \in 1 .. n : Steps07(f[m - 1], f[m], schedule[m], fails)
  BY DEF Run07
<1> DEFINE Here(m) == \/ Stays(f[m], job)
                      \/ /\ Waits(f[m], job)
                         /\ \A r \in k + 1 .. m : schedule[r] # "request"
           others == {m \in k .. n : ~ Here(m)}
<1>2. Here(k)
  <2>1. Steps07(f[k - 1], f[k], schedule[k], fails)
    BY <1>1
  <2>2. f[k - 1].shadow.full /\ ~ f[k].shadow.full /\ f[k - 1].next = job
    BY DEF Publishes07
  <2>3. Published(f[k - 1], f[k], schedule[k])
    <3>1. ~ Delivered(f[k - 1], f[k], schedule[k])
      BY <2>2 DEF Delivered
    <3>2. ~ Idled(f[k - 1], f[k], schedule[k])
      BY <2>2 DEF Idled
    <3>3. ~ GivenUp(f[k - 1], f[k], schedule[k])
      BY <2>2 DEF GivenUp
    <3>4. ~ Cloned(f[k - 1], f[k], schedule[k], fails)
      BY <2>2 DEF Cloned
    <3> QED BY <2>1, <3>1, <3>2, <3>3, <3>4, Zenon DEF Steps07
  <2>4. Waits(f[k], job)
    BY <2>2, <2>3 DEF Published, Holds, Nothing07, Waits
  <2>5. \A r \in k + 1 .. k : schedule[r] # "request"
    OBVIOUS
  <2> QED BY <2>4, <2>5
<1>3. ASSUME NEW m \in k + 1 .. n, Here(m - 1)
      PROVE  Here(m)
  <2>1. m \in 1 .. n /\ m - 1 \in k .. n
    BY <1>1
  <2>2. Steps07(f[m - 1], f[m], schedule[m], fails)
    BY <1>1, <2>1
  <2>3. CASE Stays(f[m - 1], job)
    BY <2>2, <2>3, StepStays
  <2>4. CASE /\ Waits(f[m - 1], job)
             /\ \A r \in k + 1 .. m - 1 : schedule[r] # "request"
    <3>1. ~ f[m].shadow.full
      <4>1. ~ Copies07(f, m)
        BY <2>4
      <4> QED BY <2>4, <4>1 DEF Copies07, Waits
    <3>2. Stays(f[m], job) \/ (schedule[m] # "request" /\ Waits(f[m], job))
      BY <2>2, <2>4, <3>1, StepWaits
    <3>3. \A r \in k + 1 .. m : r = m \/ r \in k + 1 .. m - 1
      BY <1>1
    <3> QED BY <2>4, <3>2, <3>3
  <2> QED BY <1>3, <2>3, <2>4
<1>4. others = {}
  <2> SUFFICES ASSUME others # {} PROVE FALSE
    OBVIOUS
  <2>1. /\ others \subseteq Nat
        /\ \A m \in others : m \in k .. n /\ ~ Here(m)
        /\ \A m \in k .. n : m \notin others => Here(m)
    BY <1>1
  <2> HIDE DEF others, Here
  <2>2. PICK m \in others : \A w \in others : m <= w
    BY <2>1, LeastNumber
  <2>3. m \in k .. n /\ ~ Here(m) /\ m # k
    BY <1>2, <2>1
  <2>4. m \in k + 1 .. n /\ m - 1 \in k .. n /\ ~ (m <= m - 1)
    BY <1>1, <2>3
  <2>5. Here(m - 1)
    BY <2>1, <2>2, <2>4
  <2> QED BY <1>3, <2>3, <2>4, <2>5
<1>5. n \in k .. n /\ n \notin others
  BY <1>1, <1>4
<1>6. Here(n)
  BY <1>5
<1> QED BY <1>6 DEF Stays, Waits

\* What the last call gave the worker of spike v07.
Mailed(schedule, fails) ==
    \E n \in Nat : schedule \in [1 .. n -> {"worker", "request"}]

Posted == call.op = "mailbox" => Mailed(call.schedule, call.fails)

LEMMA MailboxCallIs ==
    ASSUME RunMailbox
    PROVE  Mailed(call'.schedule, call'.fails)
<1>1. PICK schedule \in SeqOf({"worker", "request"}, 7), fails \in SeqOf(BOOLEAN, 3) :
          call' = [op |-> "mailbox", schedule |-> schedule, fails |-> fails]
  BY Zenon DEF RunMailbox
<1>2. PICK n \in 0 .. 7 : schedule \in [1 .. n -> {"worker", "request"}]
  BY DEF SeqOf
<1>3. n \in Nat /\ call'.schedule = schedule
  BY <1>1
<1> QED BY <1>2, <1>3 DEF Mailed

LEMMA PostedHolds == Spec => []Posted
<1>1. Init => Posted
  BY DEF Init, Posted
<1>2. Posted /\ [Next]_call => Posted'
  <2>1. CASE UNCHANGED call
    BY <2>1 DEF Posted
  <2>2. CASE Next
    BY <2>2, CallOf, MailboxCallIs DEF Posted
  <2> QED BY <2>1, <2>2
<1> QED BY <1>1, <1>2, PTL DEF Spec

\* What a run keeps, in terms of its states.
OverwrittenLost(schedule, fails, n, f) ==
    /\ \A k \in 1 .. n, job \in DOMAIN fails : Publishes07(f, k, job) =>
          \/ job \in f[n].live \union f[n].pending.jobs
          \/ \E c \in k + 1 .. n :
                Copies07(f, c) /\ \A r \in k + 1 .. c - 1 : schedule[r] # "request"
    /\ \A job \in f[n].live \union f[n].pending.jobs : ~ fails[job]

LEMMA RunKeeps ==
    ASSUME NEW schedule, NEW fails, NEW n, NEW f, Run07(schedule, fails, n, f)
    PROVE  OverwrittenLost(schedule, fails, n, f)
<1>1. n \in Nat /\ n \in 0 .. n
  BY DEF Run07
<1>2. Trained(f[n], fails)
  BY <1>1, RunTrains
<1>3. \A job \in f[n].live \union f[n].pending.jobs : ~ fails[job]
  BY <1>2 DEF Trained
<1>4. ASSUME NEW k \in 1 .. n, NEW job \in DOMAIN fails, Publishes07(f, k, job)
      PROVE  \/ job \in f[n].live \union f[n].pending.jobs
             \/ \E c \in k + 1 .. n :
                   Copies07(f, c) /\ \A r \in k + 1 .. c - 1 : schedule[r] # "request"
  BY <1>4, PublishedStays
<1> QED BY <1>3, <1>4, Zenon DEF OverwrittenLost

LEMMA PostedKeeps ==
    ASSUME Posted
    PROVE  OnlyOverwrittenLost
<1> SUFFICES ASSUME call.op = "mailbox" PROVE OnlyOverwrittenLost
  BY DEF OnlyOverwrittenLost
<1> DEFINE schedule == call.schedule
           fails == call.fails
<1>1. PICK n \in Nat : schedule \in [1 .. n -> {"worker", "request"}]
  BY DEF Posted, Mailed
<1>2. Len(schedule) = n
  BY <1>1
<1> HIDE DEF schedule, fails
<1>3. PICK f : Spiked(schedule, fails, f)
  BY <1>2, SpikedExists
<1>4. \A k \in 0 .. n : Spike07(SubSeq(schedule, 1, k), fails) = f[k]
  <2>1. ASSUME NEW k \in 0 .. n
        PROVE  BegunBy(schedule, fails, n, f, k)
    BY <1>1, <1>3, <2>1 DEF BegunBy
  <2> QED BY <2>1, BeginningLeads
<1>5. OverwrittenLost(schedule, fails, n, f)
  BY <1>2, <1>3, SpikedRuns, RunKeeps
<1> DEFINE at(k) == Spike07(SubSeq(schedule, 1, k), fails)
<1>6. /\ \A k \in 1 .. n : at(k) = f[k] /\ at(k - 1) = f[k - 1]
      /\ at(n) = f[n]
  <2>1. \A k \in 1 .. n : k \in 0 .. n /\ k - 1 \in 0 .. n
    OBVIOUS
  <2>2. n \in 0 .. n
    OBVIOUS
  <2> QED BY <1>4, <2>1, <2>2
<1> HIDE DEF at
<1>7. \A k \in 1 .. n, job \in DOMAIN fails :
          at(k - 1).shadow.full /\ ~ at(k).shadow.full /\ at(k - 1).next = job =>
              \/ job \in at(n).live \union at(n).pending.jobs
              \/ \E c \in k + 1 .. n :
                    /\ ~ at(c - 1).shadow.full /\ at(c).shadow.full
                    /\ \A r \in k + 1 .. c - 1 : schedule[r] # "request"
  <2> SUFFICES ASSUME NEW k \in 1 .. n, NEW job \in DOMAIN fails,
                      at(k - 1).shadow.full, ~ at(k).shadow.full, at(k - 1).next = job,
                      job \notin at(n).live \union at(n).pending.jobs
               PROVE  \E c \in k + 1 .. n :
                    /\ ~ at(c - 1).shadow.full /\ at(c).shadow.full
                    /\ \A r \in k + 1 .. c - 1 : schedule[r] # "request"
    OBVIOUS
  <2>1. Publishes07(f, k, job)
    BY <1>6 DEF Publishes07
  <2>2. PICK c \in k + 1 .. n :
            Copies07(f, c) /\ \A r \in k + 1 .. c - 1 : schedule[r] # "request"
    BY <1>5, <1>6, <2>1 DEF OverwrittenLost
  <2>3. c \in 1 .. n
    OBVIOUS
  <2>4. at(c) = f[c] /\ at(c - 1) = f[c - 1]
    BY <1>6, <2>3
  <2> QED BY <2>2, <2>4 DEF Copies07
<1>8. \A job \in at(n).live \union at(n).pending.jobs : ~ fails[job]
  BY <1>5, <1>6 DEF OverwrittenLost
<1> QED BY <1>2, <1>7, <1>8, Zenon DEF OnlyOverwrittenLost, at, schedule, fails

\* What the prototypes concluded carries over to the server, wherever the threshold
\* lies and however many memories a plan and the lane may hold; the lemmas say it of
\* registries, plans, sets of labelled inputs and schedules of any size.
THEOREM PrototypesCarryOverHolds == Spec => []PrototypesCarryOver
<1>1. Requested /\ Fixed /\ Prototyped /\ Judged /\ Posted => PrototypesCarryOver
  BY AliasesAreEnough, FixtureIsEnough, PrototypedAgrees, JudgedSees, PostedKeeps
     DEF PrototypesCarryOver
<1> QED BY <1>1, RequestedHolds, FixedHolds, PrototypedHolds, JudgedHolds, PostedHolds, PTL

----
\* Files

Version == [version : Nat, whole : BOOLEAN]
Disk == [file : Version, tmps : SUBSET Version]

DiskOf(file, tmps) == [file |-> file, tmps |-> tmps]

\* Each step of a write, by name.
LEMMA WriteStepIs ==
    ASSUME NEW d \in Disk, NEW v \in Nat, NEW s
    PROVE  /\ s = "mkdir" => WriteStep(d, s, v) = d
           /\ s = "open" => WriteStep(d, s, v) = DiskOf(d.file, d.tmps \union {Partial(v)})
           /\ s = "dump" => WriteStep(d, s, v) =
                  DiskOf(d.file, (d.tmps \ Contents(d, v)) \union {Whole(v)})
           /\ s = "replace" => WriteStep(d, s, v) = DiskOf(Whole(v), d.tmps \ Contents(d, v))
           /\ s = "unlink" => WriteStep(d, s, v) = DiskOf(d.file, d.tmps \ Contents(d, v))
<1>1. d = [file |-> d.file, tmps |-> d.tmps]
  BY DEF Disk
<1> QED BY <1>1 DEF WriteStep, DiskOf

LEMMA DiskOfType ==
    ASSUME NEW file \in Version, NEW tmps, tmps \subseteq Version
    PROVE  /\ DiskOf(file, tmps) \in Disk
           /\ DiskOf(file, tmps).file = file /\ DiskOf(file, tmps).tmps = tmps
BY DEF DiskOf, Disk

LEMMA WriteStepType ==
    ASSUME NEW d \in Disk, NEW n \in 1 .. 5, NEW v \in Nat
    PROVE  WriteStep(d, WriteSteps[n], v) \in Disk
<1>1. /\ Whole(v) \in Version /\ Partial(v) \in Version
  BY DEF Whole, Partial, Version
<1>2. d.file \in Version /\ d.tmps \subseteq Version
  BY DEF Disk
<1>3. /\ d.tmps \ Contents(d, v) \subseteq Version
      /\ d.tmps \union {Partial(v)} \subseteq Version
      /\ (d.tmps \ Contents(d, v)) \union {Whole(v)} \subseteq Version
  BY <1>1, <1>2
<1>4. /\ DiskOf(d.file, d.tmps \union {Partial(v)}) \in Disk
      /\ DiskOf(d.file, (d.tmps \ Contents(d, v)) \union {Whole(v)}) \in Disk
      /\ DiskOf(Whole(v), d.tmps \ Contents(d, v)) \in Disk
      /\ DiskOf(d.file, d.tmps \ Contents(d, v)) \in Disk
  BY <1>1, <1>2, <1>3, DiskOfType
<1>5. WriteSteps[n] \in {"mkdir", "open", "dump", "replace", "unlink"}
  BY DEF WriteSteps
<1> QED BY <1>4, <1>5, WriteStepIs

\* The states of the disk between the steps of a write.
Between(d, v, f) ==
    f = [n \in 0 .. Len(WriteSteps) |->
            IF n = 0 THEN d ELSE WriteStep(f[n - 1], WriteSteps[n], v)]

LEMMA BetweenExists ==
    ASSUME NEW d \in Disk, NEW v \in Nat
    PROVE  \E f : Between(d, v, f)
<1> DEFINE N    == Len(WriteSteps)
           next == [n \in 1 .. N |-> [e \in Disk |-> WriteStep(e, WriteSteps[n], v)]]
<1>1. N \in Nat /\ N = 5
  BY DEF WriteSteps
<1> HIDE DEF N
<1>2. next \in [1 .. N -> [Disk -> Disk]]
  BY <1>1, WriteStepType
<1>3. \A e \in Disk, n \in 1 .. N : next[n][e] = WriteStep(e, WriteSteps[n], v)
  OBVIOUS
<1> HIDE DEF next
<1>4. PICK f : Recursion(N, Disk, d, next, f)
  BY <1>1, <1>2, RecursionExists
<1>5. /\ f \in [0 .. N -> Disk] /\ f[0] = d
      /\ \A n \in 1 .. N : f[n] = next[n][f[n - 1]]
  BY <1>4 DEF Recursion
<1>6. ASSUME NEW n \in 0 .. N
      PROVE  f[n] = IF n = 0 THEN d ELSE WriteStep(f[n - 1], WriteSteps[n], v)
  <2>1. CASE n = 0
    BY <1>5, <2>1
  <2>2. CASE n # 0
    <3>1. n \in 1 .. N /\ n - 1 \in 0 .. N
      BY <1>1, <2>2
    <3> QED BY <1>3, <1>5, <2>2, <3>1
  <2> QED BY <2>1, <2>2
<1>7. f = [n \in 0 .. N |-> IF n = 0 THEN d ELSE WriteStep(f[n - 1], WriteSteps[n], v)]
  BY <1>5, <1>6
<1> QED BY <1>7 DEF Between, N

LEMMA WriteIsBetween ==
    ASSUME NEW d \in Disk, NEW v \in Nat, NEW fate
    PROVE  \E f : /\ Between(d, v, f)
                  /\ AtomicWriteJson(d, v, fate) =
                        IF fate.kind = "raises" /\ fate.at > 1
                        THEN WriteStep(f[fate.at - 1], "unlink", v) ELSE f[fate.at - 1]
<1> DEFINE f == CHOOSE f : Between(d, v, f)
<1>1. Between(d, v, f)
  BY BetweenExists
<1>2. AtomicWriteJson(d, v, fate) =
          IF fate.kind = "raises" /\ fate.at > 1
          THEN WriteStep(f[fate.at - 1], "unlink", v) ELSE f[fate.at - 1]
  BY Zenon DEF AtomicWriteJson, Between
<1> QED BY <1>1, <1>2

\* What a write leaves, by its fate, on a disk without a temporary file of its own.
LEMMA WriteLeaves ==
    ASSUME NEW d \in Disk, NEW v \in Nat, Contents(d, v) = {}, NEW fate \in Fate
    PROVE  AtomicWriteJson(d, v, fate) =
               IF fate.at >= 5 THEN [file |-> Whole(v), tmps |-> d.tmps]
               ELSE IF fate.kind = "dies" /\ fate.at = 4
               THEN [file |-> d.file, tmps |-> d.tmps \union {Whole(v)}]
               ELSE IF fate.kind = "dies" /\ fate.at = 3
               THEN [file |-> d.file, tmps |-> d.tmps \union {Partial(v)}]
               ELSE d
<1> DEFINE full == DiskOf(d.file, d.tmps \union {Whole(v)})
           half == DiskOf(d.file, d.tmps \union {Partial(v)})
           new  == DiskOf(Whole(v), d.tmps)
<1>1. PICK f : /\ Between(d, v, f)
               /\ AtomicWriteJson(d, v, fate) =
                     IF fate.kind = "raises" /\ fate.at > 1
                     THEN WriteStep(f[fate.at - 1], "unlink", v) ELSE f[fate.at - 1]
  BY WriteIsBetween
<1>2. /\ f[0] = d
      /\ f[1] = WriteStep(f[0], "mkdir", v)
      /\ f[2] = WriteStep(f[1], "open", v)
      /\ f[3] = WriteStep(f[2], "dump", v)
      /\ f[4] = WriteStep(f[3], "replace", v)
      /\ f[5] = WriteStep(f[4], "unlink", v)
  <2>1. Len(WriteSteps) = 5
    BY DEF WriteSteps
  <2>2. \A n \in 0 .. 5 : f[n] = IF n = 0 THEN d ELSE WriteStep(f[n - 1], WriteSteps[n], v)
    BY <1>1, <2>1 DEF Between
  <2>3. /\ WriteSteps[1] = "mkdir" /\ WriteSteps[2] = "open" /\ WriteSteps[3] = "dump"
        /\ WriteSteps[4] = "replace" /\ WriteSteps[5] = "unlink"
    BY DEF WriteSteps
  <2> QED BY <2>2, <2>3
<1>3. /\ d.file \in Version /\ d.tmps \subseteq Version
      /\ d = DiskOf(d.file, d.tmps)
      /\ \A t \in d.tmps : t.version # v
  BY DEF Disk, Contents, DiskOf
<1>4. /\ Whole(v).version = v /\ Partial(v).version = v
      /\ Whole(v) \in Version /\ Partial(v) \in Version
  BY DEF Whole, Partial, Version
<1>5. /\ full \in Disk /\ half \in Disk /\ new \in Disk
      /\ full.file = d.file /\ full.tmps = d.tmps \union {Whole(v)}
      /\ half.file = d.file /\ half.tmps = d.tmps \union {Partial(v)}
      /\ new.file = Whole(v) /\ new.tmps = d.tmps
  BY <1>3, <1>4, DiskOfType
<1> HIDE DEF full, half, new
<1>6. /\ Contents(full, v) = {Whole(v)}
      /\ Contents(half, v) = {Partial(v)}
      /\ Contents(new, v) = {}
  BY <1>3, <1>4, <1>5 DEF Contents
<1>7. /\ (d.tmps \union {Partial(v)}) \ {Partial(v)} = d.tmps
      /\ (d.tmps \union {Whole(v)}) \ {Whole(v)} = d.tmps
      /\ d.tmps \ {} = d.tmps
  BY <1>3, <1>4
<1>8. f[0] = d /\ f[1] = d /\ f[2] = half
  <2>1. WriteStep(d, "mkdir", v) = d /\ WriteStep(d, "open", v) = half
    BY WriteStepIs DEF half
  <2> QED BY <1>2, <2>1, Zenon
<1>9. \A e \in Disk :
         /\ WriteStep(e, "dump", v) = DiskOf(e.file, (e.tmps \ Contents(e, v)) \union {Whole(v)})
         /\ WriteStep(e, "replace", v) = DiskOf(Whole(v), e.tmps \ Contents(e, v))
         /\ WriteStep(e, "unlink", v) = DiskOf(e.file, e.tmps \ Contents(e, v))
  <2>1. SUFFICES ASSUME NEW e \in Disk
                 PROVE  /\ WriteStep(e, "dump", v) =
                               DiskOf(e.file, (e.tmps \ Contents(e, v)) \union {Whole(v)})
                        /\ WriteStep(e, "replace", v) = DiskOf(Whole(v), e.tmps \ Contents(e, v))
                        /\ WriteStep(e, "unlink", v) = DiskOf(e.file, e.tmps \ Contents(e, v))
    OBVIOUS
  <2>2. e = [file |-> e.file, tmps |-> e.tmps]
    BY DEF Disk
  <2> QED BY <2>2 DEF WriteStep, DiskOf
<1>10. f[3] = full
  <2>1. WriteStep(half, "dump", v) = full
    <3>1. WriteStep(half, "dump", v) =
              DiskOf(half.file, (half.tmps \ Contents(half, v)) \union {Whole(v)})
      BY <1>5, <1>9, Zenon
    <3> QED BY <1>5, <1>6, <1>7, <3>1, Zenon DEF full
  <2> QED BY <1>2, <1>8, <2>1, Zenon
<1>11. f[4] = new /\ f[5] = new
  <2>1. WriteStep(full, "replace", v) = new
    <3>1. WriteStep(full, "replace", v) = DiskOf(Whole(v), full.tmps \ Contents(full, v))
      BY <1>5, <1>9, Zenon
    <3> QED BY <1>5, <1>6, <1>7, <3>1, Zenon DEF new
  <2>2. WriteStep(new, "unlink", v) = new
    <3>1. WriteStep(new, "unlink", v) = DiskOf(new.file, new.tmps \ Contents(new, v))
      BY <1>5, <1>9, Zenon
    <3> QED BY <1>5, <1>6, <1>7, <3>1, Zenon DEF new
  <2> QED BY <1>2, <1>10, <2>1, <2>2, Zenon
<1>12. /\ WriteStep(d, "unlink", v) = d
       /\ WriteStep(half, "unlink", v) = d
       /\ WriteStep(full, "unlink", v) = d
  <2>1. /\ WriteStep(d, "unlink", v) = DiskOf(d.file, d.tmps \ Contents(d, v))
        /\ WriteStep(half, "unlink", v) = DiskOf(half.file, half.tmps \ Contents(half, v))
        /\ WriteStep(full, "unlink", v) = DiskOf(full.file, full.tmps \ Contents(full, v))
    BY <1>5, <1>9, Zenon
  <2> QED BY <1>3, <1>5, <1>6, <1>7, <2>1, Zenon
<1>13. \/ fate.kind = "returns" /\ fate.at = 6
       \/ fate.kind = "raises" /\ fate.at \in 1 .. 4
       \/ fate.kind = "dies" /\ fate.at \in 1 .. 5
  BY DEF Fate
<1>14. CASE fate.kind = "returns"
  BY <1>1, <1>11, <1>13, <1>14 DEF new, DiskOf
<1>15. CASE fate.kind = "raises"
  <2>1. fate.at \in {1, 2, 3, 4}
    BY <1>13, <1>15
  <2> QED BY <1>1, <1>8, <1>10, <1>12, <1>15, <2>1
<1>16. CASE fate.kind = "dies"
  <2>1. fate.at \in {1, 2, 3, 4, 5}
    BY <1>13, <1>16
  <2> QED BY <1>1, <1>8, <1>10, <1>11, <1>16, <2>1 DEF full, half, new, DiskOf
<1> QED BY <1>13, <1>14, <1>15, <1>16

LEMMA WriteType ==
    ASSUME NEW d \in Disk, NEW v \in Nat, NEW fate \in Fate
    PROVE  AtomicWriteJson(d, v, fate) \in Disk
<1>1. PICK f : /\ Between(d, v, f)
               /\ AtomicWriteJson(d, v, fate) =
                     IF fate.kind = "raises" /\ fate.at > 1
                     THEN WriteStep(f[fate.at - 1], "unlink", v) ELSE f[fate.at - 1]
  BY WriteIsBetween
<1>2. /\ f[0] = d
      /\ \A n \in 1 .. 5 : f[n] = WriteStep(f[n - 1], WriteSteps[n], v)
  <2>1. Len(WriteSteps) = 5
    BY DEF WriteSteps
  <2>2. \A n \in 0 .. 5 : f[n] = IF n = 0 THEN d ELSE WriteStep(f[n - 1], WriteSteps[n], v)
    BY <1>1, <2>1 DEF Between
  <2> QED BY <2>2
<1>3. f[0] \in Disk
  BY <1>2
<1>4. \A n \in 1 .. 5 : f[n - 1] \in Disk => f[n] \in Disk
  BY <1>2, WriteStepType
<1>5. f[1] \in Disk
  BY <1>3, <1>4
<1>6. f[2] \in Disk
  BY <1>4, <1>5
<1>7. f[3] \in Disk
  BY <1>4, <1>6
<1>8. f[4] \in Disk
  BY <1>4, <1>7
<1>9. f[5] \in Disk
  BY <1>4, <1>8
<1>10. fate.at \in 1 .. 6
  BY DEF Fate
<1>11. f[fate.at - 1] \in Disk
  <2>1. fate.at \in {1, 2, 3, 4, 5, 6}
    BY <1>10
  <2> QED BY <1>3, <1>5, <1>6, <1>7, <1>8, <1>9, <2>1
<1>12. \A e \in Disk : WriteStep(e, "unlink", v) \in Disk
  BY WriteStepType DEF WriteSteps
<1> QED BY <1>1, <1>11, <1>12, Zenon

\* The writes that took the place of the file, and those that left a temporary
\* file, among the first k.
PlacedBy(fates, k) == {v \in 1 .. k : fates[v].at >= 5}

LeftBy(fates, k) == {v \in 1 .. k : fates[v].kind = "dies" /\ fates[v].at \in 3 .. 4}

\* What is on the disk after k writes.
AfterWrites(fates, k, d) ==
    /\ d \in Disk
    /\ d.file.whole = TRUE
    /\ PlacedBy(fates, k) = {} => d.file.version = 0
    /\ PlacedBy(fates, k) # {} => d.file.version \in PlacedBy(fates, k)
    /\ \A v \in PlacedBy(fates, k) : v <= d.file.version
    /\ \A t \in d.tmps : t.version \in LeftBy(fates, k)
    /\ \A v \in LeftBy(fates, k) : \E t \in d.tmps : t.version = v

LEMMA AfterNone ==
    ASSUME NEW fates
    PROVE  AfterWrites(fates, 0, EmptyDisk)
<1>1. PlacedBy(fates, 0) = {} /\ LeftBy(fates, 0) = {}
  BY DEF PlacedBy, LeftBy
<1>2. EmptyDisk \in Disk /\ EmptyDisk.file.whole = TRUE
      /\ EmptyDisk.file.version = 0 /\ EmptyDisk.tmps = {}
  BY DEF EmptyDisk, Absent, Whole, Disk, Version
<1> QED BY <1>1, <1>2 DEF AfterWrites

LEMMA AfterNext ==
    ASSUME NEW n \in Nat, NEW fates \in [1 .. n -> Fate], NEW k \in 1 .. n,
           NEW d, AfterWrites(fates, k - 1, d)
    PROVE  AfterWrites(fates, k, AtomicWriteJson(d, k, fates[k]))
<1> DEFINE e == AtomicWriteJson(d, k, fates[k])
<1>1. /\ fates[k] \in Fate /\ d \in Disk /\ k \in Nat /\ k # 0
      /\ d.file \in Version /\ d.tmps \subseteq Version /\ d.file.whole = TRUE
      /\ PlacedBy(fates, k - 1) = {} => d.file.version = 0
      /\ PlacedBy(fates, k - 1) # {} => d.file.version \in PlacedBy(fates, k - 1)
      /\ \A v \in PlacedBy(fates, k - 1) : v <= d.file.version
      /\ \A t \in d.tmps : t.version \in LeftBy(fates, k - 1)
      /\ \A v \in LeftBy(fates, k - 1) : \E t \in d.tmps : t.version = v
  BY DEF AfterWrites, Disk
<1>2. Contents(d, k) = {}
  BY <1>1 DEF Contents, LeftBy
<1>3. e = IF fates[k].at >= 5 THEN [file |-> Whole(k), tmps |-> d.tmps]
          ELSE IF fates[k].kind = "dies" /\ fates[k].at = 4
          THEN [file |-> d.file, tmps |-> d.tmps \union {Whole(k)}]
          ELSE IF fates[k].kind = "dies" /\ fates[k].at = 3
          THEN [file |-> d.file, tmps |-> d.tmps \union {Partial(k)}]
          ELSE d
  BY <1>1, <1>2, WriteLeaves
<1>4. e \in Disk
  BY <1>1, WriteType
<1> SUFFICES AfterWrites(fates, k, e)
  OBVIOUS
<1> HIDE DEF e
<1>5. /\ Whole(k).version = k /\ Partial(k).version = k /\ Whole(k).whole = TRUE
  BY DEF Whole, Partial
<1>6. fates[k].at \in 1 .. 6
  BY <1>1 DEF Fate
<1>7. CASE fates[k].at >= 5
  <2>1. /\ PlacedBy(fates, k) = PlacedBy(fates, k - 1) \union {k}
        /\ LeftBy(fates, k) = LeftBy(fates, k - 1)
    BY <1>1, <1>6, <1>7 DEF PlacedBy, LeftBy
  <2>2. e.file = Whole(k) /\ e.tmps = d.tmps
    BY <1>3, <1>7
  <2>3. \A v \in PlacedBy(fates, k) : v <= k
    BY DEF PlacedBy
  <2> QED BY <1>1, <1>4, <1>5, <2>1, <2>2, <2>3 DEF AfterWrites
<1>8. CASE fates[k].at < 5 /\ fates[k].kind = "dies" /\ fates[k].at \in 3 .. 4
  <2>1. /\ PlacedBy(fates, k) = PlacedBy(fates, k - 1)
        /\ LeftBy(fates, k) = LeftBy(fates, k - 1) \union {k}
    BY <1>1, <1>6, <1>8 DEF PlacedBy, LeftBy
  <2>2. PICK t : /\ t.version = k
                 /\ e.file = d.file /\ e.tmps = d.tmps \union {t}
    BY <1>3, <1>5, <1>8
  <2> QED BY <1>1, <1>4, <2>1, <2>2 DEF AfterWrites
<1>9. CASE fates[k].at < 5 /\ ~ (fates[k].kind = "dies" /\ fates[k].at \in 3 .. 4)
  <2>1. /\ PlacedBy(fates, k) = PlacedBy(fates, k - 1)
        /\ LeftBy(fates, k) = LeftBy(fates, k - 1)
    BY <1>1, <1>6, <1>9 DEF PlacedBy, LeftBy
  <2>2. e = d
    BY <1>3, <1>6, <1>9
  <2> QED BY <1>1, <2>1, <2>2 DEF AfterWrites
<1> QED BY <1>6, <1>7, <1>8, <1>9

\* The disk after each of the writes.
Written(fates, f) ==
    f = [v \in 0 .. Len(fates) |->
            IF v = 0 THEN EmptyDisk ELSE AtomicWriteJson(f[v - 1], v, fates[v])]

LEMMA WrittenExists ==
    ASSUME NEW n \in Nat, NEW fates \in [1 .. n -> Fate], Len(fates) = n
    PROVE  \E f : Written(fates, f)
<1> DEFINE next == [v \in 1 .. n |-> [d \in Disk |-> AtomicWriteJson(d, v, fates[v])]]
<1>1. next \in [1 .. n -> [Disk -> Disk]]
  BY WriteType
<1>2. \A d \in Disk, v \in 1 .. n : next[v][d] = AtomicWriteJson(d, v, fates[v])
  OBVIOUS
<1>3. EmptyDisk \in Disk
  BY AfterNone DEF AfterWrites
<1> HIDE DEF next
<1>4. PICK f : Recursion(n, Disk, EmptyDisk, next, f)
  BY <1>1, <1>3, RecursionExists
<1>5. /\ f \in [0 .. n -> Disk] /\ f[0] = EmptyDisk
      /\ \A v \in 1 .. n : f[v] = next[v][f[v - 1]]
  BY <1>4 DEF Recursion
<1>6. ASSUME NEW v \in 0 .. n
      PROVE  f[v] = IF v = 0 THEN EmptyDisk ELSE AtomicWriteJson(f[v - 1], v, fates[v])
  <2>1. CASE v = 0
    BY <1>5, <2>1
  <2>2. CASE v # 0
    <3>1. v \in 1 .. n /\ v - 1 \in 0 .. n
      BY <2>2
    <3> QED BY <1>2, <1>5, <2>2, <3>1
  <2> QED BY <2>1, <2>2
<1>7. f = [v \in 0 .. n |-> IF v = 0 THEN EmptyDisk ELSE AtomicWriteJson(f[v - 1], v, fates[v])]
  BY <1>5, <1>6
<1> QED BY <1>7 DEF Written

LEMMA WritesIsWritten ==
    ASSUME NEW n \in Nat, NEW fates \in [1 .. n -> Fate], Len(fates) = n
    PROVE  \E f : Written(fates, f) /\ Writes(fates) = f[Len(fates)]
<1> DEFINE f == CHOOSE f : Written(fates, f)
<1>1. Written(fates, f)
  BY WrittenExists
<1>2. Writes(fates) = f[Len(fates)]
  BY Zenon DEF Writes, Written
<1> QED BY <1>1, <1>2

\* However many writes there are and whatever becomes of each.
LEMMA WritesAreRight ==
    ASSUME NEW n \in Nat, NEW fates \in [1 .. n -> Fate], Len(fates) = n
    PROVE  AfterWrites(fates, n, Writes(fates))
<1>1. PICK f : Written(fates, f) /\ Writes(fates) = f[n]
  BY WritesIsWritten
<1>2. \A v \in 0 .. n :
          f[v] = IF v = 0 THEN EmptyDisk ELSE AtomicWriteJson(f[v - 1], v, fates[v])
  BY <1>1 DEF Written
<1> DEFINE fails == {v \in 0 .. n : ~ AfterWrites(fates, v, f[v])}
<1>3. fails = {}
  <2> SUFFICES ASSUME fails # {} PROVE FALSE
    OBVIOUS
  <2>1. fails \subseteq Nat
    OBVIOUS
  <2>2. \A v \in fails : v \in 0 .. n /\ ~ AfterWrites(fates, v, f[v])
    OBVIOUS
  <2>3. \A v \in 0 .. n : v \notin fails => AfterWrites(fates, v, f[v])
    OBVIOUS
  <2> HIDE DEF fails
  <2>4. PICK v \in fails : \A w \in fails : v <= w
    BY <2>1, LeastNumber
  <2>5. CASE v = 0
    <3>1. f[0] = EmptyDisk
      BY <1>2
    <3>2. AfterWrites(fates, 0, f[0])
      BY <3>1, AfterNone
    <3> QED BY <2>2, <2>5, <3>2
  <2>6. CASE v # 0
    <3>1. v \in 1 .. n /\ v - 1 \in 0 .. n /\ ~ (v <= v - 1)
      BY <2>2, <2>6
    <3>2. AfterWrites(fates, v - 1, f[v - 1])
      BY <2>3, <2>4, <3>1
    <3>3. f[v] = AtomicWriteJson(f[v - 1], v, fates[v])
      BY <1>2, <2>2, <2>6
    <3>4. AfterWrites(fates, v, f[v])
      BY <3>1, <3>2, <3>3, AfterNext
    <3> QED BY <2>2, <3>4
  <2> QED BY <2>5, <2>6
<1>4. n \in 0 .. n /\ n \notin fails
  BY <1>3
<1> QED BY <1>1, <1>4

\* Whatever goes wrong with the writes of a file, a start of the server finds the last
\* version that took its place, whole; the lemmas say it of any number of writes.
THEOREM FileIsWholeHolds == Spec => []FileIsWhole
<1>1. Init => FileIsWhole
  BY DEF Init, FileIsWhole
<1>2. FileIsWhole /\ [Next]_call => FileIsWhole'
  <2> SUFFICES ASSUME Next, call'.op = "write" PROVE FileIsWhole'
    BY DEF FileIsWhole
  <2>1. PICK fates \in SeqOf(Fate, 3) : call' = [op |-> "write", fates |-> fates]
    BY CallOf DEF WriteFile
  <2>2. PICK n \in 0 .. 3 : fates \in [1 .. n -> Fate]
    BY <2>1 DEF SeqOf
  <2>3. n \in Nat /\ Len(fates) = n /\ DOMAIN fates = 1 .. n
    BY <2>2
  <2>4. AfterWrites(fates, n, Writes(fates))
    BY <2>2, <2>3, WritesAreRight
  <2> DEFINE at(kinds, lo) == {v \in DOMAIN fates : fates[v].kind \in kinds /\ fates[v].at >= lo}
             placed == at({"returns", "dies"}, 5)
             disk   == Writes(fates)
  <2>5. \A v \in 1 .. n : \/ fates[v].kind = "returns" /\ fates[v].at = 6
                          \/ fates[v].kind = "raises" /\ fates[v].at \in 1 .. 4
                          \/ fates[v].kind = "dies" /\ fates[v].at \in 1 .. 5
    BY <2>2 DEF Fate
  <2>6. placed = PlacedBy(fates, n)
    BY <2>3, <2>5 DEF PlacedBy
  <2>7. at({"dies"}, 3) \ placed = LeftBy(fates, n)
    BY <2>3, <2>5 DEF LeftBy
  <2>8. placed \subseteq Nat /\ 0 \notin placed
    BY <2>6 DEF PlacedBy
  <2>9. {t.version : t \in disk.tmps} = LeftBy(fates, n)
    BY <2>4 DEF AfterWrites
  <2> HIDE DEF placed, disk
  <2>10. LoadJson(disk) = IF placed = {} THEN [raises |-> TRUE, version |-> 0]
                          ELSE [raises |-> FALSE, version |-> Max(placed)]
    <3>1. /\ disk.file \in Version /\ disk.file.whole = TRUE
          /\ placed = {} => disk.file.version = 0
          /\ placed # {} => disk.file.version \in placed
          /\ \A v \in placed : v <= disk.file.version
      BY <2>4, <2>6 DEF AfterWrites, Disk, disk
    <3>2. disk.file = Absent <=> disk.file.version = 0
      <4>1. \A w \in Version : w.whole = TRUE => (w = Absent <=> w.version = 0)
        BY DEF Version, Absent, Whole
      <4> QED BY <3>1, <4>1, Zenon
    <3>3. CASE placed = {}
      BY <3>1, <3>2, <3>3 DEF LoadJson
    <3>4. CASE placed # {}
      <4>1. Max(placed) = disk.file.version
        BY <2>8, <3>1, <3>4, MaxIs
      <4> QED BY <2>8, <3>1, <3>2, <3>4, <4>1 DEF LoadJson
    <3> QED BY <3>3, <3>4
  <2>11. call'.fates = fates
    BY <2>1
  <2> QED BY <2>7, <2>9, <2>10, <2>11 DEF FileIsWhole, placed, disk
<1> QED BY <1>1, <1>2, PTL DEF Spec

----
\* Dataset

\* t holds the entries of s at the positions in P, in order.
SubOf(t, s, P, k, e) ==
    /\ k \in Nat /\ P \subseteq Int
    /\ \A r \in 1 .. k : e[r] \in P
    /\ \A i \in P : \E r \in 1 .. k : e[r] = i
    /\ \A q, r \in 1 .. k : q < r => e[q] < e[r]
    /\ t = Through(s, e, k)

LEMMA SubOfIs ==
    ASSUME NEW t, NEW s, NEW P, NEW k, NEW e, SubOf(t, s, P, k, e)
    PROVE  /\ k \in Nat /\ P \subseteq Int
           /\ \A r \in 1 .. k : e[r] \in P
           /\ \A i \in P : \E r \in 1 .. k : e[r] = i
           /\ \A q, r \in 1 .. k : q < r => e[q] < e[r]
           /\ DOMAIN t = 1 .. k /\ Len(t) = k
           /\ \A r \in 1 .. k : t[r] = s[e[r]]
           /\ ToSet(t) = {s[i] : i \in P}
           /\ t = << >> <=> P = {}
           /\ t \in [1 .. k -> {s[i] : i \in P}]
<1>1. /\ k \in Nat /\ P \subseteq Int
      /\ \A r \in 1 .. k : e[r] \in P
      /\ \A i \in P : \E r \in 1 .. k : e[r] = i
      /\ \A q, r \in 1 .. k : q < r => e[q] < e[r]
      /\ t = [r \in 1 .. k |-> s[e[r]]]
  BY DEF SubOf, Through
<1>2. DOMAIN t = 1 .. k /\ \A r \in 1 .. k : t[r] = s[e[r]]
  BY <1>1
<1>3. t \in [1 .. k -> {s[i] : i \in P}]
  BY <1>1
<1>4. Len(t) = k
  BY <1>1, <1>3
<1>5. ToSet(t) = {s[i] : i \in P}
  <2>1. \A x \in {s[i] : i \in P} : \E r \in 1 .. k : t[r] = x
    BY <1>1, <1>2
  <2> QED BY <1>2, <1>3, <2>1 DEF ToSet
<1>6. ASSUME P = {} PROVE t = << >>
  <2>1. ~ (1 \in 1 .. k)
    BY <1>1, <1>6
  <2>2. k = 0
    BY <1>1, <2>1
  <2> QED BY <1>1, <2>2
<1>7. ASSUME t = << >> PROVE P = {}
  <2>1. k = 0
    BY <1>2, <1>4, <1>7
  <2> QED BY <1>1, <2>1
<1>8. t = << >> <=> P = {}
  BY <1>6, <1>7
<1> QED BY <1>1, <1>2, <1>3, <1>4, <1>5, <1>8, Zenon

LEMMA PickedIsSub ==
    ASSUME NEW s, NEW P, IsFiniteSet(P), P \subseteq Int
    PROVE  \E k, e : SubOf(Picked(s, P), s, P, k, e) /\ k = Cardinality(P)
<1>1. PICK k, e : Picking(s, P, k, e)
  BY PickedBy
<1>2. SubOf(Picked(s, P), s, P, k, e) /\ k = Cardinality(P)
  BY <1>1 DEF Picking, SubOf
<1> QED BY <1>2

\* Picking from what was picked.
LEMMA PickedAgain ==
    ASSUME NEW t, NEW s, NEW P, NEW k, NEW e, SubOf(t, s, P, k, e),
           NEW Q, Q \subseteq 1 .. k, NEW R, \A i \in P : i \in R <=> \E q \in Q : e[q] = i,
           R \subseteq P
    PROVE  \E m, g : SubOf(Picked(t, Q), s, R, m, g)
<1>1. /\ k \in Nat /\ P \subseteq Int
      /\ \A r \in 1 .. k : e[r] \in P
      /\ \A q, r \in 1 .. k : q < r => e[q] < e[r]
      /\ \A r \in 1 .. k : t[r] = s[e[r]]
  BY SubOfIs
<1>2. IsFiniteSet(Q) /\ Q \subseteq Int
  <2>1. IsFiniteSet(1 .. k)
    BY <1>1, UpToFinite
  <2>2. Q \in SUBSET (1 .. k)
    OBVIOUS
  <2>3. IsFiniteSet(Q)
    BY <2>1, <2>2, FS_Subset
  <2> QED BY <2>2, <2>3
<1>3. PICK m, h : SubOf(Picked(t, Q), t, Q, m, h)
  BY <1>2, PickedIsSub
<1>4. /\ m \in Nat
      /\ \A r \in 1 .. m : h[r] \in Q
      /\ \A i \in Q : \E r \in 1 .. m : h[r] = i
      /\ \A q, r \in 1 .. m : q < r => h[q] < h[r]
      /\ Picked(t, Q) = [r \in 1 .. m |-> t[h[r]]]
  BY <1>3 DEF SubOf, Through
<1> DEFINE g == [r \in 1 .. m |-> e[h[r]]]
<1>5. \A r \in 1 .. m : g[r] = e[h[r]] /\ h[r] \in 1 .. k
  BY <1>4
<1> HIDE DEF g
<1>6. \A r \in 1 .. m : g[r] \in R
  BY <1>1, <1>4, <1>5
<1>7. ASSUME NEW i \in R PROVE \E r \in 1 .. m : g[r] = i
  <2>1. PICK q \in Q : e[q] = i
    OBVIOUS
  <2>2. PICK r \in 1 .. m : h[r] = q
    BY <1>4
  <2> QED BY <1>5, <2>1, <2>2
<1>8. \A q, r \in 1 .. m : q < r => g[q] < g[r]
  BY <1>1, <1>4, <1>5
<1>9. Picked(t, Q) = [r \in 1 .. m |-> s[g[r]]]
  BY <1>1, <1>4, <1>5
<1>10. R \subseteq Int
  BY <1>1
<1>11. SubOf(Picked(t, Q), s, R, m, g)
  BY <1>4, <1>6, <1>7, <1>8, <1>9, <1>10 DEF SubOf, Through
<1> QED BY <1>11

\* A document whose samples are numbered.
IsDoc(doc, N) ==
    /\ N \in Nat /\ DOMAIN doc = 1 .. N /\ Len(doc) = N
    /\ \A i \in 1 .. N : doc[i].key = i

Family(doc, family) == {i \in DOMAIN doc : doc[i].family = family}

LEMMA FamilyFinite ==
    ASSUME NEW doc, NEW N, IsDoc(doc, N), NEW P, P \subseteq DOMAIN doc
    PROVE  IsFiniteSet(P) /\ P \subseteq Int /\ Cardinality(P) \in Nat
<1>1. N \in Nat /\ DOMAIN doc = 1 .. N
  BY DEF IsDoc
<1>2. IsFiniteSet(1 .. N)
  BY <1>1, UpToFinite
<1>3. IsFiniteSet(P)
  BY <1>1, <1>2, FS_Subset
<1> QED BY <1>1, <1>3, FS_CardinalityType

LEMMA BucketIs ==
    ASSUME NEW doc, NEW N, IsDoc(doc, N), NEW family
    PROVE  \E k, e : /\ SubOf(Bucket(doc, family), doc, Family(doc, family), k, e)
                     /\ k = Cardinality(Family(doc, family))
<1>1. IsFiniteSet(Family(doc, family)) /\ Family(doc, family) \subseteq Int
  BY FamilyFinite DEF Family
<1>2. Bucket(doc, family) = Picked(doc, Family(doc, family))
  BY DEF Bucket, Family
<1> QED BY <1>1, <1>2, PickedIsSub

\* What is left of a part when a field is asked for.
LEMMA ByTierIs ==
    ASSUME NEW t, NEW s, NEW P, NEW k, NEW e, SubOf(t, s, P, k, e), NEW tier
    PROVE  \E m, g : SubOf(ByTier(t, tier), s, {i \in P : s[i].tier = tier}, m, g)
<1> DEFINE Q == {q \in DOMAIN t : t[q].tier = tier}
           R == {i \in P : s[i].tier = tier}
<1>1. /\ DOMAIN t = 1 .. k
      /\ \A r \in 1 .. k : t[r] = s[e[r]]
      /\ \A r \in 1 .. k : e[r] \in P
      /\ \A i \in P : \E r \in 1 .. k : e[r] = i
  BY SubOfIs
<1>2. Q \subseteq 1 .. k /\ R \subseteq P
  BY <1>1
<1>3. \A i \in P : i \in R <=> \E q \in Q : e[q] = i
  BY <1>1
<1>4. ByTier(t, tier) = Picked(t, Q)
  BY DEF ByTier
<1> HIDE DEF Q, R
<1>5. \E m, g : SubOf(Picked(t, Q), s, R, m, g)
  BY <1>2, <1>3, PickedAgain
<1> QED BY <1>4, <1>5 DEF R

LEMMA ByTypeIs ==
    ASSUME NEW t, NEW s, NEW P, NEW k, NEW e, SubOf(t, s, P, k, e), NEW type
    PROVE  \E m, g : SubOf(ByType(t, type), s, {i \in P : s[i].type = type}, m, g)
<1> DEFINE Q == {q \in DOMAIN t : t[q].type = type}
           R == {i \in P : s[i].type = type}
<1>1. /\ DOMAIN t = 1 .. k
      /\ \A r \in 1 .. k : t[r] = s[e[r]]
      /\ \A r \in 1 .. k : e[r] \in P
      /\ \A i \in P : \E r \in 1 .. k : e[r] = i
  BY SubOfIs
<1>2. Q \subseteq 1 .. k /\ R \subseteq P
  BY <1>1
<1>3. \A i \in P : i \in R <=> \E q \in Q : e[q] = i
  BY <1>1
<1>4. ByType(t, type) = Picked(t, Q)
  BY DEF ByType
<1> HIDE DEF Q, R
<1>5. \E m, g : SubOf(Picked(t, Q), s, R, m, g)
  BY <1>2, <1>3, PickedAgain
<1> QED BY <1>4, <1>5 DEF R

\* The samples that the A-ladder is about.
Backbone(doc) ==
    {i \in DOMAIN doc : /\ doc[i].family = "A"
                        /\ doc[i].tier = "zero_prior"
                        /\ doc[i].type = "Y"}

LEMMA ZeroPriorIs ==
    ASSUME NEW doc, NEW N, IsDoc(doc, N)
    PROVE  \E m, g : SubOf(ZeroPriorY(Bucket(doc, "A")), doc, Backbone(doc), m, g)
<1> DEFINE P == Family(doc, "A")
           Q == {i \in P : doc[i].tier = "zero_prior"}
           R == {i \in Q : doc[i].type = "Y"}
<1>1. PICK k, e : SubOf(Bucket(doc, "A"), doc, P, k, e)
  BY BucketIs
<1>2. PICK l, f : SubOf(ByTier(Bucket(doc, "A"), "zero_prior"), doc, Q, l, f)
  <2> HIDE DEF P
  <2> QED BY <1>1, ByTierIs
<1>3. PICK m, g : SubOf(ByType(ByTier(Bucket(doc, "A"), "zero_prior"), "Y"), doc, R, m, g)
  <2> HIDE DEF P, Q
  <2> QED BY <1>2, ByTypeIs
<1>4. R = Backbone(doc)
  BY ZenonT(40) DEF Family, Backbone
<1> HIDE DEF P, Q, R
<1> QED BY <1>3, <1>4 DEF ZeroPriorY

\* A document that loads is of the three families and every sample parses.
LEMMA LoadIs ==
    ASSUME NEW doc, NEW N, IsDoc(doc, N), Load(doc).loads
    PROVE  /\ \A i \in 1 .. N : Parses(doc[i])
           /\ Load(doc).A = Bucket(doc, "A")
           /\ Load(doc).B = Bucket(doc, "B")
           /\ Load(doc).C = Bucket(doc, "C")
<1> DEFINE a == Bucket(doc, "A")
           b == Bucket(doc, "B")
           c == Bucket(doc, "C")
           bad == \/ \E i \in DOMAIN doc : ~ Parses(doc[i])
                  \/ <<Len(a), Len(b), Len(c)>> # <<WantA, WantB, WantC>>
<1>1. Load(doc) = IF bad THEN Refused ELSE [loads |-> TRUE, A |-> a, B |-> b, C |-> c]
  BY Zenon DEF Load
<1>2. (\E i \in DOMAIN doc : ~ Parses(doc[i])) => bad
  OBVIOUS
<1> HIDE DEF a, b, c, bad
<1>3. ~ bad
  BY <1>1 DEF Refused
<1>4. Load(doc) = [loads |-> TRUE, A |-> a, B |-> b, C |-> c]
  BY <1>1, <1>3
<1>5. DOMAIN doc = 1 .. N
  BY DEF IsDoc
<1> QED BY <1>2, <1>3, <1>4, <1>5 DEF a, b, c

LEMMA ThreeFamilies ==
    ASSUME NEW doc, NEW N, IsDoc(doc, N), \A i \in 1 .. N : Parses(doc[i])
    PROVE  Cardinality(Family(doc, "A")) + Cardinality(Family(doc, "B"))
               + Cardinality(Family(doc, "C")) = N
<1> DEFINE A == Family(doc, "A")
           B == Family(doc, "B")
           C == Family(doc, "C")
<1>1. N \in Nat /\ DOMAIN doc = 1 .. N
  BY DEF IsDoc
<1>2. \A i \in 1 .. N : doc[i].family \in {"A", "B", "C"}
  BY DEF Parses, Fields
<1>3. /\ (A \union B) \union C = 1 .. N
      /\ A \intersect B = {} /\ (A \union B) \intersect C = {}
  BY <1>1, <1>2 DEF Family
<1>4. /\ IsFiniteSet(A) /\ IsFiniteSet(B) /\ IsFiniteSet(C)
      /\ Cardinality(A) \in Nat /\ Cardinality(B) \in Nat /\ Cardinality(C) \in Nat
  BY FamilyFinite DEF Family
<1> HIDE DEF A, B, C
<1>5. Cardinality({}) = 0 /\ Cardinality(1 .. N) = N
  BY <1>1, FS_EmptySet, UpToFinite
<1>6. /\ IsFiniteSet(A \union B)
      /\ Cardinality(A \union B) = Cardinality(A) + Cardinality(B) - Cardinality(A \intersect B)
  BY <1>4, FS_Union
<1>7. Cardinality((A \union B) \union C) =
          Cardinality(A \union B) + Cardinality(C) - Cardinality((A \union B) \intersect C)
  BY <1>4, <1>6, FS_Union
<1>8. /\ Cardinality(A \intersect B) = 0 /\ Cardinality((A \union B) \intersect C) = 0
      /\ Cardinality((A \union B) \union C) = N
  BY <1>3, <1>5, Zenon
<1>9. /\ Cardinality(A \union B) = Cardinality(A) + Cardinality(B)
      /\ N = Cardinality(A \union B) + Cardinality(C)
  <2>1. PICK x, y : x = A \union B /\ y = A \intersect B
    OBVIOUS
  <2>2. PICK u, v : u = x \union C /\ v = x \intersect C
    OBVIOUS
  <2>3. /\ Cardinality(y) = 0 /\ Cardinality(v) = 0 /\ Cardinality(u) = N
        /\ Cardinality(x) = Cardinality(A) + Cardinality(B) - Cardinality(y)
        /\ Cardinality(u) = Cardinality(x) + Cardinality(C) - Cardinality(v)
    BY <1>6, <1>7, <1>8, <2>1, <2>2, Zenon
  <2>4. Cardinality(x) = Cardinality(A) + Cardinality(B) /\ N = Cardinality(x) + Cardinality(C)
    BY <1>4, <2>3
  <2> QED BY <2>1, <2>4
<1>10. Cardinality(A) + Cardinality(B) + Cardinality(C) = N
  BY <1>9
<1> QED BY <1>10 DEF A, B, C

\* Nothing that the rungs read is missing from a sample that parses.
LEMMA NothingMissing ==
    ASSUME NEW raw, Parses(raw)
    PROVE  raw.missing \notin ReadByRungs[raw.family]
<1>1. raw.family \in {"A", "B", "C"} /\ raw.missing \notin Fields[raw.family] \ OptionalFields
  BY DEF Parses, Fields
<1>2. CASE raw.family = "A"
  <2>1. ReadByRungs["A"] \subseteq Fields["A"] \ OptionalFields
    BY DEF ReadByRungs, Fields, OptionalFields
  <2> QED BY <1>1, <1>2, <2>1
<1>3. CASE raw.family = "B"
  <2>1. ReadByRungs["B"] \subseteq Fields["B"] \ OptionalFields
    BY DEF ReadByRungs, Fields, OptionalFields
  <2> QED BY <1>1, <1>3, <2>1
<1>4. CASE raw.family = "C"
  <2>1. ReadByRungs["C"] \subseteq Fields["C"] \ OptionalFields
    BY DEF ReadByRungs, Fields, OptionalFields
  <2> QED BY <1>1, <1>4, <2>1
<1> QED BY <1>1, <1>2, <1>3, <1>4

\* What is taught is the beginning of the backbone.
LEMMA TaughtIs ==
    ASSUME NEW doc, NEW N, IsDoc(doc, N), NEW data, data.A = Bucket(doc, "A"),
           NEW taught, taught = {s.key : s \in ToSet(Taught(data))}
    PROVE  /\ taught \subseteq Backbone(doc)
           /\ \A i \in Backbone(doc) \ taught, j \in taught : j < i
<1> DEFINE K == Backbone(doc)
           t == ZeroPriorY(Bucket(doc, "A"))
<1>1. PICK m, g : SubOf(t, doc, K, m, g)
  BY ZeroPriorIs
<1> HIDE DEF t, K
<1>2. /\ m \in Nat /\ K \subseteq Int
      /\ \A r \in 1 .. m : g[r] \in K
      /\ \A i \in K : \E r \in 1 .. m : g[r] = i
      /\ \A q, r \in 1 .. m : q < r => g[q] < g[r]
      /\ \A r \in 1 .. m : t[r] = doc[g[r]]
      /\ t \in [1 .. m -> {doc[i] : i \in K}]
  BY <1>1, SubOfIs
<1>3. \A i \in K : doc[i].key = i
  BY DEF IsDoc, Backbone, K
<1> DEFINE b == Taught(data)
           l == MinOf(m, TaughtFacts)
<1>4. Begins(b, t, l, {doc[i] : i \in K})
  <2>1. b = Take(t, TaughtFacts)
    BY DEF Taught, t
  <2> HIDE DEF b
  <2> QED BY <1>2, <2>1, TaughtAssumption, TakeIs
<1>5. l \in Nat /\ l <= m
  BY <1>2, TaughtAssumption DEF MinOf
<1> HIDE DEF l, b
<1>6. DOMAIN b = 1 .. l /\ \A r \in 1 .. l : b[r] = doc[g[r]] /\ g[r] \in K /\ r \in 1 .. m
  <2>1. DOMAIN b = 1 .. l /\ \A r \in 1 .. l : b[r] = t[r]
    BY <1>4 DEF Begins
  <2>2. \A r \in 1 .. l : r \in 1 .. m
    BY <1>2, <1>5
  <2>3. \A r \in 1 .. m : g[r] \in K /\ t[r] = doc[g[r]]
    BY <1>2
  <2> QED BY <2>1, <2>2, <2>3
<1>7. \A x : x \in taught <=> \E r \in 1 .. l : x = g[r]
  <2>1. \A r \in 1 .. l : b[r].key = g[r]
    BY <1>3, <1>6
  <2>2. \A r \in 1 .. l : b[r] \in ToSet(b)
    BY <1>6 DEF ToSet
  <2>3. \A s \in ToSet(b) : \E r \in 1 .. l : s = b[r]
    BY <1>6 DEF ToSet
  <2>4. taught = {s.key : s \in ToSet(b)}
    BY DEF b
  <2> QED BY <2>1, <2>2, <2>3, <2>4
<1>8. taught \subseteq K
  BY <1>6, <1>7
<1>9. ASSUME NEW i \in K \ taught, NEW j \in taught PROVE j < i
  <2>1. PICK q \in 1 .. m : g[q] = i
    BY <1>2
  <2>2. PICK r \in 1 .. l : g[r] = j
    BY <1>7
  <2>3. ~ (q \in 1 .. l)
    BY <1>7, <2>1
  <2>4. r < q /\ r \in 1 .. m
    <3>1. r \in Int /\ q \in Int /\ 1 <= r /\ r <= l /\ 1 <= q /\ ~ (q <= l)
      BY <1>5, <2>3
    <3> QED BY <1>2, <1>5, <3>1
  <2> QED BY <1>2, <2>1, <2>2, <2>4
<1> QED BY <1>8, <1>9 DEF K

LEMMA LastOfSub ==
    ASSUME NEW t, NEW s, NEW P, NEW k, NEW e, SubOf(t, s, P, k, e), P # {}
    PROVE  \E x \in P : t[Len(t)] = s[x] /\ \A i \in P : i <= x
<1>1. /\ k \in Nat /\ P \subseteq Int
      /\ \A r \in 1 .. k : e[r] \in P
      /\ \A i \in P : \E r \in 1 .. k : e[r] = i
      /\ \A q, r \in 1 .. k : q < r => e[q] < e[r]
      /\ Len(t) = k
      /\ \A r \in 1 .. k : t[r] = s[e[r]]
  BY SubOfIs
<1>2. k # 0
  <2>1. PICK i \in P : TRUE
    OBVIOUS
  <2>2. PICK r \in 1 .. k : e[r] = i
    BY <1>1, <2>1
  <2> QED BY <1>1, <2>2
<1>3. k \in 1 .. k
  BY <1>1, <1>2
<1>4. e[k] \in P /\ t[k] = s[e[k]]
  BY <1>1, <1>3
<1>5. ASSUME NEW i \in P PROVE i <= e[k]
  <2>1. PICK r \in 1 .. k : e[r] = i
    BY <1>1
  <2>2. r = k \/ r < k
    BY <1>1
  <2>3. e[k] \in Int /\ e[r] \in Int
    BY <1>1, <1>3
  <2> QED BY <1>1, <1>3, <2>1, <2>2, <2>3
<1> QED BY <1>1, <1>4, <1>5

\* The question for locality is about the last sample of the A part.
LEMMA UnrelatedIs ==
    ASSUME NEW doc, NEW N, IsDoc(doc, N), NEW data, data.A = Bucket(doc, "A"),
           NEW taught, taught \subseteq Backbone(doc),
           \A i \in Backbone(doc) \ taught, j \in taught : j < i,
           Unrelated(data).key \in taught
    PROVE  Backbone(doc) = taught
<1> DEFINE P == Family(doc, "A")
<1>1. Backbone(doc) \subseteq P /\ P \subseteq Int /\ \A i \in P : doc[i].key = i
  BY DEF Backbone, Family, IsDoc
<1>2. P # {}
  BY <1>1
<1>3. PICK k, e : SubOf(data.A, doc, P, k, e)
  BY BucketIs
<1> HIDE DEF P
<1>4. PICK x \in P : data.A[Len(data.A)] = doc[x] /\ \A i \in P : i <= x
  BY <1>2, <1>3, LastOfSub
<1>5. Unrelated(data).key = x
  BY <1>1, <1>4 DEF Unrelated
<1>6. ASSUME NEW i \in Backbone(doc), i \notin taught PROVE FALSE
  <2>1. x < i /\ i <= x
    BY <1>1, <1>4, <1>5, <1>6
  <2>2. i \in Int /\ x \in Int
    BY <1>1, <1>4
  <2> QED BY <2>1, <2>2
<1> QED BY <1>6

\* A size that is asked for is measured when there is a bundle of it.
LEMMA OfSizeIs ==
    ASSUME NEW b, NEW s, NEW P, NEW k, NEW e, SubOf(b, s, P, k, e),
           NEW data, data.B = b, NEW m
    PROVE  /\ OfSize(data, m) # << >> <=> \E x \in ToSet(b) : x.facts = m
           /\ OfSize(data, m) # << >> => OfSize(data, m)[1].facts = m
<1> DEFINE Q == {q \in DOMAIN b : b[q].facts = m}
<1>1. k \in Nat /\ DOMAIN b = 1 .. k
  BY SubOfIs
<1>2. IsFiniteSet(Q) /\ Q \subseteq Int
  <2>1. IsFiniteSet(1 .. k)
    BY <1>1, UpToFinite
  <2>2. Q \in SUBSET (1 .. k)
    BY <1>1
  <2> HIDE DEF Q
  <2>3. IsFiniteSet(Q)
    BY <2>1, <2>2, FS_Subset
  <2> QED BY <2>2, <2>3
<1>3. OfSize(data, m) = Picked(b, Q)
  BY DEF OfSize
<1>4. \A q : q \in Q <=> q \in DOMAIN b /\ b[q].facts = m
  OBVIOUS
<1> HIDE DEF Q
<1>5. PICK l, h : SubOf(Picked(b, Q), b, Q, l, h)
  BY <1>2, PickedIsSub
<1>6. PICK t : t = Picked(b, Q)
  OBVIOUS
<1>7. /\ l \in Nat /\ \A r \in 1 .. l : h[r] \in Q
      /\ \A i \in Q : \E r \in 1 .. l : h[r] = i
      /\ \A r \in 1 .. l : t[r] = b[h[r]]
      /\ t = << >> <=> Q = {}
  BY <1>5, <1>6, SubOfIs
<1>8. Q # {} <=> \E x \in ToSet(b) : x.facts = m
  BY <1>4 DEF ToSet
<1>9. ASSUME Q # {} PROVE t[1].facts = m
  <2>1. 1 \in 1 .. l
    <3>1. PICK i \in Q : TRUE
      BY <1>9
    <3>2. PICK r \in 1 .. l : h[r] = i
      BY <1>7, <3>1
    <3> QED BY <1>7, <3>2
  <2>2. t[1] = b[h[1]] /\ h[1] \in Q
    BY <1>7, <2>1
  <2> QED BY <1>4, <2>2
<1> QED BY <1>3, <1>6, <1>7, <1>8, <1>9

LEMMA BundlesAre ==
    ASSUME NEW b, NEW s, NEW P, NEW k, NEW e, SubOf(b, s, P, k, e), NEW data, data.B = b
    PROVE  {x.facts : x \in Bundles(data)} = Buckets \intersect {x.facts : x \in ToSet(b)}
<1> DEFINE T == {m \in Buckets : OfSize(data, m) # << >>}
<1>1. \A m : /\ OfSize(data, m) # << >> <=> \E x \in ToSet(b) : x.facts = m
             /\ OfSize(data, m) # << >> => OfSize(data, m)[1].facts = m
  BY OfSizeIs
<1>2. T = Buckets \intersect {x.facts : x \in ToSet(b)}
  BY <1>1
<1>3. \A m \in T : OfSize(data, m)[1].facts = m
  BY <1>1
<1>4. Bundles(data) = {OfSize(data, m)[1] : m \in T}
  BY Zenon DEF Bundles
<1> HIDE DEF T
<1>5. {x.facts : x \in Bundles(data)} = T
  BY <1>3, <1>4
<1> QED BY <1>2, <1>5

\* What the last call gave to load.
Documented == call.op = "load" => \E N : IsDoc(call.doc, N)

LEMMA SomeRawIs ==
    ASSUME NEW raw \in SomeRaw, NEW i
    PROVE  [raw EXCEPT !.key = i].key = i
<1>1. "key" \in DOMAIN raw
  BY DEF SomeRaw
<1> QED BY <1>1

LEMMA DocumentedHolds == Spec => []Documented
<1>1. Init => Documented
  BY DEF Init, Documented
<1>2. Documented /\ [Next]_call => Documented'
  <2>1. CASE UNCHANGED call
    BY <2>1 DEF Documented
  <2>2. CASE Next
    <3> SUFFICES ASSUME call'.op = "load" PROVE \E N : IsDoc(call'.doc, N)
      BY DEF Documented
    <3>1. LoadDataset
      BY <2>2, CallOf
    <3>2. PICK raws \in SeqOf(SomeRaw, 4) :
              call' = [op |-> "load", doc |-> [i \in DOMAIN raws |-> [raws[i] EXCEPT !.key = i]]]
      BY <3>1, Zenon DEF LoadDataset
    <3>3. PICK n \in 0 .. 4 : raws \in [1 .. n -> SomeRaw]
      BY <3>2 DEF SeqOf
    <3>4. PICK doc : doc = [i \in 1 .. n |-> [raws[i] EXCEPT !.key = i]]
      OBVIOUS
    <3>5. n \in Nat /\ DOMAIN raws = 1 .. n /\ DOMAIN doc = 1 .. n
      BY <3>3, <3>4
    <3>6. call'.doc = doc
      BY <3>2, <3>4, <3>5
    <3>7. Len(doc) = n
      BY <3>4, <3>5
    <3>8. \A i \in 1 .. n : doc[i].key = i
      <4> SUFFICES ASSUME NEW i \in 1 .. n PROVE doc[i].key = i
        OBVIOUS
      <4>1. raws[i] \in SomeRaw /\ doc[i] = [raws[i] EXCEPT !.key = i]
        BY <3>3, <3>4
      <4> QED BY <4>1, SomeRawIs
    <3>9. IsDoc(doc, n)
      BY <3>5, <3>7, <3>8 DEF IsDoc
    <3> QED BY <3>6, <3>9
  <2> QED BY <2>1, <2>2
<1> QED BY <1>1, <1>2, PTL DEF Spec

LEMMA DocumentedIsSound ==
    ASSUME Documented
    PROVE  DatasetIsSound
<1> DEFINE doc == call.doc
           data == Load(doc)
           taught == {s.key : s \in ToSet(Taught(data))}
<1> SUFFICES ASSUME call.op = "load", data.loads PROVE DatasetIsSound
  BY DEF DatasetIsSound
<1>1. PICK N : IsDoc(doc, N)
  BY DEF Documented
<1>2. /\ \A i \in 1 .. N : Parses(doc[i])
      /\ data.A = Bucket(doc, "A") /\ data.B = Bucket(doc, "B") /\ data.C = Bucket(doc, "C")
  BY <1>1, LoadIs
<1>3. N \in Nat /\ DOMAIN doc = 1 .. N /\ Len(doc) = N
  BY <1>1 DEF IsDoc
<1> HIDE DEF doc, data
<1>4. Len(data.A) + Len(data.B) + Len(data.C) = Len(doc)
  <2>1. \A family : Len(Bucket(doc, family)) = Cardinality(Family(doc, family))
    <3> SUFFICES ASSUME NEW family
                 PROVE  Len(Bucket(doc, family)) = Cardinality(Family(doc, family))
      OBVIOUS
    <3>1. PICK k, e : /\ SubOf(Bucket(doc, family), doc, Family(doc, family), k, e)
                      /\ k = Cardinality(Family(doc, family))
      BY <1>1, BucketIs
    <3> QED BY <3>1, SubOfIs
  <2> QED BY <1>1, <1>2, <1>3, <2>1, ThreeFamilies
<1>5. \A s \in ToSet(doc) : s.missing \notin ReadByRungs[s.family]
  <2> SUFFICES ASSUME NEW s \in ToSet(doc) PROVE s.missing \notin ReadByRungs[s.family]
    OBVIOUS
  <2>1. PICK i \in 1 .. N : s = doc[i]
    BY <1>3 DEF ToSet
  <2> QED BY <1>2, <2>1, NothingMissing
<1>6. PICK k, e : SubOf(data.B, doc, Family(doc, "B"), k, e)
  BY <1>1, <1>2, BucketIs
<1>7. \A b \in ToSet(data.B) : b.gold = b.facts /\ b.docs = b.facts
  <2> SUFFICES ASSUME NEW b \in ToSet(data.B) PROVE b.gold = b.facts /\ b.docs = b.facts
    OBVIOUS
  <2>1. ToSet(data.B) = {doc[i] : i \in Family(doc, "B")}
    BY <1>6, SubOfIs
  <2>2. PICK i \in Family(doc, "B") : b = doc[i]
    BY <2>1
  <2>3. Parses(b) /\ b.family = "B"
    BY <1>2, <1>3, <2>2 DEF Family
  <2> QED BY <2>3 DEF Parses, Aligned
<1>8. {b.facts : b \in Bundles(data)} = Buckets \intersect {b.facts : b \in ToSet(data.B)}
  BY <1>6, BundlesAre
<1> HIDE DEF taught
<1>9. /\ taught \subseteq Backbone(doc)
      /\ \A i \in Backbone(doc) \ taught, j \in taught : j < i
  BY <1>1, <1>2, TaughtIs DEF taught
<1>10. Unrelated(data).key \in taught => Backbone(doc) = taught
  BY <1>1, <1>2, <1>9, UnrelatedIs
<1> QED BY <1>4, <1>5, <1>7, <1>8, <1>9, <1>10, Zenon DEF DatasetIsSound, Backbone, taught, data, doc

\* A document that loads has what the runs need, and they measure what they say; the
\* lemmas say it of any number of samples.
THEOREM DatasetIsSoundHolds == Spec => []DatasetIsSound
<1>1. Documented => DatasetIsSound
  BY DocumentedIsSound
<1> QED BY <1>1, DocumentedHolds, PTL

----
\* Evaluation harness

LEMMA CleanAllIs ==
    ASSUME NEW w \in World
    PROVE  CleanAll(w) = Nothing
<1>1. PICK e, b, r, c : w = [edits |-> e, buffer |-> b, rag |-> r, chunks |-> c]
  BY DEF World
<1>2. SwapOut(w) = [edits |-> {}, buffer |-> b, rag |-> r, chunks |-> c]
  BY <1>1 DEF SwapOut
<1>3. StoreReset(SwapOut(w)) = [edits |-> {}, buffer |-> {}, rag |-> {}, chunks |-> c]
  <2>1. PICK v : v = SwapOut(w)
    OBVIOUS
  <2>2. PICK u : u = [v EXCEPT !.buffer = {}]
    OBVIOUS
  <2>3. u = [edits |-> {}, buffer |-> {}, rag |-> r, chunks |-> c]
    BY <1>2, <2>1, <2>2
  <2>4. [u EXCEPT !.rag = {}] = [edits |-> {}, buffer |-> {}, rag |-> {}, chunks |-> c]
    BY <2>3
  <2>5. StoreReset(v) = [u EXCEPT !.rag = {}]
    BY <1>2, <2>1, <2>2 DEF StoreReset
  <2> QED BY <2>1, <2>4, <2>5
<1>4. RagReset(StoreReset(SwapOut(w))) = [edits |-> {}, buffer |-> {}, rag |-> {}, chunks |-> {}]
  BY <1>3 DEF RagReset
<1> QED BY <1>4 DEF CleanAll, Nothing

LEMMA AddRagsIs ==
    ASSUME NEW e, NEW b, NEW r, NEW c, NEW s,
           NEW w, w = [edits |-> e, buffer |-> b, rag |-> r, chunks |-> c]
    PROVE  AddRags(w, s) = [edits |-> e, buffer |-> b, rag |-> r \union s, chunks |-> c \union s]
<1>1. PICK v : v = [w EXCEPT !.rag = @ \union s]
  OBVIOUS
<1>2. v = [edits |-> e, buffer |-> b, rag |-> r \union s, chunks |-> c]
  BY <1>1
<1>3. [v EXCEPT !.chunks = @ \union s] =
          [edits |-> e, buffer |-> b, rag |-> r \union s, chunks |-> c \union s]
  BY <1>2
<1>4. AddRags(w, s) = [v EXCEPT !.chunks = @ \union s]
  BY <1>1 DEF AddRags
<1> QED BY <1>3, <1>4

LEMMA NothingIsWorld == Nothing \in World /\ CleanAll(Nothing) = Nothing
<1>1. Nothing \in World
  BY DEF Nothing, World
<1> QED BY <1>1, CleanAllIs

\* The worlds that the rungs make.
LEMMA FromNothing ==
    ASSUME NEW e, NEW r
    PROVE  /\ DoEdits(Nothing, e) = [edits |-> e, buffer |-> {}, rag |-> {}, chunks |-> {}]
           /\ AddRags(Nothing, r) = [edits |-> {}, buffer |-> {}, rag |-> r, chunks |-> r]
           /\ AddRags(DoEdits(Nothing, e), r) =
                  [edits |-> e, buffer |-> {}, rag |-> r, chunks |-> r]
           /\ BufferEdits(Nothing, e) = [edits |-> {}, buffer |-> e, rag |-> {}, chunks |-> {}]
           /\ AddRags(BufferEdits(Nothing, e), r) =
                  [edits |-> {}, buffer |-> e, rag |-> r, chunks |-> r]
<1>1. \A s : {} \union s = s
  OBVIOUS
<1>2. Nothing = [edits |-> {}, buffer |-> {}, rag |-> {}, chunks |-> {}]
  BY DEF Nothing
<1>3. PICK none : none = Nothing
  OBVIOUS
<1>4. PICK z : z = {}
  OBVIOUS
<1>5. none = [edits |-> z, buffer |-> z, rag |-> z, chunks |-> z]
  BY <1>2, <1>3, <1>4
<1>6. DoEdits(none, e) = [edits |-> e, buffer |-> z, rag |-> z, chunks |-> z]
  BY <1>4, <1>5 DEF DoEdits
<1>7. BufferEdits(none, e) = [edits |-> z, buffer |-> e, rag |-> z, chunks |-> z]
  BY <1>4, <1>5 DEF BufferEdits
<1>8. z \union r = r
  BY <1>4
<1>9. AddRags(none, r) = [edits |-> z, buffer |-> z, rag |-> r, chunks |-> r]
  <2>1. AddRags(none, r) = [edits |-> z, buffer |-> z, rag |-> z \union r, chunks |-> z \union r]
    BY <1>5, AddRagsIs
  <2> QED BY <1>8, <2>1
<1>10. AddRags(DoEdits(none, e), r) = [edits |-> e, buffer |-> z, rag |-> r, chunks |-> r]
  <2>1. PICK w : w = DoEdits(none, e)
    OBVIOUS
  <2>2. AddRags(w, r) = [edits |-> e, buffer |-> z, rag |-> z \union r, chunks |-> z \union r]
    BY <1>6, <2>1, AddRagsIs
  <2> QED BY <1>8, <2>1, <2>2
<1>11. AddRags(BufferEdits(none, e), r) = [edits |-> z, buffer |-> e, rag |-> r, chunks |-> r]
  <2>1. PICK w : w = BufferEdits(none, e)
    OBVIOUS
  <2>2. AddRags(w, r) = [edits |-> z, buffer |-> e, rag |-> z \union r, chunks |-> z \union r]
    BY <1>7, <2>1, AddRagsIs
  <2> QED BY <1>8, <2>1, <2>2
<1> QED BY <1>3, <1>4, <1>6, <1>7, <1>9, <1>10, <1>11, Zenon

\* A reset leaves nothing, so that what a rung asks does not depend on the world.
LEMMA RungsForget ==
    ASSUME NEW w \in World, NEW pipe
    PROVE  /\ CleanAll(w) = ReloadBase(w)
           /\ \A s : /\ RungP1(w, s) = RungP1(Nothing, s)
                     /\ RungP2(w, s) = RungP2(Nothing, s)
                     /\ RungP3(w, s) = RungP3(Nothing, s)
                     /\ RungP3B(w, s) = RungP3B(Nothing, s)
                     /\ RungP35(w, s, pipe) = RungP35(Nothing, s, pipe)
                     /\ RungP4(w, s, pipe) = RungP4(Nothing, s, pipe)
                     /\ RagOnly(w, s) = RagOnly(Nothing, s)
                     /\ FreeGen(w, s) = FreeGen(Nothing, s)
           /\ \A cond, f : CCondition(w, cond, f) = CCondition(Nothing, cond, f)
<1>1. CleanAll(w) = Nothing /\ CleanAll(Nothing) = Nothing
  BY CleanAllIs, NothingIsWorld
<1>2. CleanAll(w) = CleanAll(Nothing)
  BY <1>1
<1>3. CleanAll(w) = ReloadBase(w)
  BY <1>1 DEF ReloadBase
<1>4. ASSUME NEW s
      PROVE  /\ RungP1(w, s) = RungP1(Nothing, s)
             /\ RungP2(w, s) = RungP2(Nothing, s)
             /\ RungP3(w, s) = RungP3(Nothing, s)
             /\ RungP3B(w, s) = RungP3B(Nothing, s)
             /\ RagOnly(w, s) = RagOnly(Nothing, s)
  BY <1>2, Zenon DEF RungP1, RungP2, RungP3, RungP3B, RagOnly
<1>5. ASSUME NEW s
      PROVE  /\ RungP35(w, s, pipe) = RungP35(Nothing, s, pipe)
             /\ RungP4(w, s, pipe) = RungP4(Nothing, s, pipe)
             /\ FreeGen(w, s) = FreeGen(Nothing, s)
  BY <1>2, Zenon DEF RungP35, RungP4, FreeGen
<1>6. \A cond, f : CCondition(w, cond, f) = CCondition(Nothing, cond, f)
  BY <1>2, Zenon DEF CCondition
<1> QED BY <1>3, <1>4, <1>5, <1>6, Zenon

Answers(answer, S) == {answer[f] : f \in S}

\* The facts of K are in what their answer can draw on, and no others.
Answered(answer, S, K) ==
    /\ DOMAIN answer = S /\ K \in SUBSET S
    /\ \A f \in S : answer[f].fact = f
    /\ \A f \in S : f \in K <=> f \in answer[f].edits \union answer[f].docs

\* One answer for each fact: the right ones are as many as the facts they are about.
LEMMA RightIs ==
    ASSUME NEW S, IsFiniteSet(S), NEW answer, NEW K, Answered(answer, S, K)
    PROVE  Right(Answers(answer, S)) = Cardinality(K)
<1> DEFINE T == {a \in {answer[f] : f \in S} : a.fact \in a.edits \union a.docs}
           b == [f \in K |-> answer[f]]
<1>1. \A f \in K : f \in S /\ answer[f].fact = f /\ answer[f] \in T
  BY DEF Answered
<1>2. \A a \in T : \E f \in K : a = answer[f]
  <2> SUFFICES ASSUME NEW a \in T PROVE \E f \in K : a = answer[f]
    OBVIOUS
  <2>1. PICK f \in S : a = answer[f]
    OBVIOUS
  <2>2. a.fact \in a.edits \union a.docs
    OBVIOUS
  <2> HIDE DEF T
  <2>3. f \in K
    BY <2>1, <2>2 DEF Answered
  <2> QED BY <2>1, <2>3
<1>3. Right(Answers(answer, S)) = Cardinality(T)
  BY DEF Right, Answers
<1>4. K \in SUBSET S /\ IsFiniteSet(K)
  <2>1. K \in SUBSET S
    BY DEF Answered
  <2> QED BY <2>1, FS_Subset
<1> HIDE DEF T
<1>5. b \in Bijection(K, T)
  <2>1. b \in [K -> T]
    BY <1>1
  <2>2. \A f, g \in K : b[f] = b[g] => f = g
    BY <1>1
  <2>3. \A a \in T : \E f \in K : b[f] = a
    BY <1>2
  <2> QED BY <2>1, <2>2, <2>3, Fun_IsBij
<1>6. ExistsBijection(K, T)
  BY <1>5 DEF ExistsBijection
<1>7. Cardinality(K) = Cardinality(T)
  BY <1>4, <1>6, FS_Bijection
<1> QED BY <1>3, <1>7

\* A bundle asked about without RAG.
LEMMA RightOfAsk ==
    ASSUME NEW w, NEW K, K = {f \in Fact : f \in w.edits}
    PROVE  Right(AskAll(w, Fact, FALSE)) = Cardinality(K)
<1> DEFINE answer == [f \in Fact |-> GenAnswer(w, f, FALSE)]
<1>1. \A f \in Fact : /\ answer[f] = GenAnswer(w, f, FALSE)
                      /\ answer[f].fact = f /\ answer[f].edits = w.edits /\ answer[f].docs = {}
  BY DEF GenAnswer
<1>2. AskAll(w, Fact, FALSE) = Answers(answer, Fact)
  BY <1>1 DEF AskAll, Answers
<1>3. DOMAIN answer = Fact
  OBVIOUS
<1> HIDE DEF answer
<1>4. Answered(answer, Fact, K)
  BY <1>1, <1>3 DEF Answered
<1>5. Right(Answers(answer, Fact)) = Cardinality(K)
  BY <1>4, FactAssumption, RightIs
<1> QED BY <1>2, <1>5

\* Facts asked about one by one.
AllOf(rung) == UNION {rung[f] : f \in Fact}
IsRungOf(rung, answer) == \A f \in Fact : rung[f] = {answer[f]}

LEMMA RightOneByOne ==
    ASSUME NEW answer, Answered(answer, Fact, Fact),
           NEW rung, IsRungOf(rung, answer)
    PROVE  Right(AllOf(rung)) = Cardinality(Fact)
<1>1. AllOf(rung) = Answers(answer, Fact)
  BY DEF AllOf, Answers, IsRungOf
<1>2. Right(Answers(answer, Fact)) = Cardinality(Fact)
  BY FactAssumption, RightIs
<1> QED BY <1>1, <1>2

\* What one fact at a time is answered on each rung.
LEMMA RightOfEach ==
    /\ Right(UNION {RungP1(Nothing, {f}) : f \in Fact}) = Cardinality(Fact)
    /\ Right(UNION {RungP2(Nothing, {f}) : f \in Fact}) = Cardinality(Fact)
    /\ Right(UNION {RungP3(Nothing, {f}) : f \in Fact}) = Cardinality(Fact)
<1>1. CleanAll(Nothing) = Nothing
  BY NothingIsWorld
<1>2. \A w, f, withRag : AskAll(w, {f}, withRag) = {GenAnswer(w, f, withRag)}
  BY DEF AskAll
<1>3. Right(UNION {RungP1(Nothing, {f}) : f \in Fact}) = Cardinality(Fact)
  <2> DEFINE answer == [f \in Fact |-> GenAnswer(DoEdits(Nothing, {f}), f, FALSE)]
             rung == [f \in Fact |-> RungP1(Nothing, {f})]
  <2>1. ASSUME NEW f \in Fact
        PROVE  answer[f].fact = f /\ f \in answer[f].edits \union answer[f].docs
    <3>1. PICK w : w = DoEdits(Nothing, {f})
      OBVIOUS
    <3>2. w.edits = {f}
      <4>1. w = [edits |-> {f}, buffer |-> {}, rag |-> {}, chunks |-> {}]
        BY <3>1, FromNothing
      <4> QED BY <4>1
    <3> QED BY <3>1, <3>2 DEF GenAnswer
  <2>2. \A f \in Fact : rung[f] = {answer[f]} /\ rung[f] = RungP1(Nothing, {f})
    BY <1>1, <1>2 DEF RungP1
  <2>3. DOMAIN answer = Fact
    OBVIOUS
  <2> HIDE DEF answer, rung
  <2>4. Answered(answer, Fact, Fact) /\ IsRungOf(rung, answer)
    BY <2>1, <2>2, <2>3 DEF Answered, IsRungOf
  <2>5. Right(AllOf(rung)) = Cardinality(Fact)
    BY <2>4, RightOneByOne
  <2>6. {rung[f] : f \in Fact} = {RungP1(Nothing, {f}) : f \in Fact}
    BY <2>2
  <2> QED BY <2>5, <2>6 DEF AllOf
<1>4. Right(UNION {RungP2(Nothing, {f}) : f \in Fact}) = Cardinality(Fact)
  <2> DEFINE answer == [f \in Fact |-> GenAnswer(AddRags(Nothing, {f}), f, TRUE)]
             rung == [f \in Fact |-> RungP2(Nothing, {f})]
  <2>1. ASSUME NEW f \in Fact
        PROVE  answer[f].fact = f /\ f \in answer[f].edits \union answer[f].docs
    <3>1. PICK w : w = AddRags(Nothing, {f})
      OBVIOUS
    <3>2. w.rag = {f} /\ w.chunks = {f}
      <4>1. w = [edits |-> {}, buffer |-> {}, rag |-> {f}, chunks |-> {f}]
        BY <3>1, FromNothing
      <4> QED BY <4>1
    <3> QED BY <3>1, <3>2 DEF GenAnswer
  <2>2. \A f \in Fact : rung[f] = {answer[f]} /\ rung[f] = RungP2(Nothing, {f})
    BY <1>1, <1>2 DEF RungP2
  <2>3. DOMAIN answer = Fact
    OBVIOUS
  <2> HIDE DEF answer, rung
  <2>4. Answered(answer, Fact, Fact) /\ IsRungOf(rung, answer)
    BY <2>1, <2>2, <2>3 DEF Answered, IsRungOf
  <2>5. Right(AllOf(rung)) = Cardinality(Fact)
    BY <2>4, RightOneByOne
  <2>6. {rung[f] : f \in Fact} = {RungP2(Nothing, {f}) : f \in Fact}
    BY <2>2
  <2> QED BY <2>5, <2>6 DEF AllOf
<1>5. Right(UNION {RungP3(Nothing, {f}) : f \in Fact}) = Cardinality(Fact)
  <2> DEFINE answer == [f \in Fact |-> GenAnswer(AddRags(DoEdits(Nothing, {f}), {f}), f, TRUE)]
             rung == [f \in Fact |-> RungP3(Nothing, {f})]
  <2>1. ASSUME NEW f \in Fact
        PROVE  answer[f].fact = f /\ f \in answer[f].edits \union answer[f].docs
    <3>1. PICK w : w = AddRags(DoEdits(Nothing, {f}), {f})
      OBVIOUS
    <3>2. w.edits = {f}
      <4>1. w = [edits |-> {f}, buffer |-> {}, rag |-> {f}, chunks |-> {f}]
        BY <3>1, FromNothing
      <4> QED BY <4>1
    <3> QED BY <3>1, <3>2 DEF GenAnswer
  <2>2. \A f \in Fact : rung[f] = {answer[f]} /\ rung[f] = RungP3(Nothing, {f})
    BY <1>1, <1>2 DEF RungP3
  <2>3. DOMAIN answer = Fact
    OBVIOUS
  <2> HIDE DEF answer, rung
  <2>4. Answered(answer, Fact, Fact) /\ IsRungOf(rung, answer)
    BY <2>1, <2>2, <2>3 DEF Answered, IsRungOf
  <2>5. Right(AllOf(rung)) = Cardinality(Fact)
    BY <2>4, RightOneByOne
  <2>6. {rung[f] : f \in Fact} = {RungP3(Nothing, {f}) : f \in Fact}
    BY <2>2
  <2> QED BY <2>5, <2>6 DEF AllOf
<1> QED BY <1>3, <1>4, <1>5

\* The facts whose sentences the extractor sends to the weights.
ToWeights(pipe) == {f \in Fact : pipe.extracted[f] = "edit"}

\* What a whole bundle is answered on each rung.
LEMMA RightOfBundle ==
    ASSUME NEW pipe
    PROVE  /\ Right(RungP3B(Nothing, Fact)) = Cardinality(Fact)
           /\ Right(RungP35(Nothing, Fact, pipe)) = Cardinality(Fact \ pipe.dups)
           /\ Right(RungP4(Nothing, Fact, pipe)) = Cardinality(ToWeights(pipe) \ pipe.dupsRaw)
<1>1. CleanAll(Nothing) = Nothing
  BY NothingIsWorld
<1>2. Right(RungP3B(Nothing, Fact)) = Cardinality(Fact)
  <2>1. PICK w : w = AddRags(DoEdits(Nothing, Fact), Fact)
    OBVIOUS
  <2>2. w.edits = Fact
    <3>1. w = [edits |-> Fact, buffer |-> {}, rag |-> Fact, chunks |-> Fact]
      BY <2>1, FromNothing
    <3> QED BY <3>1
  <2>3. RungP3B(Nothing, Fact) = AskAll(w, Fact, FALSE)
    BY <1>1, <2>1, Zenon DEF RungP3B
  <2>4. Fact = {f \in Fact : f \in w.edits}
    BY <2>2
  <2> QED BY <2>3, <2>4, RightOfAsk
<1>3. \A w, d : w = [edits |-> {}, buffer |-> w.buffer, rag |-> w.rag, chunks |-> w.chunks]
                => ConsolidateNow(w, d).edits = w.buffer \ d
  BY DEF ConsolidateNow
<1>4. Right(RungP35(Nothing, Fact, pipe)) = Cardinality(Fact \ pipe.dups)
  <2>1. PICK w : w = AddRags(BufferEdits(Nothing, Fact), Fact)
    OBVIOUS
  <2>2. PICK v : v = ConsolidateNow(w, pipe.dups)
    OBVIOUS
  <2>3. v.edits = Fact \ pipe.dups
    <3>1. w = [edits |-> {}, buffer |-> Fact, rag |-> Fact, chunks |-> Fact]
      BY <2>1, FromNothing
    <3>2. w.buffer = Fact
          /\ w = [edits |-> {}, buffer |-> w.buffer, rag |-> w.rag, chunks |-> w.chunks]
      BY <3>1
    <3> QED BY <1>3, <2>2, <3>2
  <2>4. RungP35(Nothing, Fact, pipe) = AskAll(v, Fact, FALSE)
    BY <1>1, <2>1, <2>2, Zenon DEF RungP35
  <2>5. Fact \ pipe.dups = {f \in Fact : f \in v.edits}
    BY <2>3
  <2> QED BY <2>4, <2>5, RightOfAsk
<1>5. Right(RungP4(Nothing, Fact, pipe)) = Cardinality(ToWeights(pipe) \ pipe.dupsRaw)
  <2>1. PICK w : w = IngestSentences(Nothing, Fact, pipe)
    OBVIOUS
  <2>2. PICK v : v = ConsolidateNow(w, pipe.dupsRaw)
    OBVIOUS
  <2>3. v.edits = ToWeights(pipe) \ pipe.dupsRaw
    <3>1. PICK r : r = {f \in Fact : pipe.extracted[f] = "rag"}
      OBVIOUS
    <3>2. PICK u : u = [Nothing EXCEPT !.buffer = @ \union ToWeights(pipe)]
      OBVIOUS
    <3>3. w = AddRags(u, r)
      BY <2>1, <3>1, <3>2 DEF IngestSentences, ToWeights
    <3>4. u = [edits |-> {}, buffer |-> ToWeights(pipe), rag |-> {}, chunks |-> {}]
      BY <3>2 DEF Nothing
    <3>5. w = [edits |-> {}, buffer |-> ToWeights(pipe), rag |-> {} \union r, chunks |-> {} \union r]
      BY <3>3, <3>4, AddRagsIs
    <3>6. w.buffer = ToWeights(pipe)
          /\ w = [edits |-> {}, buffer |-> w.buffer, rag |-> w.rag, chunks |-> w.chunks]
      BY <3>5
    <3> QED BY <1>3, <2>2, <3>6
  <2>4. RungP4(Nothing, Fact, pipe) = AskAll(v, Fact, FALSE)
    BY <1>1, <2>1, <2>2, Zenon DEF RungP4
  <2>5. ToWeights(pipe) \ pipe.dupsRaw = {f \in Fact : f \in v.edits}
    BY <2>3 DEF ToWeights
  <2> QED BY <2>4, <2>5, RightOfAsk
<1> QED BY <1>2, <1>4, <1>5

\* The facts that reach the weights from the buffer, and from the extractor.
FromBuffer(pipe) == Fact \ pipe.dups
FromExtractor(pipe) == ToWeights(pipe) \ pipe.dupsRaw

\* The losses of a world that knows nothing.
LEMMA LossesAre ==
    ASSUME NEW w \in World, NEW pipe, Cardinality(Fact) \in Nat
    PROVE  Losses(Ladders(w, pipe)) =
               <<0, Cardinality(Fact) - Cardinality(FromBuffer(pipe)),
                 Cardinality(FromBuffer(pipe)) - Cardinality(FromExtractor(pipe))>>
<1> DEFINE n == Cardinality(Fact)
           a == Cardinality(FromBuffer(pipe))
           b == Cardinality(FromExtractor(pipe))
<1>1. /\ \A f : /\ RungP1(w, {f}) = RungP1(Nothing, {f})
                /\ RungP2(w, {f}) = RungP2(Nothing, {f})
                /\ RungP3(w, {f}) = RungP3(Nothing, {f})
      /\ RungP3B(w, Fact) = RungP3B(Nothing, Fact)
      /\ RungP35(w, Fact, pipe) = RungP35(Nothing, Fact, pipe)
      /\ RungP4(w, Fact, pipe) = RungP4(Nothing, Fact, pipe)
  BY RungsForget, Zenon
<1>2. /\ {RungP1(w, {f}) : f \in Fact} = {RungP1(Nothing, {f}) : f \in Fact}
      /\ {RungP2(w, {f}) : f \in Fact} = {RungP2(Nothing, {f}) : f \in Fact}
      /\ {RungP3(w, {f}) : f \in Fact} = {RungP3(Nothing, {f}) : f \in Fact}
  BY <1>1
<1>3. PICK rate : rate = Ladders(w, pipe)
  OBVIOUS
<1>4. /\ rate.p1 = Right(UNION {RungP1(w, {f}) : f \in Fact})
      /\ rate.p2 = Right(UNION {RungP2(w, {f}) : f \in Fact})
      /\ rate.p3 = Right(UNION {RungP3(w, {f}) : f \in Fact})
      /\ rate.p3b = Right(RungP3B(w, Fact))
      /\ rate.p35 = Right(RungP35(w, Fact, pipe))
      /\ rate.p4 = Right(RungP4(w, Fact, pipe))
  BY <1>3 DEF Ladders
<1>5. rate.p1 = n /\ rate.p2 = n /\ rate.p3 = n
  BY <1>2, <1>4, RightOfEach
<1>6. rate.p3b = n /\ rate.p35 = a /\ rate.p4 = b
  BY <1>1, <1>4, RightOfBundle DEF FromBuffer, FromExtractor
<1>7. MaxOf(rate.p1, rate.p2) - rate.p3 = 0
  BY <1>5 DEF MaxOf
<1> QED BY <1>3, <1>6, <1>7 DEF Losses

\* The module that is blamed.
LEMMA BottleneckIs ==
    ASSUME NEW losses, NEW x \in Int, NEW y \in Int, losses = <<0, x, y>>
    PROVE  /\ x > 0 /\ y = 0 => Bottleneck(losses) = 2
           /\ x = 0 /\ y > 0 => Bottleneck(losses) = 3
<1> DEFINE Worst(m) == \A k \in DOMAIN losses :
               losses[k] < losses[m] \/ (losses[k] = losses[m] /\ m <= k)
<1>1. DOMAIN losses = 1 .. 3 /\ losses[1] = 0 /\ losses[2] = x /\ losses[3] = y
  OBVIOUS
<1>2. Bottleneck(losses) = CHOOSE m \in DOMAIN losses : Worst(m)
  BY DEF Bottleneck
<1>3. \A m, k \in 1 .. 3 : Worst(m) /\ Worst(k) => m = k
  <2> SUFFICES ASSUME NEW m \in 1 .. 3, NEW k \in 1 .. 3, Worst(m), Worst(k) PROVE m = k
    OBVIOUS
  <2>1. losses[m] \in Int /\ losses[k] \in Int
    BY <1>1
  <2>2. /\ losses[k] < losses[m] \/ (losses[k] = losses[m] /\ m <= k)
        /\ losses[m] < losses[k] \/ (losses[m] = losses[k] /\ k <= m)
    BY <1>1
  <2> HIDE DEF Worst
  <2> QED BY <2>1, <2>2
<1>4. ASSUME x > 0, y = 0 PROVE Worst(2)
  BY <1>1, <1>4
<1>5. ASSUME x = 0, y > 0 PROVE Worst(3)
  BY <1>1, <1>5
<1> HIDE DEF Worst
<1>6. PICK m : m = Bottleneck(losses)
  OBVIOUS
<1>7. (\E k \in 1 .. 3 : Worst(k)) => m \in 1 .. 3 /\ Worst(m)
  BY <1>1, <1>2, <1>6, Zenon
<1>8. 2 \in 1 .. 3 /\ 3 \in 1 .. 3
  OBVIOUS
<1> QED BY <1>3, <1>4, <1>5, <1>6, <1>7, <1>8

LEMMA SmallerPart ==
    ASSUME NEW K, K \in SUBSET Fact
    PROVE  /\ Cardinality(K) \in Nat /\ Cardinality(Fact) \in Nat
           /\ K # Fact => Cardinality(Fact) - Cardinality(K) > 0
<1>1. IsFiniteSet(Fact)
  BY FactAssumption
<1>2. /\ IsFiniteSet(K) /\ Cardinality(K) <= Cardinality(Fact)
      /\ Cardinality(Fact) = Cardinality(K) => Fact = K
  BY <1>1, FS_Subset
<1>3. Cardinality(K) \in Nat /\ Cardinality(Fact) \in Nat
  BY <1>1, <1>2, FS_CardinalityType
<1> QED BY <1>2, <1>3

LEMMA BlamesItsModule ==
    ASSUME NEW w \in World, NEW pipe \in Pipeline
    PROVE  LET losses == Losses(Ladders(w, pipe))
               extracts == \A f \in Fact : pipe.extracted[f] = "edit"
           IN  /\ extracts /\ pipe.dups = pipe.dupsRaw /\ pipe.dups # {} =>
                      Bottleneck(losses) = 2
               /\ pipe.dups = {} /\ pipe.dupsRaw = {} /\ ~ extracts => Bottleneck(losses) = 3
               /\ extracts /\ pipe.dups = {} /\ pipe.dupsRaw = {} => losses = <<0, 0, 0>>
<1> DEFINE losses == Losses(Ladders(w, pipe))
           extracts == \A f \in Fact : pipe.extracted[f] = "edit"
           n == Cardinality(Fact)
           K == FromBuffer(pipe)
           L == FromExtractor(pipe)
           a == Cardinality(K)
           b == Cardinality(L)
<1>1. /\ K \in SUBSET Fact /\ L \in SUBSET Fact /\ pipe.dups \in SUBSET Fact
      /\ pipe.dupsRaw \in SUBSET Fact
  BY DEF ToWeights, Pipeline, FromBuffer, FromExtractor
<1>2. /\ a \in Nat /\ b \in Nat /\ n \in Nat
      /\ K # Fact => n - a > 0
      /\ L # Fact => n - b > 0
  BY <1>1, SmallerPart
<1>3. losses = <<0, n - a, a - b>>
  BY <1>2, LossesAre
<1>4. ASSUME extracts, pipe.dups = pipe.dupsRaw, pipe.dups # {} PROVE K = L /\ K # Fact
  BY <1>1, <1>4 DEF ToWeights, FromBuffer, FromExtractor
<1>5. ASSUME pipe.dups = {}, pipe.dupsRaw = {}, ~ extracts PROVE K = Fact /\ L # Fact
  BY <1>5 DEF ToWeights, FromBuffer, FromExtractor
<1>6. ASSUME extracts, pipe.dups = {}, pipe.dupsRaw = {} PROVE K = Fact /\ L = Fact
  BY <1>6 DEF ToWeights, FromBuffer, FromExtractor
<1> HIDE DEF losses, extracts
<1>7. ASSUME K = L, K # Fact PROVE Bottleneck(losses) = 2
  <2>1. a = b
    BY <1>7
  <2> HIDE DEF n, a, b, K, L
  <2>2. n - a \in Int /\ a - b \in Int /\ n - a > 0 /\ a - b = 0
    BY <1>2, <1>7, <2>1
  <2> QED BY <1>3, <2>2, BottleneckIs
<1>8. ASSUME K = Fact, L # Fact PROVE Bottleneck(losses) = 3
  <2>1. n = a
    BY <1>8
  <2> HIDE DEF n, a, b, K, L
  <2>2. n - a \in Int /\ a - b \in Int /\ n - a = 0 /\ a - b > 0
    BY <1>2, <1>8, <2>1
  <2> QED BY <1>3, <2>2, BottleneckIs
<1>9. ASSUME K = Fact, L = Fact PROVE losses = <<0, 0, 0>>
  <2>1. n = a /\ a = b
    BY <1>9
  <2> HIDE DEF n, a, b, K, L
  <2>2. n - a = 0 /\ a - b = 0
    BY <1>2, <2>1
  <2> QED BY <1>3, <2>2
<1>10. /\ extracts /\ pipe.dups = pipe.dupsRaw /\ pipe.dups # {} => Bottleneck(losses) = 2
       /\ pipe.dups = {} /\ pipe.dupsRaw = {} /\ ~ extracts => Bottleneck(losses) = 3
       /\ extracts /\ pipe.dups = {} /\ pipe.dupsRaw = {} => losses = <<0, 0, 0>>
  <2> HIDE DEF K, L
  <2> QED BY <1>4, <1>5, <1>6, <1>7, <1>8, <1>9
<1> QED BY <1>10 DEF losses, extracts

\* The C-table.
LEMMA CTableIs ==
    ASSUME NEW w \in World
    PROVE  CTable(w) = [base |-> 0, rag |-> Cardinality(Fact), edit |-> Cardinality(Fact)]
<1>1. CleanAll(w) = Nothing
  BY CleanAllIs
<1> DEFINE answer(cond) == [f \in Fact |-> CCondition(w, cond, f)]
<1>2. ASSUME NEW cond
      PROVE  {CCondition(w, cond, f) : f \in Fact} = Answers(answer(cond), Fact)
  BY DEF Answers
<1>3. Answered(answer("base"), Fact, {})
  <2>1. ASSUME NEW f \in Fact
        PROVE  LET x == answer("base")[f] IN x.fact = f /\ x.edits = {} /\ x.docs = {}
    BY <1>1 DEF CCondition, GenAnswer, Nothing
  <2> QED BY <2>1 DEF Answered
<1>4. Answered(answer("rag"), Fact, Fact)
  <2>1. ASSUME NEW f \in Fact
        PROVE  LET x == answer("rag")[f] IN x.fact = f /\ f \in x.docs
    <3>1. PICK v : v = AddRags(Nothing, {f})
      OBVIOUS
    <3>2. v = [edits |-> {}, buffer |-> {}, rag |-> {f}, chunks |-> {f}]
      BY <3>1, FromNothing
    <3>3. answer("rag")[f] = GenAnswer(v, f, TRUE)
      BY <1>1, <3>1 DEF CCondition
    <3> QED BY <3>2, <3>3 DEF GenAnswer
  <2> QED BY <2>1 DEF Answered
<1>5. Answered(answer("edit"), Fact, Fact)
  <2>1. ASSUME NEW f \in Fact
        PROVE  LET x == answer("edit")[f] IN x.fact = f /\ f \in x.edits
    <3>1. PICK v : v = DoEdits(Nothing, {f})
      OBVIOUS
    <3>2. v = [edits |-> {f}, buffer |-> {}, rag |-> {}, chunks |-> {}]
      BY <3>1, FromNothing
    <3>3. answer("edit")[f] = GenAnswer(v, f, FALSE)
      BY <1>1, <3>1 DEF CCondition
    <3> QED BY <3>2, <3>3 DEF GenAnswer
  <2> QED BY <2>1 DEF Answered
<1> HIDE DEF answer
<1>6. /\ Right(Answers(answer("base"), Fact)) = 0
      /\ Right(Answers(answer("rag"), Fact)) = Cardinality(Fact)
      /\ Right(Answers(answer("edit"), Fact)) = Cardinality(Fact)
  <2>1. Right(Answers(answer("base"), Fact)) = Cardinality({})
    BY <1>3, FactAssumption, RightIs
  <2>2. Cardinality({}) = 0
    BY FS_EmptySet
  <2> QED BY <1>4, <1>5, <2>1, <2>2, FactAssumption, RightIs
<1> DEFINE n == Cardinality(Fact)
           R(cond) == Right({CCondition(w, cond, f) : f \in Fact})
<1>7. R("base") = 0 /\ R("rag") = n /\ R("edit") = n
  BY <1>2, <1>6
<1>8. CTable(w) = [cond \in {"base", "rag", "edit"} |-> R(cond)]
  BY DEF CTable
<1> HIDE DEF n, R
<1>9. [cond \in {"base", "rag", "edit"} |-> R(cond)] = [base |-> 0, rag |-> n, edit |-> n]
  BY <1>7
<1> QED BY <1>8, <1>9 DEF n

\* What the last call asked of the harness.
Measured ==
    call.op = "rungs" => call.world \in World /\ call.pipe \in Pipeline

LEMMA MeasuredHolds == Spec => []Measured
<1>1. Init => Measured
  BY DEF Init, Measured
<1>2. Measured /\ [Next]_call => Measured'
  <2>1. CASE UNCHANGED call
    BY <2>1 DEF Measured
  <2>2. CASE Next
    <3> SUFFICES ASSUME call'.op = "rungs" PROVE call'.world \in World /\ call'.pipe \in Pipeline
      BY DEF Measured
    <3>1. RunRungs
      BY <2>2, CallOf
    <3>2. PICK w \in World, pipe \in Pipeline :
              call' = [op |-> "rungs", world |-> w, pipe |-> pipe]
      BY <3>1, Zenon DEF RunRungs
    <3> QED BY <3>2
  <2> QED BY <2>1, <2>2
<1> QED BY <1>1, <1>2, PTL DEF Spec

LEMMA ScoringAgrees == ScorersAgree
<1> SUFFICES ASSUME call.op = "score" PROVE ScorersAgree
  BY DEF ScorersAgree
<1> DEFINE judge == JudgeSays(call.reply)
<1>1. judge \in BOOLEAN /\ JudgeSays("fails") = FALSE
  BY DEF JudgeSays
<1> HIDE DEF judge
<1>2. \A t \in Relation \ {"empty"} : FactHit({t}, judge) = ScoreA(t, judge)
  BY <1>1 DEF Relation, FactHit, ScoreA
<1>3. \A t \in call.terms : FactHit({t}, judge) => FactHit(call.terms, judge)
  BY <1>1 DEF FactHit
<1>4. FactHit(call.terms, JudgeSays("fails")) => FactHit(call.terms, judge)
  BY <1>1 DEF FactHit
<1>5. ~ \E choice \in {"other", "stray", "fails"} : ScoreC(choice, call.names)
  BY DEF ScoreC, ExtractChoice
<1>6. ScoreC("gold", call.names) => "gold" \in call.names
  BY DEF ScoreC, ExtractChoice
<1> QED BY <1>2, <1>3, <1>4, <1>5, <1>6 DEF ScorersAgree, judge

LEMMA MeasuredIsRight ==
    ASSUME Measured
    PROVE  TablesMeasure
<1>1. RungsIsolated
  <2> SUFFICES ASSUME call.op = "rungs" PROVE RungsIsolated
    BY DEF RungsIsolated
  <2>1. call.world \in World
    BY DEF Measured
  <2> QED BY <2>1, RungsForget, Zenon DEF RungsIsolated
<1>2. LossesBlameTheirModule
  <2> SUFFICES ASSUME call.op = "rungs" PROVE LossesBlameTheirModule
    BY DEF LossesBlameTheirModule
  <2>1. call.world \in World /\ call.pipe \in Pipeline
    BY DEF Measured
  <2>2. CTable(call.world) = [base |-> 0, rag |-> Cardinality(Fact), edit |-> Cardinality(Fact)]
    BY <2>1, CTableIs
  <2> QED BY <2>1, <2>2, BlamesItsModule, Zenon DEF LossesBlameTheirModule
<1> QED BY <1>1, <1>2, ScoringAgrees DEF TablesMeasure

\* However many facts there are, whatever the process did before and whatever the
\* pipeline does with a sample, the tables of the harness measure the part that they name.
THEOREM TablesMeasureHolds == Spec => []TablesMeasure
<1>1. Measured => TablesMeasure
  BY MeasuredIsRight
<1> QED BY <1>1, MeasuredHolds, PTL

====
