---- MODULE KeyPromptProofs ----
(* The keys that memory/consolidate.py registers and the probes with which    *)
(* serving/scenario_memory.py looks for them: no key gives the answer away, a *)
(* probe is a key, and the order of a set of words has no effect.             *)
EXTENDS AlgorithmProofs

----
\* Texts without repetition

\* The list by ranks has the rank r - 1 at r.
LEMMA RankReached ==
    ASSUME NEW P, IsFiniteSet(P), NEW R, Orders(R, P), NEW r \in 1 .. Cardinality(P)
    PROVE  ByRank(P, R)[r] \in P /\ Cardinality(Before(R, P, ByRank(P, R)[r])) = r - 1
<1>1. ByRank(P, R)[r] = CHOOSE x \in P : Cardinality(Before(R, P, x)) = r - 1
  BY DEF ByRank
<1>2. \E x \in P : Cardinality(Before(R, P, x)) = r - 1
  BY RanksOnce
<1> QED BY <1>1, <1>2

\* What is picked and taken has fewer than n positions before it that are picked.
LEMMA TakenOf ==
    ASSUME NEW s, NEW P, IsFiniteSet(P), P \subseteq Int, NEW n \in Nat
    PROVE  \A x : x \in ToSet(Take(Picked(s, P), n)) <=>
              \E i \in P : x = s[i] /\ Cardinality(Before(Earlier, P, i)) < n
<1> DEFINE k == Cardinality(P)
           e == ByRank(P, Earlier)
           p == Picked(s, P)
           S == {s[i] : i \in P}
           rank(i) == Cardinality(Before(Earlier, P, i))
<1>1. k \in Nat
  BY FS_CardinalityType
<1>2. Orders(Earlier, P)
  BY EarlierOrders
<1>3. /\ \A i \in P : rank(i) \in Nat /\ rank(i) + 1 \in 1 .. k
      /\ \A i, j \in P : rank(i) = rank(j) => i = j
  <2> HIDE DEF e, p, S
  <2>1. PICK R : R = Earlier /\ Orders(R, P)
    BY <1>2
  <2>2. \A i \in P : Cardinality(Before(R, P, i)) + 1 \in 1 .. Cardinality(P)
    BY <2>1, RanksOnce
  <2>3. \A i, j \in P : Cardinality(Before(R, P, i)) = Cardinality(Before(R, P, j)) => i = j
    BY <2>1, RanksOnce
  <2>4. \A i \in P : rank(i) \in Nat
    BY BeforeFinite
  <2> QED BY <2>1, <2>2, <2>3, <2>4
<1>4. ASSUME NEW r \in 1 .. k PROVE e[r] \in P /\ rank(e[r]) = r - 1
  BY <1>2, RankReached
<1>5. p = Through(s, e, k)
  BY PickedIs
<1> HIDE DEF k, e, p, rank
<1>6. \A r \in 1 .. k : e[r] \in P /\ rank(e[r]) = r - 1
  BY <1>4
<1>7. p \in [1 .. k -> S] /\ \A r \in 1 .. k : p[r] = s[e[r]]
  BY <1>5, <1>6, ThroughIs DEF Through
<1> HIDE DEF S
<1>8. Begins(Take(p, n), p, MinOf(k, n), S)
  BY <1>1, <1>7, TakeIs
<1> DEFINE t == Take(p, n)
           l == MinOf(k, n)
<1>9. DOMAIN t = 1 .. l /\ \A r \in 1 .. l : t[r] = p[r]
  BY <1>8 DEF Begins
<1>10. \A r : r \in 1 .. l <=> r \in 1 .. k /\ r <= n
  BY <1>1 DEF MinOf
<1> HIDE DEF t, l
<1>11. \A x : x \in ToSet(t) <=> \E r \in 1 .. l : x = t[r]
  BY <1>9 DEF ToSet
<1>12. ASSUME NEW x \in ToSet(t)
       PROVE  \E i \in P : x = s[i] /\ rank(i) < n
  <2>1. PICK r \in 1 .. l : x = t[r]
    BY <1>11
  <2>2. r \in 1 .. k /\ r <= n
    BY <1>10
  <2>3. e[r] \in P /\ rank(e[r]) = r - 1 /\ x = s[e[r]]
    BY <1>6, <1>7, <1>9, <2>1, <2>2
  <2>4. r - 1 < n
    BY <1>1, <2>2
  <2> QED BY <2>3, <2>4
<1>13. ASSUME NEW i \in P, rank(i) < n
       PROVE  s[i] \in ToSet(t)
  <2>1. PICK r \in 1 .. k : r = rank(i) + 1
    BY <1>3
  <2>2. r <= n /\ rank(e[r]) = rank(i) /\ e[r] \in P
    BY <1>1, <1>3, <1>6, <1>13, <2>1
  <2>3. e[r] = i
    BY <1>3, <2>2
  <2> QED BY <1>7, <1>9, <1>10, <1>11, <2>2, <2>3
<1>14. \A x : x \in ToSet(t) <=> \E i \in P : x = s[i] /\ rank(i) < n
  BY <1>12, <1>13
<1> QED BY <1>14 DEF t, p, rank

\* The first positions of what is in s and not in S.
News(s, S) == {i \in DOMAIN s : s[i] \notin S /\ \A j \in 1 .. i - 1 : s[j] # s[i]}

\* Distinct picks the first places of what is in s and not in S.
LEMMA DistinctIs ==
    ASSUME NEW N \in Nat, NEW s, DOMAIN s = 1 .. N, NEW S
    PROVE  /\ Distinct(s, S) = Picked(s, News(s, S))
           /\ IsFiniteSet(News(s, S)) /\ News(s, S) \subseteq Int
           /\ IsOnceOf(Distinct(s, S), s, ToSet(s) \ S)
           /\ ToSet(Distinct(s, S)) = ToSet(s) \ S
<1>1. Firsts(s, ToSet(s) \ S) = News(s, S)
  BY DEF Firsts, News, ToSet
<1>2. Distinct(s, S) = OnceIn(s, ToSet(s) \ S)
  BY DEF Distinct
<1>3. OnceIn(s, ToSet(s) \ S) = Picked(s, Firsts(s, ToSet(s) \ S))
  BY DEF OnceIn, Firsts
<1>4. IsOnceOf(OnceIn(s, ToSet(s) \ S), s, ToSet(s) \ S)
  BY OnceInIs
<1>5. ToSet(OnceIn(s, ToSet(s) \ S)) = ToSet(s) \ S
  BY <1>4 DEF IsOnceOf
<1>6. IsFiniteSet(Firsts(s, ToSet(s) \ S)) /\ Firsts(s, ToSet(s) \ S) \subseteq Int
  BY FirstsFinite
<1> QED BY <1>1, <1>2, <1>3, <1>4, <1>5, <1>6

\* What Take leaves of it: what has fewer than n first places before its own.
LEMMA DistinctTaken ==
    ASSUME NEW N \in Nat, NEW s, DOMAIN s = 1 .. N, NEW S, NEW n \in Nat
    PROVE  /\ \A x : x \in ToSet(Take(Distinct(s, S), n)) <=>
                 \E i \in News(s, S) :
                     x = s[i] /\ Cardinality(Before(Earlier, News(s, S), i)) < n
           /\ ToSet(Take(Distinct(s, S), n)) \subseteq ToSet(s) \ S
<1> DEFINE P == News(s, S)
<1>1. Distinct(s, S) = Picked(s, P) /\ IsFiniteSet(P) /\ P \subseteq Int
  BY DistinctIs
<1>2. \A i \in P : s[i] \in ToSet(s) /\ s[i] \notin S
  BY DEF News, ToSet
<1> HIDE DEF P
<1>3. \A x : x \in ToSet(Take(Picked(s, P), n)) <=>
          \E i \in P : x = s[i] /\ Cardinality(Before(Earlier, P, i)) < n
  BY <1>1, TakenOf
<1>4. ToSet(Take(Distinct(s, S), n)) \subseteq ToSet(s) \ S
  BY <1>1, <1>2, <1>3
<1> QED BY <1>1, <1>3, <1>4, Zenon DEF P

\* Every entry is at its first position.
LEMMA FirstPosition ==
    ASSUME NEW N \in Nat, NEW s, DOMAIN s = 1 .. N, NEW S, NEW i \in 1 .. N, s[i] \notin S
    PROVE  \E j \in News(s, S) : j <= i /\ s[j] = s[i]
<1> DEFINE same == {j \in 1 .. N : s[j] = s[i]}
<1>1. /\ same \subseteq Nat /\ i \in same
      /\ \A j : j \in same <=> j \in 1 .. N /\ s[j] = s[i]
  OBVIOUS
<1> HIDE DEF same
<1>2. PICK j \in same : \A l \in same : j <= l
  BY <1>1, LeastNumber
<1>3. j \in 1 .. N /\ s[j] = s[i] /\ j <= i
  BY <1>1, <1>2
<1>4. ASSUME NEW l \in 1 .. j - 1 PROVE s[l] # s[j]
  <2>1. l \in 1 .. N /\ ~ (j <= l)
    BY <1>3
  <2> QED BY <1>1, <1>2, <1>3, <2>1
<1>5. j \in News(s, S)
  BY <1>3, <1>4 DEF News
<1> QED BY <1>3, <1>5

\* What only has S before it comes first.
LEMMA FirstTaken ==
    ASSUME NEW N \in Nat, NEW s, DOMAIN s = 1 .. N, NEW S, NEW i \in 1 .. N, s[i] \notin S,
           \A j \in 1 .. i - 1 : s[j] \in S, NEW n \in Nat \ {0}
    PROVE  /\ 1 \in DOMAIN Take(Distinct(s, S), n)
           /\ Take(Distinct(s, S), n)[1] = s[i]
<1> DEFINE P == News(s, S)
<1>1. i \in P
  BY DEF News
<1>2. \A j \in P : j \in 1 .. N /\ ~ (j < i)
  BY DEF News
<1>3. Distinct(s, S) = Picked(s, P) /\ IsFiniteSet(P) /\ P \subseteq Int
  BY DistinctIs
<1> HIDE DEF P
<1>4. PICK k, e : SubOf(Picked(s, P), s, P, k, e)
  BY <1>3, PickedIsSub
<1>5. PICK d : d = Distinct(s, S)
  OBVIOUS
<1>6. /\ k \in Nat
      /\ \A r \in 1 .. k : e[r] \in P
      /\ \A j \in P : \E r \in 1 .. k : e[r] = j
      /\ \A q, r \in 1 .. k : q < r => e[q] < e[r]
      /\ \A r \in 1 .. k : d[r] = s[e[r]]
      /\ d \in [1 .. k -> {s[j] : j \in P}]
  BY <1>3, <1>4, <1>5, SubOfIs
<1>7. PICK r \in 1 .. k : e[r] = i
  BY <1>1, <1>6
<1>8. r = 1
  <2> SUFFICES ASSUME r # 1 PROVE FALSE
    OBVIOUS
  <2>1. 1 \in 1 .. k /\ 1 < r
    BY <1>6
  <2>2. e[1] < i /\ e[1] \in P
    BY <1>6, <1>7, <2>1
  <2> QED BY <1>2, <2>2
<1>9. Begins(Take(d, n), d, MinOf(k, n), {s[j] : j \in P})
  BY <1>6, TakeIs
<1>10. 1 \in 1 .. MinOf(k, n)
  BY <1>6, <1>8 DEF MinOf
<1>11. 1 \in DOMAIN Take(d, n) /\ Take(d, n)[1] = d[1]
  BY <1>9, <1>10 DEF Begins
<1> QED BY <1>5, <1>6, <1>7, <1>8, <1>11

\* What has one thing that is not in S before it is the first or the second.
LEMMA SecondTaken ==
    ASSUME NEW N \in Nat, NEW s, DOMAIN s = 1 .. N, NEW S, NEW i \in 1 .. N, s[i] \notin S,
           NEW v, \A j \in 1 .. i - 1 : s[j] \in S \/ s[j] = v, NEW n \in Nat \ {0, 1}
    PROVE  s[i] \in ToSet(Take(Distinct(s, S), n))
<1> DEFINE P == News(s, S)
           B(j) == Before(Earlier, P, j)
<1>1. PICK j \in P : j <= i /\ s[j] = s[i]
  BY FirstPosition
<1>2. \A l \in B(j) : l \in 1 .. N /\ l \in P /\ l < j /\ s[l] = v
  <2> SUFFICES ASSUME NEW l \in B(j)
               PROVE  l \in 1 .. N /\ l \in P /\ l < j /\ s[l] = v
    OBVIOUS
  <2>1. l \in 1 .. N /\ s[l] \notin S /\ l < j /\ j \in 1 .. N /\ l \in P
    BY DEF Before, Earlier, News
  <2>2. l \in 1 .. i - 1
    BY <1>1, <2>1
  <2> QED BY <2>1, <2>2
<1>3. \A l, q \in B(j) : l = q
  <2> SUFFICES ASSUME NEW l \in B(j), NEW q \in B(j), l < q PROVE FALSE
    BY <1>2
  <2>1. l \in 1 .. q - 1 /\ s[l] = s[q] /\ q \in P
    BY <1>2
  <2> QED BY <2>1 DEF News
<1>4. Cardinality(B(j)) < n
  <2>1. CASE B(j) = {}
    <3>1. Cardinality({}) = 0
      BY FS_EmptySet
    <3> QED BY <2>1, <3>1
  <2>2. CASE \E l : l \in B(j)
    <3>1. PICK l : l \in B(j)
      BY <2>2
    <3>2. B(j) = {l}
      BY <1>3, <3>1
    <3>3. Cardinality({l}) = 1
      BY FS_Singleton
    <3> QED BY <3>2, <3>3
  <2> QED BY <2>1, <2>2
<1> HIDE DEF P
<1>5. s[j] \in ToSet(Take(Distinct(s, S), n))
  BY <1>4, DistinctTaken DEF P
<1> QED BY <1>1, <1>5

----
\* Cleaning a text

\* A phrase begins with its first word where it matches.
LEMMA MatchIs ==
    ASSUME NEW W, NEW y \in Seq(W), NEW phrase \in Seq(W), NEW i \in 1 .. Len(y),
           MatchAt(y, phrase, i)
    PROVE  y[i] = phrase[1]
<1>1. Len(phrase) \in Nat /\ Len(phrase) # 0 /\ Len(y) \in Nat
  BY DEF MatchAt
<1>2. i + Len(phrase) - 1 \in 1 .. Len(y) /\ SubSeq(y, i, i + Len(phrase) - 1) = phrase
  BY <1>1 DEF MatchAt
<1>3. PICK j \in 1 .. Len(y) : j = i + Len(phrase) - 1
  BY <1>2
<1>4. SubSeq(y, i, j) = [r \in 1 .. j - i + 1 |-> y[i + r - 1]]
  OBVIOUS
<1>5. 1 \in 1 .. j - i + 1 /\ i + 1 - 1 = i
  BY <1>1, <1>3
<1>6. SubSeq(y, i, j)[1] = y[i]
  BY <1>4, <1>5
<1> QED BY <1>2, <1>3, <1>6

Named(text, phrase) == phrase # <<>> /\ Mentions(text, phrase)

\* A phrase is named where a match begins.
LEMMA NamedIs ==
    ASSUME NEW W, NEW y \in Seq(W), NEW phrase \in Seq(W)
    PROVE  Named(y, phrase) <=> \E i \in 1 .. Len(y) : MatchAt(y, phrase, i)
<1>1. CASE phrase = <<>>
  BY <1>1 DEF Named, MatchAt
<1>2. CASE phrase # <<>>
  <2>1. Len(phrase) \in Nat \ {0} /\ Len(y) \in Nat
    BY <1>2
  <2>2. \A i : i \in 1 .. Len(y) - Len(phrase) + 1 <=>
               i \in 1 .. Len(y) /\ i + Len(phrase) - 1 <= Len(y)
    BY <2>1
  <2>3. \A i \in 1 .. Len(y) : MatchAt(y, phrase, i) <=>
            /\ i + Len(phrase) - 1 <= Len(y)
            /\ SubSeq(y, i, i + Len(phrase) - 1) = phrase
    BY <1>2 DEF MatchAt
  <2>4. Mentions(y, phrase) <=>
            \E i \in 1 .. Len(y) - Len(phrase) + 1 : SubSeq(y, i, i + Len(phrase) - 1) = phrase
    BY DEF Mentions
  <2> QED BY <1>2, <2>2, <2>3, <2>4 DEF Named
<1> QED BY <1>1, <1>2

\* What does not have the first word of a phrase does not mention it.
LEMMA NamedHasHead ==
    ASSUME NEW W, NEW y \in Seq(W), NEW phrase \in Seq(W), Named(y, phrase)
    PROVE  \E i \in 1 .. Len(y) : y[i] = phrase[1]
<1>1. PICK i \in 1 .. Len(y) : MatchAt(y, phrase, i)
  BY NamedIs
<1>2. y[i] = phrase[1]
  BY <1>1, MatchIs
<1> QED BY <1>2

\* The states of re.sub.
Scanned == [kept : SUBSET Nat, next : Nat]

Scan0 == [kept |-> {}, next |-> 1]

Scanning(text, phrase, f) ==
    f = [i \in 0 .. Len(text) |->
            IF i = 0 THEN [kept |-> {}, next |-> 1] ELSE ReplaceStep(f[i - 1], text, phrase, i)]

\* A word is looked at, and kept or replaced; or it was replaced with others.
LEMMA ReplaceStepIs ==
    ASSUME NEW s \in Scanned, NEW text, NEW phrase, NEW i \in Nat, Len(phrase) \in Nat
    PROVE  /\ ReplaceStep(s, text, phrase, i) \in Scanned
           /\ ReplaceStep(s, text, phrase, i).kept \subseteq s.kept \union {i}
           /\ MatchAt(text, phrase, i) => ReplaceStep(s, text, phrase, i).kept = s.kept
           /\ s.next <= i /\ ~ MatchAt(text, phrase, i) =>
                  /\ ReplaceStep(s, text, phrase, i).kept = s.kept \union {i}
                  /\ ReplaceStep(s, text, phrase, i).next = s.next
<1>1. s.kept \in SUBSET Nat /\ s.next \in Nat /\ s = [kept |-> s.kept, next |-> s.next]
  BY DEF Scanned
<1> DEFINE t == ReplaceStep(s, text, phrase, i)
<1>2. CASE i < s.next
  <2>1. t = s
    BY <1>2 DEF ReplaceStep
  <2>2. ~ (s.next <= i)
    BY <1>1, <1>2
  <2> QED BY <1>1, <2>1, <2>2
<1>3. CASE ~ (i < s.next) /\ MatchAt(text, phrase, i)
  <2>1. t = [kept |-> s.kept, next |-> i + Len(phrase)]
    BY <1>1, <1>3 DEF ReplaceStep
  <2>2. i + Len(phrase) \in Nat
    OBVIOUS
  <2>3. t \in Scanned /\ t.kept = s.kept
    BY <1>1, <2>1, <2>2 DEF Scanned
  <2> QED BY <1>3, <2>3
<1>4. CASE ~ (i < s.next) /\ ~ MatchAt(text, phrase, i)
  <2>1. t = [kept |-> s.kept \union {i}, next |-> s.next]
    BY <1>1, <1>4 DEF ReplaceStep
  <2>2. t \in Scanned /\ t.kept = s.kept \union {i} /\ t.next = s.next
    BY <1>1, <2>1 DEF Scanned
  <2> QED BY <1>4, <2>2
<1> QED BY <1>2, <1>3, <1>4

\* The loop of Without has a value after every word.
LEMMA ScanningExists ==
    ASSUME NEW n \in Nat, NEW text, Len(text) = n, NEW phrase, Len(phrase) \in Nat
    PROVE  \E f : Scanning(text, phrase, f) /\ f \in [0 .. n -> Scanned]
<1> DEFINE next == [k \in 1 .. n |-> [s \in Scanned |-> ReplaceStep(s, text, phrase, k)]]
<1>1. next \in [1 .. n -> [Scanned -> Scanned]]
  BY ReplaceStepIs
<1>2. \A s \in Scanned, k \in 1 .. n : next[k][s] = ReplaceStep(s, text, phrase, k)
  OBVIOUS
<1>3. Scan0 \in Scanned
  BY DEF Scan0, Scanned
<1> HIDE DEF next
<1>4. PICK f : Recursion(n, Scanned, Scan0, next, f)
  BY <1>1, <1>3, RecursionExists
<1>5. /\ f \in [0 .. n -> Scanned] /\ f[0] = Scan0
      /\ \A k \in 1 .. n : f[k] = next[k][f[k - 1]]
  BY <1>4 DEF Recursion
<1>6. ASSUME NEW k \in 0 .. n
      PROVE  f[k] = IF k = 0 THEN Scan0 ELSE ReplaceStep(f[k - 1], text, phrase, k)
  <2>1. CASE k = 0
    BY <1>5, <2>1
  <2>2. CASE k # 0
    <3>1. k \in 1 .. n /\ k - 1 \in 0 .. n
      BY <2>2
    <3> QED BY <1>2, <1>5, <2>2, <3>1
  <2> QED BY <2>1, <2>2
<1>7. f = [k \in 0 .. n |-> IF k = 0 THEN Scan0 ELSE ReplaceStep(f[k - 1], text, phrase, k)]
  BY <1>5, <1>6
<1> QED BY <1>5, <1>7 DEF Scanning, Scan0

\* Where the phrase is first found: behind the text when it is not in it.
FoundAt(text, phrase, n, d) ==
    /\ d \in 1 .. n + 1
    /\ \A i \in 1 .. d - 1 : ~ MatchAt(text, phrase, i)
    /\ d <= n => MatchAt(text, phrase, d)

\* The first match, or the place behind the text.
LEMMA FoundSomewhere ==
    ASSUME NEW n \in Nat, NEW text, NEW phrase
    PROVE  \E d : FoundAt(text, phrase, n, d)
<1> DEFINE T == {i \in 1 .. n : MatchAt(text, phrase, i)} \union {n + 1}
<1>1. /\ T \subseteq Nat /\ T # {}
      /\ \A i : i \in T <=> (i \in 1 .. n /\ MatchAt(text, phrase, i)) \/ i = n + 1
  OBVIOUS
<1> HIDE DEF T
<1>2. PICK d \in T : \A i \in T : d <= i
  BY <1>1, LeastNumber
<1>3. d \in 1 .. n + 1
  BY <1>1
<1>4. ASSUME NEW i \in 1 .. d - 1 PROVE ~ MatchAt(text, phrase, i)
  <2>1. i \in 1 .. n /\ ~ (d <= i)
    BY <1>3
  <2> QED BY <1>1, <1>2, <2>1
<1>5. d <= n => MatchAt(text, phrase, d)
  BY <1>1, <1>3
<1> QED BY <1>3, <1>4, <1>5 DEF FoundAt

\* The first occurrence goes, everything before it stays.
LEMMA WithoutIs ==
    ASSUME NEW n \in Nat, NEW text, Len(text) = n, NEW phrase, Len(phrase) \in Nat,
           NEW d, FoundAt(text, phrase, n, d)
    PROVE  \E K : /\ K \subseteq 1 .. n /\ Without(text, phrase) = Picked(text, K)
                  /\ d \notin K
                  /\ d = n + 1 => K = 1 .. n
<1> DEFINE f == CHOOSE f : Scanning(text, phrase, f)
<1>1. Scanning(text, phrase, f)
  BY ScanningExists
<1>2. Without(text, phrase) = Picked(text, f[Len(text)].kept)
  BY Zenon DEF Without, Scanning
<1> HIDE DEF f
<1>3. /\ f = [i \in 0 .. n |->
                 IF i = 0 THEN Scan0 ELSE ReplaceStep(f[i - 1], text, phrase, i)]
  BY <1>1 DEF Scanning, Scan0
<1>4. /\ f[0] = Scan0
      /\ \A i \in 1 .. n : f[i] = ReplaceStep(f[i - 1], text, phrase, i)
  <2>1. \A i \in 0 .. n : f[i] = IF i = 0 THEN Scan0
                                         ELSE ReplaceStep(f[i - 1], text, phrase, i)
    BY <1>3
  <2> QED BY <2>1
<1>5. /\ d \in 1 .. n + 1
      /\ \A i \in 1 .. d - 1 : ~ MatchAt(text, phrase, i)
      /\ d <= n => MatchAt(text, phrase, d)
  BY DEF FoundAt
<1> DEFINE J(k) == /\ f[k] \in Scanned
                   /\ f[k].kept \subseteq 1 .. k
                   /\ d \notin f[k].kept
                   /\ k < d => f[k].kept = 1 .. k /\ f[k].next = 1
<1>6. J(0)
  <2>1. Scan0 \in Scanned /\ Scan0.kept = {} /\ Scan0.next = 1 /\ 1 .. 0 = {}
    BY DEF Scan0, Scanned
  <2> QED BY <1>4, <2>1
<1>7. ASSUME NEW k \in 1 .. n, J(k - 1) PROVE J(k)
  <2>1. PICK s \in Scanned : s = f[k - 1]
    BY <1>7
  <2>2. /\ s.kept \subseteq 1 .. k - 1 /\ d \notin s.kept
        /\ k - 1 < d => s.kept = 1 .. k - 1 /\ s.next = 1
    BY <1>7, <2>1
  <2>3. PICK t : t = ReplaceStep(s, text, phrase, k)
    OBVIOUS
  <2>4. f[k] = t
    BY <1>4, <2>1, <2>3
  <2>5. /\ t \in Scanned /\ t.kept \subseteq s.kept \union {k}
        /\ MatchAt(text, phrase, k) => t.kept = s.kept
        /\ s.next <= k /\ ~ MatchAt(text, phrase, k) =>
               t.kept = s.kept \union {k} /\ t.next = s.next
    BY <2>3, ReplaceStepIs
  <2>6. t.kept \subseteq 1 .. k
    BY <2>2, <2>5
  <2>7. d \notin t.kept
    <3>1. CASE k = d
      <4>1. d <= n
        BY <3>1
      <4> QED BY <1>5, <2>2, <2>5, <3>1, <4>1
    <3>2. CASE k # d
      BY <2>2, <2>5, <3>2
    <3> QED BY <3>1, <3>2
  <2>8. ASSUME k < d PROVE t.kept = 1 .. k /\ t.next = 1
    <3>1. k \in 1 .. d - 1 /\ k - 1 < d
      BY <1>5, <2>8
    <3>2. s.kept = 1 .. k - 1 /\ s.next = 1 /\ ~ MatchAt(text, phrase, k)
      BY <1>5, <2>2, <3>1
    <3>3. t.kept = (1 .. k - 1) \union {k} /\ t.next = 1
      BY <2>5, <3>2
    <3> QED BY <3>3
  <2> QED BY <2>4, <2>5, <2>6, <2>7, <2>8
<1> DEFINE wrong == {k \in 0 .. n : ~ J(k)}
<1>8. wrong = {}
  <2> SUFFICES ASSUME wrong # {} PROVE FALSE
    OBVIOUS
  <2>1. wrong \subseteq Nat /\ \A k : k \in wrong <=> k \in 0 .. n /\ ~ J(k)
    OBVIOUS
  <2> HIDE DEF wrong, J
  <2>2. PICK k \in wrong : \A j \in wrong : k <= j
    BY <2>1, LeastNumber
  <2>3. k \in 0 .. n /\ ~ J(k)
    BY <2>1, <2>2
  <2>4. k # 0
    BY <1>6, <2>3
  <2>5. k \in 1 .. n /\ k - 1 \in 0 .. n /\ ~ (k <= k - 1)
    BY <2>3, <2>4
  <2>6. J(k - 1)
    BY <2>1, <2>2, <2>5
  <2> QED BY <1>7, <2>3, <2>5, <2>6
<1>9. J(n)
  <2> HIDE DEF J
  <2>1. n \in 0 .. n
    OBVIOUS
  <2> QED BY <1>8, <2>1
<1>10. PICK K : K = f[n].kept
  OBVIOUS
<1>11. K \subseteq 1 .. n /\ d \notin K
  BY <1>9, <1>10
<1>12. d = n + 1 => K = 1 .. n
  BY <1>9, <1>10
<1> QED BY <1>2, <1>10, <1>11, <1>12

\* What is left of a text: no hyphens, and without one word of a phrase it mentions.
Cleans(c, y, phrase) ==
    \E R, m, g :
        /\ SubOf(c, y, R, m, g)
        /\ R \subseteq 1 .. Len(y)
        /\ \A i \in R : y[i] # Hyphen
        /\ Named(y, phrase) => \E d \in 1 .. Len(y) : d \notin R /\ y[d] = phrase[1]

\* What is left when the hyphens go.
LEMMA HyphensGo ==
    ASSUME NEW t, NEW s, NEW P, NEW k, NEW e, SubOf(t, s, P, k, e)
    PROVE  \E m, g : SubOf(Picked(t, {q \in DOMAIN t : t[q] # Hyphen}), s,
                           {i \in P : s[i] # Hyphen}, m, g)
<1> DEFINE Q == {q \in DOMAIN t : t[q] # Hyphen}
           R == {i \in P : s[i] # Hyphen}
<1>1. /\ DOMAIN t = 1 .. k
      /\ \A r \in 1 .. k : t[r] = s[e[r]]
      /\ \A r \in 1 .. k : e[r] \in P
      /\ \A i \in P : \E r \in 1 .. k : e[r] = i
  BY SubOfIs
<1>2. Q \subseteq 1 .. k /\ R \subseteq P
  BY <1>1
<1>3. \A i \in P : i \in R <=> \E q \in Q : e[q] = i
  BY <1>1
<1> HIDE DEF Q, R
<1>4. \E m, g : SubOf(Picked(t, Q), s, R, m, g)
  BY <1>2, <1>3, PickedAgain
<1> QED BY <1>4 DEF Q, R

\* A text without hyphens is cleaned by Without alone.
LEMMA CleanIs ==
    ASSUME NEW W, NEW y \in Seq(W), NEW phrase \in Seq(W)
    PROVE  /\ Cleans(CleanPrompt(y, phrase), y, phrase)
           /\ ~ Named(y, phrase) => Without(y, phrase) = y
           /\ Hyphen \notin ToSet(y) => CleanPrompt(y, phrase) = Without(y, phrase)
<1> DEFINE rest == Without(y, phrase)
           Q == {i \in DOMAIN rest : rest[i] # Hyphen}
<1>0. PICK n \in Nat : n = Len(y)
  OBVIOUS
<1>1. Len(phrase) \in Nat /\ y = [i \in 1 .. n |-> y[i]] /\ DOMAIN y = 1 .. n
  BY <1>0
<1>2. PICK d : FoundAt(y, phrase, n, d)
  BY FoundSomewhere
<1>3. PICK K : /\ K \subseteq 1 .. n /\ rest = Picked(y, K) /\ d \notin K
               /\ d = n + 1 => K = 1 .. n
  BY <1>0, <1>1, <1>2, WithoutIs
<1>4. CleanPrompt(y, phrase) = Picked(rest, Q)
  BY DEF CleanPrompt
<1> HIDE DEF rest
<1>5. IsFiniteSet(K) /\ K \subseteq Int
  <2>1. IsFiniteSet(1 .. n)
    BY UpToFinite
  <2>2. K \in SUBSET (1 .. n) /\ 1 .. n \subseteq Int
    BY <1>3
  <2>3. IsFiniteSet(K)
    BY <2>1, <2>2, FS_Subset
  <2> QED BY <2>2, <2>3
<1>6. PICK k, e : SubOf(rest, y, K, k, e)
  BY <1>3, <1>5, PickedIsSub
<1>7. /\ k \in Nat /\ \A r \in 1 .. k : e[r] \in K
      /\ \A i \in K : \E r \in 1 .. k : e[r] = i
      /\ DOMAIN rest = 1 .. k /\ \A r \in 1 .. k : rest[r] = y[e[r]]
      /\ rest \in [1 .. k -> {y[i] : i \in K}]
  BY <1>6, SubOfIs
<1> DEFINE R == {i \in K : y[i] # Hyphen}
<1>8. R \subseteq K /\ \A i : i \in R <=> i \in K /\ y[i] # Hyphen
  OBVIOUS
<1>9. PICK m, g : SubOf(Picked(rest, Q), y, R, m, g)
  BY <1>6, HyphensGo
<1>10. \A q : q \in Q <=> q \in 1 .. k /\ y[e[q]] # Hyphen
  BY <1>7
<1> HIDE DEF Q, R
<1>11. /\ d \in 1 .. n + 1 /\ d <= n => MatchAt(y, phrase, d)
       /\ \A i \in 1 .. d - 1 : ~ MatchAt(y, phrase, i)
  BY <1>2 DEF FoundAt
<1>12. d \in 1 .. n + 1 /\ d \in Int /\ 1 <= d
  <2>1. d \in 1 .. n + 1
    BY <1>2, Zenon DEF FoundAt
  <2>2. n \in Nat
    BY <1>0
  <2> QED BY <2>1, <2>2
<1>13. ASSUME Named(y, phrase)
       PROVE  \E i \in 1 .. n : i \notin R /\ y[i] = phrase[1]
  <2>1. PICK i \in 1 .. n : MatchAt(y, phrase, i)
    BY <1>0, <1>13, NamedIs
  <2>2. d \in 1 .. n
    <3>1. i \notin 1 .. d - 1
      BY <1>11, <2>1
    <3>2. d <= i
      BY <1>12, <3>1
    <3> QED BY <1>0, <1>12, <3>2
  <2>3. MatchAt(y, phrase, d)
    BY <1>11, <2>2
  <2>4. y[d] = phrase[1]
    BY <1>0, <2>2, <2>3, MatchIs
  <2> QED BY <1>3, <1>8, <2>2, <2>4
<1>14. Cleans(CleanPrompt(y, phrase), y, phrase)
  <2>1. R \subseteq 1 .. Len(y) /\ \A i \in R : y[i] # Hyphen
    BY <1>0, <1>3, <1>8
  <2> QED BY <1>4, <1>9, <1>13, <1>0, <2>1 DEF Cleans
<1>15. ASSUME ~ Named(y, phrase) PROVE rest = y
  <2>1. \A i \in 1 .. n : ~ MatchAt(y, phrase, i)
    BY <1>0, <1>15, NamedIs
  <2>2. d = n + 1
    <3>1. ~ (d <= n)
      <4> SUFFICES ASSUME d <= n PROVE FALSE
        OBVIOUS
      <4>1. d \in 1 .. n
        BY <1>0, <1>12
      <4> QED BY <1>11, <2>1, <4>1
    <3> QED BY <1>0, <1>12, <3>1
  <2>3. rest = Picked(y, 1 .. n)
    BY <1>3, <2>2
  <2> QED BY <1>1, <2>3, PickedAll
<1>16. ASSUME Hyphen \notin ToSet(y) PROVE Picked(rest, Q) = rest
  <2>1. \A i \in 1 .. n : y[i] # Hyphen
    BY <1>1, <1>16 DEF ToSet
  <2>2. Q = 1 .. k
    BY <1>3, <1>7, <1>10, <2>1
  <2>3. rest = [r \in 1 .. k |-> rest[r]]
    BY <1>7
  <2> QED BY <1>7, <2>2, <2>3, PickedAll
<1> QED BY <1>4, <1>14, <1>15, <1>16 DEF rest

\* The words of a cleaned text.
LEMMA CleanWords ==
    ASSUME NEW W, NEW y \in Seq(W), NEW phrase \in Seq(W)
    PROVE  /\ CleanPrompt(y, phrase) \in Seq(W)
           /\ ToSet(CleanPrompt(y, phrase)) \subseteq ToSet(y)
           /\ Hyphen \notin ToSet(CleanPrompt(y, phrase))
<1>1. PICK c : c = CleanPrompt(y, phrase)
  OBVIOUS
<1>2. PICK R, m, g : /\ SubOf(c, y, R, m, g)
                     /\ R \subseteq 1 .. Len(y)
                     /\ \A i \in R : y[i] # Hyphen
  BY <1>1, CleanIs DEF Cleans
<1>3. /\ m \in Nat /\ ToSet(c) = {y[i] : i \in R}
      /\ c \in [1 .. m -> {y[i] : i \in R}]
  BY <1>2, SubOfIs
<1>4. {y[i] : i \in R} \subseteq W /\ {y[i] : i \in R} \subseteq ToSet(y)
  BY <1>2 DEF ToSet
<1>5. c \in Seq(W)
  BY <1>3, <1>4
<1> QED BY <1>1, <1>2, <1>3, <1>4, <1>5

\* A text without hyphens and without the answer stays as it is.
LEMMA CleanKeeps ==
    ASSUME NEW W, NEW y \in Seq(W), NEW phrase \in Seq(W),
           ~ Named(y, phrase), Hyphen \notin ToSet(y)
    PROVE  CleanPrompt(y, phrase) = y
BY CleanIs

Single(y, w) == \A p, q \in DOMAIN y : y[p] = w /\ y[q] = w => p = q

Twice(y, w) ==
    \A p, q, r \in DOMAIN y : y[p] = w /\ y[q] = w /\ y[r] = w => p = q \/ q = r \/ p = r

\* A text of which one cleaning, or two, leave nothing of the answer.
Sparse(y, w) == Single(y, w) \/ (Twice(y, w) /\ Hyphen \notin ToSet(y))

\* Cleaning adds no mention of a word, and takes one away where the phrase is found.
LEMMA CleanSingle ==
    ASSUME NEW W, NEW y \in Seq(W), NEW phrase \in Seq(W), NEW w
    PROVE  /\ Single(y, w) => Single(CleanPrompt(y, phrase), w)
           /\ Twice(y, phrase[1]) /\ Named(y, phrase) =>
                  Single(CleanPrompt(y, phrase), phrase[1])
           /\ Single(y, phrase[1]) /\ Named(y, phrase) =>
                  phrase[1] \notin ToSet(CleanPrompt(y, phrase))
<1>1. PICK c : c = CleanPrompt(y, phrase)
  OBVIOUS
<1>2. PICK R, m, g :
        /\ SubOf(c, y, R, m, g)
        /\ R \subseteq 1 .. Len(y)
        /\ Named(y, phrase) => \E d \in 1 .. Len(y) : d \notin R /\ y[d] = phrase[1]
  BY <1>1, CleanIs DEF Cleans
<1>3. /\ m \in Nat /\ DOMAIN c = 1 .. m
      /\ \A r \in 1 .. m : g[r] \in R
      /\ \A q, r \in 1 .. m : q < r => g[q] < g[r]
      /\ \A r \in 1 .. m : c[r] = y[g[r]]
      /\ R \subseteq Int
  BY <1>2, SubOfIs
<1>4. ASSUME NEW q \in 1 .. m, NEW r \in 1 .. m, g[q] = g[r] PROVE q = r
  <2>1. g[q] \in Int /\ g[r] \in Int
    BY <1>3
  <2>2. ~ (q < r)
    BY <1>3, <1>4, <2>1
  <2>3. ~ (r < q)
    BY <1>3, <1>4, <2>1
  <2> QED BY <1>3, <2>2, <2>3
<1>5. DOMAIN y = 1 .. Len(y) /\ R \subseteq DOMAIN y
  BY <1>2
<1>6. ASSUME Single(y, w) PROVE Single(c, w)
  <2> SUFFICES ASSUME NEW p \in DOMAIN c, NEW q \in DOMAIN c, c[p] = w, c[q] = w
               PROVE  p = q
    BY DEF Single
  <2>1. /\ g[p] \in DOMAIN y /\ g[q] \in DOMAIN y /\ y[g[p]] = w /\ y[g[q]] = w
        /\ p \in 1 .. m /\ q \in 1 .. m
    BY <1>3, <1>5
  <2>2. g[p] = g[q]
    BY <1>6, <2>1 DEF Single
  <2> QED BY <1>4, <2>1, <2>2
<1>7. ASSUME Named(y, phrase), Twice(y, phrase[1]) PROVE Single(c, phrase[1])
  <2>1. PICK d \in DOMAIN y : d \notin R /\ y[d] = phrase[1]
    BY <1>2, <1>5, <1>7
  <2> SUFFICES ASSUME NEW p \in DOMAIN c, NEW q \in DOMAIN c, c[p] = phrase[1], c[q] = phrase[1]
               PROVE  p = q
    BY DEF Single
  <2>2. /\ g[p] \in R /\ g[q] \in R /\ y[g[p]] = phrase[1] /\ y[g[q]] = phrase[1]
        /\ p \in 1 .. m /\ q \in 1 .. m
    BY <1>3
  <2>3. g[p] = g[q]
    BY <1>5, <1>7, <2>1, <2>2 DEF Twice
  <2> QED BY <1>4, <2>2, <2>3
<1>8. ASSUME Named(y, phrase), Single(y, phrase[1]) PROVE phrase[1] \notin ToSet(c)
  <2>1. PICK d \in DOMAIN y : d \notin R /\ y[d] = phrase[1]
    BY <1>2, <1>5, <1>8
  <2> SUFFICES ASSUME NEW p \in DOMAIN c, c[p] = phrase[1] PROVE FALSE
    BY DEF ToSet
  <2>2. g[p] \in R /\ y[g[p]] = phrase[1]
    BY <1>3
  <2> QED BY <1>5, <1>8, <2>1, <2>2 DEF Single
<1> QED BY <1>1, <1>6, <1>7, <1>8

\* One cleaning frees a text in which the head of the phrase is there once.
LEMMA FreeAfterOne ==
    ASSUME NEW W, NEW y \in Seq(W), NEW phrase \in Seq(W),
           Single(y, phrase[1]), Hyphen \notin ToSet(y)
    PROVE  ~ Named(CleanPrompt(y, phrase), phrase)
<1>1. PICK c \in Seq(W) : c = CleanPrompt(y, phrase)
  BY CleanWords
<1>2. CASE Named(y, phrase)
  <2>1. phrase[1] \notin ToSet(c)
    BY <1>1, <1>2, CleanSingle
  <2>2. \A i \in 1 .. Len(c) : c[i] # phrase[1]
    BY <2>1 DEF ToSet
  <2> QED BY <1>1, <2>2, NamedHasHead
<1>3. CASE ~ Named(y, phrase)
  BY <1>3, CleanKeeps
<1> QED BY <1>2, <1>3

\* Two cleanings free a sparse text.
LEMMA FreeAfterTwo ==
    ASSUME NEW W, NEW y \in Seq(W), NEW phrase \in Seq(W), Sparse(y, phrase[1])
    PROVE  ~ Named(CleanPrompt(CleanPrompt(y, phrase), phrase), phrase)
<1>1. PICK c \in Seq(W) : c = CleanPrompt(y, phrase) /\ Hyphen \notin ToSet(c)
  BY CleanWords
<1>2. CASE Single(c, phrase[1])
  BY <1>1, <1>2, FreeAfterOne
<1>3. CASE ~ Single(c, phrase[1])
  <2>1. ~ Single(y, phrase[1])
    BY <1>1, <1>3, CleanSingle
  <2>2. Twice(y, phrase[1]) /\ Hyphen \notin ToSet(y)
    BY <2>1 DEF Sparse
  <2>3. ~ Named(y, phrase)
    BY <1>1, <1>3, <2>2, CleanSingle
  <2>4. c = y
    BY <1>1, <2>2, <2>3, CleanKeeps
  <2> QED BY <1>1, <2>3, <2>4
<1> QED BY <1>2, <1>3

----
\* Lists of prompts

\* What the loop over candidates makes of a list of prompts.
Cleaned(prompts, target) == [i \in DOMAIN prompts |-> CleanPrompt(prompts[i], target)]

\* The texts of CleanDistinct, cleaned one by one.
LEMMA CleanedIs ==
    ASSUME NEW W, NEW prompts \in Seq(Seq(W)), NEW target \in Seq(W)
    PROVE  /\ Len(prompts) \in Nat /\ DOMAIN prompts = 1 .. Len(prompts)
           /\ \A i \in 1 .. Len(prompts) : prompts[i] \in Seq(W)
           /\ DOMAIN Cleaned(prompts, target) = 1 .. Len(prompts)
           /\ \A i \in 1 .. Len(prompts) :
                  Cleaned(prompts, target)[i] = CleanPrompt(prompts[i], target)
           /\ CleanDistinct(prompts, target) = Distinct(Cleaned(prompts, target), {<<>>})
           /\ ToSet(Cleaned(prompts, target)) =
                  {CleanPrompt(prompts[i], target) : i \in 1 .. Len(prompts)}
<1>1. /\ Len(prompts) \in Nat /\ DOMAIN prompts = 1 .. Len(prompts)
      /\ \A i \in 1 .. Len(prompts) : prompts[i] \in Seq(W)
  OBVIOUS
<1>2. /\ DOMAIN Cleaned(prompts, target) = 1 .. Len(prompts)
      /\ \A i \in 1 .. Len(prompts) :
             Cleaned(prompts, target)[i] = CleanPrompt(prompts[i], target)
  BY <1>1 DEF Cleaned
<1>3. CleanDistinct(prompts, target) = Distinct(Cleaned(prompts, target), {<<>>})
  BY Zenon DEF CleanDistinct, Cleaned
<1>4. ToSet(Cleaned(prompts, target)) =
          {CleanPrompt(prompts[i], target) : i \in 1 .. Len(prompts)}
  <2>1. ToSet(Cleaned(prompts, target)) = {Cleaned(prompts, target)[i] : i \in 1 .. Len(prompts)}
    BY <1>2 DEF ToSet
  <2> QED BY <1>2, <2>1
<1> QED BY <1>1, <1>2, <1>3, <1>4

\* Every prompt is a candidate that was cleaned, and not blank.
LEMMA PromptsAreCleaned ==
    ASSUME NEW W, NEW prompts \in Seq(Seq(W)), NEW target \in Seq(W), NEW n \in Nat,
           NEW x \in ToSet(Take(CleanDistinct(prompts, target), n))
    PROVE  x # <<>> /\ \E i \in 1 .. Len(prompts) : x = CleanPrompt(prompts[i], target)
<1>1. PICK s : s = Cleaned(prompts, target)
  OBVIOUS
<1>2. PICK N \in Nat : N = Len(prompts) /\ DOMAIN s = 1 .. N
  BY <1>1, CleanedIs
<1>3. /\ CleanDistinct(prompts, target) = Distinct(s, {<<>>})
      /\ ToSet(s) = {CleanPrompt(prompts[i], target) : i \in 1 .. Len(prompts)}
  BY <1>1, CleanedIs
<1>4. ToSet(Take(Distinct(s, {<<>>}), n)) \subseteq ToSet(s) \ {<<>>}
  BY <1>2, DistinctTaken
<1> QED BY <1>3, <1>4

\* The first candidate of which something is left is the first prompt; with another
\* text before it, it is a prompt when there may be two.
LEMMA FirstPrompt ==
    ASSUME NEW W, NEW prompts \in Seq(Seq(W)), NEW target \in Seq(W), NEW n \in Nat \ {0},
           NEW i \in 1 .. Len(prompts), CleanPrompt(prompts[i], target) # <<>>,
           \A j \in 1 .. i - 1 : CleanPrompt(prompts[j], target) = <<>>
    PROVE  /\ 1 \in DOMAIN Take(CleanDistinct(prompts, target), n)
           /\ Take(CleanDistinct(prompts, target), n)[1] = CleanPrompt(prompts[i], target)
           /\ CleanPrompt(prompts[i], target) \in ToSet(Take(CleanDistinct(prompts, target), n))
<1>1. PICK s : s = Cleaned(prompts, target)
  OBVIOUS
<1>2. /\ Len(prompts) \in Nat /\ DOMAIN s = 1 .. Len(prompts)
      /\ \A j \in 1 .. Len(prompts) : s[j] = CleanPrompt(prompts[j], target)
      /\ CleanDistinct(prompts, target) = Distinct(s, {<<>>})
  BY <1>1, CleanedIs
<1>3. \A j \in 1 .. i - 1 : j \in 1 .. Len(prompts)
  BY <1>2
<1>4. PICK S : S = {<<>>}
  OBVIOUS
<1>5. s[i] \notin S /\ \A j \in 1 .. i - 1 : s[j] \in S
  BY <1>2, <1>3, <1>4
<1>6. /\ 1 \in DOMAIN Take(Distinct(s, S), n)
      /\ Take(Distinct(s, S), n)[1] = s[i]
  BY <1>2, <1>5, FirstTaken
<1>7. s[i] \in ToSet(Take(Distinct(s, S), n))
  BY <1>6 DEF ToSet
<1> QED BY <1>2, <1>4, <1>6, <1>7

\* A prompt is taken when only blank ones and one other text come before it.
LEMMA SecondPrompt ==
    ASSUME NEW W, NEW prompts \in Seq(Seq(W)), NEW target \in Seq(W), NEW n \in Nat \ {0, 1},
           NEW i \in 1 .. Len(prompts), CleanPrompt(prompts[i], target) # <<>>, NEW v,
           \A j \in 1 .. i - 1 : CleanPrompt(prompts[j], target) \in {<<>>, v}
    PROVE  CleanPrompt(prompts[i], target) \in ToSet(Take(CleanDistinct(prompts, target), n))
<1>1. PICK s : s = Cleaned(prompts, target)
  OBVIOUS
<1>2. /\ Len(prompts) \in Nat /\ DOMAIN s = 1 .. Len(prompts)
      /\ \A j \in 1 .. Len(prompts) : s[j] = CleanPrompt(prompts[j], target)
      /\ CleanDistinct(prompts, target) = Distinct(s, {<<>>})
  BY <1>1, CleanedIs
<1>3. \A j \in 1 .. i - 1 : j \in 1 .. Len(prompts)
  BY <1>2
<1>4. PICK S : S = {<<>>}
  OBVIOUS
<1>5. s[i] \notin S /\ \A j \in 1 .. i - 1 : s[j] \in S \/ s[j] = v
  BY <1>2, <1>3, <1>4
<1>6. s[i] \in ToSet(Take(Distinct(s, S), n))
  BY <1>2, <1>5, SecondTaken
<1> QED BY <1>2, <1>4, <1>6

\* When there is a prompt, something is left of a candidate.
LEMMA SomePrompt ==
    ASSUME NEW W, NEW prompts \in Seq(Seq(W)), NEW target \in Seq(W), NEW n \in Nat,
           Take(CleanDistinct(prompts, target), n) # <<>>
    PROVE  \E i \in 1 .. Len(prompts) : CleanPrompt(prompts[i], target) # <<>>
<1> SUFFICES ASSUME \A i \in 1 .. Len(prompts) : CleanPrompt(prompts[i], target) = <<>>
             PROVE  FALSE
  OBVIOUS
<1>1. PICK s : s = Cleaned(prompts, target)
  OBVIOUS
<1>2. /\ Len(prompts) \in Nat /\ DOMAIN s = 1 .. Len(prompts)
      /\ CleanDistinct(prompts, target) = Distinct(s, {<<>>})
      /\ ToSet(s) = {CleanPrompt(prompts[i], target) : i \in 1 .. Len(prompts)}
  BY <1>1, CleanedIs
<1>3. PICK S : S = {<<>>}
  OBVIOUS
<1>4. PICK d : d = Distinct(s, S)
  OBVIOUS
<1>5. IsOnceOf(d, s, ToSet(s) \ S)
  BY <1>2, <1>4, DistinctIs
<1>6. PICK k \in Nat : d \in [1 .. k -> ToSet(s) \ S]
  BY <1>5 DEF IsOnceOf
<1>7. ToSet(s) \ S = {}
  BY <1>2, <1>3
<1>8. k = 0
  <2> SUFFICES ASSUME k # 0 PROVE FALSE
    OBVIOUS
  <2>1. 1 \in 1 .. k
    BY <1>6
  <2>2. d[1] \in ToSet(s) \ S
    BY <1>6, <2>1
  <2> QED BY <1>7, <2>2
<1>9. Begins(Take(d, n), d, MinOf(k, n), ToSet(s) \ S)
  BY <1>6, TakeIs
<1>10. MinOf(k, n) = 0
  BY <1>8 DEF MinOf
<1>11. Take(d, n) = <<>>
  BY <1>9, <1>10 DEF Begins
<1> QED BY <1>2, <1>3, <1>4, <1>11

----
\* The keys

\* The parts of _fallback_key_prompts.
Subject(m) == CleanPrompt(m.subject, m.target)

Skipped(m) == KeyStopwords \union (IF Len(m.target) = 1 THEN ToSet(m.target) ELSE {})

AllWords(m) == Subject(m) \o CleanPrompt(m.stem, m.target) \o CleanPrompt(m.text, m.target)

Keyword(m) == Take(Distinct(AllWords(m), Skipped(m)), KeywordWords)

Scoped(m) ==
    IF Subject(m) # <<>> /\ Keyword(m) # <<>> /\ ~ Mentions(Keyword(m), Subject(m))
    THEN <<Subject(m) \o Keyword(m)>> ELSE <<>>

Fallbacks(m) ==
    <<CleanPrompt(m.stem, m.target), CleanPrompt(m.text, m.target), Keyword(m)>> \o Scoped(m)

\* FallbackKeyPrompts, with its parts named.
LEMMA FallbackIs ==
    ASSUME NEW m
    PROVE  FallbackKeyPrompts(m) = Take(CleanDistinct(Fallbacks(m), m.target), MaxFallback)
BY Zenon DEF FallbackKeyPrompts, Fallbacks, Scoped, Keyword, AllWords, Skipped, Subject

\* A memory whose texts are sequences of words.
Texts(m, W) ==
    /\ m.provided \in Seq(Seq(W))
    /\ m.subject \in Seq(W) /\ m.stem \in Seq(W) /\ m.text \in Seq(W) /\ m.target \in Seq(W)

\* The keyword prompt has every word once.
LEMMA KeywordIs ==
    ASSUME NEW W, NEW m, Texts(m, W)
    PROVE  /\ Keyword(m) \in Seq(W) /\ Subject(m) \in Seq(W)
           /\ ToSet(Subject(m)) \subseteq ToSet(m.subject)
           /\ \A w : Single(Keyword(m), w)
<1>1. /\ Subject(m) \in Seq(W) /\ ToSet(Subject(m)) \subseteq ToSet(m.subject)
      /\ CleanPrompt(m.stem, m.target) \in Seq(W)
      /\ CleanPrompt(m.text, m.target) \in Seq(W)
  BY CleanWords DEF Texts, Subject
<1>2. PICK s \in Seq(W) : s = AllWords(m)
  <2>1. PICK a \in Seq(W), b \in Seq(W), c \in Seq(W) :
          /\ a = Subject(m) /\ b = CleanPrompt(m.stem, m.target)
          /\ c = CleanPrompt(m.text, m.target)
    BY <1>1
  <2>2. a \o b \in Seq(W)
    BY <2>1
  <2>3. (a \o b) \o c \in Seq(W)
    BY <2>1, <2>2
  <2>4. AllWords(m) = (a \o b) \o c
    BY <2>1 DEF AllWords
  <2> QED BY <2>3, <2>4
<1>3. PICK N \in Nat : N = Len(s) /\ DOMAIN s = 1 .. N
  OBVIOUS
<1>4. PICK d : d = Distinct(s, Skipped(m))
  OBVIOUS
<1>5. IsOnceOf(d, s, ToSet(s) \ Skipped(m))
  BY <1>3, <1>4, DistinctIs
<1>6. \A q, r \in DOMAIN d : d[q] = d[r] => q = r
  BY <1>5 DEF IsOnceOf
<1>7. PICK k \in Nat : d \in [1 .. k -> ToSet(s) \ Skipped(m)]
  BY <1>5 DEF IsOnceOf
<1>8. ToSet(s) \subseteq W
  BY <1>2, <1>3 DEF ToSet
<1>9. d \in [1 .. k -> W] /\ DOMAIN d = 1 .. k
  BY <1>7, <1>8
<1>10. KeywordWords \in Nat
  BY KeysAssumption
<1>11. PICK l : l = MinOf(k, KeywordWords)
  OBVIOUS
<1>12. l \in Nat /\ l <= k
  BY <1>7, <1>10, <1>11 DEF MinOf
<1>13. PICK t : t = Take(d, KeywordWords)
  OBVIOUS
<1>14. Begins(t, d, l, W)
  BY <1>7, <1>9, <1>10, <1>11, <1>13, TakeIs
<1>15. t \in [1 .. l -> W] /\ \A r \in 1 .. l : t[r] = d[r]
  BY <1>14 DEF Begins
<1>16. t \in Seq(W)
  BY <1>12, <1>15
<1>17. ASSUME NEW p \in 1 .. l, NEW q \in 1 .. l, t[p] = t[q] PROVE p = q
  <2>1. p \in DOMAIN d /\ q \in DOMAIN d
    BY <1>7, <1>9, <1>12
  <2>2. d[p] = d[q]
    BY <1>15, <1>17
  <2> QED BY <1>6, <2>1, <2>2
<1>18. \A w : Single(t, w)
  BY <1>15, <1>17 DEF Single
<1>19. t = Keyword(m)
  BY <1>2, <1>4, <1>13 DEF Keyword
<1> QED BY <1>1, <1>16, <1>18, <1>19

\* The stem, the text, the keywords, and perhaps the subject before the keywords.
LEMMA FallbacksAre ==
    ASSUME NEW W, NEW m, Texts(m, W)
    PROVE  /\ Fallbacks(m) \in Seq(Seq(W)) /\ Len(Fallbacks(m)) >= 3
           /\ Fallbacks(m)[1] = CleanPrompt(m.stem, m.target)
           /\ Fallbacks(m)[2] = CleanPrompt(m.text, m.target)
           /\ Fallbacks(m)[3] = Keyword(m)
           /\ \A i \in 1 .. Len(Fallbacks(m)) :
                  i \in 1 .. 3 \/ (Scoped(m) # <<>> /\ Fallbacks(m)[i] = Subject(m) \o Keyword(m))
<1>1. PICK a \in Seq(W), b \in Seq(W), c \in Seq(W), s \in Seq(W) :
        /\ a = CleanPrompt(m.stem, m.target) /\ b = CleanPrompt(m.text, m.target)
        /\ c = Keyword(m) /\ s = Subject(m)
  BY CleanWords, KeywordIs DEF Texts
<1>2. PICK f : f = Fallbacks(m)
  OBVIOUS
<1>3. CASE Scoped(m) = <<>>
  <2>1. f = <<a, b, c>> \o <<>>
    BY <1>1, <1>2, <1>3 DEF Fallbacks
  <2>2. f = <<a, b, c>>
    BY <2>1
  <2>3. f \in Seq(Seq(W)) /\ Len(f) = 3 /\ f[1] = a /\ f[2] = b /\ f[3] = c
    BY <2>2
  <2> QED BY <1>1, <1>2, <2>3
<1>4. CASE Scoped(m) # <<>>
  <2>1. Scoped(m) = <<s \o c>>
    BY <1>1, <1>4 DEF Scoped
  <2>2. f = <<a, b, c>> \o <<s \o c>>
    BY <1>1, <1>2, <2>1 DEF Fallbacks
  <2>3. PICK z \in Seq(W) : z = s \o c
    <3>1. s \o c \in Seq(W)
      BY <1>1
    <3> QED BY <3>1
  <2>4. PICK t \in Seq(Seq(W)) : Len(t) = 3 /\ t[1] = a /\ t[2] = b /\ t[3] = c
                               /\ t = <<a, b, c>>
    <3>1. <<a, b, c>> \in Seq(Seq(W))
      BY <1>1
    <3> QED BY <3>1
  <2>5. PICK u \in Seq(Seq(W)) : Len(u) = 1 /\ u[1] = z /\ u = <<z>>
    <3>1. <<z>> \in Seq(Seq(W))
      BY <2>3
    <3> QED BY <3>1
  <2>6. f = t \o u
    BY <2>2, <2>3, <2>4, <2>5
  <2>7. /\ f \in Seq(Seq(W)) /\ Len(f) = 4
        /\ \A i \in 1 .. 4 : f[i] = IF i <= 3 THEN t[i] ELSE u[i - 3]
    BY <2>4, <2>5, <2>6
  <2>8. /\ 1 \in 1 .. 4 /\ 2 \in 1 .. 4 /\ 3 \in 1 .. 4 /\ 4 \in 1 .. 4
        /\ \A i \in 1 .. 4 : i \in 1 .. 3 \/ i = 4
    OBVIOUS
  <2>9. f[1] = a /\ f[2] = b /\ f[3] = c /\ f[4] = z
    BY <2>4, <2>5, <2>7, <2>8
  <2> QED BY <1>1, <1>2, <1>4, <2>3, <2>7, <2>8, <2>9
<1> QED BY <1>3, <1>4

\* A memory whose answer is in no subject, and sparse in its texts.
Discreet(m) ==
    m.target # <<>> =>
        /\ m.target[1] \notin ToSet(m.subject)
        /\ Sparse(m.stem, m.target[1]) /\ Sparse(m.text, m.target[1])

\* No fallback prompt names the answer once it is cleaned again.
LEMMA FallbackFree ==
    ASSUME NEW W, NEW m, Texts(m, W), Discreet(m), NEW p \in ToSet(FallbackKeyPrompts(m))
    PROVE  p \in Seq(W) /\ ~ Named(CleanPrompt(p, m.target), m.target)
<1>0. /\ m.stem \in Seq(W) /\ m.text \in Seq(W) /\ m.target \in Seq(W)
  BY DEF Texts
<1>1. PICK f \in Seq(Seq(W)) : f = Fallbacks(m)
  BY FallbacksAre
<1>2. p \in ToSet(Take(CleanDistinct(f, m.target), MaxFallback)) /\ MaxFallback \in Nat
  BY <1>1, FallbackIs, KeysAssumption
<1>3. PICK i \in 1 .. Len(f) : p = CleanPrompt(f[i], m.target)
  BY <1>0, <1>2, PromptsAreCleaned
<1>4. f[i] \in Seq(W)
  OBVIOUS
<1>5. p \in Seq(W) /\ Hyphen \notin ToSet(p)
  BY <1>0, <1>3, <1>4, CleanWords
<1>6. CASE m.target = <<>>
  BY <1>5, <1>6 DEF Named
<1>7. CASE m.target # <<>>
  <2>1. /\ m.target[1] \notin ToSet(m.subject)
        /\ Sparse(m.stem, m.target[1]) /\ Sparse(m.text, m.target[1])
    BY <1>7 DEF Discreet
  <2>2. ASSUME NEW y \in Seq(W), Sparse(y, m.target[1]), f[i] = CleanPrompt(y, m.target)
        PROVE  ~ Named(CleanPrompt(p, m.target), m.target)
    <3>1. ~ Named(p, m.target)
      BY <1>0, <1>3, <2>2, FreeAfterTwo
    <3>2. CleanPrompt(p, m.target) = p
      BY <1>0, <1>5, <3>1, CleanKeeps
    <3> QED BY <3>1, <3>2
  <2>3. ASSUME Single(f[i], m.target[1])
        PROVE  ~ Named(CleanPrompt(p, m.target), m.target)
    <3>1. Sparse(f[i], m.target[1])
      BY <2>3 DEF Sparse
    <3> QED BY <1>0, <1>3, <1>4, <3>1, FreeAfterTwo
  <2>4. /\ f[1] = CleanPrompt(m.stem, m.target) /\ f[2] = CleanPrompt(m.text, m.target)
        /\ f[3] = Keyword(m)
    BY <1>1, FallbacksAre
  <2>5. Single(Keyword(m), m.target[1])
    BY KeywordIs
  <2>6. CASE i = 1
    <3>1. f[i] = CleanPrompt(m.stem, m.target)
      BY <2>4, <2>6
    <3> QED BY <1>0, <1>5, <2>1, <2>2, <3>1
  <2>7. CASE i = 2
    <3>1. f[i] = CleanPrompt(m.text, m.target)
      BY <2>4, <2>7
    <3> QED BY <1>0, <1>5, <2>1, <2>2, <3>1
  <2>8. CASE i = 3
    <3>1. f[i] = Keyword(m)
      BY <2>4, <2>8
    <3> QED BY <1>5, <2>3, <2>5, <3>1
  <2>9. CASE f[i] = Subject(m) \o Keyword(m)
    <3>1. PICK s \in Seq(W), c \in Seq(W) : s = Subject(m) /\ c = Keyword(m)
      BY KeywordIs
    <3>2. m.target[1] \notin ToSet(s) /\ Single(c, m.target[1])
      BY <2>1, <3>1, KeywordIs
    <3>3. Single(s \o c, m.target[1])
      <4> SUFFICES ASSUME NEW q \in DOMAIN (s \o c), NEW r \in DOMAIN (s \o c),
                          (s \o c)[q] = m.target[1], (s \o c)[r] = m.target[1]
                   PROVE  q = r
        BY DEF Single
      <4>1. \A j \in 1 .. Len(s) : s[j] # m.target[1]
        BY <3>2 DEF ToSet
      <4>2. Len(s) \in Nat /\ Len(c) \in Nat /\ DOMAIN (s \o c) = 1 .. Len(s) + Len(c)
        BY <3>1
      <4>3. ASSUME NEW j \in 1 .. Len(s) + Len(c), (s \o c)[j] = m.target[1]
            PROVE  j - Len(s) \in DOMAIN c /\ c[j - Len(s)] = m.target[1]
        <5>1. (s \o c)[j] = IF j <= Len(s) THEN s[j] ELSE c[j - Len(s)]
          BY <3>1, <4>2
        <5>2. ~ (j <= Len(s))
          BY <4>1, <4>2, <4>3, <5>1
        <5>3. j - Len(s) \in 1 .. Len(c)
          BY <4>2, <5>2
        <5> QED BY <3>1, <4>3, <5>1, <5>2, <5>3
      <4>4. /\ q - Len(s) \in DOMAIN c /\ r - Len(s) \in DOMAIN c
            /\ c[q - Len(s)] = m.target[1] /\ c[r - Len(s)] = m.target[1]
            /\ q \in Int /\ r \in Int
        <5>1. q \in 1 .. Len(s) + Len(c) /\ r \in 1 .. Len(s) + Len(c)
          BY <4>2
        <5>2. q - Len(s) \in DOMAIN c /\ c[q - Len(s)] = m.target[1]
          BY <4>3, <5>1
        <5>3. r - Len(s) \in DOMAIN c /\ c[r - Len(s)] = m.target[1]
          BY <4>3, <5>1
        <5> QED BY <5>1, <5>2, <5>3
      <4>5. q - Len(s) = r - Len(s)
        BY <3>2, <4>4 DEF Single
      <4> QED BY <4>2, <4>5
    <3>4. Single(f[i], m.target[1])
      BY <2>9, <3>1, <3>3
    <3> QED BY <1>5, <2>3, <3>4
  <2>10. i \in 1 .. 3 \/ f[i] = Subject(m) \o Keyword(m)
    BY <1>1, FallbacksAre
  <2>11. i = 1 \/ i = 2 \/ i = 3 \/ f[i] = Subject(m) \o Keyword(m)
    BY <2>10
  <2> QED BY <1>5, <2>6, <2>7, <2>8, <2>9, <2>11
<1> QED BY <1>6, <1>7

\* The prompts of the extractor, then the fallbacks.
AllPrompts(m) == m.provided \o FallbackKeyPrompts(m)

\* The provided prompts come before the fallbacks.
LEMMA AllPromptsAre ==
    ASSUME NEW W, NEW m, Texts(m, W)
    PROVE  /\ KeyPromptsOf(m) = Take(CleanDistinct(AllPrompts(m), m.target), MaxKeys)
           /\ FallbackKeyPrompts(m) \in Seq(Seq(W)) /\ AllPrompts(m) \in Seq(Seq(W))
           /\ Len(AllPrompts(m)) = Len(m.provided) + Len(FallbackKeyPrompts(m))
           /\ \A i \in 1 .. Len(m.provided) : AllPrompts(m)[i] = m.provided[i]
           /\ \A i \in 1 .. Len(FallbackKeyPrompts(m)) :
                  AllPrompts(m)[Len(m.provided) + i] = FallbackKeyPrompts(m)[i]
           /\ \A i \in 1 .. Len(AllPrompts(m)) :
                  \/ \E j \in 1 .. Len(m.provided) : i = j
                  \/ \E j \in 1 .. Len(FallbackKeyPrompts(m)) : i = Len(m.provided) + j
<1>0. m.provided \in Seq(Seq(W)) /\ m.target \in Seq(W)
  BY DEF Texts
<1>1. PICK f \in Seq(Seq(W)) : f = Fallbacks(m)
  BY FallbacksAre
<1>2. PICK s : s = Cleaned(f, m.target)
  OBVIOUS
<1>3. /\ Len(f) \in Nat /\ DOMAIN s = 1 .. Len(f)
      /\ \A i \in 1 .. Len(f) : f[i] \in Seq(W) /\ s[i] = CleanPrompt(f[i], m.target)
      /\ CleanDistinct(f, m.target) = Distinct(s, {<<>>})
  BY <1>0, <1>2, CleanedIs
<1>4. ToSet(s) \subseteq Seq(W)
  <2>1. \A i \in 1 .. Len(f) : s[i] \in Seq(W)
    BY <1>0, <1>3, CleanWords
  <2> QED BY <1>3, <2>1 DEF ToSet
<1>5. PICK S : S = {<<>>}
  OBVIOUS
<1>6. PICK d : d = Distinct(s, S)
  OBVIOUS
<1>7. IsOnceOf(d, s, ToSet(s) \ S)
  BY <1>3, <1>6, DistinctIs
<1>8. PICK k \in Nat : d \in [1 .. k -> ToSet(s) \ S]
  BY <1>7 DEF IsOnceOf
<1>9. d \in [1 .. k -> Seq(W)]
  BY <1>4, <1>8
<1>10. MaxFallback \in Nat
  BY KeysAssumption
<1>11. Begins(Take(d, MaxFallback), d, MinOf(k, MaxFallback), Seq(W))
  BY <1>8, <1>9, <1>10, TakeIs
<1>12. MinOf(k, MaxFallback) \in Nat
  BY <1>8, <1>10 DEF MinOf
<1>13. PICK g : g = FallbackKeyPrompts(m)
  OBVIOUS
<1>14. g = Take(d, MaxFallback)
  BY <1>1, <1>3, <1>5, <1>6, <1>13, FallbackIs
<1>15. g \in Seq(Seq(W))
  BY <1>11, <1>12, <1>14 DEF Begins
<1>16. PICK p \in Seq(Seq(W)) : p = m.provided
  BY <1>0
<1>17. PICK a : a = p \o g
  OBVIOUS
<1>18. a \in Seq(Seq(W)) /\ Len(a) = Len(p) + Len(g) /\ Len(p) \in Nat /\ Len(g) \in Nat
  BY <1>15, <1>17
<1>19. /\ \A i \in 1 .. Len(p) : a[i] = p[i]
       /\ \A i \in 1 .. Len(g) : a[Len(p) + i] = g[i]
  BY <1>15, <1>17
<1>20. ASSUME NEW i \in 1 .. Len(a)
       PROVE  \/ \E j \in 1 .. Len(p) : i = j
              \/ \E j \in 1 .. Len(g) : i = Len(p) + j
  <2>1. CASE i \in 1 .. Len(p)
    BY <2>1
  <2>2. CASE i \notin 1 .. Len(p)
    <3>1. i - Len(p) \in 1 .. Len(g) /\ i = Len(p) + (i - Len(p))
      BY <1>18, <2>2
    <3> QED BY <3>1
  <2> QED BY <2>1, <2>2
<1>21. a = AllPrompts(m)
  BY <1>13, <1>16, <1>17 DEF AllPrompts
<1>22. KeyPromptsOf(m) = Take(CleanDistinct(AllPrompts(m), m.target), MaxKeys)
  BY DEF KeyPromptsOf, AllPrompts
<1> QED BY <1>13, <1>15, <1>16, <1>18, <1>19, <1>20, <1>21, <1>22

\* Only a prompt of the extractor that was careless names the answer.
LEMMA KeysAreFree ==
    ASSUME NEW W, NEW m, Texts(m, W), Discreet(m), m.target # <<>>,
           NEW key \in ToSet(KeyPromptsOf(m)), Mentions(key, m.target)
    PROVE  \E p \in ToSet(m.provided) :
               /\ Hyphen \in ToSet(p) \/ Mentions(Without(p, m.target), m.target)
               /\ key = CleanPrompt(p, m.target)
<1>0. m.provided \in Seq(Seq(W)) /\ m.target \in Seq(W) /\ MaxKeys \in Nat
  BY KeysAssumption DEF Texts
<1>1. PICK a \in Seq(Seq(W)) : a = AllPrompts(m)
  BY AllPromptsAre
<1>2. key \in ToSet(Take(CleanDistinct(a, m.target), MaxKeys))
  BY <1>1, AllPromptsAre
<1>3. PICK i \in 1 .. Len(a) : key = CleanPrompt(a[i], m.target)
  BY <1>0, <1>2, PromptsAreCleaned
<1>4. Named(key, m.target)
  BY DEF Named
<1>5. CASE \E j \in 1 .. Len(FallbackKeyPrompts(m)) : i = Len(m.provided) + j
  <2>1. PICK j \in 1 .. Len(FallbackKeyPrompts(m)) : i = Len(m.provided) + j
    BY <1>5
  <2>2. a[i] = FallbackKeyPrompts(m)[j]
    BY <1>1, <2>1, AllPromptsAre
  <2>3. PICK f \in Seq(Seq(W)) : f = FallbackKeyPrompts(m)
    BY AllPromptsAre
  <2>4. a[i] \in ToSet(FallbackKeyPrompts(m))
    BY <2>1, <2>2, <2>3 DEF ToSet
  <2> QED BY <1>3, <1>4, <2>4, FallbackFree
<1>6. CASE \E j \in 1 .. Len(m.provided) : i = j
  <2>1. i \in 1 .. Len(m.provided) /\ a[i] = m.provided[i]
    BY <1>1, <1>6, AllPromptsAre
  <2>2. PICK p \in Seq(W) : p = m.provided[i]
    BY <1>0, <2>1
  <2>3. p \in ToSet(m.provided)
    BY <1>0, <2>1, <2>2 DEF ToSet
  <2>4. key = CleanPrompt(p, m.target)
    BY <1>3, <2>1, <2>2
  <2>5. CASE Hyphen \in ToSet(p)
    BY <2>3, <2>4, <2>5
  <2>6. CASE Hyphen \notin ToSet(p)
    <3>1. CleanPrompt(p, m.target) = Without(p, m.target)
      BY <1>0, <2>6, CleanIs
    <3> QED BY <2>3, <2>4, <3>1
  <2> QED BY <2>5, <2>6
<1> QED BY <1>1, <1>5, <1>6, AllPromptsAre

----
\* The probes

\* A blank text stays blank.
LEMMA CleanNothing ==
    ASSUME NEW W, NEW phrase \in Seq(W)
    PROVE  <<>> \in Seq(W) /\ CleanPrompt(<<>>, phrase) = <<>>
<1>1. <<>> \in Seq(W) /\ Len(<<>>) = 0
  OBVIOUS
<1>2. PICK y : y = <<>>
  OBVIOUS
<1>3. y \in Seq(W) /\ Len(y) = 0 /\ 1 .. Len(y) = {} /\ DOMAIN y = {}
  BY <1>1, <1>2
<1>4. ~ Named(y, phrase)
  BY <1>3, NamedHasHead
<1>5. Hyphen \notin ToSet(y)
  BY <1>3 DEF ToSet
<1> QED BY <1>2, <1>3, <1>4, <1>5, CleanKeeps

\* What _expanded_queries begins with.
Raw(m) == m.provided \o <<m.subject, m.stem, m.text>>

\* The texts before the first probe is taken: the provided prompts, the subject,
\* the stem, the text and one more.
IsRaw(a, m, n, W) ==
    /\ n \in Nat /\ a \in Seq(Seq(W)) /\ Len(a) = n + 4
    /\ \A i \in 1 .. n : a[i] = m.provided[i]
    /\ a[n + 1] = m.subject /\ a[n + 2] = m.stem /\ a[n + 3] = m.text

\* The texts that _expanded_queries cleans.
LEMMA RawIs ==
    ASSUME NEW W, NEW m, Texts(m, W), NEW word \in Seq(W)
    PROVE  /\ Raw(m) \in Seq(Seq(W))
           /\ Append(Raw(m), word) \in Seq(Seq(W))
           /\ IsRaw(Append(Raw(m), word), m, Len(m.provided), W)
<1>0. PICK n, a : n = Len(m.provided) /\ a = Append(Raw(m), word)
  OBVIOUS
<1>1. /\ m.provided \in Seq(Seq(W)) /\ m.subject \in Seq(W)
      /\ m.stem \in Seq(W) /\ m.text \in Seq(W)
  BY DEF Texts
<1>2. PICK p \in Seq(Seq(W)) : p = m.provided
  BY <1>1
<1>3. n \in Nat /\ n = Len(p)
  BY <1>0, <1>2
<1>4. PICK t \in Seq(Seq(W)) : /\ Len(t) = 3 /\ t[1] = m.subject /\ t[2] = m.stem /\ t[3] = m.text
                               /\ t = <<m.subject, m.stem, m.text>>
  <2>1. <<m.subject, m.stem, m.text>> \in Seq(Seq(W))
    BY <1>1
  <2> QED BY <2>1
<1>5. PICK r : r = p \o t
  OBVIOUS
<1>6. r = Raw(m)
  BY <1>2, <1>4, <1>5 DEF Raw
<1>7. /\ r \in Seq(Seq(W)) /\ Len(r) = n + 3
      /\ \A i \in 1 .. n + 3 : r[i] = IF i <= n THEN p[i] ELSE t[i - n]
  BY <1>2, <1>3, <1>4, <1>5
<1>8. a = Append(r, word)
  BY <1>0, <1>6
<1>9. /\ a \in Seq(Seq(W)) /\ Len(a) = n + 4
      /\ \A i \in 1 .. n + 3 : a[i] = r[i]
  BY <1>3, <1>7, <1>8
<1>10. ASSUME NEW i \in 1 .. n PROVE a[i] = p[i]
  <2>1. i \in 1 .. n + 3 /\ i <= n
    BY <1>3
  <2> QED BY <1>7, <1>9, <2>1
<1>11. ASSUME NEW j \in 1 .. 3 PROVE a[n + j] = t[j]
  <2>1. n + j \in 1 .. n + 3 /\ ~ (n + j <= n) /\ (n + j) - n = j
    BY <1>3
  <2>2. PICK i : i = n + j
    OBVIOUS
  <2>3. a[i] = r[i] /\ r[i] = t[j]
    BY <1>7, <1>9, <2>1, <2>2
  <2> QED BY <2>2, <2>3
<1>12. a[n + 1] = t[1] /\ a[n + 2] = t[2] /\ a[n + 3] = t[3]
  <2>1. PICK one \in 1 .. 3, two \in 1 .. 3, three \in 1 .. 3 : one = 1 /\ two = 2 /\ three = 3
    OBVIOUS
  <2>2. a[n + one] = t[one] /\ a[n + two] = t[two] /\ a[n + three] = t[three]
    BY <1>11
  <2> QED BY <2>1, <2>2
<1>13. \A i \in 1 .. n : a[i] = m.provided[i]
  BY <1>2, <1>10
<1>14. a[n + 1] = m.subject /\ a[n + 2] = m.stem /\ a[n + 3] = m.text
  BY <1>4, <1>12
<1>15. IsRaw(a, m, n, W)
  BY <1>3, <1>9, <1>13, <1>14 DEF IsRaw
<1> QED BY <1>0, <1>6, <1>7, <1>9, <1>15

\* The n texts that the planner takes its words from.
Chunks(chunks, n, W) == n \in Nat /\ chunks \in [1 .. n -> Seq(W)]

\* The words of a keyword prompt of the planner are those of the texts.
LEMMA PlannerWords ==
    ASSUME NEW W, NEW n, NEW chunks, Chunks(chunks, n, W), NEW word \in PlannerKeywords(chunks)
    PROVE  /\ word \in Seq(W)
           /\ ToSet(word) \subseteq UNION {Tokens(chunks[i]) : i \in 1 .. n}
<1> DEFINE all == UNION {Tokens(chunks[i]) : i \in DOMAIN chunks}
<1>0. n \in Nat /\ chunks \in [1 .. n -> Seq(W)]
  BY DEF Chunks
<1>1. PICK p \in SetToSeqs(all) : word = Take(p, KeywordWords)
  BY Zenon DEF PlannerKeywords
<1>2. DOMAIN chunks = 1 .. n
  BY <1>0
<1>3. all \subseteq W
  <2>1. ASSUME NEW i \in 1 .. n PROVE Tokens(chunks[i]) \subseteq W
    <3>1. PICK y \in Seq(W) : y = chunks[i]
      BY <1>0
    <3>2. ToSet(y) \subseteq W
      BY <3>1 DEF ToSet
    <3> QED BY <3>1, <3>2 DEF Tokens
  <2> QED BY <1>2, <2>1
<1>4. IsFiniteSet(all)
  <2> DEFINE sets == {Tokens(chunks[i]) : i \in 1 .. n}
  <2>1. IsFiniteSet(sets)
    <3>1. IsFiniteSet(1 .. n)
      BY <1>0, UpToFinite
    <3>2. PICK f : f = [i \in 1 .. n |-> Tokens(chunks[i])]
      OBVIOUS
    <3>3. f \in [1 .. n -> sets] /\ sets = {f[i] : i \in 1 .. n}
      BY <3>2
    <3>4. f \in Surjection(1 .. n, sets)
      BY <3>3 DEF Surjection
    <3> QED BY <3>1, <3>4, FS_Surjection
  <2>2. ASSUME NEW T \in sets PROVE IsFiniteSet(T)
    <3>1. PICK i \in 1 .. n : T = Tokens(chunks[i])
      OBVIOUS
    <3>2. PICK y \in Seq(W) : y = chunks[i]
      BY <1>0
    <3>3. PICK k \in Nat : k = Len(y) /\ DOMAIN y = 1 .. k
      BY <3>2
    <3>4. IsFiniteSet(1 .. k)
      BY <3>3, UpToFinite
    <3>5. y \in [1 .. k -> ToSet(y)] /\ \A x \in ToSet(y) : \E j \in 1 .. k : y[j] = x
      <4>1. y = [j \in 1 .. k |-> y[j]]
        BY <3>2, <3>3
      <4> QED BY <3>3, <4>1 DEF ToSet
    <3>6. y \in Surjection(1 .. k, ToSet(y))
      BY <3>5 DEF Surjection
    <3>7. IsFiniteSet(ToSet(y))
      BY <3>4, <3>6, FS_Surjection
    <3>8. T \in SUBSET ToSet(y)
      BY <3>1, <3>2 DEF Tokens
    <3> QED BY <3>7, <3>8, FS_Subset
  <2> HIDE DEF sets
  <2>3. IsFiniteSet(UNION sets)
    BY <2>1, <2>2, FS_UNION
  <2> QED BY <1>2, <2>3 DEF sets
<1>5. all = UNION {Tokens(chunks[i]) : i \in 1 .. n}
  BY <1>2
<1> HIDE DEF all
<1>6. PICK k \in Nat : k = Cardinality(all)
  BY <1>4, FS_CardinalityType
<1>7. p \in [1 .. k -> all]
  BY <1>1, <1>6 DEF SetToSeqs
<1>8. KeywordWords \in Nat
  BY KeysAssumption
<1>9. PICK l : l = MinOf(k, KeywordWords)
  OBVIOUS
<1>10. l \in Nat
  BY <1>6, <1>8, <1>9 DEF MinOf
<1>11. Begins(Take(p, KeywordWords), p, l, all)
  BY <1>6, <1>7, <1>8, <1>9, TakeIs
<1>12. word \in [1 .. l -> all]
  BY <1>1, <1>11 DEF Begins
<1>13. word \in [1 .. l -> W]
  BY <1>3, <1>12
<1>14. word \in Seq(W)
  BY <1>10, <1>13
<1>15. ToSet(word) \subseteq all
  BY <1>12 DEF ToSet
<1> QED BY <1>5, <1>14, <1>15

\* The probes, for a keyword prompt.
LEMMA QueriesAre ==
    ASSUME NEW W, NEW m, Texts(m, W), NEW queries \in ExpandedQueries(m)
    PROVE  \E word \in Seq(W) :
               /\ queries = Take(CleanDistinct(Append(Raw(m), word), m.target), MaxKeys)
               /\ ToSet(word) \subseteq
                      UNION {Tokens(CleanPrompt(Raw(m)[i], m.target)) : i \in 1 .. Len(Raw(m))}
<1>1. PICK r \in Seq(Seq(W)) : r = Raw(m)
  <2>1. PICK word \in Seq(W) : word = m.text
    BY DEF Texts
  <2> QED BY RawIs
<1>2. PICK c : c = Cleaned(r, m.target)
  OBVIOUS
<1>3. PICK word \in PlannerKeywords(c) :
        queries = Take(CleanDistinct(Append(r, word), m.target), MaxKeys)
  BY <1>1, <1>2, Zenon DEF ExpandedQueries, Raw, Cleaned
<1>4. m.target \in Seq(W)
  BY DEF Texts
<1>5. PICK n \in Nat : n = Len(r)
  BY <1>1
<1>6. /\ DOMAIN c = 1 .. n /\ \A i \in 1 .. n : r[i] \in Seq(W)
      /\ \A i \in 1 .. n : c[i] = CleanPrompt(r[i], m.target)
  BY <1>1, <1>2, <1>4, <1>5, CleanedIs
<1>7. \A i \in 1 .. n : c[i] \in Seq(W)
  BY <1>4, <1>6, CleanWords
<1>8. c = [i \in 1 .. n |-> c[i]]
  BY <1>2, <1>6 DEF Cleaned
<1>9. Chunks(c, n, W)
  BY <1>5, <1>7, <1>8 DEF Chunks
<1>10. word \in Seq(W) /\ ToSet(word) \subseteq UNION {Tokens(c[i]) : i \in 1 .. n}
  BY <1>3, <1>9, PlannerWords
<1>11. {Tokens(c[i]) : i \in 1 .. n} = {Tokens(CleanPrompt(r[i], m.target)) : i \in 1 .. n}
  BY <1>6
<1> QED BY <1>1, <1>3, <1>5, <1>10, <1>11

----
\* A probe is a key

\* A subject that is its own keyword prompt.
Plain(m) ==
    /\ \A p, q \in DOMAIN m.subject : m.subject[p] = m.subject[q] => p = q
    /\ Len(m.subject) <= KeywordWords
    /\ Hyphen \notin ToSet(m.subject)
    /\ ToSet(m.subject) \intersect KeyStopwords = {}

\* A subject that does not open the answer is not changed by cleaning.
LEMMA SubjectStays ==
    ASSUME NEW W, NEW m, Texts(m, W), Discreet(m), Plain(m)
    PROVE  CleanPrompt(m.subject, m.target) = m.subject
<1>1. m.subject \in Seq(W) /\ m.target \in Seq(W) /\ Hyphen \notin ToSet(m.subject)
  BY DEF Texts, Plain
<1>2. ~ Named(m.subject, m.target)
  <2> SUFFICES ASSUME Named(m.subject, m.target) PROVE FALSE
    OBVIOUS
  <2>1. PICK i \in 1 .. Len(m.subject) : m.subject[i] = m.target[1]
    BY <1>1, NamedHasHead
  <2>2. m.target # <<>>
    BY DEF Named
  <2>3. m.target[1] \in ToSet(m.subject)
    BY <1>1, <2>1 DEF ToSet
  <2> QED BY <2>2, <2>3 DEF Discreet
<1> QED BY <1>1, <1>2, CleanKeeps

\* Alone, it is the keyword prompt.
LEMMA SubjectIsKeyword ==
    ASSUME NEW W, NEW m, Texts(m, W), Discreet(m), Plain(m),
           CleanPrompt(m.stem, m.target) = <<>>, CleanPrompt(m.text, m.target) = <<>>
    PROVE  Keyword(m) = m.subject
<1>1. PICK s \in Seq(W) : s = m.subject
  BY DEF Texts
<1>2. PICK N \in Nat : N = Len(s) /\ DOMAIN s = 1 .. N /\ s = [r \in 1 .. N |-> s[r]]
  BY <1>1
<1>3. AllWords(m) = s
  <2>1. Subject(m) = s
    BY <1>1, SubjectStays DEF Subject
  <2>2. AllWords(m) = s \o <<>> \o <<>>
    BY <2>1 DEF AllWords
  <2>3. s \o <<>> = s
    BY <1>1
  <2> QED BY <2>2, <2>3
<1>4. ASSUME NEW i \in 1 .. N PROVE s[i] \notin Skipped(m)
  <2>1. s[i] \in ToSet(s)
    BY <1>2 DEF ToSet
  <2>2. s[i] \notin KeyStopwords
    BY <1>1, <2>1 DEF Plain
  <2>3. ASSUME Len(m.target) = 1 PROVE s[i] \notin ToSet(m.target)
    <3>1. PICK t \in Seq(W) : t = m.target
      BY DEF Texts
    <3>2. t # <<>> /\ DOMAIN t = 1 .. 1
      <4>1. PICK k \in Nat : k = Len(t) /\ DOMAIN t = 1 .. k
        BY <3>1
      <4>2. k = 1
        BY <2>3, <3>1, <4>1
      <4>3. Len(<<>>) = 0
        OBVIOUS
      <4>4. t # <<>>
        BY <4>1, <4>2, <4>3
      <4> QED BY <4>1, <4>2, <4>4
    <3>3. ToSet(t) = {t[1]}
      BY <3>2 DEF ToSet
    <3>4. t[1] \notin ToSet(s)
      BY <1>1, <3>1, <3>2 DEF Discreet
    <3> QED BY <2>1, <3>1, <3>3, <3>4
  <2> QED BY <2>2, <2>3 DEF Skipped
<1>5. News(s, Skipped(m)) = 1 .. N
  <2>1. ASSUME NEW i \in 1 .. N, NEW j \in 1 .. i - 1 PROVE s[j] # s[i]
    <3>1. j \in 1 .. N /\ j # i
      BY <1>2
    <3> QED BY <1>1, <1>2, <3>1 DEF Plain
  <2> QED BY <1>2, <1>4, <2>1 DEF News
<1>6. Distinct(s, Skipped(m)) = s
  <2>1. PICK S : S = Skipped(m)
    OBVIOUS
  <2>2. Distinct(s, S) = Picked(s, News(s, S))
    BY <1>2, DistinctIs
  <2>3. Picked(s, 1 .. N) = s
    BY <1>2, PickedAll
  <2> QED BY <1>5, <2>1, <2>2, <2>3
<1>7. Take(s, KeywordWords) = s
  <2>1. N <= KeywordWords /\ KeywordWords \in Nat
    BY <1>1, <1>2, KeysAssumption DEF Plain
  <2>2. s \in [1 .. N -> W]
    BY <1>1, <1>2
  <2>3. Begins(Take(s, KeywordWords), s, MinOf(N, KeywordWords), W)
    BY <1>2, <2>1, <2>2, TakeIs
  <2>4. MinOf(N, KeywordWords) = N
    BY <1>2, <2>1 DEF MinOf
  <2>5. /\ Take(s, KeywordWords) = [r \in 1 .. N |-> Take(s, KeywordWords)[r]]
        /\ \A r \in 1 .. N : Take(s, KeywordWords)[r] = s[r]
    BY <2>3, <2>4 DEF Begins
  <2> QED BY <1>2, <2>5
<1> QED BY <1>1, <1>3, <1>6, <1>7 DEF Keyword

\* What the extractor provided, when all of it is blank.
NothingProvided(m) ==
    \A i \in 1 .. Len(m.provided) : CleanPrompt(m.provided[i], m.target) = <<>>

\* Then the first fallback is a key prompt.
LEMMA FallbackStays ==
    ASSUME NEW W, NEW m, Texts(m, W), NothingProvided(m), NEW i \in 1 .. 3,
           NEW z, z # <<>>, CleanPrompt(Fallbacks(m)[i], m.target) = z,
           CleanPrompt(z, m.target) = z,
           \A j \in 1 .. i - 1 : CleanPrompt(Fallbacks(m)[j], m.target) = <<>>
    PROVE  z \in ToSet(KeyPromptsOf(m))
<1>0. m.target \in Seq(W) /\ m.provided \in Seq(Seq(W))
  BY DEF Texts
<1>1. PICK f \in Seq(Seq(W)) : f = Fallbacks(m)
  BY FallbacksAre
<1>2. i \in 1 .. Len(f)
  <2>1. Len(f) >= 3 /\ Len(f) \in Nat
    BY <1>1, FallbacksAre
  <2> QED BY <2>1
<1>3. PICK g \in Seq(Seq(W)) : g = FallbackKeyPrompts(m)
  BY AllPromptsAre
<1>4. 1 \in DOMAIN g /\ g[1] = z
  <2>1. MaxFallback \in Nat \ {0}
    BY KeysAssumption
  <2>2. PICK taken : taken = Take(CleanDistinct(f, m.target), MaxFallback)
    OBVIOUS
  <2>3. CleanPrompt(f[i], m.target) = z /\ \A j \in 1 .. i - 1 : CleanPrompt(f[j], m.target) = <<>>
    BY <1>1
  <2>4. CleanPrompt(f[i], m.target) # <<>>
    BY <2>3
  <2>5. 1 \in DOMAIN taken /\ taken[1] = CleanPrompt(f[i], m.target)
    <3>1. PICK t \in Seq(W) : t = m.target
      BY <1>0
    <3>2. \A j \in 1 .. i - 1 : CleanPrompt(f[j], t) = <<>>
      BY <2>3, <3>1
    <3>3. PICK q \in 1 .. Len(f) : q = i
      BY <1>2
    <3>4. CleanPrompt(f[q], t) # <<>> /\ \A j \in 1 .. q - 1 : CleanPrompt(f[j], t) = <<>>
      BY <2>4, <3>1, <3>2, <3>3
    <3>5. /\ 1 \in DOMAIN Take(CleanDistinct(f, t), MaxFallback)
          /\ Take(CleanDistinct(f, t), MaxFallback)[1] = CleanPrompt(f[q], t)
      BY <2>1, <3>4, FirstPrompt
    <3> QED BY <2>2, <3>1, <3>3, <3>5
  <2>6. FallbackKeyPrompts(m) = taken
    BY <1>1, <2>2, FallbackIs
  <2> QED BY <1>3, <2>3, <2>5, <2>6
<1>5. PICK a \in Seq(Seq(W)) : a = AllPrompts(m)
  BY AllPromptsAre
<1>6. PICK n \in Nat : n = Len(m.provided)
  BY <1>0
<1>7. /\ Len(a) = n + Len(g) /\ Len(g) \in Nat
      /\ \A j \in 1 .. n : a[j] = m.provided[j]
      /\ \A j \in 1 .. Len(g) : a[n + j] = g[j]
  <2>1. Len(a) = n + Len(g) /\ Len(g) \in Nat
    BY <1>3, <1>5, <1>6, AllPromptsAre
  <2>2. \A j \in 1 .. n : a[j] = m.provided[j]
    BY <1>5, <1>6, AllPromptsAre
  <2>3. ASSUME NEW j \in 1 .. Len(g) PROVE a[n + j] = g[j]
    BY <1>3, <1>5, <1>6, AllPromptsAre
  <2> QED BY <2>1, <2>2, <2>3
<1>8. 1 \in 1 .. Len(g) /\ n + 1 \in 1 .. Len(a)
  BY <1>3, <1>4, <1>7
<1>9. CleanPrompt(a[n + 1], m.target) = z
  BY <1>4, <1>7, <1>8
<1>10. \A j \in 1 .. n + 1 - 1 : CleanPrompt(a[j], m.target) = <<>>
  <2>1. 1 .. n + 1 - 1 = 1 .. n
    BY <1>6
  <2> QED BY <1>6, <1>7, <2>1 DEF NothingProvided
<1>11. MaxKeys \in Nat \ {0}
  BY KeysAssumption
<1>12. PICK i0 \in 1 .. Len(a) : i0 = n + 1
  BY <1>8
<1>13. CleanPrompt(a[i0], m.target) = z
  BY <1>9, <1>12
<1>14. \A j \in 1 .. i0 - 1 : CleanPrompt(a[j], m.target) = <<>>
  BY <1>10, <1>12
<1>15. z \in ToSet(Take(CleanDistinct(a, m.target), MaxKeys))
  BY <1>0, <1>11, <1>13, <1>14, FirstPrompt
<1> QED BY <1>5, <1>15, AllPromptsAre

\* The first prompt of the extractor that is not blank is a key prompt, and a probe.
LEMMA ProvidedMeets ==
    ASSUME NEW W, NEW m, Texts(m, W), ~ NothingProvided(m), NEW queries \in ExpandedQueries(m)
    PROVE  ToSet(queries) \intersect ToSet(KeyPromptsOf(m)) # {}
<1>0. m.target \in Seq(W) /\ m.provided \in Seq(Seq(W)) /\ MaxKeys \in Nat \ {0}
  BY KeysAssumption DEF Texts
<1>1. PICK n \in Nat : n = Len(m.provided)
  BY <1>0
<1> DEFINE T == {i \in 1 .. n : CleanPrompt(m.provided[i], m.target) # <<>>}
<1>2. /\ T \subseteq Nat /\ T # {}
      /\ \A i : i \in T <=> i \in 1 .. n /\ CleanPrompt(m.provided[i], m.target) # <<>>
  BY <1>1 DEF NothingProvided
<1> HIDE DEF T
<1>3. PICK i \in T : \A j \in T : i <= j
  BY <1>2, LeastNumber
<1>4. i \in 1 .. n
  BY <1>2
<1>5. ASSUME NEW j \in 1 .. i - 1
      PROVE  j \in 1 .. n /\ CleanPrompt(m.provided[j], m.target) = <<>>
  <2>1. j \in 1 .. n /\ ~ (i <= j)
    BY <1>1, <1>4
  <2> QED BY <1>2, <1>3, <2>1
<1>6. PICK z : z = CleanPrompt(m.provided[i], m.target)
  OBVIOUS
<1>7. z # <<>>
  BY <1>2, <1>6
<1>8. ASSUME NEW a \in Seq(Seq(W)), Len(a) >= n, \A j \in 1 .. n : a[j] = m.provided[j]
      PROVE  z \in ToSet(Take(CleanDistinct(a, m.target), MaxKeys))
  <2>1. i \in 1 .. Len(a)
    BY <1>1, <1>4, <1>8
  <2>2. CleanPrompt(a[i], m.target) = z
    BY <1>4, <1>6, <1>8
  <2>3. \A j \in 1 .. i - 1 : CleanPrompt(a[j], m.target) = <<>>
    BY <1>5, <1>8
  <2> QED BY <1>0, <1>7, <2>1, <2>2, <2>3, FirstPrompt
<1>9. z \in ToSet(KeyPromptsOf(m))
  <2>1. PICK a \in Seq(Seq(W)) : a = AllPrompts(m)
    BY AllPromptsAre
  <2>2. PICK g \in Seq(Seq(W)) : g = FallbackKeyPrompts(m)
    BY AllPromptsAre
  <2>3. Len(a) = n + Len(g) /\ Len(g) \in Nat /\ \A j \in 1 .. n : a[j] = m.provided[j]
    BY <1>1, <2>1, <2>2, AllPromptsAre
  <2>4. Len(a) >= n
    BY <1>1, <2>3
  <2>5. z \in ToSet(Take(CleanDistinct(a, m.target), MaxKeys))
    BY <1>8, <2>3, <2>4
  <2> QED BY <2>1, <2>5, AllPromptsAre
<1>10. z \in ToSet(queries)
  <2>1. PICK word \in Seq(W) :
          queries = Take(CleanDistinct(Append(Raw(m), word), m.target), MaxKeys)
    BY QueriesAre
  <2>2. PICK a : a = Append(Raw(m), word)
    OBVIOUS
  <2>3. a \in Seq(Seq(W)) /\ Len(a) = n + 4 /\ \A j \in 1 .. n : a[j] = m.provided[j]
    <3>1. IsRaw(a, m, n, W)
      BY <1>1, <2>2, RawIs
    <3> QED BY <3>1 DEF IsRaw
  <2>4. Len(a) >= n
    BY <1>1, <2>3
  <2> QED BY <1>8, <2>1, <2>2, <2>3, <2>4
<1> QED BY <1>9, <1>10

\* A text of a memory nests the answer.
Nested(m) ==
    \E p \in {m.subject, m.stem, m.text} \union ToSet(m.provided) :
        Named(CleanPrompt(p, m.target), m.target)

\* A text that is cleaned does not change any more, unless it nests the answer.
LEMMA CleanTwice ==
    ASSUME NEW W, NEW y \in Seq(W), NEW phrase \in Seq(W), ~ Named(CleanPrompt(y, phrase), phrase)
    PROVE  CleanPrompt(CleanPrompt(y, phrase), phrase) = CleanPrompt(y, phrase)
<1>1. PICK c \in Seq(W) : c = CleanPrompt(y, phrase) /\ Hyphen \notin ToSet(c)
  BY CleanWords
<1> QED BY <1>1, CleanKeeps

\* The stem, or the text when the stem is blank, is a key prompt and the second probe.
LEMMA TextMeets ==
    ASSUME NEW W, NEW m, Texts(m, W), NothingProvided(m), NEW i \in 2 .. 3, NEW y,
           y = IF i = 2 THEN m.stem ELSE m.text,
           i = 3 => CleanPrompt(m.stem, m.target) = <<>>,
           CleanPrompt(y, m.target) # <<>>, ~ Named(CleanPrompt(y, m.target), m.target),
           NEW queries \in ExpandedQueries(m)
    PROVE  ToSet(queries) \intersect ToSet(KeyPromptsOf(m)) # {}
<1>0. /\ m.target \in Seq(W) /\ m.provided \in Seq(Seq(W)) /\ MaxKeys \in Nat \ {0, 1}
      /\ y \in Seq(W)
  BY KeysAssumption DEF Texts
<1>1. PICK z : z = CleanPrompt(y, m.target)
  OBVIOUS
<1>2. z # <<>> /\ CleanPrompt(z, m.target) = z
  BY <1>0, <1>1, CleanTwice
<1>3. z \in ToSet(KeyPromptsOf(m))
  <2>1. /\ Fallbacks(m)[1] = CleanPrompt(m.stem, m.target)
        /\ Fallbacks(m)[2] = CleanPrompt(m.text, m.target)
    BY FallbacksAre
  <2>2. CASE i = 2
    <3>1. CleanPrompt(Fallbacks(m)[1], m.target) = z
      BY <1>1, <1>2, <2>1, <2>2
    <3>2. 1 \in 1 .. 3 /\ \A j \in 1 .. 1 - 1 : CleanPrompt(Fallbacks(m)[j], m.target) = <<>>
      OBVIOUS
    <3> QED BY <1>2, <3>1, <3>2, FallbackStays
  <2>3. CASE i = 3
    <3>1. CleanPrompt(Fallbacks(m)[2], m.target) = z
      BY <1>1, <1>2, <2>1, <2>3
    <3>2. CleanPrompt(Fallbacks(m)[1], m.target) = <<>>
      BY <1>0, <2>1, <2>3, CleanNothing
    <3>3. 2 \in 1 .. 3 /\ \A j \in 1 .. 2 - 1 : CleanPrompt(Fallbacks(m)[j], m.target) = <<>>
      <4>1. \A j \in 1 .. 2 - 1 : j = 1
        OBVIOUS
      <4> QED BY <3>2, <4>1
    <3> QED BY <1>2, <3>1, <3>3, FallbackStays
  <2> QED BY <2>2, <2>3
<1>4. z \in ToSet(queries)
  <2>1. PICK word \in Seq(W) :
          queries = Take(CleanDistinct(Append(Raw(m), word), m.target), MaxKeys)
    BY QueriesAre
  <2>2. PICK a : a = Append(Raw(m), word)
    OBVIOUS
  <2>3. PICK n \in Nat : n = Len(m.provided)
    BY <1>0
  <2>4. /\ a \in Seq(Seq(W)) /\ Len(a) = n + 4
        /\ \A j \in 1 .. n : a[j] = m.provided[j]
        /\ a[n + 1] = m.subject /\ a[n + 2] = m.stem /\ a[n + 3] = m.text
    <3>1. IsRaw(a, m, n, W)
      BY <2>2, <2>3, RawIs
    <3> QED BY <3>1 DEF IsRaw
  <2>5. PICK v : v = CleanPrompt(m.subject, m.target)
    OBVIOUS
  <2>6. PICK k \in 1 .. Len(a) : k = n + i
    <3>1. n + i \in 1 .. Len(a)
      BY <2>3, <2>4
    <3> QED BY <3>1
  <2>7. a[k] = y
    BY <2>4, <2>6
  <2>8. ASSUME NEW j \in 1 .. k - 1 PROVE CleanPrompt(a[j], m.target) \in {<<>>, v}
    <3>1. CASE j \in 1 .. n
      <4>1. CleanPrompt(m.provided[j], m.target) = <<>>
        BY <2>3, <3>1 DEF NothingProvided
      <4> QED BY <2>4, <3>1, <4>1
    <3>2. CASE j \notin 1 .. n
      <4>1. j = n + 1 \/ (j = n + 2 /\ i = 3)
        BY <2>3, <2>6, <3>2
      <4>2. CASE j = n + 1
        BY <2>4, <2>5, <4>2
      <4>3. CASE j = n + 2 /\ i = 3
        BY <2>4, <4>3
      <4> QED BY <4>1, <4>2, <4>3
    <3> QED BY <3>1, <3>2
  <2>9. CleanPrompt(a[k], m.target) = z
    BY <1>1, <2>7
  <2>10. CleanPrompt(a[k], m.target) # <<>>
    BY <1>2, <2>9
  <2>11. CleanPrompt(a[k], m.target) \in ToSet(Take(CleanDistinct(a, m.target), MaxKeys))
    BY <1>0, <2>4, <2>8, <2>10, SecondPrompt
  <2> QED BY <2>1, <2>2, <2>9, <2>11
<1> QED BY <1>3, <1>4

\* Otherwise it is the subject, of which the keyword prompt then consists.
LEMMA SubjectMeets ==
    ASSUME NEW W, NEW m, Texts(m, W), Discreet(m), Plain(m), NothingProvided(m),
           CleanPrompt(m.stem, m.target) = <<>>, CleanPrompt(m.text, m.target) = <<>>,
           m.subject # <<>>, NEW queries \in ExpandedQueries(m)
    PROVE  ToSet(queries) \intersect ToSet(KeyPromptsOf(m)) # {}
<1>0. m.target \in Seq(W) /\ m.provided \in Seq(Seq(W)) /\ MaxKeys \in Nat \ {0}
  BY KeysAssumption DEF Texts
<1>1. PICK z : z = m.subject
  OBVIOUS
<1>2. z # <<>> /\ CleanPrompt(z, m.target) = z
  BY <1>1, SubjectStays
<1>3. z \in ToSet(KeyPromptsOf(m))
  <2>1. /\ Fallbacks(m)[1] = <<>> /\ Fallbacks(m)[2] = <<>>
        /\ Fallbacks(m)[3] = z
    BY <1>1, FallbacksAre, SubjectIsKeyword
  <2>2. CleanPrompt(<<>>, m.target) = <<>>
    BY <1>0, CleanNothing
  <2>3. CleanPrompt(Fallbacks(m)[3], m.target) = z
    BY <1>2, <2>1
  <2>4. 3 \in 1 .. 3 /\ \A j \in 1 .. 3 - 1 : CleanPrompt(Fallbacks(m)[j], m.target) = <<>>
    <3>1. \A j \in 1 .. 3 - 1 : j = 1 \/ j = 2
      OBVIOUS
    <3> QED BY <2>1, <2>2, <3>1
  <2> QED BY <1>2, <2>3, <2>4, FallbackStays
<1>4. z \in ToSet(queries)
  <2>1. PICK word \in Seq(W) :
          queries = Take(CleanDistinct(Append(Raw(m), word), m.target), MaxKeys)
    BY QueriesAre
  <2>2. PICK a : a = Append(Raw(m), word)
    OBVIOUS
  <2>3. PICK n \in Nat : n = Len(m.provided)
    BY <1>0
  <2>4. /\ a \in Seq(Seq(W)) /\ Len(a) = n + 4
        /\ \A j \in 1 .. n : a[j] = m.provided[j]
        /\ a[n + 1] = z
    <3>1. IsRaw(a, m, n, W)
      BY <2>2, <2>3, RawIs
    <3> QED BY <1>1, <3>1 DEF IsRaw
  <2>5. PICK k \in 1 .. Len(a) : k = n + 1
    <3>1. n + 1 \in 1 .. Len(a)
      BY <2>3, <2>4
    <3> QED BY <3>1
  <2>6. CleanPrompt(a[k], m.target) = z
    BY <1>2, <2>4, <2>5
  <2>7. ASSUME NEW j \in 1 .. k - 1 PROVE CleanPrompt(a[j], m.target) = <<>>
    <3>1. j \in 1 .. n
      BY <2>3, <2>5
    <3>2. CleanPrompt(m.provided[j], m.target) = <<>>
      BY <2>3, <3>1 DEF NothingProvided
    <3> QED BY <2>4, <3>1, <3>2
  <2>8. CleanPrompt(a[k], m.target) # <<>>
    BY <1>2, <2>6
  <2>9. CleanPrompt(a[k], m.target) \in ToSet(Take(CleanDistinct(a, m.target), MaxKeys))
    BY <1>0, <2>4, <2>7, <2>8, FirstPrompt
  <2> QED BY <2>1, <2>2, <2>6, <2>9
<1> QED BY <1>3, <1>4

\* A memory without any text has no key prompt.
LEMMA NothingIsKey ==
    ASSUME NEW W, NEW m, Texts(m, W), NothingProvided(m), m.subject = <<>>,
           CleanPrompt(m.stem, m.target) = <<>>, CleanPrompt(m.text, m.target) = <<>>
    PROVE  KeyPromptsOf(m) = <<>>
<1> SUFFICES ASSUME KeyPromptsOf(m) # <<>> PROVE FALSE
  OBVIOUS
<1>0. /\ m.target \in Seq(W) /\ m.provided \in Seq(Seq(W)) /\ MaxKeys \in Nat /\ MaxFallback \in Nat
      /\ KeywordWords \in Nat
  BY KeysAssumption DEF Texts
<1>1. Subject(m) = <<>>
  BY <1>0, CleanNothing DEF Subject
<1>2. Keyword(m) = <<>>
  <2>1. PICK s : s = <<>>
    OBVIOUS
  <2>2. AllWords(m) = s
    BY <1>1, <2>1 DEF AllWords
  <2>3. PICK S : S = Skipped(m)
    OBVIOUS
  <2>4. PICK N \in Nat : DOMAIN s = 1 .. N /\ N = 0
    BY <2>1
  <2>5. DOMAIN s = {}
    BY <2>4
  <2>6. News(s, S) = {}
    BY <2>5 DEF News
  <2>7. Distinct(s, S) = Picked(s, {})
    BY <2>4, <2>6, DistinctIs
  <2>8. Cardinality({}) = 0
    BY FS_EmptySet
  <2>9. PICK d : d = Picked(s, {})
    OBVIOUS
  <2>10. d = <<>>
    BY <2>8, <2>9 DEF Picked
  <2>11. Take(d, KeywordWords) = <<>>
    <3>1. d \in [1 .. 0 -> {}] /\ 0 \in Nat
      BY <2>10
    <3>2. Begins(Take(d, KeywordWords), d, MinOf(0, KeywordWords), {})
      BY <1>0, <3>1, TakeIs
    <3>3. MinOf(0, KeywordWords) = 0
      BY <1>0 DEF MinOf
    <3> QED BY <3>2, <3>3 DEF Begins
  <2> QED BY <2>2, <2>3, <2>7, <2>9, <2>11 DEF Keyword
<1>3. Scoped(m) = <<>>
  BY <1>1 DEF Scoped
<1>4. PICK f \in Seq(Seq(W)) : f = Fallbacks(m)
  BY FallbacksAre
<1>5. ASSUME NEW i \in 1 .. Len(f) PROVE f[i] = <<>>
  <2>1. i \in 1 .. 3
    BY <1>3, <1>4, FallbacksAre
  <2>2. i = 1 \/ i = 2 \/ i = 3
    BY <2>1
  <2>3. f[1] = <<>> /\ f[2] = <<>> /\ f[3] = <<>>
    BY <1>2, <1>4, FallbacksAre
  <2> QED BY <2>2, <2>3
<1>6. PICK g \in Seq(Seq(W)) : g = FallbackKeyPrompts(m)
  BY AllPromptsAre
<1>7. PICK a \in Seq(Seq(W)) : a = AllPrompts(m)
  BY AllPromptsAre
<1>8. PICK i \in 1 .. Len(a) : CleanPrompt(a[i], m.target) # <<>>
  <2>1. Take(CleanDistinct(a, m.target), MaxKeys) # <<>>
    BY <1>7, AllPromptsAre
  <2> QED BY <1>0, <2>1, SomePrompt
<1>9. CASE \E j \in 1 .. Len(m.provided) : i = j
  <2>1. i \in 1 .. Len(m.provided) /\ a[i] = m.provided[i]
    BY <1>7, <1>9, AllPromptsAre
  <2> QED BY <1>8, <2>1 DEF NothingProvided
<1>10. CASE \E j \in 1 .. Len(g) : i = Len(m.provided) + j
  <2>1. PICK j \in 1 .. Len(g) : i = Len(m.provided) + j
    BY <1>10
  <2>2. a[i] = g[j]
    BY <1>6, <1>7, <2>1, AllPromptsAre
  <2>3. g[j] \in ToSet(g)
    BY <2>1 DEF ToSet
  <2>4. g[j] \in ToSet(Take(CleanDistinct(f, m.target), MaxFallback))
    BY <1>4, <1>6, <2>3, FallbackIs
  <2>5. g[j] # <<>> /\ \E q \in 1 .. Len(f) : g[j] = CleanPrompt(f[q], m.target)
    <3>1. PICK x : x = g[j]
      OBVIOUS
    <3>2. PICK t \in Seq(W) : t = m.target
      BY <1>0
    <3>3. x \in ToSet(Take(CleanDistinct(f, t), MaxFallback))
      BY <2>4, <3>1, <3>2
    <3>4. x # <<>> /\ \E q \in 1 .. Len(f) : x = CleanPrompt(f[q], t)
      BY <1>0, <3>3, PromptsAreCleaned
    <3> QED BY <3>1, <3>2, <3>4
  <2>6. CleanPrompt(<<>>, m.target) = <<>>
    BY <1>0, CleanNothing
  <2> QED BY <1>5, <2>5, <2>6
<1> QED BY <1>6, <1>7, <1>9, <1>10, AllPromptsAre

\* A probe is a key prompt.
LEMMA ProbesMeet ==
    ASSUME NEW W, NEW m, Texts(m, W), Discreet(m), Plain(m), KeyPromptsOf(m) # <<>>,
           ~ Nested(m), NEW queries \in ExpandedQueries(m)
    PROVE  ToSet(queries) \intersect ToSet(KeyPromptsOf(m)) # {}
<1>1. CASE ~ NothingProvided(m)
  BY <1>1, ProvidedMeets
<1>2. CASE NothingProvided(m)
  <2>1. /\ ~ Named(CleanPrompt(m.stem, m.target), m.target)
        /\ ~ Named(CleanPrompt(m.text, m.target), m.target)
    BY DEF Nested
  <2>2. PICK two, three : two = 2 /\ three = 3 /\ two \in 2 .. 3 /\ three \in 2 .. 3
    OBVIOUS
  <2>3. CASE CleanPrompt(m.stem, m.target) # <<>>
    <3>1. PICK y : y = m.stem /\ y = (IF two = 2 THEN m.stem ELSE m.text)
      BY <2>2
    <3>2. two = 3 => CleanPrompt(m.stem, m.target) = <<>>
      BY <2>2
    <3> QED BY <1>2, <2>1, <2>2, <2>3, <3>1, <3>2, TextMeets
  <2>4. CASE CleanPrompt(m.stem, m.target) = <<>> /\ CleanPrompt(m.text, m.target) # <<>>
    <3>1. PICK y : y = m.text /\ y = (IF three = 2 THEN m.stem ELSE m.text)
      BY <2>2
    <3>2. three = 3 => CleanPrompt(m.stem, m.target) = <<>>
      BY <2>4
    <3> QED BY <1>2, <2>1, <2>2, <2>4, <3>1, <3>2, TextMeets
  <2>5. CASE CleanPrompt(m.stem, m.target) = <<>> /\ CleanPrompt(m.text, m.target) = <<>>
    <3>1. m.subject # <<>>
      BY <1>2, <2>5, NothingIsKey
    <3> QED BY <1>2, <2>5, <3>1, SubjectMeets
  <2> QED BY <2>3, <2>4, <2>5
<1> QED BY <1>1, <1>2

----
\* The order of the keywords

\* The words of the prompts that are taken.
TokensOf(prompts) == UNION {Tokens(x) : x \in ToSet(prompts)}

\* The words of the first n of different cleaned texts.
TokensOfFirst(c, n) ==
    UNION {Tokens(c[i]) : i \in {j \in News(c, {<<>>}) :
                                     Cardinality(Before(Earlier, News(c, {<<>>}), j)) < n}}

\* s has one text more than c.
OneLonger(s, c, n) ==
    /\ n \in Nat /\ DOMAIN c = 1 .. n /\ DOMAIN s = 1 .. n + 1
    /\ \A i \in 1 .. n : s[i] = c[i]

\* A text that is made of words of the others does not add a word, although it
\* is taken when there is room for it.
LEMMA OneMoreAddsNothing ==
    ASSUME NEW c, NEW s, NEW n, OneLonger(s, c, n), NEW k \in Nat,
           Tokens(s[n + 1]) \subseteq UNION {Tokens(c[i]) : i \in 1 .. n}
    PROVE  TokensOf(Take(Distinct(s, {<<>>}), k)) = TokensOfFirst(c, k)
<1> DEFINE S == {<<>>}
           P == News(s, S)
           Q == News(c, S)
           rank(i) == Cardinality(Before(Earlier, P, i))
           rankC(i) == Cardinality(Before(Earlier, Q, i))
<1>1. /\ n \in Nat /\ DOMAIN c = 1 .. n /\ DOMAIN s = 1 .. n + 1
      /\ \A i \in 1 .. n : s[i] = c[i]
  BY DEF OneLonger
<1>2. \A i : i \in P <=> i \in 1 .. n + 1 /\ s[i] \notin S /\ \A j \in 1 .. i - 1 : s[j] # s[i]
  BY <1>1 DEF News
<1>3. \A i : i \in Q <=> i \in 1 .. n /\ c[i] \notin S /\ \A j \in 1 .. i - 1 : c[j] # c[i]
  BY <1>1 DEF News
<1>4. IsFiniteSet(P) /\ P \subseteq Int /\ IsFiniteSet(Q) /\ Q \subseteq Int
  <2>1. IsFiniteSet(P) /\ P \subseteq Int
    <3>1. PICK N \in Nat : N = n + 1
      BY <1>1
    <3>2. DOMAIN s = 1 .. N
      BY <1>1, <3>1
    <3> HIDE DEF S
    <3> QED BY <3>2, DistinctIs
  <2>2. IsFiniteSet(Q) /\ Q \subseteq Int
    BY <1>1, DistinctIs
  <2> QED BY <2>1, <2>2
<1>5. \A x : x \in ToSet(Take(Distinct(s, S), k)) <=> \E i \in P : x = s[i] /\ rank(i) < k
  BY <1>1, DistinctTaken
<1> HIDE DEF S, P, Q
<1>6. ASSUME NEW i \in 1 .. n PROVE i \in P <=> i \in Q
  <2>1. i \in 1 .. n + 1 /\ \A j \in 1 .. i - 1 : j \in 1 .. n
    BY <1>1
  <2>2. s[i] = c[i] /\ \A j \in 1 .. i - 1 : s[j] = c[j]
    BY <1>1, <2>1
  <2> QED BY <1>2, <1>3, <2>1, <2>2
<1>7. ASSUME NEW i \in 1 .. n PROVE rank(i) = rankC(i)
  <2>1. ASSUME NEW j PROVE j \in P /\ j < i <=> j \in Q /\ j < i
    <3>1. CASE j \in 1 .. n
      BY <1>6, <3>1
    <3>2. CASE j \notin 1 .. n
      <4>1. j \notin Q
        BY <1>3, <3>2
      <4>2. ASSUME j \in P, j < i PROVE FALSE
        <5>1. j \in 1 .. n + 1
          BY <1>2, <4>2
        <5> QED BY <1>1, <3>2, <4>2, <5>1
      <4> QED BY <4>1, <4>2
    <3> QED BY <3>1, <3>2
  <2>2. \A j : j \in Before(Earlier, P, i) <=> j \in P /\ j < i
    BY <1>1, <1>4 DEF Before, Earlier
  <2>3. \A j : j \in Before(Earlier, Q, i) <=> j \in Q /\ j < i
    BY <1>1, <1>4 DEF Before, Earlier
  <2>4. Before(Earlier, P, i) = Before(Earlier, Q, i)
    BY <2>1, <2>2, <2>3
  <2> QED BY <2>4
<1> DEFINE U == UNION {Tokens(c[i]) : i \in {j \in Q : rankC(j) < k}}
<1>8. \A w : w \in U <=> \E i \in Q : rankC(i) < k /\ w \in Tokens(c[i])
  OBVIOUS
<1>9. \A w : w \in TokensOf(Take(Distinct(s, S), k)) <=>
                 \E i \in P : rank(i) < k /\ w \in Tokens(s[i])
  BY <1>5 DEF TokensOf
<1>10. \A i \in Q : i \in 1 .. n /\ i \in P /\ s[i] = c[i] /\ rank(i) = rankC(i)
  BY <1>1, <1>3, <1>6, <1>7
<1> HIDE DEF U, rank, rankC
<1>11. ASSUME NEW i \in P, rank(i) < k, NEW w \in Tokens(s[i]) PROVE w \in U
  <2>1. CASE i \in 1 .. n
    BY <1>1, <1>6, <1>7, <1>8, <1>11, <2>1
  <2>2. CASE i \notin 1 .. n
    <3>1. i = n + 1
      BY <1>1, <1>2, <2>2
    <3>2. PICK q \in 1 .. n : w \in Tokens(c[q])
      BY <1>11, <3>1
    <3>3. c[q] \notin S
      <4>1. ToSet(<<>>) = {}
        BY DEF ToSet
      <4> QED BY <3>2, <4>1 DEF Tokens, S
    <3>4. PICK j \in Q : j <= q /\ c[j] = c[q]
      BY <1>1, <3>3, FirstPosition DEF Q
    <3>5. j \in P /\ j \in 1 .. n /\ <<j, i>> \in Earlier
      BY <1>1, <1>10, <3>1 DEF Earlier
    <3>6. rank(j) < rank(i)
      BY <1>4, <3>5, EarlierOrders, RankGrows DEF rank
    <3>7. rank(j) \in Nat /\ rank(i) \in Nat
      BY <1>4, BeforeFinite DEF rank
    <3>8. rankC(j) < k
      BY <1>10, <1>11, <3>6, <3>7
    <3> QED BY <1>8, <3>2, <3>4, <3>8
  <2> QED BY <2>1, <2>2
<1>12. ASSUME NEW w \in U PROVE \E i \in P : rank(i) < k /\ w \in Tokens(s[i])
  <2>1. PICK i \in Q : rankC(i) < k /\ w \in Tokens(c[i])
    BY <1>8
  <2> QED BY <1>10, <2>1
<1>13. TokensOf(Take(Distinct(s, S), k)) = U
  BY <1>9, <1>11, <1>12
<1> QED BY <1>13, Zenon DEF TokensOfFirst, U, Q, S, rankC

\* The words that the probes have together.
LEMMA ProbeWords ==
    ASSUME NEW W, NEW m, Texts(m, W), NEW queries \in ExpandedQueries(m)
    PROVE  TokensOf(queries) = TokensOfFirst(Cleaned(Raw(m), m.target), MaxKeys)
<1>0. m.target \in Seq(W) /\ MaxKeys \in Nat /\ m.provided \in Seq(Seq(W))
  BY KeysAssumption DEF Texts
<1>1. PICK word \in Seq(W) :
        /\ queries = Take(CleanDistinct(Append(Raw(m), word), m.target), MaxKeys)
        /\ ToSet(word) \subseteq
               UNION {Tokens(CleanPrompt(Raw(m)[i], m.target)) : i \in 1 .. Len(Raw(m))}
  BY QueriesAre
<1>2. PICK r \in Seq(Seq(W)), a \in Seq(Seq(W)) : r = Raw(m) /\ a = Append(Raw(m), word)
  BY RawIs
<1>3. PICK n \in Nat : n = Len(r)
  BY <1>2
<1>4. /\ Len(a) = n + 1 /\ a[n + 1] = word
      /\ \A i \in 1 .. n : a[i] = r[i]
  BY <1>2, <1>3
<1>5. PICK c, s : c = Cleaned(r, m.target) /\ s = Cleaned(a, m.target)
  OBVIOUS
<1>6. /\ DOMAIN c = 1 .. n
      /\ \A i \in 1 .. n : c[i] = CleanPrompt(r[i], m.target)
  BY <1>0, <1>3, <1>5, CleanedIs
<1>7. /\ DOMAIN s = 1 .. n + 1
      /\ \A i \in 1 .. n + 1 : s[i] = CleanPrompt(a[i], m.target)
      /\ CleanDistinct(a, m.target) = Distinct(s, {<<>>})
  <2>1. PICK t \in Seq(W) : t = m.target
    BY <1>0
  <2>2. DOMAIN Cleaned(a, t) = 1 .. Len(a)
    BY <1>2, CleanedIs
  <2>3. \A i \in 1 .. Len(a) : Cleaned(a, t)[i] = CleanPrompt(a[i], t)
    BY <1>2, CleanedIs
  <2>4. CleanDistinct(a, t) = Distinct(Cleaned(a, t), {<<>>})
    BY <1>2, CleanedIs
  <2> QED BY <1>4, <1>5, <2>1, <2>2, <2>3, <2>4
<1>8. OneLonger(s, c, n)
  <2>1. ASSUME NEW i \in 1 .. n PROVE s[i] = c[i]
    <3>1. i \in 1 .. n + 1
      BY <1>3
    <3> QED BY <1>4, <1>6, <1>7, <3>1
  <2> QED BY <1>3, <1>6, <1>7, <2>1 DEF OneLonger
<1>9. Tokens(s[n + 1]) \subseteq UNION {Tokens(c[i]) : i \in 1 .. n}
  <2>1. s[n + 1] = CleanPrompt(word, m.target)
    BY <1>3, <1>4, <1>7
  <2>2. ToSet(s[n + 1]) \subseteq ToSet(word)
    BY <1>0, <2>1, CleanWords
  <2>3. {Tokens(c[i]) : i \in 1 .. n} = {Tokens(CleanPrompt(r[i], m.target)) : i \in 1 .. n}
    BY <1>6
  <2> QED BY <1>1, <1>2, <1>3, <2>2, <2>3 DEF Tokens
<1>10. TokensOf(Take(Distinct(s, {<<>>}), MaxKeys)) = TokensOfFirst(c, MaxKeys)
  BY <1>0, <1>8, <1>9, OneMoreAddsNothing
<1> QED BY <1>1, <1>2, <1>5, <1>7, <1>10

\* The score of a memory is the same for every order of the keyword prompt.
LEMMA ScoresAgree ==
    ASSUME NEW W, NEW m, Texts(m, W), NEW first \in ExpandedQueries(m),
           NEW second \in ExpandedQueries(m), NEW message
    PROVE  CandidateScore(message, first) = CandidateScore(message, second)
<1>1. \A q : {Tokens(q[i]) : i \in DOMAIN q} = {Tokens(x) : x \in ToSet(q)}
  BY DEF ToSet
<1>2. \A q : CandidateScore(message, q) = Cardinality(message \intersect TokensOf(q))
  BY <1>1, Zenon DEF CandidateScore, TokensOf
<1>3. TokensOf(first) = TokensOf(second)
  BY ProbeWords
<1> QED BY <1>2, <1>3

----
\* Calls

\* The words of the texts in the calls.
Words == {Hyphen, "player", "best", "the", "pele", "fog", "cold", "summer"}

\* The texts of the calls mention the head of an answer once, or twice without a hyphen.
LEMMA SomeTextIs ==
    ASSUME NEW y \in SomeText
    PROVE  y \in Seq(Words) /\ \A w \in {"pele", "fog"} : Sparse(y, w)
<1> SUFFICES ASSUME NEW w \in {"pele", "fog"} PROVE y \in Seq(Words) /\ Sparse(y, w)
  OBVIOUS
<1>1. Hyphen \notin {"player", "best", "the", "pele", "fog", "cold", "summer"}
  BY WordsAssumption
<1>2. CASE y = <<>>
  <2>1. y \in Seq(Words) /\ DOMAIN y = 1 .. 0
    BY <1>2
  <2>2. DOMAIN y = {}
    BY <2>1
  <2> QED BY <2>1, <2>2 DEF Sparse, Single
<1>3. CASE y = <<"player">>
  <2>1. DOMAIN y = 1 .. 1 /\ y[1] = "player" /\ y \in Seq(Words)
    BY <1>3 DEF Words
  <2>2. \A p \in DOMAIN y : p = 1
    BY <2>1
  <2> QED BY <2>1, <2>2 DEF Sparse, Single
<1>4. CASE y = <<"best", "player">>
  <2>1. DOMAIN y = 1 .. 2 /\ y[1] = "best" /\ y[2] = "player" /\ y \in Seq(Words)
    BY <1>4 DEF Words
  <2>2. \A p \in DOMAIN y : p = 1 \/ p = 2
    BY <2>1
  <2>3. \A p \in DOMAIN y : y[p] # w
    BY <2>1, <2>2
  <2> QED BY <2>1, <2>3 DEF Sparse, Single
<1>5. CASE y = <<"the", "player", "pele">>
  <2>1. /\ DOMAIN y = 1 .. 3 /\ y[1] = "the" /\ y[2] = "player" /\ y[3] = "pele"
        /\ y \in Seq(Words)
    BY <1>5 DEF Words
  <2>2. \A p \in DOMAIN y : p = 1 \/ p = 2 \/ p = 3
    BY <2>1
  <2>3. \A p \in DOMAIN y : y[p] = w => p = 3
    BY <2>1, <2>2
  <2> QED BY <2>1, <2>3 DEF Sparse, Single
<1>6. CASE y = <<"player", "fog", "cold">>
  <2>1. /\ DOMAIN y = 1 .. 3 /\ y[1] = "player" /\ y[2] = "fog" /\ y[3] = "cold"
        /\ y \in Seq(Words)
    BY <1>6 DEF Words
  <2>2. \A p \in DOMAIN y : p = 1 \/ p = 2 \/ p = 3
    BY <2>1
  <2>3. \A p \in DOMAIN y : y[p] = w => p = 2
    BY <2>1, <2>2
  <2> QED BY <2>1, <2>3 DEF Sparse, Single
<1>7. CASE y = <<"player", "fog", Hyphen, "cold", "player">>
  <2>1. /\ DOMAIN y = 1 .. 5 /\ y[1] = "player" /\ y[2] = "fog" /\ y[3] = Hyphen
        /\ y[4] = "cold" /\ y[5] = "player" /\ y \in Seq(Words)
    BY <1>7 DEF Words
  <2>2. \A p \in DOMAIN y : p = 1 \/ p = 2 \/ p = 3 \/ p = 4 \/ p = 5
    BY <2>1
  <2>3. \A p \in DOMAIN y : y[p] = w => p = 2
    BY <1>1, <2>1, <2>2
  <2> QED BY <2>1, <2>3 DEF Sparse, Single
<1>8. CASE y = <<"fog", "fog", "cold", "cold">>
  <2>1. /\ DOMAIN y = 1 .. 4 /\ y[1] = "fog" /\ y[2] = "fog" /\ y[3] = "cold" /\ y[4] = "cold"
        /\ y \in Seq(Words)
    BY <1>8 DEF Words
  <2>2. \A p \in DOMAIN y : p = 1 \/ p = 2 \/ p = 3 \/ p = 4
    BY <2>1
  <2>3. \A p \in DOMAIN y : y[p] = w => p = 1 \/ p = 2
    BY <2>1, <2>2
  <2>4. Twice(y, w)
    BY <2>3 DEF Twice
  <2>5. \A p \in DOMAIN y : y[p] # Hyphen
    BY <1>1, <2>1, <2>2
  <2>6. Hyphen \notin ToSet(y)
    BY <2>5 DEF ToSet
  <2> QED BY <2>1, <2>4, <2>6 DEF Sparse
<1> QED BY <1>2, <1>3, <1>4, <1>5, <1>6, <1>7, <1>8 DEF SomeText

\* A subject of a call has few words, every one once, and none of them opens an answer.
LEMMA SomeSubjectIs ==
    ASSUME NEW y \in {<<>>, <<"player">>, <<"summer", "cold">>}
    PROVE  /\ y \in Seq(Words) /\ Len(y) <= KeywordWords
           /\ \A p, q \in DOMAIN y : y[p] = y[q] => p = q
           /\ ToSet(y) \subseteq {"player", "summer", "cold"}
<1>1. 2 <= KeywordWords /\ KeywordWords \in Nat
  BY KeysAssumption
<1>2. CASE y = <<>>
  <2>1. y \in Seq(Words) /\ DOMAIN y = 1 .. 0 /\ Len(y) = 0
    BY <1>2
  <2>2. DOMAIN y = {}
    BY <2>1
  <2> QED BY <1>1, <2>1, <2>2 DEF ToSet
<1>3. CASE y = <<"player">>
  <2>1. DOMAIN y = 1 .. 1 /\ y[1] = "player" /\ y \in Seq(Words) /\ Len(y) = 1
    BY <1>3 DEF Words
  <2>2. \A p \in DOMAIN y : p = 1
    BY <2>1
  <2> QED BY <1>1, <2>1, <2>2 DEF ToSet
<1>4. CASE y = <<"summer", "cold">>
  <2>1. /\ DOMAIN y = 1 .. 2 /\ y[1] = "summer" /\ y[2] = "cold" /\ y \in Seq(Words)
        /\ Len(y) = 2
    BY <1>4 DEF Words
  <2>2. \A p \in DOMAIN y : p = 1 \/ p = 2
    BY <2>1
  <2>3. ToSet(y) \subseteq {"player", "summer", "cold"}
    BY <2>1, <2>2 DEF ToSet
  <2> QED BY <1>1, <2>1, <2>2, <2>3
<1> QED BY <1>2, <1>3, <1>4

\* An answer of the calls opens with a word of its own.
LEMMA SomeAnswerIs ==
    ASSUME NEW y \in {<<>>, <<"pele">>, <<"fog", "cold">>, <<"fog", Hyphen, "cold">>}
    PROVE  y \in Seq(Words) /\ (y # <<>> => y[1] \in {"pele", "fog"})
<1>1. CASE y = <<>>
  BY <1>1
<1>2. CASE y = <<"pele">>
  BY <1>2 DEF Words
<1>3. CASE y = <<"fog", "cold">>
  BY <1>3 DEF Words
<1>4. CASE y = <<"fog", Hyphen, "cold">>
  BY <1>4 DEF Words
<1> QED BY <1>1, <1>2, <1>3, <1>4

\* The memory that the last call gave to make keys for.
IsWorded(m, W) == Texts(m, W) /\ Discreet(m) /\ Plain(m)

Worded == call.op = "keys" => \E W : IsWorded(call.memory, W)

\* A call of _key_prompts has such a memory.
LEMMA MakeKeysIs ==
    ASSUME MakeKeys
    PROVE  IsWorded(call'.memory, Words)
<1>1. PICK provided \in SeqOf(SomeText, 2), subject \in {<<>>, <<"player">>, <<"summer", "cold">>},
           stem \in SomeText,
           text \in {<<>>, <<"the", "player", "pele">>, <<"player", "fog", "cold">>},
           target \in {<<>>, <<"pele">>, <<"fog", "cold">>, <<"fog", Hyphen, "cold">>} :
              call' = [op |-> "keys", memory |->
                          [provided |-> provided, subject |-> subject, stem |-> stem,
                           text |-> text, target |-> target]]
  BY Zenon DEF MakeKeys
<1>2. PICK m : m = call'.memory
  OBVIOUS
<1>3. /\ m.provided = provided /\ m.subject = subject /\ m.stem = stem
      /\ m.text = text /\ m.target = target
  BY <1>1, <1>2
<1>4. text \in SomeText
  BY DEF SomeText
<1>5. stem \in Seq(Words) /\ text \in Seq(Words)
  BY <1>4, SomeTextIs
<1>6. provided \in Seq(Seq(Words))
  <2>1. PICK n \in 0 .. 2 : provided \in [1 .. n -> SomeText]
    BY DEF SeqOf
  <2>2. \A y \in SomeText : y \in Seq(Words)
    BY SomeTextIs
  <2>3. provided \in [1 .. n -> Seq(Words)] /\ n \in Nat
    BY <2>1, <2>2
  <2> QED BY <2>3
<1>7. /\ subject \in Seq(Words) /\ Len(subject) <= KeywordWords
      /\ \A p, q \in DOMAIN subject : subject[p] = subject[q] => p = q
      /\ ToSet(subject) \subseteq {"player", "summer", "cold"}
  <2> HIDE DEF Words
  <2> QED BY SomeSubjectIs
<1>8. target \in Seq(Words) /\ (target # <<>> => target[1] \in {"pele", "fog"})
  BY SomeAnswerIs
<1>9. Texts(m, Words)
  BY <1>3, <1>5, <1>6, <1>7, <1>8 DEF Texts
<1>10. Discreet(m)
  <2> SUFFICES ASSUME target # <<>>
               PROVE  /\ target[1] \notin ToSet(subject)
                      /\ Sparse(stem, target[1]) /\ Sparse(text, target[1])
    BY <1>3 DEF Discreet
  <2>1. PICK w \in {"pele", "fog"} : w = target[1]
    BY <1>8
  <2>2. w \notin ToSet(subject)
    BY <1>7
  <2>3. Sparse(stem, w) /\ Sparse(text, w)
    BY <1>4, SomeTextIs
  <2> QED BY <2>1, <2>2, <2>3
<1>11. Plain(m)
  <2>1. Hyphen \notin ToSet(subject) /\ ToSet(subject) \intersect KeyStopwords = {}
    BY <1>7, WordsAssumption
  <2> QED BY <1>3, <1>7, <2>1 DEF Plain
<1> QED BY <1>2, <1>9, <1>10, <1>11 DEF IsWorded

\* Every memory that keys are made for is of that kind.
LEMMA WordedHolds == Spec => []Worded
<1>1. Init => Worded
  BY DEF Init, Worded
<1>2. Worded /\ [Next]_call => Worded'
  <2>1. CASE UNCHANGED call
    BY <2>1 DEF Worded
  <2>2. CASE Next
    <3> SUFFICES ASSUME call'.op = "keys" PROVE \E W : IsWorded(call'.memory, W)
      BY DEF Worded
    <3>1. MakeKeys
      BY <2>2, CallOf
    <3> QED BY <3>1, MakeKeysIs
  <2> QED BY <2>1, <2>2
<1> QED BY <1>1, <1>2, PTL DEF Spec

\* No key gives the answer away, a probe is a key, and the probes weigh the same in any order.
LEMMA WordedMeets ==
    ASSUME Worded
    PROVE  KeysMeetProbes
<1> SUFFICES ASSUME call.op = "keys" PROVE KeysMeetProbes
  BY DEF KeysMeetProbes, KeysAnswerFree, ProbeHitsKey, ScoreIsStable
<1>1. PICK m, W : m = call.memory /\ IsWorded(m, W)
  BY DEF Worded
<1>2. Texts(m, W) /\ Discreet(m) /\ Plain(m)
  BY <1>1 DEF IsWorded
<1>3. KeysAnswerFree
  <2> DEFINE careless(p) == Hyphen \in ToSet(p) \/ Mentions(Without(p, m.target), m.target)
  <2> SUFFICES ASSUME m.target # <<>>, NEW key \in ToSet(KeyPromptsOf(m)), Mentions(key, m.target)
               PROVE  \E p \in ToSet(m.provided) : careless(p) /\ key = CleanPrompt(p, m.target)
    BY <1>1, Zenon DEF KeysAnswerFree
  <2> QED BY <1>2, KeysAreFree
<1>4. ProbeHitsKey
  <2> SUFFICES ASSUME KeyPromptsOf(m) # <<>>,
                      ~ \E p \in {m.subject, m.stem, m.text} \union ToSet(m.provided) :
                            m.target # <<>> /\ Mentions(CleanPrompt(p, m.target), m.target),
                      NEW queries \in ExpandedQueries(m)
               PROVE  ToSet(queries) \intersect RegisteredTexts(m) # {}
    BY <1>1, Zenon DEF ProbeHitsKey
  <2>1. ~ Nested(m)
    BY Zenon DEF Nested, Named
  <2>2. ToSet(queries) \intersect ToSet(KeyPromptsOf(m)) # {}
    BY <1>2, <2>1, ProbesMeet
  <2> QED BY <2>2 DEF RegisteredTexts
<1>5. ScoreIsStable
  <2> SUFFICES ASSUME NEW first \in ExpandedQueries(m), NEW second \in ExpandedQueries(m),
                      NEW message
               PROVE  CandidateScore(message, first) = CandidateScore(message, second)
    BY <1>1, Zenon DEF ScoreIsStable
  <2> QED BY <1>2, ScoresAgree
<1> QED BY <1>3, <1>4, <1>5 DEF KeysMeetProbes

\* _key_prompts registers no text that gives an answer without hyphens away, except
\* what the extractor provided carelessly; one of the probes of _expanded_queries is
\* registered, unless there is no key prompt or a text nests the answer; and
\* _candidate_score does not depend on the order of the words in a probe.
THEOREM KeysMeetProbesHolds == Spec => []KeysMeetProbes
<1>1. Worded => KeysMeetProbes
  BY WordedMeets
<1> QED BY <1>1, WordedHolds, PTL

====
