---- MODULE SequencingProofs ----
(* Lemmas about Sequencing, for sequences of any length: the windows of a text *)
(* cover it, and sorting neither loses an entry nor invents one.  What a       *)
(* recursive function computes is shown by the least number at which it would  *)
(* go wrong.                                                                   *)
EXTENDS Sequencing, FiniteSetTheorems, FunctionTheorems, WellFoundedInduction, TLAPS

----
\* The least number

\* Induction, in the form in which the proofs below use it: a set of numbers that
\* is not empty has a least one.
LEMMA LeastNumber ==
    ASSUME NEW T, T \subseteq Nat, T # {}
    PROVE  \E x \in T : \A y \in T : x <= y
<1> DEFINE R == OpToRel(<, Nat)
<1>1. IsWellFoundedOn(R, Nat)
  BY NatLessThanWellFounded
<1>2. \A x, y \in Nat : <<x, y>> \in R <=> x < y
  BY DEF OpToRel
<1> HIDE DEF R
<1>3. PICK x \in T : \A y \in T : ~ (<<y, x>> \in R)
  BY <1>1, WFMin
<1>4. \A y \in T : x \in Nat /\ y \in Nat /\ ~ (y < x)
  BY <1>2, <1>3
<1> QED BY <1>4

\* A function on 0 .. n whose value at k follows from the one before it ...
Recursion(n, S, a, next, f) ==
    /\ f \in [0 .. n -> S]
    /\ f[0] = a
    /\ \A k \in 1 .. n : f[k] = next[k][f[k - 1]]

\* ... exists.
LEMMA RecursionExists ==
    ASSUME NEW n \in Nat, NEW S, NEW a \in S, NEW next \in [1 .. n -> [S -> S]]
    PROVE  \E f : Recursion(n, S, a, next, f)
<1> DEFINE Right(m, f) == /\ f \in [0 .. n -> S]
                          /\ f[0] = a
                          /\ \A k \in 1 .. m : f[k] = next[k][f[k - 1]]
           fails == {m \in 0 .. n : ~ \E f : Right(m, f)}
<1>1. fails = {}
  <2> SUFFICES ASSUME fails # {} PROVE FALSE
    OBVIOUS
  <2>1. fails \subseteq Nat
    OBVIOUS
  <2> HIDE DEF fails
  <2>2. PICK m \in fails : \A j \in fails : m <= j
    BY <2>1, LeastNumber
  <2> USE DEF fails
  <2>3. CASE m = 0
    <3>1. Right(m, [k \in 0 .. n |-> a])
      BY <2>3
    <3> QED BY <3>1
  <2>4. CASE m # 0
    <3>1. m \in 1 .. n /\ m - 1 \in 0 .. n /\ m - 1 \notin fails
      <4>1. m \in 0 .. n
        BY <2>2
      <4> HIDE DEF fails
      <4>2. m \in 1 .. n /\ m - 1 \in 0 .. n /\ ~ (m <= m - 1)
        BY <2>4, <4>1
      <4> QED BY <2>2, <4>2
    <3>2. PICK g : Right(m - 1, g)
      BY <3>1
    <3> DEFINE f == [g EXCEPT ![m] = next[m][g[m - 1]]]
    <3>3. g \in [0 .. n -> S] /\ g[m - 1] \in S
      BY <3>1, <3>2
    <3>4. /\ f \in [0 .. n -> S]
          /\ f[m] = next[m][g[m - 1]]
          /\ \A k \in 0 .. n : k # m => f[k] = g[k]
      BY <3>1, <3>3
    <3> HIDE DEF f
    <3>5. ASSUME NEW k \in 1 .. m
          PROVE  f[k] = next[k][f[k - 1]]
      <4>1. k \in 0 .. n /\ k - 1 \in 0 .. n /\ k - 1 # m
        BY <3>1
      <4>2. f[k - 1] = g[k - 1]
        BY <3>4, <4>1
      <4>3. CASE k = m
        BY <3>4, <4>2, <4>3
      <4>4. CASE k # m
        <5>1. k \in 1 .. m - 1
          BY <3>1, <4>4
        <5> QED BY <3>2, <3>4, <4>1, <4>2, <4>4, <5>1
      <4> QED BY <4>3, <4>4
    <3>6. f[0] = a
      BY <3>1, <3>2, <3>4
    <3>7. Right(m, f)
      BY <3>4, <3>5, <3>6
    <3> QED BY <3>7
  <2> QED BY <2>3, <2>4
<1>2. n \in 0 .. n
  OBVIOUS
<1> QED BY <1>1, <1>2 DEF Recursion

----
\* Windows

\* The recursion of OverlappingWindows, from every position.
WindowsFrom(n, size, step, f) ==
    f = [start \in 0 .. n |->
            <<Window(n, start, size)>> \o
                (IF start + size >= n THEN <<>> ELSE f[start + step])]

\* The same from the last positions only.
LastWindows(n, size, step, k, f) ==
    /\ f = [start \in 0 .. n |-> f[start]]
    /\ \A start \in n - k .. n :
          f[start] = <<Window(n, start, size)>> \o
                        (IF start + size >= n THEN <<>> ELSE f[start + step])

\* A function that satisfies the recursion exists: one that is right for the last
\* positions is extended to the position before them.
LEMMA WindowsExist ==
    ASSUME NEW n \in Nat, NEW size \in Nat \ {0}, NEW step \in 1 .. size
    PROVE  \E f : WindowsFrom(n, size, step, f)
<1> DEFINE fails == {k \in 0 .. n : ~ \E f : LastWindows(n, size, step, k, f)}
<1>1. fails = {}
  <2> SUFFICES ASSUME fails # {} PROVE FALSE
    OBVIOUS
  <2>1. fails \subseteq Nat
    OBVIOUS
  <2> HIDE DEF fails
  <2>2. PICK k \in fails : \A j \in fails : k <= j
    BY <2>1, LeastNumber
  <2> USE DEF fails
  <2>3. CASE k = 0
    <3> DEFINE f == [start \in 0 .. n |-> <<Window(n, start, size)>> \o <<>>]
    <3>1. f = [start \in 0 .. n |-> f[start]]
      OBVIOUS
    <3>2. \A start \in n - k .. n : start = n /\ start + size >= n
      BY <2>3
    <3>3. f[n] = <<Window(n, n, size)>> \o <<>>
      OBVIOUS
    <3> HIDE DEF f
    <3>4. LastWindows(n, size, step, k, f)
      BY <3>1, <3>2, <3>3 DEF LastWindows
    <3> QED BY <3>4
  <2>4. CASE k # 0
    <3>1. k \in 1 .. n /\ k - 1 \in 0 .. n /\ k - 1 \notin fails
      BY <2>2, <2>4
    <3>2. PICK g : LastWindows(n, size, step, k - 1, g)
      BY <3>1
    <3> DEFINE first == <<Window(n, n - k, size)>> \o
                           (IF n - k + size >= n THEN <<>> ELSE g[n - k + step])
               f     == [start \in 0 .. n |-> IF start = n - k THEN first ELSE g[start]]
    <3>3. f = [start \in 0 .. n |-> f[start]]
      OBVIOUS
    <3>4. /\ f[n - k] = first
          /\ \A start \in 0 .. n : start # n - k => f[start] = g[start]
      BY SMTT(30), <3>1
    <3> HIDE DEF f
    <3>5. ASSUME NEW start \in n - k .. n
          PROVE  f[start] = <<Window(n, start, size)>> \o
                               (IF start + size >= n THEN <<>> ELSE f[start + step])
      <4>1. start + size < n => start + step \in 0 .. n /\ start + step # n - k
        BY <3>1
      <4>2. start + size < n => f[start + step] = g[start + step]
        BY <3>4, <4>1
      <4>3. CASE start = n - k
        <5>1. f[start] = <<Window(n, start, size)>> \o
                            (IF start + size >= n THEN <<>> ELSE g[start + step])
          BY <3>4, <4>3, Zenon
        <5>2. start + size < n \/ start + size >= n
          BY <3>1, <4>3
        <5> QED BY <4>2, <5>1, <5>2, Zenon
      <4>4. CASE start # n - k
        <5>1. start \in n - (k - 1) .. n /\ start \in 0 .. n
          BY <3>1, <4>4
        <5>2. g[start] = <<Window(n, start, size)>> \o
                            (IF start + size >= n THEN <<>> ELSE g[start + step])
          BY <3>2, <5>1 DEF LastWindows
        <5>3. f[start] = g[start]
          BY <3>4, <4>4, <5>1
        <5>4. CASE start + size < n
          <6>1. ~ (start + size >= n)
            BY <5>1, <5>4
          <6> QED BY <4>2, <5>2, <5>3, <5>4, <6>1
        <5>5. CASE start + size >= n
          BY <5>2, <5>3, <5>5
        <5> QED BY <5>1, <5>4, <5>5
      <4> QED BY <4>3, <4>4
    <3>6. LastWindows(n, size, step, k, f)
      BY <3>3, <3>5 DEF LastWindows
    <3> QED BY <3>6
  <2> QED BY <2>3, <2>4
<1>2. n \in 0 .. n
  OBVIOUS
<1>3. PICK f : LastWindows(n, size, step, n, f)
  BY <1>1, <1>2
<1>4. \A start \in 0 .. n : f[start] =
          <<Window(n, start, size)>> \o (IF start + size >= n THEN <<>> ELSE f[start + step])
  <2>1. \A start \in n - n .. n : f[start] =
            <<Window(n, start, size)>> \o (IF start + size >= n THEN <<>> ELSE f[start + step])
    BY <1>3 DEF LastWindows
  <2>2. 0 .. n = n - n .. n
    OBVIOUS
  <2> QED BY <2>1, <2>2, Zenon
<1>5. f = [start \in 0 .. n |-> f[start]]
  BY <1>3 DEF LastWindows
<1>6. WindowsFrom(n, size, step, f)
  BY <1>4, <1>5 DEF WindowsFrom
<1> QED BY <1>6

StepOf(size, overlap) == MaxOf(1, size - overlap)

LEMMA WindowsEquation ==
    ASSUME NEW n \in Nat, NEW size \in Nat \ {0}, NEW overlap \in 0 .. size
    PROVE  \E f : /\ WindowsFrom(n, size, StepOf(size, overlap), f)
                  /\ OverlappingWindows(n, size, overlap) = f[0]
<1>1. StepOf(size, overlap) \in 1 .. size
  BY DEF StepOf, MaxOf
<1>2. \E f : WindowsFrom(n, size, StepOf(size, overlap), f)
  BY <1>1, WindowsExist
<1> DEFINE f == CHOOSE f : WindowsFrom(n, size, StepOf(size, overlap), f)
<1>3. WindowsFrom(n, size, StepOf(size, overlap), f)
  BY <1>2
<1>4. OverlappingWindows(n, size, overlap) = f[0]
  BY DEF OverlappingWindows, WindowsFrom, StepOf
<1> QED BY <1>3, <1>4

Windowed == [from : Nat, to : Nat]

\* Windows that begin at a position: each begins one step after the one before
\* it, and only the last reaches the end.
Stepping(ws, start, n, size, step) ==
    /\ ws \in Seq(Windowed) /\ Len(ws) >= 1
    /\ ws[1].from = start
    /\ \A i \in 1 .. Len(ws) : ws[i].from <= n /\ ws[i].to = MinOf(ws[i].from + size, n)
    /\ \A i \in 1 .. Len(ws) - 1 : ws[i + 1].from = ws[i].from + step
    /\ \A i \in 1 .. Len(ws) : ws[i].from + size < n <=> i < Len(ws)

LEMMA SteppingMore ==
    ASSUME NEW n \in Nat, NEW size \in Nat \ {0}, NEW step \in 1 .. size,
           NEW start \in 0 .. n, start + size < n, NEW ws,
           Stepping(ws, start + step, n, size, step)
    PROVE  Stepping(<<Window(n, start, size)>> \o ws, start, n, size, step)
<1> DEFINE w  == Window(n, start, size)
           vs == <<w>> \o ws
<1>1. w \in Windowed /\ w.from = start /\ w.to = MinOf(start + size, n)
  BY DEF Window, MinOf, Windowed
<1> HIDE DEF w
<1>2. /\ ws \in Seq(Windowed) /\ Len(ws) \in Nat /\ Len(ws) >= 1 /\ ws[1].from = start + step
      /\ \A i \in 1 .. Len(ws) : ws[i] \in Windowed /\ ws[i].from \in Nat
  <2>1. ws \in Seq(Windowed) /\ Len(ws) >= 1 /\ ws[1].from = start + step
    BY DEF Stepping
  <2>2. \A i \in 1 .. Len(ws) : ws[i] \in Windowed
    BY <2>1
  <2>3. \A x \in Windowed : x.from \in Nat
    BY DEF Windowed
  <2> QED BY <2>1, <2>2, <2>3
<1>3. /\ vs \in Seq(Windowed) /\ Len(vs) = Len(ws) + 1
      /\ vs[1] = w
      /\ \A i \in 1 .. Len(ws) : vs[i + 1] = ws[i]
  BY <1>1, <1>2
<1> HIDE DEF vs
<1>4. ASSUME NEW i \in 1 .. Len(vs), i # 1
      PROVE  i - 1 \in 1 .. Len(ws) /\ vs[i] = ws[i - 1]
  <2>1. i - 1 \in 1 .. Len(ws) /\ i = (i - 1) + 1
    BY <1>2, <1>3, <1>4
  <2> QED BY <1>3, <2>1
<1>5. ASSUME NEW i \in 1 .. Len(vs)
      PROVE  /\ vs[i].from <= n /\ vs[i].to = MinOf(vs[i].from + size, n)
             /\ vs[i].from + size < n <=> i < Len(vs)
  <2>1. CASE i = 1
    BY <1>1, <1>2, <1>3, <2>1
  <2>2. CASE i # 1
    <3>1. i - 1 \in 1 .. Len(ws) /\ vs[i] = ws[i - 1]
      BY <1>4, <2>2
    <3>2. i - 1 < Len(ws) <=> i < Len(vs)
      BY <1>2, <1>3
    <3> QED BY <3>1, <3>2 DEF Stepping
  <2> QED BY <2>1, <2>2
<1>6. ASSUME NEW i \in 1 .. Len(vs) - 1
      PROVE  vs[i + 1].from = vs[i].from + step
  <2>1. i \in 1 .. Len(ws) /\ vs[i + 1] = ws[i]
    BY <1>2, <1>3
  <2>2. CASE i = 1
    BY <1>1, <1>2, <1>3, <2>1, <2>2
  <2>3. CASE i # 1
    <3>1. i - 1 \in 1 .. Len(ws) - 1 /\ vs[i] = ws[i - 1] /\ i = (i - 1) + 1
      <4>1. i \in 1 .. Len(vs) /\ i - 1 \in 1 .. Len(ws) - 1 /\ i = (i - 1) + 1
        BY <1>2, <1>3, <2>1, <2>3
      <4> QED BY <1>4, <2>3, <4>1
    <3>2. ws[(i - 1) + 1].from = ws[i - 1].from + step
      BY <3>1 DEF Stepping
    <3> QED BY <2>1, <3>1, <3>2
  <2> QED BY <2>2, <2>3
<1> QED BY <1>1, <1>2, <1>3, <1>5, <1>6 DEF Stepping, vs, w

LEMMA SteppingLast ==
    ASSUME NEW n \in Nat, NEW size \in Nat \ {0}, NEW step \in 1 .. size,
           NEW start \in 0 .. n, start + size >= n
    PROVE  Stepping(<<Window(n, start, size)>> \o <<>>, start, n, size, step)
<1> DEFINE w  == Window(n, start, size)
           vs == <<w>> \o <<>>
<1>1. w \in Windowed /\ w.from = start /\ w.to = MinOf(start + size, n)
  BY DEF Window, MinOf, Windowed
<1> HIDE DEF w
<1>2. vs \in Seq(Windowed) /\ Len(vs) = 1 /\ vs[1] = w
  BY <1>1
<1> HIDE DEF vs
<1>3. \A i \in 1 .. Len(vs) : i = 1
  BY <1>2
<1>4. 1 .. Len(vs) - 1 = {}
  BY <1>2
<1> QED BY <1>1, <1>2, <1>3, <1>4 DEF Stepping, vs, w

\* What the loop returns, by the last position from which it would not.
LEMMA WindowsStep ==
    ASSUME NEW n \in Nat, NEW size \in Nat \ {0}, NEW step \in 1 .. size,
           NEW f, WindowsFrom(n, size, step, f)
    PROVE  Stepping(f[0], 0, n, size, step)
<1> DEFINE fails == {k \in 0 .. n : ~ Stepping(f[n - k], n - k, n, size, step)}
<1>1. fails = {}
  <2> SUFFICES ASSUME fails # {} PROVE FALSE
    OBVIOUS
  <2>1. fails \subseteq Nat
    OBVIOUS
  <2> HIDE DEF fails
  <2>2. PICK k \in fails : \A j \in fails : k <= j
    BY <2>1, LeastNumber
  <2>3. k \in 0 .. n /\ ~ Stepping(f[n - k], n - k, n, size, step)
    BY <2>2 DEF fails
  <2> DEFINE start == n - k
  <2>4. start \in 0 .. n
    BY <2>3
  <2> HIDE DEF start
  <2>5. f[start] = <<Window(n, start, size)>> \o
                      (IF start + size >= n THEN <<>> ELSE f[start + step])
    BY <2>4 DEF WindowsFrom
  <2>6. CASE start + size >= n
    <3>1. f[start] = <<Window(n, start, size)>> \o <<>>
      BY <2>5, <2>6
    <3> QED BY <2>3, <2>4, <2>6, <3>1, SteppingLast DEF start
  <2>7. CASE start + size < n
    <3>1. f[start] = <<Window(n, start, size)>> \o f[start + step]
      BY <2>4, <2>5, <2>7
    <3>2. k - step \in 0 .. n /\ ~ (k <= k - step) /\ n - (k - step) = start + step
      BY <2>3, <2>7 DEF start
    <3>3. k - step \notin fails
      BY <2>2, <3>2
    <3>4. Stepping(f[start + step], start + step, n, size, step)
      BY <3>2, <3>3 DEF fails
    <3> QED BY <2>3, <2>4, <2>7, <3>1, <3>4, SteppingMore DEF start
  <2> QED BY <2>4, <2>6, <2>7
<1>2. n \in 0 .. n /\ n - n = 0
  OBVIOUS
<1> QED BY <1>1, <1>2

LEMMA OverlappingWindowsStep ==
    ASSUME NEW n \in Nat, NEW size \in Nat \ {0}, NEW overlap \in 0 .. size
    PROVE  Stepping(OverlappingWindows(n, size, overlap), 0, n, size, StepOf(size, overlap))
<1>1. StepOf(size, overlap) \in 1 .. size
  BY DEF StepOf, MaxOf
<1>2. PICK f : /\ WindowsFrom(n, size, StepOf(size, overlap), f)
               /\ OverlappingWindows(n, size, overlap) = f[0]
  BY WindowsEquation
<1> QED BY <1>1, <1>2, WindowsStep

\* Windows that step like this cover the text: what begins at a position and is
\* no longer than the overlap plus one is in the last window that begins at or
\* before it.
LEMMA SteppingCovers ==
    ASSUME NEW n \in Nat, NEW size \in Nat \ {0}, NEW overlap \in 0 .. size, NEW ws,
           Stepping(ws, 0, n, size, StepOf(size, overlap)),
           NEW len \in 1 .. MinOf(overlap + 1, size), NEW start \in 0 .. n - len
    PROVE  \E i \in DOMAIN ws : ws[i].from <= start /\ start + len <= ws[i].to
<1> DEFINE step == StepOf(size, overlap)
           later == {i \in 1 .. Len(ws) : ws[i].from > start}
<1>1. /\ (step = 1 /\ size = overlap) \/ step = size - overlap
      /\ step \in 1 .. size /\ overlap \in Nat
  BY DEF StepOf, MaxOf
<1>2. /\ len \in Nat /\ len >= 1 /\ len <= overlap + 1 /\ len <= size
      /\ start \in Nat /\ start + len <= n
  BY DEF MinOf
<1> HIDE DEF step
<1>3. /\ ws \in Seq(Windowed) /\ Len(ws) \in Nat /\ Len(ws) >= 1 /\ DOMAIN ws = 1 .. Len(ws)
      /\ ws[1].from = 0
      /\ \A i \in 1 .. Len(ws) - 1 : ws[i + 1].from = ws[i].from + step
  BY DEF Stepping, step
<1>4. \A i \in 1 .. Len(ws) : /\ ws[i].from \in Nat
                              /\ ws[i].to = MinOf(ws[i].from + size, n)
                              /\ ws[i].from + size < n <=> i < Len(ws)
  <2>1. \A i \in 1 .. Len(ws) : ws[i] \in Windowed
    BY <1>3
  <2>2. \A x \in Windowed : x.from \in Nat
    BY DEF Windowed
  <2> QED BY <2>1, <2>2 DEF Stepping
<1>5. CASE later = {}
  <2>1. Len(ws) \in 1 .. Len(ws)
    BY <1>3
  <2>2. ws[Len(ws)].from <= start /\ ws[Len(ws)].from \in Nat
    BY <1>2, <1>4, <1>5, <2>1
  <2>3. ws[Len(ws)].to = n
    BY <1>3, <1>4, <2>1, <2>2 DEF MinOf
  <2> QED BY <1>2, <1>3, <2>1, <2>2, <2>3
<1>6. CASE later # {}
  <2>1. later \subseteq Nat
    OBVIOUS
  <2> HIDE DEF later
  <2>2. PICK k \in later : \A j \in later : k <= j
    BY <1>6, <2>1, LeastNumber
  <2>3. k \in 1 .. Len(ws) /\ ws[k].from > start /\ k # 1
    BY <1>2, <1>3, <2>2 DEF later
  <2> DEFINE i == k - 1
  <2>4. i \in 1 .. Len(ws) - 1 /\ i \in 1 .. Len(ws) /\ i + 1 = k /\ ~ (k <= i)
    BY <1>3, <2>3
  <2> HIDE DEF i
  <2>5. ws[i].from <= start /\ ws[i].from \in Nat
    BY <1>2, <1>4, <2>2, <2>4 DEF later
  <2>6. ws[k].from = ws[i].from + step
    BY <1>3, <2>4
  <2>7. start + len <= ws[i].from + size
    <3> DEFINE a == ws[i].from
    <3>1. a \in Nat /\ a <= start /\ a + step > start
      BY <2>3, <2>5, <2>6
    <3> HIDE DEF a
    <3>2. CASE step = 1 /\ size = overlap
      <4>1. start = a
        BY <1>2, <3>1, <3>2
      <4> QED BY <1>2, <4>1 DEF a
    <3>3. CASE step = size - overlap
      <4>1. start + 1 <= a + (size - overlap)
        BY <1>2, <3>1, <3>3
      <4>2. start + len <= a + size
        BY <1>1, <1>2, <3>1, <4>1
      <4> QED BY <4>2 DEF a
    <3> QED BY <1>1, <3>2, <3>3
  <2>8. start + len <= ws[i].to
    BY <1>2, <1>4, <2>4, <2>5, <2>7 DEF MinOf
  <2> QED BY <1>3, <2>4, <2>5, <2>8
<1> QED BY <1>5, <1>6

\* None of them is part of another.
LEMMA SteppingAdvances ==
    ASSUME NEW n \in Nat, NEW size \in Nat \ {0}, NEW step \in 1 .. size, NEW ws,
           Stepping(ws, 0, n, size, step), NEW i \in DOMAIN ws, NEW j \in DOMAIN ws, i < j
    PROVE  ws[i].from < ws[j].from /\ ws[i].to < ws[j].to
<1>1. /\ ws \in Seq(Windowed) /\ Len(ws) \in Nat /\ DOMAIN ws = 1 .. Len(ws)
      /\ \A k \in 1 .. Len(ws) - 1 : ws[k + 1].from = ws[k].from + step
  <2>1. ws \in Seq(Windowed)
    BY DEF Stepping
  <2>2. Len(ws) \in Nat /\ DOMAIN ws = 1 .. Len(ws)
    BY <2>1
  <2> QED BY <2>1, <2>2 DEF Stepping
<1>2. \A k \in 1 .. Len(ws) : /\ ws[k].from \in Nat
                              /\ ws[k].from <= n
                              /\ ws[k].to = MinOf(ws[k].from + size, n)
                              /\ ws[k].from + size < n <=> k < Len(ws)
  <2>1. \A k \in 1 .. Len(ws) : ws[k] \in Windowed
    BY <1>1
  <2>2. \A x \in Windowed : x.from \in Nat
    BY DEF Windowed
  <2> QED BY <2>1, <2>2 DEF Stepping
<1> DEFINE fails == {k \in 1 .. Len(ws) : i < k /\ ~ (ws[i].from < ws[k].from)}
<1>3. fails = {}
  <2> SUFFICES ASSUME fails # {} PROVE FALSE
    OBVIOUS
  <2>1. fails \subseteq Nat
    OBVIOUS
  <2> HIDE DEF fails
  <2>2. PICK k \in fails : \A l \in fails : k <= l
    BY <2>1, LeastNumber
  <2>3. k \in 1 .. Len(ws) /\ i < k /\ ~ (ws[i].from < ws[k].from) /\ i \in 1 .. Len(ws)
    BY <1>1, <2>2 DEF fails
  <2> DEFINE b == k - 1
  <2>4. b \in 1 .. Len(ws) - 1 /\ b \in 1 .. Len(ws) /\ b + 1 = k /\ ~ (k <= b) /\ (b = i \/ i < b)
    BY <1>1, <2>3
  <2> HIDE DEF b
  <2>5. ws[k].from = ws[b].from + step
    BY <1>1, <2>4
  <2>6. i < b => ws[i].from < ws[b].from
    BY <2>2, <2>4 DEF fails
  <2>7. ws[b].from \in Nat /\ ws[i].from \in Nat
    BY <1>2, <2>3, <2>4
  <2> QED BY <2>3, <2>4, <2>5, <2>6, <2>7
<1>4. ws[i].from < ws[j].from
  BY <1>1, <1>3
<1>5. i \in 1 .. Len(ws) /\ j \in 1 .. Len(ws) /\ i < Len(ws)
  BY <1>1
<1>6. ws[i].from \in Nat /\ ws[j].from \in Nat /\ ws[j].from <= n /\ ws[i].from + size < n
  BY <1>2, <1>5
<1> QED BY <1>2, <1>4, <1>5, <1>6 DEF MinOf

----
\* Ranks

Orders(R, P) ==
    /\ \A x \in P : <<x, x>> \notin R
    /\ \A x, y, z \in P : <<x, y>> \in R /\ <<y, z>> \in R => <<x, z>> \in R
    /\ \A x, y \in P : x = y \/ <<x, y>> \in R \/ <<y, x>> \in R

LEMMA UpToFinite ==
    ASSUME NEW n \in Nat
    PROVE  IsFiniteSet(1 .. n) /\ Cardinality(1 .. n) = n
BY FS_Interval

Before(R, P, x) == {y \in P : <<y, x>> \in R}

LEMMA BeforeFinite ==
    ASSUME NEW P, IsFiniteSet(P), NEW R, NEW x
    PROVE  IsFiniteSet(Before(R, P, x)) /\ Cardinality(Before(R, P, x)) \in Nat
<1>1. Before(R, P, x) \in SUBSET P
  BY DEF Before
<1> QED BY <1>1, FS_Subset, FS_CardinalityType

\* What comes later in an order has a higher rank ...
LEMMA RankGrows ==
    ASSUME NEW P, IsFiniteSet(P), NEW R, Orders(R, P),
           NEW x \in P, NEW y \in P, <<x, y>> \in R
    PROVE  Cardinality(Before(R, P, x)) < Cardinality(Before(R, P, y))
<1>1. /\ Before(R, P, x) \in SUBSET Before(R, P, y)
      /\ x \in Before(R, P, y) /\ x \notin Before(R, P, x)
  BY DEF Before, Orders
<1>2. /\ IsFiniteSet(Before(R, P, y))
      /\ Cardinality(Before(R, P, x)) \in Nat /\ Cardinality(Before(R, P, y)) \in Nat
  BY BeforeFinite
<1>3. /\ Cardinality(Before(R, P, x)) <= Cardinality(Before(R, P, y))
      /\ Cardinality(Before(R, P, y)) = Cardinality(Before(R, P, x)) =>
             Before(R, P, y) = Before(R, P, x)
  BY <1>1, <1>2, FS_Subset
<1> QED BY <1>1, <1>2, <1>3

\* ... so that the ranks are 0 .. Cardinality(P) - 1, each once.
LEMMA RanksOnce ==
    ASSUME NEW P, IsFiniteSet(P), NEW R, Orders(R, P)
    PROVE  /\ \A x \in P : Cardinality(Before(R, P, x)) + 1 \in 1 .. Cardinality(P)
           /\ \A x, y \in P : Cardinality(Before(R, P, x)) = Cardinality(Before(R, P, y)) => x = y
           /\ \A r \in 1 .. Cardinality(P) : \E x \in P : Cardinality(Before(R, P, x)) = r - 1
<1> DEFINE n == Cardinality(P)
           f == [x \in P |-> Cardinality(Before(R, P, x)) + 1]
<1>1. n \in Nat
  BY FS_CardinalityType
<1>2. ASSUME NEW x \in P
      PROVE  Cardinality(Before(R, P, x)) \in Nat /\ Cardinality(Before(R, P, x)) < n
  <2>1. Before(R, P, x) \in SUBSET P /\ x \notin Before(R, P, x)
    BY DEF Before, Orders
  <2>2. /\ Cardinality(Before(R, P, x)) <= n
        /\ n = Cardinality(Before(R, P, x)) => P = Before(R, P, x)
    BY <2>1, FS_Subset
  <2>3. Cardinality(Before(R, P, x)) \in Nat
    BY BeforeFinite
  <2> QED BY <1>1, <2>1, <2>2, <2>3
<1>3. ASSUME NEW x \in P, NEW y \in P,
             Cardinality(Before(R, P, x)) = Cardinality(Before(R, P, y))
      PROVE  x = y
  <2>1. <<x, y>> \in R => Cardinality(Before(R, P, x)) < Cardinality(Before(R, P, y))
    BY RankGrows
  <2>2. <<y, x>> \in R => Cardinality(Before(R, P, y)) < Cardinality(Before(R, P, x))
    BY RankGrows
  <2>3. Cardinality(Before(R, P, x)) \in Nat /\ Cardinality(Before(R, P, y)) \in Nat
    BY <1>2
  <2> QED BY <1>3, <2>1, <2>2, <2>3 DEF Orders
<1>4. f \in [P -> 1 .. n]
  BY <1>1, <1>2
<1>5. \A x \in P : f[x] = Cardinality(Before(R, P, x)) + 1
  OBVIOUS
<1> HIDE DEF f
<1>6. \A x, y \in P : f[x] = f[y] => x = y
  BY <1>2, <1>3, <1>5
<1>7. f \in Injection(P, 1 .. n)
  BY <1>4, <1>6 DEF Injection, IsInjective
<1>8. IsFiniteSet(1 .. n) /\ Cardinality(1 .. n) = n
  BY <1>1, FS_Interval
<1>9. f \in Surjection(P, 1 .. n)
  BY <1>7, <1>8, FS_Injection
<1>10. ASSUME NEW r \in 1 .. n
       PROVE  \E x \in P : Cardinality(Before(R, P, x)) = r - 1
  <2>1. PICK x \in P : f[x] = r
    BY <1>9 DEF Surjection
  <2> QED BY <1>2, <1>5, <2>1
<1> QED BY <1>1, <1>2, <1>3, <1>10

\* e lists P in the order of R.
Lists(e, P, R) ==
    /\ DOMAIN e = 1 .. Cardinality(P)
    /\ \A r \in 1 .. Cardinality(P) : e[r] \in P
    /\ \A x \in P : \E r \in 1 .. Cardinality(P) : e[r] = x
    /\ \A q, r \in 1 .. Cardinality(P) : q < r => <<e[q], e[r]>> \in R

ByRank(P, R) ==
    [r \in 1 .. Cardinality(P) |-> CHOOSE x \in P : Cardinality(Before(R, P, x)) = r - 1]

LEMMA ByRankLists ==
    ASSUME NEW P, IsFiniteSet(P), NEW R, Orders(R, P)
    PROVE  Lists(ByRank(P, R), P, R)
<1> DEFINE n == Cardinality(P)
           e == ByRank(P, R)
<1>1. n \in Nat
  BY FS_CardinalityType
<1>2. ASSUME NEW r \in 1 .. n
      PROVE  e[r] \in P /\ Cardinality(Before(R, P, e[r])) = r - 1
  <2>1. e[r] = CHOOSE x \in P : Cardinality(Before(R, P, x)) = r - 1
    BY DEF ByRank
  <2>2. \E x \in P : Cardinality(Before(R, P, x)) = r - 1
    BY RanksOnce
  <2> QED BY <2>1, <2>2
<1>3. DOMAIN e = 1 .. n
  BY DEF ByRank
<1> SUFFICES Lists(e, P, R)
  OBVIOUS
<1> HIDE DEF e
<1>4. ASSUME NEW x \in P
      PROVE  \E r \in 1 .. n : e[r] = x
  <2> DEFINE c == Cardinality(Before(R, P, x))
             r == c + 1
  <2>1. c \in Nat /\ r \in 1 .. n /\ r - 1 = c
    BY RanksOnce, BeforeFinite
  <2> HIDE DEF r
  <2>2. e[r] \in P /\ Cardinality(Before(R, P, e[r])) = c
    BY <1>2, <2>1
  <2>3. e[r] = x
    BY <2>2, RanksOnce
  <2> QED BY <2>1, <2>3
<1>5. ASSUME NEW q \in 1 .. n, NEW r \in 1 .. n, q < r
      PROVE  <<e[q], e[r]>> \in R
  <2>1. /\ e[q] \in P /\ e[r] \in P
        /\ Cardinality(Before(R, P, e[q])) = q - 1 /\ Cardinality(Before(R, P, e[r])) = r - 1
    BY <1>2
  <2>2. e[q] # e[r]
    BY <1>1, <1>5, <2>1
  <2>3. <<e[r], e[q]>> \in R => r - 1 < q - 1
    BY <2>1, RankGrows
  <2> QED BY <1>1, <1>5, <2>1, <2>2, <2>3 DEF Orders
<1> QED BY <1>2, <1>3, <1>4, <1>5 DEF Lists

\* There is one list in that order.
LEMMA ListsOnce ==
    ASSUME NEW P, IsFiniteSet(P), NEW R, Orders(R, P),
           NEW n \in Nat, NEW e, DOMAIN e = 1 .. n, e = [r \in 1 .. n |-> e[r]],
           \A r \in 1 .. n : e[r] \in P,
           \A x \in P : \E r \in 1 .. n : e[r] = x,
           \A q, r \in 1 .. n : q < r => <<e[q], e[r]>> \in R
    PROVE  e = ByRank(P, R) /\ n = Cardinality(P)
<1>1. ASSUME NEW q \in 1 .. n, NEW r \in 1 .. n, e[q] = e[r]
      PROVE  q = r
  <2>1. ~ (q < r) /\ ~ (r < q)
    BY <1>1 DEF Orders
  <2> QED BY <2>1
<1>2. ASSUME NEW r \in 1 .. n
      PROVE  Cardinality(Before(R, P, e[r])) = r - 1
  <2> DEFINE g == [q \in 1 .. r - 1 |-> e[q]]
  <2>1. \A q \in 1 .. n : <<e[q], e[r]>> \in R <=> q < r
    <3>1. SUFFICES ASSUME NEW q \in 1 .. n, <<e[q], e[r]>> \in R PROVE q < r
      OBVIOUS
    <3>2. q # r /\ ~ (r < q)
      BY <3>1 DEF Orders
    <3> QED BY <3>2
  <2>2. \A q \in 1 .. r - 1 : q \in 1 .. n /\ q < r
    OBVIOUS
  <2>3. g \in [1 .. r - 1 -> Before(R, P, e[r])]
    BY <2>1, <2>2 DEF Before
  <2>4. \A x \in Before(R, P, e[r]) : \E q \in 1 .. r - 1 : g[q] = x
    <3>1. SUFFICES ASSUME NEW x \in Before(R, P, e[r])
                   PROVE  \E q \in 1 .. r - 1 : g[q] = x
      OBVIOUS
    <3>2. PICK q \in 1 .. n : e[q] = x
      BY DEF Before
    <3>3. <<e[q], e[r]>> \in R
      BY <3>2 DEF Before
    <3>4. q < r
      BY <2>1, <3>3
    <3>5. q \in 1 .. r - 1
      BY <3>4
    <3> QED BY <3>2, <3>5
  <2>5. \A p, q \in 1 .. r - 1 : g[p] = g[q] => p = q
    BY <1>1, <2>2
  <2> HIDE DEF g
  <2>6. g \in Bijection(1 .. r - 1, Before(R, P, e[r]))
    <3>1. g \in Injection(1 .. r - 1, Before(R, P, e[r]))
      BY <2>3, <2>5, Fun_IsInj
    <3>2. g \in Surjection(1 .. r - 1, Before(R, P, e[r]))
      BY <2>3, <2>4, Fun_IsSurj
    <3> QED BY <3>1, <3>2 DEF Bijection
  <2>7. IsFiniteSet(1 .. r - 1) /\ Cardinality(1 .. r - 1) = r - 1
    <3> DEFINE m == r - 1
    <3>1. m \in Int /\ m >= 0
      OBVIOUS
    <3> SUFFICES IsFiniteSet(1 .. m) /\ Cardinality(1 .. m) = m
      OBVIOUS
    <3> HIDE DEF m
    <3> QED BY SMTT(30), <3>1, FS_Interval
  <2> QED BY <2>6, <2>7, FS_Bijection DEF ExistsBijection
<1>3. n = Cardinality(P)
  <2>1. e \in [1 .. n -> P]
    OBVIOUS
  <2>2. e \in Injection(1 .. n, P)
    BY <1>1, <2>1, Fun_IsInj
  <2>3. e \in Surjection(1 .. n, P)
    BY <2>1, Fun_IsSurj
  <2>4. e \in Bijection(1 .. n, P)
    BY <2>2, <2>3 DEF Bijection
  <2>5. IsFiniteSet(1 .. n) /\ Cardinality(1 .. n) = n
    BY FS_Interval
  <2> QED BY <2>4, <2>5, FS_Bijection DEF ExistsBijection
<1>4. ASSUME NEW r \in 1 .. n
      PROVE  e[r] = CHOOSE x \in P : Cardinality(Before(R, P, x)) = r - 1
  <2>1. e[r] \in P /\ Cardinality(Before(R, P, e[r])) = r - 1
    BY <1>2
  <2>2. \A x \in P : Cardinality(Before(R, P, x)) = r - 1 => x = e[r]
    BY <2>1, RanksOnce
  <2> QED BY <2>1, <2>2
<1> QED BY <1>3, <1>4 DEF ByRank

----
\* Sorting and picking

Earlier == {p \in Int \X Int : p[1] < p[2]}

LEMMA EarlierOrders ==
    ASSUME NEW P, P \subseteq Int
    PROVE  Orders(Earlier, P)
<1>1. \A i, j \in P : <<i, j>> \in Earlier <=> i < j
  BY DEF Earlier
<1>2. \A i \in P : i \in Int
  OBVIOUS
<1> QED BY <1>1, <1>2 DEF Orders

\* The entries of s at the positions that e lists.
Through(s, e, n) == [r \in 1 .. n |-> s[e[r]]]

LEMMA ThroughIs ==
    ASSUME NEW s, NEW e, NEW n
    PROVE  /\ DOMAIN Through(s, e, n) = 1 .. n
           /\ \A r \in 1 .. n : Through(s, e, n)[r] = s[e[r]]
BY DEF Through

\* Picked takes the positions from the lowest to the highest.
LEMMA PickedIs ==
    ASSUME NEW s, NEW P, P \subseteq Int
    PROVE  Picked(s, P) = Through(s, ByRank(P, Earlier), Cardinality(P))
<1>1. \A i \in P : Before(Earlier, P, i) = {j \in P : j < i}
  BY DEF Before, Earlier
<1>2. ASSUME NEW r \in 1 .. Cardinality(P)
      PROVE  s[CHOOSE i \in P : Cardinality({j \in P : j < i}) = r - 1] = s[ByRank(P, Earlier)[r]]
  <2>1. ByRank(P, Earlier)[r] = CHOOSE i \in P : Cardinality(Before(Earlier, P, i)) = r - 1
    BY DEF ByRank
  <2>2. (CHOOSE i \in P : Cardinality({j \in P : j < i}) = r - 1)
            = CHOOSE i \in P : Cardinality(Before(Earlier, P, i)) = r - 1
    BY <1>1
  <2> QED BY <2>1, <2>2
<1> QED BY <1>2 DEF Picked, Through

LEMMA PickedAs ==
    ASSUME NEW s, NEW P, IsFiniteSet(P), P \subseteq Int,
           NEW n \in Nat, NEW e, e = [r \in 1 .. n |-> e[r]],
           \A r \in 1 .. n : e[r] \in P,
           \A x \in P : \E r \in 1 .. n : e[r] = x,
           \A q, r \in 1 .. n : q < r => e[q] < e[r]
    PROVE  Picked(s, P) = Through(s, e, n)
<1>1. \A q, r \in 1 .. n : q < r => <<e[q], e[r]>> \in Earlier
  BY DEF Earlier
<1>2. DOMAIN e = 1 .. n
  <2>1. DOMAIN [r \in 1 .. n |-> e[r]] = 1 .. n
    OBVIOUS
  <2> QED BY <2>1, Zenon
<1>3. e = ByRank(P, Earlier) /\ n = Cardinality(P)
  BY <1>1, <1>2, EarlierOrders, ListsOnce
<1> QED BY <1>3, PickedIs

\* What is picked at every position is the whole sequence.
LEMMA PickedAll ==
    ASSUME NEW s, NEW n \in Nat, s = [r \in 1 .. n |-> s[r]]
    PROVE  Picked(s, 1 .. n) = s
<1> DEFINE P == 1 .. n
           e == [r \in 1 .. n |-> r]
<1>1. IsFiniteSet(P) /\ P \subseteq Int
  BY FS_Interval
<1>2. /\ e = [r \in 1 .. n |-> e[r]]
      /\ \A r \in 1 .. n : e[r] = r
      /\ \A r \in 1 .. n : e[r] \in P
  OBVIOUS
<1>3. /\ \A x \in P : \E r \in 1 .. n : e[r] = x
      /\ \A q, r \in 1 .. n : q < r => e[q] < e[r]
  BY <1>2
<1>4. Picked(s, P) = Through(s, e, n)
  <2> HIDE DEF P, e
  <2> QED BY <1>1, <1>2, <1>3, PickedAs
<1>5. Through(s, e, n) = [r \in 1 .. n |-> s[r]]
  BY <1>2 DEF Through
<1> QED BY <1>4, <1>5

\* The order of a sort by score, which is stable.
Better(s) ==
    {p \in (DOMAIN s) \X (DOMAIN s) :
        s[p[1]].score > s[p[2]].score \/ (s[p[1]].score = s[p[2]].score /\ p[1] < p[2])}

LEMMA BetterOrders ==
    ASSUME NEW s, DOMAIN s \subseteq Int, \A i \in DOMAIN s : s[i].score \in Int
    PROVE  Orders(Better(s), DOMAIN s)
<1> DEFINE D == DOMAIN s
<1>1. \A i, j \in D : <<i, j>> \in Better(s) <=>
          s[i].score > s[j].score \/ (s[i].score = s[j].score /\ i < j)
  BY DEF Better
<1>2. \A i \in D : i \in Int /\ s[i].score \in Int
  OBVIOUS
<1> SUFFICES Orders(Better(s), D)
  OBVIOUS
<1> HIDE DEF D
<1>3. \A i \in D : <<i, i>> \notin Better(s)
  BY <1>1, <1>2
<1>4. ASSUME NEW i \in D, NEW j \in D
      PROVE  i = j \/ <<i, j>> \in Better(s) \/ <<j, i>> \in Better(s)
  <2>1. /\ s[i].score \in Int /\ s[j].score \in Int
        /\ i < j \/ j < i \/ i = j
    BY <1>2
  <2>2. s[i].score > s[j].score \/ s[j].score > s[i].score \/ s[i].score = s[j].score
    BY <2>1
  <2> QED BY <1>1, <2>1, <2>2
<1>5. ASSUME NEW i \in D, NEW j \in D, NEW k \in D,
             <<i, j>> \in Better(s), <<j, k>> \in Better(s)
      PROVE  <<i, k>> \in Better(s)
  BY <1>1, <1>2, <1>5
<1> QED BY <1>3, <1>4, <1>5 DEF Orders

LEMMA BestFirstIs ==
    ASSUME NEW s, NEW n \in Nat, DOMAIN s = 1 .. n
    PROVE  BestFirst(s) = [r \in DOMAIN s |-> s[ByRank(DOMAIN s, Better(s))[r]]]
<1>1. Cardinality(DOMAIN s) = n
  BY FS_Interval
<1>2. \A i \in DOMAIN s : Before(Better(s), DOMAIN s, i) =
          {j \in DOMAIN s : s[j].score > s[i].score \/ (s[j].score = s[i].score /\ j < i)}
  BY DEF Before, Better
<1>3. ASSUME NEW r \in DOMAIN s
      PROVE  s[CHOOSE i \in DOMAIN s : Cardinality({j \in DOMAIN s :
                 s[j].score > s[i].score \/ (s[j].score = s[i].score /\ j < i)}) = r - 1]
             = s[ByRank(DOMAIN s, Better(s))[r]]
  <2>1. ByRank(DOMAIN s, Better(s))[r] =
            CHOOSE i \in DOMAIN s : Cardinality(Before(Better(s), DOMAIN s, i)) = r - 1
    BY <1>1 DEF ByRank
  <2>2. (CHOOSE i \in DOMAIN s : Cardinality({j \in DOMAIN s :
             s[j].score > s[i].score \/ (s[j].score = s[i].score /\ j < i)}) = r - 1)
        = CHOOSE i \in DOMAIN s : Cardinality(Before(Better(s), DOMAIN s, i)) = r - 1
    BY <1>2
  <2> QED BY <2>1, <2>2
<1> QED BY <1>3 DEF BestFirst

\* g lists the positions of P in s by score, the earlier of equal ones first, and
\* sorting what was picked there goes through them.
ByScore(s, P, m, g) ==
    /\ m = Cardinality(P) /\ m \in Nat
    /\ \A r \in 1 .. m : g[r] \in P
    /\ \A i \in P : \E r \in 1 .. m : g[r] = i
    /\ \A q, r \in 1 .. m : q < r =>
          s[g[q]].score > s[g[r]].score \/ (s[g[q]].score = s[g[r]].score /\ g[q] < g[r])
    /\ BestFirst(Picked(s, P)) = Through(s, g, m)

LEMMA SortedPicks ==
    ASSUME NEW s, NEW P, IsFiniteSet(P), P \subseteq Int, \A i \in P : s[i].score \in Int
    PROVE  \E m, g : ByScore(s, P, m, g)
<1> DEFINE m == Cardinality(P)
           e == ByRank(P, Earlier)
           t == Picked(s, P)
           h == ByRank(DOMAIN t, Better(t))
           g == [r \in 1 .. m |-> e[h[r]]]
<1>1. m \in Nat
  BY FS_CardinalityType
<1>2. Lists(e, P, Earlier)
  BY EarlierOrders, ByRankLists
<1>3. t = Through(s, e, m)
  BY PickedIs
<1>4. DOMAIN t = 1 .. m /\ \A r \in 1 .. m : t[r] = s[e[r]]
  <2> HIDE DEF e, t, m
  <2> QED BY <1>3, ThroughIs
<1>5. /\ \A r \in 1 .. m : e[r] \in P
      /\ \A i \in P : \E r \in 1 .. m : e[r] = i
      /\ \A q, r \in 1 .. m : q < r => e[q] < e[r]
  BY <1>2 DEF Lists, Earlier
<1> HIDE DEF e, t, m
<1>6. \A r \in 1 .. m : t[r] = s[e[r]] /\ t[r].score \in Int
  BY <1>4, <1>5
<1>7. IsFiniteSet(1 .. m) /\ Cardinality(1 .. m) = m
  BY <1>1, FS_Interval
<1>8. Lists(h, DOMAIN t, Better(t))
  <2>1. DOMAIN t \subseteq Int /\ \A r \in DOMAIN t : t[r].score \in Int
    BY <1>4, <1>6
  <2>2. Orders(Better(t), DOMAIN t)
    BY <2>1, BetterOrders
  <2>3. IsFiniteSet(DOMAIN t)
    BY <1>4, <1>7
  <2> QED BY <2>2, <2>3, ByRankLists
<1>9. BestFirst(t) = [r \in DOMAIN t |-> t[h[r]]]
  BY <1>1, <1>4, BestFirstIs
<1> HIDE DEF h
<1>10. /\ \A r \in 1 .. m : h[r] \in 1 .. m
       /\ \A x \in 1 .. m : \E r \in 1 .. m : h[r] = x
       /\ \A q, r \in 1 .. m : q < r => <<h[q], h[r]>> \in Better(t)
  BY <1>4, <1>7, <1>8 DEF Lists
<1>11. \A r \in 1 .. m : g[r] = e[h[r]] /\ g[r] \in P
  BY <1>5, <1>10
<1>12. \A i \in P : \E r \in 1 .. m : g[r] = i
  BY <1>5, <1>10, <1>11
<1>13. ASSUME NEW q \in 1 .. m, NEW r \in 1 .. m, q < r
       PROVE  s[g[q]].score > s[g[r]].score \/ (s[g[q]].score = s[g[r]].score /\ g[q] < g[r])
  <2>1. h[q] \in 1 .. m /\ h[r] \in 1 .. m
    BY <1>10
  <2>2. /\ t[h[q]] = s[g[q]] /\ t[h[r]] = s[g[r]]
        /\ h[q] < h[r] => g[q] < g[r]
    BY <1>5, <1>6, <1>11, <2>1
  <2>3. t[h[q]].score > t[h[r]].score \/ (t[h[q]].score = t[h[r]].score /\ h[q] < h[r])
    BY <1>10, <1>13 DEF Better
  <2> QED BY <2>2, <2>3
<1>14. \A r \in 1 .. m : t[h[r]] = s[g[r]]
  BY <1>6, <1>10, <1>11
<1>15. BestFirst(t) = Through(s, g, m)
  <2>1. BestFirst(t) = [r \in 1 .. m |-> t[h[r]]]
    BY <1>4, <1>9, Zenon
  <2> QED BY <1>14, <2>1 DEF Through
<1>16. m = Cardinality(P) /\ BestFirst(Picked(s, P)) = Through(s, g, m)
  BY <1>15 DEF m, t
<1> HIDE DEF g
<1>17. ByScore(s, P, m, g)
  BY <1>1, <1>11, <1>12, <1>13, <1>16 DEF ByScore
<1> QED BY <1>17

\* t is the first k entries of s.
Begins(t, s, k, S) == t \in [1 .. k -> S] /\ \A r \in 1 .. k : t[r] = s[r]

LEMMA TakeIs ==
    ASSUME NEW m \in Nat, NEW n \in Nat, NEW S, NEW s \in [1 .. m -> S]
    PROVE  Begins(Take(s, n), s, MinOf(m, n), S)
<1>1. s \in Seq(S) /\ Len(s) = m
  OBVIOUS
<1>2. MinOf(n, Len(s)) = MinOf(m, n) /\ MinOf(m, n) \in 0 .. m
  BY <1>1 DEF MinOf
<1>3. Take(s, n) = SubSeq(s, 1, MinOf(m, n))
  BY <1>2, Zenon DEF Take
<1>4. SubSeq(s, 1, MinOf(m, n)) = [r \in 1 .. MinOf(m, n) |-> s[r]]
  BY <1>1, <1>2
<1>5. \A r \in 1 .. MinOf(m, n) : r \in 1 .. m
  BY <1>2
<1> QED BY <1>3, <1>4, <1>5 DEF Begins

\* The positions that OnceIn keeps.
Firsts(indices, S) ==
    {i \in DOMAIN indices : /\ indices[i] \in S
                            /\ \A j \in 1 .. i - 1 : indices[j] # indices[i]}

\* Each entry that is in S, once.
IsOnceOf(v, indices, S) ==
    /\ \E k \in Nat : v \in [1 .. k -> S]
    /\ \A q, r \in DOMAIN v : v[q] = v[r] => q = r
    /\ ToSet(v) = ToSet(indices) \intersect S

LEMMA FirstsFinite ==
    ASSUME NEW N \in Nat, NEW indices, DOMAIN indices = 1 .. N, NEW S
    PROVE  /\ IsFiniteSet(Firsts(indices, S)) /\ Firsts(indices, S) \subseteq Int
           /\ Cardinality(Firsts(indices, S)) \in Nat
<1>1. Firsts(indices, S) \in SUBSET (1 .. N) /\ 1 .. N \subseteq Int
  BY DEF Firsts
<1>2. IsFiniteSet(1 .. N)
  BY FS_Interval
<1> QED BY <1>1, <1>2, FS_Subset, FS_CardinalityType

LEMMA OnceInIs ==
    ASSUME NEW N \in Nat, NEW indices, DOMAIN indices = 1 .. N, NEW S
    PROVE  IsOnceOf(OnceIn(indices, S), indices, S)
<1> DEFINE P == Firsts(indices, S)
           k == Cardinality(P)
           e == ByRank(P, Earlier)
           v == OnceIn(indices, S)
<1>1. IsFiniteSet(P) /\ P \subseteq Int /\ k \in Nat
  BY FirstsFinite
<1>2. v = Picked(indices, P)
  BY DEF OnceIn, Firsts
<1>3. \A i \in P : /\ i \in 1 .. N /\ indices[i] \in S
                   /\ \A j \in P : indices[i] = indices[j] => i = j
  BY DEF Firsts
<1>4. ASSUME NEW x \in S, NEW i \in 1 .. N, indices[i] = x
      PROVE  \E j \in P : indices[j] = x
  <2> DEFINE same == {j \in 1 .. N : indices[j] = x}
  <2>1. same \subseteq Nat /\ same # {}
    BY <1>4
  <2>2. \A j \in 1 .. N : j \in same <=> indices[j] = x
    OBVIOUS
  <2> HIDE DEF same
  <2>3. PICK j \in same : \A l \in same : j <= l
    BY <2>1, LeastNumber
  <2>4. j \in 1 .. N /\ indices[j] = x
    BY <2>3 DEF same
  <2>5. \A l \in 1 .. j - 1 : indices[l] # x
    <3> SUFFICES ASSUME NEW l \in 1 .. j - 1, indices[l] = x PROVE FALSE
      OBVIOUS
    <3>1. l \in 1 .. N /\ ~ (j <= l)
      BY <2>4
    <3> QED BY <2>2, <2>3, <3>1
  <2> QED BY <2>4, <2>5 DEF Firsts
<1> HIDE DEF P
<1>5. Lists(e, P, Earlier)
  BY <1>1, EarlierOrders, ByRankLists
<1>6. v = Through(indices, e, k)
  BY <1>1, <1>2, PickedIs
<1>7. /\ \A r \in 1 .. k : e[r] \in P
      /\ \A i \in P : \E r \in 1 .. k : e[r] = i
      /\ \A q, r \in 1 .. k : q < r => e[q] < e[r]
  BY <1>5 DEF Lists, Earlier
<1> HIDE DEF e, k, v
<1>8. /\ DOMAIN v = 1 .. k /\ v = [r \in 1 .. k |-> v[r]]
      /\ \A r \in 1 .. k : v[r] = indices[e[r]] /\ v[r] \in S
  BY <1>3, <1>6, <1>7 DEF Through
<1>9. \E m \in Nat : v \in [1 .. m -> S]
  BY <1>1, <1>8
<1>10. ASSUME NEW q \in 1 .. k, NEW r \in 1 .. k, v[q] = v[r]
       PROVE  q = r
  <2>1. e[q] = e[r] /\ e[q] \in Int
    BY <1>1, <1>3, <1>7, <1>8, <1>10
  <2>2. ~ (q < r) /\ ~ (r < q)
    BY <1>7, <2>1
  <2> QED BY <1>1, <2>2
<1>11. ToSet(v) = ToSet(indices) \intersect S
  <2>1. \A x : x \in ToSet(v) <=> \E r \in 1 .. k : v[r] = x
    BY <1>8 DEF ToSet
  <2>2. \A x : x \in ToSet(indices) <=> \E i \in 1 .. N : indices[i] = x
    BY DEF ToSet
  <2>3. ASSUME NEW x \in ToSet(v)
        PROVE  x \in ToSet(indices) /\ x \in S
    BY <1>3, <1>7, <1>8, <2>1, <2>2
  <2>4. ASSUME NEW x \in ToSet(indices), x \in S
        PROVE  x \in ToSet(v)
    <3>1. PICK j \in P : indices[j] = x
      BY <1>4, <2>2, <2>4
    <3>2. PICK r \in 1 .. k : e[r] = j
      BY <1>7
    <3> QED BY <1>8, <2>1, <3>1, <3>2
  <2> QED BY <2>3, <2>4
<1> QED BY <1>8, <1>9, <1>10, <1>11 DEF IsOnceOf, v

\* e lists the positions in P, from the lowest to the highest, and what was picked
\* there goes through them.
Picking(s, P, k, e) ==
    /\ k = Cardinality(P) /\ k \in Nat
    /\ \A r \in 1 .. k : e[r] \in P
    /\ \A i \in P : \E r \in 1 .. k : e[r] = i
    /\ \A q, r \in 1 .. k : q < r => e[q] < e[r]
    /\ Picked(s, P) = Through(s, e, k)

LEMMA PickedBy ==
    ASSUME NEW s, NEW P, IsFiniteSet(P), P \subseteq Int
    PROVE  \E k, e : Picking(s, P, k, e)
<1> DEFINE k == Cardinality(P)
           e == ByRank(P, Earlier)
<1>1. k = Cardinality(P) /\ k \in Nat
  BY FS_CardinalityType
<1>2. Lists(e, P, Earlier)
  BY EarlierOrders, ByRankLists
<1>3. Picked(s, P) = Through(s, e, k)
  BY PickedIs
<1> HIDE DEF e, k
<1>4. /\ \A r \in 1 .. k : e[r] \in P
      /\ \A i \in P : \E r \in 1 .. k : e[r] = i
      /\ \A q, r \in 1 .. k : q < r => e[q] < e[r]
  BY <1>1, <1>2 DEF Lists, Earlier
<1>5. Picking(s, P, k, e)
  BY <1>1, <1>3, <1>4 DEF Picking
<1> QED BY <1>5

\* h lists the positions of s by score, the earlier of equal ones first.
Sorting(s, n, h) ==
    /\ h \in [1 .. n -> 1 .. n]
    /\ \A i \in 1 .. n : \E r \in 1 .. n : h[r] = i
    /\ \A q, r \in 1 .. n : q < r =>
          s[h[q]].score > s[h[r]].score \/ (s[h[q]].score = s[h[r]].score /\ h[q] < h[r])
    /\ BestFirst(s) = Through(s, h, n)

LEMMA SortedBy ==
    ASSUME NEW s, NEW n \in Nat, DOMAIN s = 1 .. n, \A i \in 1 .. n : s[i].score \in Int
    PROVE  \E h : Sorting(s, n, h)
<1> DEFINE h == ByRank(DOMAIN s, Better(s))
<1>1. IsFiniteSet(DOMAIN s) /\ Cardinality(DOMAIN s) = n /\ DOMAIN s \subseteq Int
  BY FS_Interval
<1>2. Lists(h, DOMAIN s, Better(s))
  <2>1. Orders(Better(s), DOMAIN s)
    BY <1>1, BetterOrders
  <2> QED BY <1>1, <2>1, ByRankLists
<1>3. BestFirst(s) = [r \in DOMAIN s |-> s[h[r]]]
  BY BestFirstIs
<1>4. h = [r \in 1 .. n |-> h[r]]
  BY <1>1 DEF ByRank
<1> HIDE DEF h
<1>5. /\ \A r \in 1 .. n : h[r] \in 1 .. n
      /\ \A i \in 1 .. n : \E r \in 1 .. n : h[r] = i
      /\ \A q, r \in 1 .. n : q < r => <<h[q], h[r]>> \in Better(s)
  BY <1>1, <1>2 DEF Lists
<1>6. h \in [1 .. n -> 1 .. n]
  BY <1>4, <1>5
<1>7. \A q, r \in 1 .. n : q < r =>
          s[h[q]].score > s[h[r]].score \/ (s[h[q]].score = s[h[r]].score /\ h[q] < h[r])
  BY <1>5 DEF Better
<1>8. BestFirst(s) = Through(s, h, n)
  BY <1>3 DEF Through
<1>9. Sorting(s, n, h)
  BY <1>5, <1>6, <1>7, <1>8 DEF Sorting
<1> QED BY <1>9

\* The greatest of some numbers.
LEMMA GreatestIs ==
    ASSUME NEW S, S \subseteq Int, NEW m \in S, \A x \in S : x <= m
    PROVE  Max(S) = m
<1>1. \A x \in S : m >= x
  OBVIOUS
<1>2. Max(S) \in S /\ \A x \in S : Max(S) >= x
  BY <1>1, Zenon DEF Max
<1>3. PICK x : x = Max(S)
  OBVIOUS
<1>4. x \in S /\ \A y \in S : x >= y
  BY <1>2, <1>3, Zenon
<1>5. x = m
  BY <1>4
<1> QED BY <1>3, <1>5

LEMMA MaxIs ==
    ASSUME NEW S, S \subseteq Nat, NEW m \in S, \A x \in S : x <= m
    PROVE  Max(S) = m
<1>1. S \subseteq Int
  OBVIOUS
<1> QED BY <1>1, GreatestIs

\* The least of a set of numbers.
LEMMA LeastIs ==
    ASSUME NEW S, S \subseteq Int, NEW m \in S, \A x \in S : m <= x
    PROVE  Min(S) = m
<1>1. Min(S) \in S /\ \A x \in S : Min(S) <= x
  BY Zenon DEF Min
<1>2. PICK x : x = Min(S)
  OBVIOUS
<1>3. x \in S /\ \A y \in S : x <= y
  BY <1>1, <1>2, Zenon
<1>4. x = m
  BY <1>3
<1> QED BY <1>2, <1>4

\* What g lists, in the order of e and without a gap, is the beginning of e.
Gapless(g, l, e, m) ==
    /\ \A q \in 1 .. m : e[q] \in Int
    /\ \A q, r \in 1 .. m : q < r => e[q] < e[r]
    /\ \A s, t \in 1 .. l : s < t => g[s] < g[t]
    /\ \A t \in 1 .. l : \E r \in 1 .. m : e[r] = g[t]
    /\ \A r \in 1 .. m, t \in 1 .. l : e[r] <= g[t] => \E u \in 1 .. l : g[u] = e[r]

LEMMA ListBegins ==
    ASSUME NEW m \in Nat, NEW e, NEW l \in Nat, NEW g, Gapless(g, l, e, m)
    PROVE  \A t \in 1 .. l : t \in 1 .. m /\ g[t] = e[t]
<1>1. /\ \A q \in 1 .. m : e[q] \in Int
      /\ \A q, r \in 1 .. m : q < r => e[q] < e[r]
      /\ \A s, t \in 1 .. l : s < t => g[s] < g[t]
      /\ \A t \in 1 .. l : \E r \in 1 .. m : e[r] = g[t]
      /\ \A r \in 1 .. m, t \in 1 .. l : e[r] <= g[t] => \E u \in 1 .. l : g[u] = e[r]
  BY Zenon DEF Gapless
<1> DEFINE Same(t) == t \in 1 .. m /\ g[t] = e[t]
           others == {t \in 1 .. l : ~ Same(t)}
<1>2. others \subseteq Nat
  OBVIOUS
<1>3. \A t \in others : t \in 1 .. l /\ ~ Same(t)
  OBVIOUS
<1>4. \A t \in 1 .. l : t \notin others => Same(t)
  OBVIOUS
<1>5. others = {}
  <2> SUFFICES ASSUME others # {} PROVE FALSE
    OBVIOUS
  <2> HIDE DEF others
  <2>1. PICK t \in others : \A w \in others : t <= w
    BY <1>2, LeastNumber
  <2>2. t \in 1 .. l /\ ~ Same(t)
    BY <1>3
  <2>3. \A s \in 1 .. l : s < t => Same(s)
    <3> SUFFICES ASSUME NEW s \in 1 .. l, s < t PROVE Same(s)
      OBVIOUS
    <3>1. ~ (t <= s)
      BY <2>2
    <3> QED BY <1>4, <2>1, <3>1
  <2>4. PICK r \in 1 .. m : e[r] = g[t]
    BY <1>1, <2>2
  <2>5. ~ (r < t)
    <3> SUFFICES ASSUME r < t PROVE FALSE
      OBVIOUS
    <3>1. r \in 1 .. l
      BY <2>2
    <3>2. g[r] = e[r] /\ g[r] < g[t]
      BY <1>1, <2>2, <2>3, <3>1
    <3>3. e[r] \in Int
      BY <1>1
    <3> QED BY <2>4, <3>2, <3>3
  <2>6. t \in 1 .. m
    BY <2>2, <2>5
  <2>7. ~ (t < r)
    <3> SUFFICES ASSUME t < r PROVE FALSE
      OBVIOUS
    <3>1. e[t] < e[r] /\ e[t] \in Int /\ e[r] \in Int
      BY <1>1, <2>6
    <3>2. PICK u \in 1 .. l : g[u] = e[t]
      BY <1>1, <2>2, <2>4, <2>6, <3>1
    <3>3. u < t
      <4>1. g[u] < g[t] /\ g[u] \in Int /\ g[t] \in Int
        BY <2>4, <3>1, <3>2
      <4>2. u # t
        BY <4>1
      <4>3. ~ (t < u)
        <5> SUFFICES ASSUME t < u PROVE FALSE
          OBVIOUS
        <5>1. g[t] < g[u]
          BY <1>1, <2>2
        <5> QED BY <4>1, <5>1
      <4> QED BY <2>2, <4>2, <4>3
    <3>4. u \in 1 .. m /\ g[u] = e[u]
      BY <2>3, <3>3
    <3>5. e[u] < e[t]
      BY <1>1, <2>6, <3>3, <3>4
    <3> QED BY <3>1, <3>2, <3>4, <3>5
  <2>8. r = t
    BY <2>2, <2>5, <2>7
  <2> QED BY <2>2, <2>4, <2>6, <2>8
<1> QED BY <1>4, <1>5

====
