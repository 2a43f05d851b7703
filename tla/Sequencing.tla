---- MODULE Sequencing ----
(* Two ways in which several modules of memory/ handle a sequence: splitting  *)
(* it into overlapping windows, and sorting scored entries.                   *)
EXTENDS Integers, Sequences, FiniteSets, SequencesExt

MaxOf(a, b) == IF a > b THEN a ELSE b
MinOf(a, b) == IF a < b THEN a ELSE b

\* The first n entries of a sequence: s[:n].
Take(s, n) == SubSeq(s, 1, MinOf(n, Len(s)))

\* The positions start + 1 .. end of a sequence of length n: s[start:start + size].
Window(n, start, size) == [from |-> start, to |-> MinOf(start + size, n)]

\* Mutant: the loop does not stop at the window that reaches the end.
WindowsToTheEnd(n, size, overlap) ==
    LET step == MaxOf(1, size - overlap)
        from[start \in 0 .. n] ==
            <<Window(n, start, size)>> \o
                (IF start + step >= n THEN <<>> ELSE from[start + step])
    IN  from[0]

\* The loop of rag_store._split_chunks and extract._windows.
OverlappingWindows(n, size, overlap) ==
    LET step == MaxOf(1, size - overlap)
        from[start \in 0 .. n] ==
            <<Window(n, start, size)>> \o
                (IF start + size >= n THEN <<>> ELSE from[start + step])
    IN  from[0]

\* s.sort(key = score, reverse = True), which is stable.
BestFirst(s) ==
    LET rank(i) == Cardinality({j \in DOMAIN s :
                       \/ s[j].score > s[i].score
                       \/ s[j].score = s[i].score /\ j < i})
    IN  [r \in DOMAIN s |-> s[CHOOSE i \in DOMAIN s : rank(i) = r - 1]]

\* The members of S in an order that is total on S.
Sorted(S, before(_, _)) ==
    [r \in 1 .. Cardinality(S) |->
        CHOOSE x \in S : Cardinality({y \in S : before(y, x)}) = r - 1]

\* The entries of s at some positions, in order.
Picked(s, positions) ==
    [r \in 1 .. Cardinality(positions) |->
        s[CHOOSE i \in positions : Cardinality({j \in positions : j < i}) = r - 1]]

\* The entries of s that are in S, once each: idx in range and not in out.
OnceIn(s, S) ==
    Picked(s, {i \in DOMAIN s : s[i] \in S /\ \A j \in 1 .. i - 1 : s[j] # s[i]})

\* The entries of s whose name no earlier entry has: what is left of them in a
\* dict that is only written for keys it does not have.
FirstOfEach(s, name(_)) ==
    Picked(s, {i \in DOMAIN s : \A j \in 1 .. i - 1 : name(s[j]) # name(s[i])})

====
