---- MODULE CodebookProofs ----
(* Theorems about Codebook, for all memories, texts, thresholds and numbers of *)
(* rows.  An edit adds rows behind the others and changes the value of one row, *)
(* which has its native key or matches it with an equal label.  Keys and labels *)
(* never change, so whether an edit could reach a row never changes either, and *)
(* what provenance says of a row stays true.                                   *)
EXTENDS Codebook, FiniteSetTheorems, SequenceTheorems, TLAPS

----
\* Prompts and keys

\* An edit leaves at least one chat key, that of its stem.
LEMMA PromptsExist ==
    ASSUME NEW m \in Memory
    PROVE  /\ Len(Prompts(m)) \in Nat \ {0}
           /\ DOMAIN Prompts(m) = 1 .. Len(Prompts(m))
           /\ \A i \in 1 .. Len(Prompts(m)) : Prompts(m)[i] \in Text
<1> DEFINE s     == <<Stem[m]>> \o KeyPrompts[m]
           first == {i \in DOMAIN s : \A j \in 1 .. i - 1 : Lowered[s[j]] # Lowered[s[i]]}
           n     == Cardinality(first)
           p     == Prompts(m)
           S     == {p[i] : i \in 1 .. n}
<1>1. s \in Seq(DOMAIN Lowered) /\ Len(s) \in Nat \ {0}
  BY TextAssumption
<1>2. DOMAIN s = 1 .. Len(s)
  BY <1>1
<1>3. IsFiniteSet(first)
  <2>1. first \subseteq 1 .. Len(s)
    BY <1>2
  <2>2. \A k \in Int : IsFiniteSet(1 .. k)
    BY FS_Interval
  <2>3. IsFiniteSet(1 .. Len(s))
    BY <1>1, <2>2
  <2> QED BY <2>1, <2>3, FS_Subset
<1>4. 1 \in first
  BY <1>1, <1>2
<1>5. n \in Nat \ {0}
  <2> HIDE DEF first
  <2> QED BY <1>3, <1>4, FS_CardinalityType, FS_EmptySet
<1>6. p = [r \in 1 .. n |-> s[CHOOSE i \in first : Cardinality({j \in first : j < i}) = r - 1]]
  BY DEF Prompts, FirstOfEach, Picked
<1>7. p \in [1 .. n -> S] /\ DOMAIN p = 1 .. n
  <2> HIDE DEF n, s, first
  <2> QED BY <1>6
<1>8. p \in Seq(S) /\ Len(p) = n
  <2> HIDE DEF n, p, S
  <2>1. p \in Seq(S)
    BY <1>5, <1>7, SeqDef
  <2>2. Len(p) \in Nat /\ DOMAIN p = 1 .. Len(p)
    BY <2>1
  <2> QED BY <1>5, <1>7, <2>1, <2>2
<1>9. \A i \in 1 .. n : p[i] \in Text
  <2>1. ToSet(Prompts(m)) \subseteq Text
    BY DEF Text
  <2>2. \A i \in DOMAIN p : p[i] \in ToSet(Prompts(m))
    BY DEF ToSet
  <2> HIDE DEF n, p
  <2> QED BY <1>7, <2>1, <2>2
<1> QED BY <1>5, <1>7, <1>8, <1>9

\* Scores are natural numbers, and nothing is as near to a key as the key itself.
LEMMA ScoreType ==
    ASSUME NEW k \in KeyOf, NEW q \in KeyOf
    PROVE  /\ Score(k, q) \in Nat
           /\ Score(q, q) \in Nat /\ Score(q, q) > Threshold
           /\ Score(k, q) >= Score(q, q) => k = q
<1>1. Score(k, q) \in Nat /\ Score(q, q) \in Nat /\ Score(q, q) > Threshold
  BY SimilarityAssumption DEF Score
<1>2. k # q => Score(k, q) < Score(q, q)
  BY SimilarityAssumption DEF Score
<1> QED BY <1>1, <1>2

\* The native key of an edit is one of the two that it can have.
LEMMA NativeKeyType ==
    ASSUME NEW m \in Memory, NEW span
    PROVE  NativeKey(m, span) \in NativeKeys(m) /\ NativeKey(m, span) \in KeyOf
<1>1. Stem[m] \in Text
  BY TextAssumption DEF Text
<1> QED BY <1>1 DEF NativeKeys, NativeKey, Key, KeyOf, Answer

LEMMA HeroKeyType ==
    ASSUME NEW t \in Text
    PROVE  HeroKey(t) \in KeyOf /\ HeroKey(t).form = "chat"
           /\ HeroKey(t).text = t /\ HeroKey(t).beside = None
BY DEF HeroKey, Key, KeyOf, Answer

\* Whether an edit may train a row depends on what never changes of the row.
LEMMA MayTrainSame ==
    ASSUME NEW m, NEW row, NEW new, new.key = row.key, new.label = row.label
    PROVE  MayTrain(m, new) = MayTrain(m, row)
BY DEF MayTrain, IsMatch

\* A row that teaches one's own answer teaches it, and more memories that were
\* taught only explain more.
LEMMA TeachesOwn ==
    ASSUME NEW row, NEW m, NEW ms, row.teaches = Target[m]
    PROVE  TeachesFor(row, m, ms)
BY DEF TeachesFor

LEMMA TeachesMore ==
    ASSUME NEW row, NEW m, NEW ms, NEW ns, ms \subseteq ns, TeachesFor(row, m, ms)
    PROVE  TeachesFor(row, m, ns)
BY DEF TeachesFor

\* A row that an edit of m may have trained teaches for whom it taught, with m.
LEMMA TeachesAfter ==
    ASSUME NEW row, NEW new, NEW n, NEW m, NEW ms, TeachesFor(row, n, ms),
           new.key = row.key, new.label = row.label,
           new.teaches = row.teaches \/ (new.teaches = Target[m] /\ MayTrain(m, new))
    PROVE  TeachesFor(new, n, ms \union {m})
<1>1. \A o : MayTrain(o, new) = MayTrain(o, row)
  BY MayTrainSame
<1>2. CASE new.teaches = row.teaches
  BY <1>1, <1>2 DEF TeachesFor
<1>3. CASE new.teaches = Target[m] /\ MayTrain(m, new)
  BY <1>3 DEF TeachesFor
<1> QED BY <1>2, <1>3

----
\* What an edit does to the rows of the copy

\* AddKey keeps the rows and adds at most one behind them; the row that is trained
\* is one that the edit may train.
LEMMA AddKeyRows ==
    ASSUME NEW rows \in Seq(RowOf), NEW m \in Memory, NEW span,
           NEW e \in AddKey(rows, NativeKey(m, span), m)
    PROVE  /\ e.rows \in Seq(RowOf)
           /\ Len(e.rows) >= Len(rows)
           /\ \A i \in 1 .. Len(rows) : e.rows[i] = rows[i]
           /\ e.trained \in 1 .. Len(e.rows)
           /\ MayTrain(m, e.rows[e.trained])
           /\ \A i \in 1 .. Len(e.rows) : i > Len(rows) => e.rows[i].key.form # "chat"
<1> DEFINE q   == NativeKey(m, span)
           row == [key |-> q, teaches |-> None, label |-> Label[m]]
<1>1. q \in KeyOf /\ q \in NativeKeys(m) /\ q.form # "chat"
  BY NativeKeyType DEF NativeKey, Key
<1>2. row \in RowOf /\ row.key = q
  <2> HIDE DEF q
  <2> QED BY <1>1 DEF RowOf, Answer
<1>3. WithKey(rows, q, m) = Append(rows, row)
  BY DEF WithKey
<1>4. e \in Reused(rows, q, m) \/ e \in Added(rows, q, m)
  BY DEF AddKey
<1> HIDE DEF q, row
<1>5. CASE e \in Reused(rows, q, m)
  <2>1. /\ e.rows = rows
        /\ e.trained \in Best(rows, q)
        /\ Reusable(rows[e.trained], q, m)
    BY <1>5 DEF Reused
  <2>2. e.trained \in 1 .. Len(rows)
    BY <2>1 DEF Best
  <2>3. MayTrain(m, rows[e.trained])
    BY <1>1, <2>1 DEF MayTrain, Reusable
  <2> QED BY <2>1, <2>2, <2>3
<1>6. CASE e \in Added(rows, q, m)
  <2> DEFINE new == Append(rows, row)
  <2>1. e.rows = new /\ e.trained \in Best(new, q)
    BY <1>3, <1>6 DEF Added
  <2>2. /\ new \in Seq(RowOf)
        /\ Len(new) = Len(rows) + 1
        /\ \A i \in 1 .. Len(rows) : new[i] = rows[i]
        /\ new[Len(rows) + 1] = row
        /\ Len(rows) \in Nat
    BY <1>2
  <2> HIDE DEF new
  <2>3. e.trained \in 1 .. Len(new) /\ Len(rows) + 1 \in DOMAIN new
    BY <2>1, <2>2 DEF Best
  <2>4. new[e.trained].key \in KeyOf
    <3>1. new[e.trained] \in RowOf
      BY <2>2, <2>3
    <3> QED BY <3>1 DEF RowOf
  <2>5. Score(row.key, q) <= Score(new[e.trained].key, q)
    BY <2>1, <2>2, <2>3 DEF Best
  <2>6. new[e.trained].key = q
    BY <1>1, <1>2, <2>4, <2>5, ScoreType
  <2>7. MayTrain(m, new[e.trained])
    BY <1>1, <2>6 DEF MayTrain
  <2>8. \A i \in 1 .. Len(new) : i > Len(rows) => i = Len(rows) + 1
    BY <2>2
  <2> QED BY <1>1, <1>2, <2>1, <2>2, <2>3, <2>7, <2>8
<1> QED BY <1>4, <1>5, <1>6

\* The chat rows are copies of the trained row under the keys of the prompts.
LEMMA AppendChatKeysRows ==
    ASSUME NEW rows \in Seq(RowOf), NEW m \in Memory, NEW v \in 1 .. Len(rows)
    PROVE  LET n   == Len(Prompts(m))
               new == AppendChatKeys(rows, v, m)
           IN  /\ new \in Seq(RowOf)
               /\ Len(new) = Len(rows) + n
               /\ \A i \in 1 .. Len(rows) : new[i] = rows[i]
               /\ \A i \in 1 .. n :
                      new[Len(rows) + i] = [rows[v] EXCEPT !.key = HeroKey(Prompts(m)[i])]
<1> DEFINE n    == Len(Prompts(m))
           tail == [i \in DOMAIN Prompts(m) |-> [rows[v] EXCEPT !.key = HeroKey(Prompts(m)[i])]]
<1>1. n \in Nat /\ DOMAIN Prompts(m) = 1 .. n
  BY PromptsExist
<1>2. \A i \in 1 .. n : [rows[v] EXCEPT !.key = HeroKey(Prompts(m)[i])] \in RowOf
  <2>1. rows[v] \in RowOf
    OBVIOUS
  <2>2. \A i \in 1 .. n : HeroKey(Prompts(m)[i]) \in KeyOf
    BY PromptsExist, HeroKeyType
  <2> HIDE DEF n
  <2> QED BY <2>1, <2>2 DEF RowOf
<1>3. /\ tail \in Seq(RowOf)
      /\ Len(tail) = n
      /\ \A i \in 1 .. n : tail[i] = [rows[v] EXCEPT !.key = HeroKey(Prompts(m)[i])]
  <2> HIDE DEF n
  <2>1. tail \in [1 .. n -> RowOf]
    BY <1>1, <1>2
  <2>2. \A i \in 1 .. n : tail[i] = [rows[v] EXCEPT !.key = HeroKey(Prompts(m)[i])]
    BY <1>1
  <2> HIDE DEF tail
  <2>3. tail \in Seq(RowOf) /\ DOMAIN tail = 1 .. n
    BY <1>1, <2>1, SeqDef
  <2>4. Len(tail) \in Nat /\ DOMAIN tail = 1 .. Len(tail)
    BY <2>3
  <2> QED BY <1>1, <2>2, <2>3, <2>4
<1>4. AppendChatKeys(rows, v, m) = rows \o tail
  BY DEF AppendChatKeys
<1> HIDE DEF tail
<1>5. /\ rows \o tail \in Seq(RowOf)
      /\ Len(rows \o tail) = Len(rows) + n
      /\ \A i \in 1 .. Len(rows) : (rows \o tail)[i] = rows[i]
      /\ \A i \in 1 .. n : (rows \o tail)[Len(rows) + i] = tail[i]
  <2> HIDE DEF n
  <2> QED BY <1>1, <1>3
<1> QED BY <1>3, <1>4, <1>5

\* The rows of an edited copy: no row moves or gets another key or label, the value
\* of row v alone changes, and the new chat rows are the memory's own.
Edited(rows, b, m, v, edited) ==
    /\ edited \in Seq(RowOf)
    /\ b \in Nat /\ b >= Len(rows)
    /\ v \in 1 .. Len(edited) /\ edited[v].teaches = Target[m] /\ MayTrain(m, edited[v])
    /\ Len(edited) = b + Len(Prompts(m))
    /\ \A i \in 1 .. Len(rows) : /\ edited[i].key = rows[i].key
                                 /\ edited[i].label = rows[i].label
                                 /\ i # v => edited[i] = rows[i]
    /\ \A i \in 1 .. b : i > Len(rows) => edited[i].key.form # "chat"
    /\ \A i \in 1 .. Len(Prompts(m)) :
           /\ edited[b + i].key = HeroKey(Prompts(m)[i])
           /\ edited[b + i].teaches = Target[m]

LEMMA EditedRows ==
    ASSUME NEW rows \in Seq(RowOf), NEW m \in Memory, NEW span,
           NEW e \in AddKey(rows, NativeKey(m, span), m)
    PROVE  Edited(rows, Len(e.rows), m, e.trained, Taught(e.rows, e.trained, m))
<1> DEFINE new     == e.rows
           v       == e.trained
           trained == [new EXCEPT ![v].teaches = Target[m]]
           edited  == AppendChatKeys(trained, v, m)
           n       == Len(Prompts(m))
<1>1. /\ new \in Seq(RowOf)
      /\ Len(new) >= Len(rows)
      /\ \A i \in 1 .. Len(rows) : new[i] = rows[i]
      /\ \A i \in 1 .. Len(new) : i > Len(rows) => new[i].key.form # "chat"
      /\ v \in 1 .. Len(new)
      /\ MayTrain(m, new[v])
  BY AddKeyRows
<1> HIDE DEF new, v
<1>2. /\ [new[v] EXCEPT !.teaches = Target[m]] \in RowOf
      /\ [new[v] EXCEPT !.teaches = Target[m]].key = new[v].key
      /\ [new[v] EXCEPT !.teaches = Target[m]].label = new[v].label
      /\ [new[v] EXCEPT !.teaches = Target[m]].teaches = Target[m]
  <2>1. new[v] \in RowOf
    BY <1>1
  <2> QED BY <2>1 DEF RowOf, Answer
<1>3. /\ trained \in Seq(RowOf)
      /\ Len(trained) = Len(new)
      /\ trained[v].key = new[v].key
      /\ trained[v].label = new[v].label
      /\ trained[v].teaches = Target[m]
      /\ \A i \in 1 .. Len(new) : i # v => trained[i] = new[i]
  <2>1. trained = [new EXCEPT ![v] = [new[v] EXCEPT !.teaches = Target[m]]]
    OBVIOUS
  <2> HIDE DEF trained
  <2> QED BY <1>1, <1>2, <2>1
<1> HIDE DEF trained
<1>4. /\ edited \in Seq(RowOf)
      /\ Len(edited) = Len(new) + n
      /\ \A i \in 1 .. Len(new) : edited[i] = trained[i]
      /\ \A i \in 1 .. n :
             edited[Len(new) + i] = [trained[v] EXCEPT !.key = HeroKey(Prompts(m)[i])]
  BY <1>1, <1>3, AppendChatKeysRows
<1>5. n \in Nat
  BY PromptsExist
<1>6. Len(new) \in Nat /\ Len(rows) \in Nat
  BY <1>1
<1> HIDE DEF edited, n
<1>7. \A i \in 1 .. n : /\ edited[Len(new) + i].key = HeroKey(Prompts(m)[i])
                        /\ edited[Len(new) + i].teaches = Target[m]
  <2>1. trained[v] \in RowOf
    BY <1>1, <1>3
  <2>2. \A k : /\ [trained[v] EXCEPT !.key = k].key = k
               /\ [trained[v] EXCEPT !.key = k].teaches = trained[v].teaches
    BY <2>1 DEF RowOf
  <2>3. SUFFICES ASSUME NEW i \in 1 .. n
                 PROVE  /\ edited[Len(new) + i].key = HeroKey(Prompts(m)[i])
                        /\ edited[Len(new) + i].teaches = Target[m]
    OBVIOUS
  <2>4. edited[Len(new) + i] = [trained[v] EXCEPT !.key = HeroKey(Prompts(m)[i])]
    BY <1>4
  <2> QED BY <1>3, <2>2, <2>4
<1>8. \A i \in 1 .. Len(new) : edited[i].key = new[i].key /\ edited[i].label = new[i].label
  BY <1>3, <1>4
<1>9. \A i \in 1 .. Len(rows) : /\ edited[i].key = rows[i].key
                                /\ edited[i].label = rows[i].label
                                /\ i # v => edited[i] = rows[i]
  <2> SUFFICES ASSUME NEW i \in 1 .. Len(rows)
               PROVE  /\ edited[i].key = rows[i].key
                      /\ edited[i].label = rows[i].label
                      /\ i # v => edited[i] = rows[i]
    OBVIOUS
  <2>1. i \in 1 .. Len(new) /\ new[i] = rows[i]
    BY <1>1, <1>6
  <2> QED BY <1>3, <1>4, <1>8, <2>1
<1>10. /\ v \in 1 .. Len(edited)
       /\ edited[v].teaches = Target[m]
       /\ MayTrain(m, edited[v])
  <2>1. v \in 1 .. Len(edited) /\ edited[v] = trained[v]
    BY <1>1, <1>4, <1>5, <1>6
  <2>2. MayTrain(m, edited[v]) = MayTrain(m, new[v])
    BY <1>1, <1>8, MayTrainSame
  <2> QED BY <1>1, <1>3, <2>1, <2>2
<1>11. \A i \in 1 .. Len(new) : i > Len(rows) => edited[i].key.form # "chat"
  BY <1>1, <1>8
<1>12. Edited(rows, Len(new), m, v, edited)
  BY <1>1, <1>4, <1>6, <1>7, <1>9, <1>10, <1>11 DEF Edited, n
<1> QED BY <1>12 DEF edited, trained, new, v, Taught

----
\* The invariant

AdapterOf == [rows : Seq(RowOf), mode : {"value", "none"}, span : (Query \X (Context \union {None})) \union {None}]
WorkerOf == [at : {"idle", "clone", "train", "promote", "commit"},
             memory : Memory \union {None}, native : Nat, before : Nat]
ChatOf == [at : {"start", "probe", "span", "decode", "attribute", "gate", "reply"},
           query : Query \union {None}, window : Context \union {None},
           row : RowOf \union {None},
           gated : RowOf \union {None}, memory : Memory \union {None}]
ProvOf == [native : Nat, chat : Nat, canonical : Seq(Nat)]

Types ==
    /\ live \in AdapterOf
    /\ shadow \in AdapterOf
    /\ lock \in Chat \union {None}
    /\ worker \in WorkerOf
    /\ worker.at # "idle" => worker.memory \in Memory
    /\ chat \in [Chat -> ChatOf]
    /\ status \in [Memory -> {"buffer", "consolidated", "retired"}]
    /\ prov \in [Memory -> ProvOf \union {None}]
    /\ \A m \in Memory : status[m] # "buffer" => prov[m] # None
    /\ file \in Seq(RowOf)
    /\ taught \subseteq Memory

\* Outside a session the adapter is as an answer left it; inside, only the answer
\* that holds the lock changes its mode and span.
Sessions ==
    /\ InSession = IF lock = None THEN {} ELSE {lock}
    /\ \A c \in Chat : chat[c].at \in {"probe", "span"} => chat[c].query \in Query
    /\ \A c \in Chat : chat[c].at \in {"span", "decode"} /\ Active => live.mode = "value"
    /\ \A c \in Chat : chat[c].at = "decode" /\ Active =>
           live.span = <<chat[c].query, chat[c].window>>

\* What a record p of m says of these rows is true, if only ms were taught since.
KeptBy(rows, m, p, ms) ==
    LET named == <<p.chat>> \o p.canonical
    IN  /\ \A i \in DOMAIN named :
               /\ named[i] \in DOMAIN rows
               /\ rows[named[i]].key = HeroKey(Prompts(m)[i])
               /\ TeachesFor(rows[named[i]], m, ms)
        /\ p.native \in DOMAIN rows
        /\ MayTrain(m, rows[p.native])
        /\ TeachesFor(rows[p.native], m, ms)
        /\ Len(p.canonical) = Len(Prompts(m)) - 1

RowsKept(rows, m, ms) == KeptBy(rows, m, prov[m], ms)

\* The rows of an edit of m that trained row v and put its chat rows behind row b.
EditOf(rows, m, v, b) ==
    /\ v \in DOMAIN rows
    /\ MayTrain(m, rows[v])
    /\ rows[v].teaches = Target[m]
    /\ \A i \in 1 .. Len(Prompts(m)) :
           /\ b + i \in DOMAIN rows
           /\ rows[b + i].key = HeroKey(Prompts(m)[i])
           /\ rows[b + i].teaches = Target[m]

\* The edit that the worker has in hand left its rows there.
OwnRows(rows) == EditOf(rows, worker.memory, worker.native, worker.before)

\* A chat row was left by one of these memories, and retrained only by others.
LeftBy(rows, ms) ==
    \A r \in DOMAIN rows : rows[r].key.form = "chat" =>
        \E n \in ms : \E i \in DOMAIN Prompts(n) :
            rows[r].key = HeroKey(Prompts(n)[i]) /\ TeachesFor(rows[r], n, ms)

\* Provenance is true of the live rows, of the copy while it is edited, and of the
\* checkpoint except for memories whose promotion it missed; a memory whose edit
\* is promoted and not yet recorded finds its rows there.
Records ==
    /\ \A m \in Memory : prov[m] # None => m \in taught
    /\ worker.at = "commit" => worker.memory \in taught
    /\ \A m \in Recorded : RowsKept(live.rows, m, taught)
    /\ worker.at = "train" => \A m \in Recorded : RowsKept(shadow.rows, m, taught)
    /\ worker.at = "promote" =>
           \A m \in Recorded : RowsKept(shadow.rows, m, taught \union {worker.memory})
    /\ \A m \in Recorded \ unsaved : RowsKept(file, m, taught)
    /\ worker.at = "promote" => OwnRows(shadow.rows)
    /\ worker.at = "commit" => OwnRows(live.rows)
    /\ worker.at = "commit" /\ worker.memory \notin unsaved => OwnRows(file)

Lessons ==
    /\ LeftBy(live.rows, taught)
    /\ LeftBy(file, taught)
    /\ worker.at = "train" => LeftBy(shadow.rows, taught)
    /\ worker.at = "promote" => LeftBy(shadow.rows, taught \union {worker.memory})

\* What an answer's frame was attributed to is the row of that memory, which one of
\* ts may have retrained.
Explained(frame, ts, ls) ==
    frame.memory \notin ls \union {None} =>
        /\ BelongsTo(frame.gated, frame.memory)
        /\ TeachesFor(frame.gated, frame.memory, ts)

Attributions == \A c \in Chat : Explained(chat[c], taught, lost)

Inv == Types /\ Sessions /\ Records /\ Lessons /\ Attributions

----
\* Each part of the invariant is kept

LEMMA PlaceholderType == Placeholder \in RowOf /\ <<Placeholder>> \in Seq(RowOf)
<1>1. Placeholder \in RowOf
  BY DEF Placeholder, RowOf, KeyOf, Answer
<1> QED BY <1>1

LEMMA RetrievedType ==
    ASSUME NEW rows \in Seq(RowOf), NEW q, NEW r \in Retrieved(rows, q)
    PROVE  RowAt(rows, r) \in RowOf \union {None}
BY DEF Retrieved, Best, RowAt

\* What the worker records of an edit with n prompts, which begin behind row b.
LEMMA RecordType ==
    ASSUME NEW b \in Nat, NEW n \in Nat \ {0}
    PROVE  LET canonical == [i \in 1 .. n - 1 |-> b + 1 + i]
           IN  /\ canonical \in Seq(Nat)
               /\ Len(canonical) = n - 1
               /\ DOMAIN (<<b + 1>> \o canonical) = 1 .. n
               /\ \A i \in 1 .. n : (<<b + 1>> \o canonical)[i] = b + i
<1> DEFINE canonical == [i \in 1 .. n - 1 |-> b + 1 + i]
<1>1. canonical \in [1 .. n - 1 -> Nat] /\ \A i \in 1 .. n - 1 : canonical[i] = b + 1 + i
  OBVIOUS
<1>2. n - 1 \in Nat
  OBVIOUS
<1> HIDE DEF canonical
<1>3. canonical \in Seq(Nat) /\ DOMAIN canonical = 1 .. n - 1
  BY <1>1, <1>2, SeqDef
<1>4. Len(canonical) = n - 1
  <2>1. Len(canonical) \in Nat /\ DOMAIN canonical = 1 .. Len(canonical)
    BY <1>3
  <2> QED BY <1>2, <1>3, <2>1
<1>5. <<b + 1>> \in Seq(Nat) /\ Len(<<b + 1>>) = 1
  OBVIOUS
<1>6. /\ DOMAIN (<<b + 1>> \o canonical) = 1 .. n
      /\ \A i \in 1 .. n : (<<b + 1>> \o canonical)[i] =
             IF i <= 1 THEN b + 1 ELSE canonical[i - 1]
  BY <1>3, <1>4, <1>5
<1> QED BY <1>1, <1>3, <1>4, <1>6 DEF canonical

\* What a training does to the frame of the worker.
LEMMA TrainStep ==
    ASSUME shadow \in AdapterOf, worker \in WorkerOf, worker.memory \in Memory, TrainShadow
    PROVE  /\ shadow.rows \in Seq(RowOf) /\ worker.at = "train"
           /\ shadow' \in AdapterOf /\ worker' \in WorkerOf
           /\ worker'.at = "promote" /\ worker'.memory = worker.memory
           /\ Edited(shadow.rows, worker'.before, worker.memory, worker'.native, shadow'.rows)
           /\ UNCHANGED <<live, prov, file, taught, unsaved, lost>>
<1> DEFINE m == worker.memory
           q == NativeKey(m, shadow.span)
<1>1. m \in Memory /\ shadow.rows \in Seq(RowOf)
  BY DEF AdapterOf
<1>2. PICK e \in AddKey(shadow.rows, q, m) :
          /\ shadow' = [shadow EXCEPT !.rows = Taught(e.rows, e.trained, m)]
          /\ worker' = [worker EXCEPT !.at = "promote", !.native = e.trained,
                                      !.before = Len(e.rows)]
  BY DEF TrainShadow
<1> DEFINE new == Taught(e.rows, e.trained, m)
           b   == Len(e.rows)
           v   == e.trained
<1>3. Edited(shadow.rows, b, m, v, new)
  BY <1>1, EditedRows
<1>4. new \in Seq(RowOf) /\ b \in Nat /\ v \in Nat
  <2> HIDE DEF new, b, v
  <2> QED BY <1>3 DEF Edited
<1>5. /\ shadow' = [shadow EXCEPT !.rows = new]
      /\ worker' = [worker EXCEPT !.at = "promote", !.native = v, !.before = b]
  BY <1>2
<1> HIDE DEF new, b, v, m, q
<1>6. shadow' \in AdapterOf /\ shadow'.rows = new
  BY <1>4, <1>5 DEF AdapterOf
<1>7. /\ worker' \in WorkerOf
      /\ worker'.at = "promote" /\ worker'.memory = worker.memory
      /\ worker'.native = v /\ worker'.before = b
  BY <1>4, <1>5 DEF WorkerOf
<1>8. UNCHANGED <<live, prov, file, taught, unsaved, lost>> /\ worker.at = "train"
  BY DEF TrainShadow, history
<1> QED BY <1>1, <1>3, <1>6, <1>7, <1>8 DEF m

LEMMA TypesInit == Init => Types
BY PlaceholderType DEF Init, Types, Linear, Adapter, AdapterOf, WorkerOf, ChatOf, Idle, NewChat

LEMMA TypesStep ==
    ASSUME Types, Sessions, Next
    PROVE  Types'
<1>0. /\ live \in AdapterOf /\ shadow \in AdapterOf
      /\ worker \in WorkerOf
      /\ chat \in [Chat -> ChatOf]
  BY DEF Types
<1>1. ASSUME NEW m \in Memory, BeginEdit(m) PROVE Types'
  BY <1>1 DEF Types, BeginEdit, Idle, WorkerOf, history
<1>2. CASE CloneAdapter
  BY <1>2, PlaceholderType DEF Types, CloneAdapter, Adapter, AdapterOf, WorkerOf, history
<1>3. CASE TrainShadow
  <2>1. shadow' \in AdapterOf /\ worker' \in WorkerOf /\ worker'.memory \in Memory
    <3>1. worker.memory \in Memory
      BY <1>3 DEF Types, TrainShadow
    <3> QED BY <1>0, <1>3, <3>1, TrainStep
  <2> QED BY <1>3, <2>1 DEF Types, TrainShadow, history
<1>4. CASE EditRaises
  <2>1. shadow' \in AdapterOf
    BY <1>4 DEF EditRaises, Linear, Adapter, AdapterOf
  <2>2. worker' \in WorkerOf /\ (worker'.at # "idle" => worker'.memory \in Memory)
    BY <1>0, <1>4 DEF Types, EditRaises, Idle, WorkerOf
  <2> QED BY <1>4, <2>1, <2>2 DEF Types, EditRaises, history
<1>5. CASE Promote
  <2>1. shadow' \in AdapterOf
    BY <1>5 DEF Promote, Linear, Adapter, AdapterOf
  <2>2. worker' \in WorkerOf /\ worker'.memory = worker.memory /\ worker.at = "promote"
    BY <1>0, <1>5 DEF Promote, WorkerOf
  <2>3. live' \in AdapterOf /\ file' \in Seq(RowOf)
    BY <1>0, <1>5 DEF Types, Promote, AdapterOf
  <2> QED BY <1>5, <2>1, <2>2, <2>3 DEF Types, Promote
<1>6. CASE Commit
  <2> DEFINE m == worker.memory
             n == Len(Prompts(m))
             record == [native |-> worker.native, chat |-> worker.before + 1,
                        canonical |-> [i \in 1 .. n - 1 |-> worker.before + 1 + i]]
  <2>1. m \in Memory /\ worker.native \in Nat /\ worker.before \in Nat
    BY <1>6 DEF Types, Commit, WorkerOf
  <2>2. record \in ProvOf
    BY <2>1, PromptsExist, RecordType DEF ProvOf
  <2>3. record # None
    BY <2>2, NoneAssumption DEF ProvOf
  <2>4. prov' = [prov EXCEPT ![m] = record] /\ worker' = Idle
    BY <1>6 DEF Commit
  <2>5. /\ status' \in [Memory -> {"buffer", "consolidated", "retired"}]
        /\ \A o \in Memory \ {m} : status'[o] # "buffer" => status[o] # "buffer"
    BY <1>6, <2>1 DEF Types, Commit
  <2> HIDE DEF record, m
  <2>6. /\ prov' \in [Memory -> ProvOf \union {None}]
        /\ \A o \in Memory : status'[o] # "buffer" => prov'[o] # None
    BY <2>1, <2>2, <2>3, <2>4, <2>5 DEF Types
  <2> QED BY <1>6, <2>4, <2>5, <2>6 DEF Types, Commit, Idle, WorkerOf, history
<1>7. ASSUME NEW c \in Chat, NEW q \in Query, EnterSession(c, q) PROVE Types'
  <2>1. chat' \in [Chat -> ChatOf]
    BY <1>0, <1>7 DEF EnterSession, ChatOf
  <2>2. live' \in AdapterOf
    BY <1>0, <1>7 DEF EnterSession, AdapterOf
  <2> QED BY <1>7, <2>1, <2>2 DEF Types, EnterSession, history
<1>8. ASSUME NEW c \in Chat, EndProbe(c) PROVE Types'
  <2>1. chat' \in [Chat -> ChatOf]
    BY <1>0, <1>8 DEF EndProbe, ChatOf
  <2>2. live' \in AdapterOf
    BY <1>0, <1>8 DEF EndProbe, AdapterOf
  <2> QED BY <1>8, <2>1, <2>2 DEF Types, EndProbe, history
<1>9. ASSUME NEW c \in Chat, SetQuerySpan(c) PROVE Types'
  <2>1. chat[c].query \in Query
    BY <1>9 DEF Sessions, SetQuerySpan
  <2>2. PICK w \in Context \union {None} :
            /\ live' = [live EXCEPT !.span = <<chat[c].query, w>>]
            /\ chat' = [chat EXCEPT ![c].at = "decode", ![c].window = w]
    BY <1>9 DEF SetQuerySpan
  <2>3. chat' \in [Chat -> ChatOf] /\ chat'[c].at = "decode"
    BY <1>0, <2>2 DEF ChatOf
  <2>4. live' \in AdapterOf
    <3>1. <<chat[c].query, w>> \in Query \X (Context \union {None})
      BY <2>1
    <3> QED BY <1>0, <2>2, <3>1 DEF AdapterOf
  <2>5. \A d \in Chat \ {c} : chat'[d] = chat[d]
    BY <1>0, <2>2
  <2> QED BY <1>9, <2>3, <2>4, <2>5 DEF Types, SetQuerySpan, history
<1>10. ASSUME NEW c \in Chat, Decode(c) PROVE Types'
  <2>1. \A r \in Retrieved(live.rows, SpanKey(chat[c].query, chat[c].window)) :
            RowAt(live.rows, r) \in RowOf \union {None}
    BY <1>0, RetrievedType DEF AdapterOf
  <2>2. CASE Active
    <3>1. PICK r \in Retrieved(live.rows, SpanKey(chat[c].query, chat[c].window)) :
              chat' = [chat EXCEPT ![c].row = RowAt(live.rows, r), ![c].at = "attribute"]
      BY <1>10, <2>2 DEF Decode
    <3>2. RowAt(live.rows, r) \in RowOf \union {None}
      BY <2>1
    <3>3. chat' \in [Chat -> ChatOf]
      BY ZenonT(40), <1>0, <3>1, <3>2 DEF ChatOf
    <3> QED BY <1>10, <2>2, <3>3 DEF Types, Decode, history
  <2>3. CASE ~Active
    <3>1. chat' \in [Chat -> ChatOf]
      BY <1>0, <1>10, <2>3 DEF Decode, ChatOf
    <3> QED BY <1>10, <2>3, <3>1 DEF Types, Decode, history
  <2> QED BY <2>2, <2>3
<1>11. ASSUME NEW c \in Chat, BeginGate(c) PROVE Types'
  <2>1. chat' \in [Chat -> ChatOf]
    BY <1>0, <1>11 DEF BeginGate, ChatOf
  <2>2. live' \in AdapterOf
    BY <1>0, <1>11 DEF BeginGate, AdapterOf
  <2> QED BY <1>11, <2>1, <2>2 DEF Types, BeginGate, history
<1>12. ASSUME NEW c \in Chat, EndGate(c) PROVE Types'
  <2>1. chat' \in [Chat -> ChatOf]
    <3>1. CASE chat' = [chat EXCEPT ![c] = [NewChat EXCEPT !.at = "reply"]]
      BY <1>0, <3>1 DEF NewChat, ChatOf
    <3>2. ASSUME NEW r \in Retrieved(live.rows, HeroKey(chat[c].query)),
                 NEW m \in IF Claimants(r) = {} THEN {None} ELSE Claimants(r),
                 chat' = [chat EXCEPT ![c].at = "reply", ![c].memory = m,
                                      ![c].gated = RowAt(live.rows, r)]
          PROVE  chat' \in [Chat -> ChatOf]
      <4>1. RowAt(live.rows, r) \in RowOf \union {None}
        BY <1>0, RetrievedType DEF AdapterOf
      <4>2. m \in Memory \union {None}
        BY DEF Claimants
      <4> DEFINE row == RowAt(live.rows, r)
      <4> HIDE DEF row
      <4>3. chat' = [chat EXCEPT ![c].at = "reply", ![c].memory = m, ![c].gated = row]
        BY <3>2 DEF row
      <4>4. row \in RowOf \union {None}
        BY <4>1 DEF row
      <4>5. [chat[c] EXCEPT !.at = "reply", !.memory = m, !.gated = row] \in ChatOf
        <5>1. chat[c] \in ChatOf
          BY <1>0
        <5> QED BY <4>2, <4>4, <5>1 DEF ChatOf
      <4>6. chat' = [chat EXCEPT ![c] =
                        [chat[c] EXCEPT !.at = "reply", !.memory = m, !.gated = row]]
        BY <4>3
      <4> QED BY <1>0, <4>5, <4>6
    <3> QED BY <1>12, <3>1, <3>2 DEF EndGate
  <2>2. live' \in AdapterOf
    BY <1>0, <1>12 DEF EndGate, AdapterOf
  <2> QED BY <1>12, <2>1, <2>2 DEF Types, EndGate, history
<1>13. ASSUME NEW c \in Chat, Reply(c) PROVE Types'
  BY <1>13 DEF Types, Reply, ChatOf, NewChat, history
<1>14. CASE Restart
  <2>1. Linear \in AdapterOf /\ Adapter(file) \in AdapterOf
    BY DEF Types, Linear, Adapter, AdapterOf
  <2>2. Idle \in WorkerOf /\ Idle.at = "idle" /\ NewChat \in ChatOf
    BY DEF Idle, WorkerOf, NewChat, ChatOf
  <2> QED BY <1>14, <2>1, <2>2 DEF Types, Restart
<1> QED BY <1>1, <1>2, <1>3, <1>4, <1>5, <1>6, <1>7, <1>8, <1>9, <1>10, <1>11, <1>12,
           <1>13, <1>14 DEF Next

\* What Decode and EndGate do to the frame of their answer.
LEMMA DecodeFrame ==
    ASSUME chat \in [Chat -> ChatOf], NEW c \in Chat, Decode(c)
    PROVE  /\ chat[c].at = "decode"
           /\ \/ chat'[c].at = "attribute" /\ lock' = lock
              \/ chat'[c].at = "reply" /\ lock' = None
           /\ chat'[c].memory = chat[c].memory /\ chat'[c].gated = chat[c].gated
           /\ \A d \in Chat \ {c} : chat'[d] = chat[d]
           /\ live' = live
<1>1. CASE Active
  <2>1. PICK r \in Retrieved(live.rows, SpanKey(chat[c].query, chat[c].window)) :
            chat' = [chat EXCEPT ![c].row = RowAt(live.rows, r), ![c].at = "attribute"]
    BY <1>1 DEF Decode
  <2>2. PICK row : chat' = [chat EXCEPT ![c].row = row, ![c].at = "attribute"]
    BY <2>1
  <2>3. /\ chat'[c].at = "attribute"
        /\ chat'[c].memory = chat[c].memory /\ chat'[c].gated = chat[c].gated
        /\ \A d \in Chat \ {c} : chat'[d] = chat[d]
    BY <2>2 DEF ChatOf
  <2> QED BY <1>1, <2>3 DEF Decode
<1>2. CASE ~Active
  <2>1. chat' = [chat EXCEPT ![c].at = "reply"]
    BY <1>2 DEF Decode
  <2>2. /\ chat'[c].at = "reply"
        /\ chat'[c].memory = chat[c].memory /\ chat'[c].gated = chat[c].gated
        /\ \A d \in Chat \ {c} : chat'[d] = chat[d]
    BY <2>1 DEF ChatOf
  <2> QED BY <1>2, <2>2 DEF Decode
<1> QED BY <1>1, <1>2

LEMMA EndGateFrame ==
    ASSUME chat \in [Chat -> ChatOf], NEW c \in Chat, EndGate(c)
    PROVE  /\ chat[c].at = "gate" /\ chat'[c].at = "reply"
           /\ lock' = None
           /\ \A d \in Chat \ {c} : chat'[d] = chat[d]
           /\ \/ chat'[c].memory = None
              \/ \E r \in Retrieved(live.rows, HeroKey(chat[c].query)) :
                    /\ chat'[c].memory \in Claimants(r)
                    /\ chat'[c].gated = RowAt(live.rows, r)
<1>1. CASE chat' = [chat EXCEPT ![c] = [NewChat EXCEPT !.at = "reply"]]
  BY <1>1 DEF EndGate, NewChat
<1>2. ASSUME NEW r \in Retrieved(live.rows, HeroKey(chat[c].query)),
             NEW m \in IF Claimants(r) = {} THEN {None} ELSE Claimants(r),
             chat' = [chat EXCEPT ![c].at = "reply", ![c].memory = m,
                                  ![c].gated = RowAt(live.rows, r)]
      PROVE  /\ chat'[c].at = "reply"
             /\ chat'[c].memory = m
             /\ chat'[c].gated = RowAt(live.rows, r)
             /\ \A d \in Chat \ {c} : chat'[d] = chat[d]
  <2> DEFINE row == RowAt(live.rows, r)
  <2> HIDE DEF row
  <2>1. chat' = [chat EXCEPT ![c].at = "reply", ![c].memory = m, ![c].gated = row]
    BY <1>2 DEF row
  <2>2. /\ chat'[c].at = "reply"
        /\ chat'[c].memory = m
        /\ chat'[c].gated = row
        /\ \A d \in Chat \ {c} : chat'[d] = chat[d]
    BY <2>1 DEF ChatOf
  <2> QED BY <2>2 DEF row
<1>3. chat[c].at = "gate" /\ lock' = None
  BY DEF EndGate
<1>4. \/ chat' = [chat EXCEPT ![c] = [NewChat EXCEPT !.at = "reply"]]
      \/ \E r \in Retrieved(live.rows, HeroKey(chat[c].query)) :
         \E m \in IF Claimants(r) = {} THEN {None} ELSE Claimants(r) :
            chat' = [chat EXCEPT ![c].at = "reply", ![c].memory = m,
                                 ![c].gated = RowAt(live.rows, r)]
  BY DEF EndGate
<1>5. CASE \E r \in Retrieved(live.rows, HeroKey(chat[c].query)) :
           \E m \in IF Claimants(r) = {} THEN {None} ELSE Claimants(r) :
              chat' = [chat EXCEPT ![c].at = "reply", ![c].memory = m,
                                   ![c].gated = RowAt(live.rows, r)]
  BY <1>2, <1>3, <1>5
<1> QED BY <1>1, <1>3, <1>4, <1>5

LEMMA SessionsInit == Init => Sessions
BY DEF Init, Sessions, InSession, NewChat, Active, Linear, Adapter

LEMMA SessionsStep ==
    ASSUME Types, Sessions, Next
    PROVE  Sessions'
<1>0. /\ live \in AdapterOf
      /\ lock \in Chat \union {None} /\ None \notin Chat
      /\ chat \in [Chat -> ChatOf]
  BY NoneAssumption DEF Types
<1>1. CASE UNCHANGED <<live, lock, chat>>
  BY <1>1 DEF Sessions, InSession, Active
<1>2. CASE Promote
  <2>1. InSession = {} /\ lock' = None /\ chat' = chat
    BY <1>2 DEF Promote, Sessions
  <2> QED BY <2>1 DEF Sessions, InSession
<1>3. ASSUME NEW c \in Chat, NEW q \in Query, EnterSession(c, q) PROVE Sessions'
  <2>1. InSession = {} /\ lock' = c
    BY <1>3 DEF EnterSession, Sessions
  <2>2. /\ chat'[c].at = IF Active THEN "probe" ELSE "decode"
        /\ chat'[c].query = q
        /\ \A d \in Chat \ {c} : chat'[d] = chat[d]
    BY <1>0, <1>3 DEF EnterSession, ChatOf
  <2>3. Active' = Active
    BY <1>0, <1>3 DEF EnterSession, Active, AdapterOf
  <2> QED BY <1>0, <2>1, <2>2, <2>3 DEF Sessions, InSession
<1>4. ASSUME NEW c \in Chat, EndProbe(c) PROVE Sessions'
  <2>1. /\ chat'[c].at = "span" /\ chat[c].at = "probe" /\ chat'[c].query = chat[c].query
        /\ \A d \in Chat \ {c} : chat'[d] = chat[d]
        /\ live'.mode = "value" /\ lock' = lock
    BY <1>0, <1>4 DEF EndProbe, ChatOf, AdapterOf
  <2> QED BY <1>0, <2>1 DEF Sessions, InSession
<1>5. ASSUME NEW c \in Chat, SetQuerySpan(c) PROVE Sessions'
  <2>1. /\ chat'[c].at = "decode" /\ chat[c].at = "span"
        /\ \A d \in Chat \ {c} : chat'[d] = chat[d]
        /\ live'.mode = live.mode /\ lock' = lock
        /\ live'.span = <<chat'[c].query, chat'[c].window>>
        /\ Active' = Active
    BY <1>0, <1>5 DEF SetQuerySpan, ChatOf, AdapterOf, Active
  <2> QED BY <1>0, <2>1 DEF Sessions, InSession
<1>6. ASSUME NEW c \in Chat, Decode(c) PROVE Sessions'
  <2>1. /\ chat[c].at = "decode"
        /\ \/ chat'[c].at = "attribute" /\ lock' = lock
           \/ chat'[c].at = "reply" /\ lock' = None
        /\ \A d \in Chat \ {c} : chat'[d] = chat[d]
    BY <1>0, <1>6, DecodeFrame
  <2>2. live' = live
    BY <1>0, <1>6, DecodeFrame
  <2> QED BY <1>0, <2>1, <2>2 DEF Sessions, InSession
<1>7. ASSUME NEW c \in Chat, BeginGate(c) PROVE Sessions'
  <2>1. /\ chat'[c].at = "gate" /\ chat[c].at = "attribute"
        /\ \A d \in Chat \ {c} : chat'[d] = chat[d]
        /\ lock' = lock
    BY <1>0, <1>7 DEF BeginGate, ChatOf
  <2> QED BY <1>0, <2>1 DEF Sessions, InSession
<1>8. ASSUME NEW c \in Chat, EndGate(c) PROVE Sessions'
  <2>1. /\ chat'[c].at = "reply" /\ chat[c].at = "gate"
        /\ \A d \in Chat \ {c} : chat'[d] = chat[d]
        /\ lock' = None
    BY <1>0, <1>8, EndGateFrame
  <2> QED BY <1>0, <2>1 DEF Sessions, InSession
<1>9. ASSUME NEW c \in Chat, Reply(c) PROVE Sessions'
  <2>1. /\ chat'[c].at = "start" /\ chat[c].at = "reply"
        /\ \A d \in Chat \ {c} : chat'[d] = chat[d]
        /\ lock' = lock /\ live' = live
    BY <1>0, <1>9 DEF Reply, NewChat
  <2> QED BY <1>0, <2>1 DEF Sessions, InSession, Active
<1>10. CASE Restart
  BY <1>10 DEF Restart, NewChat, Sessions, InSession
<1>11. ASSUME BeginEdit(worker.memory) \/ (\E m \in Memory : BeginEdit(m)) \/ CloneAdapter
              \/ TrainShadow \/ EditRaises \/ Commit
       PROVE  UNCHANGED <<live, lock, chat>>
  BY <1>11 DEF BeginEdit, CloneAdapter, TrainShadow, EditRaises, Commit
<1> QED BY <1>1, <1>2, <1>3, <1>4, <1>5, <1>6, <1>7, <1>8, <1>9, <1>10, <1>11 DEF Next

----
\* Rows

\* Steps of an answer change neither rows nor what is recorded of them.
Quiet == live'.rows = live.rows /\ UNCHANGED <<shadow, worker, status, prov, file, history>>

AnswerStep ==
    \E c \in Chat : \/ \E q \in Query : EnterSession(c, q)
                    \/ EndProbe(c)
                    \/ SetQuerySpan(c)
                    \/ Decode(c)
                    \/ BeginGate(c)
                    \/ EndGate(c)
                    \/ Reply(c)

LEMMA AnswersAreQuiet ==
    ASSUME Types, AnswerStep
    PROVE  Quiet
<1>1. live \in AdapterOf
  BY DEF Types
<1>2. PICK c \in Chat : \/ \E q \in Query : EnterSession(c, q)
                        \/ EndProbe(c)
                        \/ SetQuerySpan(c)
                        \/ Decode(c)
                        \/ BeginGate(c)
                        \/ EndGate(c)
                        \/ Reply(c)
  BY DEF AnswerStep
<1>3. live'.rows = live.rows
  BY <1>1, <1>2 DEF EnterSession, EndProbe, SetQuerySpan, Decode, BeginGate, EndGate, Reply,
                    AdapterOf
<1>4. UNCHANGED <<shadow, worker, status, prov, file, history>>
  BY <1>2 DEF EnterSession, EndProbe, SetQuerySpan, Decode, BeginGate, EndGate, Reply
<1> QED BY <1>3, <1>4 DEF Quiet

LEMMA NextSteps ==
    ASSUME Next
    PROVE  \/ \E m \in Memory : BeginEdit(m)
           \/ CloneAdapter
           \/ TrainShadow
           \/ EditRaises
           \/ Promote
           \/ Commit
           \/ AnswerStep
           \/ Restart
BY DEF Next, AnswerStep

\* An edit keeps what provenance says, but for what it may teach a row.
LEMMA KeptByEdit ==
    ASSUME NEW rows \in Seq(RowOf), NEW b, NEW n \in Memory, NEW v, NEW edited,
           Edited(rows, b, n, v, edited),
           NEW m \in Memory, NEW p, NEW ms, KeptBy(rows, m, p, ms)
    PROVE  KeptBy(edited, m, p, ms \union {n})
<1>1. /\ Len(rows) \in Nat /\ Len(edited) \in Nat /\ Len(edited) >= Len(rows)
      /\ DOMAIN rows = 1 .. Len(rows) /\ DOMAIN edited = 1 .. Len(edited)
  BY PromptsExist DEF Edited
<1>2. ASSUME NEW r \in DOMAIN rows
      PROVE  /\ r \in DOMAIN edited
             /\ edited[r].key = rows[r].key /\ edited[r].label = rows[r].label
             /\ TeachesFor(rows[r], m, ms) => TeachesFor(edited[r], m, ms \union {n})
             /\ MayTrain(m, edited[r]) = MayTrain(m, rows[r])
  <2>1. r \in 1 .. Len(rows) /\ r \in DOMAIN edited
    BY <1>1
  <2>2. edited[r].key = rows[r].key /\ edited[r].label = rows[r].label
    BY <2>1 DEF Edited
  <2>3. \/ edited[r].teaches = rows[r].teaches
        \/ edited[r].teaches = Target[n] /\ MayTrain(n, edited[r])
    BY <2>1 DEF Edited
  <2>4. TeachesFor(rows[r], m, ms) => TeachesFor(edited[r], m, ms \union {n})
    BY <2>2, <2>3, TeachesAfter
  <2> QED BY <2>1, <2>2, <2>4, MayTrainSame
<1> DEFINE named == <<p.chat>> \o p.canonical
<1>3. ASSUME NEW i \in DOMAIN named
      PROVE  /\ named[i] \in DOMAIN edited
             /\ edited[named[i]].key = HeroKey(Prompts(m)[i])
             /\ TeachesFor(edited[named[i]], m, ms \union {n})
  <2>1. /\ named[i] \in DOMAIN rows
        /\ rows[named[i]].key = HeroKey(Prompts(m)[i])
        /\ TeachesFor(rows[named[i]], m, ms)
    BY DEF KeptBy
  <2> HIDE DEF named
  <2> QED BY <1>2, <2>1
<1>4. /\ p.native \in DOMAIN edited
      /\ MayTrain(m, edited[p.native])
      /\ TeachesFor(edited[p.native], m, ms \union {n})
      /\ Len(p.canonical) = Len(Prompts(m)) - 1
  BY <1>2 DEF KeptBy
<1> QED BY <1>3, <1>4 DEF KeptBy

LEMMA KeptByMore ==
    ASSUME NEW rows, NEW m, NEW p, NEW ms, NEW ns, ms \subseteq ns, KeptBy(rows, m, p, ms)
    PROVE  KeptBy(rows, m, p, ns)
BY TeachesMore DEF KeptBy

\* What the worker records of an edit is true where the edit left its rows.
LEMMA RecordOfEdit ==
    ASSUME NEW m \in Memory, NEW rows, NEW v \in Nat, NEW b \in Nat, EditOf(rows, m, v, b)
    PROVE  \A ms : KeptBy(rows, m, [native |-> v, chat |-> b + 1,
                            canonical |-> [i \in 1 .. Len(Prompts(m)) - 1 |-> b + 1 + i]], ms)
<1> DEFINE n == Len(Prompts(m))
           canonical == [i \in 1 .. n - 1 |-> b + 1 + i]
<1>1. n \in Nat \ {0}
  BY PromptsExist
<1>2. /\ Len(canonical) = n - 1
      /\ DOMAIN (<<b + 1>> \o canonical) = 1 .. n
      /\ \A i \in 1 .. n : (<<b + 1>> \o canonical)[i] = b + i
  BY <1>1, RecordType
<1> HIDE DEF canonical
<1> DEFINE record == [native |-> v, chat |-> b + 1, canonical |-> canonical]
<1>3. record.native = v /\ record.chat = b + 1 /\ record.canonical = canonical
  OBVIOUS
<1> HIDE DEF record
<1>4. ASSUME NEW ms PROVE KeptBy(rows, m, record, ms)
  BY <1>2, <1>3, TeachesOwn DEF KeptBy, EditOf
<1> QED BY <1>4 DEF record, canonical

LEMMA KeptIsTrue ==
    ASSUME NEW rows, NEW m, RowsKept(rows, m, taught)
    PROVE  RowsTrue(rows, m)
BY DEF RowsKept, KeptBy, RowsTrue, Named

LEMMA RecordsInit == Init => Records
BY DEF Init, Records, Recorded, Idle

LEMMA RecordsStep ==
    ASSUME Types, Records, Next
    PROVE  Records'
<1>1. ASSUME NEW m \in Memory, BeginEdit(m) PROVE Records'
  <2>1. worker'.at = "clone"
    BY <1>1 DEF BeginEdit, Idle
  <2> QED BY <1>1, <2>1 DEF BeginEdit, Records, Recorded, RowsKept, history
<1>2. CASE CloneAdapter
  <2>1. live.rows = <<>> => Recorded = {}
    BY DEF Records, RowsKept, KeptBy
  <2>2. Recorded # {} => shadow'.rows = live.rows
    BY <1>2, <2>1 DEF CloneAdapter
  <2>3. worker'.at = "train"
    BY <1>2 DEF CloneAdapter, Types, WorkerOf
  <2> QED BY <1>2, <2>2, <2>3 DEF CloneAdapter, Records, Recorded, RowsKept, history
<1>3. CASE TrainShadow
  <2> DEFINE m == worker.memory
             e == shadow'.rows
  <2>1. /\ shadow.rows \in Seq(RowOf) /\ worker.at = "train"
        /\ worker'.at = "promote" /\ worker'.memory = m
        /\ Edited(shadow.rows, worker'.before, m, worker'.native, e)
        /\ UNCHANGED <<live, prov, file, taught, unsaved, lost>>
        /\ m \in Memory
    <3>1. worker.memory \in Memory
      BY <1>3 DEF Types, TrainShadow
    <3> QED BY <1>3, <3>1, TrainStep DEF Types
  <2>2. Len(Prompts(m)) \in Nat
    BY <2>1, PromptsExist
  <2> HIDE DEF e, m
  <2>3. \A o \in Recorded : KeptBy(e, o, prov[o], taught \union {m})
    <3> SUFFICES ASSUME NEW o \in Recorded PROVE KeptBy(e, o, prov[o], taught \union {m})
      OBVIOUS
    <3>1. o \in Memory /\ KeptBy(shadow.rows, o, prov[o], taught)
      BY <2>1 DEF Records, Recorded, RowsKept
    <3> QED BY <2>1, <3>1, KeptByEdit
  <2>4. EditOf(e, m, worker'.native, worker'.before)
    <3>1. DOMAIN e = 1 .. Len(e)
      BY <2>1 DEF Edited
    <3>2. \A i \in 1 .. Len(Prompts(m)) : worker'.before + i \in 1 .. Len(e)
      BY <2>1, <2>2 DEF Edited
    <3> QED BY <2>1, <3>1, <3>2 DEF Edited, EditOf
  <2> QED BY <2>1, <2>3, <2>4 DEF Records, Recorded, RowsKept, OwnRows, e
<1>4. CASE EditRaises
  <2>1. worker'.at \in {"clone", "idle"}
    BY <1>4 DEF EditRaises, Types, WorkerOf, Idle
  <2> QED BY <1>4, <2>1 DEF EditRaises, Records, Recorded, RowsKept, history
<1>5. CASE Promote
  <2>1. /\ live' = shadow
        /\ worker.at = "promote" /\ worker'.at = "commit"
        /\ worker'.memory = worker.memory
        /\ worker'.native = worker.native /\ worker'.before = worker.before
        /\ prov' = prov /\ lost' = lost
        /\ taught' = taught \union {worker.memory}
        /\ \/ file' = shadow.rows /\ unsaved' = {}
           \/ file' = file /\ unsaved' = unsaved \union {worker.memory}
    BY <1>5 DEF Promote, Types, WorkerOf
  <2>2. /\ \A m \in Recorded : KeptBy(shadow.rows, m, prov[m], taught')
        /\ OwnRows(shadow.rows)
    BY <2>1 DEF Records, RowsKept
  <2>3. \A m \in Recorded \ unsaved : KeptBy(file, m, prov[m], taught')
    <3>1. \A m \in Recorded \ unsaved : KeptBy(file, m, prov[m], taught)
      BY DEF Records, RowsKept
    <3> QED BY <2>1, <3>1, KeptByMore
  <2>4. Recorded' = Recorded
    BY <2>1 DEF Recorded
  <2>5. \A m \in Memory : prov'[m] # None => m \in taught'
    BY <2>1 DEF Records
  <2>6. CASE file' = shadow.rows /\ unsaved' = {}
    BY <2>1, <2>2, <2>4, <2>5, <2>6 DEF Records, RowsKept, OwnRows
  <2>7. CASE file' = file /\ unsaved' = unsaved \union {worker.memory}
    BY <2>1, <2>2, <2>3, <2>4, <2>5, <2>7 DEF Records, RowsKept, OwnRows
  <2> QED BY <2>1, <2>6, <2>7
<1>6. CASE Commit
  <2> DEFINE m == worker.memory
             record == [native |-> worker.native, chat |-> worker.before + 1,
                        canonical |-> [i \in 1 .. Len(Prompts(m)) - 1 |-> worker.before + 1 + i]]
  <2>1. m \in Memory /\ worker.native \in Nat /\ worker.before \in Nat /\ worker.at = "commit"
    BY <1>6 DEF Types, Commit, WorkerOf
  <2>2. /\ prov' = [prov EXCEPT ![m] = record]
        /\ worker' = Idle
        /\ UNCHANGED <<live, file, taught, unsaved, lost>>
    BY <1>6 DEF Commit, history
  <2>3. /\ OwnRows(live.rows) => KeptBy(live.rows, m, record, taught)
        /\ OwnRows(file) => KeptBy(file, m, record, taught)
    BY <2>1, RecordOfEdit DEF OwnRows
  <2> HIDE DEF record, m
  <2>4. prov'[m] = record /\ \A o \in Memory \ {m} : prov'[o] = prov[o]
    BY <2>1, <2>2 DEF Types
  <2>5. OwnRows(live.rows) /\ (m \notin unsaved => OwnRows(file)) /\ m \in taught
    BY <2>1 DEF Records, m
  <2>6. worker'.at = "idle"
    BY <2>2 DEF Idle
  <2> QED BY <2>2, <2>3, <2>4, <2>5, <2>6 DEF Records, Recorded, RowsKept
<1>7. CASE AnswerStep
  <2>1. Quiet
    BY <1>7, AnswersAreQuiet
  <2> QED BY <2>1 DEF Quiet, Records, Recorded, RowsKept, OwnRows, history
<1>8. CASE Restart
  <2>1. /\ file' = file /\ worker'.at = "idle"
        /\ prov' = prov /\ taught' = taught /\ unsaved' = {}
        /\ \/ live'.rows = file /\ lost' = lost \union unsaved
           \/ lost' = lost \union taught
    BY <1>8 DEF Restart, Adapter, Idle
  <2>2. CASE live'.rows = file /\ lost' = lost \union unsaved
    BY <2>1, <2>2 DEF Records, Recorded, RowsKept
  <2>3. CASE lost' = lost \union taught
    <3>1. Recorded' = {}
      BY <2>1, <2>3 DEF Records, Recorded
    <3> QED BY <2>1, <3>1 DEF Records
  <2> QED BY <2>1, <2>2, <2>3
<1> QED BY <1>1, <1>2, <1>3, <1>4, <1>5, <1>6, <1>7, <1>8, NextSteps

\* An edit leaves chat rows of its memory, and the value of one other may change.
LEMMA LeftByEdit ==
    ASSUME NEW rows \in Seq(RowOf), NEW b, NEW m \in Memory, NEW v, NEW edited,
           Edited(rows, b, m, v, edited), NEW ms, LeftBy(rows, ms)
    PROVE  LeftBy(edited, ms \union {m})
<1>1. /\ Len(rows) \in Nat /\ b \in Nat /\ b >= Len(rows)
      /\ Len(Prompts(m)) \in Nat /\ DOMAIN Prompts(m) = 1 .. Len(Prompts(m))
      /\ DOMAIN edited = 1 .. b + Len(Prompts(m))
      /\ DOMAIN rows = 1 .. Len(rows)
  BY PromptsExist DEF Edited
<1> SUFFICES ASSUME NEW r \in DOMAIN edited, edited[r].key.form = "chat"
             PROVE  \E n \in ms \union {m} : \E i \in DOMAIN Prompts(n) :
                        /\ edited[r].key = HeroKey(Prompts(n)[i])
                        /\ TeachesFor(edited[r], n, ms \union {m})
  BY DEF LeftBy
<1>2. CASE r \in 1 .. Len(rows)
  <2>1. /\ edited[r].key = rows[r].key /\ edited[r].label = rows[r].label
        /\ \/ edited[r].teaches = rows[r].teaches
           \/ edited[r].teaches = Target[m] /\ MayTrain(m, edited[r])
    BY <1>2 DEF Edited
  <2>2. PICK n \in ms : \E i \in DOMAIN Prompts(n) :
            rows[r].key = HeroKey(Prompts(n)[i]) /\ TeachesFor(rows[r], n, ms)
    BY <1>1, <1>2, <2>1 DEF LeftBy
  <2>3. TeachesFor(edited[r], n, ms \union {m})
    BY <2>1, <2>2, TeachesAfter
  <2> QED BY <2>1, <2>2, <2>3
<1>3. CASE r \notin 1 .. Len(rows)
  <2>1. r \notin 1 .. b
    BY <1>1, <1>3 DEF Edited
  <2> DEFINE i == r - b
  <2>2. i \in 1 .. Len(Prompts(m)) /\ r = b + i
    BY <1>1, <2>1
  <2> HIDE DEF i
  <2>3. edited[r].key = HeroKey(Prompts(m)[i]) /\ edited[r].teaches = Target[m]
    BY <2>2 DEF Edited
  <2>4. TeachesFor(edited[r], m, ms \union {m})
    BY <2>3, TeachesOwn
  <2> QED BY <1>1, <2>2, <2>3, <2>4
<1> QED BY <1>2, <1>3

\* More memories only explain more rows.
LEMMA LeftByMore ==
    ASSUME NEW rows, NEW ms, NEW ns, ms \subseteq ns, LeftBy(rows, ms)
    PROVE  LeftBy(rows, ns)
BY TeachesMore DEF LeftBy

LEMMA LessonsInit == Init => Lessons
BY DEF Init, Lessons, LeftBy, Linear, Adapter, Idle

LEMMA LessonsStep ==
    ASSUME Types, Lessons, Next
    PROVE  Lessons'
<1>1. ASSUME NEW m \in Memory, BeginEdit(m) PROVE Lessons'
  <2>1. worker'.at = "clone"
    BY <1>1 DEF BeginEdit, Idle
  <2> QED BY <1>1, <2>1 DEF BeginEdit, Lessons, LeftBy, history
<1>2. CASE CloneAdapter
  <2>1. LeftBy(<<Placeholder>>, taught)
    BY DEF LeftBy, Placeholder, Key
  <2>2. shadow'.rows = <<Placeholder>> \/ shadow'.rows = live.rows
    BY <1>2 DEF CloneAdapter, Adapter
  <2>3. worker'.at = "train"
    BY <1>2 DEF CloneAdapter, Types, WorkerOf
  <2>4. live' = live /\ file' = file /\ taught' = taught
    BY <1>2 DEF CloneAdapter, history
  <2> QED BY <2>1, <2>2, <2>3, <2>4 DEF Lessons, LeftBy
<1>3. CASE TrainShadow
  <2>1. /\ shadow.rows \in Seq(RowOf) /\ worker.at = "train"
        /\ worker'.at = "promote" /\ worker'.memory = worker.memory
        /\ Edited(shadow.rows, worker'.before, worker.memory, worker'.native, shadow'.rows)
        /\ UNCHANGED <<live, prov, file, taught, unsaved, lost>>
        /\ worker.memory \in Memory
    <3>1. worker.memory \in Memory
      BY <1>3 DEF Types, TrainShadow
    <3> QED BY <1>3, <3>1, TrainStep DEF Types
  <2>2. LeftBy(shadow'.rows, taught \union {worker.memory})
    <3>1. LeftBy(shadow.rows, taught)
      BY <2>1 DEF Lessons
    <3> QED BY <2>1, <3>1, LeftByEdit
  <2> QED BY <2>1, <2>2 DEF Lessons
<1>4. CASE EditRaises
  <2>1. worker'.at \in {"clone", "idle"}
    BY <1>4 DEF EditRaises, Types, WorkerOf, Idle
  <2> QED BY <1>4, <2>1 DEF EditRaises, Lessons, history
<1>5. CASE Promote
  <2>1. /\ live' = shadow
        /\ worker.at = "promote" /\ worker'.at = "commit"
        /\ taught' = taught \union {worker.memory}
        /\ file' = shadow.rows \/ file' = file
    BY <1>5 DEF Promote, Types, WorkerOf
  <2>2. LeftBy(shadow.rows, taught') /\ LeftBy(file, taught)
    BY <2>1 DEF Lessons
  <2>3. LeftBy(file, taught')
    BY <2>1, <2>2, LeftByMore
  <2> QED BY <2>1, <2>2, <2>3 DEF Lessons, LeftBy
<1>6. CASE Commit
  <2>1. worker'.at = "idle" /\ live' = live /\ file' = file /\ taught' = taught
    BY <1>6 DEF Commit, Idle, history
  <2> QED BY <2>1 DEF Lessons
<1>7. CASE AnswerStep
  <2>1. Quiet
    BY <1>7, AnswersAreQuiet
  <2> QED BY <2>1 DEF Quiet, Lessons, history
<1>8. CASE Restart
  <2>1. /\ live'.rows = file \/ live'.rows = <<>>
        /\ file' = file /\ taught' = taught /\ worker'.at = "idle"
    BY <1>8 DEF Restart, Linear, Adapter, Idle
  <2>2. LeftBy(<<>>, taught)
    BY DEF LeftBy
  <2> QED BY <2>1, <2>2 DEF Lessons
<1> QED BY <1>1, <1>2, <1>3, <1>4, <1>5, <1>6, <1>7, <1>8, NextSteps

----
\* What is attributed

\* The rows a record names, in one sequence.
LEMMA NamedRows ==
    ASSUME NEW k \in Nat, NEW cs \in Seq(Nat), NEW n \in Nat \ {0}, Len(cs) = n - 1
    PROVE  /\ DOMAIN (<<k>> \o cs) = 1 .. n
           /\ \A r : r = k \/ (\E i \in DOMAIN cs : r = cs[i]) =>
                  \E i \in 1 .. n : (<<k>> \o cs)[i] = r
<1>1. /\ Len(<<k>> \o cs) = n
      /\ <<k>> \o cs \in Seq(Nat)
      /\ (<<k>> \o cs)[1] = k
      /\ \A i \in 1 .. n - 1 : (<<k>> \o cs)[i + 1] = cs[i]
  OBVIOUS
<1>2. DOMAIN (<<k>> \o cs) = 1 .. n /\ DOMAIN cs = 1 .. n - 1
  BY <1>1
<1>3. ASSUME NEW i \in DOMAIN cs PROVE i + 1 \in 1 .. n /\ (<<k>> \o cs)[i + 1] = cs[i]
  BY <1>1, <1>2
<1>4. 1 \in 1 .. n
  OBVIOUS
<1> QED BY <1>1, <1>2, <1>3, <1>4

\* A row that provenance claims belongs to the claimant, which taught it.
LEMMA ClaimedRow ==
    ASSUME Types, Records, NEW r \in DOMAIN live.rows, NEW m \in Claimants(r) \ lost
    PROVE  BelongsTo(live.rows[r], m) /\ TeachesFor(live.rows[r], m, taught)
<1>1. /\ m \in Memory /\ status[m] = "consolidated"
      /\ r \in {prov[m].native, prov[m].chat} \union
                 {prov[m].canonical[i] : i \in DOMAIN prov[m].canonical}
  BY DEF Claimants
<1> DEFINE p == prov[m]
           named == <<p.chat>> \o p.canonical
<1>2. m \in Recorded /\ p \in ProvOf
  BY <1>1 DEF Recorded, Types
<1>3. KeptBy(live.rows, m, p, taught)
  BY <1>2 DEF Records, RowsKept
<1>4. CASE r = p.native
  BY <1>3, <1>4 DEF KeptBy, BelongsTo
<1>5. /\ p.chat \in Nat /\ p.canonical \in Seq(Nat)
      /\ Len(Prompts(m)) \in Nat \ {0} /\ DOMAIN Prompts(m) = 1 .. Len(Prompts(m))
      /\ Len(p.canonical) = Len(Prompts(m)) - 1
  BY <1>1, <1>2, <1>3, PromptsExist DEF ProvOf, KeptBy
<1> HIDE DEF p
<1>6. CASE r # p.native
  <2>1. r = p.chat \/ \E i \in DOMAIN p.canonical : r = p.canonical[i]
    BY <1>1, <1>6 DEF p
  <2>2. /\ DOMAIN named = DOMAIN Prompts(m)
        /\ \E i \in DOMAIN named : named[i] = r
    <3> DEFINE n  == Len(Prompts(m))
               cs == p.canonical
               k  == p.chat
    <3>1. k \in Nat /\ cs \in Seq(Nat) /\ n \in Nat \ {0} /\ Len(cs) = n - 1
      BY <1>5
    <3>2. r = k \/ \E i \in DOMAIN cs : r = cs[i]
      BY <2>1
    <3> HIDE DEF n, cs, k
    <3>3. DOMAIN (<<k>> \o cs) = 1 .. n /\ \E i \in 1 .. n : (<<k>> \o cs)[i] = r
      <4> HIDE DEF named
      <4>1. \A x : x = k \/ (\E i \in DOMAIN cs : x = cs[i]) =>
                    \E i \in 1 .. n : (<<k>> \o cs)[i] = x
        BY <3>1, NamedRows, Zenon
      <4>2. DOMAIN (<<k>> \o cs) = 1 .. n
        BY <3>1, NamedRows
      <4> QED BY <3>2, <4>1, <4>2, Zenon
    <3> QED BY <1>5, <3>3 DEF n, cs, k
  <2>3. PICK i \in DOMAIN named : named[i] = r
    BY <2>2
  <2>4. live.rows[r].key = HeroKey(Prompts(m)[i]) /\ TeachesFor(live.rows[r], m, taught)
    BY <1>3, <2>3 DEF KeptBy
  <2> QED BY <2>2, <2>3, <2>4 DEF BelongsTo
<1> QED BY <1>4, <1>6

\* What was attributed before stays explained: no memory is untaught.
LEMMA AttributionKept ==
    ASSUME NEW old, NEW new, NEW ts, NEW ts2, NEW ls, NEW ls2,
           Explained(old, ts, ls), ts \subseteq ts2, ls \subseteq ls2,
           new.memory = None \/ (new.memory = old.memory /\ new.gated = old.gated)
    PROVE  Explained(new, ts2, ls2)
BY TeachesMore DEF Explained

\* The gate's own row is a row of the memory that claims it.
LEMMA AttributionOfGate ==
    ASSUME Types, Records, NEW q, NEW r \in Retrieved(live.rows, q),
           NEW frame, frame.memory \in Claimants(r), frame.gated = RowAt(live.rows, r)
    PROVE  Explained(frame, taught, lost)
<1> DEFINE m == frame.memory
<1> SUFFICES ASSUME m \notin lost
             PROVE  Explained(frame, taught, lost)
  BY DEF Explained
<1>1. r # None
  BY DEF Claimants
<1>2. r \in DOMAIN live.rows
  BY <1>1 DEF Retrieved, Best
<1>3. BelongsTo(live.rows[r], m) /\ TeachesFor(live.rows[r], m, taught)
  BY <1>2, ClaimedRow
<1> QED BY <1>1, <1>3 DEF RowAt, Explained

LEMMA AttributionInit == Init => Attributions
BY DEF Init, Attributions, Explained, NewChat

\* Attributions, lost memories and lessons only change as AttributionKept allows,
\* except when an answer's gate ends.
LEMMA AttributionFrame ==
    ASSUME Types, Next
    PROVE  /\ taught \subseteq taught' /\ lost \subseteq lost'
           /\ \/ \A d \in Chat :
                    \/ chat'[d].memory = None
                    \/ chat'[d].memory = chat[d].memory /\ chat'[d].gated = chat[d].gated
              \/ \E c \in Chat : EndGate(c)
<1>0. chat \in [Chat -> ChatOf]
  BY DEF Types
<1>1. taught \subseteq taught' /\ lost \subseteq lost'
  <2>1. CASE AnswerStep
    BY <2>1, AnswersAreQuiet DEF Quiet, history
  <2> QED BY <2>1, NextSteps DEF BeginEdit, CloneAdapter, TrainShadow, EditRaises, Promote,
                                 Commit, Restart, history
<1>2. ASSUME NEW c \in Chat, NEW q \in Query, EnterSession(c, q)
      PROVE  \A d \in Chat : chat'[d].memory = chat[d].memory /\ chat'[d].gated = chat[d].gated
  BY <1>0, <1>2 DEF EnterSession, ChatOf
<1>3. ASSUME NEW c \in Chat, EndProbe(c) \/ SetQuerySpan(c) \/ BeginGate(c)
      PROVE  \A d \in Chat : chat'[d].memory = chat[d].memory /\ chat'[d].gated = chat[d].gated
  BY <1>0, <1>3 DEF EndProbe, SetQuerySpan, BeginGate, ChatOf
<1>4. ASSUME NEW c \in Chat, Decode(c)
      PROVE  \A d \in Chat : chat'[d].memory = chat[d].memory /\ chat'[d].gated = chat[d].gated
  BY <1>0, <1>4, DecodeFrame
<1>5. ASSUME NEW c \in Chat, Reply(c)
      PROVE  \A d \in Chat : \/ chat'[d].memory = None
                             \/ chat'[d].memory = chat[d].memory /\ chat'[d].gated = chat[d].gated
  BY <1>0, <1>5 DEF Reply, NewChat
<1>6. CASE Restart
  BY <1>1, <1>6 DEF Restart, NewChat
<1>7. ASSUME (\E m \in Memory : BeginEdit(m)) \/ CloneAdapter \/ TrainShadow \/ EditRaises
                 \/ Promote \/ Commit
      PROVE  chat' = chat
  BY <1>7 DEF BeginEdit, CloneAdapter, TrainShadow, EditRaises, Promote, Commit
<1> QED BY <1>1, <1>2, <1>3, <1>4, <1>5, <1>6, <1>7 DEF Next

LEMMA AttributionStep ==
    ASSUME Types, Records, Attributions, Next
    PROVE  Attributions'
<1>1. taught \subseteq taught' /\ lost \subseteq lost'
  BY AttributionFrame
<1>2. ASSUME NEW d \in Chat,
             \/ chat'[d].memory = None
             \/ chat'[d].memory = chat[d].memory /\ chat'[d].gated = chat[d].gated
      PROVE  Explained(chat'[d], taught', lost')
  <2>1. Explained(chat[d], taught, lost)
    BY DEF Attributions
  <2> QED BY <1>1, <1>2, <2>1, AttributionKept
<1>3. ASSUME NEW c \in Chat, EndGate(c) PROVE Attributions'
  <2>1. /\ \A d \in Chat \ {c} : chat'[d] = chat[d]
        /\ \/ chat'[c].memory = None
           \/ \E r \in Retrieved(live.rows, HeroKey(chat[c].query)) :
                 /\ chat'[c].memory \in Claimants(r)
                 /\ chat'[c].gated = RowAt(live.rows, r)
    BY <1>3, EndGateFrame DEF Types
  <2>2. lost' = lost /\ taught' = taught
    BY <1>3 DEF EndGate, history
  <2>3. CASE chat'[c].memory = None
    BY <1>2, <2>1, <2>3 DEF Attributions
  <2>4. ASSUME NEW r \in Retrieved(live.rows, HeroKey(chat[c].query)),
               chat'[c].memory \in Claimants(r), chat'[c].gated = RowAt(live.rows, r)
        PROVE  Explained(chat'[c], taught', lost')
    <3>1. Explained(chat'[c], taught, lost)
      BY <2>4, AttributionOfGate
    <3> QED BY <2>2, <3>1
  <2> QED BY <1>2, <2>1, <2>3, <2>4 DEF Attributions
<1> QED BY <1>2, <1>3, AttributionFrame DEF Attributions

----
\* Theorems

LEMMA InvInductive == Spec => []Inv
<1>1. Init => Inv
  BY TypesInit, SessionsInit, RecordsInit, LessonsInit, AttributionInit DEF Inv
<1>2. Inv /\ [Next]_bookVars => Inv'
  <2> SUFFICES ASSUME Inv, [Next]_bookVars PROVE Inv'
    OBVIOUS
  <2>1. CASE Next
    BY <2>1, TypesStep, SessionsStep, RecordsStep, LessonsStep, AttributionStep DEF Inv
  <2>2. CASE UNCHANGED bookVars
    BY <2>2 DEF bookVars, Inv, Types, Sessions, InSession, Active, Records, Recorded, RowsKept,
                OwnRows, Lessons, Attributions
  <2> QED BY <2>1, <2>2
<1> QED BY <1>1, <1>2, PTL DEF Spec

\* The types of adapters, rows and frames, and the inference lock: it is held by
\* exactly the answer that is inside its session, whatever was raised before.
THEOREM TypeSafe == Spec => []BookTypeOK
<1>2. Inv => BookTypeOK
  BY DEF Inv, Types, Sessions, BookTypeOK, AdapterOf, WorkerOf
<1> QED BY <1>2, InvInductive, PTL

\* Every decode uses an adapter that is switched on and that pools the span of its
\* own query, for any number of chats, copies and promotions in between.
THEOREM DecodeIsClean == Spec => []CleanDecode
<1>1. Inv => CleanDecode
  BY DEF Inv, Sessions, CleanDecode
<1> QED BY <1>1, InvInductive, PTL

\* The rows that provenance names are there with the keys of their memory, and they
\* teach its answer or that of a memory whose native key reaches the row with an
\* equal label, after any number of later edits, failed checkpoints and restarts.
THEOREM ProvenanceStaysTrue == Spec => []ProvenanceTrue
<1>1. Inv => ProvenanceTrue
  BY KeptIsTrue DEF Inv, Records, ProvenanceTrue
<1> QED BY <1>1, InvInductive, PTL

\* The same of the checkpoint, which is written before the provenance is: a crash
\* between the two leaves no memory that points at missing rows.
THEOREM CheckpointIsTrue == Spec => []ProvenanceOnDisk
<1>1. Inv => ProvenanceOnDisk
  BY KeptIsTrue DEF Inv, Records, ProvenanceOnDisk
<1> QED BY <1>1, InvInductive, PTL

\* The row that the gate found belongs to the memory that the answer is attributed
\* to, and teaches its answer or that of a memory that could retrain it.
THEOREM AttributionIsTrue == Spec => []AttributionNamesTeacher
<1>1. Inv => AttributionNamesTeacher
  BY DEF Inv, Attributions, Explained, AttributionNamesTeacher
<1> QED BY <1>1, InvInductive, PTL

\* The row that is nearest to a memory's own prompt.
LEMMA NearestRow ==
    ASSUME Types, Records, Lessons, NEW m \in Memory \ lost, status[m] = "consolidated",
           NEW i \in DOMAIN Prompts(m), NEW r \in Best(live.rows, HeroKey(Prompts(m)[i]))
    PROVE  /\ IsMatch(live.rows[r], HeroKey(Prompts(m)[i]))
           /\ \E n \in Teachers(Prompts(m)[i]) : TeachesFor(live.rows[r], n, taught)
<1> DEFINE t     == Prompts(m)[i]
           p     == prov[m]
           named == <<p.chat>> \o p.canonical
<1>1. m \in Recorded /\ p \in ProvOf
  BY DEF Recorded, Types
<1>2. KeptBy(live.rows, m, p, taught)
  BY <1>1 DEF Records, RowsKept
<1>3. /\ p.chat \in Nat /\ p.canonical \in Seq(Nat)
      /\ Len(Prompts(m)) \in Nat \ {0} /\ DOMAIN Prompts(m) = 1 .. Len(Prompts(m))
      /\ Len(p.canonical) = Len(Prompts(m)) - 1
      /\ t \in Text
  BY <1>1, <1>2, PromptsExist DEF ProvOf, KeptBy
<1>4. i \in DOMAIN named
  <2> DEFINE n  == Len(Prompts(m))
             cs == p.canonical
             k  == p.chat
  <2>1. k \in Nat /\ cs \in Seq(Nat) /\ n \in Nat \ {0} /\ Len(cs) = n - 1
    BY <1>3
  <2> HIDE DEF n, cs, k
  <2>2. DOMAIN (<<k>> \o cs) = 1 .. n
    BY <2>1, NamedRows
  <2> QED BY <1>3, <2>2 DEF n, cs, k
<1>5. PICK w \in DOMAIN live.rows : live.rows[w].key = HeroKey(t)
  BY <1>2, <1>4 DEF KeptBy
<1>6. r \in DOMAIN live.rows /\ Score(HeroKey(t), HeroKey(t)) <= Score(live.rows[r].key, HeroKey(t))
  BY <1>5 DEF Best
<1>7. live.rows[r] \in RowOf /\ live.rows[r].key \in KeyOf
  <2>1. live.rows \in Seq(RowOf)
    BY DEF Types, AdapterOf
  <2>2. live.rows[r] \in RowOf
    BY <1>6, <2>1
  <2> QED BY <2>2 DEF RowOf
<1> HIDE DEF t, p
<1>8. HeroKey(t) \in KeyOf /\ HeroKey(t).form = "chat" /\ HeroKey(t).text = t
  BY <1>3, HeroKeyType
<1>9. live.rows[r].key = HeroKey(t)
  <2>1. /\ Score(live.rows[r].key, HeroKey(t)) \in Nat
        /\ Score(HeroKey(t), HeroKey(t)) \in Nat
        /\ Score(live.rows[r].key, HeroKey(t)) >= Score(HeroKey(t), HeroKey(t)) =>
               live.rows[r].key = HeroKey(t)
    BY <1>7, <1>8, ScoreType
  <2> QED BY <1>6, <2>1
<1>10. IsMatch(live.rows[r], HeroKey(t))
  BY <1>8, <1>9, ScoreType DEF IsMatch
<1>11. PICK n \in taught : \E j \in DOMAIN Prompts(n) :
           live.rows[r].key = HeroKey(Prompts(n)[j]) /\ TeachesFor(live.rows[r], n, taught)
  BY <1>6, <1>8, <1>9 DEF Lessons, LeftBy
<1>12. n \in Teachers(t)
  <2>1. PICK j \in DOMAIN Prompts(n) : HeroKey(t) = HeroKey(Prompts(n)[j])
    BY <1>9, <1>11
  <2>2. Prompts(n)[j] = t
    BY <2>1 DEF HeroKey, Key
  <2> QED BY <2>2 DEF Teachers
<1> QED BY <1>10, <1>11, <1>12 DEF t

\* Asked by one of its own prompts, a consolidated memory is read back: the row
\* that wins has the key of that prompt, and teaches what a memory taught with the
\* very same prompt or a memory that could retrain the row.
THEOREM ReadsBack == Spec => []ReadBack
<1>1. Inv => ReadBack
  BY NearestRow DEF Inv, ReadBack
<1> QED BY <1>1, InvInductive, PTL

----
\* Attribution and the answer

\* No two keys are equally near to a message asked with an empty window, beyond the
\* threshold.  Where they were, torch.max might choose one row for the answer and
\* another for attribution.
NoTies ==
    \A q \in Query : \A k, l \in KeyOf :
        Score(k, HeroKey(q)) = Score(l, HeroKey(q)) /\ Score(k, HeroKey(q)) > Threshold => k = l

Agree(row, gated) ==
    /\ (row = None) = (gated = None)
    /\ row # None => gated.key = row.key

\* A frame keeps what its decode read until its gate has read the same rows,
\* which nothing replaces while it holds the lock.
FrameOf(rows, frame) ==
    /\ frame.at \in {"start", "probe", "span", "decode"} => frame.row = None /\ frame.gated = None
    /\ frame.at \in {"probe", "span", "decode", "attribute", "gate"} => frame.query \in Query
    /\ frame.at \in {"attribute", "gate"} =>
          \E r \in Retrieved(rows, SpanKey(frame.query, frame.window)) :
              frame.row = RowAt(rows, r)
    /\ frame.at = "reply" /\ frame.window = None => Agree(frame.row, frame.gated)

Frames == \A c \in Chat : FrameOf(live.rows, chat[c])

\* Without ties two retrievals by one query from the same rows find rows of one
\* key, or none.
LEMMA SameRetrieval ==
    ASSUME NoTies, NEW rows \in Seq(RowOf), NEW q \in Query,
           NEW r \in Retrieved(rows, HeroKey(q)), NEW s \in Retrieved(rows, HeroKey(q))
    PROVE  Agree(RowAt(rows, r), RowAt(rows, s))
<1>1. q \in Text
  BY QueryAssumption DEF Text
<1>2. HeroKey(q) \in KeyOf
  BY <1>1, HeroKeyType
<1>3. PICK i \in Best(rows, HeroKey(q)) : r = IF IsMatch(rows[i], HeroKey(q)) THEN i ELSE None
  BY DEF Retrieved
<1>4. PICK j \in Best(rows, HeroKey(q)) : s = IF IsMatch(rows[j], HeroKey(q)) THEN j ELSE None
  BY DEF Retrieved
<1>5. /\ i \in DOMAIN rows /\ j \in DOMAIN rows
      /\ rows[i] \in RowOf /\ rows[j] \in RowOf
  BY DEF Best
<1>6. /\ rows[i].key \in KeyOf /\ rows[j].key \in KeyOf
      /\ rows[i] # None /\ rows[j] # None
  <2>1. \A row \in RowOf : row.key \in KeyOf
    BY DEF RowOf
  <2>2. None \notin RowOf
    BY RowAssumption
  <2> QED BY <1>5, <2>1, <2>2
<1>7. Score(rows[i].key, HeroKey(q)) = Score(rows[j].key, HeroKey(q))
  <2>1. /\ Score(rows[i].key, HeroKey(q)) \in Nat
        /\ Score(rows[j].key, HeroKey(q)) \in Nat
    BY <1>2, <1>6, ScoreType
  <2>2. /\ Score(rows[i].key, HeroKey(q)) <= Score(rows[j].key, HeroKey(q))
        /\ Score(rows[j].key, HeroKey(q)) <= Score(rows[i].key, HeroKey(q))
    BY <1>5 DEF Best
  <2> QED BY <2>1, <2>2
<1>8. IsMatch(rows[i], HeroKey(q)) = IsMatch(rows[j], HeroKey(q))
  BY <1>7 DEF IsMatch
<1>9. ASSUME IsMatch(rows[i], HeroKey(q)), IsMatch(rows[j], HeroKey(q))
      PROVE  rows[i].key = rows[j].key
  BY <1>6, <1>7, <1>9 DEF NoTies, IsMatch
<1>10. CASE IsMatch(rows[i], HeroKey(q))
  <2>1. r = i /\ s = j
    BY <1>3, <1>4, <1>8, <1>10
  <2>2. RowAt(rows, r) # None /\ RowAt(rows, s) # None => Agree(RowAt(rows, r), RowAt(rows, s))
    <3>1. RowAt(rows, r) \in {None, rows[i]} /\ RowAt(rows, s) \in {None, rows[j]}
      BY <2>1 DEF RowAt
    <3> QED BY <1>8, <1>9, <1>10, <3>1 DEF Agree
  <2>3. r # None /\ s # None
    BY <2>1, <1>5, NoneAssumption
  <2> QED BY <1>6, <2>1, <2>2, <2>3 DEF RowAt
<1>11. CASE ~IsMatch(rows[i], HeroKey(q))
  BY <1>3, <1>4, <1>8, <1>11 DEF Agree, RowAt
<1> QED BY <1>10, <1>11

LEMMA FramesInit == Init => Frames
BY DEF Init, Frames, FrameOf, NewChat

\* The frame of the answer that takes a step.
LEMMA FrameOfStep ==
    ASSUME NoTies, Types, Frames, NEW c \in Chat,
           \/ \E q \in Query : EnterSession(c, q)
           \/ EndProbe(c) \/ SetQuerySpan(c) \/ Decode(c) \/ BeginGate(c) \/ EndGate(c)
           \/ Reply(c)
    PROVE  FrameOf(live.rows, chat'[c]) /\ \A d \in Chat \ {c} : chat'[d] = chat[d]
<1>1. chat \in [Chat -> ChatOf] /\ chat[c] \in ChatOf
  BY DEF Types
<1>2. FrameOf(live.rows, chat[c])
  BY DEF Frames
<1>3. ASSUME NEW q \in Query, EnterSession(c, q)
      PROVE  FrameOf(live.rows, chat'[c]) /\ \A d \in Chat \ {c} : chat'[d] = chat[d]
  <2>1. /\ chat'[c].at \in {"probe", "decode"} /\ chat'[c].query = q
        /\ chat'[c].row = chat[c].row /\ chat'[c].gated = chat[c].gated
        /\ chat[c].at = "start"
        /\ \A d \in Chat \ {c} : chat'[d] = chat[d]
    BY <1>1, <1>3 DEF EnterSession, ChatOf
  <2> QED BY <1>2, <2>1 DEF FrameOf
<1>4. ASSUME EndProbe(c) \/ SetQuerySpan(c)
      PROVE  FrameOf(live.rows, chat'[c]) /\ \A d \in Chat \ {c} : chat'[d] = chat[d]
  <2>1. /\ chat[c].at \in {"probe", "span"} /\ chat'[c].at \in {"span", "decode"}
        /\ chat'[c].query = chat[c].query
        /\ chat'[c].row = chat[c].row /\ chat'[c].gated = chat[c].gated
        /\ \A d \in Chat \ {c} : chat'[d] = chat[d]
    <3>1. CASE EndProbe(c)
      BY <1>1, <3>1 DEF EndProbe, ChatOf
    <3>2. CASE SetQuerySpan(c)
      <4>1. PICK w : chat' = [chat EXCEPT ![c].at = "decode", ![c].window = w]
        BY <3>2 DEF SetQuerySpan
      <4> QED BY <1>1, <3>2, <4>1 DEF SetQuerySpan, ChatOf
    <3> QED BY <1>4, <3>1, <3>2
  <2> QED BY <1>2, <2>1 DEF FrameOf
<1>5. ASSUME Decode(c)
      PROVE  FrameOf(live.rows, chat'[c]) /\ \A d \in Chat \ {c} : chat'[d] = chat[d]
  <2>1. chat[c].at = "decode" /\ \A d \in Chat \ {c} : chat'[d] = chat[d]
    BY <1>1, <1>5, DecodeFrame
  <2>2. CASE ~Active
    <3>1. /\ chat'[c].at = "reply"
          /\ chat'[c].row = chat[c].row /\ chat'[c].gated = chat[c].gated
      BY <1>1, <1>5, <2>2 DEF Decode, ChatOf
    <3> QED BY <1>2, <2>1, <3>1 DEF FrameOf, Agree
  <2>3. ASSUME NEW r \in Retrieved(live.rows, SpanKey(chat[c].query, chat[c].window)),
               chat' = [chat EXCEPT ![c].row = RowAt(live.rows, r), ![c].at = "attribute"]
        PROVE  FrameOf(live.rows, chat'[c])
    <3> DEFINE row == RowAt(live.rows, r)
    <3> HIDE DEF row
    <3>1. chat' = [chat EXCEPT ![c].row = row, ![c].at = "attribute"]
      BY <2>3 DEF row
    <3>2. /\ chat'[c].at = "attribute" /\ chat'[c].row = row
          /\ chat'[c].query = chat[c].query /\ chat'[c].window = chat[c].window
      BY <1>1, <3>1 DEF ChatOf
    <3> QED BY <1>2, <2>1, <3>2 DEF FrameOf, row
  <2> QED BY <1>5, <2>1, <2>2, <2>3 DEF Decode
<1>6. ASSUME BeginGate(c)
      PROVE  FrameOf(live.rows, chat'[c]) /\ \A d \in Chat \ {c} : chat'[d] = chat[d]
  <2>1. /\ chat[c].at = "attribute" /\ chat'[c].at = "gate"
        /\ chat'[c].query = chat[c].query /\ chat'[c].window = chat[c].window
        /\ chat'[c].row = chat[c].row
        /\ \A d \in Chat \ {c} : chat'[d] = chat[d]
    BY <1>1, <1>6 DEF BeginGate, ChatOf
  <2> QED BY <1>2, <2>1 DEF FrameOf
<1>7. ASSUME EndGate(c)
      PROVE  FrameOf(live.rows, chat'[c]) /\ \A d \in Chat \ {c} : chat'[d] = chat[d]
  <2>1. chat[c].at = "gate" /\ \A d \in Chat \ {c} : chat'[d] = chat[d]
    BY <1>1, <1>7, EndGateFrame
  <2>2. CASE chat' = [chat EXCEPT ![c] = [NewChat EXCEPT !.at = "reply"]]
    <3>1. chat'[c].at = "reply" /\ chat'[c].row = None /\ chat'[c].gated = None
      BY <1>1, <2>2 DEF NewChat
    <3> QED BY <2>1, <3>1 DEF FrameOf, Agree
  <2>3. ASSUME NEW r \in Retrieved(live.rows, HeroKey(chat[c].query)), NEW m,
               chat' = [chat EXCEPT ![c].at = "reply", ![c].memory = m,
                                    ![c].gated = RowAt(live.rows, r)]
        PROVE  FrameOf(live.rows, chat'[c])
    <3> DEFINE row == RowAt(live.rows, r)
               q   == chat[c].query
    <3>1. q \in Query /\ \E s \in Retrieved(live.rows, SpanKey(q, chat[c].window)) :
                              chat[c].row = RowAt(live.rows, s)
      BY <1>2, <2>1 DEF FrameOf
    <3>2. live.rows \in Seq(RowOf) /\ r \in Retrieved(live.rows, HeroKey(q))
      BY <2>3 DEF Types, AdapterOf
    <3> HIDE DEF q
    <3>3. chat[c].window = None => Agree(chat[c].row, row)
      <4>1. SpanKey(q, None) = HeroKey(q)
        BY DEF SpanKey, HeroKey
      <4> QED BY <3>1, <3>2, <4>1, SameRetrieval
    <3> HIDE DEF row
    <3>4. chat' = [chat EXCEPT ![c].at = "reply", ![c].memory = m, ![c].gated = row]
      BY <2>3 DEF row
    <3>5. /\ chat'[c].at = "reply" /\ chat'[c].row = chat[c].row /\ chat'[c].gated = row
          /\ chat'[c].window = chat[c].window
      BY <1>1, <3>4 DEF ChatOf
    <3> QED BY <3>3, <3>5 DEF FrameOf
  <2> QED BY <1>7, <2>1, <2>2, <2>3 DEF EndGate
<1>8. ASSUME Reply(c)
      PROVE  FrameOf(live.rows, chat'[c]) /\ \A d \in Chat \ {c} : chat'[d] = chat[d]
  <2>1. chat'[c] = NewChat /\ \A d \in Chat \ {c} : chat'[d] = chat[d]
    BY <1>1, <1>8 DEF Reply
  <2> QED BY <2>1 DEF FrameOf, NewChat
<1> QED BY <1>3, <1>4, <1>5, <1>6, <1>7, <1>8

LEMMA FramesStep ==
    ASSUME NoTies, Types, Sessions, Frames, Next
    PROVE  Frames'
<1>1. CASE AnswerStep
  <2>1. live'.rows = live.rows
    BY <1>1, AnswersAreQuiet DEF Quiet
  <2>2. PICK c \in Chat :
            \/ \E q \in Query : EnterSession(c, q)
            \/ EndProbe(c) \/ SetQuerySpan(c) \/ Decode(c) \/ BeginGate(c) \/ EndGate(c)
            \/ Reply(c)
    BY <1>1 DEF AnswerStep
  <2>3. FrameOf(live.rows, chat'[c]) /\ \A d \in Chat \ {c} : chat'[d] = chat[d]
    BY <2>2, FrameOfStep
  <2> QED BY <2>1, <2>3 DEF Frames
<1>2. CASE \/ \E m \in Memory : BeginEdit(m)
           \/ CloneAdapter \/ TrainShadow \/ EditRaises \/ Commit
  <2>1. UNCHANGED <<live, chat>>
    BY <1>2 DEF BeginEdit, CloneAdapter, TrainShadow, EditRaises, Commit
  <2> QED BY <2>1 DEF Frames
<1>3. CASE Promote
  <2>1. lock = None /\ chat' = chat
    BY <1>3 DEF Promote
  <2>2. \A c \in Chat : chat[c].at \notin {"attribute", "gate"}
    BY <2>1 DEF Sessions, InSession
  <2> QED BY <2>1, <2>2 DEF Frames, FrameOf
<1>4. CASE Restart
  <2>1. chat' = [c \in Chat |-> NewChat]
    BY <1>4 DEF Restart
  <2> QED BY <2>1 DEF Frames, FrameOf, NewChat
<1> QED BY <1>1, <1>2, <1>3, <1>4, NextSteps

\* Attribution, which asks the adapter a second time, reports a hit exactly when
\* the answer used a row, and then one with the same key, if the prompt had an empty
\* window: promotions wait for the session, so both questions are put to the same
\* rows.
THEOREM AttributionIsOfAnswerHolds ==
    ASSUME NoTies
    PROVE  Spec => []AttributionIsOfAnswer
<1>1. Init => Frames
  BY FramesInit
<1>2. Inv /\ Frames /\ [Next]_bookVars => Frames'
  <2> SUFFICES ASSUME Inv, Frames, [Next]_bookVars PROVE Frames'
    OBVIOUS
  <2>1. CASE Next
    BY <2>1, FramesStep DEF Inv
  <2>2. CASE UNCHANGED bookVars
    BY <2>2 DEF bookVars, Frames
  <2> QED BY <2>1, <2>2
<1>3. Frames => AttributionIsOfAnswer
  BY DEF Frames, FrameOf, Agree, AttributionIsOfAnswer, GateAgrees
<1> QED BY <1>1, <1>2, <1>3, InvInductive, PTL DEF Spec

====
