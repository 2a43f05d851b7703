---- MODULE RagStoreProofs ----
(* Safety of RagStore for any number of threads, items and windows, with every *)
(* save and every embedding failing as it likes and crashes anywhere.         *)
EXTENDS RagStore, TLAPS

----
\* The inductive invariant

Holding == {"append", "register", "save"}

\* The critical section is the stretch of add between EnterLock and its end.
LockInv == \A t \in Adder : (adder[t].at \in Holding) <=> (lock = t)

FrameInv ==
    \A t \in Adder :
        /\ adder[t].at \notin {"start", "done"} => adder[t].cur \in Item
        /\ adder[t].at \in {"start", "embed", "enter"} => adder[t].next = 1
        /\ adder[t].at = "append" => adder[t].next \in Window

\* Half way through the loop the item has one more of each window before next.
Before(t, w) == IF w < adder[t].next THEN 1 ELSE 0

Partial(t) ==
    /\ \A i \in Item : i # adder[t].cur => WholeIn(chunks, i)
    /\ \A v, w \in Window :
          chunks[adder[t].cur][v] + Before(t, w) = chunks[adder[t].cur][w] + Before(t, v)

WholeInv ==
    /\ \A i \in Item : WholeIn(chunkFile, i)
    /\ \A t \in Adder : adder[t].at = "append" => Partial(t)
    /\ (\A t \in Adder : adder[t].at # "append") => \A i \in Item : WholeIn(chunks, i)

\* What is on disk and in the tables belongs to an item of record, or to the
\* one that is being added.
ParentInv ==
    /\ storeFile \subseteq rag
    /\ Parents(chunkFile) \subseteq storeFile
    /\ \A i \in Parents(chunks) :
          \/ i \in rag
          \/ \E t \in Adder : adder[t].at \in {"append", "register"} /\ adder[t].cur = i
    /\ \A t \in Adder : adder[t].at \in {"register", "save"} =>
          adder[t].cur \in Parents(chunks)
    /\ \A t \in Adder : adder[t].at = "save" => storeFile = rag /\ adder[t].cur \in rag

FoundInv == rag \subseteq Parents(chunks) \union torn

RagInv ==
    /\ RagTypeOK
    /\ LockInv
    /\ FrameInv
    /\ WholeInv
    /\ ParentInv
    /\ AckedDurable
    /\ FoundInv
    /\ NoCandidateLost

----
\* Facts about the index

\* Appending a window makes its item a parent and forgets none.
LEMMA AppendParents ==
    ASSUME NEW index \in Index, NEW i \in Item, NEW w \in Window
    PROVE  LET new == [index EXCEPT ![i][w] = @ + 1]
           IN  /\ new \in Index
               /\ Parents(new) = Parents(index) \union {i}
               /\ \A v \in Window : new[i][v] = IF v = w THEN index[i][v] + 1 ELSE index[i][v]
               /\ \A j \in Item : j # i => new[j] = index[j]
<1> DEFINE new == [index EXCEPT ![i][w] = @ + 1]
<1>1. new \in Index
  BY DEF Index
<1>2. /\ \A v \in Window : new[i][v] = IF v = w THEN index[i][v] + 1 ELSE index[i][v]
      /\ \A j \in Item : j # i => new[j] = index[j]
  BY DEF Index
<1>3. \A v \in Window : index[i][v] \in Nat
  BY DEF Index
<1>4. new[i][w] > 0
  BY <1>2, <1>3
<1>5. \A j \in Item : j \in Parents(new) <=> j \in Parents(index) \union {i}
  <2> SUFFICES ASSUME NEW j \in Item
               PROVE  j \in Parents(new) <=> j \in Parents(index) \union {i}
    OBVIOUS
  <2>1. CASE j = i
    BY <2>1, <1>4 DEF Parents
  <2>2. CASE j # i
    BY <2>2, <1>2 DEF Parents
  <2> QED BY <2>1, <2>2
<1>6. Parents(new) = Parents(index) \union {i}
  BY <1>5 DEF Parents
<1> QED BY <1>1, <1>2, <1>6

LEMMA NoChunksFacts == NoChunks \in Index /\ Parents(NoChunks) = {}
  BY DEF NoChunks, Index, Parents

----

LEMMA InitRagInv == Init => RagInv
<1> SUFFICES ASSUME Init PROVE RagInv
  OBVIOUS
<1> USE RagThreadAssumption, RagItemAssumption, NChunksAssumption DEF Init
<1>1. RagTypeOK
  BY NoChunksFacts DEF RagTypeOK, AdderFrame, SearchFrame, NewSearch
<1>2. LockInv
  BY DEF LockInv, Holding
<1>3. FrameInv
  BY DEF FrameInv
<1>4. WholeInv
  BY DEF WholeInv, WholeIn, NoChunks
<1>5. ParentInv
  BY NoChunksFacts DEF ParentInv
<1>6. AckedDurable /\ FoundInv
  BY DEF AckedDurable, FoundInv
<1>7. NoCandidateLost
  BY DEF NoCandidateLost, NewSearch
<1> QED BY <1>1, <1>2, <1>3, <1>4, <1>5, <1>6, <1>7 DEF RagInv

----
\* One lemma per part of the invariant, one step per action.

LEMMA TypeStep == RagTypeOK /\ LockInv /\ FrameInv /\ Next => RagTypeOK'
<1> SUFFICES ASSUME RagTypeOK, LockInv, FrameInv, Next PROVE RagTypeOK'
  OBVIOUS
<1> USE RagThreadAssumption, RagItemAssumption, NChunksAssumption
<1>1. ASSUME NEW t \in Adder, NEW i \in Item, CallAdd(t, i) PROVE RagTypeOK'
  BY ZenonT(40), <1>1 DEF RagTypeOK, CallAdd, AdderFrame
<1>2. ASSUME NEW t \in Adder, EmbedChunks(t) PROVE RagTypeOK'
  BY <1>2 DEF RagTypeOK, EmbedChunks, AddOver, AdderFrame
<1>3. ASSUME NEW t \in Adder, EnterLock(t) PROVE RagTypeOK'
  BY <1>3 DEF RagTypeOK, EnterLock, AdderFrame
<1>4. ASSUME NEW t \in Adder, AppendChunk(t) PROVE RagTypeOK'
  <2>1. adder[t].cur \in Item /\ adder[t].next \in Window
    BY <1>4 DEF AppendChunk, FrameInv
  <2>2. chunks' \in Index
    BY <1>4, <2>1, AppendParents DEF AppendChunk, RagTypeOK
  <2>3. adder' \in [Adder -> AdderFrame]
    <3>1. adder[t].next + 1 \in 1 .. NChunks + 1
      BY <2>1 DEF Window
    <3> QED BY <1>4, <2>1, <3>1 DEF RagTypeOK, AppendChunk, AdderFrame
  <2> QED BY <1>4, <2>2, <2>3 DEF RagTypeOK, AppendChunk
<1>5. ASSUME NEW t \in Adder, RegisterItem(t) PROVE RagTypeOK'
  <2>1. adder[t].cur \in Item
    BY <1>5 DEF RegisterItem, FrameInv
  <2> QED BY <1>5, <2>1 DEF RagTypeOK, RegisterItem, AddOver, AdderFrame
<1>6. ASSUME NEW t \in Adder, SaveChunks(t) PROVE RagTypeOK'
  <2>1. adder[t].cur \in Item
    BY <1>6 DEF SaveChunks, FrameInv
  <2> QED BY <1>6, <2>1 DEF RagTypeOK, SaveChunks, AddOver, AdderFrame
<1>7. ASSUME NEW s \in Searcher, SearchStep(s) PROVE RagTypeOK'
  BY <1>7 DEF RagTypeOK, SearchStep, CopyChunks, EmbedQuery, Resolve, SearchFrame,
              NewSearch, Parents
<1>8. ASSUME OtherSave PROVE RagTypeOK'
  BY <1>8 DEF RagTypeOK, OtherSave
<1>9. ASSUME Restart PROVE RagTypeOK'
  BY <1>9 DEF RagTypeOK, Restart, AdderFrame, SearchFrame, NewSearch
<1> QED BY <1>1, <1>2, <1>3, <1>4, <1>5, <1>6, <1>7, <1>8, <1>9 DEF Next, AddStep

LEMMA LockStep == RagTypeOK /\ LockInv /\ Next => LockInv'
<1> SUFFICES ASSUME RagTypeOK, LockInv, Next PROVE LockInv'
  OBVIOUS
<1> USE RagThreadAssumption DEF RagTypeOK, LockInv, Holding, AdderFrame
<1>1. ASSUME NEW t \in Adder, NEW i \in Item, CallAdd(t, i) PROVE LockInv'
  BY <1>1 DEF CallAdd
<1>2. ASSUME NEW t \in Adder, EmbedChunks(t) PROVE LockInv'
  BY <1>2 DEF EmbedChunks, AddOver
<1>3. ASSUME NEW t \in Adder, EnterLock(t) PROVE LockInv'
  BY <1>3 DEF EnterLock
<1>4. ASSUME NEW t \in Adder, AppendChunk(t) PROVE LockInv'
  BY <1>4 DEF AppendChunk
<1>5. ASSUME NEW t \in Adder, RegisterItem(t) PROVE LockInv'
  BY <1>5 DEF RegisterItem, AddOver
<1>6. ASSUME NEW t \in Adder, SaveChunks(t) PROVE LockInv'
  BY <1>6 DEF SaveChunks, AddOver
<1>7. ASSUME NEW s \in Searcher, SearchStep(s) PROVE LockInv'
  BY <1>7 DEF SearchStep, CopyChunks, EmbedQuery, Resolve
<1>8. ASSUME OtherSave PROVE LockInv'
  BY <1>8 DEF OtherSave
<1>9. ASSUME Restart PROVE LockInv'
  BY <1>9 DEF Restart
<1> QED BY <1>1, <1>2, <1>3, <1>4, <1>5, <1>6, <1>7, <1>8, <1>9 DEF Next, AddStep

LEMMA FrameStep == RagTypeOK /\ FrameInv /\ Next => FrameInv'
<1> SUFFICES ASSUME RagTypeOK, FrameInv, Next PROVE FrameInv'
  OBVIOUS
<1> USE NChunksAssumption DEF RagTypeOK, FrameInv, AdderFrame, Window
<1>1. ASSUME NEW t \in Adder, NEW i \in Item, CallAdd(t, i) PROVE FrameInv'
  BY <1>1 DEF CallAdd
<1>2. ASSUME NEW t \in Adder, EmbedChunks(t) PROVE FrameInv'
  BY <1>2 DEF EmbedChunks, AddOver
<1>3. ASSUME NEW t \in Adder, EnterLock(t) PROVE FrameInv'
  BY <1>3 DEF EnterLock
<1>4. ASSUME NEW t \in Adder, AppendChunk(t) PROVE FrameInv'
  BY <1>4 DEF AppendChunk
<1>5. ASSUME NEW t \in Adder, RegisterItem(t) PROVE FrameInv'
  BY <1>5 DEF RegisterItem, AddOver
<1>6. ASSUME NEW t \in Adder, SaveChunks(t) PROVE FrameInv'
  BY <1>6 DEF SaveChunks, AddOver
<1>7. ASSUME NEW s \in Searcher, SearchStep(s) PROVE FrameInv'
  BY <1>7 DEF SearchStep, CopyChunks, EmbedQuery, Resolve
<1>8. ASSUME OtherSave PROVE FrameInv'
  BY <1>8 DEF OtherSave
<1>9. ASSUME Restart PROVE FrameInv'
  BY <1>9 DEF Restart
<1> QED BY <1>1, <1>2, <1>3, <1>4, <1>5, <1>6, <1>7, <1>8, <1>9 DEF Next, AddStep

\* At most one add is inside the critical section.
LEMMA OneInside ==
    ASSUME LockInv, NEW t \in Adder, NEW u \in Adder,
           adder[t].at \in Holding, adder[u].at \in Holding
    PROVE  t = u
  BY DEF LockInv

LEMMA WholeStep ==
    RagTypeOK /\ LockInv /\ FrameInv /\ WholeInv /\ Next => WholeInv'
<1> SUFFICES ASSUME RagTypeOK, LockInv, FrameInv, WholeInv, Next PROVE WholeInv'
  OBVIOUS
<1> USE RagThreadAssumption
<1>0. adder \in [Adder -> AdderFrame]
  BY DEF RagTypeOK
\* Steps that leave the index alone and put nobody into the loop or out of it.
<1>a. ASSUME chunks' = chunks, chunkFile' = chunkFile,
             \A u \in Adder : adder'[u] = adder[u] \/
                          (adder[u].at # "append" /\ adder'[u].at # "append")
      PROVE  WholeInv'
  <2>1. \A u \in Adder : adder'[u].at = "append" => adder'[u] = adder[u]
    BY <1>a
  <2>2. ASSUME NEW u \in Adder, adder'[u].at = "append" PROVE Partial(u)'
    BY <2>1, <2>2, <1>a DEF WholeInv, Partial, Before, WholeIn
  <2>3. (\A u \in Adder : adder'[u].at # "append") => \A u \in Adder : adder[u].at # "append"
    BY <1>a
  <2> QED BY <1>a, <2>2, <2>3 DEF WholeInv, WholeIn
<1>1. ASSUME NEW t \in Adder, NEW i \in Item, CallAdd(t, i) PROVE WholeInv'
  <2>1. chunks' = chunks /\ chunkFile' = chunkFile
    BY <1>1 DEF CallAdd
  <2>2. \A u \in Adder : adder'[u] = adder[u] \/
                          (adder[u].at # "append" /\ adder'[u].at # "append")
    BY <1>0, <1>1 DEF CallAdd, AdderFrame
  <2> QED BY <1>a, <2>1, <2>2
<1>2. ASSUME NEW t \in Adder, EmbedChunks(t) PROVE WholeInv'
  <2>1. chunks' = chunks /\ chunkFile' = chunkFile
    BY <1>2 DEF EmbedChunks, AddOver
  <2>2. \A u \in Adder : adder'[u] = adder[u] \/
                          (adder[u].at # "append" /\ adder'[u].at # "append")
    BY <1>0, <1>2 DEF EmbedChunks, AddOver, AdderFrame
  <2> QED BY <1>a, <2>1, <2>2
<1>3. ASSUME NEW t \in Adder, EnterLock(t) PROVE WholeInv'
  <2>1. \A u \in Adder : adder[u].at # "append"
    BY <1>3 DEF LockInv, EnterLock, Holding
  <2>2. \A i \in Item : WholeIn(chunks, i)
    BY <2>1 DEF WholeInv
  <2>3. adder'[t].next = 1 /\ adder'[t].cur \in Item /\ adder'[t].at = "append"
    BY <1>0, <1>3 DEF EnterLock, FrameInv, AdderFrame
  <2>4. Partial(t)'
    BY <1>3, <2>2, <2>3 DEF Partial, Before, WholeIn, EnterLock, Window, RagTypeOK, Index
  <2>5. \A u \in Adder : u # t => adder'[u].at # "append"
    BY <1>0, <1>3, <2>1 DEF EnterLock
  <2> QED BY <1>3, <2>3, <2>4, <2>5 DEF WholeInv, EnterLock, WholeIn
<1>4. ASSUME NEW t \in Adder, AppendChunk(t) PROVE WholeInv'
  <2> DEFINE i == adder[t].cur
             w == adder[t].next
  <2>1. i \in Item /\ w \in Window /\ adder[t].at = "append"
    BY <1>4 DEF AppendChunk, FrameInv
  <2>2. Partial(t)
    BY <2>1 DEF WholeInv
  <2>3. /\ chunks' = [chunks EXCEPT ![i][w] = @ + 1]
        /\ chunks \in Index
    BY <1>4 DEF AppendChunk, RagTypeOK
  <2>4. /\ \A v \in Window : chunks'[i][v] = IF v = w THEN chunks[i][v] + 1 ELSE chunks[i][v]
        /\ \A j \in Item : j # i => chunks'[j] = chunks[j]
    <3> HIDE DEF i, w
    <3> QED BY <2>1, <2>3, AppendParents
  <2>5. adder'[t].cur = i /\ adder'[t].next = w + 1
    BY <1>0, <1>4 DEF AppendChunk
  <2>6. \A j \in Item : j # i => WholeIn(chunks, j)' 
    BY <2>2, <2>4 DEF Partial, WholeIn
  <2>7. ASSUME NEW v \in Window, NEW x \in Window
        PROVE  chunks'[i][v] + Before(t, x)' = chunks'[i][x] + Before(t, v)'
    <3>1. chunks[i][v] + Before(t, x) = chunks[i][x] + Before(t, v)
      BY <2>2 DEF Partial
    <3>2. chunks[i][v] \in Nat /\ chunks[i][x] \in Nat
      BY <2>1, <2>3 DEF Index
    <3>3. v \in Nat /\ x \in Nat /\ w \in Nat
      BY <2>1, NChunksAssumption DEF Window
    <3>4. /\ Before(t, x)' = IF x < w + 1 THEN 1 ELSE 0
          /\ Before(t, v)' = IF v < w + 1 THEN 1 ELSE 0
          /\ Before(t, x) = IF x < w THEN 1 ELSE 0
          /\ Before(t, v) = IF v < w THEN 1 ELSE 0
      BY <2>5 DEF Before
    <3>5. /\ chunks'[i][v] = IF v = w THEN chunks[i][v] + 1 ELSE chunks[i][v]
          /\ chunks'[i][x] = IF x = w THEN chunks[i][x] + 1 ELSE chunks[i][x]
      BY <2>4
    <3> HIDE DEF i, w
    <3> QED BY <3>1, <3>2, <3>3, <3>4, <3>5
  <2>8. Partial(t)'
    BY <2>5, <2>6, <2>7 DEF Partial
  <2>9. \A u \in Adder : u # t => adder'[u].at # "append"
    BY <1>0, <1>4, <2>1, OneInside DEF AppendChunk, Holding
  <2>10. CASE adder'[t].at = "append"
    BY <1>4, <2>8, <2>9, <2>10 DEF WholeInv, AppendChunk, WholeIn
  <2>11. CASE adder'[t].at # "append"
    <3>1. w = NChunks
      BY <1>0, <1>4, <2>11 DEF AppendChunk
    <3>2. \A v \in Window : Before(t, v)' = 1
      BY <2>5, <3>1, NChunksAssumption DEF Before, Window
    <3>3. chunks' \in Index
      BY <2>1, <2>3, AppendParents
    <3>4. WholeIn(chunks', i)
      <4> SUFFICES ASSUME NEW v \in Window, NEW x \in Window
                   PROVE  chunks'[i][v] = chunks'[i][x]
        BY DEF WholeIn
      <4>1. chunks'[i][v] + 1 = chunks'[i][x] + 1
        BY <2>7, <3>2
      <4>2. chunks'[i][v] \in Nat /\ chunks'[i][x] \in Nat
        BY <2>1, <3>3 DEF Index
      <4> HIDE DEF i
      <4> QED BY <4>1, <4>2
    <3> QED BY <1>4, <2>6, <2>9, <2>11, <3>4 DEF WholeInv, AppendChunk, WholeIn
  <2> QED BY <2>10, <2>11
<1>5. ASSUME NEW t \in Adder, RegisterItem(t) PROVE WholeInv'
  <2>1. chunks' = chunks /\ chunkFile' = chunkFile
    BY <1>5 DEF RegisterItem, AddOver
  <2>2. \A u \in Adder : adder'[u] = adder[u] \/
                          (adder[u].at # "append" /\ adder'[u].at # "append")
    BY <1>0, <1>5 DEF RegisterItem, AddOver, AdderFrame
  <2> QED BY <1>a, <2>1, <2>2
<1>6. ASSUME NEW t \in Adder, SaveChunks(t) PROVE WholeInv'
  <2>1. \A u \in Adder : adder[u].at # "append"
    BY <1>6, OneInside DEF SaveChunks, Holding
  <2>2. \A i \in Item : WholeIn(chunks, i) /\ WholeIn(chunkFile, i)
    BY <2>1 DEF WholeInv
  <2>3. \A u \in Adder : adder'[u].at # "append"
    BY <1>0, <1>6, <2>1 DEF SaveChunks, AddOver
  <2> QED BY <1>6, <2>2, <2>3 DEF WholeInv, WholeIn, SaveChunks
<1>7. ASSUME NEW s \in Searcher, SearchStep(s) PROVE WholeInv'
  <2>1. chunks' = chunks /\ chunkFile' = chunkFile
    BY <1>7 DEF SearchStep, CopyChunks, EmbedQuery, Resolve
  <2>2. \A u \in Adder : adder'[u] = adder[u] \/
                          (adder[u].at # "append" /\ adder'[u].at # "append")
    BY <1>0, <1>7 DEF SearchStep, CopyChunks, EmbedQuery, Resolve
  <2> QED BY <1>a, <2>1, <2>2
<1>8. ASSUME OtherSave PROVE WholeInv'
  <2>1. chunks' = chunks /\ chunkFile' = chunkFile
    BY <1>8 DEF OtherSave
  <2>2. \A u \in Adder : adder'[u] = adder[u] \/
                          (adder[u].at # "append" /\ adder'[u].at # "append")
    BY <1>0, <1>8 DEF OtherSave
  <2> QED BY <1>a, <2>1, <2>2
<1>9. ASSUME Restart PROVE WholeInv'
  <2>1. \A u \in Adder : adder'[u].at # "append"
    BY <1>9 DEF Restart
  <2> QED BY <1>9, <2>1 DEF WholeInv, WholeIn, Restart
<1> QED BY <1>1, <1>2, <1>3, <1>4, <1>5, <1>6, <1>7, <1>8, <1>9 DEF Next, AddStep

LEMMA ParentStep ==
    RagTypeOK /\ LockInv /\ FrameInv /\ ParentInv /\ Next => ParentInv'
<1> SUFFICES ASSUME RagTypeOK, LockInv, FrameInv, ParentInv, Next PROVE ParentInv'
  OBVIOUS
<1> USE RagThreadAssumption
<1>0. adder \in [Adder -> AdderFrame]
  BY DEF RagTypeOK
\* Steps of an add before the loop change neither table.
<1>a. ASSUME UNCHANGED <<chunks, rag, chunkFile, storeFile>>,
             \A u \in Adder : adder'[u] = adder[u] \/
                 (adder[u].at \notin Holding /\ adder'[u].at \notin {"register", "save"})
      PROVE  ParentInv'
  <2>1. \A u \in Adder : adder'[u].at \in {"register", "save"} => adder'[u] = adder[u]
    BY <1>a
  <2>2. \A u \in Adder : adder[u].at \in {"append", "register"} => adder'[u] = adder[u]
    BY <1>a DEF Holding
  <2> QED BY <2>1, <2>2, <1>a DEF ParentInv, Parents
<1>1. ASSUME NEW t \in Adder, NEW i \in Item, CallAdd(t, i) PROVE ParentInv'
  <2>1. UNCHANGED <<chunks, rag, chunkFile, storeFile>>
    BY <1>1 DEF CallAdd
  <2>2. \A u \in Adder : adder'[u] = adder[u] \/
            (adder[u].at \notin Holding /\ adder'[u].at \notin {"register", "save"})
    BY <1>0, <1>1 DEF CallAdd, AdderFrame, Holding
  <2> QED BY <1>a, <2>1, <2>2
<1>2. ASSUME NEW t \in Adder, EmbedChunks(t) PROVE ParentInv'
  <2>1. UNCHANGED <<chunks, rag, chunkFile, storeFile>>
    BY <1>2 DEF EmbedChunks
  <2>2. \A u \in Adder : adder'[u] = adder[u] \/
            (adder[u].at \notin Holding /\ adder'[u].at \notin {"register", "save"})
    BY <1>0, <1>2 DEF EmbedChunks, AddOver, AdderFrame, Holding
  <2> QED BY <1>a, <2>1, <2>2
<1>3. ASSUME NEW t \in Adder, EnterLock(t) PROVE ParentInv'
  <2>1. UNCHANGED <<chunks, rag, chunkFile, storeFile>>
    BY <1>3 DEF EnterLock
  <2>2. \A u \in Adder : adder'[u] = adder[u] \/
            (adder[u].at \notin Holding /\ adder'[u].at \notin {"register", "save"})
    BY <1>0, <1>3 DEF EnterLock, AdderFrame, Holding
  <2> QED BY <1>a, <2>1, <2>2
<1>4. ASSUME NEW t \in Adder, AppendChunk(t) PROVE ParentInv'
  <2> DEFINE i == adder[t].cur
             w == adder[t].next
  <2>1. i \in Item /\ w \in Window /\ adder[t].at = "append"
    BY <1>4 DEF AppendChunk, FrameInv
  <2>2. Parents(chunks') = Parents(chunks) \union {i}
    <3>1. chunks' = [chunks EXCEPT ![i][w] = @ + 1] /\ chunks \in Index
      BY <1>4 DEF AppendChunk, RagTypeOK
    <3> HIDE DEF i, w
    <3> QED BY <2>1, <3>1, AppendParents
  <2>3. /\ adder'[t].at \in {"append", "register"}
        /\ adder'[t].cur = i
        /\ \A u \in Adder : u # t => adder'[u] = adder[u]
    BY <1>0, <1>4 DEF AppendChunk
  <2>4. \A u \in Adder : u # t => adder[u].at \notin Holding
    BY <2>1, OneInside DEF Holding
  <2>5. \A j \in Parents(chunks') : j \in rag' \/
            \E u \in Adder : adder'[u].at \in {"append", "register"} /\ adder'[u].cur = j
    BY <1>4, <2>1, <2>2, <2>3, <2>4 DEF AppendChunk, ParentInv, Holding
  <2>6. \A u \in Adder : adder'[u].at \in {"register", "save"} => adder'[u].cur \in Parents(chunks')
    BY <2>2, <2>3, <2>4 DEF Holding
  <2>7. \A u \in Adder : adder'[u].at # "save"
    BY <2>3, <2>4 DEF Holding
  <2>8. storeFile' \subseteq rag' /\ Parents(chunkFile)' \subseteq storeFile'
    BY <1>4 DEF AppendChunk, ParentInv, Parents
  <2> QED BY <2>5, <2>6, <2>7, <2>8 DEF ParentInv, Parents
<1>5. ASSUME NEW t \in Adder, RegisterItem(t) PROVE ParentInv'
  <2>1. adder[t].at = "register" /\ adder[t].cur \in Parents(chunks)
    BY <1>5 DEF RegisterItem, ParentInv
  <2>2. \A u \in Adder : u # t => adder[u].at \notin Holding
    BY <2>1, OneInside DEF Holding
  <2>3. \A u \in Adder : u # t => adder'[u] = adder[u]
    BY <1>0, <1>5 DEF RegisterItem, AddOver
  <2>4. Parents(chunks)' = Parents(chunks) /\ Parents(chunkFile)' = Parents(chunkFile)
    BY <1>5 DEF RegisterItem, Parents
  <2>5. rag' = rag \union {adder[t].cur} /\ Parents(chunks) \subseteq rag'
    BY <1>5, <2>1, <2>2 DEF RegisterItem, ParentInv, Holding
  <2>6. storeFile' \subseteq rag' /\ storeFile \subseteq storeFile'
    BY <1>5, <2>5 DEF RegisterItem, ParentInv
  <2>7. \A u \in Adder : adder'[u].at \in {"register", "save"} =>
            u = t /\ adder'[u].cur = adder[t].cur /\ storeFile' = rag'
    <3>1. CASE AddOver(t)
      BY <1>0, <2>2, <2>3, <3>1 DEF AddOver, Holding
    <3>2. CASE adder' = [adder EXCEPT ![t].at = "save"] /\ storeFile' = rag'
      BY <1>0, <2>2, <2>3, <3>2 DEF Holding
    <3> QED BY <1>5, <3>1, <3>2 DEF RegisterItem
  <2>8. /\ storeFile' \subseteq rag'
        /\ Parents(chunkFile)' \subseteq storeFile'
        /\ Parents(chunks)' \subseteq rag'
    BY <2>4, <2>5, <2>6 DEF ParentInv
  <2>9. \A u \in Adder : adder'[u].at \in {"register", "save"} =>
            adder'[u].cur \in Parents(chunks)' /\ storeFile' = rag' /\ adder'[u].cur \in rag'
    BY <2>1, <2>4, <2>5, <2>7
  <2> QED BY <2>8, <2>9 DEF ParentInv
<1>6. ASSUME NEW t \in Adder, SaveChunks(t) PROVE ParentInv'
  <2>1. adder[t].at = "save" /\ storeFile = rag
    BY <1>6 DEF SaveChunks, ParentInv
  <2>2. \A u \in Adder : u # t => adder[u].at \notin Holding
    BY <2>1, OneInside DEF Holding
  <2>3. \A u \in Adder : adder'[u].at \notin Holding
    BY <1>0, <1>6, <2>2 DEF SaveChunks, AddOver, Holding
  <2>4. Parents(chunks) \subseteq rag
    BY <2>1, <2>2 DEF ParentInv, Holding
  <2>5. chunks' = chunks /\ rag' = rag /\ storeFile' = storeFile /\ chunkFile' \in {chunks, chunkFile}
    BY <1>6 DEF SaveChunks
  <2> QED BY <2>1, <2>3, <2>4, <2>5 DEF ParentInv, Parents, Holding
<1>7. ASSUME NEW s \in Searcher, SearchStep(s) PROVE ParentInv'
  <2>1. UNCHANGED <<chunks, rag, chunkFile, storeFile, adder>>
    BY <1>7 DEF SearchStep, CopyChunks, EmbedQuery, Resolve
  <2> QED BY <1>a, <2>1
<1>8. ASSUME OtherSave PROVE ParentInv'
  <2>1. storeFile' = rag /\ UNCHANGED <<chunks, rag, chunkFile, adder>>
    BY <1>8 DEF OtherSave
  <2> QED BY <2>1 DEF ParentInv, Parents
<1>9. ASSUME Restart PROVE ParentInv'
  <2>1. \A u \in Adder : adder'[u].at \in {"start", "done"}
    BY <1>9 DEF Restart
  <2>2. chunks' = chunkFile /\ chunkFile' = chunkFile /\ rag' = storeFile /\ storeFile' = storeFile
    BY <1>9 DEF Restart
  <2> QED BY <2>1, <2>2 DEF ParentInv, Parents
<1> QED BY <1>1, <1>2, <1>3, <1>4, <1>5, <1>6, <1>7, <1>8, <1>9 DEF Next, AddStep

\* What one step does to the tables and files that the three properties below
\* relate: until a restart, they only grow.
LEMMA Growth ==
    ASSUME RagTypeOK, LockInv, FrameInv, ParentInv, Next
    PROVE  \/ /\ rag \subseteq rag' /\ storeFile \subseteq storeFile'
              /\ Parents(chunks) \subseteq Parents(chunks')
              /\ chunkFile' \in {chunks, chunkFile}
              /\ torn' = torn
              /\ rag' \subseteq rag \union Parents(chunks)
           \/ Restart
<1>1. ASSUME NEW t \in Adder, AppendChunk(t)
      PROVE  Parents(chunks) \subseteq Parents(chunks')
  <2> DEFINE i == adder[t].cur
             w == adder[t].next
  <2>1. i \in Item /\ w \in Window
    BY <1>1 DEF AppendChunk, FrameInv
  <2>2. chunks' = [chunks EXCEPT ![i][w] = @ + 1] /\ chunks \in Index
    BY <1>1 DEF AppendChunk, RagTypeOK
  <2> HIDE DEF i, w
  <2>3. Parents(chunks') = Parents(chunks) \union {i}
    BY <2>1, <2>2, AppendParents
  <2> QED BY <2>3
<1>2. ASSUME NEW t \in Adder, RegisterItem(t)
      PROVE  storeFile \subseteq storeFile' /\ rag' \subseteq rag \union Parents(chunks)
  BY <1>2 DEF RegisterItem, ParentInv
<1>3. OtherSave => storeFile \subseteq storeFile'
  BY DEF OtherSave, ParentInv
<1> QED BY <1>1, <1>2, <1>3
        DEF Next, AddStep, CallAdd, EmbedChunks, EnterLock, AppendChunk, RegisterItem,
            SaveChunks, SearchStep, CopyChunks, EmbedQuery, Resolve, OtherSave

LEMMA FoundStep ==
    RagTypeOK /\ LockInv /\ FrameInv /\ ParentInv /\ FoundInv /\ Next => FoundInv'
<1> SUFFICES ASSUME RagTypeOK, LockInv, FrameInv, ParentInv, FoundInv, Next
             PROVE  FoundInv'
  OBVIOUS
<1>1. CASE Restart
  BY <1>1 DEF Restart, FoundInv, Parents
<1>2. CASE ~Restart
  <2>1. rag' \subseteq rag \union Parents(chunks) /\ Parents(chunks) \subseteq Parents(chunks')
        /\ torn' = torn
    BY <1>2, Growth
  <2> QED BY <2>1 DEF FoundInv, Parents
<1> QED BY <1>1, <1>2

LEMMA AckedStep ==
    RagTypeOK /\ LockInv /\ FrameInv /\ ParentInv /\ AckedDurable /\ Next => AckedDurable'
<1> SUFFICES ASSUME RagTypeOK, LockInv, FrameInv, ParentInv, AckedDurable, Next
             PROVE  AckedDurable'
  OBVIOUS
<1> DEFINE Kept == acked \subseteq rag /\ acked \subseteq storeFile /\
                   acked \subseteq Parents(chunks) /\ acked \subseteq Parents(chunkFile)
<1>1. Kept
  BY DEF AckedDurable
<1>2. CASE Restart
  BY <1>1, <1>2 DEF Restart, AckedDurable, Parents
<1>3. CASE ~Restart
  <2>1. /\ rag \subseteq rag' /\ storeFile \subseteq storeFile'
        /\ Parents(chunks) \subseteq Parents(chunks')
        /\ chunkFile' \in {chunks, chunkFile}
    BY <1>3, Growth
  <2>2. acked \subseteq Parents(chunkFile')
    BY <1>1, <2>1
  <2>3. CASE acked' = acked
    BY <1>1, <2>1, <2>2, <2>3 DEF AckedDurable, Parents
  <2>4. CASE acked' # acked
    <3>1. PICK t \in Adder : SaveChunks(t) /\ acked' = acked \union {adder[t].cur}
                             /\ chunkFile' = chunks
      BY <2>4, <1>3 DEF Next, AddStep, CallAdd, EmbedChunks, EnterLock, AppendChunk,
            RegisterItem, SaveChunks, SearchStep, CopyChunks, EmbedQuery, Resolve, OtherSave
    <3>2. adder[t].cur \in rag /\ storeFile = rag /\ adder[t].cur \in Parents(chunks)
      BY <3>1 DEF SaveChunks, ParentInv
    <3>3. UNCHANGED <<chunks, rag, storeFile>>
      BY <3>1 DEF SaveChunks
    <3> QED BY <1>1, <3>1, <3>2, <3>3 DEF AckedDurable, Parents
  <2> QED BY <2>3, <2>4
<1> QED BY <1>2, <1>3

LEMMA SnapshotStep ==
    RagTypeOK /\ LockInv /\ FrameInv /\ ParentInv /\ NoCandidateLost /\ Next
        => NoCandidateLost'
<1> SUFFICES ASSUME RagTypeOK, LockInv, FrameInv, ParentInv, NoCandidateLost, Next
             PROVE  NoCandidateLost'
  OBVIOUS
<1> USE RagThreadAssumption
<1>0. searcher \in [Searcher -> SearchFrame]
  BY DEF RagTypeOK
<1>1. CASE Restart
  BY <1>1 DEF Restart, NoCandidateLost, NewSearch
<1>2. ASSUME ~Restart, searcher' = searcher PROVE NoCandidateLost'
  <2>1. rag \subseteq rag'
    BY <1>2, Growth
  <2> QED BY <1>2, <2>1 DEF NoCandidateLost
<1>3. ASSUME NEW s \in Searcher, CopyChunks(s) PROVE NoCandidateLost'
  <2>1. Parents(chunks) \subseteq rag
    BY <1>3 DEF CopyChunks, ParentInv, LockInv, Holding
  <2> QED BY <1>0, <1>3, <2>1 DEF CopyChunks, NoCandidateLost, SearchFrame
<1>4. ASSUME NEW s \in Searcher, EmbedQuery(s) \/ Resolve(s) PROVE NoCandidateLost'
  BY <1>0, <1>4 DEF EmbedQuery, Resolve, NoCandidateLost, NewSearch, SearchFrame
<1> QED BY <1>1, <1>2, <1>3, <1>4
        DEF Next, AddStep, CallAdd, EmbedChunks, EnterLock, AppendChunk, RegisterItem,
            SaveChunks, SearchStep, OtherSave

----

LEMMA RagInvStep == RagInv /\ [Next]_ragVars => RagInv'
<1> SUFFICES ASSUME RagInv, [Next]_ragVars PROVE RagInv'
  OBVIOUS
<1>1. CASE Next
  BY <1>1, TypeStep, LockStep, FrameStep, WholeStep, ParentStep, FoundStep, AckedStep,
     SnapshotStep DEF RagInv
<1>2. CASE UNCHANGED ragVars
  BY <1>2 DEF ragVars, RagInv, RagTypeOK, LockInv, FrameInv, WholeInv, Partial, Before,
              WholeIn, ParentInv, Parents, AckedDurable, FoundInv, NoCandidateLost
<1> QED BY <1>1, <1>2

LEMMA RagInvAlways == Spec => []RagInv
  BY InitRagInv, RagInvStep, PTL DEF Spec

\* The tables, files, frames and the lock of rag_store.py keep their types: the
\* loop of add never runs past the last window.
THEOREM RagTypeCorrect == Spec => []RagTypeOK
<1>1. RagInv => RagTypeOK
  BY DEF RagInv
<1> QED BY <1>1, RagInvAlways, PTL

\* rag_chunks.json never names an item that memory_store.json does not know.
THEOREM FileParentsKnownHolds == Spec => []FileParentsKnown
<1>1. RagInv => FileParentsKnown
  BY DEF RagInv, ParentInv, FileParentsKnown
<1> QED BY <1>1, RagInvAlways, PTL

\* What rag_store.add has acknowledged survives every failure and every crash.
THEOREM AckedDurableHolds == Spec => []AckedDurable
<1>1. RagInv => AckedDurable
  BY DEF RagInv
<1> QED BY <1>1, RagInvAlways, PTL

\* Outside the critical section of add every item has all of its windows.
THEOREM WholeItemsHolds == Spec => []WholeItems
<1>1. RagInv => WholeItems
  <2> SUFFICES ASSUME RagInv PROVE WholeItems
    OBVIOUS
  <2>1. lock = NoThread => \A t \in Adder : adder[t].at # "append"
    BY RagThreadAssumption DEF RagInv, LockInv, Holding
  <2> QED BY <2>1 DEF RagInv, WholeInv, WholeItems
<1> QED BY <1>1, RagInvAlways, PTL

\* search resolves every candidate although it released the chunk lock.
THEOREM NoCandidateLostHolds == Spec => []NoCandidateLost
<1>1. RagInv => NoCandidateLost
  BY DEF RagInv
<1> QED BY <1>1, RagInvAlways, PTL

\* Only a restart hides an item of record from search.
THEOREM OnlyCrashTearsHolds == Spec => []OnlyCrashTears
<1>1. RagInv => OnlyCrashTears
  BY DEF RagInv, FoundInv, OnlyCrashTears
<1> QED BY <1>1, RagInvAlways, PTL

====
