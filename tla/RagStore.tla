---- MODULE RagStore ----
(* The chunk index of memory/rag_store.py beside the items of record that    *)
(* memory/store.py keeps: two tables, two files (rag_chunks.json and the     *)
(* "rag" part of memory_store.json), written one after the other.  Requests  *)
(* add and search in threads of their own; a save or an embedding may raise;  *)
(* the process may die between any two steps.                                *)
EXTENDS Naturals, FiniteSets

CONSTANTS
    Item,        \* ids of rag-route memories
    NoItem,      \* "no id"
    NChunks,     \* windows of one text (_split_chunks; see Retrieval)
    Adder,       \* threads that call rag_store.add once
    Searcher,    \* threads that call rag_store.search once
    NoThread     \* rag_store._lock is free

ASSUME RagThreadAssumption ==
    Adder \intersect Searcher = {} /\ NoThread \notin Adder \union Searcher
ASSUME RagItemAssumption == NoItem \notin Item
ASSUME NChunksAssumption == NChunks \in Nat \ {0}

VARIABLES
    chunks,      \* _chunks: how often each window of each item is in the index
    rag,         \* keys of store._rag
    chunkFile,   \* rag_chunks.json
    storeFile,   \* the "rag" part of memory_store.json
    lock,        \* rag_store._lock
    adder,       \* the frame of each add
    searcher,    \* the frame of each search
    acked,       \* history: items whose add returned
    torn         \* history: items a restart found without their windows

ragVars == <<chunks, rag, chunkFile, storeFile, lock, adder, searcher, acked, torn>>

Window == 1 .. NChunks

\* The order of _chunks only breaks ties between scores (Retrieval), so the
\* index is a bag.
Index == [Item -> [Window -> Nat]]

NoChunks == [i \in Item |-> [w \in Window |-> 0]]

Parents(index) == {i \in Item : \E w \in Window : index[i][w] > 0}

\* All windows of an item, equally often.
WholeIn(index, i) == \A v, w \in Window : index[i][v] = index[i][w]

AdderFrame ==
    [at : {"start", "embed", "enter", "append", "register", "save", "done"},
     cur : Item \union {NoItem},
     next : 1 .. NChunks + 1]          \* the next window to append

SearchFrame ==
    [at : {"start", "embed", "resolve", "done"},
     snapshot : SUBSET Item]           \* parents of the copied chunks

NewSearch(at) == [at |-> at, snapshot |-> {}]
AddOver(t) == adder' = [adder EXCEPT ![t] = [at |-> "done", cur |-> NoItem, next |-> 1]]

Init ==
    /\ chunks = NoChunks
    /\ rag = {}
    /\ chunkFile = NoChunks
    /\ storeFile = {}
    /\ lock = NoThread
    /\ adder = [t \in Adder |-> [at |-> "start", cur |-> NoItem, next |-> 1]]
    /\ searcher = [s \in Searcher |-> NewSearch("start")]
    /\ acked = {}
    /\ torn = {}

----
\* rag_store.add

\* ingest or route_memory; two re-routes of one memory both get here.
CallAdd(t, i) ==
    /\ adder[t].at = "start"
    /\ adder' = [adder EXCEPT ![t].at = "embed", ![t].cur = i]
    /\ UNCHANGED <<chunks, rag, chunkFile, storeFile, lock, searcher, acked, torn>>

\* Every window is embedded before the lock is taken.
EmbedChunks(t) ==
    /\ adder[t].at = "embed"
    /\ \/ adder' = [adder EXCEPT ![t].at = "enter"]
       \/ AddOver(t)
    /\ UNCHANGED <<chunks, rag, chunkFile, storeFile, lock, searcher, acked, torn>>

\* Mutant: windows are appended without the lock.
EnterUnlocked(t) ==
    /\ adder[t].at = "enter"
    /\ adder' = [adder EXCEPT ![t].at = "append"]
    /\ UNCHANGED <<chunks, rag, chunkFile, storeFile, lock, searcher, acked, torn>>

EnterLock(t) ==
    /\ adder[t].at = "enter"
    /\ lock = NoThread
    /\ lock' = t
    /\ adder' = [adder EXCEPT ![t].at = "append"]
    /\ UNCHANGED <<chunks, rag, chunkFile, storeFile, searcher, acked, torn>>

\* Mutant: the loop runs one window too far.
AppendTooMany(t) ==
    /\ adder[t].at = "append"
    /\ chunks' = [chunks EXCEPT ![adder[t].cur] =
            [w \in Window |-> IF w = adder[t].next THEN @[w] + 1 ELSE @[w]]]
    /\ adder' = [adder EXCEPT ![t] =
            [at |-> IF adder[t].next > NChunks THEN "register" ELSE "append",
             cur |-> adder[t].cur,
             next |-> adder[t].next + 1]]
    /\ UNCHANGED <<rag, chunkFile, storeFile, lock, searcher, acked, torn>>

\* The loop that appends the windows, one at a time.
AppendChunk(t) ==
    /\ adder[t].at = "append"
    /\ chunks' = [chunks EXCEPT ![adder[t].cur][adder[t].next] = @ + 1]
    /\ adder' = [adder EXCEPT ![t] =
            [at |-> IF adder[t].next = NChunks THEN "register" ELSE "append",
             cur |-> adder[t].cur,
             next |-> adder[t].next + 1]]
    /\ UNCHANGED <<rag, chunkFile, storeFile, lock, searcher, acked, torn>>

\* Mutant: the chunk file is written before the item of record.
RegisterAfterChunkFile(t) ==
    /\ adder[t].at = "register"
    /\ rag' = rag \union {adder[t].cur}
    /\ chunkFile' = chunks
    /\ adder' = [adder EXCEPT ![t].at = "save"]
    /\ UNCHANGED <<chunks, storeFile, lock, searcher, acked, torn>>

\* Mutant: an exception of the save leaves the lock taken.
RegisterKeepsLock(t) ==
    /\ adder[t].at = "register"
    /\ rag' = rag \union {adder[t].cur}
    /\ \/ /\ storeFile' = rag'
          /\ adder' = [adder EXCEPT ![t].at = "save"]
       \/ /\ AddOver(t)
          /\ UNCHANGED storeFile
    /\ UNCHANGED <<chunks, chunkFile, lock, searcher, acked, torn>>

\* store.rag_add: the table, then memory_store.json.  An exception of the save
\* leaves both locks and ends the add; the table keeps the item.
RegisterItem(t) ==
    /\ adder[t].at = "register"
    /\ rag' = rag \union {adder[t].cur}
    /\ \/ /\ storeFile' = rag'
          /\ adder' = [adder EXCEPT ![t].at = "save"]
          /\ UNCHANGED lock
       \/ /\ AddOver(t)
          /\ lock' = NoThread
          /\ UNCHANGED storeFile
    /\ UNCHANGED <<chunks, chunkFile, searcher, acked, torn>>

\* Mutant: a save that fails is swallowed and the add returns.
SaveChunksSwallowed(t) ==
    /\ adder[t].at = "save"
    /\ lock' = NoThread
    /\ chunkFile' \in {chunks, chunkFile}
    /\ acked' = acked \union {adder[t].cur}
    /\ AddOver(t)
    /\ UNCHANGED <<chunks, rag, storeFile, searcher, torn>>

\* _save_locked, and the add returns; or the save raises.
SaveChunks(t) ==
    /\ adder[t].at = "save"
    /\ lock' = NoThread
    /\ \/ /\ chunkFile' = chunks
          /\ acked' = acked \union {adder[t].cur}
       \/ UNCHANGED <<chunkFile, acked>>
    /\ AddOver(t)
    /\ UNCHANGED <<chunks, rag, storeFile, searcher, torn>>

AddStep(t) ==
    \/ EmbedChunks(t)
    \/ EnterLock(t)
    \/ AppendChunk(t)
    \/ RegisterItem(t)
    \/ SaveChunks(t)

----
\* rag_store.search

\* Mutant: the chunks are copied without the lock.
CopyChunksUnlocked(s) ==
    /\ searcher[s].at = "start"
    /\ searcher' = [searcher EXCEPT ![s] =
            [at |-> IF Parents(chunks) = {} THEN "done" ELSE "embed",
             snapshot |-> Parents(chunks)]]
    /\ UNCHANGED <<chunks, rag, chunkFile, storeFile, lock, adder, acked, torn>>

\* with _lock: list(_chunks).  An empty index ends the search.
CopyChunks(s) ==
    /\ lock = NoThread
    /\ searcher[s].at = "start"
    /\ searcher' = [searcher EXCEPT ![s] =
            [at |-> IF Parents(chunks) = {} THEN "done" ELSE "embed",
             snapshot |-> Parents(chunks)]]
    /\ UNCHANGED <<chunks, rag, chunkFile, storeFile, lock, adder, acked, torn>>

EmbedQuery(s) ==
    /\ searcher[s].at = "embed"
    /\ \/ searcher' = [searcher EXCEPT ![s].at = "resolve"]
       \/ searcher' = [searcher EXCEPT ![s] = NewSearch("done")]
    /\ UNCHANGED <<chunks, rag, chunkFile, storeFile, lock, adder, acked, torn>>

\* store.rag_all() is read without the chunk lock; a parent that is not in it
\* is dropped from the candidates.
Resolve(s) ==
    /\ searcher[s].at = "resolve"
    /\ searcher' = [searcher EXCEPT ![s] =
            [at |-> "done", snapshot |-> @.snapshot \intersect rag]]
    /\ UNCHANGED <<chunks, rag, chunkFile, storeFile, lock, adder, acked, torn>>

SearchStep(s) ==
    \/ CopyChunks(s)
    \/ EmbedQuery(s)
    \/ Resolve(s)

----

\* Any other save of the store, of an edit-route memory, writes the rag part too.
OtherSave ==
    /\ storeFile' = rag
    /\ UNCHANGED <<chunks, rag, chunkFile, lock, adder, searcher, acked, torn>>

\* Mutant: the chunk index is not loaded at startup.
RestartWithoutChunks ==
    /\ rag' = storeFile
    /\ chunks' = NoChunks
    /\ lock' = NoThread
    /\ adder' = [t \in Adder |-> IF adder[t].at = "start" THEN adder[t]
                    ELSE [at |-> "done", cur |-> NoItem, next |-> 1]]
    /\ searcher' = [s \in Searcher |-> IF searcher[s].at = "start" THEN searcher[s]
                                       ELSE NewSearch("done")]
    /\ torn' = torn \union (storeFile \ Parents(chunkFile))
    /\ UNCHANGED <<chunkFile, storeFile, acked>>

\* The process dies; lifespan loads both files.
Restart ==
    /\ rag' = storeFile
    /\ chunks' = chunkFile
    /\ lock' = NoThread
    /\ adder' = [t \in Adder |-> IF adder[t].at = "start" THEN adder[t]
                    ELSE [at |-> "done", cur |-> NoItem, next |-> 1]]
    /\ searcher' = [s \in Searcher |-> IF searcher[s].at = "start" THEN searcher[s]
                                       ELSE NewSearch("done")]
    /\ torn' = torn \union (storeFile \ Parents(chunkFile))
    /\ UNCHANGED <<chunkFile, storeFile, acked>>

Next ==
    \/ \E t \in Adder, i \in Item : CallAdd(t, i)
    \/ \E t \in Adder : AddStep(t)
    \/ \E s \in Searcher : SearchStep(s)
    \/ OtherSave
    \/ Restart

Spec == Init /\ [][Next]_ragVars

\* A thread that started runs on: a search as soon as it was asked for, an add
\* from its call.  Nothing makes a request or another save happen.
Fairness ==
    /\ \A t \in Adder : WF_ragVars(AddStep(t))
    /\ \A s \in Searcher : WF_ragVars(SearchStep(s))

FairSpec == Spec /\ Fairness

----
\* Properties

\* Types of the tables, the files and the frames, and the holder of the lock.
RagTypeOK ==
    /\ chunks \in Index
    /\ rag \subseteq Item
    /\ chunkFile \in Index
    /\ storeFile \subseteq Item
    /\ lock \in Adder \union {NoThread}
    /\ adder \in [Adder -> AdderFrame]
    /\ searcher \in [Searcher -> SearchFrame]
    /\ acked \subseteq Item
    /\ torn \subseteq Item

\* On disk no window is without its item of record, whatever save failed and
\* wherever the process died: search would drop it after it took a place in the
\* top_n of the ranking.  It is what rag_add before _save_locked is for.
FileParentsKnown == Parents(chunkFile) \subseteq storeFile

\* An add that returned is durable: its item and all of its windows are in both
\* files, for good, although other adds fail half way and crash beside it.
AckedDurable ==
    \A i \in acked :
        /\ i \in rag \intersect storeFile
        /\ i \in Parents(chunks) \intersect Parents(chunkFile)

\* The index never holds some windows of an item and not the others, except
\* inside the critical section: neither what a search copies nor the file.
WholeItems ==
    /\ \A i \in Item : WholeIn(chunkFile, i)
    /\ lock = NoThread => \A i \in Item : WholeIn(chunks, i)

\* search maps its copied chunks to items after it released the lock: none of
\* their parents is missing from the store by then.
NoCandidateLost ==
    \A s \in Searcher : searcher[s].at \in {"embed", "resolve"} =>
        searcher[s].snapshot \subseteq rag

\* An item of record that search cannot find is one that a restart found
\* without its windows in the chunk file: until the process dies, a save or an
\* embedding that raises never hides an item.
OnlyCrashTears ==
    lock = NoThread => rag \subseteq Parents(chunks) \union torn

\* Every add and every search comes to an end: no exception keeps the lock.
CallsEnd ==
    /\ \A t \in Adder : adder[t].at = "embed" ~> adder[t].at = "done"
    /\ \A s \in Searcher : <>(searcher[s].at = "done")

====
