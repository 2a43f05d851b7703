---- MODULE Store ----
(* The edit-route table of Engram: memory/store.py and memory/buffer.py.     *)
(*                                                                           *)
(* store.get and store.by_status hand out the stored object itself, so a     *)
(* MemoryItem is shared by every thread that holds it: heap is the object,    *)
(* whether or not its id is still a key of _memories.  Assigning one of its    *)
(* attributes is visible to everyone at once and reaches the file with the    *)
(* next save, whoever makes it.                                              *)
EXTENDS Naturals

CONSTANTS
    Item,        \* ids of the memories a run may extract
    NoItem,      \* "no id"
    MaxPatch     \* bound: how many times one memory's text is rewritten

ASSUME NoItemAssumption == NoItem \notin Item
ASSUME MaxPatchAssumption == MaxPatch \in Nat

VARIABLES
    heap,        \* the MemoryItem objects
    memories,    \* keys of store._memories
    rag,         \* keys of store._rag
    storeFile    \* memory_store.json: the snapshot of the last save

storeVars == <<heap, memories, rag, storeFile>>

----

Version == 0 .. MaxPatch

\* A text is known by its version: text is item.text, edit the version of the
\* text that provenance["edit"] (stem, target, subject) was decomposed from.
\* "none" is an id no conversation has produced yet.
MemoryItem ==
    [status       : {"none", "buffer", "consolidated", "retired"},
     route        : {"edit", "rag"},
     text         : Version,
     edit         : Version,
     duplicateOf  : Item \union {NoItem},
     supersededBy : Item \union {NoItem}]

Unborn ==
    [status |-> "none", route |-> "edit", text |-> 0, edit |-> 0,
     duplicateOf |-> NoItem, supersededBy |-> NoItem]

StoreInit ==
    /\ heap = [i \in Item |-> Unborn]
    /\ memories = {}
    /\ rag = {}
    /\ storeFile = [memories |-> [i \in {} |-> Unborn], rag |-> {}]

----

ByStatus(s) == {i \in memories : heap[i].status = s}

LoadUnconsolidated == ByStatus("buffer")

\* The registry a pass and a preview classify against.
ConsolidatedEdits == {i \in ByStatus("consolidated") : heap[i].route = "edit"}

InBuffer(i) == i \in LoadUnconsolidated

\* _save_locked: the whole table, in one atomic file replacement.  objects is
\* the heap as the step leaves it.
Snapshot(objects, ids, ragIds) ==
    [memories |-> [i \in ids |-> objects[i]], rag |-> ragIds]

Upsert(i, objects) ==
    /\ memories' = memories \union {i}
    /\ storeFile' = Snapshot(objects, memories \union {i}, rag)

\* Mutant: delete forgets to save.
DeleteUnsaved(i) ==
    /\ memories' = memories \ {i}
    /\ UNCHANGED storeFile

\* delete saves only when something was removed.
Delete(i) ==
    /\ memories' = memories \ {i}
    /\ storeFile' = IF i \in memories THEN Snapshot(heap, memories \ {i}, rag)
                                     ELSE storeFile

RagAdd(i) ==
    /\ rag' = rag \union {i}
    /\ storeFile' = Snapshot(heap, memories, rag \union {i})

\* enable_persistence(load=True) at startup.  An object that is in no file is
\* garbage from then on: no thread holds it.
LoadStore ==
    /\ memories' = DOMAIN storeFile.memories
    /\ rag' = storeFile.rag
    /\ heap' = [i \in Item |-> IF i \in DOMAIN storeFile.memories
                               THEN storeFile.memories[i] ELSE heap[i]]
    /\ UNCHANGED storeFile

====
