---- MODULE ContentionProofs ----
(* What holds of Serving with every kind of writer at work: passes in place    *)
(* next to the worker, adapters plugged and unplugged, requests of the user,   *)
(* failures and restarts.  Nothing here assumes SingleWriter.                *)
EXTENDS ServingProofs, Listing

----
(* The inference lock and the slot.                                          *)

\* The lock is held by the request that plans or decodes, and by nobody else.
SessionInv == \A c \in Chat : chat[c].at \in {"plan", "decode"} <=> lock = c

SlotInv == TypeInv /\ SessionInv

\* Whoever changes the slot found the lock free, or is an edit in place that is
\* about to install the adapter it built for the original Linear.
SlotEffect == slot' = slot \/ lock = NoThread \/ \E p \in Pass : InstallAdapter(p)

LEMMA InitSlotInv == Init => SlotInv
<1>1. ASSUME Init PROVE SessionInv
  BY <1>1, ThreadAssumption DEF Init, HostInit, SessionInv, NewChat
<1> QED
  BY <1>1, InitTypeInv DEF SlotInv

LEMMA PassSlotEffect ==
  ASSUME NEW p \in Pass, BeginPass(p) \/ PassStep(p)
  PROVE  lock' = lock /\ SlotEffect
<1>1. CASE \/ BeginPass(p) \/ ReadRegistry(p) \/ EndPass(p) \/ ClassifyRaises(p)
           \/ \E i \in Item : \/ ClassifyNew(p, i) \/ ClassifySupersede(p, i)
                              \/ ClassifyDuplicate(p, i) \/ RetireOld(p, i)
           \/ DrainCheck(p) \/ DrainDelete(p) \/ EditFails(p) \/ Commit(p)
  BY <1>1 DEF BeginPass, ReadRegistry, EndPass, ClassifyRaises, ClassifyNew,
     ClassifySupersede, ClassifyDuplicate, RetireOld, DrainCheck, DrainDelete,
     EditFails, Commit, hostVars, SlotEffect
<1>2. CASE ShadowEdit(p) \/ AddKey(p) \/ FinishTraining(p) \/ AppendChatKeys(p)
  BY <1>2 DEF ShadowEdit, AddKey, FinishTraining, AppendChatKeys, SlotEffect
<1>3. CASE ReadSlot(p) \/ InstallAdapter(p)
  BY <1>3 DEF ReadSlot, InstallAdapter, hostVars, SlotEffect
<1>4. CASE Promote(p) \/ Register(p)
  BY <1>4 DEF Promote, Register, PromoteEditModule, RegisterEditModule, SlotEffect
<1> QED
  BY <1>1, <1>2, <1>3, <1>4 DEF PassStep

LEMMA ClientSlotEffect ==
  ASSUME NEW u \in Client, ClientAsks(u) \/ ClientStep(u)
  PROVE  lock' = lock /\ SlotEffect /\ chat' = chat
<1>1. CASE ClientStep(u)
  BY <1>1 DEF ClientStep, BufferDropCheck, BufferDropDelete, Reroute, IndexRerouted,
     PatchUpsert, hostVars, SlotEffect
<1>2. CASE ClientAsks(u)
  BY <1>2 DEF ClientAsks, AskDrop, AskRoute, AskPatch, Plug, Unplug, hostVars,
     SlotEffect
<1> QED
  BY <1>1, <1>2

LEMMA ChatKeepsSlot ==
  ASSUME NEW c \in Chat, Extract(c) \/ ChatStep(c)
  PROVE  slot' = slot
<1>1. CASE Extract(c)
  BY <1>1 DEF Extract, hostVars
<1>2. CASE ChatStep(c)
  BY <1>2 DEF ChatStep, Append, Annotate, PinReference, IndexReference, EmbeddingFails,
     StartSession, EnterSession, Prompt, Reply, LeaveSession, hostVars
<1> QED
  BY <1>1, <1>2

LEMMA ChatSlotInv ==
  ASSUME TypeInv, SessionInv, NEW c \in Chat, Extract(c) \/ ChatStep(c)
  PROVE  SessionInv'
<1> USE DEF SessionInv, ChatBecomes
<1>0. chat \in [Chat -> ChatFrame] /\ chat[c] \in ChatFrame
  BY DEF TypeInv, ChatType
<1>1. ASSUME NEW f \in ChatFrame, f.at \notin {"plan", "decode"}, ChatBecomes(c, f),
             chat[c].at \notin {"plan", "decode"}, lock' = lock, slot' = slot
      PROVE  SessionInv'
  BY <1>0, <1>1
<1>2. CASE Extract(c)
  <2>1. PICK new \in SUBSET Item :
          ChatBecomes(c, [chat[c] EXCEPT !.at = "ingest", !.todo = new])
    <3>1. PICK new \in SUBSET {i \in Item : heap[i].status = "none"}, edits \in SUBSET Item :
            ChatBecomes(c, [chat[c] EXCEPT !.at = "ingest", !.todo = new])
      BY <1>2 DEF Extract
    <3> QED
      BY <3>1
  <2> DEFINE f == [chat[c] EXCEPT !.at = "ingest", !.todo = new]
  <2>2. f \in ChatFrame /\ f.at = "ingest" /\ ChatBecomes(c, f)
    BY <1>0, <2>1 DEF ChatFrame
  <2>3. chat[c].at = "start" /\ lock' = lock /\ slot' = slot
    BY <1>2 DEF Extract, hostVars
  <2> HIDE DEF f
  <2> QED
    BY <1>1, <2>2, <2>3
<1>3. ASSUME NEW i \in Item, Append(c, i)
      PROVE  SessionInv'
  <2> DEFINE f == [chat[c] EXCEPT !.at = "preview", !.cur = i,
                                  !.todo = @ \ {i}, !.mine = @ \union {i}]
  <2>1. /\ f \in ChatFrame /\ f.at = "preview" /\ ChatBecomes(c, f)
        /\ chat[c].at \notin {"plan", "decode"} /\ lock' = lock /\ slot' = slot
    BY <1>0, <1>3 DEF ChatFrame, Append, hostVars
  <2> HIDE DEF f
  <2> QED
    BY <1>1, <2>1
<1>4. ASSUME NEW i \in Item, PinReference(c, i)
      PROVE  SessionInv'
  <2> DEFINE f == [chat[c] EXCEPT !.at = "index", !.cur = i, !.todo = @ \ {i}]
  <2>1. /\ f \in ChatFrame /\ f.at = "index" /\ ChatBecomes(c, f)
        /\ chat[c].at \notin {"plan", "decode"} /\ lock' = lock /\ slot' = slot
    BY <1>0, <1>4 DEF ChatFrame, PinReference, hostVars
  <2> HIDE DEF f
  <2> QED
    BY <1>1, <2>1
<1>5. CASE Annotate(c) \/ IndexReference(c)
  <2> DEFINE f == [chat[c] EXCEPT !.at = "ingest", !.cur = NoItem]
  <2>1. /\ f \in ChatFrame /\ f.at = "ingest" /\ ChatBecomes(c, f)
        /\ chat[c].at \notin {"plan", "decode"} /\ lock' = lock /\ slot' = slot
    BY <1>0, <1>5 DEF ChatFrame, Annotate, IndexReference, hostVars
  <2> HIDE DEF f
  <2> QED
    BY <1>1, <2>1
<1>6. CASE EmbeddingFails(c)
  BY <1>1, <1>6, ChatDoneType DEF EmbeddingFails, hostVars
<1>7. CASE StartSession(c)
  <2>1. \A d \in Chat : d # c => chat[d].at \notin {"plan", "decode"}
    BY <1>7, ThreadAssumption DEF StartSession, EnterSession
  <2>2. chat'[c].at = "plan" /\ \A d \in Chat : d # c => chat'[d] = chat[d]
    BY <1>0, <1>7 DEF StartSession, ChatFrame
  <2> QED
    BY <1>7, <2>1, <2>2 DEF StartSession, EnterSession
<1>8. CASE Prompt(c)
  <2>1. chat'[c].at = "decode" /\ chat'[c].view.slot = slot
    BY <1>0, <1>8 DEF Prompt, View, ChatFrame
  <2>2. \A d \in Chat : d # c => chat'[d] = chat[d]
    BY <1>0, <1>8 DEF Prompt
  <2>3. lock = c /\ lock' = lock /\ slot' = slot
    BY <1>8 DEF Prompt, hostVars
  <2> QED
    BY <2>1, <2>2, <2>3
<1>9. CASE Reply(c)
  <2>1. \A d \in Chat : d # c => chat[d].at \notin {"plan", "decode"}
    BY <1>9 DEF Reply, LeaveSession
  <2>2. chat'[c].at = "done" /\ \A d \in Chat : d # c => chat'[d] = chat[d]
    BY <1>0, <1>9, ChatDoneType DEF Reply
  <2>3. lock' = NoThread
    BY <1>9 DEF Reply, LeaveSession
  <2> QED
    BY <2>1, <2>2, <2>3, ThreadAssumption
<1> QED
  BY <1>2, <1>3, <1>4, <1>5, <1>6, <1>7, <1>8, <1>9 DEF ChatStep

LEMMA RestartSlotInv ==
  ASSUME Restart
  PROVE  SessionInv'
<1>1. \A c \in Chat : chat'[c].at \in {"start", "done"}
  BY ChatDoneType DEF Restart
<1>2. lock' = NoThread
  BY DEF Restart, LoadCodebook
<1> QED
  BY <1>1, <1>2, ThreadAssumption DEF SessionInv

LEMMA SlotInvStep == SlotInv /\ [Next]_vars => SlotInv'
<1> SUFFICES ASSUME SlotInv, [Next]_vars PROVE SessionInv'
  BY TypeInvStep DEF SlotInv
<1> USE DEF SlotInv
<1>1. ASSUME chat' = chat, lock' = lock PROVE SessionInv'
  BY <1>1 DEF SessionInv
<1>2. ASSUME NEW p \in Pass, PassBegins(p) \/ PassRuns(p) PROVE SessionInv'
  BY <1>1, <1>2, PassSlotEffect DEF PassBegins, PassRuns
<1>3. ASSUME NEW c \in Chat, Extract(c) \/ ChatStep(c) PROVE SessionInv'
  BY <1>3, ChatSlotInv
<1>4. ASSUME NEW u \in Client, ClientAsks(u) \/ ClientStep(u) PROVE SessionInv'
  BY <1>1, <1>4, ClientSlotEffect
<1>5. CASE UNCHANGED vars
  BY <1>1, <1>5 DEF vars, hostVars
<1> QED
  BY <1>2, <1>3, <1>4, <1>5, RestartSlotInv DEF Next, Serve

\* A step that leaves an answer decoding finds the lock taken, so it can only be
\* the late half of an edit in place that moves the slot.
LEMMA SlotMoves ==
  ASSUME SlotInv, [Next]_vars, NEW c \in Chat,
         chat[c].at = "decode", chat'[c].at = "decode"
  PROVE  slot' = slot \/ \E p \in Pass : InstallAdapter(p)
<1>1. lock # NoThread
  <2>1. lock = c
    BY DEF SlotInv, SessionInv
  <2> QED
    BY <2>1, ThreadAssumption
<1>2. SlotEffect => slot' = slot \/ \E p \in Pass : InstallAdapter(p)
  BY <1>1 DEF SlotEffect
<1>3. ASSUME NEW p \in Pass, PassBegins(p) \/ PassRuns(p) PROVE SlotEffect
  BY <1>3, PassSlotEffect DEF PassBegins, PassRuns
<1>4. ASSUME NEW u \in Client, ClientAsks(u) \/ ClientStep(u) PROVE SlotEffect
  BY <1>4, ClientSlotEffect
<1>5. ASSUME NEW d \in Chat, Extract(d) \/ ChatStep(d) PROVE slot' = slot
  BY <1>5, ChatKeepsSlot
<1>6. ~Restart
  <2>1. ASSUME Restart PROVE chat'[c].at # "decode"
    BY <2>1, ChatDoneType DEF Restart
  <2> QED
    BY <2>1
<1>7. CASE UNCHANGED vars
  BY <1>7 DEF vars, hostVars
<1> QED
  BY <1>2, <1>3, <1>4, <1>5, <1>6, <1>7 DEF Next, Serve

\* The inference lock belongs to the one request between its session's enter and
\* leave: no two requests decode at once, and a request that ended, failed or was
\* cut off by a restart never keeps the lock from the others.
THEOREM LockIsTheSession == Spec => []SessionInv
<1>1. SlotInv => SessionInv
  BY DEF SlotInv
<1> QED
  BY <1>1, InitSlotInv, SlotInvStep, PTL DEF Spec

\* The adapter that /chat decodes with is not promoted over, plugged, unplugged or
\* restored away by anybody, with any number of requests, workers and passes:
\* model_host swaps the module only under the lock of the session.  The one step
\* that moves the slot under an answer is the setattr of HOREN.__init__, which
\* takes no lock, in a pass in place that had found the original Linear there.
THEOREM AdapterHeldForAnswerHolds == Spec => AdapterHeldForAnswer
<1>1. SlotInv /\ [Next]_vars =>
        [\A c \in Chat :
           chat[c].at = "decode" /\ chat'[c].at = "decode" /\ slot' # slot =>
               \E p \in InPlace : At(p, "install") /\ pass'[p].at = "train"]_vars
  <2> SUFFICES ASSUME SlotInv, [Next]_vars, NEW c \in Chat,
                      chat[c].at = "decode", chat'[c].at = "decode", slot' # slot
               PROVE  \E p \in InPlace : At(p, "install") /\ pass'[p].at = "train"
    OBVIOUS
  <2>1. PICK p \in Pass : InstallAdapter(p)
    BY SlotMoves
  <2>2. p \in InPlace /\ At(p, "install") /\ GoTo(p, "train")
    BY <2>1 DEF InstallAdapter
  <2>3. pass'[p].at = "train"
    BY <2>2 DEF GoTo, Becomes, SlotInv, TypeInv, PassType, PassFrame
  <2> QED
    BY <2>2, <2>3
<1> QED
  BY <1>1, InitSlotInv, SlotInvStep, PTL DEF Spec, AdapterHeldForAnswer

----
(* The store forgets nothing.  An id is born when a conversation produces its *)
(* object, and nothing ever brings it back to "none": whatever a thread, the   *)
(* table or the file holds is born, and a request to discard is on record.    *)

SavedBorn == \A i \in memories : storeFile.memories[i].status # "none"

PassBorn(p) ==
    /\ pass[p].todo \subseteq Alive
    /\ pass[p].at \in HoldsItem => Cur(p) \in Alive
    /\ At(p, "drain") \/ At(p, "delete") => heap[Cur(p)].duplicateOf # NoItem

ChatBorn(c) ==
    /\ chat[c].todo \subseteq Alive
    /\ chat[c].at \in {"preview", "index"} => chat[c].cur \in Alive

ClientBorn(u) ==
    /\ client[u].at \notin {"start", "done"} => client[u].cur \in Alive
    /\ client[u].at \in {"drop", "drop2", "route", "route2"}
            => client[u].cur \in touched

BornInv ==
    /\ memories \subseteq Alive
    /\ SavedBorn
    /\ learned \subseteq Alive
    /\ \A p \in Pass : PassBorn(p)
    /\ \A c \in Chat : ChatBorn(c)
    /\ \A u \in Client : ClientBorn(u)

KeepInv == TypeInv /\ BornInv /\ NothingForgotten

LEMMA InitKeepInv == Init => KeepInv
<1>1. ASSUME Init PROVE BornInv /\ NothingForgotten
  BY <1>1 DEF Init, StoreInit, HostInit, PassInit, BornInv, SavedBorn, PassBorn,
     ChatBorn, ClientBorn, NothingForgotten, Idle, HoldsItem, NewChat, Cur, At
<1> QED
  BY <1>1, InitTypeInv DEF KeepInv

\* What every step but a restart does to the objects ...
HeapGrows ==
    \A i \in Item : heap[i].status # "none" =>
       /\ heap'[i].status # "none"
       /\ heap[i].duplicateOf # NoItem => heap'[i].duplicateOf # NoItem

\* ... to the table and its file ...
TableGrows ==
    /\ memories' \subseteq Alive'
    /\ SavedBorn'
    /\ \A i \in memories \ memories' : i \in touched \/ heap[i].duplicateOf # NoItem

\* ... and to the record of what was asked.
HistoryGrows ==
    /\ touched \subseteq touched'
    /\ learned' \ learned \subseteq memories'

LEMMA HeapGrowsBut ==
  ASSUME heap \in [Item -> MemoryItem], NEW i \in Item, NEW object,
         heap' = [heap EXCEPT ![i] = object],
         object.status # "none",
         heap[i].duplicateOf # NoItem => object.duplicateOf # NoItem
  PROVE  HeapGrows /\ i \in Alive'
BY DEF HeapGrows, Alive

\* The table is saved with the objects as the step leaves them.
LEMMA UpsertGrows ==
  ASSUME memories \subseteq Alive, HeapGrows, NEW i \in Item, i \in Alive',
         Upsert(i, heap')
  PROVE  TableGrows
BY DEF HeapGrows, TableGrows, SavedBorn, Upsert, Snapshot, Alive

LEMMA DeleteGrows ==
  ASSUME memories \subseteq Alive, SavedBorn, heap' = heap, NEW i \in Item,
         i \in touched \/ heap[i].duplicateOf # NoItem, Delete(i)
  PROVE  HeapGrows /\ TableGrows
<1>1. CASE i \in memories
  BY <1>1 DEF HeapGrows, TableGrows, SavedBorn, Delete, Snapshot, Alive
<1>2. CASE i \notin memories
  BY <1>2 DEF HeapGrows, TableGrows, SavedBorn, Delete, Alive
<1> QED
  BY <1>1, <1>2

LEMMA RagAddGrows ==
  ASSUME memories \subseteq Alive, heap' = heap, memories' = memories, NEW i,
         RagAdd(i)
  PROVE  HeapGrows /\ TableGrows
BY DEF HeapGrows, TableGrows, SavedBorn, RagAdd, Snapshot, Alive

\* An object is born or changed, and nothing is saved.
LEMMA UnsavedGrows ==
  ASSUME memories \subseteq Alive, SavedBorn, HeapGrows,
         memories' = memories, storeFile' = storeFile
  PROVE  TableGrows
BY DEF HeapGrows, TableGrows, SavedBorn, Alive

LEMMA TableKept ==
  ASSUME memories \subseteq Alive, SavedBorn,
         heap' = heap, memories' = memories, storeFile' = storeFile
  PROVE  HeapGrows /\ TableGrows
BY DEF HeapGrows, TableGrows, SavedBorn, Alive

LEMMA PassGrows ==
  ASSUME TypeInv, BornInv, NEW p \in Pass, BeginPass(p) \/ PassStep(p)
  PROVE  HeapGrows /\ TableGrows
<1> USE PassFieldTypes DEF TypeInv, BornInv, HoldsItem
<1>0. heap \in [Item -> MemoryItem]
  BY DEF StoreType
<1>1. ASSUME NEW i \in Item, ClassifyDuplicate(p, i) PROVE HeapGrows /\ TableGrows
  <2>1. PICK target \in pass[p].registry :
           heap' = [heap EXCEPT ![i].duplicateOf = target]
    BY <1>1 DEF ClassifyDuplicate
  <2> DEFINE object == [heap[i] EXCEPT !.duplicateOf = target]
  <2>2. object.status = heap[i].status /\ object.duplicateOf = target
    BY <1>0 DEF MemoryItem
  <2>3. target # NoItem /\ heap[i].status # "none"
    BY <1>1, <2>1, NoItemAssumption DEF ClassifyDuplicate, PassBorn, Alive
  <2>4. heap' = [heap EXCEPT ![i] = object]
    BY <2>1
  <2> HIDE DEF object
  <2>5. HeapGrows /\ i \in Alive'
    BY <1>0, <2>2, <2>3, <2>4, HeapGrowsBut
  <2> QED
    BY <1>1, <2>5, UpsertGrows DEF ClassifyDuplicate
<1>2. CASE DrainDelete(p)
  <2>1. Cur(p) \in Item /\ heap[Cur(p)].duplicateOf # NoItem
    BY <1>2 DEF DrainDelete, At, PassBorn
  <2> QED
    BY <1>2, <2>1, DeleteGrows DEF DrainDelete
<1>3. ASSUME NEW old \in Item, RetireOld(p, old) PROVE HeapGrows /\ TableGrows
  <2> DEFINE object == [heap[old] EXCEPT !.status = "retired", !.supersededBy = Cur(p)]
  <2>1. object.status = "retired" /\ object.duplicateOf = heap[old].duplicateOf
    BY <1>0 DEF MemoryItem
  <2>2. heap' = [heap EXCEPT ![old] = object]
    BY <1>3 DEF RetireOld
  <2> HIDE DEF object
  <2>3. HeapGrows /\ old \in Alive'
    BY <1>0, <2>1, <2>2, HeapGrowsBut
  <2> QED
    BY <1>3, <2>3, UpsertGrows DEF RetireOld
<1>4. CASE Commit(p)
  <2>1. Cur(p) \in Item
    BY <1>4 DEF Commit, At
  <2> DEFINE object == [heap[Cur(p)] EXCEPT !.status = "consolidated"]
  <2>2. object.status = "consolidated" /\ object.duplicateOf = heap[Cur(p)].duplicateOf
    BY <1>0, <2>1 DEF MemoryItem
  <2>3. heap' = [heap EXCEPT ![Cur(p)] = object]
    BY <1>4 DEF Commit
  <2> HIDE DEF object
  <2>4. HeapGrows /\ Cur(p) \in Alive'
    BY <1>0, <2>1, <2>2, <2>3, HeapGrowsBut
  <2> QED
    BY <1>4, <2>1, <2>4, UpsertGrows DEF Commit
<1>5. CASE \/ BeginPass(p) \/ ReadRegistry(p) \/ EndPass(p) \/ ClassifyRaises(p)
           \/ \E i \in Item : ClassifyNew(p, i) \/ ClassifySupersede(p, i)
           \/ DrainCheck(p) \/ EditFails(p)
  BY <1>5, TableKept DEF BeginPass, ReadRegistry, EndPass, ClassifyRaises, ClassifyNew,
     ClassifySupersede, DrainCheck, EditFails, storeVars
<1>6. CASE \/ ShadowEdit(p) \/ Promote(p) \/ ReadSlot(p) \/ InstallAdapter(p)
           \/ AddKey(p) \/ FinishTraining(p) \/ AppendChatKeys(p) \/ Register(p)
  BY <1>6, TableKept DEF ShadowEdit, Promote, ReadSlot, InstallAdapter, AddKey, FinishTraining,
     AppendChatKeys, Register, storeVars
<1> QED
  BY <1>1, <1>2, <1>3, <1>4, <1>5, <1>6 DEF PassStep

LEMMA ChatGrows ==
  ASSUME TypeInv, BornInv, NEW c \in Chat, Extract(c) \/ ChatStep(c)
  PROVE  HeapGrows /\ TableGrows /\ HistoryGrows
<1> USE DEF TypeInv, BornInv, HistoryGrows
<1>0. heap \in [Item -> MemoryItem]
  BY DEF StoreType
<1>1. CASE Extract(c)
  <2>1. PICK new \in SUBSET {i \in Item : heap[i].status = "none"},
             edits \in SUBSET Item :
          heap' = [i \in Item |-> IF i \in new
             THEN [Unborn EXCEPT !.status = "buffer",
                                 !.route = IF i \in edits THEN "edit" ELSE "rag"]
             ELSE heap[i]]
    BY <1>1 DEF Extract
  <2>2. HeapGrows
    BY <2>1 DEF HeapGrows
  <2> QED
    BY <1>1, <2>2, UnsavedGrows DEF Extract
<1>2. ASSUME NEW i \in Item, Append(c, i) PROVE HeapGrows /\ TableGrows /\ HistoryGrows
  <2>1. heap' = heap /\ Upsert(i, heap') /\ i \in Alive' /\ HeapGrows
    BY <1>2 DEF Append, ChatBorn, Alive, HeapGrows
  <2>2. TableGrows
    BY <2>1, UpsertGrows
  <2> QED
    BY <1>2, <2>1, <2>2 DEF Append, Upsert
<1>3. CASE Annotate(c)
  <2>1. CASE Upsert(chat[c].cur, heap)
    <3>1. chat[c].cur \in Item
      BY <1>3 DEF Annotate, ChatType
    <3>2. heap' = heap /\ Upsert(chat[c].cur, heap') /\ chat[c].cur \in Alive' /\ HeapGrows
      BY <1>3, <2>1 DEF Annotate, ChatBorn, Alive, HeapGrows
    <3>3. TableGrows
      BY <3>1, <3>2, UpsertGrows
    <3> QED
      BY <1>3, <3>2, <3>3 DEF Annotate
  <2>2. CASE UNCHANGED <<memories, storeFile>>
    BY <1>3, <2>2, TableKept DEF Annotate
  <2> QED
    BY <1>3, <2>1, <2>2 DEF Annotate
<1>4. ASSUME NEW i \in Item, PinReference(c, i)
      PROVE  HeapGrows /\ TableGrows /\ HistoryGrows
  <2> DEFINE object == [heap[i] EXCEPT !.status = "consolidated"]
  <2>1. object.status = "consolidated" /\ object.duplicateOf = heap[i].duplicateOf
    BY <1>0 DEF MemoryItem
  <2>2. heap' = [heap EXCEPT ![i] = object]
    BY <1>4 DEF PinReference
  <2> HIDE DEF object
  <2>3. HeapGrows
    BY <1>0, <2>1, <2>2, HeapGrowsBut
  <2> QED
    BY <1>4, <2>3, UnsavedGrows DEF PinReference
<1>5. CASE IndexReference(c)
  BY <1>5, RagAddGrows DEF IndexReference
<1>6. CASE EmbeddingFails(c) \/ StartSession(c) \/ Prompt(c) \/ Reply(c)
  BY <1>6, TableKept DEF EmbeddingFails, StartSession, Prompt, Reply, storeVars
<1> QED
  BY <1>1, <1>2, <1>3, <1>4, <1>5, <1>6 DEF ChatStep

LEMMA ClientGrows ==
  ASSUME TypeInv, BornInv, NEW u \in Client, ClientAsks(u) \/ ClientStep(u)
  PROVE  HeapGrows /\ TableGrows /\ HistoryGrows
<1> USE DEF TypeInv, BornInv, HistoryGrows
<1>0. heap \in [Item -> MemoryItem]
  BY DEF StoreType
<1>1. CASE \/ \E i \in Item : AskDrop(u, i) \/ AskRoute(u, i)
           \/ BufferDropCheck(u) \/ Plug(u) \/ Unplug(u)
  BY <1>1, TableKept DEF AskDrop, AskRoute, BufferDropCheck, Plug, Unplug, storeVars
<1>2. ASSUME NEW i \in Item, AskPatch(u, i)
      PROVE  HeapGrows /\ TableGrows /\ HistoryGrows
  <2> DEFINE object == [heap[i] EXCEPT !.text = @ + 1]
  <2>1. /\ object.status = heap[i].status /\ object.duplicateOf = heap[i].duplicateOf
        /\ heap[i].status = "buffer"
    BY <1>0, <1>2 DEF MemoryItem, AskPatch, Ask, InBuffer, LoadUnconsolidated, ByStatus
  <2>2. heap' = [heap EXCEPT ![i] = object]
    BY <1>2 DEF AskPatch
  <2> HIDE DEF object
  <2>3. HeapGrows
    BY <1>0, <2>1, <2>2, HeapGrowsBut
  <2> QED
    BY <1>2, <2>3, UnsavedGrows DEF AskPatch
<1>3. CASE BufferDropDelete(u)
  <2>1. client[u].cur \in Item /\ client[u].cur \in touched
    BY <1>3 DEF BufferDropDelete, ClientType, ClientBorn
  <2> QED
    BY <1>3, <2>1, DeleteGrows DEF BufferDropDelete
<1>4. CASE Reroute(u)
  <2> DEFINE i == client[u].cur
             object == [heap[i] EXCEPT !.route = "rag", !.status = "consolidated"]
  <2>1. i \in Item
    BY <1>4 DEF Reroute, ClientType
  <2>2. object.status = "consolidated" /\ object.duplicateOf = heap[i].duplicateOf
    BY <1>0, <2>1 DEF MemoryItem
  <2>3. heap' = [heap EXCEPT ![i] = object]
    BY <1>4 DEF Reroute
  <2> HIDE DEF object
  <2>4. HeapGrows
    BY <1>0, <2>1, <2>2, <2>3, HeapGrowsBut
  <2> QED
    BY <1>4, <2>4, UnsavedGrows DEF Reroute
<1>5. CASE IndexRerouted(u)
  BY <1>5, RagAddGrows, TableKept DEF IndexRerouted
<1>6. CASE PatchUpsert(u)
  <2> DEFINE i == client[u].cur
  <2>1. i \in Item /\ heap[i].status # "none"
    BY <1>6 DEF PatchUpsert, ClientType, ClientBorn, Alive
  <2>2. CASE heap' = heap
    <3>1. HeapGrows /\ i \in Alive'
      BY <2>1, <2>2 DEF HeapGrows, Alive
    <3> QED
      BY <1>6, <2>1, <3>1, UpsertGrows DEF PatchUpsert
  <2>3. CASE heap' = [heap EXCEPT ![i].edit = heap[i].text]
    <3> DEFINE object == [heap[i] EXCEPT !.edit = heap[i].text]
    <3>1. object.status = heap[i].status /\ object.duplicateOf = heap[i].duplicateOf
      BY <1>0, <2>1 DEF MemoryItem
    <3>2. heap' = [heap EXCEPT ![i] = object]
      BY <2>3
    <3> HIDE DEF object
    <3>3. HeapGrows /\ i \in Alive'
      BY <1>0, <2>1, <3>1, <3>2, HeapGrowsBut
    <3> QED
      BY <1>6, <2>1, <3>3, UpsertGrows DEF PatchUpsert
  <2> QED
    BY <1>6, <2>2, <2>3 DEF PatchUpsert
<1> QED
  BY <1>1, <1>2, <1>3, <1>4, <1>5, <1>6 DEF ClientAsks, ClientStep

LEMMA AliveGrows == HeapGrows => Alive \subseteq Alive'
BY DEF HeapGrows, Alive

\* A frame that a step leaves alone keeps what it was promised.
LEMMA FramesKept ==
  ASSUME HeapGrows, touched \subseteq touched'
  PROVE  /\ \A p \in Pass : PassBorn(p) /\ pass'[p] = pass[p] => PassBorn(p)'
         /\ \A c \in Chat : ChatBorn(c) /\ chat'[c] = chat[c] => ChatBorn(c)'
         /\ \A u \in Client : ClientBorn(u) /\ client'[u] = client[u] => ClientBorn(u)'
<1>1. ASSUME NEW p \in Pass, PassBorn(p), pass'[p] = pass[p] PROVE PassBorn(p)'
  BY <1>1, AliveGrows DEF PassBorn, Cur, At, HeapGrows, Alive, HoldsItem
<1>2. ASSUME NEW c \in Chat, ChatBorn(c), chat'[c] = chat[c] PROVE ChatBorn(c)'
  BY <1>2, AliveGrows DEF ChatBorn
<1>3. ASSUME NEW u \in Client, ClientBorn(u), client'[u] = client[u]
      PROVE  ClientBorn(u)'
  BY <1>3, AliveGrows DEF ClientBorn
<1> QED
  BY <1>1, <1>2, <1>3

LEMMA PassTouchesItself ==
  ASSUME TypeInv, NEW p \in Pass, BeginPass(p) \/ PassStep(p)
  PROVE  \A q \in Pass : q # p => pass'[q] = pass[q]
<1>1. \E f : Becomes(p, f)
  BY DEF BeginPass, PassStep, ReadRegistry, EndPass, ClassifyRaises, ClassifyNew,
     ClassifySupersede, ClassifyDuplicate, DrainCheck, DrainDelete, EditFails, ShadowEdit,
     Promote, ReadSlot, InstallAdapter, AddKey, FinishTraining, AppendChatKeys, Register,
     RetireOld, Commit, GoTo, ItemDone
<1> QED
  BY <1>1 DEF Becomes, TypeInv, PassType

\* The frame of the pass that moves: its next item comes from what it listed,
\* and what it drains has just been marked as a duplicate.
LEMMA PassMoves ==
  ASSUME TypeInv, BornInv, HeapGrows, NEW p \in Pass, BeginPass(p) \/ PassStep(p)
  PROVE  PassBorn(p)'
<1> USE DEF HoldsItem
<1>1. /\ PassBorn(p) /\ PassType /\ pass \in [Pass -> PassFrame]
      /\ Alive \subseteq Alive'
  BY AliveGrows DEF BornInv, TypeInv, PassType
<1>2. ASSUME NEW f, Becomes(p, f) PROVE pass'[p] = f
  BY <1>1, <1>2 DEF Becomes
<1>3. ASSUME pass'[p].todo \subseteq Alive,
             pass'[p].at \notin HoldsItem
      PROVE  PassBorn(p)'
  BY <1>1, <1>3 DEF PassBorn, At
<1>4. ASSUME pass[p].at \in HoldsItem, pass[p].at \in {"drain", "delete"} \/
                                       pass'[p].at \notin {"drain", "delete"},
             pass'[p].cur = pass[p].cur, pass'[p].todo = pass[p].todo
      PROVE  PassBorn(p)'
  BY <1>1, <1>4 DEF PassBorn, At, Cur, HeapGrows, Alive
<1>5. ASSUME NEW reg, ItemDone(p, reg)
      PROVE  PassBorn(p)'
  <2>1. pass'[p].at = "next" /\ pass'[p].todo \subseteq pass[p].todo
    BY ZenonT(40), <1>2, <1>5 DEF ItemDone, Idle
  <2> QED
    BY <1>1, <1>3, <2>1 DEF PassBorn
<1>6. CASE EndPass(p) \/ ClassifyRaises(p)
  <2>1. pass'[p] = PassOver(p)
    BY <1>2, <1>6 DEF EndPass, ClassifyRaises
  <2> QED
    BY <1>3, <2>1 DEF PassOver, Idle
<1>7. CASE BeginPass(p)
  <2>1. PICK ids : pass'[p] = [pass[p] EXCEPT !.at = "registry",
                                    !.todo = LoadUnconsolidated \intersect ids]
    BY <1>2, <1>7 DEF BeginPass
  <2>2. pass'[p].at = "registry" /\ pass'[p].todo \subseteq LoadUnconsolidated
    BY <1>1, <2>1 DEF PassFrame
  <2>3. LoadUnconsolidated \subseteq Alive
    BY DEF LoadUnconsolidated, ByStatus, BornInv
  <2> QED
    BY <1>3, <2>2, <2>3
<1>8. CASE ReadRegistry(p)
  <2>1. pass'[p].at = "next" /\ pass'[p].todo = pass[p].todo
    BY <1>1, <1>2, <1>8 DEF ReadRegistry, PassFrame
  <2> QED
    BY <1>1, <1>3, <2>1 DEF PassBorn
<1>9. ASSUME NEW i \in Item, ClassifyNew(p, i) \/ ClassifySupersede(p, i)
      PROVE  PassBorn(p)'
  <2>1. /\ i \in pass[p].todo
        /\ pass'[p].at = "edit" /\ pass'[p].cur = i /\ pass'[p].todo = pass[p].todo
    <3>1. CASE ClassifyNew(p, i)
      BY <1>1, <1>2, <3>1 DEF ClassifyNew, PassFrame
    <3>2. CASE ClassifySupersede(p, i)
      <4>1. PICK targets \in SUBSET pass[p].registry \ {{}} :
              pass'[p] = [pass[p] EXCEPT !.at = "edit", !.cur = i,
                                         !.olds = targets \intersect memories,
                                         !.edit = heap[i].edit]
        BY <1>2, <3>2 DEF ClassifySupersede
      <4> QED
        BY <1>1, <3>2, <4>1 DEF ClassifySupersede, PassFrame
    <3> QED
      BY <1>9, <3>1, <3>2
  <2> QED
    BY <1>1, <2>1 DEF PassBorn, Cur, At
<1>10. ASSUME NEW i \in Item, ClassifyDuplicate(p, i) PROVE PassBorn(p)'
  <2>1. /\ i \in pass[p].todo
        /\ pass'[p].at = "drain" /\ pass'[p].cur = i /\ pass'[p].todo = pass[p].todo
    <3>1. /\ i \in pass[p].todo
          /\ pass'[p] = [pass[p] EXCEPT !.at = "drain", !.cur = i]
      BY <1>2, <1>10 DEF ClassifyDuplicate
    <3> QED
      BY <1>1, <3>1 DEF PassFrame
  <2>2. heap'[i].duplicateOf # NoItem
    <3>1. PICK target \in pass[p].registry : heap' = [heap EXCEPT ![i].duplicateOf = target]
      BY <1>10 DEF ClassifyDuplicate
    <3>2. target \in Item /\ heap[i] \in MemoryItem
      BY <1>1, PassFieldTypes DEF TypeInv, StoreType
    <3> QED
      BY <3>1, <3>2, NoItemAssumption DEF TypeInv, StoreType, MemoryItem
  <2> QED
    BY <1>1, <2>1, <2>2 DEF PassBorn, Cur, At
<1>11. CASE DrainCheck(p)
  <2>1. CASE GoTo(p, "delete")
    <3>1. pass'[p] = [pass[p] EXCEPT !.at = "delete"] /\ pass[p].at = "drain"
      BY <1>2, <1>11, <2>1 DEF GoTo, DrainCheck, At
    <3>2. /\ pass'[p].at = "delete" /\ pass'[p].cur = pass[p].cur
          /\ pass'[p].todo = pass[p].todo
      BY <1>1, <3>1 DEF PassFrame
    <3> QED
      BY <1>4, <3>1, <3>2
  <2>2. CASE ItemDone(p, pass[p].registry)
    BY <1>5, <2>2
  <2> QED
    BY <1>11, <2>1, <2>2 DEF DrainCheck
<1>12. CASE DrainDelete(p) \/ Commit(p)
  BY <1>5, <1>12 DEF DrainDelete, Commit
<1>13. CASE EditFails(p)
  <2>1. CASE pass[p].tries < EditRetries
    <3>1. /\ pass'[p] = [pass[p] EXCEPT !.at = "edit", !.adapter = NoAdapter,
                                         !.tries = @ + 1]
          /\ pass[p].at \in {"edit", "install", "train", "tune", "keys"}
      BY <1>2, <1>13, <2>1 DEF EditFails
    <3>2. /\ pass'[p].at = "edit" /\ pass'[p].cur = pass[p].cur
          /\ pass'[p].todo = pass[p].todo
      BY <1>1, <3>1 DEF PassFrame
    <3> QED
      BY <1>4, <3>1, <3>2
  <2>2. CASE ~(pass[p].tries < EditRetries)
    BY <1>5, <1>13, <2>2 DEF EditFails
  <2> QED
    BY <2>1, <2>2
<1>14. CASE ShadowEdit(p)
  <2>1. PICK a \in Adapter :
          pass'[p] = [pass[p] EXCEPT !.at = "promote", !.adapter = a]
    BY <1>2, <1>14 DEF ShadowEdit
  <2>2. /\ pass'[p].at = "promote" /\ pass'[p].cur = pass[p].cur
        /\ pass'[p].todo = pass[p].todo
    BY <1>1, <2>1 DEF PassFrame
  <2> QED
    BY <1>4, <1>14, <2>2 DEF ShadowEdit, At
<1>15. CASE Promote(p) \/ Register(p)
  <2>1. pass'[p] = [pass[p] EXCEPT !.at = "retire", !.adapter = NoAdapter]
    BY <1>2, <1>15 DEF Promote, Register
  <2>2. /\ pass'[p].at = "retire" /\ pass'[p].cur = pass[p].cur
        /\ pass'[p].todo = pass[p].todo
    BY <1>1, <2>1 DEF PassFrame
  <2> QED
    BY <1>4, <1>15, <2>2 DEF Promote, Register, At
<1>16. CASE AddKey(p) \/ AppendChatKeys(p)
  <2>1. PICK at \in {"tune", "register"} :
          pass'[p] = [pass[p] EXCEPT !.at = at, !.adapter = slot]
    BY <1>2, <1>16 DEF AddKey, AppendChatKeys
  <2>2. pass'[p].at = at /\ pass'[p].cur = pass[p].cur /\ pass'[p].todo = pass[p].todo
    BY <1>1, <2>1 DEF PassFrame
  <2> QED
    BY <1>4, <1>16, <2>2 DEF AddKey, AppendChatKeys, At
<1>17. CASE ReadSlot(p) \/ InstallAdapter(p) \/ FinishTraining(p)
  <2>1. PICK at \in {"install", "train", "keys"} :
          pass'[p] = [pass[p] EXCEPT !.at = at]
    BY <1>2, <1>17 DEF ReadSlot, InstallAdapter, FinishTraining, GoTo
  <2>2. pass'[p].at = at /\ pass'[p].cur = pass[p].cur /\ pass'[p].todo = pass[p].todo
    BY <1>1, <2>1 DEF PassFrame
  <2> QED
    BY <1>4, <1>17, <2>2 DEF ReadSlot, InstallAdapter, FinishTraining, At
<1>18. ASSUME NEW old \in Item, RetireOld(p, old) PROVE PassBorn(p)'
  <2>1. pass'[p] = [pass[p] EXCEPT !.olds = @ \ {old}] /\ pass[p].at = "retire"
    BY <1>2, <1>18 DEF RetireOld, At
  <2>2. /\ pass'[p].at = "retire" /\ pass'[p].cur = pass[p].cur
        /\ pass'[p].todo = pass[p].todo
    BY <1>1, <2>1 DEF PassFrame
  <2> QED
    BY <1>4, <2>1, <2>2
<1> QED
  BY <1>6, <1>7, <1>8, <1>9, <1>10, <1>11, <1>12, <1>13, <1>14, <1>15, <1>16, <1>17,
     <1>18 DEF PassStep

LEMMA ChatMoves ==
  ASSUME TypeInv, BornInv, HeapGrows, NEW c \in Chat, Extract(c) \/ ChatStep(c)
  PROVE  ChatBorn(c)'
<1>1. /\ ChatBorn(c) /\ chat \in [Chat -> ChatFrame] /\ chat[c] \in ChatFrame
      /\ Alive \subseteq Alive'
  BY AliveGrows DEF BornInv, TypeInv, ChatType
<1>2. ASSUME NEW f, ChatBecomes(c, f) PROVE chat'[c] = f
  BY <1>1, <1>2 DEF ChatBecomes
<1>3. ASSUME chat'[c].todo \subseteq Alive,
             chat'[c].at \in {"preview", "index"} => chat'[c].cur \in Alive
      PROVE  ChatBorn(c)'
  BY <1>1, <1>3 DEF ChatBorn
<1>4. CASE Extract(c)
  <2>1. PICK new \in SUBSET {i \in Item : heap[i].status = "none"},
             edits \in SUBSET Item :
          /\ heap' = [i \in Item |-> IF i \in new
                THEN [Unborn EXCEPT !.status = "buffer",
                                    !.route = IF i \in edits THEN "edit" ELSE "rag"]
                ELSE heap[i]]
          /\ ChatBecomes(c, [chat[c] EXCEPT !.at = "ingest", !.todo = new])
    BY <1>4 DEF Extract
  <2>2. chat'[c] = [chat[c] EXCEPT !.at = "ingest", !.todo = new]
    BY <1>2, <2>1
  <2>3. chat'[c].at = "ingest" /\ chat'[c].todo = new
    BY <1>1, <2>2 DEF ChatFrame
  <2>4. new \subseteq Alive'
    BY <2>1 DEF Alive, Unborn
  <2> QED
    BY <2>3, <2>4 DEF ChatBorn
<1>5. ASSUME NEW i \in Item, Append(c, i) \/ PinReference(c, i)
      PROVE  ChatBorn(c)'
  <2>1. i \in chat[c].todo
    BY <1>5 DEF Append, PinReference
  <2>2. chat'[c].cur = i /\ chat'[c].todo \subseteq chat[c].todo
    <3>1. CASE Append(c, i)
      <4>1. chat'[c] = [chat[c] EXCEPT !.at = "preview", !.cur = i,
                                       !.todo = @ \ {i}, !.mine = @ \union {i}]
        BY <1>2, <3>1 DEF Append
      <4> QED
        BY <1>1, <4>1 DEF ChatFrame
    <3>2. CASE PinReference(c, i)
      <4>1. chat'[c] = [chat[c] EXCEPT !.at = "index", !.cur = i, !.todo = @ \ {i}]
        BY <1>2, <3>2 DEF PinReference
      <4> QED
        BY <1>1, <4>1 DEF ChatFrame
    <3> QED
      BY <1>5, <3>1, <3>2
  <2> QED
    BY <1>1, <1>3, <2>1, <2>2 DEF ChatBorn
<1>6. CASE Annotate(c) \/ IndexReference(c)
  <2>1. chat'[c] = [chat[c] EXCEPT !.at = "ingest", !.cur = NoItem]
    BY <1>2, <1>6 DEF Annotate, IndexReference
  <2>2. chat'[c].at = "ingest" /\ chat'[c].todo = chat[c].todo
    BY <1>1, <2>1 DEF ChatFrame
  <2> QED
    BY <1>1, <1>3, <2>2 DEF ChatBorn
<1>7. CASE EmbeddingFails(c) \/ Reply(c)
  <2>1. chat'[c] = ChatDone
    BY <1>2, <1>7 DEF EmbeddingFails, Reply
  <2> QED
    BY <1>3, <2>1 DEF ChatDone, NewChat
<1>8. CASE StartSession(c)
  <2>1. chat'[c] = [chat[c] EXCEPT !.at = "plan"]
    BY <1>2, <1>8 DEF StartSession
  <2>2. chat'[c].at = "plan" /\ chat'[c].todo = chat[c].todo
    BY <1>1, <2>1 DEF ChatFrame
  <2> QED
    BY <1>1, <1>3, <2>2 DEF ChatBorn
<1>9. CASE Prompt(c)
  <2>1. chat'[c] = [chat[c] EXCEPT !.at = "decode", !.seen = LoadUnconsolidated,
                                   !.view = View]
    BY <1>2, <1>9 DEF Prompt
  <2>2. chat'[c].at = "decode" /\ chat'[c].todo = chat[c].todo
    BY <1>1, <2>1 DEF ChatFrame
  <2> QED
    BY <1>1, <1>3, <2>2 DEF ChatBorn
<1> QED
  BY <1>4, <1>5, <1>6, <1>7, <1>8, <1>9 DEF ChatStep

LEMMA ClientMoves ==
  ASSUME TypeInv, BornInv, HeapGrows, touched \subseteq touched', NEW u \in Client,
         ClientAsks(u) \/ ClientStep(u)
  PROVE  ClientBorn(u)'
<1>1. /\ ClientBorn(u) /\ client \in [Client -> ClientFrame]
      /\ client[u] \in ClientFrame /\ Alive \subseteq Alive'
  BY AliveGrows DEF BornInv, TypeInv, ClientType
<1>2. ASSUME NEW f, ClientBecomes(u, f) PROVE client'[u] = f
  BY <1>1, <1>2 DEF ClientBecomes
<1>3. ASSUME NEW at \in {"drop2", "route2", "reroute", "index"},
             client[u].at \notin {"start", "done"},
             at \in {"drop2", "route2"} => client[u].at \in {"drop", "route"},
             client'[u].at = at, client'[u].cur = client[u].cur
      PROVE  ClientBorn(u)'
  BY <1>1, <1>3 DEF ClientBorn
<1>4. ASSUME client'[u].at = "done" PROVE ClientBorn(u)'
  BY <1>4 DEF ClientBorn
<1>5. ASSUME NEW i \in Item, AskDrop(u, i) \/ AskRoute(u, i) PROVE ClientBorn(u)'
  <2>1. client'[u].cur = i /\ i \in Alive /\ i \in touched'
    BY <1>2, <1>5 DEF AskDrop, AskRoute, Ask, InBuffer, LoadUnconsolidated, ByStatus,
       BornInv
  <2> QED
    BY <1>1, <2>1 DEF ClientBorn
<1>6. ASSUME NEW i \in Item, AskPatch(u, i) PROVE ClientBorn(u)'
  <2>1. client'[u] = [at |-> "decompose", cur |-> i] /\ i \in Alive
    BY <1>2, <1>6 DEF AskPatch, Ask, InBuffer, LoadUnconsolidated, ByStatus, BornInv
  <2> QED
    BY <1>1, <2>1 DEF ClientBorn
<1>7. ASSUME client[u].at \in {"drop", "route", "drop2", "route2"},
             client'[u] = AfterDrop(u)
      PROVE  ClientBorn(u)'
  <2>1. CASE client[u].at \in {"drop", "drop2"}
    BY <1>4, <1>7, <2>1 DEF AfterDrop, ClientDone
  <2>2. CASE client[u].at \notin {"drop", "drop2"}
    <3>1. client'[u] = [client[u] EXCEPT !.at = "reroute"]
      BY <1>7, <2>2 DEF AfterDrop
    <3>2. client'[u].at = "reroute" /\ client'[u].cur = client[u].cur
      BY <1>1, <3>1 DEF ClientFrame
    <3> QED
      BY <1>3, <1>7, <3>2
  <2> QED
    BY <2>1, <2>2
<1>8. CASE BufferDropCheck(u)
  <2>1. client[u].at \in {"drop", "route"}
    BY <1>8 DEF BufferDropCheck
  <2>2. CASE ClientBecomes(u, [client[u] EXCEPT
                  !.at = IF @ = "drop" THEN "drop2" ELSE "route2"])
    <3>1. client'[u] = [client[u] EXCEPT !.at = IF @ = "drop" THEN "drop2" ELSE "route2"]
      BY <1>2, <2>2
    <3>2. client'[u].at \in {"drop2", "route2"} /\ client'[u].cur = client[u].cur
      BY <1>1, <3>1 DEF ClientFrame
    <3> QED
      BY <1>3, <2>1, <3>2
  <2>3. CASE ClientBecomes(u, AfterDrop(u))
    BY <1>2, <1>7, <2>1, <2>3
  <2> QED
    BY <1>8, <2>2, <2>3 DEF BufferDropCheck
<1>9. CASE BufferDropDelete(u)
  BY <1>2, <1>7, <1>9 DEF BufferDropDelete
<1>10. CASE Reroute(u)
  <2>1. client'[u] = [client[u] EXCEPT !.at = "index"] /\ client[u].at = "reroute"
    BY <1>2, <1>10 DEF Reroute
  <2>2. client'[u].at = "index" /\ client'[u].cur = client[u].cur
    BY <1>1, <2>1 DEF ClientFrame
  <2> QED
    BY <1>3, <2>1, <2>2
<1>11. CASE IndexRerouted(u) \/ PatchUpsert(u) \/ Plug(u) \/ Unplug(u)
  BY <1>2, <1>4, <1>11 DEF IndexRerouted, PatchUpsert, Plug, Unplug, ClientDone
<1> QED
  BY <1>5, <1>6, <1>8, <1>9, <1>10, <1>11 DEF ClientAsks, ClientStep

\* A restart gets every memory back from the file, and no thread survives it.
LEMMA RestartKeeps ==
  ASSUME TypeInv, BornInv, NothingForgotten, Restart
  PROVE  BornInv' /\ NothingForgotten'
<1>1. memories' = memories /\ storeFile' = storeFile
  BY DEF Restart, LoadStore, TypeInv, StoreType
<1>2. heap' = [i \in Item |-> IF i \in memories THEN storeFile.memories[i] ELSE heap[i]]
  BY DEF Restart, LoadStore, TypeInv, StoreType
<1>3. Alive \subseteq Alive'
  BY <1>2 DEF Alive, BornInv, SavedBorn
<1>4. memories' \subseteq Alive' /\ SavedBorn' /\ learned' \subseteq Alive'
  BY <1>1, <1>3 DEF BornInv, SavedBorn, Restart
<1>5. ASSUME NEW p \in Pass PROVE PassBorn(p)'
  <2>1. pass'[p].at \in {"idle", "done"} /\ pass'[p].todo = {}
    BY DEF Restart, Idle
  <2> QED
    BY <2>1 DEF PassBorn, HoldsItem, At
<1>6. ASSUME NEW c \in Chat PROVE ChatBorn(c)'
  <2>1. CASE chat[c].at = "start"
    BY <1>3, <2>1 DEF Restart, BornInv, ChatBorn
  <2>2. CASE chat[c].at # "start"
    BY <2>2 DEF Restart, ChatBorn, ChatDone, NewChat
  <2> QED
    BY <2>1, <2>2
<1>7. ASSUME NEW u \in Client PROVE ClientBorn(u)'
  <2>1. client'[u].at \in {"start", "done"}
    BY DEF Restart, ClientDone
  <2> QED
    BY <2>1 DEF ClientBorn
<1>8. NothingForgotten'
  BY <1>1, <1>2 DEF NothingForgotten, Restart, TypeInv, HistoryType
<1> QED
  BY <1>4, <1>5, <1>6, <1>7, <1>8 DEF BornInv

\* What left the table was a duplicate or is on record as touched.
LEMMA GrowsKeeps ==
  ASSUME TypeInv, BornInv, NothingForgotten, TypeInv',
         HeapGrows, TableGrows, HistoryGrows
  PROVE  /\ memories' \subseteq Alive' /\ SavedBorn' /\ learned' \subseteq Alive'
         /\ NothingForgotten'
<1>1. learned' \subseteq Alive'
  BY AliveGrows DEF BornInv, TableGrows, HistoryGrows
<1>2. ASSUME NEW i \in learned', i \notin touched', i \notin memories'
      PROVE  heap'[i].duplicateOf # NoItem
  <2>1. i \in learned \ touched /\ i \in Item /\ heap[i].status # "none"
    BY <1>2 DEF HistoryGrows, TypeInv, HistoryType, BornInv, Alive
  <2>2. heap[i].duplicateOf # NoItem
    BY <1>2, <2>1 DEF NothingForgotten, TableGrows
  <2> QED
    BY <2>1, <2>2 DEF HeapGrows
<1> QED
  BY <1>1, <1>2 DEF TableGrows, NothingForgotten

LEMMA KeepInvStep == KeepInv /\ [Next]_vars => KeepInv'
<1> SUFFICES ASSUME TypeInv, BornInv, NothingForgotten, [Next]_vars, TypeInv'
             PROVE  BornInv' /\ NothingForgotten'
  BY TypeInvStep DEF KeepInv
<1>1. ASSUME HeapGrows, TableGrows, HistoryGrows,
             \A p \in Pass : PassBorn(p)', \A c \in Chat : ChatBorn(c)',
             \A u \in Client : ClientBorn(u)'
      PROVE  BornInv' /\ NothingForgotten'
  BY <1>1, GrowsKeeps DEF BornInv
<1>2. ASSUME NEW p \in Pass, PassBegins(p) \/ PassRuns(p)
      PROVE  BornInv' /\ NothingForgotten'
  <2>1. HeapGrows /\ TableGrows /\ HistoryGrows /\ PassBorn(p)'
    BY <1>2, PassGrows, PassMoves DEF PassBegins, PassRuns, HistoryGrows
  <2>2. \A q \in Pass : q # p => pass'[q] = pass[q]
    BY <1>2, PassTouchesItself DEF PassBegins, PassRuns
  <2> QED
    BY <1>1, <1>2, <2>1, <2>2, FramesKept DEF PassBegins, PassRuns, BornInv, HistoryGrows
<1>3. ASSUME NEW c \in Chat, Extract(c) \/ ChatStep(c)
      PROVE  BornInv' /\ NothingForgotten'
  <2>1. HeapGrows /\ TableGrows /\ HistoryGrows /\ ChatBorn(c)'
    BY <1>3, ChatGrows, ChatMoves
  <2>2. \A d \in Chat : d # c => chat'[d] = chat[d]
    BY <1>3 DEF TypeInv, ChatType, ChatBecomes, Extract, ChatStep, Append, Annotate,
       PinReference, IndexReference, EmbeddingFails, StartSession, Prompt, Reply
  <2>3. pass' = pass /\ client' = client
    BY <1>3 DEF Extract, ChatStep, Append, Annotate, PinReference, IndexReference,
       EmbeddingFails, StartSession, Prompt, Reply
  <2> QED
    BY <1>1, <2>1, <2>2, <2>3, FramesKept DEF BornInv, HistoryGrows
<1>4. ASSUME NEW u \in Client, ClientAsks(u) \/ ClientStep(u)
      PROVE  BornInv' /\ NothingForgotten'
  <2>1. HeapGrows /\ TableGrows /\ HistoryGrows
    BY <1>4, ClientGrows
  <2>2. ClientBorn(u)'
    BY <1>4, <2>1, ClientMoves DEF HistoryGrows
  <2>3. \A v \in Client : v # u => client'[v] = client[v]
    BY <1>4 DEF TypeInv, ClientType, ClientBecomes, ClientAsks, ClientStep, AskDrop,
       AskRoute, AskPatch, Ask, Plug, Unplug, BufferDropCheck, BufferDropDelete,
       Reroute, IndexRerouted, PatchUpsert
  <2>4. pass' = pass /\ chat' = chat
    BY <1>4 DEF ClientAsks, ClientStep, AskDrop, AskRoute, AskPatch, Plug, Unplug,
       BufferDropCheck, BufferDropDelete, Reroute, IndexRerouted, PatchUpsert
  <2> QED
    BY <1>1, <2>1, <2>2, <2>3, <2>4, FramesKept DEF BornInv, HistoryGrows
<1>5. CASE UNCHANGED vars
  <2>1. HeapGrows /\ TableGrows /\ HistoryGrows
    BY <1>5, TableKept DEF vars, storeVars, BornInv, HistoryGrows
  <2> QED
    BY <1>1, <1>5, <2>1, FramesKept DEF vars, BornInv, HistoryGrows
<1> QED
  BY <1>2, <1>3, <1>4, <1>5, RestartKeeps DEF Next, Serve

\* A memory that was buffered and that the user did not ask to discard or
\* re-route stays in the table, or was drained as the duplicate of another one:
\* buffer.drop is reached only from a request and from the duplicate branch of
\* consolidate._process_item.  This holds with both backends, any number of
\* passes over the same buffer, failed edits and restarts.
THEOREM NothingForgottenHolds == Spec => []NothingForgotten
<1>1. KeepInv => NothingForgotten
  BY DEF KeepInv
<1> QED
  BY <1>1, InitKeepInv, KeepInvStep, PTL DEF Spec

----
(* The listing.  Nothing leads back into the buffer from the weights, and     *)
(* nothing leaves the references, so reading the pending memories first is    *)
(* enough; where a memory is deleted or put back meanwhile does not matter.   *)

\* What every step but a restart does to the lists.
Forward ==
    /\ rag \subseteq rag'
    /\ \A i \in Item : heap[i].status = "consolidated" => heap'[i].status # "buffer"

LEMMA ForwardBut ==
  ASSUME heap \in [Item -> MemoryItem], NEW i \in Item, NEW object,
         heap' = [heap EXCEPT ![i] = object],
         heap[i].status = "consolidated" => object.status # "buffer",
         rag' = rag
  PROVE  Forward
BY DEF Forward

LEMMA ForwardKept ==
  ASSUME heap' = heap, rag \subseteq rag' PROVE Forward
BY DEF Forward

LEMMA PassForward ==
  ASSUME TypeInv, NEW p \in Pass, BeginPass(p) \/ PassStep(p)
  PROVE  Forward
<1>0. heap \in [Item -> MemoryItem]
  BY DEF TypeInv, StoreType
<1>1. ASSUME NEW i \in Item, ClassifyDuplicate(p, i) PROVE Forward
  <2>1. PICK target \in pass[p].registry :
           heap' = [heap EXCEPT ![i].duplicateOf = target]
    BY <1>1 DEF ClassifyDuplicate
  <2> DEFINE object == [heap[i] EXCEPT !.duplicateOf = target]
  <2>2. object.status = heap[i].status /\ heap' = [heap EXCEPT ![i] = object]
    BY <1>0, <2>1 DEF MemoryItem
  <2>3. rag' = rag
    BY <1>1 DEF ClassifyDuplicate
  <2> HIDE DEF object
  <2> QED
    BY <1>0, <2>2, <2>3, ForwardBut
<1>2. ASSUME NEW old \in Item, RetireOld(p, old) PROVE Forward
  <2> DEFINE object == [heap[old] EXCEPT !.status = "retired", !.supersededBy = Cur(p)]
  <2>1. object.status = "retired" /\ heap' = [heap EXCEPT ![old] = object] /\ rag' = rag
    BY <1>0, <1>2 DEF MemoryItem, RetireOld
  <2> HIDE DEF object
  <2> QED
    BY <1>0, <2>1, ForwardBut
<1>3. CASE Commit(p)
  <2>1. Cur(p) \in Item
    BY <1>3, PassFieldTypes DEF Commit, At, TypeInv, PassType, HoldsItem
  <2> DEFINE object == [heap[Cur(p)] EXCEPT !.status = "consolidated"]
  <2>2. /\ object.status = "consolidated" /\ heap' = [heap EXCEPT ![Cur(p)] = object]
        /\ rag' = rag
    BY <1>0, <1>3, <2>1 DEF MemoryItem, Commit
  <2> HIDE DEF object
  <2> QED
    BY <1>0, <2>1, <2>2, ForwardBut
<1>4. CASE \/ BeginPass(p) \/ ReadRegistry(p) \/ EndPass(p) \/ ClassifyRaises(p)
           \/ \E i \in Item : ClassifyNew(p, i) \/ ClassifySupersede(p, i)
           \/ DrainCheck(p) \/ DrainDelete(p) \/ EditFails(p)
  BY <1>4, ForwardKept DEF BeginPass, ReadRegistry, EndPass, ClassifyRaises, ClassifyNew,
     ClassifySupersede, DrainCheck, DrainDelete, EditFails, storeVars
<1>5. CASE \/ ShadowEdit(p) \/ Promote(p) \/ ReadSlot(p) \/ InstallAdapter(p)
           \/ AddKey(p) \/ FinishTraining(p) \/ AppendChatKeys(p) \/ Register(p)
  BY <1>5, ForwardKept DEF ShadowEdit, Promote, ReadSlot, InstallAdapter, AddKey,
     FinishTraining, AppendChatKeys, Register, storeVars
<1> QED
  BY <1>1, <1>2, <1>3, <1>4, <1>5 DEF PassStep

LEMMA ChatForward ==
  ASSUME TypeInv, NEW c \in Chat, Extract(c) \/ ChatStep(c)
  PROVE  Forward
<1>0. heap \in [Item -> MemoryItem]
  BY DEF TypeInv, StoreType
<1>1. CASE Extract(c)
  <2>1. PICK new \in SUBSET {i \in Item : heap[i].status = "none"},
             edits \in SUBSET Item :
          heap' = [i \in Item |-> IF i \in new
             THEN [Unborn EXCEPT !.status = "buffer",
                                 !.route = IF i \in edits THEN "edit" ELSE "rag"]
             ELSE heap[i]]
    BY <1>1 DEF Extract
  <2>2. \A i \in Item : heap[i].status = "consolidated" => heap'[i] = heap[i]
    BY <2>1
  <2> QED
    BY <1>1, <2>2 DEF Extract, Forward
<1>2. ASSUME NEW i \in Item, PinReference(c, i) PROVE Forward
  <2> DEFINE object == [heap[i] EXCEPT !.status = "consolidated"]
  <2>1. /\ object.status = "consolidated" /\ heap' = [heap EXCEPT ![i] = object]
        /\ rag' = rag
    BY <1>0, <1>2 DEF MemoryItem, PinReference
  <2> HIDE DEF object
  <2> QED
    BY <1>0, <2>1, ForwardBut
<1>3. CASE \/ \E i \in Item : Append(c, i)
           \/ Annotate(c) \/ IndexReference(c) \/ EmbeddingFails(c)
           \/ StartSession(c) \/ Prompt(c) \/ Reply(c)
  BY <1>3, ForwardKept DEF Append, Annotate, IndexReference, RagAdd, EmbeddingFails,
     StartSession, Prompt, Reply, storeVars
<1> QED
  BY <1>1, <1>2, <1>3 DEF ChatStep

LEMMA ClientForward ==
  ASSUME TypeInv, NEW u \in Client, ClientAsks(u) \/ ClientStep(u)
  PROVE  Forward
<1>0. heap \in [Item -> MemoryItem]
  BY DEF TypeInv, StoreType
<1>1. ASSUME NEW i \in Item, AskPatch(u, i) PROVE Forward
  <2> DEFINE object == [heap[i] EXCEPT !.text = @ + 1]
  <2>1. /\ object.status = heap[i].status /\ heap' = [heap EXCEPT ![i] = object]
        /\ rag' = rag
    BY <1>0, <1>1 DEF MemoryItem, AskPatch
  <2> HIDE DEF object
  <2> QED
    BY <1>0, <2>1, ForwardBut
<1>2. CASE Reroute(u)
  <2>1. client[u].cur \in Item
    BY <1>2 DEF Reroute, TypeInv, ClientType
  <2>2. \A i \in Item : heap'[i].status \in {heap[i].status, "consolidated"}
    BY <1>0, <1>2, <2>1 DEF MemoryItem, Reroute
  <2> QED
    BY <1>2, <2>2 DEF Reroute, Forward
<1>3. CASE PatchUpsert(u)
  <2> DEFINE i == client[u].cur
             object == [heap[i] EXCEPT !.edit = heap[i].text]
  <2>1. i \in Item /\ rag' = rag
    BY <1>3 DEF PatchUpsert, TypeInv, ClientType
  <2>2. heap' = heap \/ heap' = [heap EXCEPT ![i] = object]
    BY <1>3 DEF PatchUpsert
  <2>3. object.status = heap[i].status
    BY <1>0, <2>1 DEF MemoryItem
  <2> HIDE DEF object, i
  <2> QED
    BY <1>0, <2>1, <2>2, <2>3, ForwardBut, ForwardKept
<1>4. CASE \/ \E i \in Item : AskDrop(u, i) \/ AskRoute(u, i)
           \/ BufferDropCheck(u) \/ BufferDropDelete(u) \/ IndexRerouted(u)
           \/ Plug(u) \/ Unplug(u)
  BY <1>4, ForwardKept DEF AskDrop, AskRoute, BufferDropCheck, BufferDropDelete,
     IndexRerouted, RagAdd, Plug, Unplug, storeVars
<1> QED
  BY <1>1, <1>2, <1>3, <1>4 DEF ClientAsks, ClientStep

LEMMA ServeForward == TypeInv /\ Serve => Forward
BY PassForward, ChatForward, ClientForward DEF Serve, PassBegins, PassRuns

\* What is left for the reads to come.
ReaderSound(r) ==
    /\ reader[r].at = 2 => \A i \in shown[r] :
           i \in reader[r].listed \/ i \in rag \/ i \in ByStatus("consolidated")
    /\ reader[r].at = 3 => \A i \in shown[r] : i \in reader[r].listed \/ i \in rag
    /\ reader[r].at = 4 => shown[r] \subseteq reader[r].listed

ListInv ==
    /\ TypeInv
    /\ reader \in [Reader -> ReaderFrame]
    /\ shown \in [Reader -> SUBSET Item]
    /\ \A r \in Reader : ReaderSound(r)

LEMMA InitListInv == ListInit => ListInv
BY InitTypeInv DEF ListInit, ListInv, ReaderFrame, ReaderSound

LEMMA MeanwhileListInv == ListInv /\ Meanwhile => ListInv'
<1> SUFFICES ASSUME ListInv, Meanwhile PROVE ListInv'
  OBVIOUS
<1>1. TypeInv' /\ Forward
  BY TypeInvStep, ServeForward DEF ListInv, Meanwhile, Next
<1>2. reader' = reader /\ shown' \in [Reader -> SUBSET Item]
  BY DEF ListInv, Meanwhile
<1>3. ASSUME NEW r \in Reader PROVE ReaderSound(r)'
  <2>1. ReaderSound(r) /\ shown[r] \subseteq Item
    BY DEF ListInv
  <2>2. CASE ~Reading(r)
    <3>1. shown'[r] = shown[r] /\ reader[r].at \notin {2, 3}
      BY <2>2 DEF Meanwhile, Reading
    <3> QED
      BY <1>2, <2>1, <3>1 DEF ReaderSound
  <2>3. CASE Reading(r)
    <3>1. shown'[r] = shown[r] \intersect Shown' /\ reader[r].at \in {2, 3}
      BY <2>3 DEF Meanwhile, Reading
    <3>2. ASSUME NEW i \in shown'[r], i \in ByStatus("consolidated")
          PROVE  i \in rag' \/ i \in ByStatus("consolidated")'
      <4>1. i \in Item /\ heap'[i].status # "buffer"
        BY <1>1, <2>1, <3>1, <3>2 DEF Forward, ByStatus
      <4> QED
        BY <3>1, <4>1 DEF Shown, ByStatus
    <3> QED
      BY <1>1, <1>2, <2>1, <3>1, <3>2 DEF ReaderSound, Forward
  <2> QED
    BY <2>2, <2>3
<1> QED
  BY <1>1, <1>2, <1>3 DEF ListInv

LEMMA ReadingListInv ==
  ASSUME ListInv, NEW r \in Reader, ReadStatus(r) \/ ReadRag(r)
  PROVE  ListInv'
<1> USE DEF ListInv
<1>1. TypeInv' /\ ByStatus("buffer") \subseteq Item /\ ByStatus("consolidated") \subseteq Item
      /\ rag \subseteq Item
  <2>1. TypeInv'
    BY TypeInvStep DEF ReadStatus, ReadRag
  <2> QED
    BY <2>1 DEF TypeInv, StoreType, ByStatus
<1>2. ASSUME NEW list \in SUBSET Item, Reads(r, list), reader[r].at \in 1 .. 3
      PROVE  /\ reader' \in [Reader -> ReaderFrame]
             /\ reader'[r] = [at |-> reader[r].at + 1, listed |-> reader[r].listed \union list]
             /\ \A q \in Reader : q # r => reader'[q] = reader[q]
  BY <1>2 DEF Reads, ReaderFrame
<1>3. UNCHANGED vars
  BY DEF ReadStatus, ReadRag
<1>4. \A s : ByStatus(s)' = ByStatus(s) /\ rag' = rag
  BY <1>3 DEF vars, storeVars, ByStatus
<1>5. CASE ReadStatus(r) /\ reader[r].at = 1
  <2>1. Reads(r, ByStatus("buffer")) /\ shown' = [shown EXCEPT ![r] = Shown]
    BY <1>5 DEF ReadStatus, StatusOrder
  <2>2. Shown \subseteq Item
    BY <1>1 DEF Shown
  <2>3. /\ reader' \in [Reader -> ReaderFrame]
        /\ reader'[r] = [at |-> 2, listed |-> reader[r].listed \union ByStatus("buffer")]
        /\ \A q \in Reader : q # r => reader'[q] = reader[q]
    BY <1>1, <1>2, <1>5, <2>1
  <2>4. ReaderSound(r)'
    BY <1>4, <2>1, <2>3 DEF ReaderSound, Shown
  <2>5. \A q \in Reader : q # r => ReaderSound(q)'
    BY <1>4, <2>1, <2>3 DEF ReaderSound
  <2> QED
    BY <1>1, <2>1, <2>2, <2>3, <2>4, <2>5
<1>6. CASE ReadStatus(r) /\ reader[r].at = 2
  <2>1. Reads(r, ByStatus("consolidated")) /\ shown' = shown
    BY <1>6 DEF ReadStatus, StatusOrder
  <2>3. /\ reader' \in [Reader -> ReaderFrame]
        /\ reader'[r] = [at |-> 3, listed |-> reader[r].listed \union ByStatus("consolidated")]
        /\ \A q \in Reader : q # r => reader'[q] = reader[q]
    BY <1>1, <1>2, <1>6, <2>1
  <2>4. ReaderSound(r)'
    BY <1>4, <1>6, <2>1, <2>3 DEF ReaderSound
  <2>5. \A q \in Reader : q # r => ReaderSound(q)'
    BY <1>4, <2>1, <2>3 DEF ReaderSound
  <2> QED
    BY <1>1, <2>1, <2>3, <2>4, <2>5
<1>7. CASE ReadRag(r)
  <2>1. Reads(r, rag) /\ shown' = shown /\ reader[r].at = 3
    BY <1>7 DEF ReadRag
  <2>3. /\ reader' \in [Reader -> ReaderFrame]
        /\ reader'[r] = [at |-> 4, listed |-> reader[r].listed \union rag]
        /\ \A q \in Reader : q # r => reader'[q] = reader[q]
    BY <1>1, <1>2, <2>1
  <2>4. ReaderSound(r)'
    BY <1>4, <2>1, <2>3 DEF ReaderSound
  <2>5. \A q \in Reader : q # r => ReaderSound(q)'
    BY <1>4, <2>1, <2>3 DEF ReaderSound
  <2> QED
    BY <1>1, <2>1, <2>3, <2>4, <2>5
<1>8. ReadStatus(r) => reader[r].at \in {1, 2}
  BY DEF ReadStatus, StatusOrder
<1> QED
  BY <1>5, <1>6, <1>7, <1>8

LEMMA CutOffListInv == ListInv /\ CutOff => ListInv'
<1> SUFFICES ASSUME ListInv, CutOff PROVE ListInv'
  OBVIOUS
<1>1. TypeInv'
  BY TypeInvStep DEF ListInv, CutOff, Next
<1>2. reader' \in [Reader -> ReaderFrame] /\ shown' \in [Reader -> SUBSET Item]
  BY DEF ListInv, CutOff, ReaderFrame
<1>3. ASSUME NEW r \in Reader PROVE ReaderSound(r)'
  <2>1. CASE Reading(r)
    BY <2>1 DEF CutOff, ReaderSound
  <2>2. CASE ~Reading(r)
    BY <2>2 DEF ListInv, CutOff, Reading, ReaderSound
  <2> QED
    BY <2>1, <2>2
<1> QED
  BY <1>1, <1>2, <1>3 DEF ListInv

LEMMA ListInvStep == ListInv /\ [ListNext]_listVars => ListInv'
<1>1. ASSUME ListInv, UNCHANGED listVars PROVE ListInv'
  <2>1. TypeInv' /\ UNCHANGED vars /\ reader' = reader /\ shown' = shown
    BY <1>1, TypeInvStep DEF ListInv, listVars
  <2>2. \A s : ByStatus(s)' = ByStatus(s) /\ rag' = rag
    BY <2>1 DEF vars, storeVars, ByStatus
  <2> QED
    BY <1>1, <2>1, <2>2 DEF ListInv, ReaderSound
<1> QED
  BY <1>1, MeanwhileListInv, ReadingListInv, CutOffListInv DEF ListNext

\* GET /memories and GET /health lock the store for each read and for nothing
\* longer; still no memory falls between the lists, whoever moves it meanwhile and
\* whether or not it is, by then, in the weights and among the references at once.
THEOREM NoneMissingHolds == ListSpec => []NoneMissing
<1>1. ListInv => NoneMissing
  BY DEF ListInv, ReaderSound, NoneMissing
<1> QED
  BY <1>1, InitListInv, ListInvStep, PTL DEF ListSpec

====
