---- MODULE ServingProofs ----
(* What holds of Serving for every value of its constants.                   *)
EXTENDS Serving, TLAPS

----
(* Type correctness.  The type invariant is split by component, so that an   *)
(* action has to be looked at only where it writes.                          *)

StoreType ==
    /\ heap \in [Item -> MemoryItem]
    /\ memories \subseteq Item
    /\ rag \subseteq Item
    /\ storeFile.memories \in [memories -> MemoryItem]
    /\ storeFile = [memories |-> storeFile.memories, rag |-> rag]

HostType ==
    /\ slot \in Adapter \union {NoAdapter}
    /\ recorded \in Adapter \union {NoAdapter}
    /\ codebook \in [Adapter -> SUBSET Row]
    /\ lock \in Chat \union {NoThread}
    /\ codebookFile \in SUBSET Row

\* A frame that is past the choice of its item or adapter really holds one.
HoldsItem == {"edit", "install", "train", "tune", "keys", "register", "promote", "retire",
              "drain", "delete"}
HoldsAdapter == {"tune", "keys", "register", "promote"}

PassType ==
    /\ pass \in [Pass -> PassFrame]
    /\ \A p \in Pass :
          /\ pass[p].at \in HoldsItem => Cur(p) \in Item
          /\ pass[p].at \in HoldsAdapter => pass[p].adapter \in Adapter

ChatType ==
    /\ chat \in [Chat -> ChatFrame]
    /\ \A c \in Chat : chat[c].at \in {"preview", "index"} => chat[c].cur \in Item

ClientType ==
    /\ client \in [Client -> ClientFrame]
    /\ \A u \in Client : client[u].at \notin {"start", "done"}
                            => client[u].cur \in Item

HistoryType == learned \subseteq Item /\ touched \subseteq Item

TypeInv ==
    StoreType /\ HostType /\ PassType /\ ChatType /\ ClientType /\ HistoryType

LEMMA TypeInvTypeOK == TypeInv => TypeOK
BY DEF TypeInv, TypeOK, StoreType, HostType, PassType, ChatType, ClientType,
       HistoryType

LEMMA InitTypeInv == Init => TypeInv
<1> SUFFICES ASSUME Init PROVE TypeInv
  OBVIOUS
<1> USE DEF Init, StoreInit, HostInit, PassInit
<1>1. StoreType
  BY MaxPatchAssumption DEF StoreType, Unborn, MemoryItem, Version
<1>2. HostType
  BY DEF HostType
<1>3. PassType
  BY MaxPatchAssumption, EditRetriesAssumption
     DEF PassType, HoldsItem, HoldsAdapter, Idle, PassFrame, Version
<1>4. ChatType
  BY DEF ChatType, NewChat, ChatFrame
<1>5. ClientType
  BY DEF ClientType, ClientFrame
<1> QED
  BY <1>1, <1>2, <1>3, <1>4, <1>5 DEF TypeInv, HistoryType

\* Every way of saving keeps the table and its file in step.
LEMMA UpsertType ==
  ASSUME StoreType, NEW i \in Item, heap' \in [Item -> MemoryItem], rag' = rag,
         Upsert(i, heap')
  PROVE  StoreType'
BY DEF StoreType, Upsert, Snapshot

LEMMA DeleteType ==
  ASSUME StoreType, NEW i \in Item, heap' = heap, rag' = rag, Delete(i)
  PROVE  StoreType'
<1>1. CASE i \in memories
  BY <1>1 DEF StoreType, Delete, Snapshot
<1>2. CASE i \notin memories
  BY <1>2 DEF StoreType, Delete
<1> QED
  BY <1>1, <1>2

LEMMA RagAddType ==
  ASSUME StoreType, NEW i \in Item, heap' = heap, memories' = memories, RagAdd(i)
  PROVE  StoreType'
BY DEF StoreType, RagAdd, Snapshot

\* A pass action replaces one frame by one that is typed as well.
LEMMA PassUpdate ==
  ASSUME PassType, NEW p \in Pass, NEW f \in PassFrame,
         f.at \in HoldsItem => f.cur \in Item,
         f.at \in HoldsAdapter => f.adapter \in Adapter,
         Becomes(p, f)
  PROVE  PassType'
BY DEF PassType, PassFrame, HoldsItem, HoldsAdapter, Cur, Becomes

LEMMA PassFieldTypes ==
  ASSUME PassType, NEW p \in Pass
  PROVE  /\ pass[p] \in PassFrame
         /\ pass[p].todo \in SUBSET Item
         /\ pass[p].registry \in SUBSET Item
         /\ pass[p].olds \in SUBSET Item
         /\ pass[p].edit \in Version
         /\ pass[p].tries \in 0 .. EditRetries
         /\ pass[p].adapter \in Adapter \union {NoAdapter}
         /\ pass[p].at \in HoldsItem => Cur(p) \in Item
         /\ pass[p].at \in HoldsAdapter => pass[p].adapter \in Adapter
BY DEF PassType, PassFrame

LEMMA IdleType ==
  ASSUME NEW at \in {"idle", "next", "done"}
  PROVE  Idle(at) \in PassFrame /\ Idle(at).at = at
BY MaxPatchAssumption, EditRetriesAssumption DEF Idle, PassFrame, Version

LEMMA ItemDoneType ==
  ASSUME PassType, NEW p \in Pass, NEW reg \in SUBSET Item, ItemDone(p, reg)
  PROVE  PassType'
<1> DEFINE f == [Idle("next") EXCEPT !.todo = pass[p].todo \ {Cur(p)},
                                     !.registry = reg]
<1>1. f \in PassFrame /\ f.at = "next"
  BY IdleType, PassFieldTypes DEF PassFrame, Idle
<1>2. Becomes(p, f)
  BY DEF ItemDone
<1> HIDE DEF f
<1> QED
  BY <1>1, <1>2, PassUpdate DEF HoldsItem, HoldsAdapter

LEMMA PassOverType ==
  ASSUME PassType, NEW p \in Pass, Becomes(p, PassOver(p))
  PROVE  PassType'
<1>1. PassOver(p) \in PassFrame /\ PassOver(p).at \in {"idle", "done"}
  BY IdleType DEF PassOver
<1> QED
  BY <1>1, PassUpdate DEF HoldsItem, HoldsAdapter

\* The steps of a pass that only move its frame.
LEMMA PassMovesType ==
  ASSUME PassType, StoreType, NEW p \in Pass,
         \/ BeginPass(p) \/ ReadRegistry(p) \/ EndPass(p) \/ ClassifyRaises(p)
         \/ \E i \in Item : ClassifyNew(p, i) \/ ClassifySupersede(p, i)
         \/ DrainCheck(p) \/ EditFails(p)
  PROVE  PassType'
<1> USE PassFieldTypes DEF HoldsItem, HoldsAdapter
<1>1. CASE BeginPass(p)
  <2>1. PICK todo \in SUBSET Item :
          Becomes(p, [pass[p] EXCEPT !.at = "registry", !.todo = todo])
    BY <1>1 DEF BeginPass, LoadUnconsolidated, ByStatus, StoreType
  <2> DEFINE f == [pass[p] EXCEPT !.at = "registry", !.todo = todo]
  <2>2. f \in PassFrame /\ f.at = "registry"
    BY DEF PassFrame
  <2> HIDE DEF f
  <2> QED
    BY <2>1, <2>2, PassUpdate DEF f
<1>2. CASE ReadRegistry(p)
  <2> DEFINE f == [pass[p] EXCEPT !.at = "next", !.registry = ConsolidatedEdits]
  <2>1. ConsolidatedEdits \in SUBSET Item
    BY DEF ConsolidatedEdits, ByStatus, StoreType
  <2>2. f \in PassFrame /\ f.at = "next" /\ Becomes(p, f)
    BY <1>2, <2>1 DEF PassFrame, ReadRegistry
  <2> HIDE DEF f
  <2> QED
    BY <2>2, PassUpdate
<1>3. CASE EndPass(p) \/ ClassifyRaises(p)
  BY <1>3, PassOverType DEF EndPass, ClassifyRaises
<1>4. ASSUME NEW i \in Item, ClassifyNew(p, i) \/ ClassifySupersede(p, i)
      PROVE  PassType'
  <2>1. PICK olds \in SUBSET Item :
          Becomes(p, [pass[p] EXCEPT !.at = "edit", !.cur = i, !.olds = olds,
                                     !.edit = heap[i].edit])
    <3>1. CASE ClassifyNew(p, i)
      <4>1. [pass[p] EXCEPT !.at = "edit", !.cur = i, !.edit = heap[i].edit]
              = [pass[p] EXCEPT !.at = "edit", !.cur = i, !.olds = pass[p].olds,
                                !.edit = heap[i].edit]
        BY DEF PassFrame
      <4> QED
        BY <3>1, <4>1 DEF ClassifyNew
    <3>2. CASE ClassifySupersede(p, i)
      BY <3>2 DEF ClassifySupersede
    <3> QED
      BY <1>4, <3>1, <3>2
  <2> DEFINE f == [pass[p] EXCEPT !.at = "edit", !.cur = i, !.olds = olds,
                                  !.edit = heap[i].edit]
  <2>2. heap[i].edit \in Version
    BY DEF StoreType, MemoryItem
  <2>3. f \in PassFrame /\ f.at = "edit" /\ f.cur = i
    BY <2>2 DEF PassFrame
  <2>4. Becomes(p, f)
    BY <2>1
  <2> HIDE DEF f
  <2> QED
    BY <2>3, <2>4, PassUpdate
<1>5. CASE DrainCheck(p)
  <2>1. CASE GoTo(p, "delete")
    <3> DEFINE f == [pass[p] EXCEPT !.at = "delete"]
    <3>1. f \in PassFrame /\ f.at = "delete" /\ f.cur = Cur(p)
      BY DEF PassFrame, Cur
    <3>2. Becomes(p, f) /\ Cur(p) \in Item
      BY <1>5, <2>1 DEF GoTo, DrainCheck, At
    <3> HIDE DEF f
    <3> QED
      BY <3>1, <3>2, PassUpdate
  <2>2. CASE ItemDone(p, pass[p].registry)
    BY <2>2, ItemDoneType
  <2> QED
    BY <1>5, <2>1, <2>2 DEF DrainCheck
<1>6. CASE EditFails(p)
  <2>1. CASE pass[p].tries < EditRetries
    <3> DEFINE f == [pass[p] EXCEPT !.at = "edit", !.adapter = NoAdapter,
                                    !.tries = @ + 1]
    <3>0. pass[p].tries + 1 \in 0 .. EditRetries
      BY <2>1, EditRetriesAssumption
    <3>1. f \in PassFrame /\ f.at = "edit" /\ f.cur = Cur(p)
      BY <3>0 DEF PassFrame, Cur
    <3>2. Becomes(p, f) /\ Cur(p) \in Item
      BY <1>6, <2>1 DEF EditFails
    <3> HIDE DEF f
    <3> QED
      BY <3>1, <3>2, PassUpdate
  <2>2. CASE ~(pass[p].tries < EditRetries)
    BY <1>6, <2>2, ItemDoneType DEF EditFails
  <2> QED
    BY <2>1, <2>2
<1> QED
  BY <1>1, <1>2, <1>3, <1>4, <1>5, <1>6

\* A pass action keeps every type.
LEMMA RowsType ==
  ASSUME NEW i \in Item, NEW v \in Version, NEW rows \in SUBSET Row
  PROVE  AddRow(rows, i, v) \subseteq Row /\ TrainRow(rows, i, v) \subseteq Row
<1>1. RowOf(i, v, TRUE) \in Row /\ RowOf(i, v, FALSE) \in Row
  BY DEF RowOf, Row
<1> QED
  BY <1>1 DEF AddRow, TrainRow

LEMMA PassActionType ==
  ASSUME StoreType, HostType, PassType, NEW p \in Pass,
         BeginPass(p) \/ PassStep(p)
  PROVE  StoreType' /\ HostType' /\ PassType'
<1> USE PassFieldTypes DEF HoldsItem, HoldsAdapter
<1>1. CASE \/ BeginPass(p) \/ ReadRegistry(p) \/ EndPass(p) \/ ClassifyRaises(p)
           \/ \E i \in Item : ClassifyNew(p, i) \/ ClassifySupersede(p, i)
           \/ DrainCheck(p) \/ EditFails(p)
  <2>1. UNCHANGED <<storeVars, hostVars>>
    BY <1>1 DEF BeginPass, ReadRegistry, EndPass, ClassifyRaises, ClassifyNew,
       ClassifySupersede, DrainCheck, EditFails
  <2>2. StoreType' /\ HostType'
    BY <2>1 DEF StoreType, HostType, storeVars, hostVars
  <2>3. PassType'
    BY <1>1, PassMovesType
  <2> QED
    BY <2>2, <2>3
<1>2. ASSUME NEW i \in Item, ClassifyDuplicate(p, i)
      PROVE  StoreType' /\ HostType' /\ PassType'
  <2> DEFINE f == [pass[p] EXCEPT !.at = "drain", !.cur = i]
  <2>1. heap' \in [Item -> MemoryItem]
    <3>1. PICK target \in Item : heap' = [heap EXCEPT ![i].duplicateOf = target]
      BY <1>2 DEF ClassifyDuplicate
    <3> QED
      BY SMTT(30), <3>1 DEF StoreType, MemoryItem
  <2>2. StoreType' /\ HostType'
    BY <1>2, <2>1, UpsertType DEF ClassifyDuplicate, HostType, hostVars
  <2>3. f \in PassFrame /\ f.at = "drain" /\ f.cur = i /\ Becomes(p, f)
    BY <1>2 DEF PassFrame, ClassifyDuplicate
  <2>4. PassType'
    <3> HIDE DEF f
    <3> QED
      BY <2>3, PassUpdate
  <2> QED
    BY <2>2, <2>4
<1>3. CASE DrainDelete(p)
  <2>1. Cur(p) \in Item
    BY <1>3 DEF DrainDelete, At
  <2> QED
    BY <1>3, <2>1, DeleteType, ItemDoneType DEF DrainDelete, HostType, hostVars
<1>4. CASE ShadowEdit(p)
  <2>1. PICK a \in Adapter :
          /\ codebook' = [codebook EXCEPT ![a] =
                TrainRow(Rows(slot), Cur(p), pass[p].edit)]
          /\ Becomes(p, [pass[p] EXCEPT !.at = "promote", !.adapter = a])
    BY <1>4 DEF ShadowEdit
  <2> DEFINE f == [pass[p] EXCEPT !.at = "promote", !.adapter = a]
  <2>2. Cur(p) \in Item
    BY <1>4 DEF ShadowEdit, At
  <2>3. TrainRow(Rows(slot), Cur(p), pass[p].edit) \subseteq Row
    BY <2>2, RowsType DEF Rows, HostType, PassFrame
  <2>4. HostType'
    BY <1>4, <2>1, <2>3 DEF ShadowEdit, HostType
  <2>5. f \in PassFrame /\ f.at = "promote" /\ f.cur = Cur(p) /\ f.adapter = a
    BY DEF PassFrame, Cur
  <2>6. PassType'
    <3>1. Becomes(p, f)
      BY <2>1
    <3> HIDE DEF f
    <3> QED
      BY <2>2, <2>5, <3>1, PassUpdate
  <2>7. StoreType'
    BY <1>4 DEF ShadowEdit, StoreType, storeVars
  <2> QED
    BY <2>4, <2>6, <2>7
<1>5. CASE Promote(p) \/ Register(p)
  <2> DEFINE f == [pass[p] EXCEPT !.at = "retire", !.adapter = NoAdapter]
  <2>1. Cur(p) \in Item /\ pass[p].adapter \in Adapter
    BY <1>5 DEF Promote, Register, At
  <2>2. f \in PassFrame /\ f.at = "retire" /\ f.cur = Cur(p) /\ Becomes(p, f)
    BY <1>5 DEF PassFrame, Cur, Promote, Register
  <2>3. PassType'
    <3> HIDE DEF f
    <3> QED
      BY <2>1, <2>2, PassUpdate
  <2>4. HostType'
    BY <1>5, <2>1 DEF Promote, Register, PromoteEditModule, RegisterEditModule,
       SwapEditModule, SaveCodebook, HostType
  <2>5. StoreType'
    BY <1>5 DEF Promote, Register, StoreType, storeVars
  <2> QED
    BY <2>3, <2>4, <2>5
<1>6. CASE ReadSlot(p) \/ InstallAdapter(p)
  <2>0. PICK at \in {"install", "train"} : Becomes(p, [pass[p] EXCEPT !.at = at])
    BY <1>6 DEF ReadSlot, InstallAdapter, GoTo
  <2> DEFINE f == [pass[p] EXCEPT !.at = at]
  <2>1. Cur(p) \in Item
    BY <1>6 DEF ReadSlot, InstallAdapter, At
  <2>2. f \in PassFrame /\ f.at = at /\ f.cur = Cur(p) /\ Becomes(p, f)
    BY <2>0 DEF PassFrame, Cur
  <2>3. PassType'
    <3> HIDE DEF f
    <3> QED
      BY <2>1, <2>2, PassUpdate
  <2>4. HostType'
    BY <1>6 DEF ReadSlot, InstallAdapter, SwapEditModule, HostType, hostVars
  <2>5. StoreType'
    BY <1>6 DEF ReadSlot, InstallAdapter, StoreType, storeVars
  <2> QED
    BY <2>3, <2>4, <2>5
<1>7. CASE AddKey(p) \/ AppendChatKeys(p)
  <2>1. PICK at \in {"tune", "register"} :
          Becomes(p, [pass[p] EXCEPT !.at = at, !.adapter = slot])
    BY <1>7 DEF AddKey, AppendChatKeys
  <2> DEFINE f == [pass[p] EXCEPT !.at = at, !.adapter = slot]
  <2>2. Cur(p) \in Item /\ slot \in Adapter
    BY <1>7 DEF AddKey, AppendChatKeys, At, HostType
  <2>3. f \in PassFrame /\ f.at = at /\ f.cur = Cur(p) /\ f.adapter = slot
    BY <2>2 DEF PassFrame, Cur
  <2>4. PassType'
    <3>1. Becomes(p, f)
      BY <2>1
    <3> HIDE DEF f
    <3> QED
      BY <2>2, <2>3, <3>1, PassUpdate
  <2>5. AddRow(codebook[slot], Cur(p), pass[p].edit) \subseteq Row
    BY <2>2, RowsType DEF HostType, PassFrame
  <2>6. HostType'
    BY <1>7, <2>2, <2>5 DEF AddKey, AppendChatKeys, HostType
  <2>7. StoreType'
    BY <1>7 DEF AddKey, AppendChatKeys, StoreType, storeVars
  <2> QED
    BY <2>4, <2>6, <2>7
<1>8. CASE FinishTraining(p)
  <2> DEFINE f == [pass[p] EXCEPT !.at = "keys"]
  <2>1. Cur(p) \in Item /\ pass[p].adapter \in Adapter
    BY <1>8 DEF FinishTraining, At
  <2>2. /\ f \in PassFrame /\ f.at = "keys" /\ f.cur = Cur(p)
        /\ f.adapter = pass[p].adapter /\ Becomes(p, f)
    BY <1>8 DEF PassFrame, Cur, FinishTraining, GoTo
  <2>3. PassType'
    <3> HIDE DEF f
    <3> QED
      BY <2>1, <2>2, PassUpdate
  <2>4. slot \in Adapter => TrainRow(codebook[slot], Cur(p), pass[p].edit) \subseteq Row
    BY <2>1, RowsType DEF HostType, PassFrame
  <2>5. HostType'
    BY <1>8, <2>1, <2>4 DEF FinishTraining, HostType
  <2>6. StoreType'
    BY <1>8 DEF FinishTraining, StoreType, storeVars
  <2> QED
    BY <2>3, <2>5, <2>6
<1>9. ASSUME NEW old \in Item, RetireOld(p, old)
      PROVE  StoreType' /\ HostType' /\ PassType'
  <2> DEFINE f == [pass[p] EXCEPT !.olds = @ \ {old}]
  <2>1. Cur(p) \in Item
    BY <1>9 DEF RetireOld, At
  <2>2. heap' \in [Item -> MemoryItem]
    BY <1>9, <2>1 DEF RetireOld, StoreType, MemoryItem
  <2>3. StoreType' /\ HostType'
    BY <1>9, <2>2, UpsertType DEF RetireOld, HostType, hostVars
  <2>4. f \in PassFrame /\ f.at = "retire" /\ f.cur = Cur(p) /\ Becomes(p, f)
    BY <1>9 DEF PassFrame, RetireOld, At, Cur
  <2>5. PassType'
    <3> HIDE DEF f
    <3> QED
      BY <2>1, <2>4, PassUpdate
  <2> QED
    BY <2>3, <2>5
<1>10. CASE Commit(p)
  <2>1. Cur(p) \in Item
    BY <1>10 DEF Commit, At
  <2>2. heap' \in [Item -> MemoryItem]
    BY <1>10, <2>1 DEF Commit, StoreType, MemoryItem
  <2>3. StoreType' /\ HostType'
    BY <1>10, <2>1, <2>2, UpsertType DEF Commit, HostType, hostVars
  <2>4. PassType'
    BY <1>10, <2>1, ItemDoneType DEF Commit
  <2> QED
    BY <2>3, <2>4
<1> QED
  BY <1>1, <1>2, <1>3, <1>4, <1>5, <1>6, <1>7, <1>8, <1>9, <1>10 DEF PassStep

LEMMA ChatUpdate ==
  ASSUME ChatType, NEW c \in Chat, NEW f \in ChatFrame,
         f.at \in {"preview", "index"} => f.cur \in Item,
         ChatBecomes(c, f)
  PROVE  ChatType'
BY DEF ChatType, ChatFrame, ChatBecomes

LEMMA ChatDoneType == ChatDone \in ChatFrame /\ ChatDone.at = "done"
BY DEF ChatDone, NewChat, ChatFrame

\* A step of a chat request keeps every type.
LEMMA ChatActionType ==
  ASSUME TypeInv, NEW c \in Chat, Extract(c) \/ ChatStep(c)
  PROVE  TypeInv'
<1> USE DEF TypeInv
<1>0. chat[c] \in ChatFrame
  BY DEF ChatType
<1>1. CASE Extract(c)
  <2>1. PICK new \in SUBSET Item, edits \in SUBSET Item :
          /\ heap' = [i \in Item |-> IF i \in new
                THEN [Unborn EXCEPT !.status = "buffer",
                                    !.route = IF i \in edits THEN "edit" ELSE "rag"]
                ELSE heap[i]]
          /\ ChatBecomes(c, [chat[c] EXCEPT !.at = "ingest", !.todo = new])
    BY <1>1 DEF Extract
  <2> DEFINE f == [chat[c] EXCEPT !.at = "ingest", !.todo = new]
  <2>2. \A r \in {"edit", "rag"} :
            [Unborn EXCEPT !.status = "buffer", !.route = r] \in MemoryItem
    <3>1. Unborn \in MemoryItem
      BY MaxPatchAssumption DEF Unborn, MemoryItem, Version
    <3> QED
      BY <3>1 DEF MemoryItem
  <2>3. heap' \in [Item -> MemoryItem]
    BY <2>1, <2>2 DEF StoreType
  <2>4. f \in ChatFrame /\ f.at = "ingest"
    BY <1>0 DEF ChatFrame
  <2>5. ChatType'
    <3>1. ChatBecomes(c, f)
      BY <2>1
    <3> HIDE DEF f
    <3> QED
      BY <2>4, <3>1, ChatUpdate
  <2> QED
    BY <1>1, <2>3, <2>5 DEF Extract, StoreType, HostType, PassType, ClientType,
       HistoryType, hostVars, Cur
<1>2. ASSUME NEW i \in Item, Append(c, i) PROVE TypeInv'
  <2> DEFINE f == [chat[c] EXCEPT !.at = "preview", !.cur = i,
                                  !.todo = @ \ {i}, !.mine = @ \union {i}]
  <2>1. f \in ChatFrame /\ f.at = "preview" /\ f.cur = i /\ ChatBecomes(c, f)
    BY <1>0, <1>2 DEF ChatFrame, Append
  <2>2. ChatType'
    <3> HIDE DEF f
    <3> QED
      BY <2>1, ChatUpdate
  <2>3. StoreType'
    <3>1. heap' = heap /\ rag' = rag /\ Upsert(i, heap') /\ heap' \in [Item -> MemoryItem]
      BY <1>2 DEF Append, StoreType
    <3> QED
      BY <3>1, UpsertType
  <2> QED
    BY <1>2, <2>2, <2>3 DEF Append, HostType, PassType, ClientType, HistoryType,
       hostVars, Cur
<1>3. CASE Annotate(c)
  <2> DEFINE f == [chat[c] EXCEPT !.at = "ingest", !.cur = NoItem]
  <2>1. f \in ChatFrame /\ f.at = "ingest" /\ ChatBecomes(c, f)
    BY <1>0, <1>3 DEF ChatFrame, Annotate
  <2>2. ChatType'
    <3> HIDE DEF f
    <3> QED
      BY <2>1, ChatUpdate
  <2>3. chat[c].cur \in Item
    BY <1>3 DEF Annotate, ChatType
  <2>4. StoreType'
    <3>1. CASE Upsert(chat[c].cur, heap)
      BY <1>3, <2>3, <3>1, UpsertType DEF Annotate, StoreType, Upsert
    <3>2. CASE UNCHANGED <<memories, storeFile>>
      BY <1>3, <3>2 DEF Annotate, StoreType
    <3> QED
      BY <1>3, <3>1, <3>2 DEF Annotate
  <2> QED
    BY <1>3, <2>2, <2>4 DEF Annotate, HostType, PassType, ClientType, HistoryType,
       hostVars, Cur
<1>4. ASSUME NEW i \in Item, PinReference(c, i) PROVE TypeInv'
  <2> DEFINE f == [chat[c] EXCEPT !.at = "index", !.cur = i, !.todo = @ \ {i}]
  <2>1. f \in ChatFrame /\ f.at = "index" /\ f.cur = i /\ ChatBecomes(c, f)
    BY <1>0, <1>4 DEF ChatFrame, PinReference
  <2>2. ChatType'
    <3> HIDE DEF f
    <3> QED
      BY <2>1, ChatUpdate
  <2>3. StoreType'
    BY <1>4 DEF PinReference, StoreType, MemoryItem
  <2> QED
    BY <1>4, <2>2, <2>3 DEF PinReference, HostType, PassType, ClientType, HistoryType,
       hostVars, Cur
<1>5. CASE IndexReference(c)
  <2> DEFINE f == [chat[c] EXCEPT !.at = "ingest", !.cur = NoItem]
  <2>1. f \in ChatFrame /\ f.at = "ingest" /\ ChatBecomes(c, f)
    BY <1>0, <1>5 DEF ChatFrame, IndexReference
  <2>2. ChatType'
    <3> HIDE DEF f
    <3> QED
      BY <2>1, ChatUpdate
  <2>3. StoreType'
    BY <1>5, RagAddType DEF IndexReference, ChatType
  <2> QED
    BY <1>5, <2>2, <2>3 DEF IndexReference, HostType, PassType, ClientType,
       HistoryType, hostVars, Cur
<1>6. CASE EmbeddingFails(c)
  <2>1. ChatType'
    BY <1>6, ChatDoneType, ChatUpdate DEF EmbeddingFails
  <2> QED
    BY <1>6, <2>1 DEF EmbeddingFails, StoreType, HostType, PassType, ClientType,
       HistoryType, storeVars, hostVars, Cur
<1>7. CASE StartSession(c)
  <2> DEFINE f == [chat[c] EXCEPT !.at = "plan"]
  <2>1. f \in ChatFrame /\ f.at = "plan" /\ ChatBecomes(c, f)
    BY <1>0, <1>7 DEF ChatFrame, StartSession
  <2>2. ChatType'
    <3> HIDE DEF f
    <3> QED
      BY <2>1, ChatUpdate
  <2> QED
    BY <1>7, <2>2 DEF StartSession, EnterSession, StoreType, HostType, PassType,
       ClientType, HistoryType, storeVars, Cur
<1>8. CASE Prompt(c)
  <2> DEFINE f == [chat[c] EXCEPT !.at = "decode", !.seen = LoadUnconsolidated,
                                  !.view = View]
  <2>1. /\ LoadUnconsolidated \in SUBSET Item
        /\ View \in [slot : Adapter \union {NoAdapter}, rows : SUBSET Row]
    BY DEF LoadUnconsolidated, ByStatus, View, Rows, StoreType, HostType
  <2>2. f \in ChatFrame /\ f.at = "decode" /\ ChatBecomes(c, f)
    BY <1>0, <1>8, <2>1 DEF ChatFrame, Prompt
  <2>3. ChatType'
    <3> HIDE DEF f
    <3> QED
      BY <2>2, ChatUpdate
  <2> QED
    BY <1>8, <2>3 DEF Prompt, StoreType, HostType, PassType, ClientType, HistoryType,
       storeVars, hostVars, Cur
<1>9. CASE Reply(c)
  <2>1. ChatType'
    BY <1>9, ChatDoneType, ChatUpdate DEF Reply
  <2> QED
    BY <1>9, <2>1 DEF Reply, LeaveSession, StoreType, HostType, PassType, ClientType,
       HistoryType, storeVars, Cur
<1> QED
  BY <1>1, <1>2, <1>3, <1>4, <1>5, <1>6, <1>7, <1>8, <1>9 DEF ChatStep

LEMMA ClientUpdate ==
  ASSUME ClientType, NEW u \in Client, NEW f \in ClientFrame,
         f.at \notin {"start", "done"} => f.cur \in Item,
         ClientBecomes(u, f)
  PROVE  ClientType'
BY DEF ClientType, ClientFrame, ClientBecomes

LEMMA ClientDoneType == ClientDone \in ClientFrame /\ ClientDone.at = "done"
BY DEF ClientDone, ClientFrame

\* A request of the user keeps every type.
LEMMA ClientActionType ==
  ASSUME TypeInv, NEW u \in Client, ClientAsks(u) \/ ClientStep(u)
  PROVE  TypeInv'
<1> USE DEF TypeInv
<1>0. client[u] \in ClientFrame
  BY DEF ClientType
<1>1. ASSUME NEW i \in Item, NEW operation,
             NEW at \in {"drop", "route", "decompose"}, Ask(u, i, operation, at)
      PROVE  ClientType'
  BY <1>1, ClientUpdate DEF Ask, ClientFrame
<1>2. ASSUME NEW i \in Item, AskDrop(u, i) \/ AskRoute(u, i) PROVE TypeInv'
  BY <1>1, <1>2 DEF AskDrop, AskRoute, StoreType, HostType, PassType, ChatType,
     HistoryType, storeVars, hostVars, Cur
<1>3. ASSUME NEW i \in Item, AskPatch(u, i) PROVE TypeInv'
  <2>1. ClientType'
    BY <1>1, <1>3 DEF AskPatch
  <2>2. heap[i].text + 1 \in Version
    BY <1>3, MaxPatchAssumption DEF AskPatch, StoreType, MemoryItem, Version
  <2>3. StoreType'
    BY SMTT(30), <1>3, <2>2 DEF AskPatch, StoreType, MemoryItem
  <2> QED
    BY <1>3, <2>1, <2>3 DEF AskPatch, HostType, PassType, ChatType, HistoryType,
       hostVars, Cur
<1>4. ASSUME client[u].at \notin {"start", "done"}
      PROVE  /\ AfterDrop(u) \in ClientFrame
             /\ AfterDrop(u).at \notin {"start", "done"} => AfterDrop(u).cur \in Item
  BY <1>0, <1>4, ClientDoneType DEF AfterDrop, ClientFrame, ClientType
<1>5. CASE BufferDropCheck(u)
  <2>0. client[u].at \in {"drop", "route"} /\ client[u].cur \in Item
    BY <1>5 DEF BufferDropCheck, ClientType
  <2>1. ASSUME ClientBecomes(u, AfterDrop(u)) PROVE ClientType'
    BY <1>4, <2>0, <2>1, ClientUpdate
  <2>2. ASSUME ClientBecomes(u, [client[u] EXCEPT
                  !.at = IF @ = "drop" THEN "drop2" ELSE "route2"])
        PROVE  ClientType'
    <3> DEFINE f == [client[u] EXCEPT !.at = IF @ = "drop" THEN "drop2" ELSE "route2"]
    <3>1. f \in ClientFrame /\ f.cur = client[u].cur
      BY <1>0, <2>0 DEF ClientFrame
    <3>2. ClientBecomes(u, f) /\ ClientType
      BY <2>2
    <3> HIDE DEF f
    <3> QED
      BY <2>0, <3>1, <3>2, ClientUpdate
  <2> QED
    BY <1>5, <2>1, <2>2 DEF BufferDropCheck, StoreType, HostType, PassType, ChatType,
       HistoryType, storeVars, hostVars, Cur
<1>6. CASE BufferDropDelete(u)
  <2>1. client[u].cur \in Item
    BY <1>6 DEF BufferDropDelete, ClientType
  <2>2. StoreType' /\ ClientType'
    BY <1>4, <1>6, <2>1, DeleteType, ClientUpdate DEF BufferDropDelete
  <2> QED
    BY <1>6, <2>2 DEF BufferDropDelete, HostType, PassType, ChatType, HistoryType,
       hostVars, Cur
<1>7. CASE Reroute(u)
  <2> DEFINE f == [client[u] EXCEPT !.at = "index"]
  <2>1. client[u].cur \in Item
    BY <1>7 DEF Reroute, ClientType
  <2>2. f \in ClientFrame /\ f.cur = client[u].cur /\ ClientBecomes(u, f)
    BY <1>0, <1>7 DEF ClientFrame, Reroute
  <2>3. ClientType'
    <3> HIDE DEF f
    <3> QED
      BY <2>1, <2>2, ClientUpdate
  <2>4. StoreType'
    BY <1>7, <2>1 DEF Reroute, StoreType, MemoryItem
  <2> QED
    BY <1>7, <2>3, <2>4 DEF Reroute, HostType, PassType, ChatType, HistoryType,
       hostVars, Cur
<1>8. CASE IndexRerouted(u)
  <2>1. client[u].cur \in Item
    BY <1>8 DEF IndexRerouted, ClientType
  <2>2. ClientType'
    BY <1>8, ClientDoneType, ClientUpdate DEF IndexRerouted
  <2>3. StoreType'
    <3>1. CASE RagAdd(client[u].cur)
      BY <1>8, <2>1, <3>1, RagAddType DEF IndexRerouted
    <3>2. CASE UNCHANGED <<rag, storeFile>>
      BY <1>8, <3>2 DEF IndexRerouted, StoreType
    <3> QED
      BY <1>8, <3>1, <3>2 DEF IndexRerouted
  <2> QED
    BY <1>8, <2>2, <2>3 DEF IndexRerouted, HostType, PassType, ChatType, HistoryType,
       hostVars, Cur
<1>9. CASE PatchUpsert(u)
  <2> DEFINE i == client[u].cur
  <2>1. i \in Item
    BY <1>9 DEF PatchUpsert, ClientType
  <2>2. ClientType'
    BY <1>9, ClientDoneType, ClientUpdate DEF PatchUpsert
  <2>3. heap' \in [Item -> MemoryItem] /\ rag' = rag /\ Upsert(i, heap')
    BY <1>9, <2>1 DEF PatchUpsert, StoreType, MemoryItem
  <2>4. StoreType'
    BY <2>1, <2>3, UpsertType
  <2> QED
    BY <1>9, <2>2, <2>4 DEF PatchUpsert, HostType, PassType, ChatType, HistoryType,
       hostVars, Cur
<1>10. CASE Plug(u) \/ Unplug(u)
  <2>1. ClientType'
    BY <1>10, ClientDoneType, ClientUpdate DEF Plug, Unplug
  <2> QED
    BY <1>10, <2>1 DEF Plug, Unplug, SwapEditModule, StoreType, HostType, PassType,
       ChatType, HistoryType, storeVars, Cur
<1> QED
  BY <1>2, <1>3, <1>5, <1>6, <1>7, <1>8, <1>9, <1>10 DEF ClientAsks, ClientStep

\* What a restart reads from the two files has its type.
LEMMA RestartType ==
  ASSUME TypeInv, Restart
  PROVE  TypeInv'
<1> USE DEF TypeInv, Restart
<1>1. StoreType'
  <2>1. memories' = memories /\ rag' = rag /\ storeFile' = storeFile
    BY DEF LoadStore, StoreType
  <2>2. heap' \in [Item -> MemoryItem]
    BY DEF LoadStore, StoreType
  <2> QED
    BY <2>1, <2>2 DEF StoreType
<1>2. HostType'
  <2>1. lock' = NoThread /\ codebookFile' = codebookFile
    BY DEF LoadCodebook, LoadBase
  <2>2. slot' \in Adapter \union {NoAdapter} /\ recorded' \in Adapter \union {NoAdapter}
    BY DEF LoadCodebook, LoadBase
  <2>3. codebook' \in [Adapter -> SUBSET Row]
    BY DEF LoadCodebook, LoadBase, HostType
  <2> QED
    BY <2>1, <2>2, <2>3 DEF HostType
<1>3. PassType'
  BY IdleType DEF PassType, HoldsItem, HoldsAdapter
<1>4. ChatType'
  BY ChatDoneType DEF ChatType
<1>5. ClientType'
  BY ClientDoneType DEF ClientType
<1> QED
  BY <1>1, <1>2, <1>3, <1>4, <1>5 DEF HistoryType

LEMMA TypeInvStep == TypeInv /\ [Next]_vars => TypeInv'
<1> SUFFICES ASSUME TypeInv, [Next]_vars PROVE TypeInv'
  OBVIOUS
<1>1. ASSUME NEW p \in Pass, PassBegins(p) \/ PassRuns(p) PROVE TypeInv'
  BY <1>1, PassActionType DEF PassBegins, PassRuns, TypeInv, ChatType, ClientType,
     HistoryType
<1>2. ASSUME NEW c \in Chat, Extract(c) \/ ChatStep(c) PROVE TypeInv'
  BY <1>2, ChatActionType
<1>3. ASSUME NEW u \in Client, ClientAsks(u) \/ ClientStep(u) PROVE TypeInv'
  BY <1>3, ClientActionType
<1>4. CASE Restart
  BY <1>4, RestartType
<1>5. CASE UNCHANGED vars
  BY <1>5 DEF vars, storeVars, hostVars, TypeInv, StoreType, HostType, PassType,
     ChatType, ClientType, HistoryType, Cur
<1> QED
  BY <1>1, <1>2, <1>3, <1>4, <1>5 DEF Next, Serve

LEMMA TypeInvariant == Spec => []TypeInv
BY InitTypeInv, TypeInvStep, PTL DEF Spec

\* Every variable has its type in every state, and the ids in memory are those
\* of memory_store.json, whatever threads, requests and crashes there are.
THEOREM TypeCorrect == Spec => []TypeOK
BY TypeInvariant, TypeInvTypeOK, PTL

----
(* Consolidation loses nothing.  With one writer, no unplugged adapter and    *)
(* checkpoints that succeed, the recorded codebook only grows, and whatever   *)
(* leaves the buffer leaves it for a row that is already recorded.            *)

\* The deployment the theorems are about: POST /consolidate/async only, the
\* edit module left plugged in, and a disk that does not fail.
SingleWriter ==
    /\ InPlace = {}
    /\ \A p, q \in Worker : p = q
    /\ "unplug" \notin Operations
    /\ CheckpointMayFail = FALSE

Recorded == Rows(recorded)

AllTrained(rows) == \A r \in rows : r.trained

\* What is served is what is recorded, without a half-trained row, and a restart
\* gets it back.
HostInv == slot = recorded /\ codebookFile = Recorded /\ AllTrained(Recorded)

\* An object that claims to be in the weights, or points at one that is, tells
\* the truth about a codebook with these rows.
ObjectSound(i, object, rows) ==
    /\ object.duplicateOf # NoItem => Taught(object.duplicateOf, rows)
    /\ object.status = "retired" =>
          Taught(i, rows) /\ Taught(object.supersededBy, rows)
    /\ object.status = "consolidated" /\ object.route = "edit" => Taught(i, rows)

StoreInv ==
    /\ \A i \in Item : ObjectSound(i, heap[i], Recorded)
    /\ \A i \in memories : ObjectSound(i, storeFile.memories[i], Recorded)

\* A memory that some table or frame refers to; Extract takes no such id.
Alive == {i \in Item : heap[i].status # "none"}

AliveInv ==
    /\ memories \subseteq Alive
    /\ \A i \in memories : storeFile.memories[i].status # "none"
    /\ learned \subseteq Alive

\* The promises a pass has made before it keeps them.
PassSound(p) ==
    /\ pass[p].todo \subseteq Alive
    /\ pass[p].at \in HoldsItem => Cur(p) \in Alive
    /\ pass[p].at \notin {"train", "tune", "keys", "register"}
    /\ \A i \in pass[p].registry \union pass[p].olds : Taught(i, Recorded)
    /\ pass[p].at \in {"drain", "delete"} => heap[Cur(p)].duplicateOf # NoItem
    /\ pass[p].at = "promote" =>
          /\ Recorded \subseteq codebook[pass[p].adapter]
          /\ Taught(Cur(p), codebook[pass[p].adapter])
          /\ AllTrained(codebook[pass[p].adapter])
    /\ pass[p].at = "retire" => Taught(Cur(p), Recorded)

PassInv == \A p \in Pass : PassSound(p)

\* Only the user's own request re-routes a memory or takes it out of the table.
ClientSound(u) ==
    /\ client[u].at \in {"drop", "drop2", "route", "route2", "reroute", "index"}
          => client[u].cur \in touched
    /\ client[u].at = "decompose" => client[u].cur \in Alive

ClientInv == \A u \in Client : ClientSound(u)

LearnedInv ==
    \A i \in learned \ touched :
       /\ heap[i].route = "edit"
       /\ i \in memories => storeFile.memories[i].route = "edit"
       /\ i \in memories \/ heap[i].duplicateOf # NoItem

\* A session holds the lock, so its codebook is the recorded one to the end.
ChatSound(c) ==
    /\ chat[c].at = "start" => chat[c] = NewChat
    /\ chat[c].todo \subseteq Alive
    /\ chat[c].at = "preview" => chat[c].cur \in Alive
    /\ chat[c].mine \subseteq learned
    /\ chat[c].at \in {"plan", "decode"} => lock = c
    /\ chat[c].at = "decode" =>
          /\ chat[c].view = View
          /\ \A i \in chat[c].mine \ touched :
                i \in chat[c].seen \/ TaughtFor(i, Recorded)

ChatInv == \A c \in Chat : ChatSound(c)

IInv ==
    /\ HostInv /\ StoreInv /\ AliveInv /\ LearnedInv
    /\ PassInv /\ ClientInv /\ ChatInv

LEMMA InitIInv == Init => IInv
BY DEF Init, StoreInit, HostInit, PassInit, IInv, HostInv, StoreInv, AliveInv,
       PassInv, PassSound, ClientInv, ClientSound, LearnedInv, ChatInv,
       ChatSound, Recorded, Rows, Unborn, ObjectSound,
       Idle, HoldsItem, NewChat, Cur, AllTrained

LEMMA TaughtGrows ==
  ASSUME NEW i, NEW rows, NEW more, rows \subseteq more, Taught(i, rows)
  PROVE  Taught(i, more)
BY DEF Taught

LEMMA TrainRowGrows ==
  ASSUME NEW i, NEW v, NEW rows, AllTrained(rows)
  PROVE  /\ rows \subseteq TrainRow(rows, i, v)
         /\ Taught(i, TrainRow(rows, i, v))
         /\ AllTrained(TrainRow(rows, i, v))
<1>1. /\ RowOf(i, v, TRUE).item = i /\ RowOf(i, v, TRUE).trained
      /\ ~RowOf(i, v, FALSE).trained
  BY DEF RowOf
<1> HIDE DEF RowOf
<1> QED
  BY <1>1 DEF Taught, TrainRow, AllTrained

LEMMA SoundGrows ==
  ASSUME NEW i, NEW object, NEW rows, NEW more, rows \subseteq more,
         ObjectSound(i, object, rows)
  PROVE  ObjectSound(i, object, more)
BY TaughtGrows DEF ObjectSound

\* The invariant says enough for NoVacuum.
LEMMA NoVacuumFromIInv ==
  ASSUME TypeInv, IInv
  PROVE  \A i \in learned \ touched : InBuffer(i) \/ TaughtFor(i, Recorded)
<1> SUFFICES ASSUME NEW i \in learned \ touched, ~InBuffer(i)
             PROVE  TaughtFor(i, Recorded)
  OBVIOUS
<1>1. /\ i \in Item /\ heap[i] \in MemoryItem /\ ObjectSound(i, heap[i], Recorded)
      /\ heap[i].status # "none" /\ heap[i].route = "edit"
      /\ i \in memories \/ heap[i].duplicateOf # NoItem
  BY DEF TypeInv, StoreType, HistoryType, IInv, StoreInv, AliveInv, Alive, LearnedInv
<1>2. CASE heap[i].duplicateOf # NoItem
  BY <1>1, <1>2 DEF ObjectSound, TaughtFor
<1>3. CASE i \in memories
  <2>1. heap[i].status \in {"consolidated", "retired"}
    BY <1>1, <1>3 DEF InBuffer, LoadUnconsolidated, ByStatus, MemoryItem
  <2> QED
    BY <1>1, <2>1 DEF ObjectSound, TaughtFor
<1> QED
  BY <1>1, <1>2, <1>3

\* How a step other than a restart may change the object of memory i ...
HeapMove(i) ==
    \/ /\ heap[i].status = "none"
       /\ heap'[i].status = "buffer"
       /\ heap'[i].duplicateOf = NoItem
    \/ /\ heap[i].status # "none" => heap'[i].status # "none"
       /\ heap[i].duplicateOf # NoItem => heap'[i].duplicateOf # NoItem
       /\ i \in learned \ touched => heap'[i].route = "edit"
       /\ ObjectSound(i, heap'[i], Recorded)

\* ... and the table, which it saves whenever it changes the keys.
StoreEffect ==
    /\ \A i \in Item : HeapMove(i)
    /\ \/ UNCHANGED <<memories, storeFile>>
       \/ storeFile'.memories = [i \in memories' |-> heap'[i]]
    /\ \A i \in memories' \ memories : heap'[i].status # "none"
    /\ \A i \in memories \ memories' : i \in touched \/ heap'[i].duplicateOf # NoItem
    /\ learned \subseteq learned'
    /\ touched \subseteq touched'
    /\ \A i \in learned' \ learned : /\ i \in memories'
                                    /\ heap'[i].route = "edit"
                                    /\ heap'[i].status # "none"
                                    /\ storeFile'.memories[i].route = "edit"

LEMMA HeapKept ==
  ASSUME StoreInv, LearnedInv, NEW i \in Item, heap'[i] = heap[i]
  PROVE  HeapMove(i)
BY DEF StoreInv, LearnedInv, HeapMove

\* A step that leaves the whole table alone.
LEMMA StoreKept ==
  ASSUME StoreInv, LearnedInv, UNCHANGED <<heap, memories, storeFile, learned>>,
         touched \subseteq touched'
  PROVE  StoreEffect
BY HeapKept DEF StoreEffect

LEMMA PassStoreEffect ==
  ASSUME SingleWriter, TypeInv, IInv, NEW p \in Pass, PassBegins(p) \/ PassRuns(p)
  PROVE  StoreEffect
<1> USE PassFieldTypes DEF TypeInv, IInv, HoldsItem
<1>1. CASE UNCHANGED storeVars
  BY <1>1, StoreKept DEF storeVars, PassBegins, PassRuns
<1>2. ASSUME NEW i \in Item, ClassifyDuplicate(p, i) PROVE StoreEffect
  <2>1. PICK target \in pass[p].registry :
           heap' = [heap EXCEPT ![i].duplicateOf = target]
    BY <1>2 DEF ClassifyDuplicate
  <2>2. Taught(target, Recorded) /\ target # NoItem
    BY <2>1, NoItemAssumption DEF PassInv, PassSound
  <2>3. heap[i].status # "none" /\ ObjectSound(i, heap[i], Recorded)
    BY <1>2 DEF ClassifyDuplicate, PassInv, PassSound, Alive, StoreInv
  <2>4. heap'[i] = [heap[i] EXCEPT !.duplicateOf = target] /\ heap[i] \in MemoryItem
    BY <2>1 DEF StoreType
  <2>5. HeapMove(i) /\ heap'[i].status # "none"
    BY <2>2, <2>3, <2>4 DEF HeapMove, ObjectSound, MemoryItem, LearnedInv
  <2>6. \A j \in Item : HeapMove(j)
    BY <2>1, <2>5, HeapKept DEF StoreType
  <2> QED
    BY <1>2, <2>5, <2>6 DEF StoreEffect, ClassifyDuplicate, Upsert, Snapshot,
       PassBegins, PassRuns
<1>3. CASE DrainDelete(p)
  <2>1. Cur(p) \in Item /\ heap[Cur(p)].duplicateOf # NoItem
    BY <1>3 DEF DrainDelete, At, PassInv, PassSound
  <2> QED
    BY <1>3, <2>1, HeapKept DEF StoreEffect, DrainDelete, Delete, Snapshot,
       PassBegins, PassRuns
<1>4. ASSUME NEW old \in Item, RetireOld(p, old) PROVE StoreEffect
  <2>1. Taught(old, Recorded) /\ Taught(Cur(p), Recorded)
    BY <1>4 DEF RetireOld, At, PassInv, PassSound
  <2>2. /\ heap'[old] = [heap[old] EXCEPT !.status = "retired", !.supersededBy = Cur(p)]
        /\ heap[old] \in MemoryItem /\ ObjectSound(old, heap[old], Recorded)
    BY <1>4 DEF RetireOld, StoreType, StoreInv
  <2>3. HeapMove(old) /\ heap'[old].status # "none"
    BY <2>1, <2>2 DEF HeapMove, ObjectSound, MemoryItem, LearnedInv
  <2>4. \A j \in Item : HeapMove(j)
    BY <1>4, <2>3, HeapKept DEF RetireOld, StoreType
  <2> QED
    BY <1>4, <2>3, <2>4 DEF StoreEffect, RetireOld, Upsert, Snapshot, PassBegins, PassRuns
<1>5. CASE Commit(p)
  <2> DEFINE i == Cur(p)
  <2>1. i \in Item /\ Taught(i, Recorded)
    BY <1>5 DEF Commit, At, PassInv, PassSound
  <2>2. /\ heap'[i] = [heap[i] EXCEPT !.status = "consolidated"]
        /\ heap[i] \in MemoryItem /\ ObjectSound(i, heap[i], Recorded)
    BY <1>5, <2>1 DEF Commit, StoreType, StoreInv
  <2>3. HeapMove(i) /\ heap'[i].status # "none"
    BY <2>1, <2>2 DEF HeapMove, ObjectSound, MemoryItem, LearnedInv
  <2>4. \A j \in Item : HeapMove(j)
    BY <1>5, <2>3, HeapKept DEF Commit, StoreType
  <2> QED
    BY <1>5, <2>1, <2>3, <2>4 DEF StoreEffect, Commit, Upsert, Snapshot, PassBegins, PassRuns
<1>6. CASE BeginPass(p) \/ ReadRegistry(p) \/ EndPass(p) \/ ClassifyRaises(p)
           \/ DrainCheck(p) \/ EditFails(p)
  BY <1>1, <1>6 DEF BeginPass, ReadRegistry, EndPass, ClassifyRaises, DrainCheck,
     EditFails
<1>7. CASE \E i \in Item : ClassifyNew(p, i) \/ ClassifySupersede(p, i)
  BY <1>1, <1>7 DEF ClassifyNew, ClassifySupersede
<1>8. CASE \/ ShadowEdit(p) \/ Promote(p) \/ ReadSlot(p) \/ InstallAdapter(p)
           \/ AddKey(p) \/ FinishTraining(p) \/ AppendChatKeys(p) \/ Register(p)
  BY <1>1, <1>8 DEF ShadowEdit, Promote, ReadSlot, InstallAdapter, AddKey, FinishTraining,
     AppendChatKeys, Register
<1> QED
  BY <1>2, <1>3, <1>4, <1>5, <1>6, <1>7, <1>8 DEF PassBegins, PassRuns, PassStep

LEMMA ChatStoreEffect ==
  ASSUME TypeInv, IInv, NEW c \in Chat, Extract(c) \/ ChatStep(c)
  PROVE  StoreEffect
<1> USE DEF TypeInv, IInv
<1>1. CASE Extract(c)
  <2>1. PICK new \in SUBSET {i \in Item : heap[i].status = "none"},
             edits \in SUBSET Item :
          heap' = [i \in Item |-> IF i \in new
             THEN [Unborn EXCEPT !.status = "buffer",
                                 !.route = IF i \in edits THEN "edit" ELSE "rag"]
             ELSE heap[i]]
    BY <1>1 DEF Extract
  <2>2. ASSUME NEW i \in Item PROVE HeapMove(i)
    <3>1. CASE i \in new
      BY <2>1, <3>1 DEF HeapMove, Unborn
    <3>2. CASE i \notin new
      BY <2>1, <3>2, HeapKept
    <3> QED
      BY <3>1, <3>2
  <2> QED
    BY <1>1, <2>2 DEF Extract, StoreEffect
<1>2. ASSUME NEW i \in Item, Append(c, i) PROVE StoreEffect
  <2>1. heap[i].status # "none" /\ heap[i].route = "edit"
    BY <1>2 DEF Append, ChatInv, ChatSound, Alive
  <2> QED
    BY <1>2, <2>1, HeapKept DEF Append, StoreEffect, Upsert, Snapshot
<1>3. CASE Annotate(c)
  <2>1. heap[chat[c].cur].status # "none" /\ chat[c].cur \in Item
    BY <1>3 DEF Annotate, ChatInv, ChatSound, Alive
  <2> QED
    BY <1>3, <2>1, HeapKept DEF Annotate, StoreEffect, Upsert, Snapshot
<1>4. ASSUME NEW i \in Item, PinReference(c, i) PROVE StoreEffect
  <2>1. heap[i] \in MemoryItem /\ ObjectSound(i, heap[i], Recorded)
    BY DEF StoreType, StoreInv
  <2>2. heap'[i] = [heap[i] EXCEPT !.status = "consolidated"] /\ heap[i].route = "rag"
    BY <1>4 DEF PinReference, StoreType
  <2>3. HeapMove(i)
    BY <2>1, <2>2 DEF HeapMove, ObjectSound, MemoryItem, LearnedInv
  <2>4. \A j \in Item : HeapMove(j)
    BY <1>4, <2>3, HeapKept DEF PinReference, StoreType
  <2> QED
    BY <1>4, <2>4 DEF PinReference, StoreEffect
<1>5. CASE IndexReference(c)
  BY <1>5, HeapKept DEF IndexReference, StoreEffect, RagAdd, Snapshot
<1>6. CASE EmbeddingFails(c) \/ StartSession(c) \/ Prompt(c) \/ Reply(c)
  BY <1>6, StoreKept DEF EmbeddingFails, StartSession, Prompt, Reply, storeVars
<1> QED
  BY <1>1, <1>2, <1>3, <1>4, <1>5, <1>6 DEF ChatStep

LEMMA ClientStoreEffect ==
  ASSUME TypeInv, IInv, NEW u \in Client, ClientAsks(u) \/ ClientStep(u)
  PROVE  StoreEffect
<1> USE DEF TypeInv, IInv
<1>1. CASE \/ \E i \in Item : AskDrop(u, i) \/ AskRoute(u, i)
           \/ BufferDropCheck(u) \/ Plug(u) \/ Unplug(u)
  BY <1>1, StoreKept DEF AskDrop, AskRoute, BufferDropCheck, Plug, Unplug, storeVars
<1>2. ASSUME NEW i \in Item, AskPatch(u, i) PROVE StoreEffect
  <2>1. heap'[i] = [heap[i] EXCEPT !.text = @ + 1] /\ heap[i] \in MemoryItem
    BY <1>2 DEF AskPatch, StoreType
  <2>2. HeapMove(i)
    BY <2>1 DEF HeapMove, ObjectSound, MemoryItem, LearnedInv, StoreInv
  <2>3. \A j \in Item : HeapMove(j)
    BY <1>2, <2>2, HeapKept DEF AskPatch, StoreType
  <2> QED
    BY <1>2, <2>3 DEF AskPatch, StoreEffect
<1>3. CASE BufferDropDelete(u)
  <2>1. client[u].cur \in Item /\ client[u].cur \in touched
    BY <1>3 DEF BufferDropDelete, ClientType, ClientInv, ClientSound
  <2> QED
    BY <1>3, <2>1, HeapKept DEF BufferDropDelete, StoreEffect, Delete, Snapshot
<1>4. CASE Reroute(u)
  <2> DEFINE i == client[u].cur
  <2>1. i \in Item /\ i \in touched
    BY <1>4 DEF Reroute, ClientType, ClientInv, ClientSound
  <2>2. /\ heap'[i] = [heap[i] EXCEPT !.route = "rag", !.status = "consolidated"]
        /\ heap[i] \in MemoryItem /\ ObjectSound(i, heap[i], Recorded)
    BY <1>4, <2>1 DEF Reroute, StoreType, StoreInv
  <2>3. HeapMove(i)
    BY <2>1, <2>2 DEF HeapMove, ObjectSound, MemoryItem
  <2>4. \A j \in Item : HeapMove(j)
    BY <1>4, <2>3, HeapKept DEF Reroute, StoreType
  <2> QED
    BY <1>4, <2>4 DEF Reroute, StoreEffect
<1>5. CASE IndexRerouted(u)
  BY <1>5, HeapKept DEF IndexRerouted, StoreEffect, RagAdd, Snapshot
<1>6. CASE PatchUpsert(u)
  <2> DEFINE i == client[u].cur
  <2>1. i \in Item /\ heap[i].status # "none"
    BY <1>6 DEF PatchUpsert, ClientInv, ClientSound, Alive
  <2>2. /\ heap[i] \in MemoryItem /\ ObjectSound(i, heap[i], Recorded)
        /\ \/ heap'[i] = [heap[i] EXCEPT !.edit = heap[i].text]
           \/ heap'[i] = heap[i]
    BY <1>6, <2>1 DEF PatchUpsert, StoreType, StoreInv
  <2>3. HeapMove(i) /\ heap'[i].status # "none"
    BY <2>1, <2>2 DEF HeapMove, ObjectSound, MemoryItem, LearnedInv
  <2>4. \A j \in Item : HeapMove(j)
    BY <1>6, <2>3, HeapKept DEF PatchUpsert, StoreType
  <2> QED
    BY <1>6, <2>1, <2>3, <2>4 DEF PatchUpsert, StoreEffect, Upsert, Snapshot
<1> QED
  BY <1>1, <1>2, <1>3, <1>4, <1>5, <1>6 DEF ClientAsks, ClientStep

\* What a step other than a restart may do to the resident model.
HostEffect ==
    /\ HostInv'
    /\ Recorded \subseteq Recorded'
    /\ lock # NoThread => View' = View /\ Recorded' = Recorded

LEMMA HostKept ==
  ASSUME HostInv, UNCHANGED <<slot, recorded, codebook, codebookFile>>
  PROVE  HostEffect
BY DEF HostInv, AllTrained, HostEffect, Recorded, Rows, View

LEMMA PassHostEffect ==
  ASSUME SingleWriter, TypeInv, IInv, NEW p \in Pass, PassBegins(p) \/ PassRuns(p)
  PROVE  /\ HostEffect
         /\ ShadowEdit(p) \/ Promote(p) \/ UNCHANGED hostVars
<1> USE DEF TypeInv, IInv
<1>1. CASE UNCHANGED hostVars
  BY <1>1, HostKept DEF hostVars
<1>2. CASE ShadowEdit(p)
  <2>1. PICK a \in Adapter : /\ Fresh(a)
                             /\ \E rows : codebook' = [codebook EXCEPT ![a] = rows]
    BY <1>2 DEF ShadowEdit
  <2>2. a # recorded /\ a # slot
    BY <2>1 DEF Fresh
  <2>3. UNCHANGED <<slot, recorded, codebookFile>>
    BY <1>2 DEF ShadowEdit
  <2>4. Recorded' = Recorded /\ Rows(slot)' = Rows(slot)
    BY <2>1, <2>2, <2>3 DEF Recorded, Rows, HostType
  <2> QED
    BY <1>2, <2>3, <2>4 DEF HostEffect, HostInv, View
<1>3. CASE Promote(p)
  <2> DEFINE a == pass[p].adapter
  <2>1. a \in Adapter /\ Recorded \subseteq codebook[a] /\ AllTrained(codebook[a])
    BY <1>3, PassFieldTypes DEF Promote, At, PassInv, PassSound, HoldsAdapter
  <2>2. /\ slot' = a /\ recorded' = a /\ codebook' = codebook
        /\ codebookFile' = codebook[a] /\ lock = NoThread
    BY <1>3 DEF Promote, PromoteEditModule, SwapEditModule, SaveCodebook, SingleWriter
  <2>3. Recorded' = codebook[a]
    BY <2>1, <2>2, NoAdapterAssumption DEF Recorded, Rows
  <2> QED
    BY <1>3, <2>1, <2>2, <2>3 DEF HostEffect, HostInv
<1>4. ~(\/ ReadSlot(p) \/ InstallAdapter(p) \/ AddKey(p) \/ FinishTraining(p)
        \/ AppendChatKeys(p) \/ Register(p))
  BY DEF SingleWriter, ReadSlot, InstallAdapter, AddKey, FinishTraining, AppendChatKeys,
     Register, At, PassInv,
     PassSound
<1>5. CASE \/ BeginPass(p) \/ ReadRegistry(p) \/ EndPass(p) \/ ClassifyRaises(p)
           \/ DrainCheck(p) \/ DrainDelete(p) \/ EditFails(p) \/ Commit(p)
  BY <1>1, <1>5 DEF BeginPass, ReadRegistry, EndPass, ClassifyRaises, DrainCheck,
     DrainDelete, EditFails, Commit
<1>6. CASE \E i \in Item : \/ ClassifyNew(p, i) \/ ClassifySupersede(p, i)
                          \/ ClassifyDuplicate(p, i) \/ RetireOld(p, i)
  BY <1>1, <1>6 DEF ClassifyNew, ClassifySupersede, ClassifyDuplicate, RetireOld
<1> QED
  BY <1>2, <1>3, <1>4, <1>5, <1>6 DEF PassBegins, PassRuns, PassStep

LEMMA OtherHostEffect ==
  ASSUME SingleWriter, TypeInv, IInv,
         \/ \E c \in Chat : Extract(c) \/ ChatStep(c)
         \/ \E u \in Client : ClientAsks(u) \/ ClientStep(u)
  PROVE  HostEffect /\ pass' = pass /\ UNCHANGED <<slot, recorded, codebook, codebookFile>>
<1> USE DEF TypeInv, IInv
<1>1. CASE \E c \in Chat : \/ Extract(c) \/ Annotate(c) \/ IndexReference(c)
                          \/ EmbeddingFails(c) \/ Prompt(c)
                          \/ \E i \in Item : Append(c, i) \/ PinReference(c, i)
  BY <1>1, HostKept DEF Extract, Annotate, IndexReference, EmbeddingFails, Prompt,
     Append, PinReference, hostVars
<1>2. CASE \E c \in Chat : StartSession(c) \/ Reply(c)
  BY <1>2, HostKept DEF StartSession, Reply, EnterSession, LeaveSession
<1>3. CASE \E u \in Client : \/ BufferDropCheck(u) \/ BufferDropDelete(u) \/ Reroute(u)
                            \/ IndexRerouted(u) \/ PatchUpsert(u)
                            \/ \E i \in Item : AskDrop(u, i) \/ AskRoute(u, i) \/ AskPatch(u, i)
  BY <1>3, HostKept DEF BufferDropCheck, BufferDropDelete, Reroute, IndexRerouted,
     PatchUpsert, AskDrop, AskRoute, AskPatch, hostVars
<1>4. CASE \E u \in Client : Plug(u)
  <2>1. slot' = slot
    BY <1>4 DEF Plug, SwapEditModule, HostInv
  <2> QED
    BY <1>4, <2>1, HostKept DEF Plug
<1>5. ~ \E u \in Client : Unplug(u)
  BY DEF Unplug, SingleWriter
<1> QED
  BY <1>1, <1>2, <1>3, <1>4, <1>5 DEF ChatStep, ClientAsks, ClientStep

\* The store part of the invariant follows from the two effects.
LEMMA StorePartStep ==
  ASSUME TypeInv, IInv, TypeInv', StoreEffect, HostEffect
  PROVE  /\ StoreInv' /\ AliveInv' /\ LearnedInv'
         /\ Alive \subseteq Alive'
         /\ \A i \in Alive : heap[i].duplicateOf # NoItem => heap'[i].duplicateOf # NoItem
<1> USE DEF TypeInv, IInv, HostEffect
<1>1. ASSUME NEW i \in Item PROVE ObjectSound(i, heap'[i], Recorded')
  <2>1. HeapMove(i)
    BY DEF StoreEffect
  <2>2. CASE heap'[i].status = "buffer" /\ heap'[i].duplicateOf = NoItem
    BY <2>2 DEF ObjectSound
  <2>3. CASE ObjectSound(i, heap'[i], Recorded)
    BY <2>3, SoundGrows
  <2> QED
    BY <2>1, <2>2, <2>3 DEF HeapMove
<1>2. ASSUME NEW i \in memories' PROVE ObjectSound(i, storeFile'.memories[i], Recorded')
  <2>1. CASE UNCHANGED <<memories, storeFile>>
    BY <2>1, SoundGrows DEF StoreInv
  <2>2. CASE storeFile'.memories = [j \in memories' |-> heap'[j]]
    BY <1>1, <2>2 DEF StoreType
  <2> QED
    BY <2>1, <2>2 DEF StoreEffect
<1>3. StoreInv'
  BY <1>1, <1>2 DEF StoreInv
<1>4. \A i \in Alive : /\ heap'[i].status # "none"
                       /\ heap[i].duplicateOf # NoItem => heap'[i].duplicateOf # NoItem
  BY DEF StoreEffect, HeapMove, Alive
<1>5. Alive \subseteq Alive'
  BY <1>4 DEF Alive
<1>6. memories' \subseteq Alive' /\ learned' \subseteq Alive'
  <2>1. \A i \in memories' : i \in memories \/ heap'[i].status # "none"
    BY DEF StoreEffect
  <2>2. \A i \in learned' : i \in learned \/ heap'[i].status # "none"
    BY DEF StoreEffect
  <2>3. memories' \subseteq Item /\ learned' \subseteq Item
    BY DEF StoreType, HistoryType
  <2> QED
    BY <1>5, <2>1, <2>2, <2>3 DEF AliveInv, Alive
<1>7. AliveInv'
  <2>1. ASSUME NEW i \in memories' PROVE storeFile'.memories[i].status # "none"
    <3>1. CASE UNCHANGED <<memories, storeFile>>
      BY <3>1 DEF AliveInv
    <3>2. CASE storeFile'.memories = [j \in memories' |-> heap'[j]]
      BY <1>6, <3>2 DEF Alive
    <3> QED
      BY <3>1, <3>2 DEF StoreEffect
  <2> QED
    BY <1>6, <2>1 DEF AliveInv
<1>8. ASSUME NEW i \in learned' \ touched'
      PROVE  /\ heap'[i].route = "edit"
             /\ i \in memories' => storeFile'.memories[i].route = "edit"
             /\ i \in memories' \/ heap'[i].duplicateOf # NoItem
  <2>1. CASE i \in learned
    <3>1. i \in learned \ touched /\ i \in Alive /\ i \in Item
      BY <1>8, <2>1 DEF StoreEffect, AliveInv, Alive
    <3>2. heap'[i].route = "edit"
      BY <3>1 DEF StoreEffect, HeapMove, Alive
    <3>3. i \in memories' => storeFile'.memories[i].route = "edit"
      BY <3>1, <3>2 DEF StoreEffect, LearnedInv
    <3>4. i \in memories' \/ heap'[i].duplicateOf # NoItem
      BY <1>4, <3>1 DEF StoreEffect, LearnedInv
    <3> QED
      BY <3>2, <3>3, <3>4
  <2>2. CASE i \notin learned
    BY <1>8, <2>2 DEF StoreEffect
  <2> QED
    BY <2>1, <2>2
<1>9. LearnedInv'
  BY <1>8 DEF LearnedInv
<1> QED
  BY <1>3, <1>4, <1>5, <1>7, <1>9

\* A frame that a step leaves alone stays sound.
LEMMA PassKept ==
  ASSUME TypeInv, IInv, TypeInv', StoreEffect, HostEffect,
         NEW p \in Pass, pass'[p] = pass[p],
         pass[p].at = "promote" =>
            /\ Recorded' = Recorded
            /\ codebook'[pass[p].adapter] = codebook[pass[p].adapter]
  PROVE  PassSound(p)'
<1>1. PassSound(p)
  BY DEF IInv, PassInv
<1>2. \A i \in Alive : /\ i \in Alive'
                       /\ heap[i].duplicateOf # NoItem => heap'[i].duplicateOf # NoItem
  BY StorePartStep
<1>3. \A i : Taught(i, Recorded) => Taught(i, Recorded')
  BY TaughtGrows DEF HostEffect
<1> QED
  BY <1>1, <1>2, <1>3 DEF PassSound, Cur, HoldsItem

LEMMA ClientKept ==
  ASSUME TypeInv, IInv, TypeInv', StoreEffect, HostEffect,
         NEW u \in Client, client'[u] = client[u]
  PROVE  ClientSound(u)'
<1>1. ClientSound(u) /\ Alive \subseteq Alive' /\ touched \subseteq touched'
  BY StorePartStep DEF IInv, ClientInv, StoreEffect
<1> QED
  BY <1>1 DEF ClientSound

LEMMA ChatKept ==
  ASSUME TypeInv, IInv, TypeInv', StoreEffect, HostEffect,
         NEW c \in Chat, chat'[c] = chat[c], lock = c => lock' = c
  PROVE  ChatSound(c)'
<1>1. ChatSound(c) /\ StoreInv' /\ Alive \subseteq Alive'
  BY StorePartStep DEF IInv, ChatInv
<1>2. chat'[c].mine \subseteq learned' /\ touched \subseteq touched'
  BY <1>1 DEF ChatSound, StoreEffect
<1>3. ASSUME chat[c].at = "decode"
      PROVE  /\ chat[c].view = View'
             /\ \A i \in chat[c].mine \ touched' :
                   i \in chat[c].seen \/ TaughtFor(i, Recorded)'
  <2>1. lock # NoThread
    BY <1>1, <1>3, ThreadAssumption DEF ChatSound
  <2>2. View' = View /\ Recorded' = Recorded
    BY <2>1 DEF HostEffect
  <2>3. ASSUME NEW i \in chat[c].mine \ touched' PROVE i \in chat[c].seen \/ TaughtFor(i, Recorded)'
    <3>1. i \in Alive /\ i \in Item /\ (i \in chat[c].seen \/ TaughtFor(i, Recorded))
      BY <1>1, <1>2, <1>3, <2>3 DEF ChatSound, IInv, AliveInv, Alive
    <3>2. heap[i].duplicateOf # NoItem => heap'[i].duplicateOf # NoItem
      BY <3>1, StorePartStep
    <3>3. heap'[i].duplicateOf # NoItem => Taught(heap'[i].duplicateOf, Recorded')
      BY <1>1, <3>1 DEF StoreInv, ObjectSound
    <3> QED
      BY <2>2, <3>1, <3>2, <3>3 DEF TaughtFor
  <2> QED
    BY <1>1, <1>3, <2>2, <2>3 DEF ChatSound
<1> QED
  BY <1>1, <1>2, <1>3 DEF ChatSound

\* A pass action keeps the promises of its own frame.
LEMMA PassActionSound ==
  ASSUME SingleWriter, TypeInv, IInv, TypeInv', StoreEffect, HostEffect,
         NEW p \in Pass, BeginPass(p) \/ PassStep(p)
  PROVE  PassSound(p)'
<1>1. PassSound(p) /\ PassType /\ pass \in [Pass -> PassFrame]
  BY DEF IInv, PassInv, TypeInv, PassType
<1>2. /\ StoreInv' /\ Alive \subseteq Alive'
      /\ \A i \in Alive : heap[i].duplicateOf # NoItem => heap'[i].duplicateOf # NoItem
  BY StorePartStep
<1>3. \A i : Taught(i, Recorded) => Taught(i, Recorded')
  BY TaughtGrows DEF HostEffect
<1>4. ASSUME NEW f, Becomes(p, f) PROVE pass'[p] = f
  BY <1>1, <1>4 DEF Becomes
<1>5. ASSUME NEW reg \in SUBSET Item, ItemDone(p, reg),
             \A i \in reg : Taught(i, Recorded)
      PROVE  PassSound(p)'
  <2>1. /\ pass'[p].at = "next" /\ pass'[p].registry = reg /\ pass'[p].olds = {}
        /\ pass'[p].todo \subseteq pass[p].todo
    BY ZenonT(40), <1>4, <1>5 DEF ItemDone, Idle
  <2> QED
    BY <1>1, <1>2, <1>3, <1>5, <2>1 DEF PassSound, HoldsItem
<1>6. CASE EndPass(p) \/ ClassifyRaises(p)
  <2>1. pass'[p] = PassOver(p)
    BY <1>4, <1>6 DEF EndPass, ClassifyRaises
  <2> QED
    BY <2>1 DEF PassSound, PassOver, Idle, HoldsItem
<1>7. CASE BeginPass(p)
  <2>1. PICK ids : pass'[p] = [pass[p] EXCEPT !.at = "registry",
                                    !.todo = LoadUnconsolidated \intersect ids]
    BY <1>4, <1>7 DEF BeginPass
  <2>2. /\ pass'[p].at = "registry" /\ pass'[p].registry = pass[p].registry
        /\ pass'[p].olds = pass[p].olds /\ pass'[p].todo \subseteq LoadUnconsolidated
    BY <1>1, <2>1 DEF PassFrame
  <2>3. LoadUnconsolidated \subseteq Alive
    BY DEF LoadUnconsolidated, ByStatus, IInv, AliveInv
  <2> QED
    BY <1>1, <1>2, <1>3, <2>2, <2>3 DEF PassSound, HoldsItem
<1>8. CASE ReadRegistry(p)
  <2>1. /\ pass'[p].at = "next" /\ pass'[p].registry = ConsolidatedEdits
        /\ pass'[p].olds = pass[p].olds /\ pass'[p].todo = pass[p].todo
    BY <1>1, <1>4, <1>8 DEF ReadRegistry, PassFrame
  <2>2. \A i \in ConsolidatedEdits : Taught(i, Recorded)
    BY DEF ConsolidatedEdits, ByStatus, IInv, StoreInv, ObjectSound, TypeInv, StoreType
  <2> QED
    BY <1>1, <1>2, <1>3, <2>1, <2>2 DEF PassSound, HoldsItem
<1>9. ASSUME NEW i \in Item, ClassifyNew(p, i) \/ ClassifySupersede(p, i)
      PROVE  PassSound(p)'
  <2>1. /\ i \in pass[p].todo
        /\ pass'[p].at = "edit" /\ pass'[p].cur = i /\ pass'[p].todo = pass[p].todo
        /\ pass'[p].registry = pass[p].registry
        /\ pass'[p].olds \subseteq pass[p].olds \union pass[p].registry
    <3>1. CASE ClassifyNew(p, i)
      BY <1>1, <1>4, <3>1 DEF ClassifyNew, PassFrame
    <3>2. CASE ClassifySupersede(p, i)
      <4>1. PICK targets \in SUBSET pass[p].registry \ {{}} :
              pass'[p] = [pass[p] EXCEPT !.at = "edit", !.cur = i,
                                         !.olds = targets \intersect memories,
                                         !.edit = heap[i].edit]
        BY <1>4, <3>2 DEF ClassifySupersede
      <4> QED
        BY <1>1, <3>2, <4>1 DEF ClassifySupersede, PassFrame
    <3> QED
      BY <1>9, <3>1, <3>2
  <2> QED
    BY <1>1, <1>2, <1>3, <2>1 DEF PassSound, HoldsItem, Cur
<1>10. ASSUME NEW i \in Item, ClassifyDuplicate(p, i) PROVE PassSound(p)'
  <2>1. /\ i \in pass[p].todo
        /\ pass'[p].at = "drain" /\ pass'[p].cur = i /\ pass'[p].todo = pass[p].todo
        /\ pass'[p].registry = pass[p].registry /\ pass'[p].olds = pass[p].olds
    <3>1. /\ i \in pass[p].todo
          /\ pass'[p] = [pass[p] EXCEPT !.at = "drain", !.cur = i]
      BY <1>4, <1>10 DEF ClassifyDuplicate
    <3> QED
      BY <1>1, <3>1 DEF PassFrame
  <2>2. heap'[i].duplicateOf # NoItem
    <3>1. PICK target \in pass[p].registry : heap' = [heap EXCEPT ![i].duplicateOf = target]
      BY <1>10 DEF ClassifyDuplicate
    <3>2. target \in Item /\ heap[i] \in MemoryItem
      BY <1>1, PassFieldTypes DEF TypeInv, StoreType
    <3> QED
      BY <3>1, <3>2, NoItemAssumption DEF TypeInv, StoreType, MemoryItem
  <2> QED
    BY <1>1, <1>2, <1>3, <2>1, <2>2 DEF PassSound, HoldsItem, Cur
<1>11. CASE DrainCheck(p)
  <2>1. CASE GoTo(p, "delete")
    <3>1. pass'[p] = [pass[p] EXCEPT !.at = "delete"] /\ pass[p].at = "drain"
      BY <1>4, <1>11, <2>1 DEF GoTo, DrainCheck, At
    <3>2. /\ pass'[p].at = "delete" /\ pass'[p].cur = pass[p].cur
          /\ pass'[p].todo = pass[p].todo /\ pass'[p].olds = pass[p].olds
          /\ pass'[p].registry = pass[p].registry
      BY <1>1, <3>1 DEF PassFrame
    <3> QED
      BY <1>1, <1>2, <1>3, <3>1, <3>2 DEF PassSound, HoldsItem, Cur
  <2>2. CASE ItemDone(p, pass[p].registry)
    BY <1>1, <1>5, <2>2, PassFieldTypes DEF PassSound
  <2> QED
    BY <1>11, <2>1, <2>2 DEF DrainCheck
<1>12. CASE DrainDelete(p)
  BY <1>1, <1>5, <1>12, PassFieldTypes DEF DrainDelete, PassSound
<1>13. CASE EditFails(p)
  <2>1. CASE pass[p].tries < EditRetries
    <3>1. /\ pass'[p] = [pass[p] EXCEPT !.at = "edit", !.adapter = NoAdapter,
                                         !.tries = @ + 1]
          /\ pass[p].at \in {"edit", "install", "train", "tune", "keys"}
      BY <1>4, <1>13, <2>1 DEF EditFails
    <3>2. /\ pass'[p].at = "edit" /\ pass'[p].cur = pass[p].cur
          /\ pass'[p].todo = pass[p].todo /\ pass'[p].olds = pass[p].olds
          /\ pass'[p].registry = pass[p].registry
      BY <1>1, <3>1 DEF PassFrame
    <3> QED
      BY <1>1, <1>2, <1>3, <3>1, <3>2 DEF PassSound, HoldsItem, Cur
  <2>2. CASE ~(pass[p].tries < EditRetries)
    BY <1>1, <1>5, <1>13, <2>2, PassFieldTypes DEF EditFails, PassSound
  <2> QED
    BY <2>1, <2>2
<1>14. CASE ShadowEdit(p)
  <2>1. PICK a \in Adapter :
          /\ codebook' = [codebook EXCEPT ![a] =
                TrainRow(Rows(slot), Cur(p), pass[p].edit)]
          /\ Becomes(p, [pass[p] EXCEPT !.at = "promote", !.adapter = a])
          /\ Fresh(a)
    BY <1>14 DEF ShadowEdit
  <2>2. /\ pass'[p].at = "promote" /\ pass'[p].cur = pass[p].cur
        /\ pass'[p].todo = pass[p].todo /\ pass'[p].olds = pass[p].olds
        /\ pass'[p].registry = pass[p].registry /\ pass'[p].adapter = a
    <3>1. pass'[p] = [pass[p] EXCEPT !.at = "promote", !.adapter = a]
      BY <1>4, <2>1
    <3> QED
      BY <1>1, <3>1 DEF PassFrame
  <2>3. codebook'[a] = TrainRow(Recorded, Cur(p), pass[p].edit) /\ AllTrained(Recorded)
    BY <2>1 DEF TypeInv, HostType, IInv, HostInv, Recorded
  <2>4. Recorded' = Recorded
    <3>1. a # recorded /\ recorded' = recorded
      BY <1>14, <2>1 DEF Fresh, ShadowEdit
    <3> QED
      BY <2>1, <3>1 DEF Recorded, Rows, TypeInv, HostType
  <2>5. /\ Recorded' \subseteq codebook'[a] /\ Taught(Cur(p), codebook'[a])
        /\ AllTrained(codebook'[a])
    BY <2>3, <2>4, TrainRowGrows
  <2>6. pass[p].at = "edit"
    BY <1>14 DEF ShadowEdit, At
  <2> QED
    BY <1>1, <1>2, <1>3, <2>2, <2>5, <2>6 DEF PassSound, HoldsItem, Cur
<1>15. CASE Promote(p)
  <2>1. /\ pass'[p] = [pass[p] EXCEPT !.at = "retire", !.adapter = NoAdapter]
        /\ pass[p].at = "promote"
    BY <1>4, <1>15 DEF Promote, At
  <2>2. /\ pass'[p].at = "retire" /\ pass'[p].cur = pass[p].cur
        /\ pass'[p].todo = pass[p].todo /\ pass'[p].olds = pass[p].olds
        /\ pass'[p].registry = pass[p].registry
    BY <1>1, <2>1 DEF PassFrame
  <2>3. Recorded' = codebook[pass[p].adapter]
    <3>1. pass[p].adapter \in Adapter
      BY <1>1, <2>1, PassFieldTypes DEF HoldsAdapter
    <3> QED
      BY <1>15, <3>1, NoAdapterAssumption DEF Promote, PromoteEditModule, Recorded, Rows
  <2> QED
    BY <1>1, <1>2, <1>3, <2>1, <2>2, <2>3 DEF PassSound, HoldsItem, Cur
<1>16. ASSUME NEW old \in Item, RetireOld(p, old) PROVE PassSound(p)'
  <2>1. /\ pass'[p] = [pass[p] EXCEPT !.olds = @ \ {old}]
        /\ pass[p].at = "retire"
    BY <1>4, <1>16 DEF RetireOld, At
  <2>2. /\ pass'[p].at = "retire" /\ pass'[p].cur = pass[p].cur
        /\ pass'[p].todo = pass[p].todo /\ pass'[p].olds \subseteq pass[p].olds
        /\ pass'[p].registry = pass[p].registry
    BY <1>1, <2>1 DEF PassFrame
  <2> QED
    BY <1>1, <1>2, <1>3, <2>1, <2>2 DEF PassSound, HoldsItem, Cur
<1>17. CASE Commit(p)
  <2>1. \A i \in pass[p].registry \union {Cur(p)} : Taught(i, Recorded)
    BY <1>1, <1>17 DEF Commit, At, PassSound
  <2>2. pass[p].registry \union {Cur(p)} \in SUBSET Item
    BY <1>1, <1>17, PassFieldTypes DEF Commit, At, HoldsItem
  <2> QED
    BY <1>5, <1>17, <2>1, <2>2 DEF Commit
<1>18. ~(\/ ReadSlot(p) \/ InstallAdapter(p) \/ AddKey(p) \/ FinishTraining(p)
        \/ AppendChatKeys(p) \/ Register(p))
  BY <1>1 DEF SingleWriter, ReadSlot, InstallAdapter, AddKey, FinishTraining, AppendChatKeys,
     Register, At, PassSound
<1> QED
  BY <1>6, <1>7, <1>8, <1>9, <1>10, <1>11, <1>12, <1>13, <1>14, <1>15, <1>16, <1>17,
     <1>18 DEF PassStep

LEMMA PassPartStep ==
  ASSUME SingleWriter, TypeInv, IInv, TypeInv', NEW p \in Pass,
         PassBegins(p) \/ PassRuns(p)
  PROVE  IInv'
<1>1. StoreEffect /\ HostEffect
  BY PassStoreEffect, PassHostEffect
<1>2. /\ BeginPass(p) \/ PassStep(p)
      /\ chat' = chat /\ client' = client
  BY DEF PassBegins, PassRuns
<1>3. PassInv'
  <2>1. \A q \in Pass : q = p
    BY DEF SingleWriter, Pass
  <2>2. PassSound(p)'
    BY <1>1, <1>2, PassActionSound
  <2> QED
    BY <2>1, <2>2 DEF PassInv
<1>4. ClientInv'
  BY <1>1, <1>2, ClientKept DEF ClientInv
<1>5. ChatInv'
  <2>1. ASSUME NEW c \in Chat, lock = c PROVE lock' = c
    <3>1. lock # NoThread
      BY <2>1, ThreadAssumption
    <3>2. ~Promote(p)
      BY <3>1 DEF Promote, PromoteEditModule
    <3> QED
      BY <2>1, <3>2, PassHostEffect DEF hostVars, ShadowEdit
  <2> QED
    BY <1>1, <1>2, <2>1, ChatKept DEF ChatInv
<1> QED
  BY <1>1, <1>3, <1>4, <1>5, StorePartStep DEF IInv, HostEffect

LEMMA PassesKept ==
  ASSUME TypeInv, IInv, TypeInv', StoreEffect, HostEffect, pass' = pass,
         UNCHANGED <<recorded, codebook>>
  PROVE  PassInv'
<1>1. Recorded' = Recorded
  BY DEF Recorded, Rows
<1> QED
  BY <1>1, PassKept DEF PassInv

LEMMA ClientPartStep ==
  ASSUME SingleWriter, TypeInv, IInv, TypeInv', NEW u \in Client,
         ClientAsks(u) \/ ClientStep(u)
  PROVE  IInv'
<1>1. /\ StoreEffect /\ HostEffect /\ pass' = pass
      /\ UNCHANGED <<slot, recorded, codebook, codebookFile>>
  BY ClientStoreEffect, OtherHostEffect
<1>2. PassInv'
  BY <1>1, PassesKept
<1>3. ChatInv'
  <2>1. chat' = chat /\ lock' = lock
    BY DEF ClientAsks, ClientStep, AskDrop, AskRoute, AskPatch, BufferDropCheck,
       BufferDropDelete, Reroute, IndexRerouted, PatchUpsert, Plug, Unplug, hostVars
  <2> QED
    BY <1>1, <2>1, ChatKept DEF ChatInv
<1>4. ClientSound(u) /\ client \in [Client -> ClientFrame]
  BY DEF IInv, ClientInv, TypeInv, ClientType
<1>5. ASSUME NEW f, ClientBecomes(u, f), ClientSound(u)' PROVE ClientInv'
  <2>1. \A v \in Client : v # u => client'[v] = client[v]
    BY <1>4, <1>5 DEF ClientBecomes
  <2> QED
    BY <1>1, <1>5, <2>1, ClientKept DEF ClientInv
<1>6. ASSUME NEW f \in ClientFrame, ClientBecomes(u, f),
             f.at \in {"drop", "drop2", "route", "route2", "reroute", "index"}
                => f.cur \in touched',
             f.at = "decompose" => f.cur \in Alive'
      PROVE  ClientInv'
  <2>1. client'[u] = f
    BY <1>4, <1>6 DEF ClientBecomes
  <2> QED
    BY <1>5, <1>6, <2>1 DEF ClientSound
<1>7. client[u] \in ClientFrame /\ touched \subseteq touched'
  BY <1>1, <1>4 DEF StoreEffect
<1>8. ClientDone \in ClientFrame /\ ClientDone.at = "done"
  BY ClientDoneType
<1>9. ASSUME NEW i \in Item, AskDrop(u, i) \/ AskRoute(u, i) PROVE ClientInv'
  <2>1. PICK at \in {"drop", "route"} : ClientBecomes(u, [at |-> at, cur |-> i])
    BY <1>9 DEF AskDrop, AskRoute, Ask
  <2> DEFINE f == [at |-> at, cur |-> i]
  <2>2. f \in ClientFrame /\ f.at \in {"drop", "route"} /\ f.cur = i /\ i \in touched'
    BY <1>9 DEF ClientFrame, AskDrop, AskRoute
  <2>3. ClientBecomes(u, f)
    BY <2>1
  <2> HIDE DEF f
  <2> QED
    BY <1>6, <2>2, <2>3
<1>10. ASSUME NEW i \in Item, AskPatch(u, i) PROVE ClientInv'
  <2> DEFINE f == [at |-> "decompose", cur |-> i]
  <2>1. f \in ClientFrame /\ f.at = "decompose" /\ f.cur = i
    BY DEF ClientFrame
  <2>2. i \in Alive'
    <3>1. i \in Alive
      BY <1>10 DEF AskPatch, Ask, InBuffer, LoadUnconsolidated, ByStatus, Alive
    <3> QED
      BY <1>1, <3>1, StorePartStep
  <2>3. ClientBecomes(u, f)
    BY <1>10 DEF AskPatch, Ask
  <2> HIDE DEF f
  <2> QED
    BY <1>6, <2>1, <2>2, <2>3
<1>11. ASSUME BufferDropCheck(u) \/ BufferDropDelete(u) \/ Reroute(u) PROVE ClientInv'
  <2>1. client[u].cur \in touched' /\ client[u].cur \in Item
    BY <1>4, <1>7, <1>11 DEF BufferDropCheck, BufferDropDelete, Reroute, ClientSound,
       TypeInv, ClientType
  <2>2. PICK f \in ClientFrame :
          /\ ClientBecomes(u, f)
          /\ f.cur = client[u].cur \/ f.at = "done"
          /\ f.at # "decompose"
    <3>1. CASE ClientBecomes(u, AfterDrop(u))
      <4>1. /\ AfterDrop(u) \in ClientFrame
            /\ AfterDrop(u).cur = client[u].cur \/ AfterDrop(u).at = "done"
            /\ AfterDrop(u).at # "decompose"
        BY <1>7, <1>8 DEF AfterDrop, ClientFrame
      <4> QED
        BY <3>1, <4>1
    <3>2. CASE BufferDropCheck(u) /\ InBuffer(client[u].cur)
      <4> DEFINE f == [client[u] EXCEPT !.at = IF @ = "drop" THEN "drop2" ELSE "route2"]
      <4>1. /\ f \in ClientFrame /\ f.cur = client[u].cur /\ f.at # "decompose"
            /\ ClientBecomes(u, f)
        BY <1>7, <3>2 DEF ClientFrame, BufferDropCheck
      <4> HIDE DEF f
      <4> QED
        BY <4>1
    <3>3. CASE Reroute(u)
      <4> DEFINE f == [client[u] EXCEPT !.at = "index"]
      <4>1. /\ f \in ClientFrame /\ f.cur = client[u].cur /\ f.at # "decompose"
            /\ ClientBecomes(u, f)
        BY <1>7, <3>3 DEF ClientFrame, Reroute
      <4> HIDE DEF f
      <4> QED
        BY <4>1
    <3> QED
      BY <1>11, <3>1, <3>2, <3>3 DEF BufferDropCheck, BufferDropDelete
  <2>3. f.at = "done" \/ f.cur \in touched'
    BY <2>1, <2>2
  <2>4. /\ f.at \in {"drop", "drop2", "route", "route2", "reroute", "index"}
              => f.cur \in touched'
        /\ f.at = "decompose" => f.cur \in Alive'
    BY <2>2, <2>3
  <2> QED
    BY <1>6, <2>2, <2>4
<1>12. ASSUME IndexRerouted(u) \/ PatchUpsert(u) \/ Plug(u) \/ Unplug(u) PROVE ClientInv'
  <2>1. ClientBecomes(u, ClientDone)
    BY <1>12 DEF IndexRerouted, PatchUpsert, Plug, Unplug
  <2>2. client'[u].at = "done"
    BY <1>4, <1>8, <2>1 DEF ClientBecomes
  <2>3. ClientSound(u)'
    BY <2>2 DEF ClientSound
  <2> QED
    BY <1>5, <2>1, <2>3
<1>13. ClientInv'
  BY <1>9, <1>10, <1>11, <1>12 DEF ClientAsks, ClientStep
<1> QED
  BY <1>1, <1>2, <1>3, <1>13, StorePartStep DEF IInv, HostEffect

LEMMA ChatPartStep ==
  ASSUME SingleWriter, TypeInv, IInv, TypeInv', NEW c \in Chat,
         Extract(c) \/ ChatStep(c)
  PROVE  IInv'
<1>1. /\ StoreEffect /\ HostEffect /\ pass' = pass
      /\ UNCHANGED <<slot, recorded, codebook, codebookFile>>
  BY ChatStoreEffect, OtherHostEffect
<1>2. PassInv'
  BY <1>1, PassesKept
<1>3. ClientInv'
  <2>1. client' = client
    BY DEF ChatStep, Extract, Append, Annotate, PinReference, IndexReference,
       EmbeddingFails, StartSession, Prompt, Reply
  <2> QED
    BY <1>1, <2>1, ClientKept DEF ClientInv
<1>4. ChatSound(c) /\ chat \in [Chat -> ChatFrame] /\ Alive \subseteq Alive'
  BY <1>1, StorePartStep DEF IInv, ChatInv, TypeInv, ChatType
<1>5. learned \subseteq learned'
  BY <1>1 DEF StoreEffect
<1>6. ASSUME NEW f \in ChatFrame, ChatBecomes(c, f), ChatSound(c)',
             \/ lock' = lock
             \/ lock = NoThread
             \/ lock = c
      PROVE  ChatInv'
  <2>1. ASSUME NEW d \in Chat, d # c PROVE ChatSound(d)'
    <3>1. chat'[d] = chat[d]
      BY <1>4, <1>6, <2>1 DEF ChatBecomes
    <3>2. lock = d => lock' = d
      BY <1>6, <2>1, ThreadAssumption
    <3> QED
      BY <1>1, <3>1, <3>2, ChatKept
  <2> QED
    BY <1>6, <2>1 DEF ChatInv
<1>7. ASSUME NEW f \in ChatFrame, ChatBecomes(c, f),
             f.todo \subseteq Alive', f.at = "preview" => f.cur \in Alive',
             f.mine \subseteq learned', f.at \notin {"start", "plan", "decode"},
             lock' = lock \/ lock = c
      PROVE  ChatInv'
  <2>1. chat'[c] = f
    BY <1>4, <1>7 DEF ChatBecomes
  <2> QED
    BY <1>6, <1>7, <2>1 DEF ChatSound
<1>8. ASSUME Extract(c) PROVE ChatInv'
  <2>1. PICK new \in SUBSET {i \in Item : heap[i].status = "none"},
             edits \in SUBSET Item :
          /\ heap' = [i \in Item |-> IF i \in new
                THEN [Unborn EXCEPT !.status = "buffer",
                                    !.route = IF i \in edits THEN "edit" ELSE "rag"]
                ELSE heap[i]]
          /\ ChatBecomes(c, [chat[c] EXCEPT !.at = "ingest", !.todo = new])
    BY <1>8 DEF Extract
  <2> DEFINE f == [chat[c] EXCEPT !.at = "ingest", !.todo = new]
  <2>2. f \in ChatFrame /\ f.at = "ingest" /\ f.todo = new /\ f.mine = chat[c].mine
    BY <1>4 DEF ChatFrame
  <2>3. new \subseteq Alive'
    BY <2>1 DEF Alive, Unborn
  <2>4. ChatBecomes(c, f) /\ lock' = lock
    BY <1>8, <2>1 DEF Extract, hostVars
  <2> HIDE DEF f
  <2>5. f.todo \subseteq Alive' /\ f.mine \subseteq learned'
    BY <1>4, <1>5, <2>2, <2>3 DEF ChatSound
  <2> QED
    BY <1>7, <2>2, <2>4, <2>5
<1>9. ASSUME NEW i \in Item, Append(c, i) PROVE ChatInv'
  <2> DEFINE f == [chat[c] EXCEPT !.at = "preview", !.cur = i,
                                  !.todo = @ \ {i}, !.mine = @ \union {i}]
  <2>1. /\ f \in ChatFrame /\ f.at = "preview" /\ f.cur = i
        /\ f.todo = chat[c].todo \ {i} /\ f.mine = chat[c].mine \union {i}
    BY <1>4 DEF ChatFrame
  <2>2. /\ ChatBecomes(c, f) /\ lock' = lock /\ learned' = learned \union {i}
        /\ i \in chat[c].todo
    BY <1>9 DEF Append, hostVars
  <2> HIDE DEF f
  <2> QED
    BY <1>4, <1>5, <1>7, <2>1, <2>2 DEF ChatSound
<1>10. ASSUME Annotate(c) \/ IndexReference(c) PROVE ChatInv'
  <2> DEFINE f == [chat[c] EXCEPT !.at = "ingest", !.cur = NoItem]
  <2>1. /\ f \in ChatFrame /\ f.at = "ingest"
        /\ f.todo = chat[c].todo /\ f.mine = chat[c].mine
    BY <1>4 DEF ChatFrame
  <2>2. ChatBecomes(c, f) /\ lock' = lock
    BY <1>10 DEF Annotate, IndexReference, hostVars
  <2> HIDE DEF f
  <2>3. f.todo \subseteq Alive' /\ f.mine \subseteq learned'
    BY <1>4, <1>5, <2>1 DEF ChatSound
  <2> QED
    BY <1>7, <2>1, <2>2, <2>3
<1>11. ASSUME NEW i \in Item, PinReference(c, i) PROVE ChatInv'
  <2> DEFINE f == [chat[c] EXCEPT !.at = "index", !.cur = i, !.todo = @ \ {i}]
  <2>1. /\ f \in ChatFrame /\ f.at = "index"
        /\ f.todo = chat[c].todo \ {i} /\ f.mine = chat[c].mine
    BY <1>4 DEF ChatFrame
  <2>2. ChatBecomes(c, f) /\ lock' = lock
    BY <1>11 DEF PinReference, hostVars
  <2> HIDE DEF f
  <2>3. f.todo \subseteq Alive' /\ f.mine \subseteq learned'
    BY <1>4, <1>5, <2>1 DEF ChatSound
  <2> QED
    BY <1>7, <2>1, <2>2, <2>3
<1>12. ASSUME EmbeddingFails(c) \/ Reply(c) PROVE ChatInv'
  <2>1. /\ ChatBecomes(c, ChatDone) /\ ChatDone \in ChatFrame
        /\ lock' = lock \/ lock = c
    BY <1>12, ChatDoneType DEF EmbeddingFails, Reply, LeaveSession, hostVars
  <2> QED
    BY <1>7, <2>1 DEF ChatDone, NewChat
<1>13. ASSUME StartSession(c) PROVE ChatInv'
  <2> DEFINE f == [chat[c] EXCEPT !.at = "plan"]
  <2>1. /\ f \in ChatFrame /\ f.at = "plan" /\ f.todo = chat[c].todo
        /\ f.mine = chat[c].mine
    BY <1>4 DEF ChatFrame
  <2>2. ChatBecomes(c, f) /\ lock = NoThread /\ lock' = c
    BY <1>13 DEF StartSession, EnterSession
  <2>3. ChatSound(c)'
    <3>1. chat'[c] = f
      BY <1>4, <2>2 DEF ChatBecomes
    <3> HIDE DEF f
    <3>2. /\ chat'[c].at = "plan" /\ chat'[c].todo \subseteq Alive'
          /\ chat'[c].mine \subseteq learned'
      BY <1>4, <1>5, <2>1, <3>1 DEF ChatSound
    <3> QED
      BY <2>2, <3>2 DEF ChatSound
  <2> HIDE DEF f
  <2> QED
    BY <1>6, <2>1, <2>2, <2>3
<1>14. ASSUME Prompt(c) PROVE ChatInv'
  <2> DEFINE f == [chat[c] EXCEPT !.at = "decode", !.seen = LoadUnconsolidated,
                                  !.view = View]
  <2>0. chat' = [chat EXCEPT ![c] = f] /\ chat'[c] = f
    BY <1>4, <1>14 DEF Prompt, ChatBecomes
  <2>1. /\ f.at = "decode" /\ f.todo = chat[c].todo /\ f.mine = chat[c].mine
        /\ f.seen = LoadUnconsolidated /\ f.view = View
    BY <1>4 DEF ChatFrame
  <2>2. f \in ChatFrame
    <3>1. chat'[c] \in ChatFrame
      BY DEF TypeInv, ChatType
    <3> QED
      BY <2>0, <3>1
  <2>3. /\ ChatBecomes(c, f) /\ lock = c
        /\ UNCHANGED <<heap, touched, learned, lock>> /\ View' = View /\ Recorded' = Recorded
    BY <1>4, <1>14 DEF Prompt, storeVars, hostVars, ChatSound, View, Recorded, Rows
  <2>4. \A i \in chat[c].mine \ touched : i \in LoadUnconsolidated \/ TaughtFor(i, Recorded)
    BY <1>4, NoVacuumFromIInv DEF ChatSound, InBuffer
  <2>5. ChatSound(c)'
    <3> HIDE DEF f
    <3>1. /\ chat'[c].at = "decode" /\ chat'[c].todo \subseteq Alive'
          /\ chat'[c].mine \subseteq learned' /\ lock' = c /\ chat'[c].view = View'
      BY <1>4, <1>5, <2>0, <2>1, <2>3 DEF ChatSound
    <3>2. \A i \in chat'[c].mine \ touched' :
             i \in chat'[c].seen \/ TaughtFor(i, Recorded)'
      BY <2>0, <2>1, <2>3, <2>4 DEF TaughtFor
    <3> QED
      BY <3>1, <3>2 DEF ChatSound
  <2> HIDE DEF f
  <2> QED
    BY <1>6, <2>2, <2>3, <2>5
<1>15. ChatInv'
  BY <1>8, <1>9, <1>10, <1>11, <1>12, <1>13, <1>14 DEF ChatStep
<1> QED
  BY <1>1, <1>2, <1>3, <1>15, StorePartStep DEF IInv, HostEffect

\* A restart reads back a sound table and all recorded rows.
LEMMA RestartSound ==
  ASSUME SingleWriter, TypeInv, IInv, TypeInv', Restart
  PROVE  IInv'
<1> USE DEF TypeInv, IInv, Restart
<1>1. /\ memories' = memories /\ storeFile' = storeFile
      /\ \A i \in Item : heap'[i] = IF i \in memories THEN storeFile.memories[i] ELSE heap[i]
  BY DEF LoadStore, StoreType
<1>2. HostInv' /\ Recorded' = Recorded
  <2>1. CASE codebookFile = {}
    BY <2>1 DEF LoadCodebook, LoadBase, HostInv, Recorded, Rows
  <2>2. CASE codebookFile # {}
    <3>1. PICK a \in Adapter :
            /\ slot' = a /\ recorded' = a /\ codebookFile' = codebookFile
            /\ codebook' = [b \in Adapter |-> IF b = a THEN codebookFile ELSE {}]
      BY <2>2 DEF LoadCodebook, LoadBase, SingleWriter
    <3> QED
      BY <3>1, NoAdapterAssumption DEF HostInv, Recorded, Rows
  <2> QED
    BY <2>1, <2>2
<1>3. StoreInv'
  BY <1>1, <1>2 DEF StoreInv, StoreType
<1>4. AliveInv'
  BY <1>1 DEF AliveInv, Alive, StoreType
<1>5. LearnedInv'
  BY <1>1 DEF LearnedInv, AliveInv, Alive
<1>6. PassInv'
  BY DEF PassInv, PassSound, Idle, HoldsItem
<1>7. ClientInv'
  BY DEF ClientInv, ClientSound, ClientDone
<1>8. ChatInv'
  <2>1. ASSUME NEW c \in Chat PROVE ChatSound(c)'
    <3>1. CASE chat[c].at = "start"
      <4>1. chat'[c] = NewChat
        BY <3>1 DEF ChatInv, ChatSound
      <4> QED
        BY <4>1 DEF ChatSound, NewChat
    <3>2. CASE chat[c].at # "start"
      <4>1. chat'[c] = ChatDone
        BY <3>2
      <4> QED
        BY <4>1 DEF ChatSound, ChatDone, NewChat
    <3> QED
      BY <3>1, <3>2
  <2> QED
    BY <2>1 DEF ChatInv
<1> QED
  BY <1>2, <1>3, <1>4, <1>5, <1>6, <1>7, <1>8

LEMMA IInvStep ==
  ASSUME SingleWriter
  PROVE  TypeInv /\ IInv /\ [Next]_vars => IInv'
<1> SUFFICES ASSUME TypeInv, IInv, [Next]_vars PROVE IInv'
  OBVIOUS
<1>1. TypeInv'
  BY TypeInvStep
<1>2. ASSUME NEW p \in Pass, PassBegins(p) \/ PassRuns(p) PROVE IInv'
  BY <1>1, <1>2, PassPartStep
<1>3. ASSUME NEW c \in Chat, Extract(c) \/ ChatStep(c) PROVE IInv'
  BY <1>1, <1>3, ChatPartStep
<1>4. ASSUME NEW u \in Client, ClientAsks(u) \/ ClientStep(u) PROVE IInv'
  BY <1>1, <1>4, ClientPartStep
<1>5. CASE Restart
  BY <1>1, <1>5, RestartSound
<1>6. CASE UNCHANGED vars
  <2>1. StoreEffect /\ HostEffect
    BY <1>6, StoreKept, HostKept DEF IInv, vars, storeVars, hostVars
  <2>2. PassInv' /\ ClientInv' /\ ChatInv'
    BY <1>1, <1>6, <2>1, PassesKept, ClientKept, ChatKept
       DEF vars, hostVars, ClientInv, ChatInv
  <2> QED
    BY <1>1, <2>1, <2>2, StorePartStep DEF IInv, HostEffect
<1> QED
  BY <1>2, <1>3, <1>4, <1>5, <1>6 DEF Next, Serve

LEMMA IInvariant ==
  ASSUME SingleWriter
  PROVE  Spec => [](TypeInv /\ IInv)
BY InitTypeInv, InitIInv, TypeInvStep, IInvStep, PTL DEF Spec

\* Consolidation leaves no vacuum: at every instant, across failed edits, user
\* requests that race the pass and crashes, what the user stated is in the
\* buffer or in the recorded codebook.
THEOREM NoVacuumHolds ==
  ASSUME SingleWriter
  PROVE  Spec => []NoVacuum
<1>1. TypeInv /\ IInv => NoVacuum
  BY NoVacuumFromIInv DEF NoVacuum, Recorded
<1> QED
  BY <1>1, IInvariant, PTL

\* A memory that is listed as consolidated is in the recorded codebook.
THEOREM ConsolidatedAreTaughtHolds ==
  ASSUME SingleWriter
  PROVE  Spec => []ConsolidatedAreTaught
<1>1. TypeInv /\ IInv => ConsolidatedAreTaught
  BY DEF ConsolidatedAreTaught, ConsolidatedEdits, ByStatus, IInv, StoreInv, ObjectSound,
         TypeInv, StoreType, Recorded
<1> QED
  BY <1>1, IInvariant, PTL

\* A memory is retired only for a successor that is in the recorded codebook.
THEOREM RetiredBySuccessorHolds ==
  ASSUME SingleWriter
  PROVE  Spec => []RetiredBySuccessor
<1>1. TypeInv /\ IInv => RetiredBySuccessor
  BY DEF RetiredBySuccessor, IInv, StoreInv, ObjectSound, TypeInv, StoreType, Recorded
<1> QED
  BY <1>1, IInvariant, PTL

\* One answer is decoded with one adapter and one state of its codebook.
THEOREM AnswerStableHolds ==
  ASSUME SingleWriter
  PROVE  Spec => []AnswerStable
<1>1. IInv => AnswerStable
  BY DEF AnswerStable, IInv, ChatInv, ChatSound
<1> QED
  BY <1>1, IInvariant, PTL

\* A chat request answers with what it has just been told.
THEOREM ReadYourWritesHolds ==
  ASSUME SingleWriter
  PROVE  Spec => []ReadYourWrites
<1>1. IInv => ReadYourWrites
  BY DEF ReadYourWrites, IInv, HostInv, ChatInv, ChatSound, View, Recorded
<1> QED
  BY <1>1, IInvariant, PTL

====
