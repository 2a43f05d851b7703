---- MODULE Consolidate ----
(* The pass that folds the buffer into the weights (memory/consolidate.py)    *)
(* with its two editing backends: serving/shadow_editing.py, used by the      *)
(* background worker, and editing.py, used by the synchronous requests.      *)
EXTENDS Store, ModelHost

CONSTANTS
    Worker,       \* threads of async_editor: passes with shadow_editing
    InPlace,      \* one POST /consolidate or /consolidate/item request each
    EditRetries   \* EDIT_RETRIES

ASSUME EditRetriesAssumption == EditRetries \in Nat
ASSUME PassAssumption == Worker \intersect InPlace = {}

VARIABLE pass     \* the frame of run_pass of each thread

Pass == Worker \union InPlace

\* A row of a codebook: the memory it answers for, the version it teaches, and
\* whether its value was trained or only added by the first forward pass.
Row == [item : Item, edit : Version, trained : BOOLEAN]

RowOf(i, v, t) == [item |-> i, edit |-> v, trained |-> t]

\* A prompt whose key is there gets no second one.
AddRow(rows, i, v) ==
    IF RowOf(i, v, TRUE) \in rows THEN rows ELSE rows \union {RowOf(i, v, FALSE)}

TrainRow(rows, i, v) ==
    (rows \ {RowOf(i, v, FALSE)}) \union {RowOf(i, v, TRUE)}

PassFrame ==
    [at       : {"idle", "registry", "next", "edit", "install", "train", "tune",
                 "keys", "register", "promote", "retire", "drain", "delete", "done"},
     todo     : SUBSET Item,               \* items still to process
     registry : SUBSET Item,
     cur      : Item \union {NoItem},      \* the item being processed
     olds     : SUBSET Item,               \* supersede targets to retire
     edit     : Version,                   \* version captured in the request
     tries    : 0 .. EditRetries,
     adapter  : Adapter \union {NoAdapter}]

Idle(at) ==
    [at |-> at, todo |-> {}, registry |-> {}, cur |-> NoItem, olds |-> {},
     edit |-> 0, tries |-> 0, adapter |-> NoAdapter]

\* The worker waits for its next job; a request is answered once.
PassOver(p) == Idle(IF p \in Worker THEN "idle" ELSE "done")

PassInit == pass = [p \in Pass |-> Idle("idle")]

At(p, where) == pass[p].at = where
Cur(p) == pass[p].cur

Becomes(p, frame) == pass' = [pass EXCEPT ![p] = frame]

GoTo(p, where) == Becomes(p, [pass[p] EXCEPT !.at = where])

\* Back to the loop of run_pass with registry reg.
ItemDone(p, reg) ==
    Becomes(p, [Idle("next") EXCEPT !.todo = pass[p].todo \ {Cur(p)},
                                    !.registry = reg])

\* A new HopfieldAdapter object is none that is still referenced.
Fresh(a) == a \notin {slot, recorded} \union {pass[p].adapter : p \in Pass}

----

\* run_pass: the buffer is read first, the registry after it.  A request names
\* one item or none (ids); the worker's jobs never name any.
BeginPass(p) ==
    /\ At(p, "idle")
    /\ \E ids \in {Item} \union {{i} : i \in IF p \in InPlace THEN Item ELSE {}} :
          Becomes(p, [pass[p] EXCEPT !.at = "registry",
                                     !.todo = LoadUnconsolidated \intersect ids])
    /\ UNCHANGED <<storeVars, hostVars>>

ReadRegistry(p) ==
    /\ At(p, "registry")
    /\ Becomes(p, [pass[p] EXCEPT !.at = "next",
                                  !.registry = ConsolidatedEdits])
    /\ UNCHANGED <<storeVars, hostVars>>

EndPass(p) ==
    /\ At(p, "next")
    /\ pass[p].todo = {}
    /\ Becomes(p, PassOver(p))
    /\ UNCHANGED <<storeVars, hostVars>>

\* dedup.classify is a judgement of embeddings and a language model: any member
\* of the registry may come out as a duplicate, any set of members as
\* superseded.  The request is built right after it.

ClassifyNew(p, i) ==
    /\ At(p, "next")
    /\ i \in pass[p].todo
    /\ Becomes(p, [pass[p] EXCEPT !.at = "edit", !.cur = i,
                                  !.edit = heap[i].edit])
    /\ UNCHANGED <<storeVars, hostVars>>

\* Targets that are no longer in the store are dropped.
ClassifySupersede(p, i) ==
    /\ At(p, "next")
    /\ i \in pass[p].todo
    /\ \E targets \in SUBSET pass[p].registry \ {{}} :
          Becomes(p, [pass[p] EXCEPT !.at = "edit", !.cur = i,
                                     !.olds = targets \intersect memories,
                                     !.edit = heap[i].edit])
    /\ UNCHANGED <<storeVars, hostVars>>

ClassifyDuplicate(p, i) ==
    /\ At(p, "next")
    /\ i \in pass[p].todo
    /\ \E target \in pass[p].registry :
          heap' = [heap EXCEPT ![i].duplicateOf = target]
    /\ Upsert(i, heap')
    /\ Becomes(p, [pass[p] EXCEPT !.at = "drain", !.cur = i])
    /\ UNCHANGED <<rag, hostVars>>

\* The embeddings behind classify may raise, which ends the whole pass.
ClassifyRaises(p) ==
    /\ At(p, "next")
    /\ pass[p].todo # {}
    /\ Becomes(p, PassOver(p))
    /\ UNCHANGED <<storeVars, hostVars>>

\* buffer.drop: the status is read, then the id is deleted.
DrainCheck(p) ==
    /\ At(p, "drain")
    /\ IF InBuffer(Cur(p)) THEN GoTo(p, "delete") ELSE ItemDone(p, pass[p].registry)
    /\ UNCHANGED <<storeVars, hostVars>>

DrainDelete(p) ==
    /\ At(p, "delete")
    /\ Delete(Cur(p))
    /\ ItemDone(p, pass[p].registry)
    /\ UNCHANGED <<heap, rag, hostVars>>

\* Mutant: after the last attempt the pass goes on as if it had succeeded.
EditFailsUnnoticed(p) ==
    /\ pass[p].at \in {"edit", "install", "train", "tune", "keys"}
    /\ IF pass[p].tries < EditRetries
       THEN Becomes(p, [pass[p] EXCEPT !.at = "edit", !.adapter = NoAdapter,
                                       !.tries = @ + 1])
       ELSE Becomes(p, [pass[p] EXCEPT !.at = "retire", !.adapter = NoAdapter])
    /\ UNCHANGED <<storeVars, hostVars>>

\* Mutant: after the last attempt the item is drained like every other one.
EditFailsDrains(p) ==
    /\ pass[p].at \in {"edit", "install", "train", "tune", "keys"}
    /\ IF pass[p].tries < EditRetries
       THEN /\ Becomes(p, [pass[p] EXCEPT !.at = "edit", !.adapter = NoAdapter,
                                          !.tries = @ + 1])
            /\ UNCHANGED <<memories, storeFile>>
       ELSE /\ ItemDone(p, pass[p].registry)
            /\ Delete(Cur(p))
    /\ UNCHANGED <<heap, rag, hostVars>>

\* An attempt raises.  After the last one the item stays where it is.  What an
\* attempt in place did to the live adapter is not undone.
EditFails(p) ==
    /\ pass[p].at \in {"edit", "install", "train", "tune", "keys"}
    /\ IF pass[p].tries < EditRetries
       THEN Becomes(p, [pass[p] EXCEPT !.at = "edit", !.adapter = NoAdapter,
                                       !.tries = @ + 1])
       ELSE ItemDone(p, pass[p].registry)
    /\ UNCHANGED <<storeVars, hostVars>>

----
\* shadow_editing.edit

\* Mutant: training starts from an empty adapter instead of a clone.
ShadowEditFromEmpty(p) ==
    /\ p \in Worker
    /\ At(p, "edit")
    /\ \E a \in Adapter :
          /\ Fresh(a)
          /\ codebook' = [codebook EXCEPT ![a] =
                {RowOf(Cur(p), pass[p].edit, TRUE)}]
          /\ Becomes(p, [pass[p] EXCEPT !.at = "promote", !.adapter = a])
    /\ UNCHANGED <<storeVars, slot, recorded, lock, codebookFile>>

\* The live adapter is cloned, or a new one starts empty when the live slot
\* holds the original Linear; it is trained where nobody else can see it.
ShadowEdit(p) ==
    /\ p \in Worker
    /\ At(p, "edit")
    /\ \E a \in Adapter :
          /\ Fresh(a)
          /\ codebook' = [codebook EXCEPT ![a] =
                TrainRow(Rows(slot), Cur(p), pass[p].edit)]
          /\ Becomes(p, [pass[p] EXCEPT !.at = "promote", !.adapter = a])
    /\ UNCHANGED <<storeVars, slot, recorded, lock, codebookFile>>

Promote(p) ==
    /\ At(p, "promote")
    /\ PromoteEditModule(pass[p].adapter)
    /\ Becomes(p, [pass[p] EXCEPT !.at = "retire", !.adapter = NoAdapter])
    /\ UNCHANGED storeVars

----
\* editing.edit: every step is on the live model and outside its lock.

\* HOREN.__init__ reads the slot and looks at the type of what it found ...
ReadSlot(p) ==
    /\ p \in InPlace
    /\ At(p, "edit")
    /\ GoTo(p, IF slot = NoAdapter THEN "install" ELSE "train")
    /\ UNCHANGED <<storeVars, hostVars>>

\* ... and when it was the original Linear, builds a new adapter around it and puts
\* that in the slot, whatever the slot holds by then.
InstallAdapter(p) ==
    /\ p \in InPlace
    /\ At(p, "install")
    /\ \E a \in Adapter :
          /\ Fresh(a)
          /\ SwapEditModule(a)
          /\ codebook' = [codebook EXCEPT ![a] = {}]
    /\ GoTo(p, "train")
    /\ UNCHANGED <<storeVars, recorded, lock, codebookFile>>

\* The adapter is read from the slot, and its first forward pass adds the key
\* with a value that is not trained yet.  On the original Linear nothing can be
\* trained and the attempt raises (EditFails).
AddKey(p) ==
    /\ At(p, "train")
    /\ slot # NoAdapter
    /\ codebook' = [codebook EXCEPT ![slot] = AddRow(@, Cur(p), pass[p].edit)]
    /\ Becomes(p, [pass[p] EXCEPT !.at = "tune", !.adapter = slot])
    /\ UNCHANGED <<storeVars, slot, recorded, lock, codebookFile>>

\* The optimizer's last step.  The loss is computed through the slot: when it
\* holds another adapter by now, the gradient misses the row; when it holds the
\* original Linear, there is none and the attempt raises.
FinishTraining(p) ==
    /\ At(p, "tune")
    /\ slot # NoAdapter
    /\ codebook' = IF slot = pass[p].adapter
                   THEN [codebook EXCEPT ![slot] =
                            TrainRow(@, Cur(p), pass[p].edit)]
                   ELSE codebook
    /\ GoTo(p, "keys")
    /\ UNCHANGED <<storeVars, slot, recorded, lock, codebookFile>>

\* editing.edit reads the slot again and gives that adapter the chat keys,
\* aliases of the row just trained.  In another adapter the row of that index is
\* not this memory's, or does not exist and the attempt raises.
AppendChatKeys(p) ==
    /\ At(p, "keys")
    /\ slot # NoAdapter
    /\ codebook' = [codebook EXCEPT ![slot] = AddRow(@, Cur(p), pass[p].edit)]
    /\ Becomes(p, [pass[p] EXCEPT !.at = "register", !.adapter = slot])
    /\ UNCHANGED <<storeVars, slot, recorded, lock, codebookFile>>

Register(p) ==
    /\ At(p, "register")
    /\ RegisterEditModule(pass[p].adapter)
    /\ Becomes(p, [pass[p] EXCEPT !.at = "retire", !.adapter = NoAdapter])
    /\ UNCHANGED storeVars

----

\* After the edit: the superseded items first, one save each ...
RetireOld(p, old) ==
    /\ At(p, "retire")
    /\ old \in pass[p].olds
    /\ heap' = [heap EXCEPT ![old].status = "retired",
                            ![old].supersededBy = Cur(p)]
    /\ Upsert(old, heap')
    /\ Becomes(p, [pass[p] EXCEPT !.olds = @ \ {old}])
    /\ UNCHANGED <<rag, hostVars>>

\* ... then the item itself, which joins the registry of this pass.  The final
\* buffer.drop finds it consolidated and deletes nothing.
Commit(p) ==
    /\ At(p, "retire")
    /\ pass[p].olds = {}
    /\ heap' = [heap EXCEPT ![Cur(p)].status = "consolidated"]
    /\ Upsert(Cur(p), heap')
    /\ ItemDone(p, pass[p].registry \union {Cur(p)})
    /\ UNCHANGED <<rag, hostVars>>

PassStep(p) ==
    \/ ReadRegistry(p)
    \/ EndPass(p)
    \/ \E i \in Item : ClassifyNew(p, i)
    \/ \E i \in Item : ClassifySupersede(p, i)
    \/ \E i \in Item : ClassifyDuplicate(p, i)
    \/ ClassifyRaises(p)
    \/ DrainCheck(p)
    \/ DrainDelete(p)
    \/ EditFails(p)
    \/ ShadowEdit(p)
    \/ Promote(p)
    \/ ReadSlot(p)
    \/ InstallAdapter(p)
    \/ AddKey(p)
    \/ FinishTraining(p)
    \/ AppendChatKeys(p)
    \/ Register(p)
    \/ \E old \in Item : RetireOld(p, old)
    \/ Commit(p)

====
