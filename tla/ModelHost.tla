---- MODULE ModelHost ----
(* The resident model of serving/model_host.py: the slot inside the frozen    *)
(* base model that holds either the original Linear or an adapter, the       *)
(* recorded adapter, the lock of an inference session, and codebook.pt.      *)
(* What a codebook row is belongs to the module that edits.                   *)
CONSTANTS
    Adapter,       \* HopfieldAdapter objects
    NoAdapter,     \* in the slot: the original Linear; recorded: None
    NoThread,      \* the free inference lock
    CheckpointMayFail  \* may torch.save, os.replace or torch.load fail?

ASSUME NoAdapterAssumption == NoAdapter \notin Adapter
ASSUME CheckpointMayFailAssumption == CheckpointMayFail \in BOOLEAN

VARIABLES
    slot,          \* module at parent.attr
    recorded,      \* _S["adapter"]
    codebook,      \* rows of each adapter
    lock,          \* _S["inference_lock"]
    codebookFile   \* rows of codebook.pt; {} before the first save

hostVars == <<slot, recorded, codebook, lock, codebookFile>>

----

HostInit ==
    /\ slot = NoAdapter
    /\ recorded = NoAdapter
    /\ codebook = [a \in Adapter |-> {}]
    /\ lock = NoThread
    /\ codebookFile = {}

Rows(a) == IF a = NoAdapter THEN {} ELSE codebook[a]

SwapEditModule(a) == slot' = a

\* _save_codebook_if_enabled: a failure is logged and swallowed.
SaveCodebook(a) ==
    \/ codebookFile' = codebook[a]
    \/ CheckpointMayFail /\ UNCHANGED codebookFile

\* Mutant: the codebook is not saved after a promotion.
PromoteUnsaved(a) ==
    /\ lock = NoThread
    /\ SwapEditModule(a)
    /\ recorded' = a
    /\ UNCHANGED <<codebook, lock, codebookFile>>

\* Mutant: the adapter is recorded and saved but never put in the slot.
PromoteUnswapped(a) ==
    /\ lock = NoThread
    /\ recorded' = a
    /\ SaveCodebook(a)
    /\ UNCHANGED <<slot, codebook, lock>>

\* Mutant: the promotion does not wait for the inference lock.
PromoteUnlocked(a) ==
    /\ SwapEditModule(a)
    /\ recorded' = a
    /\ SaveCodebook(a)
    /\ UNCHANGED <<codebook, lock>>

\* with inference_lock: swap, record, save.
PromoteEditModule(a) ==
    /\ lock = NoThread
    /\ SwapEditModule(a)
    /\ recorded' = a
    /\ SaveCodebook(a)
    /\ UNCHANGED <<codebook, lock>>

\* with inference_lock: record, save.  The slot was written long before.
RegisterEditModule(a) ==
    /\ lock = NoThread
    /\ recorded' = a
    /\ SaveCodebook(a)
    /\ UNCHANGED <<slot, codebook, lock>>

EnterSession(t) ==
    /\ lock = NoThread
    /\ lock' = t
    /\ UNCHANGED <<slot, recorded, codebook, codebookFile>>

\* Mutant: the lock is not released at the end of a session.
LeaveLocked(t) ==
    /\ lock = t
    /\ UNCHANGED <<slot, recorded, codebook, lock, codebookFile>>

LeaveSession(t) ==
    /\ lock = t
    /\ lock' = NoThread
    /\ UNCHANGED <<slot, recorded, codebook, codebookFile>>

\* load_base: a new model, with the original Linear in the slot.
LoadBase ==
    /\ slot' = NoAdapter
    /\ recorded' = NoAdapter
    /\ codebook' = [a \in Adapter |-> {}]

\* enable_codebook_persistence after load_base: an adapter is built in the slot,
\* hydrated from the file and recorded.  Without a file, or with one that
\* torch.load refuses (logged and swallowed), the slot keeps the Linear.
LoadCodebook ==
    /\ lock' = NoThread
    /\ UNCHANGED codebookFile
    /\ \/ /\ codebookFile = {} \/ CheckpointMayFail
          /\ LoadBase
       \/ /\ codebookFile # {}
          /\ \E a \in Adapter :
                /\ slot' = a
                /\ recorded' = a
                /\ codebook' = [b \in Adapter |->
                                  IF b = a THEN codebookFile ELSE {}]

====
