---- MODULE Files ----
(* memory/persistence.py: how every store of the server writes its file.  The *)
(* i-th write writes the version i; a disk holds the file and the temporary   *)
(* files, which are named for the write that made them.                       *)
EXTENDS Sequencing

Whole(v)   == [version |-> v, whole |-> TRUE]
Partial(v) == [version |-> v, whole |-> FALSE]
Absent     == Whole(0)

EmptyDisk == [file |-> Absent, tmps |-> {}]

\* A write returns, or a step of it raises, or the process dies before a step.
\* Nothing remains of a step that raises but of json.dump, which may have written
\* a part.
WriteSteps == <<"mkdir", "open", "dump", "replace", "unlink">>

Fate == {[kind |-> "returns", at |-> 6]}
    \union {[kind |-> "raises", at |-> n] : n \in 1 .. 4}
    \union {[kind |-> "dies", at |-> n] : n \in 1 .. 5}

Contents(disk, v) == {t \in disk.tmps : t.version = v}

\* Mutant: the file itself is opened and written.
WriteStepInPlace(disk, step, v) ==
    IF step = "open" THEN [disk EXCEPT !.file = Partial(v)]
    ELSE IF step = "dump" THEN [disk EXCEPT !.file = Whole(v)]
    ELSE disk

WriteStep(disk, step, v) ==
    CASE step = "open"    -> [disk EXCEPT !.tmps = @ \union {Partial(v)}]
      [] step = "dump"    -> [disk EXCEPT !.tmps = (@ \ Contents(disk, v)) \union {Whole(v)}]
      [] step = "replace" -> [file |-> Whole(v), tmps |-> disk.tmps \ Contents(disk, v)]
      [] step = "unlink"  -> [disk EXCEPT !.tmps = @ \ Contents(disk, v)]
      [] OTHER            -> disk

\* atomic_write_json: the steps before the one that fails, and the finally clause
\* unless the process is gone or the try was not entered.
AtomicWriteJson(disk, v, fate) ==
    LET after[n \in 0 .. Len(WriteSteps)] ==
            IF n = 0 THEN disk ELSE WriteStep(after[n - 1], WriteSteps[n], v)
        done == after[fate.at - 1]
    IN  IF fate.kind = "raises" /\ fate.at > 1 THEN WriteStep(done, "unlink", v) ELSE done

\* One write after another; a new process goes on where one died.
Writes(fates) ==
    LET after[v \in 0 .. Len(fates)] ==
            IF v = 0 THEN EmptyDisk ELSE AtomicWriteJson(after[v - 1], v, fates[v])
    IN  after[Len(fates)]

\* load_json: what a start of the server reads.
LoadJson(disk) ==
    IF disk.file.whole /\ disk.file # Absent
    THEN [raises |-> FALSE, version |-> disk.file.version]
    ELSE [raises |-> TRUE, version |-> 0]

====
