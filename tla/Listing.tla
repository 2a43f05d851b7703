---- MODULE Listing ----
(* GET /memories, and the counts of GET /health, beside everything else that   *)
(* Serving does: three reads of the store, each under the store's lock, and    *)
(* nothing that holds it over all three.                                       *)
EXTENDS Serving

CONSTANT Reader      \* one GET /memories or GET /health request each

VARIABLES
    reader,          \* the frame of each of them
    shown            \* history: what some list had to show ever since it began

listVars == <<vars, reader, shown>>

\* Mutant: the list that memories move to is read before the one they come from.
StatusOrderBackwards == <<"consolidated", "buffer">>

\* The pending memories are read before those in the weights; the references
\* are read last.
StatusOrder == <<"buffer", "consolidated">>

ReaderFrame ==
    [at     : 1 .. 4,           \* the read that comes next; 4 when there is none
     listed : SUBSET Item]      \* what the lists hold so far

ListInit ==
    /\ Init
    /\ reader = [r \in Reader |-> [at |-> 1, listed |-> {}]]
    /\ shown = [r \in Reader |-> {}]

\* What the three lists show: an edit-route memory by its status, a reference
\* whether or not the edit-route table still has its id.
Shown == ByStatus("buffer") \union ByStatus("consolidated") \union rag

Reads(r, list) ==
    reader' = [reader EXCEPT ![r] = [at |-> @.at + 1, listed |-> @.listed \union list]]

ReadStatus(r) ==
    /\ reader[r].at \in DOMAIN StatusOrder
    /\ Reads(r, ByStatus(StatusOrder[reader[r].at]))
    /\ shown' = IF reader[r].at = 1 THEN [shown EXCEPT ![r] = Shown] ELSE shown
    /\ UNCHANGED vars

ReadRag(r) ==
    /\ reader[r].at = 3
    /\ Reads(r, rag)
    /\ UNCHANGED <<vars, shown>>

Reading(r) == reader[r].at \in {2, 3}

\* Everybody else's steps between two reads.
Meanwhile ==
    /\ Serve
    /\ shown' = [r \in Reader |-> IF Reading(r) THEN shown[r] \intersect Shown'
                                                ELSE shown[r]]
    /\ UNCHANGED reader

\* A request in flight when the process dies gets no answer.
CutOff ==
    /\ Restart
    /\ reader' = [r \in Reader |-> IF Reading(r) THEN [at |-> 4, listed |-> {}]
                                                 ELSE reader[r]]
    /\ shown' = [r \in Reader |-> IF Reading(r) THEN {} ELSE shown[r]]

ListNext ==
    \/ \E r \in Reader : ReadStatus(r)
    \/ \E r \in Reader : ReadRag(r)
    \/ Meanwhile
    \/ CutOff

ListSpec == ListInit /\ [][ListNext]_listVars

----
\* A memory that at every instant of the request was pending, in the weights or
\* a reference is in the answer of /memories, and counted by /health, although a
\* pass, a re-route or a re-insertion moves it from one list to another between
\* the reads, or into two of them at once.
NoneMissing ==
    \A r \in Reader : reader[r].at = 4 => shown[r] \subseteq reader[r].listed

====
