---- MODULE MCServing ----
(* Instances of Serving for TLC.                                             *)
EXTENDS Serving, TLC

\* Ids, adapter objects and requests of one kind are interchangeable.
Symmetry ==
    Permutations(Item) \union Permutations(Adapter) \union Permutations(Chat)

====
