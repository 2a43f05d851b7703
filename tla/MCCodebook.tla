---- MODULE MCCodebook ----
(* An instance of Codebook for TLC: two memories about one stem, of which the *)
(* first also has that stem's noun as a canonical prompt, and a memory whose  *)
(* stem is this noun and whose label is equal to that of the first.  Scores   *)
(* are ordered like the means of docs/v0.3-planB-chat-keying-report.md:137-149: *)
(* a text against itself (1.000), a near text pooled in the same way (0.913), *)
(* the same text pooled in another way (0.892), and below the threshold of    *)
(* 0.85 a near text pooled in another way (0.820) and everything else.        *)
EXTENDS Codebook, TLC

CONSTANTS m1, m2, m3, full

Of(f) == [m \in Memory |-> f[m]]

MCStem == Of(m1 :> "best player" @@ m2 :> "best player" @@ m3 :> "player")
MCKeyPrompts == Of(m1 :> <<"Best player", "player">> @@ m2 :> <<>> @@ m3 :> <<>>)
MCTarget == Of(m1 :> "A" @@ m2 :> "B" @@ m3 :> "C")
MCLabel == Of(m1 :> 1 @@ m2 :> 2 @@ m3 :> 1)

Texts == {"best player", "Best player", "player"}

MCLowered == [t \in Texts |-> IF t = "Best player" THEN "best player" ELSE t]

Near == {{"best player", "player"}}

MCSimilarity == [k \in KeyOf |-> [q \in KeyOf |->
    IF k = q THEN 6
    ELSE IF k.form = "random" \/ q.form = "random" THEN 0
    ELSE IF k.text = q.text THEN 4
    ELSE IF {k.text, q.text} \notin Near THEN 0
    ELSE IF k.form = q.form /\ k.beside = q.beside THEN 5 ELSE 3]]

MCQuery == {"player"}

====
