---- MODULE MCOaiHarvest ----
(***************************************************************************)
(* Instances of OaiHarvest for TLC: the lists a server may serve.          *)
(***************************************************************************)
EXTENDS OaiHarvest, TLC

CONSTANTS p1, p2, t1, t2

\* From the first page to t1, from there to a, and from t2 to b.
Path(a, b) == (None :> t1) @@ (t1 :> a) @@ (t2 :> b)

\* A list that ends (with an empty last page), a single page, an empty first
\* page with a token, a token that is repeated, and a circle.
Straight == [next |-> Path(t2, None), empty |-> {t2}]
Single == [next |-> (None :> None) @@ (t1 :> None) @@ (t2 :> None), empty |-> {}]
Stuck == [next |-> Path(t2, None), empty |-> {None}]
Repeat == [next |-> Path(t1, None), empty |-> {}]
Circle == [next |-> Path(t2, t1), empty |-> {}]

AllLists == {Straight, Single, Stuck, Repeat, Circle}
TwoLists == {Straight, Circle}
OneList == {Straight}

Symmetry == Permutations({p1, p2})
====
