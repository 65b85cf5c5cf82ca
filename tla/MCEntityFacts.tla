--------------------------- MODULE MCEntityFacts ---------------------------
(* Small instances of EntityFacts for TLC. *)
EXTENDS EntityFacts, TLC

CONSTANTS m1, m2, m3, single, married

(* Two memories state one value, the third contradicts them. *)
Values == m1 :> single @@ m2 :> married @@ m3 :> single

(* A turn may state one value, two values or, in the graph run, three facts. *)
SmallBatches == {<<m1>>, <<m2>>, <<m3>>, <<m1, m2>>, <<m2, m3>>, <<m3, m1, m2>>}

=============================================================================
