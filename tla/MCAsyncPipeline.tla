-------------------------- MODULE MCAsyncPipeline --------------------------
(* Small instances of AsyncPipeline for TLC. *)
EXTENDS AsyncPipeline, TLC

CONSTANTS t1, t2, d1, d2, d3, f1, f2, f3, r1

(* A turn parses to one fact or to two, of which f2 has a relation tuple and *)
(* f3 is too short to be stored.                                            *)
OneTurnParses == t1 :> {<<f1, f2>>, <<f2>>, <<f3, f1>>}
SingleFactParses == t1 :> {<<f2>>}
DistinctContents == [m \in Items |-> m]
NoParses == [m \in {} |-> {}]
FactTuples == f1 :> None @@ f2 :> r1 @@ f3 :> None

WorkerSymmetry == Permutations(Workers) \cup Permutations(Derived)

=============================================================================
