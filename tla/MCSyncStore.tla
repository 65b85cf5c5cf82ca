---------------------------- MODULE MCSyncStore ----------------------------
(* Small instances of SyncStore for TLC. *)
EXTENDS SyncStore, TLC

CONSTANTS a, b, t1, t2, f1, f2, lives

\* f1 states where somebody lives, f2 states nothing in particular.
Tuples == f1 :> lives @@ f2 :> NoTuple

\* Both turns state f1; a parser may also find f2, or nothing.
FactLists == t1 :> {<<f1, f2>>} @@ t2 :> {<<>>, <<f1>>}
Structured == t1 :> <<f1>> @@ t2 :> <<f1>>

\* The parser with facts only, the parser with raw turns, no parser.
ServerOptions ==
    {[parser |-> p, rawTurn |-> r, batchEmbedder |-> TRUE] :
        <<p, r>> \in {<<TRUE, FALSE>>, <<TRUE, TRUE>>, <<FALSE, FALSE>>}}

Raw(tenant, turn) == [tenant |-> tenant, turn |-> turn, raw |-> TRUE]
Plain(tenant, turn) == [tenant |-> tenant, turn |-> turn, raw |-> FALSE]

\* One turn; two turns with the same fact; a mixed batch of two tenants.
Requests == {<<Raw(a, t1)>>, <<Raw(a, t2), Raw(a, t1)>>, <<Raw(b, t2), Plain(a, t1)>>}

ClientSymmetry == Permutations(Clients)

===========================================================================
