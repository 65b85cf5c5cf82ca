---------------------------- MODULE EntityFacts ----------------------------
(***************************************************************************)
(* Facts of one entity under one singleton relation (identity, role,       *)
(* relationship status or place) and the writers that store them and close *)
(* the ones they supersede: storeEntityFacts and                           *)
(* invalidateSupersededEntityFacts (core/memory/entity_facts.go) over the  *)
(* SQLite repository (repository/sqlite/entity_facts.go) or the Neo4j one  *)
(* (repository/neo4j/entity_facts.go).                                     *)
(*                                                                         *)
(* A fact's row is unique per (value, memory), and a memory parsed from a  *)
(* turn states one value, so a row is named by its memory.  Parser workers *)
(* and synchronous callers all write; each repository call is one          *)
(* transaction, and one writer's calls interleave with another's.          *)
(***************************************************************************)
EXTENDS Integers, Sequences

CONSTANTS
    Memories,   \* the memories that state a value of the relation
    ValueOf,    \* [Memories -> Values]
    Writers,    \* callers of storeEntityFacts
    Batches,    \* the lists of facts a caller may store
    Graph,      \* the repository is Neo4j
    ChunkSize   \* rows in one Neo4j transaction

ASSUME BatchesAssumption == Batches \subseteq Seq(Memories)
ASSUME GraphAssumption == Graph \in BOOLEAN
ASSUME ChunkAssumption == ChunkSize \in Nat \ {0}

VARIABLES
    fact,       \* [Memories -> {"none", "active", "closed"}], the rows
    gone,       \* memories that have been deleted
    batch,      \* [Writers -> Seq(Memories)], the facts a writer stores
    stored,     \* [Writers -> Nat], how many of them it has stored
    closing,    \* [Writers -> Nat], for how many it has closed the others
    cut         \* history: facts whose writer failed before closing the others

vars == <<fact, gone, batch, stored, closing, cut>>

Init ==
    /\ fact = [m \in Memories |-> "none"]
    /\ gone = {}
    /\ batch = [w \in Writers |-> <<>>]
    /\ stored = [w \in Writers |-> 0]
    /\ closing = [w \in Writers |-> 0]
    /\ cut = {}

Idle(w) == batch[w] = <<>>

(* storeEntityFacts drops duplicates and returns at once if nothing is left. *)
Begin(w, facts) ==
    /\ Idle(w)
    /\ facts # <<>>
    /\ batch' = [batch EXCEPT ![w] = facts]
    /\ UNCHANGED <<fact, gone, stored, closing, cut>>

(***************************************************************************)
(* StoreBatch: SQLite stores all in one transaction, Neo4j a chunk at a    *)
(* time.  A row that exists keeps its closing columns in SQLite (ON        *)
(* CONFLICT) and has them cleared in Neo4j (MERGE ... SET).                *)
(***************************************************************************)
ChunkEnd(w) ==
    IF Graph /\ stored[w] + ChunkSize < Len(batch[w])
    THEN stored[w] + ChunkSize ELSE Len(batch[w])

Chunk(w) == {batch[w][i] : i \in stored[w] + 1 .. ChunkEnd(w)}

Upserted(m) == IF fact[m] = "closed" /\ ~ Graph THEN "closed" ELSE "active"

(* SQLite refuses a fact whose memory is gone: the writer fails instead. *)
StoreBatch(w) ==
    /\ stored[w] < Len(batch[w])
    /\ Graph \/ Chunk(w) \cap gone = {}
    /\ fact' = [m \in Memories |-> IF m \in Chunk(w) THEN Upserted(m) ELSE fact[m]]
    /\ stored' = [stored EXCEPT ![w] = ChunkEnd(w)]
    /\ UNCHANGED <<gone, batch, closing, cut>>

(* InvalidateEntityRelation: m closes the active facts of other values. *)
MutantSuperseded(n, m) == fact[n] = "closed" /\ ValueOf[n] # ValueOf[m]

Superseded(n, m) == fact[n] = "active" /\ ValueOf[n] # ValueOf[m]

(***************************************************************************)
(* invalidateSupersededEntityFacts: one call for each stored fact in turn. *)
(* The writer returns after the last one.                                  *)
(***************************************************************************)
MutantInvalidateEntityRelation(w) ==
    LET m == batch[w][closing[w] + 1]
        last == closing[w] + 1 = Len(batch[w])
    IN  /\ ~ Idle(w)
        /\ stored[w] = Len(batch[w])
        /\ fact' = [n \in Memories |-> IF Superseded(n, m) THEN "closed" ELSE fact[n]]
        /\ batch' = [batch EXCEPT ![w] = IF last THEN <<>> ELSE batch[w]]
        /\ closing' = [closing EXCEPT ![w] = IF last THEN 0 ELSE closing[w] + 1]
        /\ UNCHANGED <<gone, stored, cut>>

InvalidateEntityRelation(w) ==
    LET m == batch[w][closing[w] + 1]
        last == closing[w] + 1 = Len(batch[w])
    IN  /\ ~ Idle(w)
        /\ stored[w] = Len(batch[w])
        /\ fact' = [n \in Memories |-> IF Superseded(n, m) THEN "closed" ELSE fact[n]]
        /\ batch' = [batch EXCEPT ![w] = IF last THEN <<>> ELSE batch[w]]
        /\ stored' = [stored EXCEPT ![w] = IF last THEN 0 ELSE stored[w]]
        /\ closing' = [closing EXCEPT ![w] = IF last THEN 0 ELSE closing[w] + 1]
        /\ UNCHANGED <<gone, cut>>

(* The facts that w has stored and not yet closed the others for. *)
Pending(w) == {batch[w][i] : i \in closing[w] + 1 .. stored[w]}

(* A call fails, or the writer's process dies: the rest is not done. *)
Fail(w) ==
    /\ ~ Idle(w)
    /\ cut' = cut \cup Pending(w)
    /\ batch' = [batch EXCEPT ![w] = <<>>]
    /\ stored' = [stored EXCEPT ![w] = 0]
    /\ closing' = [closing EXCEPT ![w] = 0]
    /\ UNCHANGED <<fact, gone>>

(* MemoryRepository.Delete: in SQLite the fact's foreign key cascades. *)
DeleteMemory(m) ==
    /\ m \notin gone
    /\ gone' = gone \cup {m}
    /\ fact' = [fact EXCEPT ![m] = IF Graph THEN fact[m] ELSE "none"]
    /\ UNCHANGED <<batch, stored, closing, cut>>

Next ==
    \/ \E w \in Writers :
          \/ \E facts \in Batches : Begin(w, facts)
          \/ StoreBatch(w)
          \/ InvalidateEntityRelation(w)
          \/ Fail(w)
    \/ \E m \in Memories : DeleteMemory(m)

Spec == Init /\ [][Next]_vars

-----------------------------------------------------------------------------
(***************************************************************************)
(* Properties.                                                             *)
(***************************************************************************)

(* The rows and the writers keep their types: a writer closes for facts it *)
(* has stored, of the batch it was given.                                  *)
TypeOK ==
    /\ fact \in [Memories -> {"none", "active", "closed"}]
    /\ gone \subseteq Memories
    /\ batch \in [Writers -> Seq(Memories)]
    /\ stored \in [Writers -> Nat]
    /\ closing \in [Writers -> Nat]
    /\ \A w \in Writers :
          /\ stored[w] <= Len(batch[w])
          /\ closing[w] <= stored[w]
          /\ closing[w] > 0 => closing[w] < Len(batch[w]) /\ stored[w] = Len(batch[w])
    /\ cut \subseteq Memories

(* Some writer still has to close the others for m, or never will. *)
Owed(m) == m \in cut \/ \E w \in Writers : m \in Pending(w)

(***************************************************************************)
(* Two contradictory facts are active together only while the writer of    *)
(* one of them is not done, or after it was cut short: however the calls   *)
(* of writers interleave, completed stores leave at most one active value. *)
(***************************************************************************)
OneActiveValue ==
    \A m, n \in Memories :
        fact[m] = "active" /\ fact[n] = "active" /\ ValueOf[m] # ValueOf[n] =>
            Owed(m) \/ Owed(n)

(***************************************************************************)
(* What singleton invalidation is for: "new contradictory facts should     *)
(* close older active facts", so that the newest stays.  At rest, with no  *)
(* failed writer and no deleted memory, a relation that has facts has one  *)
(* that is active.                                                         *)
(***************************************************************************)
SomeValueActive ==
    /\ \A w \in Writers : Idle(w)
    /\ cut = {} /\ gone = {}
    /\ \E m \in Memories : fact[m] # "none"
    => \E m \in Memories : fact[m] = "active"

=============================================================================
