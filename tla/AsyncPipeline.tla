--------------------------- MODULE AsyncPipeline ---------------------------
(***************************************************************************)
(* Asynchronous ingestion from end to end: IngestBatchAsync stores memories *)
(* and queues their jobs (core/memory/ingest_async.go), workers run the    *)
(* vector_upsert and parser_extract handlers                               *)
(* (core/memory/postprocess_worker.go), clients delete memories            *)
(* (core/memory/delete.go).  They share the memory rows, the entity facts, *)
(* the index-state rows and the vector store.                              *)
(*                                                                         *)
(* The queue is the lifecycle that PostprocessQueue is proved to           *)
(* implement: leases, clocks and batches are left to that module.  Each    *)
(* call of a repository or of the vector store is one step; a call that    *)
(* touches no shared state (embedding, parsing, scoring) is part of the    *)
(* step before it.                                                         *)
(***************************************************************************)
EXTENDS Naturals, Sequences

CONSTANTS
    Items,      \* memories that callers ingest
    RawTurns,   \* the items of kind raw_turn, which get a parser job
    Derived,    \* fresh ids for rows that parser jobs create
    Workers,    \* worker goroutines, of any process
    Clients,    \* callers of Delete
    Targets,    \* bound: the memories that clients delete
    Facts,      \* parsed facts: kind, content, triple, extractor and version
    Parses,     \* [RawTurns -> SUBSET Seq(Facts)], what parsing a turn may return
    ContentOf,  \* the text of a turn
    Storable,   \* facts whose content shouldStoreParsedFactContent accepts
    TupleOf,    \* [Facts -> relation tuples], of relations that are not singletons
    None,
    Attempts,   \* max_attempts of every job
    Embedded,   \* the vector store is sqlitevec, not a service
    MaxFaults   \* bound on crashes and lost updates

ASSUME ItemsAssumption == RawTurns \subseteq Items /\ Items \cap Derived = {}
ASSUME ParsesAssumption == Parses \in [RawTurns -> SUBSET Seq(Facts)]
ASSUME AttemptsAssumption == Attempts \in Nat \ {0}
ASSUME EmbeddedAssumption == Embedded \in BOOLEAN
ASSUME FaultsAssumption == MaxFaults \in Nat
VARIABLES
    phase, failures, limit,  \* the queue: see JobLifecycle
    memory,     \* [Memories -> {"absent", "live", "deleted"}], rows of memories
    keyOf,      \* [Derived -> canonical_key]
    parentOf,   \* history: [Derived -> RawTurns], the turn a row was parsed from
    vectors,    \* memories that have an embedding in the vector store
    entity,     \* entity_facts: pairs of a tuple and a memory
    index,      \* memory_index_jobs: [Memories -> [IndexOps -> state]]
    task,       \* [Workers -> Task], the job a worker executes
    request,    \* [Clients -> Request], the Delete call of a client
    faults      \* crashes and lost updates so far

queue == <<phase, failures, limit>>
vars == <<queue, memory, keyOf, parentOf, vectors, entity, index, task, request, faults>>

Memories == Items \cup Derived

VectorJob(m) == <<m, "vector_upsert">>
ParserJob(t) == <<t, "parser_extract">>
Jobs == {VectorJob(m) : m \in Memories} \cup {ParserJob(t) : t \in RawTurns}

ASSUME TargetsAssumption == Targets \subseteq Memories
ASSUME NoneAssumption == None \notin Memories /\ None \notin Jobs

Queue == INSTANCE JobLifecycle WITH Limits <- {Attempts}

(***************************************************************************)
(* buildParsedFactIdentity: the key hashes the turn's text, the position   *)
(* of the fact in the parse and the fact.                                  *)
(***************************************************************************)
CanonicalKey(t, pos, fact) == <<ContentOf[t], pos, fact>>

IndexOps == {"upsert", "delete"}

Idle == [at |-> "idle", job |-> None, facts |-> <<>>, pos |-> 0, made |-> {}, links |-> {}]
NoRequest == [at |-> "idle", target |-> None]

Init ==
    /\ Queue!Init
    /\ memory = [m \in Memories |-> "absent"]
    /\ keyOf = [d \in Derived |-> None]
    /\ parentOf = [d \in Derived |-> None]
    /\ vectors = {}
    /\ entity = {}
    /\ index = [m \in Memories |-> [op \in IndexOps |-> "none"]]
    /\ task = [w \in Workers |-> Idle]
    /\ request = [c \in Clients |-> NoRequest]
    /\ faults = 0

Fault == faults < MaxFaults /\ faults' = faults + 1

-----------------------------------------------------------------------------
(***************************************************************************)
(* StoreBatchAsyncIngest: one transaction inserts the rows, their pending  *)
(* index rows and their jobs.                                              *)
(***************************************************************************)
IngestBatchAsync(S) ==
    /\ S # {}
    /\ \A m \in S : memory[m] = "absent"
    /\ memory' = [m \in Memories |-> IF m \in S THEN "live" ELSE memory[m]]
    /\ index' = [m \in Memories |->
                    IF m \in S THEN [index[m] EXCEPT !["upsert"] = "pending"] ELSE index[m]]
    /\ Queue!Submit({VectorJob(m) : m \in S} \cup {ParserJob(t) : t \in S \cap RawTurns}, Attempts)
    /\ UNCHANGED <<keyOf, parentOf, vectors, entity, task, request, faults>>

(* A worker claims j and begins executePostprocessJob. *)
StartJob(w, j) ==
    /\ task[w].at = "idle"
    /\ Queue!Claim({j})
    /\ task' = [task EXCEPT ![w] = [Idle EXCEPT
                    !.at = IF j[2] = "vector_upsert" THEN "load_vector" ELSE "load_turn",
                    !.job = j]]
    /\ UNCHANGED <<memory, keyOf, parentOf, vectors, entity, index, request, faults>>

(* j is claimed in a batch by a worker that dies before it begins j. *)
AbandonClaim(j) ==
    /\ Queue!Claim({j})
    /\ Fault
    /\ UNCHANGED <<memory, keyOf, parentOf, vectors, entity, index, task, request>>

(* The worker's process dies, or the mark that ends the job is lost. *)
LoseTask(w) ==
    /\ task[w].at # "idle"
    /\ task' = [task EXCEPT ![w] = Idle]
    /\ Fault
    /\ UNCHANGED <<queue, memory, keyOf, parentOf, vectors, entity, index, request>>

Goto(w, at) == task' = [task EXCEPT ![w] = [task[w] EXCEPT !.at = at]]

Target(w) == task[w].job[1]

(* processPostprocessJob: the handler returned, with or without an error. *)
MarkJobSucceeded(w) ==
    /\ task[w].at = "succeed"
    /\ Queue!Succeed(task[w].job)
    /\ task' = [task EXCEPT ![w] = Idle]
    /\ UNCHANGED <<memory, keyOf, parentOf, vectors, entity, index, request, faults>>

MarkJobFailed(w) ==
    /\ task[w].at = "fail"
    /\ Queue!Fail(task[w].job)
    /\ task' = [task EXCEPT ![w] = Idle]
    /\ UNCHANGED <<memory, keyOf, parentOf, vectors, entity, index, request, faults>>

(***************************************************************************)
(* markIndexState: an error of the repository is only logged.              *)
(***************************************************************************)
MarkIndexState(m, op, state) ==
    \/ /\ index' = [index EXCEPT ![m][op] = state]
       /\ UNCHANGED faults
    \/ /\ Fault
       /\ UNCHANGED index

-----------------------------------------------------------------------------
(***************************************************************************)
(* handleVectorUpsertPostprocessJob.                                       *)
(***************************************************************************)

(* GetByIDs, then Embed. *)
LoadMemory(w) ==
    /\ task[w].at = "load_vector"
    /\ IF memory[Target(w)] = "live"
       THEN \E at \in {"mark_pending", "mark_failed"} : Goto(w, at)
       ELSE Goto(w, "succeed")
    /\ UNCHANGED <<queue, memory, keyOf, parentOf, vectors, entity, index, request, faults>>

MarkUpsertPending(w) ==
    /\ task[w].at = "mark_pending"
    /\ MarkIndexState(Target(w), "upsert", "pending")
    /\ Goto(w, "upsert")
    /\ UNCHANGED <<queue, memory, keyOf, parentOf, vectors, entity, request>>

(***************************************************************************)
(* memory_embeddings has a foreign key to memories; a service has none.    *)
(* A service may also apply a call and have its answer lost.               *)
(***************************************************************************)
MutantAcceptsEmbedding(m) == TRUE

AcceptsEmbedding(m) == Embedded => memory[m] = "live"

UpsertEmbedding(w) ==
    /\ task[w].at = "upsert"
    /\ \/ /\ AcceptsEmbedding(Target(w))
          /\ vectors' = vectors \cup {Target(w)}
          /\ Goto(w, "mark_indexed")
       \/ /\ UNCHANGED vectors
          /\ Goto(w, "mark_failed")
       \/ /\ ~ Embedded
          /\ vectors' = vectors \cup {Target(w)}
          /\ Goto(w, "mark_failed")
    /\ UNCHANGED <<queue, memory, keyOf, parentOf, entity, index, request, faults>>

MarkIndexed(w) ==
    /\ task[w].at = "mark_indexed"
    /\ MarkIndexState(Target(w), "upsert", "indexed")
    /\ Goto(w, "succeed")
    /\ UNCHANGED <<queue, memory, keyOf, parentOf, vectors, entity, request>>

MutantMarkUpsertFailed(w) ==
    /\ task[w].at = "mark_failed"
    /\ MarkIndexState(Target(w), "upsert", "failed")
    /\ Goto(w, "succeed")
    /\ UNCHANGED <<queue, memory, keyOf, parentOf, vectors, entity, request>>

MarkUpsertFailed(w) ==
    /\ task[w].at = "mark_failed"
    /\ MarkIndexState(Target(w), "upsert", "failed")
    /\ Goto(w, "fail")
    /\ UNCHANGED <<queue, memory, keyOf, parentOf, vectors, entity, request>>

-----------------------------------------------------------------------------
(***************************************************************************)
(* handleParserExtractPostprocessJob.  A failing call ends the handler     *)
(* where it stands; what earlier calls committed stays.                    *)
(***************************************************************************)
CallFails(w) ==
    /\ \/ task[w].at \in {"load_vector", "load_turn", "find_key", "find_tuple", "store"}
       \/ task[w].at = "entity" /\ task[w].links # {}
       \/ task[w].at = "enqueue" /\ task[w].made # {}
    /\ Goto(w, "fail")
    /\ UNCHANGED <<queue, memory, keyOf, parentOf, vectors, entity, index, request, faults>>

(* GetByIDs, then parseFactsWithFallback, whose answer may differ each time. *)
ParseTurn(w) ==
    /\ task[w].at = "load_turn"
    /\ IF memory[Target(w)] = "live"
       THEN \E facts \in Parses[Target(w)] :
               task' = [task EXCEPT ![w] = [task[w] EXCEPT
                           !.at = IF facts = <<>> THEN "entity" ELSE "find_key",
                           !.facts = facts, !.pos = 1]]
       ELSE Goto(w, "succeed")
    /\ UNCHANGED <<queue, memory, keyOf, parentOf, vectors, entity, index, request, faults>>

Fact(w) == task[w].facts[task[w].pos]

(* The handler moves to the next fact, or past the last one. *)
MutantNextFact(w, made, links) ==
    task' = [task EXCEPT ![w] = [task[w] EXCEPT
                !.at = IF task[w].pos > Len(task[w].facts) THEN "entity" ELSE "find_key",
                !.pos = task[w].pos + 1, !.made = made, !.links = links]]

NextFact(w, made, links) ==
    task' = [task EXCEPT ![w] = [task[w] EXCEPT
                !.at = IF task[w].pos = Len(task[w].facts) THEN "entity" ELSE "find_key",
                !.pos = task[w].pos + 1, !.made = made, !.links = links]]

(* buildEntityFactRecord: a fact with a full triple is linked to its row. *)
LinksWith(w, m) ==
    task[w].links \cup {link \in {<<TupleOf[Fact(w)], m>>} : link[1] # None}

(***************************************************************************)
(* applyParsedFactMetadataOnly: look the fact up by canonical key, then by *)
(* relation tuple, and insert a row if there is neither.                   *)
(***************************************************************************)
MutantRowsWithKey(key) == {}

RowsWithKey(key) == {d \in Derived : memory[d] = "live" /\ keyOf[d] = key}

FindByCanonicalKey(w) ==
    LET rows == RowsWithKey(CanonicalKey(Target(w), task[w].pos, Fact(w)))
    IN  /\ task[w].at = "find_key"
        /\ \/ /\ Fact(w) \notin Storable
              /\ NextFact(w, task[w].made, task[w].links)
           \/ /\ Fact(w) \in Storable
              /\ \E m \in rows : NextFact(w, task[w].made, LinksWith(w, m))
           \/ /\ Fact(w) \in Storable
              /\ rows = {}
              /\ Goto(w, IF TupleOf[Fact(w)] = None THEN "store" ELSE "find_tuple")
        /\ UNCHANGED <<queue, memory, keyOf, parentOf, vectors, entity, index, request, faults>>

FindByRelationTuple(w) ==
    LET rows == {m \in Memories : memory[m] = "live" /\ <<TupleOf[Fact(w)], m>> \in entity}
    IN  /\ task[w].at = "find_tuple"
        /\ \/ \E m \in rows : NextFact(w, task[w].made, LinksWith(w, m))
           \/ rows = {} /\ Goto(w, "store")
        /\ UNCHANGED <<queue, memory, keyOf, parentOf, vectors, entity, index, request, faults>>

StoreFact(w) ==
    /\ task[w].at = "store"
    /\ \E d \in Derived :
          /\ memory[d] = "absent"
          /\ memory' = [memory EXCEPT ![d] = "live"]
          /\ keyOf' = [keyOf EXCEPT ![d] = CanonicalKey(Target(w), task[w].pos, Fact(w))]
          /\ parentOf' = [parentOf EXCEPT ![d] = Target(w)]
          /\ index' = [index EXCEPT ![d]["upsert"] = "pending"]
          /\ NextFact(w, task[w].made \cup {d}, LinksWith(w, d))
    /\ UNCHANGED <<queue, vectors, entity, request, faults>>

(* storeEntityFacts: one transaction, refused if a linked row is gone. *)
MutantStoreEntityFacts(w) ==
    /\ task[w].at = "entity"
    /\ \A link \in task[w].links : memory[link[2]] = "live"
    /\ entity' = entity \cup task[w].links
    /\ Goto(w, IF task[w].links = {} THEN "succeed" ELSE "enqueue")
    /\ UNCHANGED <<queue, memory, keyOf, parentOf, vectors, index, request, faults>>

StoreEntityFacts(w) ==
    /\ task[w].at = "entity"
    /\ \A link \in task[w].links : memory[link[2]] = "live"
    /\ entity' = entity \cup task[w].links
    /\ Goto(w, "enqueue")
    /\ UNCHANGED <<queue, memory, keyOf, parentOf, vectors, index, request, faults>>

(* EnqueuePostprocessJobs for the rows that this execution created. *)
EnqueueVectorJobs(w) ==
    /\ task[w].at = "enqueue"
    /\ Queue!Submit({VectorJob(d) : d \in task[w].made}, Attempts)
    /\ Goto(w, "succeed")
    /\ UNCHANGED <<memory, keyOf, parentOf, vectors, entity, index, request, faults>>

-----------------------------------------------------------------------------
(***************************************************************************)
(* Delete: mark, delete the row, delete the embedding, mark.               *)
(***************************************************************************)
RequestAt(c, at) == request' = [request EXCEPT ![c] = [request[c] EXCEPT !.at = at]]

BeginDelete(c, m) ==
    /\ request[c].at = "idle"
    /\ memory[m] # "absent"
    /\ MarkIndexState(m, "delete", "pending")
    /\ request' = [request EXCEPT ![c] = [at |-> "row", target |-> m]]
    /\ UNCHANGED <<queue, memory, keyOf, parentOf, vectors, entity, task>>

(* The foreign keys of embeddings and entity facts cascade. *)
DeleteRow(c) ==
    LET m == request[c].target
    IN  /\ request[c].at = "row"
        /\ \/ /\ memory[m] = "live"
              /\ memory' = [memory EXCEPT ![m] = "deleted"]
              /\ index' = [index EXCEPT ![m]["delete"] = "pending"]
              /\ entity' = {link \in entity : link[2] # m}
              /\ vectors' = IF Embedded THEN vectors \ {m} ELSE vectors
              /\ RequestAt(c, "vector")
           \/ /\ RequestAt(c, "failed")
              /\ UNCHANGED <<memory, index, entity, vectors>>
        /\ UNCHANGED <<queue, keyOf, parentOf, task, faults>>

(* An error may be reported for a call that the store has applied. *)
DeleteEmbedding(c) ==
    LET m == request[c].target
    IN  /\ request[c].at = "vector"
        /\ \/ /\ vectors' = vectors \ {m}
              /\ \E at \in {"done", "failed"} : RequestAt(c, at)
           \/ /\ UNCHANGED vectors
              /\ RequestAt(c, "failed")
        /\ UNCHANGED <<queue, memory, keyOf, parentOf, entity, index, task, faults>>

EndDelete(c) ==
    /\ \/ /\ request[c].at = "done"
          /\ MarkIndexState(request[c].target, "delete", "tombstoned")
       \/ /\ request[c].at = "failed"
          /\ MarkIndexState(request[c].target, "delete", "failed")
    /\ request' = [request EXCEPT ![c] = NoRequest]
    /\ UNCHANGED <<queue, memory, keyOf, parentOf, vectors, entity, task>>

LoseRequest(c) ==
    /\ request[c].at # "idle"
    /\ request' = [request EXCEPT ![c] = NoRequest]
    /\ Fault
    /\ UNCHANGED <<queue, memory, keyOf, parentOf, vectors, entity, index, task>>

-----------------------------------------------------------------------------
HandlerStep(w) ==
    \/ MarkJobSucceeded(w)
    \/ MarkJobFailed(w)
    \/ CallFails(w)
    \/ LoadMemory(w)
    \/ MarkUpsertPending(w)
    \/ UpsertEmbedding(w)
    \/ MarkIndexed(w)
    \/ MarkUpsertFailed(w)
    \/ ParseTurn(w)
    \/ FindByCanonicalKey(w)
    \/ FindByRelationTuple(w)
    \/ StoreFact(w)
    \/ StoreEntityFacts(w)
    \/ EnqueueVectorJobs(w)

WorkerStep(w) == HandlerStep(w) \/ \E j \in Jobs : StartJob(w, j)

ClientStep(c) ==
    \/ \E m \in Targets : BeginDelete(c, m)
    \/ DeleteRow(c)
    \/ DeleteEmbedding(c)
    \/ EndDelete(c)
    \/ LoseRequest(c)

Next ==
    \/ \E S \in SUBSET Items : IngestBatchAsync(S)
    \/ \E j \in Jobs : AbandonClaim(j)
    \/ \E w \in Workers : WorkerStep(w) \/ LoseTask(w)
    \/ \E c \in Clients : ClientStep(c)

Spec == Init /\ [][Next]_vars

(***************************************************************************)
(* Workers poll for ever and every call they make returns: the clients of  *)
(* embedder, parser, scorer and vector service have timeouts.              *)
(***************************************************************************)
Fairness == \A w \in Workers : WF_vars(WorkerStep(w))

FairSpec == Spec /\ Fairness

-----------------------------------------------------------------------------
(***************************************************************************)
(* Properties.                                                             *)
(***************************************************************************)
Steps == {"idle", "load_vector", "mark_pending", "upsert", "mark_indexed", "mark_failed",
          "load_turn", "find_key", "find_tuple", "store", "entity", "enqueue",
          "succeed", "fail"}

ParserSteps == {"load_turn", "find_key", "find_tuple", "store", "entity", "enqueue"}
VectorSteps == {"load_vector", "mark_pending", "upsert", "mark_indexed", "mark_failed"}
FactSteps == {"find_key", "find_tuple", "store"}

Tuples == {TupleOf[f] : f \in Facts}

IndexStates == {"none", "pending", "indexed", "failed", "tombstoned"}

Task == [at: Steps, job: Jobs \cup {None}, facts: Seq(Facts), pos: Nat,
         made: SUBSET Derived, links: SUBSET (Tuples \X Memories)]

Request == [at: {"idle", "row", "vector", "done", "failed"}, target: Memories \cup {None}]

(* A worker is busy exactly while it has a job, in steps of that job's      *)
(* handler, and looks at a fact that the parse returned.                    *)
TaskOK(k) ==
    /\ k.at = "idle" <=> k.job = None
    /\ k.at \in VectorSteps => k.job \in {VectorJob(m) : m \in Memories}
    /\ k.at \in ParserSteps => k.job \in {ParserJob(t) : t \in RawTurns}
    /\ k.at \in FactSteps => k.pos \in 1..Len(k.facts)

(* The tables, the workers' tasks and the requests keep their types. *)
TypeOK ==
    /\ phase \in [Jobs -> Queue!Phases]
    /\ failures \in [Jobs -> Nat]
    /\ limit \in [Jobs -> Nat]
    /\ memory \in [Memories -> {"absent", "live", "deleted"}]
    /\ vectors \subseteq Memories
    /\ entity \subseteq Tuples \X Memories
    /\ index \in [Memories -> [IndexOps -> IndexStates]]
    /\ task \in [Workers -> Task]
    /\ \A w \in Workers : TaskOK(task[w])
    /\ request \in [Clients -> Request]
    /\ \A c \in Clients : request[c].at # "idle" => request[c].target \in Memories
    /\ faults \in 0..MaxFaults

(***************************************************************************)
(* With sqlitevec no embedding outlives its row, however a delete falls    *)
(* between a worker's read of the row and its upsert, and whatever step of *)
(* the delete fails or is lost.                                            *)
(***************************************************************************)
NoOrphanEmbedding == Embedded => \A m \in vectors : memory[m] = "live"

(***************************************************************************)
(* What the index row and the job report is true of the store: a memory    *)
(* that still exists and is marked indexed, or whose vector job succeeded, *)
(* has an embedding.                                                       *)
(***************************************************************************)
ReportedIsSearchable ==
    \A m \in Memories :
        /\ memory[m] = "live"
        /\ index[m]["upsert"] = "indexed" \/ phase[VectorJob(m)] = "succeeded"
        => m \in vectors

(***************************************************************************)
(* A fact has one row, however often its turn's parser job is retried:     *)
(* turns with different texts never produce two rows with one key.         *)
(***************************************************************************)
OneRowPerFact ==
    \A d, e \in Derived :
        memory[d] = "live" /\ memory[e] = "live" /\ keyOf[d] = keyOf[e] => d = e

InHand(j) == \E w \in Workers : task[w].job = j

(***************************************************************************)
(* A derived row has no vector job only while its parse is running, or     *)
(* after a try of the parse failed or was lost.                            *)
(***************************************************************************)
UnqueuedOnlyAfterFailure ==
    \A d \in Derived : memory[d] = "live" /\ phase[VectorJob(d)] = "none" =>
        LET job == ParserJob(parentOf[d])
        IN  \/ \E w \in Workers : task[w].job = job /\ d \in task[w].made
            \/ failures[job] > 0
            \/ phase[job] = "running" /\ ~ InHand(job)

(***************************************************************************)
(* What the change note of the pipeline says of parser jobs: they enqueue  *)
(* "vector jobs for newly created derived rows".  After the parser job of  *)
(* a turn succeeded, every row it derived has had a vector job.            *)
(***************************************************************************)
DerivedRowsGetVectorJobs ==
    \A d \in Derived :
        memory[d] = "live" /\ phase[ParserJob(parentOf[d])] = "succeeded" =>
            phase[VectorJob(d)] # "none"

(***************************************************************************)
(* What Delete says it does: it "removes a memory and its vector           *)
(* embedding".  A memory whose delete is tombstoned and that no worker is  *)
(* working on has no embedding.                                            *)
(***************************************************************************)
DeletedLeavesNoEmbedding ==
    \A m \in Memories :
        memory[m] = "deleted" /\ index[m]["delete"] = "tombstoned" /\ ~ InHand(VectorJob(m)) =>
            m \notin vectors

(***************************************************************************)
(* An accepted vector job is not forgotten: its memory gets its embedding, *)
(* unless it is deleted, the job's attempts are used up or a fault strands *)
(* the job.                                                                *)
(***************************************************************************)
EventuallySearchable ==
    \A m \in Memories :
        phase[VectorJob(m)] = "queued" ~>
            \/ m \in vectors
            \/ memory[m] = "deleted"
            \/ phase[VectorJob(m)] = "dead_letter"
            \/ phase[VectorJob(m)] = "running" /\ ~ InHand(VectorJob(m))

=============================================================================
