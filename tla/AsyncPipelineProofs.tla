------------------------ MODULE AsyncPipelineProofs ------------------------
(***************************************************************************)
(* Type correctness of the asynchronous pipeline, the two properties that  *)
(* tie the vector store to the rows and to what is reported of them, and   *)
(* what retries of a parser job do to the rows of its facts, for any       *)
(* items, facts, parses, workers, clients and bounds.                      *)
(***************************************************************************)
EXTENDS AsyncPipeline, TLAPS

(* A worker's tasks have their type and agree with the jobs. *)
TasksOK == task \in [Workers -> Task] /\ \A w \in Workers : TaskOK(task[w])

(* Job keys are distinct, and are jobs. *)
LEMMA JobKeys ==
    /\ \A m \in Memories : VectorJob(m) \in Jobs /\ VectorJob(m)[1] = m
    /\ \A m, n \in Memories : VectorJob(m) = VectorJob(n) => m = n
    /\ \A t \in RawTurns : ParserJob(t) \in Jobs /\ ParserJob(t)[1] = t
    /\ \A m \in Memories, t \in RawTurns : VectorJob(m) # ParserJob(t)
    /\ RawTurns \subseteq Memories
  BY ItemsAssumption DEF Jobs, VectorJob, ParserJob, Memories

(* An idle worker's record is a task. *)
LEMMA IdleTask == Idle \in Task /\ TaskOK(Idle)
  BY NoneAssumption DEF Idle, Task, TaskOK, Steps, VectorSteps, ParserSteps, FactSteps

(* Replacing one worker's record by a task keeps the tasks well-formed. *)
LEMMA TaskUpdate ==
    ASSUME TasksOK, NEW w \in Workers, NEW k \in Task, TaskOK(k),
           task' = [task EXCEPT ![w] = k]
    PROVE  TasksOK'
  <1>1. task' \in [Workers -> Task]
    BY DEF TasksOK
  <1>2. \A v \in Workers : TaskOK(task'[v])
    BY DEF TasksOK
  <1> QED
    BY <1>1, <1>2 DEF TasksOK

(* The target of a step of the vector handler. *)
LEMMA VectorTarget ==
    ASSUME TasksOK, NEW w \in Workers, task[w].at \in VectorSteps
    PROVE  Target(w) \in Memories /\ task[w].job = VectorJob(Target(w))
  <1>1. PICK m \in Memories : task[w].job = VectorJob(m)
    BY DEF TasksOK, TaskOK
  <1> QED
    BY <1>1, JobKeys DEF Target

(* The target of a step of the parser handler. *)
LEMMA ParserTarget ==
    ASSUME TasksOK, NEW w \in Workers, task[w].at \in ParserSteps
    PROVE  Target(w) \in RawTurns /\ task[w].job = ParserJob(Target(w))
  <1>1. PICK t \in RawTurns : task[w].job = ParserJob(t)
    BY DEF TasksOK, TaskOK
  <1> QED
    BY <1>1, JobKeys DEF Target

(* A handler that moves on within its own steps keeps its task well-formed. *)
LEMMA GotoType ==
    ASSUME TasksOK, NEW w \in Workers, NEW at \in Steps \ {"idle"},
           task[w].at # "idle",
           at \in VectorSteps => task[w].at \in VectorSteps,
           at \in ParserSteps => task[w].at \in ParserSteps,
           at \in FactSteps => task[w].at \in FactSteps,
           Goto(w, at)
    PROVE  TasksOK'
  <1> DEFINE k == [task[w] EXCEPT !.at = at]
  <1>1. task[w] \in Task /\ TaskOK(task[w])
    BY DEF TasksOK
  <1>2. k \in Task
    BY <1>1 DEF Task
  <1>3. /\ k.at = at /\ k.job = task[w].job /\ k.facts = task[w].facts /\ k.pos = task[w].pos
    BY <1>1 DEF Task
  <1>4. TaskOK(k)
    BY <1>1, <1>3 DEF TaskOK
  <1> QED
    BY <1>2, <1>4, TaskUpdate DEF Goto

(* The fact a handler looks at, and the links it may add for it. *)
LEMMA FactType ==
    ASSUME TasksOK, NEW w \in Workers, task[w].at \in FactSteps
    PROVE  /\ Fact(w) \in Facts
           /\ \A m \in Memories : LinksWith(w, m) \in SUBSET (Tuples \X Memories)
  <1>1. task[w] \in Task /\ task[w].pos \in 1..Len(task[w].facts)
    BY DEF TasksOK, TaskOK
  <1>2. task[w].facts \in Seq(Facts) /\ task[w].links \in SUBSET (Tuples \X Memories)
    BY <1>1 DEF Task
  <1>3. Fact(w) \in Facts
    BY <1>1, <1>2 DEF Fact
  <1>4. TupleOf[Fact(w)] \in Tuples
    BY <1>3 DEF Tuples
  <1> QED
    BY <1>2, <1>3, <1>4 DEF LinksWith

(* Moving on to the next fact keeps the task well-formed. *)
LEMMA NextFactType ==
    ASSUME TasksOK, NEW w \in Workers, task[w].at \in FactSteps,
           NEW made \in SUBSET Derived, NEW links \in SUBSET (Tuples \X Memories),
           NextFact(w, made, links)
    PROVE  TasksOK'
  <1> DEFINE at == IF task[w].pos = Len(task[w].facts) THEN "entity" ELSE "find_key"
             k == [task[w] EXCEPT !.at = at, !.pos = task[w].pos + 1,
                                  !.made = made, !.links = links]
  <1>1. task[w] \in Task /\ TaskOK(task[w])
    BY DEF TasksOK
  <1>2. /\ task[w].pos \in 1..Len(task[w].facts) /\ task[w].facts \in Seq(Facts)
        /\ task[w].pos \in Nat /\ Len(task[w].facts) \in Nat
    BY <1>1 DEF TaskOK, Task
  <1>3. at \in {"entity", "find_key"}
    OBVIOUS
  <1>4. k \in Task
    <2>1. at \in Steps /\ task[w].pos + 1 \in Nat
      BY <1>2, <1>3 DEF Steps
    <2> HIDE DEF at
    <2> QED
      BY <1>1, <2>1 DEF Task
  <1>5. /\ k.at = at /\ k.job = task[w].job /\ k.facts = task[w].facts
        /\ k.pos = task[w].pos + 1
    BY <1>1 DEF Task
  <1>6. at = "find_key" => task[w].pos + 1 \in 1..Len(task[w].facts)
    BY <1>2
  <1>7. task[w].job \in {ParserJob(t) : t \in RawTurns} /\ task[w].job # None
    BY <1>1 DEF TaskOK, ParserSteps, FactSteps
  <1>8. TaskOK(k)
    <2> HIDE DEF at, k
    <2> QED
      BY <1>3, <1>5, <1>6, <1>7 DEF TaskOK, ParserSteps, VectorSteps, FactSteps
  <1> QED
    BY <1>4, <1>8, TaskUpdate DEF NextFact

-----------------------------------------------------------------------------
(* The queue's table has its type. *)
QueueOK ==
    /\ phase \in [Jobs -> Queue!Phases]
    /\ failures \in [Jobs -> Nat]
    /\ limit \in [Jobs -> Nat]

(* The rows, the vector store, the entity facts and the index have theirs. *)
RowsOK ==
    /\ memory \in [Memories -> {"absent", "live", "deleted"}]
    /\ vectors \subseteq Memories
    /\ entity \subseteq Tuples \X Memories
    /\ index \in [Memories -> [IndexOps -> IndexStates]]

(* So have the requests. *)
RequestsOK ==
    /\ request \in [Clients -> Request]
    /\ \A c \in Clients : request[c].at # "idle" => request[c].target \in Memories

FaultsOK == faults \in 0..MaxFaults

(* The parts of the type invariant. *)
LEMMA TypeParts ==
    /\ TypeOK <=> QueueOK /\ RowsOK /\ TasksOK /\ RequestsOK /\ FaultsOK
    /\ QueueOK' /\ RowsOK' /\ TasksOK' /\ RequestsOK' /\ FaultsOK' => TypeOK'
  BY DEF TypeOK, QueueOK, RowsOK, TasksOK, RequestsOK, FaultsOK

(* The operations of the queue keep its type. *)
LEMMA QueueType ==
    ASSUME QueueOK
    PROVE  /\ \A S : Queue!Submit(S, Attempts) => QueueOK'
           /\ \A S : Queue!Claim(S) => QueueOK'
           /\ \A j \in Jobs : Queue!Succeed(j) => QueueOK'
           /\ \A j \in Jobs : Queue!Fail(j) => QueueOK'
  <1>1. ASSUME NEW S, Queue!Submit(S, Attempts) PROVE QueueOK'
    BY <1>1, AttemptsAssumption DEF QueueOK, Queue!Submit, Queue!Phases
  <1>2. ASSUME NEW S, Queue!Claim(S) PROVE QueueOK'
    BY <1>2 DEF QueueOK, Queue!Claim, Queue!Phases
  <1>3. ASSUME NEW j \in Jobs, Queue!Succeed(j) PROVE QueueOK'
    BY <1>3 DEF QueueOK, Queue!Succeed, Queue!Phases
  <1>4. ASSUME NEW j \in Jobs, Queue!Fail(j) PROVE QueueOK'
    BY <1>4 DEF QueueOK, Queue!Fail, Queue!Phases
  <1> QED
    BY <1>1, <1>2, <1>3, <1>4

(* A step that leaves a part's variables alone keeps the part. *)
LEMMA Kept ==
    /\ QueueOK /\ UNCHANGED queue => QueueOK'
    /\ RowsOK /\ UNCHANGED <<memory, vectors, entity, index>> => RowsOK'
    /\ TasksOK /\ UNCHANGED task => TasksOK'
    /\ RequestsOK /\ UNCHANGED request => RequestsOK'
    /\ FaultsOK /\ UNCHANGED faults => FaultsOK'
    /\ FaultsOK /\ Fault => FaultsOK'
  <1>1. FaultsOK /\ Fault => FaultsOK'
    BY FaultsAssumption DEF FaultsOK, Fault
  <1> QED
    BY <1>1 DEF QueueOK, RowsOK, TasksOK, RequestsOK, FaultsOK, queue

(* An index mark keeps the type of the index and of the faults. *)
LEMMA MarkType ==
    ASSUME RowsOK, FaultsOK, NEW m \in Memories, NEW op \in IndexOps, NEW state \in IndexStates,
           MarkIndexState(m, op, state), UNCHANGED <<memory, vectors, entity>>
    PROVE  RowsOK' /\ FaultsOK'
  <1>1. CASE /\ index' = [index EXCEPT ![m][op] = state]
             /\ UNCHANGED faults
    BY <1>1 DEF RowsOK, FaultsOK
  <1>2. CASE Fault /\ UNCHANGED index
    BY <1>2, Kept
  <1> QED
    BY <1>1, <1>2 DEF MarkIndexState

(* The initial state has the types. *)
LEMMA TypeInit == Init => TypeOK
  <1> SUFFICES ASSUME Init PROVE TypeOK
    OBVIOUS
  <1>1. QueueOK
    BY DEF Init, QueueOK, Queue!Init, Queue!Phases
  <1>2. RowsOK
    BY DEF Init, RowsOK, IndexStates
  <1>3. TasksOK
    BY IdleTask DEF Init, TasksOK
  <1>4. RequestsOK
    BY DEF Init, RequestsOK, NoRequest, Request
  <1>5. FaultsOK
    BY FaultsAssumption DEF Init, FaultsOK
  <1> QED
    BY <1>1, <1>2, <1>3, <1>4, <1>5, TypeParts

(* The steps of the vector handler keep the types. *)
LEMMA VectorStepType ==
    ASSUME TypeOK, NEW w \in Workers,
           \/ LoadMemory(w) \/ MarkUpsertPending(w) \/ UpsertEmbedding(w)
           \/ MarkIndexed(w) \/ MarkUpsertFailed(w)
    PROVE  TypeOK'
  <1> USE DEF Steps, VectorSteps, ParserSteps, FactSteps
  <1>0. QueueOK /\ RowsOK /\ TasksOK /\ RequestsOK /\ FaultsOK
    BY TypeParts
  <1>1. CASE LoadMemory(w)
    <2>1. PICK at \in {"mark_pending", "mark_failed", "succeed"} : Goto(w, at)
      BY <1>1 DEF LoadMemory
    <2>2. TasksOK'
      BY <1>0, <1>1, <2>1, GotoType DEF LoadMemory
    <2> QED
      BY <1>0, <1>1, <2>2, Kept, TypeParts DEF LoadMemory
  <1>2. CASE MarkUpsertPending(w)
    <2>1. TasksOK'
      BY <1>0, <1>2, GotoType DEF MarkUpsertPending
    <2>2. RowsOK' /\ FaultsOK'
      BY <1>0, <1>2, VectorTarget, MarkType DEF MarkUpsertPending, IndexOps, IndexStates
    <2> QED
      BY <1>0, <1>2, <2>1, <2>2, Kept, TypeParts DEF MarkUpsertPending
  <1>3. CASE UpsertEmbedding(w)
    <2>1. PICK at \in {"mark_indexed", "mark_failed"} : Goto(w, at)
      BY <1>3 DEF UpsertEmbedding
    <2>2. TasksOK'
      BY <1>0, <1>3, <2>1, GotoType DEF UpsertEmbedding
    <2>3. RowsOK'
      BY <1>0, <1>3, VectorTarget DEF UpsertEmbedding, RowsOK
    <2> QED
      BY <1>0, <1>3, <2>2, <2>3, Kept, TypeParts DEF UpsertEmbedding
  <1>4. CASE MarkIndexed(w)
    <2>1. TasksOK'
      BY <1>0, <1>4, GotoType DEF MarkIndexed
    <2>2. RowsOK' /\ FaultsOK'
      BY <1>0, <1>4, VectorTarget, MarkType DEF MarkIndexed, IndexOps, IndexStates
    <2> QED
      BY <1>0, <1>4, <2>1, <2>2, Kept, TypeParts DEF MarkIndexed
  <1>5. CASE MarkUpsertFailed(w)
    <2>1. TasksOK'
      BY <1>0, <1>5, GotoType DEF MarkUpsertFailed
    <2>2. RowsOK' /\ FaultsOK'
      BY <1>0, <1>5, VectorTarget, MarkType DEF MarkUpsertFailed, IndexOps, IndexStates
    <2> QED
      BY <1>0, <1>5, <2>1, <2>2, Kept, TypeParts DEF MarkUpsertFailed
  <1> QED
    BY <1>1, <1>2, <1>3, <1>4, <1>5

(* The steps of the parser handler keep the types. *)
LEMMA ParserStepType ==
    ASSUME TypeOK, NEW w \in Workers,
           \/ ParseTurn(w) \/ FindByCanonicalKey(w) \/ FindByRelationTuple(w)
           \/ StoreFact(w) \/ StoreEntityFacts(w) \/ EnqueueVectorJobs(w) \/ CallFails(w)
    PROVE  TypeOK'
  <1> USE DEF Steps, VectorSteps, ParserSteps, FactSteps
  <1>0. /\ QueueOK /\ RowsOK /\ TasksOK /\ RequestsOK /\ FaultsOK
        /\ task[w] \in Task /\ TaskOK(task[w])
    BY TypeParts DEF TasksOK
  <1>a. task[w].made \in SUBSET Derived /\ task[w].links \in SUBSET (Tuples \X Memories)
    BY <1>0 DEF Task
  <1>1. CASE ParseTurn(w)
    <2>1. TasksOK'
      <3>1. CASE Goto(w, "succeed")
        BY <1>0, <1>1, <3>1, GotoType DEF ParseTurn
      <3>2. ASSUME NEW facts \in Parses[Target(w)],
                   task' = [task EXCEPT ![w] = [task[w] EXCEPT
                               !.at = IF facts = <<>> THEN "entity" ELSE "find_key",
                               !.facts = facts, !.pos = 1]]
            PROVE  TasksOK'
        <4> DEFINE at == IF facts = <<>> THEN "entity" ELSE "find_key"
                   k == [task[w] EXCEPT !.at = at, !.facts = facts, !.pos = 1]
        <4>1. facts \in Seq(Facts)
          BY <1>0, <1>1, ParserTarget, ParsesAssumption DEF ParseTurn
        <4>2. at \in {"entity", "find_key"} /\ (at = "find_key" => 1 \in 1..Len(facts))
          BY <4>1
        <4>3. task[w].job \in {ParserJob(t) : t \in RawTurns} /\ task[w].job # None
          BY <1>0, <1>1 DEF ParseTurn, TaskOK
        <4> HIDE DEF at
        <4>4. k \in Task
          BY <1>0, <4>1, <4>2 DEF Task
        <4>5. k.at = at /\ k.job = task[w].job /\ k.facts = facts /\ k.pos = 1
          BY <1>0 DEF Task
        <4>6. TaskOK(k)
          <5> HIDE DEF k
          <5> QED
            BY <4>2, <4>3, <4>5 DEF TaskOK
        <4> QED
          BY <1>0, <3>2, <4>4, <4>6, TaskUpdate DEF at
      <3> QED
        BY <1>1, <3>1, <3>2 DEF ParseTurn
    <2> QED
      BY <1>0, <1>1, <2>1, Kept, TypeParts DEF ParseTurn
  <1>2. CASE FindByCanonicalKey(w)
    <2>1. TasksOK'
      <3>1. CASE NextFact(w, task[w].made, task[w].links)
        BY <1>0, <1>a, <1>2, <3>1, NextFactType DEF FindByCanonicalKey
      <3>2. ASSUME NEW m \in Derived, NextFact(w, task[w].made, LinksWith(w, m)) PROVE TasksOK'
        <4>1. LinksWith(w, m) \in SUBSET (Tuples \X Memories)
          BY <1>0, <1>2, FactType DEF FindByCanonicalKey, Memories
        <4> QED
          BY <1>0, <1>a, <1>2, <3>2, <4>1, NextFactType DEF FindByCanonicalKey
      <3>3. ASSUME NEW at \in {"store", "find_tuple"}, Goto(w, at) PROVE TasksOK'
        BY <1>0, <1>2, <3>3, GotoType DEF FindByCanonicalKey
      <3>4. \A key : RowsWithKey(key) \subseteq Derived
        BY DEF RowsWithKey
      <3> QED
        BY <1>2, <3>1, <3>2, <3>3, <3>4 DEF FindByCanonicalKey
    <2> QED
      BY <1>0, <1>2, <2>1, Kept, TypeParts DEF FindByCanonicalKey
  <1>3. CASE FindByRelationTuple(w)
    <2>1. TasksOK'
      <3>1. ASSUME NEW m \in Memories, NextFact(w, task[w].made, LinksWith(w, m)) PROVE TasksOK'
        <4>1. LinksWith(w, m) \in SUBSET (Tuples \X Memories)
          BY <1>0, <1>3, FactType DEF FindByRelationTuple
        <4> QED
          BY <1>0, <1>a, <1>3, <3>1, <4>1, NextFactType DEF FindByRelationTuple
      <3>2. CASE Goto(w, "store")
        BY <1>0, <1>3, <3>2, GotoType DEF FindByRelationTuple
      <3> QED
        BY <1>3, <3>1, <3>2 DEF FindByRelationTuple
    <2> QED
      BY <1>0, <1>3, <2>1, Kept, TypeParts DEF FindByRelationTuple
  <1>4. CASE StoreFact(w)
    <2>1. PICK d \in Derived :
             /\ memory' = [memory EXCEPT ![d] = "live"]
             /\ index' = [index EXCEPT ![d]["upsert"] = "pending"]
             /\ NextFact(w, task[w].made \cup {d}, LinksWith(w, d))
      BY <1>4 DEF StoreFact
    <2>2. d \in Memories
      BY DEF Memories
    <2>3. TasksOK'
      <3>1. LinksWith(w, d) \in SUBSET (Tuples \X Memories)
        BY <1>0, <1>4, <2>2, FactType DEF StoreFact
      <3>2. task[w].made \cup {d} \in SUBSET Derived
        BY <1>a
      <3> QED
        BY <1>0, <1>4, <2>1, <3>1, <3>2, NextFactType DEF StoreFact
    <2>4. RowsOK'
      BY <1>0, <1>4, <2>1, <2>2 DEF StoreFact, RowsOK, IndexOps, IndexStates
    <2> QED
      BY <1>0, <1>4, <2>3, <2>4, Kept, TypeParts DEF StoreFact
  <1>5. CASE StoreEntityFacts(w)
    <2>1. TasksOK'
      BY <1>0, <1>5, GotoType DEF StoreEntityFacts
    <2>2. RowsOK'
      BY <1>0, <1>a, <1>5 DEF StoreEntityFacts, RowsOK
    <2> QED
      BY <1>0, <1>5, <2>1, <2>2, Kept, TypeParts DEF StoreEntityFacts
  <1>6. CASE EnqueueVectorJobs(w)
    <2>1. TasksOK'
      BY <1>0, <1>6, GotoType DEF EnqueueVectorJobs
    <2>2. QueueOK'
      BY <1>0, <1>6, QueueType DEF EnqueueVectorJobs
    <2> QED
      BY <1>0, <1>6, <2>1, <2>2, Kept, TypeParts DEF EnqueueVectorJobs
  <1>7. CASE CallFails(w)
    <2>1. TasksOK'
      BY <1>0, <1>7, GotoType DEF CallFails
    <2> QED
      BY <1>0, <1>7, <2>1, Kept, TypeParts DEF CallFails
  <1> QED
    BY <1>1, <1>2, <1>3, <1>4, <1>5, <1>6, <1>7

(* The steps that begin, end or lose a job keep the types. *)
LEMMA JobStepType ==
    ASSUME TypeOK, NEW w \in Workers,
           \/ \E j \in Jobs : StartJob(w, j)
           \/ MarkJobSucceeded(w) \/ MarkJobFailed(w) \/ LoseTask(w)
    PROVE  TypeOK'
  <1> USE DEF Steps, VectorSteps, ParserSteps, FactSteps
  <1>0. /\ QueueOK /\ RowsOK /\ TasksOK /\ RequestsOK /\ FaultsOK
        /\ task[w] \in Task /\ TaskOK(task[w])
    BY TypeParts DEF TasksOK
  <1>1. ASSUME NEW j \in Jobs, StartJob(w, j) PROVE TypeOK'
    <2> DEFINE at == IF j[2] = "vector_upsert" THEN "load_vector" ELSE "load_turn"
               k == [Idle EXCEPT !.at = at, !.job = j]
    <2>1. /\ at = "load_vector" => j \in {VectorJob(m) : m \in Memories}
          /\ at = "load_turn" => j \in {ParserJob(t) : t \in RawTurns}
          /\ at \in {"load_vector", "load_turn"}
      BY DEF Jobs, VectorJob, ParserJob
    <2>2. j # None
      BY NoneAssumption
    <2> HIDE DEF at
    <2>3. k \in Task
      BY <2>1, IdleTask DEF Task
    <2>4. k.at = at /\ k.job = j
      BY DEF Idle
    <2>5. TaskOK(k)
      <3> HIDE DEF k
      <3> QED
        BY <2>1, <2>2, <2>4 DEF TaskOK
    <2>6. TasksOK'
      BY <1>0, <1>1, <2>3, <2>5, TaskUpdate DEF StartJob, at
    <2>7. QueueOK'
      BY <1>0, <1>1, QueueType DEF StartJob
    <2> QED
      BY <1>0, <1>1, <2>6, <2>7, Kept, TypeParts DEF StartJob
  <1>2. CASE MarkJobSucceeded(w)
    <2>1. TasksOK'
      BY <1>0, <1>2, IdleTask, TaskUpdate DEF MarkJobSucceeded
    <2>2. QueueOK'
      BY <1>0, <1>2, QueueType DEF MarkJobSucceeded, TaskOK, Task
    <2> QED
      BY <1>0, <1>2, <2>1, <2>2, Kept, TypeParts DEF MarkJobSucceeded
  <1>3. CASE MarkJobFailed(w)
    <2>1. TasksOK'
      BY <1>0, <1>3, IdleTask, TaskUpdate DEF MarkJobFailed
    <2>2. QueueOK'
      BY <1>0, <1>3, QueueType DEF MarkJobFailed, TaskOK, Task
    <2> QED
      BY <1>0, <1>3, <2>1, <2>2, Kept, TypeParts DEF MarkJobFailed
  <1>4. CASE LoseTask(w)
    <2>1. TasksOK'
      BY <1>0, <1>4, IdleTask, TaskUpdate DEF LoseTask
    <2> QED
      BY <1>0, <1>4, <2>1, Kept, TypeParts DEF LoseTask
  <1> QED
    BY <1>1, <1>2, <1>3, <1>4


(* The steps of a delete keep the types. *)
LEMMA ClientStepType ==
    ASSUME TypeOK, NEW c \in Clients, ClientStep(c)
    PROVE  TypeOK'
  <1>0. /\ QueueOK /\ RowsOK /\ TasksOK /\ RequestsOK /\ FaultsOK
        /\ request[c] \in Request /\ (request[c].at # "idle" => request[c].target \in Memories)
    BY TypeParts DEF RequestsOK
  <1>1. ASSUME NEW at \in {"row", "vector", "done", "failed"},
               request[c].at # "idle", RequestAt(c, at)
        PROVE  RequestsOK'
    <2>1. [request[c] EXCEPT !.at = at] \in Request
      BY <1>0 DEF Request
    <2>2. [request[c] EXCEPT !.at = at].target = request[c].target
      BY <1>0 DEF Request
    <2> QED
      BY <1>0, <1>1, <2>1, <2>2 DEF RequestAt, RequestsOK
  <1>2. request' = [request EXCEPT ![c] = NoRequest] => RequestsOK'
    BY <1>0 DEF RequestsOK, Request, NoRequest
  <1>3. ASSUME NEW m \in Targets, BeginDelete(c, m) PROVE TypeOK'
    <2>1. m \in Memories
      BY TargetsAssumption
    <2>2. RequestsOK'
      BY <1>0, <1>3, <2>1 DEF BeginDelete, RequestsOK, Request
    <2>3. RowsOK' /\ FaultsOK'
      BY <1>0, <1>3, <2>1, MarkType DEF BeginDelete, IndexOps, IndexStates
    <2> QED
      BY <1>0, <1>3, <2>2, <2>3, Kept, TypeParts DEF BeginDelete
  <1>4. CASE DeleteRow(c)
    <2>1. request[c].target \in Memories
      BY <1>0, <1>4 DEF DeleteRow
    <2>2. RequestsOK'
      BY <1>1, <1>4 DEF DeleteRow
    <2>3. RowsOK'
      BY <1>0, <1>4, <2>1 DEF DeleteRow, RowsOK, IndexOps, IndexStates
    <2> QED
      BY <1>0, <1>4, <2>2, <2>3, Kept, TypeParts DEF DeleteRow
  <1>5. CASE DeleteEmbedding(c)
    <2>1. RequestsOK'
      BY <1>1, <1>5 DEF DeleteEmbedding
    <2>2. RowsOK'
      BY <1>0, <1>5 DEF DeleteEmbedding, RowsOK
    <2> QED
      BY <1>0, <1>5, <2>1, <2>2, Kept, TypeParts DEF DeleteEmbedding
  <1>6. CASE EndDelete(c)
    <2>1. request[c].target \in Memories
      BY <1>0, <1>6 DEF EndDelete
    <2>2. RowsOK' /\ FaultsOK'
      BY <1>0, <1>6, <2>1, MarkType DEF EndDelete, IndexOps, IndexStates
    <2> QED
      BY <1>0, <1>2, <1>6, <2>2, Kept, TypeParts DEF EndDelete
  <1>7. CASE LoseRequest(c)
    BY <1>0, <1>2, <1>7, Kept, TypeParts DEF LoseRequest
  <1> QED
    BY <1>3, <1>4, <1>5, <1>6, <1>7 DEF ClientStep

(* Every step keeps the types. *)
LEMMA TypeStep == TypeOK /\ [Next]_vars => TypeOK'
  <1> SUFFICES ASSUME TypeOK, [Next]_vars PROVE TypeOK'
    OBVIOUS
  <1>0. QueueOK /\ RowsOK /\ TasksOK /\ RequestsOK /\ FaultsOK
    BY TypeParts
  <1>1. ASSUME NEW S \in SUBSET Items, IngestBatchAsync(S) PROVE TypeOK'
    <2>1. QueueOK'
      BY <1>0, <1>1, QueueType DEF IngestBatchAsync
    <2>2. RowsOK'
      BY <1>0, <1>1 DEF IngestBatchAsync, RowsOK, IndexOps, IndexStates
    <2> QED
      BY <1>0, <1>1, <2>1, <2>2, Kept, TypeParts DEF IngestBatchAsync
  <1>2. ASSUME NEW j \in Jobs, AbandonClaim(j) PROVE TypeOK'
    <2>1. QueueOK'
      BY <1>0, <1>2, QueueType DEF AbandonClaim
    <2> QED
      BY <1>0, <1>2, <2>1, Kept, TypeParts DEF AbandonClaim
  <1>3. ASSUME NEW w \in Workers, WorkerStep(w) \/ LoseTask(w) PROVE TypeOK'
    BY <1>3, VectorStepType, ParserStepType, JobStepType DEF WorkerStep, HandlerStep
  <1>4. ASSUME NEW c \in Clients, ClientStep(c) PROVE TypeOK'
    BY <1>4, ClientStepType
  <1>5. CASE UNCHANGED vars
    BY <1>0, <1>5, Kept, TypeParts DEF vars, queue
  <1> QED
    BY <1>1, <1>2, <1>3, <1>4, <1>5 DEF Next

(***************************************************************************)
(* The tables, the workers' tasks and the requests keep their types, and a *)
(* worker never looks past the facts that parseFactsWithFallback returned. *)
(***************************************************************************)
THEOREM TypeCorrect == Spec => []TypeOK
  BY TypeInit, TypeStep, PTL DEF Spec

-----------------------------------------------------------------------------
(***************************************************************************)
(* With sqlitevec no embedding outlives its row: the foreign key refuses a *)
(* late Upsert and the row's delete cascades, so the steps of Delete and   *)
(* of the vector handler may interleave or be lost in any way.             *)
(***************************************************************************)
THEOREM NoOrphanEmbeddingCorrect == Spec => []NoOrphanEmbedding
  <1>1. Init => NoOrphanEmbedding
    BY DEF Init, NoOrphanEmbedding
  <1>2. TypeOK /\ NoOrphanEmbedding /\ [Next]_vars => NoOrphanEmbedding'
    <2> SUFFICES ASSUME TypeOK, NoOrphanEmbedding, [Next]_vars,
                        Embedded, NEW m, m \in vectors'
                 PROVE  memory'[m] = "live"
      BY DEF NoOrphanEmbedding
    <2>0. /\ vectors \subseteq Memories
          /\ memory \in [Memories -> {"absent", "live", "deleted"}]
          /\ m \in vectors => memory[m] = "live"
      BY DEF TypeOK, NoOrphanEmbedding
    <2>1. ASSUME NEW S \in SUBSET Items, IngestBatchAsync(S) PROVE memory'[m] = "live"
      BY <2>0, <2>1 DEF IngestBatchAsync
    <2>2. ASSUME NEW j \in Jobs, AbandonClaim(j) PROVE memory'[m] = "live"
      BY <2>0, <2>2 DEF AbandonClaim
    <2>3. ASSUME NEW w \in Workers, WorkerStep(w) \/ LoseTask(w) PROVE memory'[m] = "live"
      <3>1. CASE UpsertEmbedding(w)
        BY <2>0, <3>1 DEF UpsertEmbedding, AcceptsEmbedding
      <3>2. CASE StoreFact(w)
        <4>1. PICK d \in Derived : memory' = [memory EXCEPT ![d] = "live"]
          BY <3>2 DEF StoreFact
        <4> QED
          BY <2>0, <3>2, <4>1 DEF StoreFact
      <3>3. CASE UNCHANGED <<memory, vectors>>
        BY <2>0, <3>3
      <3> QED
        BY <2>3, <3>1, <3>2, <3>3
           DEF WorkerStep, HandlerStep, LoseTask, StartJob, MarkJobSucceeded, MarkJobFailed,
               CallFails, LoadMemory, MarkUpsertPending, MarkIndexed, MarkUpsertFailed,
               ParseTurn, FindByCanonicalKey, FindByRelationTuple, StoreEntityFacts,
               EnqueueVectorJobs
    <2>4. ASSUME NEW c \in Clients, ClientStep(c) PROVE memory'[m] = "live"
      <3>1. CASE DeleteRow(c)
        BY <2>0, <3>1 DEF DeleteRow
      <3>2. CASE DeleteEmbedding(c)
        BY <2>0, <3>2 DEF DeleteEmbedding
      <3>3. CASE UNCHANGED <<memory, vectors>>
        BY <2>0, <3>3
      <3> QED
        BY <2>4, <3>1, <3>2, <3>3 DEF ClientStep, BeginDelete, EndDelete, LoseRequest
    <2>5. CASE UNCHANGED vars
      BY <2>0, <2>5 DEF vars
    <2> QED
      BY <2>1, <2>2, <2>3, <2>4, <2>5 DEF Next
  <1> QED
    BY <1>1, <1>2, TypeInit, TypeStep, PTL DEF Spec


-----------------------------------------------------------------------------
(***************************************************************************)
(* ReportedIsSearchable is not inductive: a worker reports what it did     *)
(* some steps before, and jobs, tasks and requests outlive rows.  These    *)
(* are the facts that carry it across the steps in between.                *)
(***************************************************************************)

(* A job exists only for a row that has been stored. *)
JobsHaveRows == \A m \in Memories : memory[m] = "absent" => phase[VectorJob(m)] = "none"

(* So does a task, and a task about to report has put the embedding. *)
TasksHaveRows ==
    \A w \in Workers, m \in Memories : task[w].job = VectorJob(m) =>
        /\ memory[m] # "absent"
        /\ task[w].at \in {"mark_indexed", "succeed"} /\ memory[m] = "live" => m \in vectors

MadeHaveRows == \A w \in Workers : \A d \in task[w].made : memory[d] # "absent"

(* A request deletes an embedding only after the row. *)
RowBeforeEmbedding ==
    \A c \in Clients : request[c].at = "vector" => memory[request[c].target] = "deleted"

Handled == JobsHaveRows /\ TasksHaveRows /\ MadeHaveRows /\ RowBeforeEmbedding

(* Rows are stored once and deleted for good, and a step that leaves a row *)
(* live leaves its embedding.                                              *)
LEMMA RowStep ==
    ASSUME TypeOK, Handled, [Next]_vars, NEW m \in Memories
    PROVE  /\ memory'[m] = "absent" => memory[m] = "absent"
           /\ memory[m] = "deleted" => memory'[m] = "deleted"
           /\ m \in vectors /\ memory'[m] = "live" => m \in vectors'
  <1> DEFINE Goal == /\ memory'[m] = "absent" => memory[m] = "absent"
                     /\ memory[m] = "deleted" => memory'[m] = "deleted"
                     /\ m \in vectors /\ memory'[m] = "live" => m \in vectors'
  <1>0. memory \in [Memories -> {"absent", "live", "deleted"}]
    BY DEF TypeOK
  <1>1. ASSUME NEW S \in SUBSET Items, IngestBatchAsync(S) PROVE Goal
    BY <1>0, <1>1 DEF IngestBatchAsync
  <1>2. ASSUME NEW j \in Jobs, AbandonClaim(j) PROVE Goal
    BY <1>2 DEF AbandonClaim
  <1>3. ASSUME NEW w \in Workers, WorkerStep(w) \/ LoseTask(w) PROVE Goal
    <2>1. CASE UpsertEmbedding(w)
      BY <2>1 DEF UpsertEmbedding
    <2>2. CASE StoreFact(w)
      <3>1. PICK d \in Derived : memory[d] = "absent" /\ memory' = [memory EXCEPT ![d] = "live"]
        BY <2>2 DEF StoreFact
      <3> QED
        BY <1>0, <2>2, <3>1 DEF StoreFact
    <2>3. CASE UNCHANGED <<memory, vectors>>
      BY <2>3
    <2> QED
      BY <1>3, <2>1, <2>2, <2>3
         DEF WorkerStep, HandlerStep, LoseTask, StartJob, MarkJobSucceeded, MarkJobFailed,
             CallFails, LoadMemory, MarkUpsertPending, MarkIndexed, MarkUpsertFailed,
             ParseTurn, FindByCanonicalKey, FindByRelationTuple, StoreEntityFacts,
             EnqueueVectorJobs
  <1>4. ASSUME NEW c \in Clients, ClientStep(c) PROVE Goal
    <2>1. CASE DeleteRow(c)
      BY <1>0, <2>1 DEF DeleteRow
    <2>2. CASE DeleteEmbedding(c)
      <3>1. memory[request[c].target] = "deleted" /\ memory' = memory
        BY <2>2 DEF DeleteEmbedding, Handled, RowBeforeEmbedding
      <3> QED
        BY <2>2, <3>1 DEF DeleteEmbedding
    <2>3. CASE UNCHANGED <<memory, vectors>>
      BY <2>3
    <2> QED
      BY <1>4, <2>1, <2>2, <2>3 DEF ClientStep, BeginDelete, EndDelete, LoseRequest
  <1>5. CASE UNCHANGED vars
    BY <1>5 DEF vars
  <1> QED
    BY <1>1, <1>2, <1>3, <1>4, <1>5 DEF Next

(* What the operations of the queue do to the job of a memory. *)
LEMMA PhaseEffects ==
    ASSUME QueueOK, NEW m \in Memories
    PROVE  /\ \A S : Queue!Submit(S, Attempts) =>
                 phase'[VectorJob(m)] = IF VectorJob(m) \in S THEN "queued" ELSE phase[VectorJob(m)]
           /\ \A j \in Jobs : Queue!Claim({j}) =>
                 \/ phase'[VectorJob(m)] = phase[VectorJob(m)]
                 \/ phase[VectorJob(m)] # "none" /\ phase'[VectorJob(m)] = "running"
           /\ \A j \in Jobs : Queue!Succeed(j) =>
                 \/ phase'[VectorJob(m)] = phase[VectorJob(m)]
                 \/ j = VectorJob(m) /\ phase[j] = "running"
           /\ \A j \in Jobs : Queue!Fail(j) =>
                 \/ phase'[VectorJob(m)] = phase[VectorJob(m)]
                 \/ phase[VectorJob(m)] # "none" /\ phase'[VectorJob(m)] \in {"failed", "dead_letter"}
  <1>0. VectorJob(m) \in Jobs
    BY JobKeys
  <1>1. ASSUME NEW S, Queue!Submit(S, Attempts)
        PROVE  phase'[VectorJob(m)] = IF VectorJob(m) \in S THEN "queued" ELSE phase[VectorJob(m)]
    BY <1>0, <1>1 DEF Queue!Submit
  <1>2. ASSUME NEW j \in Jobs, Queue!Claim({j})
        PROVE  \/ phase'[VectorJob(m)] = phase[VectorJob(m)]
               \/ phase[VectorJob(m)] # "none" /\ phase'[VectorJob(m)] = "running"
    BY <1>0, <1>2 DEF Queue!Claim
  <1>3. ASSUME NEW j \in Jobs, Queue!Succeed(j)
        PROVE  \/ phase'[VectorJob(m)] = phase[VectorJob(m)]
               \/ j = VectorJob(m) /\ phase[j] = "running"
    BY <1>0, <1>3 DEF Queue!Succeed, QueueOK
  <1>4. ASSUME NEW j \in Jobs, Queue!Fail(j)
        PROVE  \/ phase'[VectorJob(m)] = phase[VectorJob(m)]
               \/ phase[VectorJob(m)] # "none" /\ phase'[VectorJob(m)] \in {"failed", "dead_letter"}
    BY <1>0, <1>4 DEF Queue!Fail, QueueOK
  <1> QED
    BY <1>1, <1>2, <1>3, <1>4

(* The job of a working worker is a job. *)
LEMMA BusyJob ==
    ASSUME TypeOK, NEW w \in Workers, task[w].at # "idle"
    PROVE  task[w].job \in Jobs
  BY TypeParts DEF TasksOK, TaskOK, Task

(* A step that does not store a row for m gives it no job. *)
LEMMA JobsStep ==
    ASSUME TypeOK, Handled, [Next]_vars
    PROVE  JobsHaveRows'
  <1> SUFFICES ASSUME NEW m \in Memories, memory'[m] = "absent"
               PROVE  phase'[VectorJob(m)] = "none"
    BY DEF JobsHaveRows, VectorJob
  <1>0. /\ QueueOK /\ memory[m] = "absent" /\ phase[VectorJob(m)] = "none"
        /\ memory \in [Memories -> {"absent", "live", "deleted"}]
    BY RowStep, TypeParts DEF Handled, JobsHaveRows, TypeOK
  <1>1. ASSUME NEW S \in SUBSET Items, IngestBatchAsync(S)
        PROVE  phase'[VectorJob(m)] = "none"
    <2>1. m \notin S
      BY <1>1 DEF IngestBatchAsync
    <2>2. VectorJob(m) \notin {VectorJob(n) : n \in S} \cup {ParserJob(t) : t \in S \cap RawTurns}
      BY <2>1, JobKeys DEF Memories
    <2> QED
      BY <1>0, <1>1, <2>2, PhaseEffects DEF IngestBatchAsync
  <1>2. ASSUME NEW j \in Jobs, AbandonClaim(j) PROVE phase'[VectorJob(m)] = "none"
    BY <1>0, <1>2, PhaseEffects DEF AbandonClaim
  <1>3. ASSUME NEW w \in Workers, WorkerStep(w) \/ LoseTask(w)
        PROVE  phase'[VectorJob(m)] = "none"
    <2>1. ASSUME NEW j \in Jobs, StartJob(w, j) PROVE phase'[VectorJob(m)] = "none"
      BY <1>0, <2>1, PhaseEffects DEF StartJob
    <2>2. CASE MarkJobSucceeded(w)
      BY <1>0, <2>2, PhaseEffects, BusyJob DEF MarkJobSucceeded
    <2>3. CASE MarkJobFailed(w)
      BY <1>0, <2>3, PhaseEffects, BusyJob DEF MarkJobFailed
    <2>4. CASE EnqueueVectorJobs(w)
      <3>1. m \notin task[w].made
        BY <1>0 DEF Handled, MadeHaveRows
      <3>2. task[w].made \subseteq Memories
        BY DEF TypeOK, Task, Memories
      <3>3. VectorJob(m) \notin {VectorJob(d) : d \in task[w].made}
        BY <3>1, <3>2, JobKeys
      <3> QED
        BY <1>0, <2>4, <3>3, PhaseEffects DEF EnqueueVectorJobs
    <2>5. CASE UNCHANGED queue
      BY <1>0, <2>5 DEF queue
    <2> QED
      BY <1>3, <2>1, <2>2, <2>3, <2>4, <2>5
         DEF WorkerStep, HandlerStep, LoseTask, UpsertEmbedding, StoreFact,
             CallFails, LoadMemory, MarkUpsertPending, MarkIndexed, MarkUpsertFailed,
             ParseTurn, FindByCanonicalKey, FindByRelationTuple, StoreEntityFacts
  <1>4. ASSUME NEW c \in Clients, ClientStep(c) PROVE phase'[VectorJob(m)] = "none"
    <2>1. UNCHANGED queue
      BY <1>4 DEF ClientStep, BeginDelete, DeleteRow, DeleteEmbedding, EndDelete, LoseRequest
    <2> QED
      BY <1>0, <2>1 DEF queue
  <1>5. CASE UNCHANGED vars
    BY <1>0, <1>5 DEF vars, queue
  <1> QED
    BY <1>1, <1>2, <1>3, <1>4, <1>5 DEF Next


(* Moving within a handler changes only the place in it, of one worker. *)
LEMMA GotoFields ==
    ASSUME TasksOK, NEW w \in Workers, NEW at, Goto(w, at)
    PROVE  /\ task'[w].at = at /\ task'[w].job = task[w].job /\ task'[w].made = task[w].made
           /\ \A v \in Workers \ {w} : task'[v] = task[v]
  BY DEF TasksOK, Task, Goto

(* Moving to the next fact keeps the job and records the rows made so far. *)
LEMMA NextFactFields ==
    ASSUME TasksOK, NEW w \in Workers, NEW made, NEW links, NextFact(w, made, links)
    PROVE  /\ task'[w].job = task[w].job /\ task'[w].made = made
           /\ \A v \in Workers \ {w} : task'[v] = task[v]
  BY DEF TasksOK, Task, NextFact

(* A worker that goes idle forgets its job; the others keep theirs. *)
LEMMA IdleFields ==
    ASSUME TasksOK, NEW w \in Workers, task' = [task EXCEPT ![w] = Idle]
    PROVE  /\ task'[w].job = None /\ task'[w].made = {}
           /\ \A v \in Workers \ {w} : task'[v] = task[v]
  BY DEF TasksOK, Idle

(* A step of the parser handler keeps the job, and adds only stored rows   *)
(* to the rows it made.                                                    *)
LEMMA ParserFields ==
    ASSUME TypeOK, NEW w \in Workers,
           \/ ParseTurn(w) \/ FindByCanonicalKey(w) \/ FindByRelationTuple(w)
           \/ StoreFact(w) \/ StoreEntityFacts(w) \/ EnqueueVectorJobs(w)
    PROVE  /\ task[w].at \in ParserSteps /\ task'[w].job = task[w].job
           /\ \A d \in task'[w].made : d \in task[w].made \/ memory'[d] = "live"
           /\ \A v \in Workers \ {w} : task'[v] = task[v]
  <1> USE DEF ParserSteps
  <1>0. /\ TasksOK /\ task[w] \in Task
        /\ memory \in [Memories -> {"absent", "live", "deleted"}]
    BY TypeParts DEF TasksOK, RowsOK
  <1>1. CASE ParseTurn(w)
    <2>1. CASE Goto(w, "succeed")
      BY <1>0, <1>1, <2>1, GotoFields DEF ParseTurn
    <2>2. ASSUME NEW facts,
                 task' = [task EXCEPT ![w] = [task[w] EXCEPT
                             !.at = IF facts = <<>> THEN "entity" ELSE "find_key",
                             !.facts = facts, !.pos = 1]]
          PROVE  /\ task'[w].job = task[w].job /\ task'[w].made = task[w].made
                 /\ \A v \in Workers \ {w} : task'[v] = task[v]
      BY <1>0, <2>2 DEF TasksOK, Task
    <2> QED
      BY <1>1, <2>1, <2>2 DEF ParseTurn
  <1>2. CASE FindByCanonicalKey(w)
    BY <1>0, <1>2, GotoFields, NextFactFields DEF FindByCanonicalKey
  <1>3. CASE FindByRelationTuple(w)
    BY <1>0, <1>3, GotoFields, NextFactFields DEF FindByRelationTuple
  <1>4. CASE StoreFact(w)
    <2>1. PICK d \in Derived :
             /\ memory' = [memory EXCEPT ![d] = "live"]
             /\ NextFact(w, task[w].made \cup {d}, LinksWith(w, d))
      BY <1>4 DEF StoreFact
    <2>2. memory'[d] = "live"
      BY <1>0, <2>1 DEF Memories
    <2> QED
      BY <1>0, <1>4, <2>1, <2>2, NextFactFields DEF StoreFact
  <1>5. CASE StoreEntityFacts(w)
    BY <1>0, <1>5, GotoFields DEF StoreEntityFacts
  <1>6. CASE EnqueueVectorJobs(w)
    BY <1>0, <1>6, GotoFields DEF EnqueueVectorJobs
  <1> QED
    BY <1>1, <1>2, <1>3, <1>4, <1>5, <1>6

(* Every step keeps what is known of tasks: rows exist, and a task about   *)
(* to report has put the embedding.                                        *)
LEMMA TasksStep ==
    ASSUME TypeOK, Handled, [Next]_vars
    PROVE  TasksHaveRows' /\ MadeHaveRows'
  <1> DEFINE Good(v) ==
          /\ \A m \in Memories : task'[v].job = VectorJob(m) =>
                /\ memory'[m] # "absent"
                /\ task'[v].at \in {"mark_indexed", "succeed"} /\ memory'[m] = "live"
                     => m \in vectors'
          /\ \A d \in task'[v].made : memory'[d] # "absent"
  <1> SUFFICES ASSUME NEW v \in Workers PROVE Good(v)
    BY DEF TasksHaveRows, MadeHaveRows, VectorJob
  <1>0. /\ TasksOK /\ RowsOK
        /\ \A w \in Workers : task[w] \in Task /\ task[w].made \subseteq Memories
    BY TypeParts DEF TasksOK, Task, Memories
  <1>a. \A m \in Memories : /\ memory[m] # "absent" => memory'[m] # "absent"
                            /\ memory[m] # "absent" /\ memory'[m] = "live" => memory[m] = "live"
                            /\ m \in vectors /\ memory'[m] = "live" => m \in vectors'
    BY <1>0, RowStep DEF RowsOK
  <1>b. ASSUME NEW w \in Workers, task'[w] = task[w] PROVE Good(w)
    BY <1>0, <1>a, <1>b DEF Handled, TasksHaveRows, MadeHaveRows
  <1>c. \A d \in task[v].made : memory'[d] # "absent"
    BY <1>0, <1>a DEF Handled, MadeHaveRows
  <1>d. ASSUME task' = [task EXCEPT ![v] = Idle] PROVE Good(v)
    <2>1. task'[v].job = None /\ task'[v].made = {}
      BY <1>0, <1>d, IdleFields
    <2>2. \A m \in Memories : VectorJob(m) # None
      BY JobKeys, NoneAssumption
    <2> QED
      BY <2>1, <2>2
  <1>e. ASSUME NEW at, at \notin {"mark_indexed", "succeed"}, Goto(v, at) PROVE Good(v)
    BY <1>0, <1>a, <1>c, <1>e, GotoFields DEF Handled, TasksHaveRows
  <1>1. ASSUME NEW S \in SUBSET Items, IngestBatchAsync(S) PROVE Good(v)
    BY <1>1, <1>b DEF IngestBatchAsync
  <1>2. ASSUME NEW j \in Jobs, AbandonClaim(j) PROVE Good(v)
    BY <1>2, <1>b DEF AbandonClaim
  <1>3. ASSUME NEW w \in Workers, WorkerStep(w) \/ LoseTask(w), w # v PROVE Good(v)
    <2>1. task'[v] = task[v]
      BY <1>0, <1>3, ParserFields, GotoFields, IdleFields
         DEF WorkerStep, HandlerStep, LoseTask, StartJob, MarkJobSucceeded, MarkJobFailed,
             CallFails, LoadMemory, MarkUpsertPending, UpsertEmbedding, MarkIndexed,
             MarkUpsertFailed, TasksOK
    <2> QED
      BY <1>b, <2>1
  <1>4. ASSUME WorkerStep(v) \/ LoseTask(v) PROVE Good(v)
    <2>1. ASSUME NEW j \in Jobs, StartJob(v, j) PROVE Good(v)
      <3>1. /\ task'[v].job = j /\ task'[v].made = {}
            /\ task'[v].at \in {"load_vector", "load_turn"}
        BY <1>0, <2>1 DEF StartJob, TasksOK, Idle
      <3>2. phase[j] # "none"
        BY <2>1 DEF StartJob, Queue!Claim
      <3>3. \A m \in Memories : j = VectorJob(m) => memory[m] # "absent"
        BY <3>2 DEF Handled, JobsHaveRows
      <3> QED
        BY <1>a, <3>1, <3>3
    <2>2. CASE MarkJobSucceeded(v) \/ MarkJobFailed(v) \/ LoseTask(v)
      BY <1>d, <2>2 DEF MarkJobSucceeded, MarkJobFailed, LoseTask
    <2>3. CASE CallFails(v) \/ MarkUpsertPending(v) \/ MarkUpsertFailed(v)
      BY <1>e, <2>3 DEF CallFails, MarkUpsertPending, MarkUpsertFailed
    <2>4. CASE LoadMemory(v)
      <3>1. CASE memory[Target(v)] = "live"
        BY <1>e, <2>4, <3>1 DEF LoadMemory
      <3>2. CASE memory[Target(v)] # "live"
        <4>1. Target(v) \in Memories /\ task[v].job = VectorJob(Target(v))
          BY <1>0, <2>4, VectorTarget DEF LoadMemory, VectorSteps
        <4>2. memory[Target(v)] # "absent" /\ memory' = memory
          BY <2>4, <4>1 DEF LoadMemory, Handled, TasksHaveRows
        <4>3. /\ task'[v].job = VectorJob(Target(v)) /\ task'[v].made = task[v].made
          BY <1>0, <2>4, <3>2, <4>1, GotoFields DEF LoadMemory
        <4> QED
          BY <1>c, <3>2, <4>1, <4>2, <4>3, JobKeys
      <3> QED
        BY <3>1, <3>2
    <2>5. CASE UpsertEmbedding(v)
      <3>1. CASE Goto(v, "mark_failed")
        BY <1>e, <3>1
      <3>2. CASE Goto(v, "mark_indexed") /\ vectors' = vectors \cup {Target(v)}
        <4>1. Target(v) \in Memories /\ task[v].job = VectorJob(Target(v))
          BY <1>0, <2>5, VectorTarget DEF UpsertEmbedding, VectorSteps
        <4>2. memory[Target(v)] # "absent" /\ memory' = memory
          BY <2>5, <4>1 DEF UpsertEmbedding, Handled, TasksHaveRows
        <4>3. /\ task'[v].job = VectorJob(Target(v)) /\ task'[v].made = task[v].made
          BY <1>0, <3>2, <4>1, GotoFields
        <4> QED
          BY <1>c, <3>2, <4>1, <4>2, <4>3, JobKeys
      <3> QED
        BY <2>5, <3>1, <3>2 DEF UpsertEmbedding
    <2>6. CASE MarkIndexed(v)
      <3>1. /\ task[v].at = "mark_indexed" /\ task'[v].job = task[v].job
            /\ task'[v].made = task[v].made
        BY <1>0, <2>6, GotoFields DEF MarkIndexed
      <3> QED
        BY <1>a, <1>c, <3>1 DEF Handled, TasksHaveRows
    <2>7. CASE \/ ParseTurn(v) \/ FindByCanonicalKey(v) \/ FindByRelationTuple(v)
               \/ StoreFact(v) \/ StoreEntityFacts(v) \/ EnqueueVectorJobs(v)
      <3>1. /\ task[v].at \in ParserSteps /\ task'[v].job = task[v].job
            /\ \A d \in task'[v].made : d \in task[v].made \/ memory'[d] = "live"
        BY <2>7, ParserFields
      <3>2. Target(v) \in RawTurns /\ task[v].job = ParserJob(Target(v))
        BY <1>0, <3>1, ParserTarget
      <3> QED
        BY <1>c, <3>1, <3>2, JobKeys
    <2> QED
      BY <1>4, <2>1, <2>2, <2>3, <2>4, <2>5, <2>6, <2>7 DEF WorkerStep, HandlerStep
  <1>5. ASSUME NEW c \in Clients, ClientStep(c) PROVE Good(v)
    <2>1. UNCHANGED task
      BY <1>5 DEF ClientStep, BeginDelete, DeleteRow, DeleteEmbedding, EndDelete, LoseRequest
    <2> QED
      BY <1>b, <2>1
  <1>6. CASE UNCHANGED vars
    BY <1>6, <1>b DEF vars
  <1> QED
    BY <1>1, <1>2, <1>3, <1>4, <1>5, <1>6 DEF Next

(* A request reaches its last call only by deleting the row. *)
LEMMA RequestsStep ==
    ASSUME TypeOK, Handled, [Next]_vars
    PROVE  RowBeforeEmbedding'
  <1> SUFFICES ASSUME NEW c \in Clients, request'[c].at = "vector"
               PROVE  memory'[request'[c].target] = "deleted"
    BY DEF RowBeforeEmbedding
  <1>0. /\ RowsOK /\ RequestsOK /\ request[c] \in Request
        /\ request[c].at # "idle" => request[c].target \in Memories
    BY TypeParts DEF RequestsOK
  <1>1. ASSUME request'[c] = request[c] PROVE memory'[request'[c].target] = "deleted"
    <2>1. request[c].target \in Memories /\ memory[request[c].target] = "deleted"
      BY <1>0, <1>1 DEF Handled, RowBeforeEmbedding
    <2> QED
      BY <1>1, <2>1, RowStep
  <1>2. CASE UNCHANGED request
    BY <1>1, <1>2
  <1>3. ASSUME NEW e \in Clients, ClientStep(e) PROVE memory'[request'[c].target] = "deleted"
    <2>1. CASE e # c
      BY <1>0, <1>1, <1>3, <2>1 DEF ClientStep, BeginDelete, DeleteRow, DeleteEmbedding,
         EndDelete, LoseRequest, RequestAt, RequestsOK
    <2>2. CASE e = c
      <3>1. CASE DeleteRow(c)
        <4>1. CASE RequestAt(c, "vector") /\ memory' = [memory EXCEPT ![request[c].target] = "deleted"]
          <5>1. request[c].target \in Memories
            BY <1>0, <3>1 DEF DeleteRow
          <5>2. request'[c].target = request[c].target
            BY <1>0, <4>1 DEF RequestAt, RequestsOK, Request
          <5> QED
            BY <1>0, <4>1, <5>1, <5>2 DEF RowsOK
        <4>2. CASE RequestAt(c, "failed")
          BY <1>0, <4>2 DEF RequestAt, RequestsOK, Request
        <4> QED
          BY <3>1, <4>1, <4>2 DEF DeleteRow
      <3>2. CASE ~ DeleteRow(c)
        BY <1>0, <1>3, <2>2, <3>2 DEF ClientStep, BeginDelete, DeleteEmbedding, EndDelete,
           LoseRequest, RequestAt, RequestsOK, Request, NoRequest
      <3> QED
        BY <3>1, <3>2
    <2> QED
      BY <2>1, <2>2
  <1>4. ASSUME NEW w \in Workers, WorkerStep(w) \/ LoseTask(w) PROVE UNCHANGED request
    BY <1>4
       DEF WorkerStep, HandlerStep, LoseTask, StartJob, MarkJobSucceeded, MarkJobFailed,
           CallFails, LoadMemory, MarkUpsertPending, UpsertEmbedding, MarkIndexed,
           MarkUpsertFailed, ParseTurn, FindByCanonicalKey, FindByRelationTuple, StoreFact,
           StoreEntityFacts, EnqueueVectorJobs
  <1> QED
    BY <1>2, <1>3, <1>4 DEF Next, vars, IngestBatchAsync, AbandonClaim


(* The facts hold initially and every step keeps them. *)
LEMMA HandledStep ==
    /\ Init => Handled
    /\ TypeOK /\ Handled /\ [Next]_vars => Handled'
  <1>1. ASSUME Init PROVE Handled
    <2>1. JobsHaveRows
      BY <1>1, JobKeys DEF Init, JobsHaveRows, Queue!Init
    <2>2. TasksHaveRows
      BY <1>1, JobKeys, NoneAssumption DEF Init, TasksHaveRows, Idle
    <2>3. MadeHaveRows /\ RowBeforeEmbedding
      BY <1>1 DEF Init, MadeHaveRows, RowBeforeEmbedding, Idle, NoRequest
    <2> QED
      BY <2>1, <2>2, <2>3 DEF Handled
  <1>2. ASSUME TypeOK, Handled, [Next]_vars PROVE Handled'
    BY <1>2, JobsStep, TasksStep, RequestsStep DEF Handled
  <1> QED
    BY <1>1, <1>2

(* A mark of the index changes one row's state of one operation. *)
LEMMA MarkEffects ==
    ASSUME RowsOK, NEW n \in Memories, NEW op \in IndexOps, NEW state,
           MarkIndexState(n, op, state), NEW m \in Memories
    PROVE  \/ index'[m]["upsert"] = index[m]["upsert"]
           \/ m = n /\ op = "upsert" /\ index'[m]["upsert"] = state
  BY DEF RowsOK, MarkIndexState, IndexOps

(* Every step keeps the reports true. *)
LEMMA ReportedStep ==
    TypeOK /\ Handled /\ ReportedIsSearchable /\ [Next]_vars => ReportedIsSearchable'
  <1> SUFFICES ASSUME TypeOK, Handled, ReportedIsSearchable, [Next]_vars,
                      NEW m \in Memories, memory'[m] = "live",
                      index'[m]["upsert"] = "indexed" \/ phase'[VectorJob(m)] = "succeeded"
               PROVE  m \in vectors'
    BY DEF ReportedIsSearchable, VectorJob
  <1>0. /\ QueueOK /\ RowsOK /\ TasksOK /\ RequestsOK
        /\ memory \in [Memories -> {"absent", "live", "deleted"}]
        /\ m \in vectors => m \in vectors'
        /\ memory[m] # "deleted"
    BY RowStep, TypeParts DEF RowsOK
  <1>a. ASSUME memory[m] = "live",
               \/ index[m]["upsert"] = "indexed"
               \/ phase[VectorJob(m)] = "succeeded"
        PROVE  m \in vectors'
    BY <1>0, <1>a DEF ReportedIsSearchable
  <1>b. ASSUME UNCHANGED <<memory, index, queue>> PROVE m \in vectors'
    BY <1>a, <1>b DEF queue
  <1>1. ASSUME NEW S \in SUBSET Items, IngestBatchAsync(S) PROVE m \in vectors'
    <2> DEFINE new == {VectorJob(n) : n \in S} \cup {ParserJob(t) : t \in S \cap RawTurns}
    <2>1. CASE m \in S
      <3>1. phase'[VectorJob(m)] = "queued"
        BY <1>0, <1>1, <2>1, PhaseEffects DEF IngestBatchAsync
      <3>2. index'[m]["upsert"] = "pending"
        BY <1>0, <1>1, <2>1 DEF IngestBatchAsync, RowsOK, IndexOps
      <3> QED
        BY <3>1, <3>2
    <2>2. CASE m \notin S
      <3>1. VectorJob(m) \notin new
        BY <2>2, JobKeys DEF Memories
      <3>2. phase'[VectorJob(m)] = phase[VectorJob(m)]
        BY <1>0, <1>1, <3>1, PhaseEffects DEF IngestBatchAsync
      <3>3. index'[m] = index[m] /\ memory'[m] = memory[m]
        BY <1>1, <2>2 DEF IngestBatchAsync
      <3> QED
        BY <1>a, <3>2, <3>3
    <2> QED
      BY <2>1, <2>2
  <1>2. ASSUME NEW j \in Jobs, Queue!Claim({j}), UNCHANGED <<memory, index>>
        PROVE  m \in vectors'
    BY <1>0, <1>2, <1>a, PhaseEffects
  <1>3. ASSUME NEW w \in Workers, WorkerStep(w) \/ LoseTask(w) PROVE m \in vectors'
    <2>1. CASE \E j \in Jobs : StartJob(w, j)
      BY <1>2, <2>1 DEF StartJob
    <2>2. CASE MarkJobSucceeded(w)
      <3>1. task[w].job \in Jobs /\ task[w].at = "succeed"
        BY <2>2, BusyJob DEF MarkJobSucceeded
      <3>2. CASE task[w].job = VectorJob(m)
        BY <1>0, <2>2, <3>1, <3>2 DEF MarkJobSucceeded, Handled, TasksHaveRows
      <3>3. CASE task[w].job # VectorJob(m)
        BY <1>0, <1>a, <2>2, <3>1, <3>3, PhaseEffects DEF MarkJobSucceeded
      <3> QED
        BY <3>2, <3>3
    <2>3. CASE MarkJobFailed(w)
      BY <1>0, <1>a, <2>3, PhaseEffects, BusyJob DEF MarkJobFailed
    <2>4. CASE MarkUpsertPending(w)
      <3>1. Target(w) \in Memories
        BY <1>0, <2>4, VectorTarget DEF MarkUpsertPending, VectorSteps
      <3> QED
        BY <1>0, <1>a, <2>4, <3>1, MarkEffects DEF MarkUpsertPending, IndexOps, queue
    <2>5. CASE MarkUpsertFailed(w)
      <3>1. Target(w) \in Memories
        BY <1>0, <2>5, VectorTarget DEF MarkUpsertFailed, VectorSteps
      <3> QED
        BY <1>0, <1>a, <2>5, <3>1, MarkEffects DEF MarkUpsertFailed, IndexOps, queue
    <2>6. CASE MarkIndexed(w)
      <3>1. Target(w) \in Memories /\ task[w].job = VectorJob(Target(w))
        BY <1>0, <2>6, VectorTarget DEF MarkIndexed, VectorSteps
      <3>2. memory[Target(w)] = "live" => Target(w) \in vectors
        BY <2>6, <3>1 DEF MarkIndexed, Handled, TasksHaveRows
      <3>3. CASE m = Target(w)
        BY <1>0, <2>6, <3>2, <3>3 DEF MarkIndexed
      <3>4. CASE m # Target(w)
        BY <1>0, <1>a, <2>6, <3>1, <3>4, MarkEffects DEF MarkIndexed, IndexOps, queue
      <3> QED
        BY <3>3, <3>4
    <2>7. CASE StoreFact(w)
      <3>1. PICK d \in Derived :
               /\ memory[d] = "absent"
               /\ memory' = [memory EXCEPT ![d] = "live"]
               /\ index' = [index EXCEPT ![d]["upsert"] = "pending"]
        BY <2>7 DEF StoreFact
      <3>2. UNCHANGED phase
        BY <2>7 DEF StoreFact, queue
      <3>3. CASE m = d
        <4>1. phase'[VectorJob(m)] = "none"
          BY <3>1, <3>2, <3>3 DEF Handled, JobsHaveRows
        <4>2. index'[m]["upsert"] = "pending"
          BY <1>0, <3>1, <3>3 DEF RowsOK, IndexOps
        <4> QED
          BY <4>1, <4>2
      <3>4. CASE m # d
        <4>1. index'[m] = index[m] /\ memory'[m] = memory[m]
          BY <1>0, <3>1, <3>4 DEF RowsOK
        <4> QED
          BY <1>a, <3>2, <4>1
      <3> QED
        BY <3>3, <3>4
    <2>8. CASE EnqueueVectorJobs(w)
      BY <1>0, <1>a, <2>8, PhaseEffects DEF EnqueueVectorJobs
    <2>9. CASE UNCHANGED <<memory, index, queue>>
      BY <1>b, <2>9
    <2> QED
      BY <1>3, <2>1, <2>2, <2>3, <2>4, <2>5, <2>6, <2>7, <2>8, <2>9
         DEF WorkerStep, HandlerStep, LoseTask, CallFails, LoadMemory, UpsertEmbedding,
             ParseTurn, FindByCanonicalKey, FindByRelationTuple, StoreEntityFacts
  <1>4. ASSUME NEW c \in Clients, ClientStep(c) PROVE m \in vectors'
    <2>0. UNCHANGED phase
      BY <1>4
         DEF ClientStep, BeginDelete, DeleteRow, DeleteEmbedding, EndDelete, LoseRequest, queue
    <2>1. index'[m]["upsert"] = index[m]["upsert"]
      <3>1. request[c].at # "idle" => request[c].target \in Memories
        BY <1>0 DEF RequestsOK
      <3>2. ASSUME NEW n \in Targets, BeginDelete(c, n) PROVE index'[m]["upsert"] = index[m]["upsert"]
        BY <1>0, <3>2, TargetsAssumption, MarkEffects DEF BeginDelete, IndexOps
      <3>3. CASE DeleteRow(c)
        BY <1>0, <3>1, <3>3 DEF DeleteRow, RowsOK, IndexOps
      <3>4. CASE EndDelete(c)
        BY <1>0, <3>1, <3>4, MarkEffects DEF EndDelete, IndexOps
      <3>5. CASE UNCHANGED index
        BY <3>5
      <3> QED
        BY <1>4, <3>2, <3>3, <3>4, <3>5 DEF ClientStep, DeleteEmbedding, LoseRequest
    <2>2. memory[m] = "live"
      BY <1>0, <1>4
         DEF ClientStep, BeginDelete, DeleteRow, DeleteEmbedding, EndDelete, LoseRequest
    <2> QED
      BY <1>a, <2>0, <2>1, <2>2
  <1>5. CASE UNCHANGED vars
    BY <1>5, <1>b DEF vars
  <1> QED
    BY <1>1, <1>2, <1>3, <1>4, <1>5 DEF Next, AbandonClaim

(***************************************************************************)
(* What the index row and the job report is true of the vector store, for  *)
(* sqlitevec and for a service: a live memory that is marked indexed, or   *)
(* whose vector job succeeded, has an embedding.                           *)
(***************************************************************************)
THEOREM ReportedIsSearchableCorrect == Spec => []ReportedIsSearchable
  <1>1. Init => ReportedIsSearchable
    BY DEF Init, ReportedIsSearchable
  <1> QED
    BY <1>1, TypeInit, TypeStep, HandledStep, ReportedStep, PTL DEF Spec

-----------------------------------------------------------------------------
(* Retries of a parser job: a fact has at most one row, and a row is       *)
(* without a vector job only while its parse runs or after a try of it     *)
(* failed or was lost.                                                     *)

(***************************************************************************)
(* Both rest on the queue: a job in hand is running, and in one hand.      *)
(***************************************************************************)
Held ==
    /\ \A w \in Workers : task[w].job # None => phase[task[w].job] = "running"
    /\ \A v, w \in Workers : task[v].job # None /\ task[v].job = task[w].job => v = w

(* A step inside a handler keeps the job, and only StoreFact adds a row to *)
(* the rows the task has made.                                             *)
LEMMA HandlerFields ==
    ASSUME TypeOK, NEW w \in Workers, HandlerStep(w),
           ~ MarkJobSucceeded(w), ~ MarkJobFailed(w)
    PROVE  /\ task'[w].job = task[w].job
           /\ task[w].made \subseteq task'[w].made
           /\ task'[w].made = task[w].made \/ StoreFact(w)
           /\ \A v \in Workers \ {w} : task'[v] = task[v]
  <1>0. TasksOK /\ task[w] \in Task
    BY TypeParts DEF TasksOK
  <1>1. CASE ParseTurn(w)
    <2>1. CASE Goto(w, "succeed")
      BY <1>0, <2>1, GotoFields
    <2>2. ASSUME NEW facts,
                 task' = [task EXCEPT ![w] = [task[w] EXCEPT
                             !.at = IF facts = <<>> THEN "entity" ELSE "find_key",
                             !.facts = facts, !.pos = 1]]
          PROVE  /\ task'[w].job = task[w].job /\ task'[w].made = task[w].made
                 /\ \A v \in Workers \ {w} : task'[v] = task[v]
      BY <1>0, <2>2 DEF TasksOK, Task
    <2> QED
      BY <1>1, <2>1, <2>2 DEF ParseTurn
  <1>2. CASE FindByCanonicalKey(w)
    BY <1>0, <1>2, GotoFields, NextFactFields DEF FindByCanonicalKey
  <1>3. CASE FindByRelationTuple(w)
    BY <1>0, <1>3, GotoFields, NextFactFields DEF FindByRelationTuple
  <1>4. CASE StoreFact(w)
    <2>1. PICK d \in Derived : NextFact(w, task[w].made \cup {d}, LinksWith(w, d))
      BY <1>4 DEF StoreFact
    <2> QED
      BY <1>0, <1>4, <2>1, NextFactFields
  <1>5. ASSUME NEW at, Goto(w, at)
        PROVE  /\ task'[w].job = task[w].job
               /\ task'[w].made = task[w].made
               /\ \A v \in Workers \ {w} : task'[v] = task[v]
    BY <1>0, <1>5, GotoFields
  <1> QED
    BY <1>1, <1>2, <1>3, <1>4, <1>5
       DEF HandlerStep, CallFails, LoadMemory, MarkUpsertPending, UpsertEmbedding,
           MarkIndexed, MarkUpsertFailed, StoreEntityFacts, EnqueueVectorJobs

(* A job once queued is never without a row again, its failures are only   *)
(* added to, and it stops running only when its holder ends it.            *)
LEMMA QueueEffects ==
    ASSUME TypeOK, [Next]_vars, NEW j \in Jobs
    PROVE  /\ phase'[j] = "none" => phase[j] = "none"
           /\ failures[j] > 0 => failures'[j] > 0
           /\ \/ phase[j] = "running" => phase'[j] = "running"
              \/ \E w \in Workers :
                    task[w].job = j /\ (MarkJobSucceeded(w) \/ MarkJobFailed(w))
  <1> DEFINE Safe == /\ phase'[j] = "none" => phase[j] = "none"
                     /\ failures[j] > 0 => failures'[j] > 0
             Runs == phase[j] = "running" => phase'[j] = "running"
             Ends == \E w \in Workers :
                        task[w].job = j /\ (MarkJobSucceeded(w) \/ MarkJobFailed(w))
  <1>0. QueueOK
    BY TypeParts
  <1>a. ASSUME NEW S, Queue!Submit(S, Attempts) PROVE Safe /\ Runs
    BY <1>0, <1>a DEF Queue!Submit, QueueOK
  <1>b. ASSUME NEW i \in Jobs, Queue!Claim({i}) PROVE Safe /\ Runs
    BY <1>0, <1>b DEF Queue!Claim, QueueOK
  <1>c. ASSUME NEW i \in Jobs, Queue!Succeed(i) PROVE Safe /\ (i # j => Runs)
    BY <1>0, <1>c DEF Queue!Succeed, QueueOK
  <1>d. ASSUME NEW i \in Jobs, Queue!Fail(i) PROVE Safe /\ (i # j => Runs)
    BY <1>0, <1>d DEF Queue!Fail, QueueOK
  <1>e. ASSUME UNCHANGED queue PROVE Safe /\ Runs
    BY <1>e DEF queue
  <1> HIDE DEF Safe, Runs
  <1>1. ASSUME NEW w \in Workers, WorkerStep(w) \/ LoseTask(w)
        PROVE  Safe /\ (Runs \/ Ends)
    <2>1. CASE MarkJobSucceeded(w) \/ MarkJobFailed(w)
      <3>1. Safe /\ (task[w].job # j => Runs)
        BY <1>c, <1>d, <2>1, BusyJob DEF MarkJobSucceeded, MarkJobFailed
      <3>2. task[w].job = j => Ends
        BY <2>1
      <3> QED
        BY <3>1, <3>2
    <2>2. CASE UNCHANGED queue
      BY <1>e, <2>2
    <2> QED
      BY <1>1, <1>a, <1>b, <2>1, <2>2
         DEF WorkerStep, HandlerStep, StartJob, LoseTask, EnqueueVectorJobs, UpsertEmbedding,
             StoreFact, CallFails, LoadMemory, MarkUpsertPending, MarkIndexed,
             MarkUpsertFailed, ParseTurn, FindByCanonicalKey, FindByRelationTuple,
             StoreEntityFacts
  <1>2. ASSUME NEW S \in SUBSET Items, IngestBatchAsync(S) PROVE Safe /\ Runs
    BY <1>2, <1>a DEF IngestBatchAsync
  <1>3. ASSUME NEW i \in Jobs, AbandonClaim(i) PROVE Safe /\ Runs
    BY <1>3, <1>b DEF AbandonClaim
  <1>4. ASSUME NEW c \in Clients, ClientStep(c) PROVE Safe /\ Runs
    BY <1>4, <1>e
       DEF ClientStep, BeginDelete, DeleteRow, DeleteEmbedding, EndDelete, LoseRequest
  <1>5. ASSUME UNCHANGED vars PROVE Safe /\ Runs
    BY <1>5, <1>e DEF vars, queue
  <1> HIDE DEF Ends
  <1>6. Safe /\ (Runs \/ Ends)
    BY <1>1, <1>2, <1>3, <1>4, <1>5 DEF Next
  <1> QED
    BY <1>6 DEF Safe, Runs, Ends

(* The task of a worker is kept, ended, begun or moved on by a step. *)
LEMMA TaskCases ==
    ASSUME TypeOK, [Next]_vars
    PROVE  \/ UNCHANGED task
           \/ \E w \in Workers :
                 /\ \A v \in Workers \ {w} : task'[v] = task[v]
                 /\ \/ /\ task'[w].job = None /\ task'[w].made = {}
                       /\ MarkJobSucceeded(w) \/ MarkJobFailed(w) \/ LoseTask(w)
                    \/ \E j \in Jobs : /\ task'[w].job = j /\ task'[w].made = {}
                                       /\ StartJob(w, j)
                    \/ /\ task'[w].job = task[w].job
                       /\ task[w].made \subseteq task'[w].made
                       /\ task'[w].made = task[w].made \/ StoreFact(w)
                       /\ HandlerStep(w) /\ ~ MarkJobSucceeded(w) /\ ~ MarkJobFailed(w)
  <1>0. TasksOK
    BY TypeParts
  <1>1. ASSUME NEW w \in Workers, MarkJobSucceeded(w) \/ MarkJobFailed(w) \/ LoseTask(w)
        PROVE  /\ \A v \in Workers \ {w} : task'[v] = task[v]
               /\ task'[w].job = None /\ task'[w].made = {}
    BY <1>0, <1>1, IdleFields DEF MarkJobSucceeded, MarkJobFailed, LoseTask
  <1>2. ASSUME NEW w \in Workers, NEW j \in Jobs, StartJob(w, j)
        PROVE  /\ \A v \in Workers \ {w} : task'[v] = task[v]
               /\ task'[w].job = j /\ task'[w].made = {}
    BY <1>0, <1>2 DEF StartJob, TasksOK, Idle
  <1>3. ASSUME NEW w \in Workers, HandlerStep(w),
               ~ MarkJobSucceeded(w), ~ MarkJobFailed(w)
        PROVE  /\ \A v \in Workers \ {w} : task'[v] = task[v]
               /\ task'[w].job = task[w].job
               /\ task[w].made \subseteq task'[w].made
               /\ task'[w].made = task[w].made \/ StoreFact(w)
    BY <1>3, HandlerFields
  <1>4. ASSUME NEW c \in Clients, ClientStep(c) PROVE UNCHANGED task
    BY <1>4
       DEF ClientStep, BeginDelete, DeleteRow, DeleteEmbedding, EndDelete, LoseRequest
  <1>5. ASSUME NEW w \in Workers, WorkerStep(w) \/ LoseTask(w)
        PROVE  \/ MarkJobSucceeded(w) \/ MarkJobFailed(w) \/ LoseTask(w)
               \/ \E j \in Jobs : StartJob(w, j)
               \/ HandlerStep(w) /\ ~ MarkJobSucceeded(w) /\ ~ MarkJobFailed(w)
    BY <1>5 DEF WorkerStep
  <1>6. CASE \E w \in Workers : WorkerStep(w) \/ LoseTask(w)
    BY <1>1, <1>2, <1>3, <1>5, <1>6
  <1>7. CASE ~ \E w \in Workers : WorkerStep(w) \/ LoseTask(w)
    BY <1>4, <1>7 DEF Next, vars, IngestBatchAsync, AbandonClaim
  <1> QED
    BY <1>6, <1>7

(* A claim takes only a job that waits, so nobody holds it; marks are the  *)
(* holder's own.                                                           *)
LEMMA HeldStep ==
    /\ Init => Held
    /\ TypeOK /\ Held /\ [Next]_vars => Held'
  <1>1. Init => Held
    BY DEF Init, Held, Idle
  <1>2. ASSUME TypeOK, Held, [Next]_vars PROVE Held'
    <2>0. /\ \A w \in Workers : task[w].job \in Jobs \cup {None}
          /\ QueueOK /\ None \notin Jobs
      BY <1>2, TypeParts, NoneAssumption DEF TasksOK, Task
    <2>1. ASSUME NEW v \in Workers, task'[v].job = task[v].job, task[v].job # None,
                 ~ MarkJobSucceeded(v), ~ MarkJobFailed(v)
          PROVE  phase'[task'[v].job] = "running"
      <3>1. task[v].job \in Jobs /\ phase[task[v].job] = "running"
        BY <1>2, <2>0, <2>1 DEF Held
      <3>2. \A w \in Workers : task[w].job = task[v].job => w = v
        BY <1>2, <2>1 DEF Held
      <3> QED
        BY <1>2, <2>1, <3>1, <3>2, QueueEffects
    <2>2. ASSUME NEW w \in Workers, NEW j \in Jobs, StartJob(w, j)
          PROVE  /\ phase'[j] = "running"
                 /\ \A v \in Workers : task[v].job # j
      <3>1. phase[j] # "running" /\ phase'[j] = "running"
        BY <2>0, <2>2 DEF StartJob, Queue!Claim
      <3> QED
        BY <1>2, <2>0, <3>1 DEF Held
    <2>3. CASE UNCHANGED task
      <3>1. ASSUME NEW v \in Workers, task[v].job # None
            PROVE  ~ MarkJobSucceeded(v) /\ ~ MarkJobFailed(v)
        <4>1. TasksOK
          BY <1>2, TypeParts
        <4> QED
          BY <2>3, <3>1, <4>1, IdleFields DEF MarkJobSucceeded, MarkJobFailed
      <3>2. \A v \in Workers : task[v].job # None => phase'[task[v].job] = "running"
        BY <2>1, <2>3, <3>1
      <3> QED
        BY <1>2, <2>3, <3>2 DEF Held
    <2>4. ASSUME NEW w \in Workers,
                 \A v \in Workers \ {w} : task'[v] = task[v],
                 \/ task'[w].job = None
                 \/ \E j \in Jobs : task'[w].job = j /\ StartJob(w, j)
                 \/ /\ task'[w].job = task[w].job
                    /\ ~ MarkJobSucceeded(w) /\ ~ MarkJobFailed(w)
          PROVE  Held'
      <3>1. ASSUME NEW v \in Workers \ {w}, task[v].job # None
            PROVE  ~ MarkJobSucceeded(v) /\ ~ MarkJobFailed(v)
        <4>1. TasksOK
          BY <1>2, TypeParts
        <4> QED
          BY <2>4, <3>1, <4>1, IdleFields DEF MarkJobSucceeded, MarkJobFailed
      <3>2. \A v \in Workers \ {w} : task'[v].job # None => phase'[task'[v].job] = "running"
        BY <2>1, <2>4, <3>1
      <3>3. task'[w].job # None => phase'[task'[w].job] = "running"
        BY <2>1, <2>2, <2>4
      <3>4. \A v \in Workers \ {w} :
               task'[w].job # None => task'[v].job # task'[w].job
        BY <1>2, <2>2, <2>4 DEF Held
      <3>5. \A u, v \in Workers \ {w} :
               task'[v].job # None /\ task'[u].job = task'[v].job => u = v
        BY <1>2, <2>4 DEF Held
      <3> QED
        BY <3>2, <3>3, <3>4, <3>5 DEF Held
    <2> QED
      BY <1>2, <2>3, <2>4, TaskCases
  <1> QED
    BY <1>1, <1>2

-----------------------------------------------------------------------------
(* Only StoreFact makes a derived row live, and only it writes its key.    *)
LEMMA RowCases ==
    ASSUME TypeOK, [Next]_vars
    PROVE  \/ /\ UNCHANGED <<keyOf, parentOf>>
              /\ \A d \in Derived : memory'[d] = "live" => memory[d] = "live"
           \/ \E w \in Workers : StoreFact(w)
  <1>0. /\ memory \in [Memories -> {"absent", "live", "deleted"}]
        /\ \A c \in Clients : request[c].at # "idle" => request[c].target \in Memories
    BY DEF TypeOK
  <1> DEFINE SameKeys == /\ UNCHANGED <<keyOf, parentOf>>
                     /\ \A d \in Derived : memory'[d] = "live" => memory[d] = "live"
  <1>1. ASSUME NEW S \in SUBSET Items, IngestBatchAsync(S) PROVE SameKeys
    BY <1>0, <1>1, ItemsAssumption DEF IngestBatchAsync, Memories
  <1>2. ASSUME NEW j \in Jobs, AbandonClaim(j) PROVE SameKeys
    BY <1>2 DEF AbandonClaim
  <1>3. ASSUME NEW w \in Workers, WorkerStep(w) \/ LoseTask(w), ~ StoreFact(w) PROVE SameKeys
    <2>1. UNCHANGED <<keyOf, parentOf, memory>>
      BY <1>3
         DEF WorkerStep, HandlerStep, LoseTask, StartJob, MarkJobSucceeded, MarkJobFailed,
             CallFails, LoadMemory, MarkUpsertPending, UpsertEmbedding, MarkIndexed,
             MarkUpsertFailed, ParseTurn, FindByCanonicalKey, FindByRelationTuple,
             StoreEntityFacts, EnqueueVectorJobs
    <2> QED
      BY <2>1
  <1>4. ASSUME NEW c \in Clients, ClientStep(c) PROVE SameKeys
    <2>1. CASE DeleteRow(c)
      BY <1>0, <2>1 DEF DeleteRow, Memories
    <2>2. CASE UNCHANGED <<keyOf, parentOf, memory>>
      BY <2>2
    <2> QED
      BY <1>4, <2>1, <2>2 DEF ClientStep, BeginDelete, DeleteEmbedding, EndDelete, LoseRequest
  <1>5. ASSUME UNCHANGED vars PROVE SameKeys
    BY <1>5 DEF vars
  <1> HIDE DEF SameKeys
  <1>6. SameKeys \/ \E w \in Workers : StoreFact(w)
    BY <1>1, <1>2, <1>3, <1>4, <1>5 DEF Next
  <1> QED
    BY <1>6 DEF SameKeys

(* The key under which a handler stores the fact it looks at. *)
FactKey(w) == CanonicalKey(Target(w), task[w].pos, Fact(w))

(* What StoreFact does to the rows: d becomes live, under the fact's key,  *)
(* with the turn as its parent.                                            *)
Stored(w, d) ==
    /\ memory[d] = "absent"
    /\ memory' = [memory EXCEPT ![d] = "live"]
    /\ keyOf' = [keyOf EXCEPT ![d] = FactKey(w)]
    /\ parentOf' = [parentOf EXCEPT ![d] = Target(w)]
    /\ task'[w].job = task[w].job
    /\ task'[w].made = task[w].made \cup {d}
    /\ task'[w].at \in {"entity", "find_key"}
    /\ \A v \in Workers \ {w} : task'[v] = task[v]

LEMMA StoreFactStores ==
    ASSUME TypeOK, NEW w \in Workers, StoreFact(w)
    PROVE  /\ task[w].at = "store" /\ UNCHANGED queue
           /\ Target(w) \in RawTurns /\ task[w].job = ParserJob(Target(w))
           /\ \E d \in Derived : Stored(w, d)
  <1>0. TasksOK /\ task[w].at = "store"
    BY TypeParts DEF StoreFact
  <1>1. PICK d \in Derived :
           /\ memory[d] = "absent"
           /\ memory' = [memory EXCEPT ![d] = "live"]
           /\ keyOf' = [keyOf EXCEPT ![d] = FactKey(w)]
           /\ parentOf' = [parentOf EXCEPT ![d] = Target(w)]
           /\ NextFact(w, task[w].made \cup {d}, LinksWith(w, d))
    BY DEF StoreFact, FactKey
  <1>2. task'[w].at \in {"entity", "find_key"}
    BY <1>0, <1>1 DEF NextFact, TasksOK, Task
  <1>3. Stored(w, d)
    BY <1>0, <1>1, <1>2, NextFactFields DEF Stored
  <1>4. Target(w) \in RawTurns /\ task[w].job = ParserJob(Target(w))
    BY <1>0, ParserTarget DEF ParserSteps
  <1> QED
    BY <1>0, <1>3, <1>4 DEF StoreFact

(* Every derived row has a key, and every row's parent is a turn.          *)
KeysOK ==
    /\ keyOf = [d \in Derived |-> keyOf[d]]
    /\ parentOf \in [Derived -> RawTurns \cup {None}]
    /\ \A d \in Derived : memory[d] = "live" => parentOf[d] \in RawTurns

LEMMA KeysStep ==
    /\ Init => KeysOK
    /\ TypeOK /\ KeysOK /\ [Next]_vars => KeysOK'
  <1>1. Init => KeysOK
    BY DEF Init, KeysOK, Memories
  <1>2. ASSUME TypeOK, KeysOK, [Next]_vars PROVE KeysOK'
    <2>1. ASSUME NEW w \in Workers, StoreFact(w) PROVE KeysOK'
      <3>1. PICK d \in Derived : Stored(w, d)
        BY <1>2, <2>1, StoreFactStores
      <3>2. Target(w) \in RawTurns /\ memory \in [Memories -> {"absent", "live", "deleted"}]
        BY <1>2, <2>1, StoreFactStores DEF TypeOK
      <3>3. keyOf' = [e \in Derived |-> keyOf'[e]]
        BY <1>2, <3>1 DEF KeysOK, Stored
      <3>4. /\ parentOf' \in [Derived -> RawTurns \cup {None}]
            /\ \A e \in Derived : memory'[e] = "live" => parentOf'[e] \in RawTurns
        BY <1>2, <3>1, <3>2 DEF KeysOK, Stored, Memories
      <3> QED
        BY <3>3, <3>4 DEF KeysOK
    <2>2. CASE /\ UNCHANGED <<keyOf, parentOf>>
               /\ \A d \in Derived : memory'[d] = "live" => memory[d] = "live"
      BY <1>2, <2>2 DEF KeysOK
    <2> QED
      BY <1>2, <2>1, <2>2, RowCases
  <1> QED
    BY <1>1, <1>2

(***************************************************************************)
(* OneRowPerFact is not inductive: between the look-up of a key and the    *)
(* insert other steps run.  While a handler stands there, no row has its   *)
(* key; only the holder of the turn's parser job could add one.            *)
(***************************************************************************)
NoRowYet ==
    \A w \in Workers : task[w].at \in {"find_tuple", "store"} => RowsWithKey(FactKey(w)) = {}

(* Turns with equal texts share their keys, so their jobs would race.      *)
DistinctTexts == \A t, u \in RawTurns : ContentOf[t] = ContentOf[u] => t = u

(* Before a handler's insert, no other handler stands before the same key. *)
LEMMA KeysAreExclusive ==
    ASSUME DistinctTexts, TypeOK, Held,
           NEW v \in Workers, NEW w \in Workers,
           task[v].at \in ParserSteps, task[w].at \in ParserSteps,
           FactKey(v) = FactKey(w)
    PROVE  v = w
  <1>0. TasksOK
    BY TypeParts
  <1>1. /\ Target(v) \in RawTurns /\ task[v].job = ParserJob(Target(v))
        /\ Target(w) \in RawTurns /\ task[w].job = ParserJob(Target(w))
    BY <1>0, ParserTarget
  <1>2. Target(v) = Target(w)
    <2>1. ContentOf[Target(v)] = ContentOf[Target(w)]
      BY DEF FactKey, CanonicalKey
    <2> QED
      BY <1>1, <2>1 DEF DistinctTexts
  <1>3. task[v].job = task[w].job /\ task[v].job # None
    BY <1>1, <1>2, JobKeys, NoneAssumption
  <1> QED
    BY <1>3 DEF Held

(* A step that makes no row live leaves every handler's key free: the      *)
(* look-up has just found it free, or the handler stood there before.      *)
LEMMA NoRowYetKept ==
    ASSUME TypeOK, NoRowYet, [Next]_vars, UNCHANGED keyOf,
           \A d \in Derived : memory'[d] = "live" => memory[d] = "live",
           NEW v \in Workers, task'[v].at \in {"find_tuple", "store"}
    PROVE  RowsWithKey(FactKey(v))' = {}
  <1>0. TasksOK /\ task[v] \in Task
    BY TypeParts DEF TasksOK
  <1>1. \A key : RowsWithKey(key) = {} => RowsWithKey(key)' = {}
    BY DEF RowsWithKey
  <1>2. ASSUME task'[v] = task[v] PROVE RowsWithKey(FactKey(v))' = {}
    <2>1. FactKey(v)' = FactKey(v) /\ RowsWithKey(FactKey(v)) = {}
      BY <1>2 DEF FactKey, CanonicalKey, Target, Fact, NoRowYet
    <2> QED
      BY <2>1 DEF RowsWithKey
  <1>3. ASSUME NEW at, Goto(v, at), RowsWithKey(FactKey(v)) = {}
        PROVE  RowsWithKey(FactKey(v))' = {}
    <2>1. /\ task'[v].job = task[v].job /\ task'[v].pos = task[v].pos
          /\ task'[v].facts = task[v].facts
      BY <1>0, <1>3 DEF Goto, TasksOK, Task
    <2>2. FactKey(v)' = FactKey(v)
      BY <2>1 DEF FactKey, CanonicalKey, Target, Fact
    <2> QED
      BY <1>3, <2>2 DEF RowsWithKey
  <1>4. CASE UNCHANGED task
    BY <1>2, <1>4
  <1>5. ASSUME NEW w \in Workers, \A u \in Workers \ {w} : task'[u] = task[u], w # v
        PROVE  RowsWithKey(FactKey(v))' = {}
    BY <1>2, <1>5
  <1>6. ASSUME HandlerStep(v), ~ MarkJobSucceeded(v), ~ MarkJobFailed(v)
        PROVE  RowsWithKey(FactKey(v))' = {}
    <2>1. ASSUME NEW made, NEW links, NextFact(v, made, links) PROVE FALSE
      BY <1>0, <2>1 DEF NextFact, TasksOK, Task
    <2>2. ASSUME NEW at, at \notin {"find_tuple", "store"}, Goto(v, at) PROVE FALSE
      BY <1>0, <2>2, GotoFields
    <2>3. CASE FindByCanonicalKey(v)
      BY <1>3, <2>1, <2>3 DEF FindByCanonicalKey, FactKey
    <2>4. CASE FindByRelationTuple(v)
      <3>1. RowsWithKey(FactKey(v)) = {}
        BY <2>4 DEF FindByRelationTuple, NoRowYet
      <3> QED
        BY <1>3, <2>1, <2>4, <3>1 DEF FindByRelationTuple
    <2>5. CASE ParseTurn(v)
      <3>1. ASSUME NEW facts,
                   task' = [task EXCEPT ![v] = [task[v] EXCEPT
                               !.at = IF facts = <<>> THEN "entity" ELSE "find_key",
                               !.facts = facts, !.pos = 1]]
            PROVE  FALSE
        BY <1>0, <3>1 DEF TasksOK, Task
      <3> QED
        BY <2>2, <2>5, <3>1 DEF ParseTurn
    <2>6. CASE StoreFact(v)
      BY <2>1, <2>6 DEF StoreFact
    <2> QED
      BY <1>6, <2>2, <2>3, <2>4, <2>5, <2>6
         DEF HandlerStep, CallFails, LoadMemory, MarkUpsertPending, UpsertEmbedding,
             MarkIndexed, MarkUpsertFailed, StoreEntityFacts, EnqueueVectorJobs
  <1>7. ASSUME NEW j \in Jobs, StartJob(v, j) PROVE FALSE
    BY <1>0, <1>7 DEF StartJob, TasksOK, Idle
  <1>8. ASSUME task'[v].job = None PROVE FALSE
    <2>1. TasksOK'
      BY TypeStep DEF TypeOK, TasksOK
    <2> QED
      BY <1>8, <2>1 DEF TasksOK, TaskOK
  <1> QED
    BY <1>4, <1>5, <1>6, <1>7, <1>8, TaskCases

(* Every step keeps the keys apart. *)
LEMMA OneRowStep ==
    ASSUME DistinctTexts, TypeOK, Held, KeysOK, NoRowYet, OneRowPerFact, [Next]_vars
    PROVE  NoRowYet' /\ OneRowPerFact'
  <1>1. CASE /\ UNCHANGED <<keyOf, parentOf>>
             /\ \A d \in Derived : memory'[d] = "live" => memory[d] = "live"
    <2>1. NoRowYet'
      BY <1>1, NoRowYetKept DEF NoRowYet
    <2>2. OneRowPerFact'
      BY <1>1 DEF OneRowPerFact
    <2> QED
      BY <2>1, <2>2
  <1>2. ASSUME NEW w \in Workers, StoreFact(w) PROVE NoRowYet' /\ OneRowPerFact'
    <2>1. PICK d \in Derived : Stored(w, d)
      BY <1>2, StoreFactStores
    <2>2. /\ task[w].at = "store"
          /\ memory \in [Memories -> {"absent", "live", "deleted"}]
      BY <1>2 DEF StoreFact, TypeOK
    <2>3. RowsWithKey(FactKey(w)) = {}
      BY <2>2 DEF NoRowYet
    <2>4. /\ \A e \in Derived \ {d} : memory'[e] = memory[e] /\ keyOf'[e] = keyOf[e]
          /\ keyOf'[d] = FactKey(w)
      BY <2>1, <2>2 DEF Stored, KeysOK, Memories
    <2>5. OneRowPerFact'
      BY <2>3, <2>4 DEF OneRowPerFact, RowsWithKey
    <2>6. ASSUME NEW v \in Workers, task'[v].at \in {"find_tuple", "store"}
          PROVE  RowsWithKey(FactKey(v))' = {}
      <3>1. v # w /\ task'[v] = task[v]
        BY <2>1, <2>6 DEF Stored
      <3>2. FactKey(v)' = FactKey(v) /\ RowsWithKey(FactKey(v)) = {}
        BY <2>6, <3>1 DEF FactKey, CanonicalKey, Target, Fact, NoRowYet
      <3>3. FactKey(v) # FactKey(w)
        BY <2>2, <2>6, <3>1, KeysAreExclusive DEF ParserSteps
      <3> QED
        BY <2>4, <3>2, <3>3 DEF RowsWithKey
    <2> QED
      BY <2>5, <2>6 DEF NoRowYet
  <1> QED
    BY <1>1, <1>2, RowCases

(***************************************************************************)
(* However often the parser job of a turn is retried, lost or abandoned,   *)
(* and however its steps fall between those of other workers and of        *)
(* deletes, no two live rows have one canonical key, provided that no two  *)
(* turns have the same text.                                               *)
(***************************************************************************)
THEOREM OneRowPerFactCorrect == DistinctTexts => (Spec => []OneRowPerFact)
  <1> SUFFICES ASSUME DistinctTexts PROVE Spec => []OneRowPerFact
    OBVIOUS
  <1> DEFINE IInv == TypeOK /\ Held /\ KeysOK /\ NoRowYet /\ OneRowPerFact
  <1>1. Init => IInv
    <2>1. Init => NoRowYet
      BY DEF Init, NoRowYet, Idle
    <2>2. Init => OneRowPerFact
      BY DEF Init, OneRowPerFact, Memories
    <2> QED
      BY <2>1, <2>2, TypeInit, HeldStep, KeysStep
  <1>2. IInv /\ [Next]_vars => IInv'
    BY TypeStep, HeldStep, KeysStep, OneRowStep
  <1> QED
    BY <1>1, <1>2, PTL DEF Spec

-----------------------------------------------------------------------------
(***************************************************************************)
(* UnqueuedOnlyAfterFailure needs that a try ends in success only after    *)
(* the vector jobs of its rows are queued, and that a handler starts       *)
(* without rows of its own.                                                *)
(***************************************************************************)
MadeIsQueued ==
    \A w \in Workers :
        /\ task[w].at \in VectorSteps \cup {"load_turn"} => task[w].made = {}
        /\ task[w].at = "succeed" =>
              \A d \in task[w].made : phase[VectorJob(d)] # "none"

LEMMA MadeStep ==
    /\ Init => MadeIsQueued
    /\ TypeOK /\ MadeIsQueued /\ [Next]_vars => MadeIsQueued'
  <1>1. Init => MadeIsQueued
    BY DEF Init, MadeIsQueued, Idle
  <1>2. ASSUME TypeOK, MadeIsQueued, [Next]_vars PROVE MadeIsQueued'
    <2> DEFINE Good(v) ==
            /\ task'[v].at \in VectorSteps \cup {"load_turn"} => task'[v].made = {}
            /\ task'[v].at = "succeed" =>
                  \A d \in task'[v].made : phase'[VectorJob(d)] # "none"
    <2> SUFFICES ASSUME NEW v \in Workers PROVE Good(v)
      BY DEF MadeIsQueued, VectorJob
    <2>0. /\ TasksOK /\ task[v] \in Task /\ task[v].made \subseteq Memories
          /\ QueueOK
      BY <1>2, TypeParts DEF TasksOK, Task, Memories
    <2>a. \A d \in task[v].made : phase[VectorJob(d)] # "none" => phase'[VectorJob(d)] # "none"
      BY <1>2, <2>0, QueueEffects, JobKeys
    <2>b. ASSUME task'[v] = task[v] PROVE Good(v)
      BY <1>2, <2>a, <2>b DEF MadeIsQueued
    <2>c. ASSUME task'[v].made = {} PROVE Good(v)
      BY <2>c
    <2>d. ASSUME NEW at, at \notin VectorSteps \cup {"load_turn", "succeed"},
                 task'[v].at = at
          PROVE  Good(v)
      BY <2>d
    <2>e. ASSUME task[v].at \in VectorSteps \cup {"load_turn"}, task'[v].made = task[v].made
          PROVE  Good(v)
      BY <1>2, <2>c, <2>e DEF MadeIsQueued
    <2>1. ASSUME HandlerStep(v), ~ MarkJobSucceeded(v), ~ MarkJobFailed(v) PROVE Good(v)
      <3> USE DEF VectorSteps
      <3>1. ASSUME NEW made, NEW links, NextFact(v, made, links) PROVE Good(v)
        <4>1. task'[v].at \in {"entity", "find_key"}
          BY <2>0, <3>1 DEF NextFact, TasksOK, Task
        <4> QED
          BY <2>d, <4>1
      <3>2. ASSUME NEW at, Goto(v, at), at \notin VectorSteps \cup {"load_turn", "succeed"}
            PROVE  Good(v)
        BY <2>0, <2>d, <3>2, GotoFields
      <3>3. ASSUME NEW at, Goto(v, at), task[v].at \in VectorSteps \cup {"load_turn"}
            PROVE  Good(v)
        BY <2>0, <2>e, <3>3, GotoFields
      <3>4. CASE \/ LoadMemory(v) \/ MarkUpsertPending(v) \/ UpsertEmbedding(v)
                 \/ MarkIndexed(v) \/ MarkUpsertFailed(v)
        BY <3>3, <3>4
           DEF LoadMemory, MarkUpsertPending, UpsertEmbedding, MarkIndexed, MarkUpsertFailed
      <3>5. CASE ParseTurn(v)
        <4>1. task[v].at = "load_turn"
          BY <3>5 DEF ParseTurn
        <4>2. task'[v].made = task[v].made
          BY <1>2, <3>5, HandlerFields, <2>1 DEF StoreFact, ParseTurn
        <4> QED
          BY <2>e, <4>1, <4>2
      <3>6. CASE FindByCanonicalKey(v)
        <4>1. ASSUME NEW at, at \in {"store", "find_tuple"}, Goto(v, at) PROVE Good(v)
          BY <3>2, <4>1
        <4> QED
          BY <3>1, <3>6, <4>1 DEF FindByCanonicalKey
      <3>7. CASE FindByRelationTuple(v)
        BY <3>1, <3>2, <3>7 DEF FindByRelationTuple
      <3>8. CASE StoreFact(v)
        BY <3>1, <3>8 DEF StoreFact
      <3>9. CASE StoreEntityFacts(v) \/ CallFails(v)
        BY <3>2, <3>9 DEF StoreEntityFacts, CallFails
      <3>10. CASE EnqueueVectorJobs(v)
        <4>1. task'[v].made = task[v].made /\ task'[v].at = "succeed"
          BY <2>0, <3>10, GotoFields DEF EnqueueVectorJobs
        <4>2. \A d \in task[v].made : phase'[VectorJob(d)] = "queued"
          BY <2>0, <3>10, PhaseEffects DEF EnqueueVectorJobs
        <4> QED
          BY <4>1, <4>2
      <3> QED
        BY <2>1, <3>4, <3>5, <3>6, <3>7, <3>8, <3>9, <3>10 DEF HandlerStep
    <2>2. CASE UNCHANGED task
      BY <2>2, <2>b
    <2>3. ASSUME NEW w \in Workers, w # v, \A u \in Workers \ {w} : task'[u] = task[u]
          PROVE  Good(v)
      BY <2>3, <2>b
    <2> HIDE DEF Good
    <2> QED
      BY <1>2, <2>1, <2>2, <2>3, <2>c, TaskCases
  <1> QED
    BY <1>1, <1>2

(* What excuses a row from having a vector job, for the parser job j. *)
Excused(j, d) ==
    \/ \E w \in Workers : task[w].job = j /\ d \in task[w].made
    \/ failures[j] > 0
    \/ phase[j] = "running" /\ ~ InHand(j)

(* An excuse lasts until the row's vector job is queued. *)
LEMMA ExcuseLasts ==
    ASSUME TypeOK, Held, MadeIsQueued, [Next]_vars,
           NEW j \in Jobs, NEW d \in Derived, Excused(j, d),
           phase[VectorJob(d)] = "none"
    PROVE  Excused(j, d)'
  <1>0. /\ QueueOK /\ TasksOK /\ j # None
        /\ \A w \in Workers : task[w].job \in Jobs \cup {None}
    BY TypeParts, NoneAssumption DEF TasksOK, Task
  <1>1. CASE failures[j] > 0
    BY <1>1, QueueEffects DEF Excused
  <1>2. CASE phase[j] = "running" /\ ~ InHand(j)
    <2>1. phase'[j] = "running"
      BY <1>2, QueueEffects DEF InHand
    <2>2. \A w \in Workers, i \in Jobs : StartJob(w, i) => phase[i] # "running"
      BY DEF StartJob, Queue!Claim
    <2>3. \A w \in Workers : task'[w].job # j
      BY <1>0, <1>2, <2>2, TaskCases DEF InHand
    <2> QED
      BY <2>1, <2>3 DEF Excused, InHand
  <1>3. ASSUME NEW w \in Workers, task[w].job = j, d \in task[w].made PROVE Excused(j, d)'
    <2>1. ASSUME task'[w].job = j, d \in task'[w].made PROVE Excused(j, d)'
      BY <2>1 DEF Excused
    <2>2. CASE MarkJobSucceeded(w)
      BY <1>3, <2>2 DEF MarkJobSucceeded, MadeIsQueued
    <2>3. CASE MarkJobFailed(w)
      <3>1. failures'[j] = failures[j] + 1 /\ failures[j] \in Nat
        BY <1>0, <1>3, <2>3 DEF MarkJobFailed, Queue!Fail, QueueOK
      <3>2. failures'[j] > 0
        BY <3>1
      <3> QED
        BY <3>2 DEF Excused
    <2>4. CASE LoseTask(w)
      <3>1. phase'[j] = "running"
        BY <1>0, <1>3, <2>4 DEF LoseTask, Held, queue
      <3>2. task'[w].job = None /\ \A v \in Workers \ {w} : task'[v] = task[v]
        BY <1>0, <2>4, IdleFields DEF LoseTask
      <3>3. \A v \in Workers : task'[v].job # j
        BY <1>0, <1>3, <3>2 DEF Held
      <3> QED
        BY <3>1, <3>3 DEF Excused, InHand
    <2>5. ASSUME NEW i \in Jobs, StartJob(w, i) PROVE FALSE
      BY <1>0, <1>3, <2>5 DEF StartJob, TasksOK, TaskOK
    <2> HIDE DEF Excused
    <2> QED
      BY <1>3, <2>1, <2>2, <2>3, <2>4, <2>5, TaskCases
  <1> QED
    BY <1>1, <1>2, <1>3 DEF Excused

(* Every step leaves only excused rows without a vector job. *)
LEMMA UnqueuedStep ==
    ASSUME TypeOK, Held, KeysOK, MadeIsQueued, UnqueuedOnlyAfterFailure, [Next]_vars
    PROVE  UnqueuedOnlyAfterFailure'
  <1> SUFFICES ASSUME NEW d \in Derived, memory'[d] = "live", phase'[VectorJob(d)] = "none",
                      NEW j, j = ParserJob(parentOf'[d])
               PROVE  Excused(j, d)'
    BY DEF UnqueuedOnlyAfterFailure, Excused, InHand, ParserJob, VectorJob
  <1>0. /\ VectorJob(d) \in Jobs /\ phase[VectorJob(d)] = "none"
        /\ memory \in [Memories -> {"absent", "live", "deleted"}]
    BY QueueEffects, JobKeys DEF Memories, TypeOK
  <1>1. ASSUME memory[d] = "live", parentOf'[d] = parentOf[d] PROVE Excused(j, d)'
    <2>1. j = ParserJob(parentOf[d]) /\ j \in Jobs
      BY <1>1, JobKeys DEF KeysOK
    <2>2. Excused(j, d)
      BY <1>0, <1>1, <2>1 DEF UnqueuedOnlyAfterFailure, Excused
    <2> QED
      BY <1>0, <2>1, <2>2, ExcuseLasts
  <1>2. ASSUME NEW w \in Workers, StoreFact(w) PROVE Excused(j, d)'
    <2>1. PICK e \in Derived : Stored(w, e)
      BY <1>2, StoreFactStores
    <2>2. task[w].job = ParserJob(Target(w))
      BY <1>2, StoreFactStores
    <2>3. CASE d = e
      <3>1. j = task'[w].job /\ d \in task'[w].made
        BY <2>1, <2>2, <2>3 DEF Stored, KeysOK
      <3> QED
        BY <3>1 DEF Excused
    <2>4. CASE d # e
      BY <1>0, <1>1, <2>1, <2>4 DEF Stored, KeysOK, Memories
    <2> QED
      BY <2>3, <2>4
  <1> QED
    BY <1>1, <1>2, RowCases

(***************************************************************************)
(* A derived row is without a vector job only while the try that stored it *)
(* runs, after a try of its parser job failed, or while that job is        *)
(* stranded: no interleaving of workers, retries and deletes loses the job *)
(* otherwise.                                                              *)
(***************************************************************************)
THEOREM UnqueuedOnlyAfterFailureCorrect == Spec => []UnqueuedOnlyAfterFailure
  <1> DEFINE IInv == TypeOK /\ Held /\ KeysOK /\ MadeIsQueued /\ UnqueuedOnlyAfterFailure
  <1>1. Init => IInv
    <2>1. Init => UnqueuedOnlyAfterFailure
      BY DEF Init, UnqueuedOnlyAfterFailure, Memories
    <2> QED
      BY <2>1, TypeInit, HeldStep, KeysStep, MadeStep
  <1>2. IInv /\ [Next]_vars => IInv'
    BY TypeStep, HeldStep, KeysStep, MadeStep, UnqueuedStep
  <1> QED
    BY <1>1, <1>2, PTL DEF Spec

=============================================================================
