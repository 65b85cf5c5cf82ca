# Pali: a TLA+ verification project

Pali is a memory server for language-model agents: callers store turns of a
conversation, the server parses them into facts, embeds them and answers
searches. This directory holds TLA+ models of its stateful core, the TLC runs
that check them on small instances and the TLAPS proofs that establish the main
results for every value of the constants. Paths below are relative to the
repository.

## 1. Inventory

| Component | State | Operations | Interacts with |
|---|---|---|---|
| Postprocess queue (`internal/repository/sqlite/memory_jobs.go`, `queries.go`) | table `memory_postprocess_jobs`: status, attempts, max_attempts, available_at, lease_owner, leased_until | enqueue, claim, mark succeeded, mark failed, get, list | workers, ingestion, parser jobs |
| Postprocess workers (`internal/core/memory/postprocess_worker.go`) | the claimed batch of each goroutine, a cancellable context | start, stop, poll, execute, retry | queue, handlers; the API server and the MCP server both start workers on one database |
| Asynchronous ingestion (`internal/core/memory/ingest_async.go`) | memories, index rows, jobs | IngestAsync, IngestBatchAsync | one transaction over three tables |
| Deletion and index state (`delete.go`, `index_state.go`) | table `memory_index_jobs`: one state per memory and operation | Delete, markIndexState | memory rows, vector store; marks that fail are only logged |
| Memory repository (`internal/repository/sqlite/memory.go`) | memories, full-text index | store, delete, look up, search, touch | foreign keys of embeddings and entity facts cascade |
| Vector stores (`internal/vectorstore/*`) | one embedding per memory | upsert, delete, search | `sqlitevec` shares the database; `qdrant` and `pgvector` are services |
| Entity facts (`internal/core/memory/entity_facts.go`, `internal/repository/{sqlite,neo4j}/entity_facts.go`) | (entity, relation, value, memory) rows, active or closed | store a batch, close superseded values, list | parser jobs, synchronous store |
| Synchronous store (`store.go`, `store_batch_parser.go`) | the staged writes of a batch | Store, StoreBatch | everything above, in line |
| Parsers, scorers, embedders | none | calls to models | may fail, may answer differently each time |
| Search (`search*.go`, `query_routing.go`) | the candidates of each search | Search, Touch | repository, vector store, entity facts, cache |
| Query embedding cache (`query_embedding_cache.go`) | a list and a map of at most Capacity entries | Get, Set | shared by all searches, behind one mutex |
| REST API and authentication (`internal/api`, `internal/auth`) | none | ten `/v1` routes | services, tenants, telemetry |
| MCP server (`internal/mcp`) | tenant per session | eleven tools | services, tenants |
| Tenants (`internal/core/tenant`, `sqlite/tenant.go`) | tenants table | create, exists, list, stats | REST, MCP, dashboard |
| Telemetry (`internal/telemetry/service.go`) | counters, minute ring, event ring, counts per tenant | observations, Snapshot | REST middleware and handlers |
| Dashboard (`internal/dashboard`) | none | forms, pages | services, tenants, telemetry |
| Configuration, client library, commands | none over time | | |

What is hard here: several processes and goroutines share one database, and
only single transactions are atomic; handlers make many calls and stop at the
first error, and what they did stays; jobs are retried; a process may stop or
die between any two calls; times are compared as text; a vector service has no
foreign keys and may lose an answer. `PROJECT.json` lists the hazards at their
lines, with the properties that would catch each.

What makes each component correct:

- queue: one worker per job; exactly max_attempts executions; settled jobs are
  final; accepted jobs settle; order by time;
- pipeline: no duplicate rows for a fact, no embedding without a row, no report
  of an index entry that is not there, every accepted memory becomes searchable;
- entity facts: at most one active value of a singleton relation, and one if
  there is any;
- synchronous store: every item is answered with a memory of its own tenant, no
  fact is lost or stored twice, an embedding is missing only after an error;
- search: nothing deleted, foreign or filtered out is returned, nothing settled
  is missed, better signals do not lower a score;
- query cache: list and map agree and hold what was used last;
- servers: a request or a call acts for the tenant it is entitled to;
- telemetry: rings and counters tell what happened, at their limits too.

## 2. Modules

```
JobLifecycle            what the queue promises about a job (abstract)
PostprocessQueue        table, workers, clock, faults; implements JobLifecycle
  PostprocessQueueProofs
AsyncPipeline           ingestion, handlers, deletion; over JobLifecycle
  AsyncPipelineProofs   types, embeddings, retries of a parse
EntityFacts             singleton facts over SQLite or Neo4j
  EntityFactsProofs
SyncStore               Store and StoreBatch of several clients
  SyncStoreProofs
Lists                   sorting a list and picking from it, without recursion
  ListProofs            what such lists hold and in which order
QueryCache              the cache of query embeddings
Ranking                 plan, fusion, score and re-ranking of a search; over Lists
Search                  concurrent searches; over Ranking and QueryCache
  SearchProofs          ranking, cache, vectors and answers; over ListProofs
Telemetry               counters and rings; over Lists
Serving                 REST, MCP, dashboard and tenants; over Telemetry
  ServingProofs         REST access, the rings and the counters
  SessionProofs         tenants of MCP calls and sessions, types, lists of the
                        dashboard; over ServingProofs and ListProofs
MCPostprocessQueue, MCAsyncPipeline, MCEntityFacts, MCSyncStore, MCSearch,
MCServing               instances for TLC
```

**PostprocessQueue.** One row record per job key. `EnqueuePostprocessJobs`,
`ClaimPostprocessJobs`, `MarkPostprocessJobSucceeded` and
`MarkPostprocessJobFailed` are the transactions of the same names. SQLite runs
one writing transaction at a time, so each is one step. A worker is at `poll`,
`next` (about to check its context), `exec` or `down`; its `batch` holds the
rows as they were when claimed, because `processPostprocessJob` decides from
those. `Stop` cancels a process's context: marks then fail (`MarkLost`) and the
loop returns, leaving what it had claimed. `Crash` removes the workers at once,
`StartPostprocessWorkers` starts new ones and recovers nothing. The variable
`runs` is history. The clock reads and the transaction that uses them are one
step; a worker's reading can only be older than that, which makes it claim
less.

Times are numbers of ticks; `TextLeq` orders them as SQLite orders their
RFC3339Nano text. The text drops trailing zeros and `.` sorts before `Z`, so a
whole second sorts after its own fractions. `retryDelay` is the closed form of
the doubling loop.

**JobLifecycle.** The same jobs without workers, clock and leases: submit,
claim, succeed, fail. PostprocessQueue implements it with status, attempts and
max_attempts as the mapping (run `Queue`, theorem `LifecycleCorrect`).

**AsyncPipeline.** Composes that lifecycle (`Queue == INSTANCE JobLifecycle`)
with the memory rows, the entity facts, the index rows and the vector store.
Each repository or vector call of `handleVectorUpsertPostprocessJob`,
`handleParserExtractPostprocessJob` and `Delete` is one action; the field `at`
of a task or a request says which call comes next. Any call may fail
(`CallFails` and the failing branches); a failing handler goes to `fail` with
its earlier writes in place. `AcceptsEmbedding` is the foreign key of
`memory_embeddings`, absent in a service. A parse returns any list of
`Parses[t]`, so a retry may see another answer. Ids of derived rows are fresh
members of `Derived`: when TLC's instance has used them up, a handler that
wants another can only fail, which is one of its outcomes anyway. The entity
facts here are of relations that are not singletons; the singletons are
EntityFacts' subject. Every worker runs with the parser enabled, and the limit
of sixteen rows in `findMemoryByRelationTuple` is not reached.

**EntityFacts.** One entity and one singleton relation. A writer stores its
batch (`StoreBatch`: at once in SQLite, chunk by chunk in Neo4j), then closes
the other values fact by fact (`InvalidateEntityRelation`). Storing a closed
fact again leaves it closed in SQLite and opens it in Neo4j; SQLite refuses
facts of deleted memories and cascades, Neo4j does neither.

**SyncStore.** A client serves one request at a time; the field `at` of its
call says which call of the repository, the vector store, an embedder or a
scorer comes next, and each of them may fail. The items of a request are split
into turns for the parser and plain memories, as `StoreBatch` does. A turn on
its own goes through `storeWithParser` (look up the key, look up the tuple,
insert, embed, link, fact after fact); several turns are staged together and
written in one transaction (`storeBatchWithParser`), where a turn may refer to
a write of another turn that is still pending: references are negative
until `pendingToStored` resolves them. When the batch embedder fails, the turns
are parsed again one by one. `rows` is a sequence and an id is a position, so
ids are fresh by construction as UUIDs are. `InOrder` gives the positions a
loop visits, ascending; it is a set with one sequence in it, which a proof can
take apart. `index` holds the upsert rows of
`memory_index_jobs`; `upsertStoredEmbeddings` marks all of them with the tenant
of its first memory, and the model keeps that. `replies`, `overlaps` and
`unmarked` are history.

**Lists.** The code sorts slices with `sort.Slice` and copies what it keeps of
a slice in a loop. `SortedBy` puts at place n the element that has n - 1 others
before it; `Arranged` sorts a list by an order of its places, `Picked` takes
what is at some places of it and `Kept` what passes a test. None of them is
recursive, so that a proof can say what is in such a list.

**QueryCache, Ranking, Search.** A search is a sequence of calls: entity facts,
lexical queries, decomposition, graph hints, embeddings from the cache or the
embedder, vectors, rows, siblings, Touch. Every call is an action, and rows,
embeddings and facts are inserted and deleted between them; the deletion of a
memory is the steps of `delete.go` with the foreign keys or, over services,
without them. Ranking is the arithmetic, as operators: answer type, candidate
window, reciprocal rank fusion, the two scoring algorithms, boosts, penalties,
early and final re-ranking. Fractions are integers in thousandths, rounded
down where the code keeps a float. A memory and a query are records: their
words, and the names of the patterns that match them; which text matches which
pattern is not modelled. Similarity is a constant operator. The cache holds,
as the value of a key, the text that was embedded, so that a property can tell
whose embedding it is.

**Telemetry, Serving.** Telemetry's operators are the critical sections of
`service.go`. A REST request is at `service` once it has passed the middleware
and bound its body; then come the service call with every status it may end
in, the sections of the observation that the handler defers, and those of the
middleware. `Bind` keeps the order of the code's checks: a body's tenant is
checked before its fields, a search's fields before its tenant; a job is
fetched before its tenant is known. An MCP call takes the steps of
`resolveTenant` one by one: its own names, the session map under its lock, the
setup, the list of tenants, and the write of the session map under the lock
again. Inside a call, the memory service is a number of rows per tenant. A
session over stdio has the empty identifier and remembers nothing. The
telemetry middleware reads the clock just before it takes the lock of the
minute ring; the model makes this one step, which a wait of a whole window
between the two would tell apart.

`PROJECT.json` maps every definition to its lines.

## 3. Runs

| Run | Instance | Shows |
|---|---|---|
| Queue | 2 jobs, 2 processes of 1 worker, batches of 2, 1 fault, half-second ticks, fair workers | TypeOK, ExclusiveHold, AttemptBudget, StrandedOnlyByFault, SettledIsFinal, ImplementsLifecycle, ClaimsInTimeOrder, AcceptedJobSettles |
| QueueLease (violation) | whole-second ticks, fair workers | a running job is never reclaimed after its lease |
| PipelineParse | one raw turn, three parses, 3 fresh rows, 2 workers, 1 fault | TypeOK, OneRowPerFact, UnqueuedOnlyAfterFailure |
| PipelineDelete | one raw turn and one derived row, a client that deletes either, sqlitevec | NoOrphanEmbedding, ReportedIsSearchable |
| PipelineService | two memories, a client, a vector service, fair workers | ReportedIsSearchable, EventuallySearchable |
| PipelineOrphan (violation) | the same, no faults | a deleted memory keeps an embedding in the service |
| PipelineRetry (violation) | one raw turn, no faults | a derived row never gets its vector job |
| EntityFactsGraph | 3 memories, 2 values, 2 writers, Neo4j with chunks of one row | TypeOK, OneActiveValue |
| EntityFactsSingleton (violation) | the same over SQLite | all facts of a relation closed, none active |
| SyncStore | 2 clients, 2 requests of 3 kinds (one turn, two turns, a mixed batch of two tenants), 3 parser options, a vector service | TypeOK, AnswersMatchRequests, EveryFactIsStated, DuplicatesNeedRaceOrFailure, UnembeddedOnlyAfterFailure, IndexStateTellsOutcome |
| Search | 2 searchers, 2 searches of 6 requests, 5 memories of 2 tenants, 2 servers, a cache of 2 entries, 1 insertion or deletion | TypeOK, AnswersAreCurrent, AnswersMatchFilters, SettledMatchesAreFound, CacheKeepsRecent, VectorsBelongToQueries, BetterSignalsRankHigher |
| Serving | 2 REST requests and 2 MCP calls at once, 3 sessions, 2 tenants, authentication on and off, rings of 2 minutes and 3 events | TypeOK, OnlyOwnTenantIsTouched, CallsActForOwnTenants, SequentialSessionsRemember, RecentEventsAreTheNewest, MinuteCountsAreExact, CountersAddUp, TopTenantsLead |

The violations are disagreements between the code and a line of the
repository, quoted in `PROJECT.json` under findings:

- *QueueLease*: `docs/changes/2026-03-08-async-postprocess-pipeline.md:17`
  speaks of lease-based claiming, but the claim query looks at queued and
  failed rows only.
- *PipelineRetry*: line 20 of that note promises vector jobs for new derived
  rows; a try that stored the row and then failed leaves the row to a retry
  that no longer counts it as new.
- *PipelineOrphan*: `delete.go:11`, "removes a memory and its vector
  embedding": a worker's upsert may come after it.
- *EntityFactsSingleton*: `docs/internal/multihop-graph-upgrade-plan.md:76`,
  "new contradictory facts should close older active facts": two values of one
  batch, or two interleaved writers, close each other.

**Bounds.** Two workers in two processes are enough for every pairwise
interleaving; two jobs fill a batch of two, so that a worker can be stopped
with a job it has not begun; two attempts give a first try, a retry and the
dead letter; half-second ticks are the coarsest clock at which text order and
time order differ. `MaxFaults` bounds stops, crashes and lost updates, which
would otherwise be endless; ordinary errors of calls are not bounded. The clock
needs no bound: it advances only while a stored deadline lies ahead. `Targets`
bounds what clients delete. In SyncStore `MaxCalls` is 2: a request and a
second one that overlaps or repeats it; both turns state the same fact, so that
lookups, pending writes and races meet. In Search four memories and one orphan
(a vector and a fact whose row is gone) are more than a window of two or three
holds, the cache of two entries is smaller than the texts of one search, and
two spellings share a key. In Serving `Budget` is what all operations together
may spend: a request costs 3, an MCP call 2, a form 1, so that two requests,
three calls, or a request with a call and a form happen, with up to two minutes
passing; the window of two minutes and the ring of three events wrap around.
The REST requests and tools are representatives, every operation and every
reason to refuse one included. Three fresh derived rows cover the most rows that
two tries of a turn can ask for in PipelineParse. The runs do not check
deadlock: when every job is settled the system rests.

**Symmetry** is used over workers and derived rows (PipelineParse,
PipelineDelete), clients (SyncStore), searchers (Search) and slots (Serving),
whose members are interchangeable there; runs with liveness properties use
none.

**What the new properties leave open.** Some name a rule of the code as an
exception, because the code has it and no line of the repository promises
otherwise: siblings of grounded answers ignore the tiers of a request
(AnswersMatchFilters); a routed query raises a total of 0 to 1
(BetterSignalsRankHigher); two requests at once may store a fact twice
(DuplicatesNeedRaceOrFailure); the marks of a mixed batch carry the tenant of
its first memory (IndexStateTellsOutcome); two overlapping calls of one MCP
session may leave it with the tenant of either (SequentialSessionsRemember).

**Fairness.** `WF(WorkerStep(w))` for every worker: a goroutine whose next step
is possible takes it, because calls have client timeouts and the loop never
blocks elsewhere; `WF(Tick)`: time passes. Nothing is assumed of starting a
stopped process, of clients or of the outcome of a call. So
`AcceptedJobSettles` allows all workers to be down and a stranded job, and
`EventuallySearchable` a dead letter.

## 4. Proofs

All proofs are checked by TLAPS, for every set of jobs, memories, workers,
processes, clients and facts, and every limit and delay that the assumptions
named in the modules allow. These are what `normalizePostprocessWorkerOptions`
establishes (positive batch size and durations, base at most maximum) and types.

*PostprocessQueueProofs*

- `TypeCorrect`: TypeOK is inductive; it says that a worker has a batch exactly
  in the loop over it, which the marks need for `Head`.
- `ExclusiveHoldCorrect`: inductive with TypeOK. A claim takes only rows that
  are queued or failed, and everything held is running, so a claim never takes
  what is held; the marks touch only the head of the marker's own batch.
- `AttemptBudgetCorrect`: not inductive, because it says nothing about running
  jobs. `Account` adds how often a job has been executed in every status
  (`StatusAccount`), and exactly how often for one in a worker's hands
  (`HeldAccount`); it is inductive with ExclusiveHold.
- `StrandedOnlyByFaultCorrect`: with `NoFaultNoCancel` (no process is cancelled
  before the first fault) everything running is held.
- `SettledIsFinalCorrect`: from ExclusiveHold, a mark meets a running job only.
- `LifecycleCorrect`: initial states map to initial states, and each action to
  `Submit`, `Claim`, `Succeed`, `Fail` or a stutter; `Claim` needs the budget.
- `ClaimsInTimeOrderCorrect`: from arithmetic about `TextLeq` and
  `WaitingIsFree` (a waiting row has no lease, so nothing else holds it back).

*AsyncPipelineProofs*

- `TypeCorrect`, and `NoOrphanEmbeddingCorrect`, inductive with it.
- `ReportedIsSearchableCorrect`: a worker reports what it did steps before, so
  `Handled` carries it: jobs, tasks and the rows a parse made refer to rows
  that were stored (`JobsHaveRows`, `TasksHaveRows`, `MadeHaveRows`), a task
  about to report has put the embedding while its row lives, and a delete
  reaches the vector store only after the row is gone (`RowBeforeEmbedding`).
- `OneRowPerFactCorrect`: for turns of different text (`DistinctTexts`; two
  turns of one text share their canonical keys and may race). Inductive with
  `Held` (a job in hand is running and in one hand, so a turn is parsed by one
  worker at a time), `KeysOK` (a row's key belongs to the turn of its job) and
  `NoRowYet` (between the lookup that missed and the insertion no row with that
  key appears).
- `UnqueuedOnlyAfterFailureCorrect`: `MadeIsQueued` says that a row without a
  vector job is among the rows its running task has made, or has an excuse, and
  that an excuse lasts.

*ServingProofs*

- `OnlyOwnTenantIsTouchedCorrect`: `Bound` says what binding has established
  when a service is called: every item has a tenant, which under authentication
  is the caller; it follows from the definitions of `Bind` for every request
  and lasts until the call.
- `RecentEventsAreTheNewestCorrect`: `RingHoldsNewest` places the i-th newest
  event i steps behind the head, for every capacity; the modulo of the code is
  reduced to a case distinction first.
- `MinuteCountsAreExactCorrect`: nothing recorded and no bucket is newer than
  the clock (`MinutesOK`), so a new minute starts at zero; two minutes of one
  window never share a bucket (`DistinctMod`).
- `CountersAddUpCorrect`: CountersAddUp only speaks of the moments without
  requests, so the invariant has to say what the requests in progress still owe
  (`DebtsOK`): a counter and the successes that wait for it (`Uncounted`) make
  the successes there were, and the counts of a tenant and the items that wait
  (`Debt`, pairs of a slot and a place in its body) make the items accepted. A
  step changes the record of one slot, so each action only has to balance what
  that record owed before and owes after (`Balanced`); `Ready` says which
  tenants it still counts.

*SessionProofs*

- `CallsActForOwnTenantsCorrect`: `CallsOK` (what a call in progress has found)
  with `SessionsOwn` (what a session remembers is its own). New tenants are
  prepended to the table, so the oldest one, the only one a call can have
  detected, stays the last.
- `SequentialSessionsRememberCorrect`: `Sequential` says where the tenant of a
  session is while its one call runs: in the map if the call has its tenant,
  else the map still has the last one. It needs that two sessions share an
  identifier only if it is empty.
- `TypeCorrect`: the invariants above give all but the tables, which every step
  leaves alone or changes in one of five ways (`TablesStep`).
- `TopTenantsLeadCorrect`: the list is a `SortedBy`. For a strict total order
  (`Orders`) of a finite set the places are distinct, so every place is taken
  (`PlacesTaken`, by counting), and a list cut at a limit leaves out only what
  comes later (`Leaders`). Busier is such an order because tenants differ in
  Rank; that the counters are numbers and the tenants counted finitely many is
  part of `ServersOK`.

Serving's assumptions are named in the modules: types of requests, calls and
settings; finitely many slots; one item in a request that is not a batch; an
initial table without duplicates; distinct identifiers of sessions; a positive
window and capacity; limits that are numbers, and a list of top tenants with
room for one (the code replaces a limit of 0 or less by its default).

*SyncStoreProofs*

Every action is first reduced to its effect on the record of its own request
(`Changes`: the records of the others stay, and rows, entity facts and overlaps
only grow). The invariants are layers over `Inv`:

- `TypeCorrect`: `Inv` says what a request looks like at each of its steps
  (`CourseOK`), that each of its references is to a row or a staged memory of
  the right tenant (`RefsOK`), that what it has inserted is what it had staged
  (`InsertedOK`), and that its reply is open and its number its own. TypeOK
  alone is not inductive: resolving a reference needs the lengths to match.
- `UnembeddedOnlyAfterFailureCorrect`: inductive with `Inv`.
- `IndexStateTellsOutcomeCorrect`: `MarkedOK` (every memory has an indexed row
  that no row of the same tenant contradicts, or an excuse that lasts) and
  `OutcomeOK`. The mark of a mixed batch names one tenant, so the pending row of
  another tenant stays beside it: that is why the property speaks of two rows.
- `DuplicatesNeedRaceOrFailureCorrect`: `Fresh` carries what the look-ups found
  from the look-up to the insertion: no row and no staged memory has the key or
  the tuple, or its request overlaps; and a row with a tuple has its entity fact,
  or its request failed or still owes it (`LinkedOK`).
- `EveryFactIsStatedCorrect`: `StatedOK` follows each unit through the plan, what
  is staged, what is found and the tables.
- `AnswersMatchRequestsCorrect`: `AnswersOK` says what the answer to an item
  refers to, staged or stored, and where an item without one waits: in the list
  of turns, at the head of the plan, or in the plain part (`WaitingOK`). With
  StoreRawTurn the first unit of a plan is the raw turn, so the first answer is
  its own; that a plan is for one item (`ParserOK`) keeps it so.

SyncStore's assumptions (`StoreAssumption`) are the types of its constants; a
batch is not empty, and no fact is the fact of a raw turn.

*ListProofs*

No theorem of its own: a place of a strict total order is taken by one element
(`PlacesTaken`), so `SortedBy` lists every element of a finite set once and in
order (`SortedBySorts`), and `Picked` and `Arranged` hold exactly what is at
their places (`PickedSelects`, `ArrangedSelects`). The proofs about search,
telemetry and the dashboard cite these.

*SearchProofs*

- `CacheKeepsRecentCorrect`: what the cache holds depends on every lookup and
  store of every search, so `CacheOK` compares its list with the history of
  uses: the list is the beginning of it (`Follows`), without a key twice, within
  the limit, and list and map agree. Moving to the front, adding, and dropping the
  last one each keep that (`GetOK`, `SetOK`).
- `VectorsBelongToQueriesCorrect`: between the lookup and the answer of the
  embedder a search holds embeddings it has and places it still misses. `Course`
  says that an embedding which does not fit its query is such a miss, named in
  the list of misses, which lasts while other searches change the cache; when the
  embedder has answered none is left. Every round starts with none in hand
  (`Blank`).
- `TypeOKCorrect`, `AnswersAreCurrentCorrect`, `AnswersMatchFiltersCorrect` and
  `SettledMatchesAreFoundCorrect` are conclusions of `Sound`. None of them is
  inductive: a candidate is found by one call, read by another, re-ranked and
  expanded by a third, while rows come and go. `Sound` says that every search in
  progress is `Going`: it has the request it was accepted with (`Frame`), it
  knows which rows were there at some moment and which all the while
  (`Watching`), its lists hold candidates (`ListsOK`), and what it has so far is
  good for the step it is at (`Stage`). From the lexical pass on it has
  collected every match that was there all the while, unless a list was cut
  (`Collected`); that no later step drops one needs that fusion, loading, the
  early and the final re-ranking hold the same elements in another order. From
  the pass on its answer names rows of the tenant that were there at some moment
  of the search, each once (`OutOK`), with the kinds and tiers (`Grounds`), and
  all that was collected (`Complete`). Insertions and deletions touch none of
  this but what is watched, and that only grows (`alive`) or shrinks (`steady`).
- `BetterSignalsRankHigherCorrect`: for all weights, settings and queries. Each
  function a score is made of is monotonic in the signals: integer division,
  products of factors, weighted averages (with a weight of 0 or less not
  counted), clamping, the boost and the penalty, whose factor never falls when a
  signal rises (`LowEvidencePenaltyRises`, `ScoreRises`). `RankingsOK` says that
  a ranking a search holds was scored in one pass, with one query and one answer
  to whether there are items that are not raw turns (`Weighed`), and that
  sorting and cutting keep those scores. The re-rankings blend scores afterwards;
  neither the property nor the theorem speaks of what they make.

Search's assumptions are the types of its constants: the ids stored and deleted
exist (`SearchAssumption`), texts are lists of words, recency is a number from 0
to 1 and the inverse document frequency is not negative (`MemoryAssumption`), a
query has its text and its rewrites (`QueryAssumption`), settings and weights
are numbers of any sign (`SettingsAssumption`).

*EntityFactsProofs*

- `TypeCorrect` and `OneActiveValueCorrect`, for both repositories: the writer
  of a fact owes its closing call from the store on, and pays it by closing
  every active fact of another value.

Every invariant and action property of the passing runs is a theorem;
OneRowPerFact under the hypothesis that no two turns have the same text.

**Only model-checked:** AcceptedJobSettles and EventuallySearchable, because
liveness under fairness is outside the prover. TLC checks them on the instances
of the runs Queue and PipelineService. That `retryDelay`'s closed form equals the
loop of the code is an induction over data; it is not proved, and the proofs
need of it only that a delay is a number up to the maximum.

**What the proofs found.** ExclusiveHold, AttemptBudget and the others named
above had to be strengthened, not changed. One attempt failed for a good reason:
two guards of `LowEvidencePenalty` overlapped, so that the penalty of a weak item
was one of two numbers; `applyLowEvidencePenalty` returns at the first that
holds, and the guards are now exclusive. Lists were made by recursion at first;
no prover could say what is in them, which is why Lists counts places instead.

## 5. Not modelled, and the plan

The queue, the pipeline over it and entity facts came first because they carry
the most risk; the synchronous store, search and the servers followed, and then
the proofs. What could come next:

1. a proof that AsyncPipeline's jobs follow JobLifecycle; its actions on the
   queue are that module's own, so little can be wrong there;
2. the pages of the dashboard, and the limit of sixteen rows of
   `findMemoryByRelationTuple`;
3. a finer grain of the telemetry middleware, with the clock read before the
   lock is taken.

Not modelled, and why:

- the text rules of parsers, normalisation, fact quality, query routing and
  structured observations: string matching without state. The models take any
  parse, and records that say which patterns match;
- cosine similarity, floating-point rounding and bm25: outside TLC;
- prompts and HTTP of embedders, scorers and parsers: calls that return or
  fail. The goroutines of batch scoring fill disjoint places of one slice;
- migrations, which run at start, and `ensureCollection` of a vector service,
  which runs its whole check behind one mutex: a failing call either way;
- pages of the dashboard that only list, filter and render;
- cryptography of tokens: a signature is valid or not;
- configuration, wiring, the client library and the commands: no behaviour
  over time.
