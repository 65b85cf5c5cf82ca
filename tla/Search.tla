------------------------------ MODULE Search ------------------------------
(***************************************************************************)
(* Service.SearchWithFilters, several searches at a time, while memories   *)
(* are stored and deleted.  A search makes many calls: entity facts, the   *)
(* full-text index, a model that splits the query, the embedder and its    *)
(* cache, the vector store, the rows of what it found, their siblings.     *)
(* Between two calls anything may change, so every list of candidates may  *)
(* be stale when it is used.                                               *)
(*                                                                         *)
(* A call that looks up ids and the call that loads their rows are one     *)
(* action here: a row that goes between them looks like the stale facts    *)
(* and stale vectors that a deletion leaves behind anyway.                 *)
(***************************************************************************)
EXTENDS Ranking, QueryCache

CONSTANTS
    Searchers,          \* goroutines that serve a search
    Tenants,
    Memory,             \* sequence of memories; an id is a position in it
    Stored,             \* ids in the database at the start
    Orphans,            \* ids whose row is gone and whose embedding and facts are left
    Deletable,          \* ids that clients delete
    Queries,            \* the queries that are asked
    TextWords,          \* words of every query text
    KeyOf,              \* its key: lower case, single spaces
    Similarity(_, _),   \* of the embeddings of a text and of a memory
    Settings,           \* configurations of the server
    Requests(_),        \* what clients ask a server with these settings
    MaxSearches,        \* bound on the searches
    MaxChanges          \* bound on the insertions and deletions

Ids == 1..Len(Memory)
Texts == DOMAIN TextWords
Kinds == {"observation", "event", "summary", "raw_turn"}
CanonicalKinds == {"observation", "event", "summary"}
Tiers == {"working", "episodic", "semantic"}

ASSUME SearchAssumption ==
    /\ Stored \cup Orphans \cup Deletable \subseteq Ids
    /\ Stored \cap Orphans = {}
    /\ DOMAIN KeyOf = Texts
    /\ \A t \in Texts : IsText(TextWords[t]) /\ \A i \in Ids : Similarity(t, i) \in Int
    /\ \A s \in Settings : \A r \in Requests(s) : r.query \in Queries /\ r.topK \in Nat
    /\ MaxSearches \in Nat /\ MaxChanges \in Nat

ASSUME MemoryAssumption ==
    /\ Len(Memory) \in Nat
    /\ \A i \in Ids :
          /\ Memory[i].tenant \in Tenants /\ Memory[i].kind \in Kinds
          /\ IsText(Memory[i].words) /\ IsText(Memory[i].view)
          /\ Memory[i].recency \in 0..One /\ Memory[i].importance \in Int
    /\ \A n \in Ids : \A df \in 0..n : Idf(n, df) \in Nat

ASSUME QueryAssumption ==
    \A q \in Queries :
        /\ {"text", "words"} \subseteq DOMAIN q
        /\ q.text \in Texts /\ q.words = TextWords[q.text]
        /\ \A field \in {"rewrites", "parts", "feedback", "backoff", "refined", "decomposed"} :
              field \in DOMAIN q /\ q[field] \in Seq(Texts)

ASSUME SettingsAssumption ==
    \A s \in Settings :
        /\ \A field \in {"multiplier", "windowMin", "windowMax", "windowWide", "multiHopBoost",
                          "temporalBoost", "filterBoost", "vectorMax", "maxExtra", "graphWeight",
                          "rerankWindow", "rerankBlend", "earlyWindow", "earlyWindowMax"} : s[field] \in Int
        /\ \A signal \in {"recency", "relevance", "importance"} : s.weights[signal] \in Int
        /\ s.algorithm = "match" => s.weights.overlap \in Int /\ s.weights.routing \in Int

VARIABLES
    settings,   \* of this server
    rows,       \* ids in the repository
    gone,       \* ids that were deleted
    embedded,   \* ids in the vector store
    linked,     \* ids whose entity facts are stored
    touched,    \* ids whose access time Touch has set
    cache,      \* of query embeddings; the value is the text that was embedded
    recent,     \* history: the keys hit or set so far, the last one first
    search,     \* the search each searcher serves
    reply,      \* the answer that the last step gave, if it gave one
    started,    \* number of searches
    changes     \* number of insertions and deletions

vars == <<settings, rows, gone, embedded, linked, touched, cache, recent, search,
          reply, started, changes>>

database == <<rows, gone, embedded, linked, changes>>

Keys == {KeyOf[t] : t \in Texts}

Idle == [at |-> "idle"]
NoReply == [status |-> "none"]

Init ==
    /\ settings \in Settings
    /\ rows = Stored
    /\ gone = Orphans
    /\ embedded = Stored \cup Orphans
    /\ linked = Stored \cup Orphans
    /\ touched = {}
    /\ cache = EmptyCache
    /\ recent = <<>>
    /\ search = [c \in Searchers |-> Idle]
    /\ reply = NoReply
    /\ started = 0
    /\ changes = 0

---------------------------------------------------------------------------
(* What the stores answer now.                                            *)

\* nil filters let everything pass.
Passes(id, kinds, tiers) ==
    /\ kinds = {} \/ Memory[id].kind \in kinds
    /\ tiers = {} \/ Memory[id].tier \in tiers

\* Mutant: ids that have no row are kept.
MutantGetByIDs(tenant, ids) == Kept(ids, LAMBDA id : Memory[id].tenant = tenant)

\* Rows of the tenant in the caller's order.
GetByIDs(tenant, ids) == Kept(ids, LAMBDA id : id \in rows /\ Memory[id].tenant = tenant)

\* An access now makes a memory as recent as can be.
Recency(id) == IF id \in touched THEN One ELSE Memory[id].recency

\* How much of a text's words a memory holds.
ContentScore == [text \in Texts |-> [id \in Ids |-> LexicalContentScore(TextWords[text], Memory[id].words)]]

\* The full-text index orders by bm25: here by shared words, those of the query view included.
Bm25 == [text \in Texts |-> [id \in Ids |->
            LexicalContentScore(TextWords[text], Memory[id].words \o Memory[id].view)]]

InOrder(ids, Value(_)) ==
    LET list == SortById([i \in 1..Len(ids) |-> [id |-> ids[i], score |-> Value(ids[i])]])
    IN Made([i \in 1..Len(list) |-> list[i].id])

Listed(ids) == Ascending(ids)

Matches(tenant, text, kinds, tiers, ids) ==
    {id \in ids : Memory[id].tenant = tenant /\ Passes(id, kinds, tiers) /\ Bm25[text][id] > 0}

SearchRows(tenant, text, kinds, tiers, topK) ==
    Cut(InOrder(Listed(Matches(tenant, text, kinds, tiers, rows)), LAMBDA id : Bm25[text][id]), topK)

\* The vector store orders the embeddings of the tenant by similarity.
SearchVectors(tenant, text, topK) ==
    LET ids == InOrder(Listed({id \in embedded : Memory[id].tenant = tenant}),
                       LAMBDA id : Similarity(text, id))
        list == Cut(ids, topK)
    IN Made([i \in 1..Len(list) |-> [id |-> list[i], score |-> Similarity(text, list[i])]])

\* Facts are [entity, relation, active] in Memory[id].facts.
FactMemories(tenant, Test(_)) ==
    Listed({id \in linked : /\ Memory[id].tenant = tenant
                            /\ \E f \in Memory[id].facts :
                                  Test(f) /\ (settings.singleton => f.active)})

ListByEntityRelation(tenant, entity, relations) ==
    FactMemories(tenant, LAMBDA f : f.entity = entity /\ f.relation \in relations)

\* Memories that state something about an entity, and what they state.
About(tenant, entities) ==
    {id \in linked : Memory[id].tenant = tenant /\ \E f \in Memory[id].facts : f.entity \in entities}
EntitiesOf(ids) == UNION {{f.entity : f \in Memory[id].facts} : id \in ids}

\* ListByEntityPaths with at most two hops, and the hops of each memory.
Hops(tenant, seeds, id) ==
    CASE id \in About(tenant, seeds) -> 1
      [] id \notin About(tenant, seeds) /\ id \in About(tenant, EntitiesOf(About(tenant, seeds))) -> 2
      [] OTHER -> 0

\* One supporting path, shorter ones first, relations that were asked for first.
TraversalScore(tenant, seeds, relations, id) ==
    LET hops == Hops(tenant, seeds, id)
        hinted == \E f \in Memory[id].facts : f.relation \in relations
        valid == ~settings.temporalValidity \/ \E f \in Memory[id].facts : f.active
    IN IF hops = 0 \/ ~valid \/ hops > settings.maxHops THEN 0
       ELSE 112 + 250 \div (4 * hops - 2) + (IF hinted THEN 300 ELSE 135)

\* raw_turn, event, observation; at most four.
ListBySourceTurn(tenant, turn) ==
    LET kindRank(id) == ByKind(2, 3, 1, 4)[Memory[id].kind]
    IN Cut(InOrder(Listed({id \in rows : Memory[id].tenant = tenant /\ Memory[id].turn = turn}),
                   kindRank), 4)

---------------------------------------------------------------------------
(* The course of one search.  k is its record.                            *)

Filtered(k) == k.kinds # {} \/ k.req.tiers # {}

Window(k) == CandidateWindow(k.topK, k.query, Filtered(k), settings)

\* Mutant: what facts and paths name is taken without the filters.
MutantFresh(list, k) == list

Fresh(list, k) == Kept(list, LAMBDA id : Passes(id, k.kinds, k.req.tiers))

\* Facts about the person that was named come first.
LexicalCandidates(k) == k.hinted \o k.lexical

\* Query texts without those whose key came before.
AppendUnique(base, extra) ==
    LET all == base \o extra
        isNew(i) == i <= Len(base) \/ \A j \in 1..(i - 1) : KeyOf[all[j]] # KeyOf[all[i]]
    IN Picked(all, {i \in 1..Len(all) : isNew(i)})

\* What the words of a query suggest to ask as well: by intent, when a first pass
\* is weak, and with the new words of a first hop.
IntentAwareRewrites(q) == q.rewrites
LowConfidenceBackoffQueries(q) == q.backoff
QueriesWithNovelTokens(q) == q.refined

\* buildSearchQueries: the query, its rewrites and, if it is complex, its parts.
SearchQueries(q) ==
    AppendUnique(<<>>, <<q.text>> \o IntentAwareRewrites(q)
                       \o (IF q.temporal \/ q.multiHop THEN q.parts ELSE <<>>))

Best(candidates) == Max({0} \cup {candidates[i].score : i \in DOMAIN candidates})

\* Feedback needs a middling first pass over enough candidates.
FeedbackQueries(q, lexical) ==
    IF Len(lexical) < settings.feedbackMin \/ q.multiHop \/ Best(lexical) \notin 200..749
    THEN <<>> ELSE q.feedback

AdaptiveQueries(k) ==
    LET q == k.query
        confident == /\ k.lexical # <<>>
                     /\ q.plan.confidence >= settings.confidence
                     /\ Best(k.lexical) >= settings.weakLexical
    IN IF ~settings.adaptive \/ confident THEN <<>>
       ELSE Cut(AppendUnique(FeedbackQueries(q, k.lexical), LowConfidenceBackoffQueries(q)), settings.maxExtra)

\* A first hop that is neither missing nor strong is refined with its words.
IterativeQueries(k) ==
    LET facts == Kept(LexicalCandidates(k), LAMBDA x : Memory[x.id].kind # "raw_turn")
    IN IF ~settings.tokenFallback \/ Len(k.query.words) < 3 \/ Best(facts) \notin 1..899
       THEN <<>> ELSE Cut(QueriesWithNovelTokens(k.query), 2)

Round(k, round, texts) ==
    [k EXCEPT !.at = "lexical", !.round = round, !.todo = texts, !.planned = AppendUnique(@, texts)]

\* The embedder is asked for what the cache does not hold.
AfterCandidates(k) ==
    IF k.req.retrieval = "entity" THEN [k EXCEPT !.at = "fuse"]
    ELSE [k EXCEPT !.at = "lookup", !.todo = k.planned]

Bridges(k) ==
    /\ settings.entityRepo /\ settings.bridge
    /\ \/ k.req.retrieval = "entity"
       \/ k.query.multiHop /\ k.query.plan.intent = "graph_entity_expansion"

AfterLexical(k) == IF Bridges(k) THEN [k EXCEPT !.at = "bridge"] ELSE AfterCandidates(k)

AfterDecomposed(k) ==
    IF IterativeQueries(k) = <<>> THEN AfterLexical(k) ELSE Round(k, "iterative", IterativeQueries(k))

AfterAdaptive(k) ==
    CASE ~k.query.multiHop -> AfterLexical(k)
      [] k.query.multiHop /\ settings.decompose -> [k EXCEPT !.at = "decompose"]
      [] OTHER -> AfterDecomposed(k)

AfterRound(k) ==
    CASE k.round = "initial" /\ AdaptiveQueries(k) # <<>> -> Round(k, "adaptive", AdaptiveQueries(k))
      [] k.round = "initial" /\ AdaptiveQueries(k) = <<>> -> AfterAdaptive(k)
      [] k.round = "adaptive" -> AfterAdaptive(k)
      [] k.round = "decomposed" -> AfterDecomposed(k)
      [] k.round = "iterative" -> AfterLexical(k)

Hybrid(k) ==
    IF settings.entityRepo /\ EntityHint(k.query) # None
    THEN [k EXCEPT !.at = "hint"] ELSE Round(k, "initial", SearchQueries(k.query))

\* One pass over all sources, with the kinds of the request or the canonical ones.
Pass(k, kinds) ==
    LET fresh == [k EXCEPT !.kinds = kinds, !.planned = <<>>, !.hinted = <<>>, !.lexical = <<>>, !.vectors = <<>>,
                           !.dense = <<>>, !.cut = FALSE,
                           !.misses = <<>>, !.ranked = <<>>, !.out = <<>>, !.route = "hybrid"]
    IN IF /\ settings.entityRepo /\ k.req.retrieval # "vector"
          /\ k.query.plan.intent = "aggregation_lookup"
       THEN [fresh EXCEPT !.at = "facts"] ELSE Hybrid(fresh)

Valid(req) ==
    /\ req.tenant \in Tenants
    /\ req.minScore \in 0..One
    /\ req.kinds \subseteq Kinds /\ req.tiers \subseteq Tiers
    /\ req.retrieval \in {"auto", "vector", "entity"}

Implicit(req) == settings.preferCanonical /\ settings.entityRepo /\ req.kinds = {}

Begun(req) ==
    [at |-> "begin", req |-> req, query |-> Planned(req.query), topK |-> IF req.topK = 0 THEN 10 ELSE req.topK,
     kinds |-> {}, round |-> "initial", todo |-> <<>>, planned |-> <<>>, hinted |-> <<>>, lexical |-> <<>>,
     vectors |-> <<>>, dense |-> <<>>, misses |-> <<>>, ranked |-> <<>>, out |-> <<>>, cut |-> FALSE,
     route |-> "hybrid", alive |-> rows, steady |-> rows]

SearchWithFilters(c, req) ==
    /\ search[c].at = "idle"
    /\ started < MaxSearches
    /\ started' = started + 1
    /\ IF Valid(req)
       THEN /\ search' = [search EXCEPT ![c] =
                            Pass(Begun(req), IF Implicit(req) THEN CanonicalKinds ELSE req.kinds)]
            /\ reply' = NoReply
       ELSE /\ reply' = [status |-> "refused"]
            /\ UNCHANGED search
    /\ UNCHANGED <<settings, touched, cache, recent, database>>

Continue(c, k) ==
    /\ search' = [search EXCEPT ![c] = k]
    /\ reply' = NoReply
    /\ UNCHANGED <<settings, touched, started, database>>

Tenant(c) == search[c].req.tenant
Query(c) == search[c].query

---------------------------------------------------------------------------
(* Candidates.                                                            *)

Candidates(ids, Value(_)) == Made([i \in 1..Len(ids) |-> [id |-> ids[i], score |-> Value(ids[i])]])

Reply(k, out) ==
    [status |-> "ok", req |-> k.req, kinds |-> k.kinds, topK |-> k.topK,
     route |-> k.route, cut |-> k.cut, alive |-> k.alive, steady |-> k.steady, out |-> out]

\* Mutant: the answer of the canonical pass is returned, empty or not.
MutantEnd(c, k, out) ==
    search' = [search EXCEPT ![c] = Idle] /\ reply' = Reply(k, out)

\* An empty canonical pass is followed by one over all kinds.
End(c, k, out) ==
    IF out = <<>> /\ Implicit(k.req) /\ k.kinds # {}
    THEN search' = [search EXCEPT ![c] = Pass(k, {})] /\ reply' = NoReply
    ELSE search' = [search EXCEPT ![c] = Idle] /\ reply' = Reply(k, out)

Items(ids, SignalOf(_)) ==
    Made([i \in 1..Len(ids) |-> [id |-> ids[i], memory |-> Memory[ids[i]], recency |-> Recency(ids[i]),
                                 signal |-> SignalOf(ids[i])]])

\* Raw turns after everything else.
PreferCanonical(ids) ==
    Kept(ids, LAMBDA id : Memory[id].kind # "raw_turn")
        \o Kept(ids, LAMBDA id : Memory[id].kind = "raw_turn")

Chosen(scored, k) ==
    LET good == Kept(scored, LAMBDA x : x.score >= k.req.minScore)
        ids == Fresh([i \in 1..Len(good) |-> good[i].id], k)
    IN IF k.kinds = {} THEN PreferCanonical(ids) ELSE ids

Scores(scored) ==
    Made([i \in 1..Len(scored) |-> [id |-> scored[i].id, score |-> scored[i].score, f |-> scored[i].f]])

\* Where a search with this answer of the facts goes.
AfterFacts(k, scored, out) ==
    IF out = <<>> THEN Hybrid(k)
    ELSE [k EXCEPT !.at = IF k.kinds = {} THEN "expand" ELSE "touch",
                   !.route = "facts", !.ranked = Scores(scored), !.out = out]

FactsRanked(k, scored) ==
    AfterFacts(k, scored, Chosen(PairwiseReranked(scored, k.query, k.topK, settings), k))

FactsFound(k) ==
    Fresh(GetByIDs(k.req.tenant,
                   ListByEntityRelation(k.req.tenant, k.query.entity, {k.query.relation})), k)

FactSignal(k, id) ==
    [denseScore |-> 0, denseRank |-> 0, lexicalRank |-> 0, fused |-> 0, rrf |-> One,
     lexicalScore |-> ContentScore[k.query.text][id]]

FactItems(k) == Items(FactsFound(k), LAMBDA id : FactSignal(k, id))

\* searchByEntityFacts: a list question is answered by the facts alone, if any.
SearchByEntityFacts(c) ==
    /\ search[c].at = "facts"
    /\ LET k == search[c]
           limit == Max({k.topK, Len(FactsFound(k))})
       IN Continue(c, FactsRanked(k, RankMemories(FactItems(k), limit, k.query, settings)))
    /\ UNCHANGED <<cache, recent>>

HintRelations == {f.relation : f \in UNION {Memory[id].facts : id \in Ids}}

\* collectEntityHintCandidates: facts about the person the query names.
HintsFound(k) ==
    LET ids == Fresh(GetByIDs(k.req.tenant,
                              ListByEntityRelation(k.req.tenant, EntityHint(k.query), HintRelations)), k)
        value(id) == ContentScore[k.query.text][id]
        good == Kept(Candidates(ids, value), LAMBDA x : x.score >= 120)
    IN Cut(SortById(good), Max({8, Window(k) \div 2}))

CollectEntityHints(c) ==
    /\ search[c].at = "hint"
    /\ Continue(c, Round([search[c] EXCEPT !.hinted = HintsFound(search[c])],
                         "initial", SearchQueries(Query(c))))
    /\ UNCHANGED <<cache, recent>>

\* collectLexicalCandidates for one text.
LexicalFound(k, text) ==
    LET ids == SearchRows(k.req.tenant, text, k.kinds, k.req.tiers, Window(k))
        value(i) == Clamp01(Times(RankToNormalized(i, Window(k)), 800)
                            + Times(ContentScore[text][ids[i]], 200))
    IN [i \in 1..Len(ids) |-> [id |-> ids[i], score |-> value(i)]]

\* The next text of the round.
CollectLexical(c) ==
    /\ search[c].at = "lexical"
    /\ LET k == search[c]
           text == Head(k.todo)
           all == Matches(Tenant(c), text, k.kinds, k.req.tiers, rows)
           more == [k EXCEPT !.todo = Tail(@), !.lexical = @ \o LexicalFound(k, text),
                             !.cut = @ \/ Cardinality(all) > Window(k)]
       IN Continue(c, IF more.todo = <<>> THEN AfterRound(more) ELSE more)
    /\ UNCHANGED <<cache, recent>>

\* A language model splits the query; its error is logged and nothing else.
Decompose(c) ==
    /\ search[c].at = "decompose"
    /\ \E texts \in {<<>>, Query(c).decomposed} :
          Continue(c, IF texts = <<>> THEN AfterDecomposed(search[c])
                      ELSE Round(search[c], "decomposed", texts))
    /\ UNCHANGED <<cache, recent>>

\* Names of the plan, of the query and of the best candidates so far.
Seeds(k) ==
    LET first == Cut(SortById(LexicalCandidates(k)), 8)
    IN ({k.query.plan.entity, k.query.entity} \ {None})
         \cup UNION {Memory[first[i].id].entities : i \in 1..Len(first)}

\* The relations that the plan and the words name, or all of them.
RelationHints(q) ==
    LET named == q.hints \cup ({q.plan.relation} \ {None})
    IN IF named = {} THEN HintRelations ELSE named

GraphBridgeCandidateScore(text, id, seeds, path) ==
    LET base == Clamp01(Times(ContentScore[text][id], 720)
                        + Plus(seeds \cap Memory[id].entities # {}, 280))
    IN IF path = 0 \/ settings.graphWeight = 0 THEN base
       ELSE Clamp01(Times(base, One - settings.graphWeight) + Times(path, settings.graphWeight))

\* collectGraphEntityBridgeCandidates: paths, facts and neighbours of the seeds.
BridgeFound(k) ==
    LET seeds == Seeds(k)
        score(id) == TraversalScore(k.req.tenant, seeds, RelationHints(k.query), id)
        path(id) == IF settings.paths /\ score(id) >= settings.graphMinScore THEN score(id) ELSE 0
        ids == {id \in linked : path(id) > 0} \cup About(k.req.tenant, seeds)
        value(id) == GraphBridgeCandidateScore(k.query.text, id, seeds, path(id))
        good == Kept(Candidates(Fresh(GetByIDs(k.req.tenant, Listed(ids)), k), value),
                     LAMBDA x : x.score >= IF path(x.id) > 0 THEN settings.graphMinScore ELSE 160)
    IN Cut(SortById(good), Max({12, Window(k)}))

CollectGraphBridge(c) ==
    /\ search[c].at = "bridge"
    /\ Continue(c, AfterCandidates([search[c] EXCEPT !.lexical = @ \o BridgeFound(search[c])]))
    /\ UNCHANGED <<cache, recent>>

---------------------------------------------------------------------------
(* Embeddings of the queries.                                             *)

Uses(key) == recent' = <<key>> \o RemoveFirst(recent, key)

\* getCachedQueryEmbedding; embeddings of the misses come later, in one call.
LookUpEmbedding(c) ==
    /\ search[c].at = "lookup"
    /\ LET k == search[c]
           text == Head(k.todo)
           key == KeyOf[text]
           vector == IF Hit(cache, key) THEN Got(cache, key) ELSE None
           misses == IF Hit(cache, key) THEN k.misses ELSE Append(k.misses, text)
           done == Tail(k.todo) = <<>>
       IN /\ cache' = Get(cache, key)
          /\ IF Hit(cache, key) THEN Uses(key) ELSE UNCHANGED recent
          /\ Continue(c, [k EXCEPT !.vectors = Append(@, [text |-> text, vector |-> vector]),
                                   !.misses = misses, !.todo = Tail(@),
                                   !.at = CASE ~done -> "lookup"
                                            [] done /\ misses = <<>> -> "vector"
                                            [] done /\ misses # <<>> -> "embed"])

\* Mutant: the embeddings of the misses are handed out from the first query on.
MutantEmbedded(k) ==
    [i \in 1..Len(k.vectors) |->
        IF i <= Len(k.misses) THEN [k.vectors[i] EXCEPT !.vector = k.misses[i]] ELSE k.vectors[i]]

\* pendingIdx: each embedding goes to the place of its query.
Embedded(k) ==
    [i \in 1..Len(k.vectors) |->
        IF k.vectors[i].vector = None THEN [k.vectors[i] EXCEPT !.vector = k.vectors[i].text] ELSE k.vectors[i]]

EmbedContents(c) ==
    /\ search[c].at = "embed"
    /\ Continue(c, [search[c] EXCEPT !.vectors = Embedded(search[c]), !.at = "remember"])
    /\ UNCHANGED <<cache, recent>>

\* setCachedQueryEmbedding for the next miss.
RememberEmbedding(c) ==
    /\ search[c].at = "remember"
    /\ LET k == search[c]
           text == Head(k.misses)
       IN /\ cache' = Set(cache, KeyOf[text], text)
          /\ IF Capacity = 0 THEN UNCHANGED recent ELSE Uses(KeyOf[text])
          /\ Continue(c, [k EXCEPT !.misses = Tail(@),
                                   !.at = IF Tail(k.misses) = <<>> THEN "vector" ELSE "remember"])

VectorLimit(k) ==
    IF Filtered(k) THEN Min({3 * Window(k), settings.vectorMax}) ELSE Window(k)

\* vector.Search for one embedding and, with filters, the rows of its answer.
VectorsFound(k, vector) ==
    LET found == SearchVectors(k.req.tenant, vector, VectorLimit(k))
        known == {id \in rows : Memory[id].tenant = k.req.tenant /\ Passes(id, k.kinds, k.req.tiers)}
    IN IF Filtered(k) THEN Kept(found, LAMBDA x : x.id \in known) ELSE found

SearchVector(c) ==
    /\ search[c].at = "vector"
    /\ LET k == search[c]
           all == {id \in embedded : Memory[id].tenant = Tenant(c)}
       IN Continue(c, [k EXCEPT
                !.vectors = Tail(@), !.cut = @ \/ Cardinality(all) > VectorLimit(k),
                !.dense = @ \o VectorsFound(k, Head(k.vectors).vector),
                !.at = IF Tail(k.vectors) = <<>> THEN "fuse" ELSE "vector"])
    /\ UNCHANGED <<cache, recent>>

---------------------------------------------------------------------------
(* From candidates to the answer.                                         *)

\* Where a search with this answer goes: to its end, if there is nothing in it.
AfterRanking(c, k, out) ==
    IF out = <<>>
    THEN End(c, k, <<>>) /\ UNCHANGED <<settings, touched, started, database>>
    ELSE Continue(c, [k EXCEPT !.out = out, !.at = IF k.kinds = {} /\ (k.query.temporal \/ k.query.multiHop)
                                                   THEN "expand" ELSE "touch"])

CandidatesRanked(c, k, scored) ==
    AfterRanking(c, [k EXCEPT !.ranked = Scores(scored), !.hinted = <<>>, !.lexical = <<>>, !.dense = <<>>],
                 Chosen(Reranked(scored, k.query, k.topK, settings), k))

FusedItems(k, dense, lexical, ids) ==
    Items(GetByIDs(k.req.tenant, Cut(ids, Window(k))), LAMBDA id : Signal(dense, lexical, id))

CandidatesFused(c, k, dense, lexical, ids) ==
    CandidatesRanked(c, [k EXCEPT !.cut = @ \/ Len(ids) > Window(k)],
                     RankMemories(FusedItems(k, dense, lexical, ids), Window(k), k.query, settings))

\* Fusion, the rows of the best, ranking, re-ranking and the filters.
FuseAndRank(c) ==
    /\ search[c].at = "fuse"
    /\ LET k == search[c]
           lexical == SortById(LexicalCandidates(k))
           dense == SortById(k.dense)
       IN CandidatesFused(c, k, dense, lexical, FusedIds(dense, lexical))
    /\ UNCHANGED <<cache, recent>>

Siblings(tenant, id) == Kept(ListBySourceTurn(tenant, Memory[id].turn), LAMBDA m : m # id)

\* The raw turn a fact comes from and another fact of that turn follow it.
Added(list, more) == list \o Kept(more, LAMBDA m : \A i \in 1..Len(list) : list[i] # m)

SiblingOf(tenant, id, kinds) == Cut(Kept(Siblings(tenant, id), LAMBDA m : Memory[m].kind \in kinds), 1)

Accompanied(tenant, out, id, topK) ==
    LET with == Added(out, <<id>>)
    IN IF Len(with) >= topK \/ Memory[id].kind = "raw_turn" \/ Memory[id].turn = None THEN with
       ELSE Added(Added(with, SiblingOf(tenant, id, {"raw_turn"})),
                  SiblingOf(tenant, id, {"event", "observation"}))

Grounded(tenant, ids, topK) ==
    LET upTo[i \in 0..Len(ids)] ==
            IF i = 0 THEN <<>> ELSE Accompanied(tenant, upTo[i - 1], ids[i], topK)
    IN upTo[Len(ids)]

ExpandGroundedContext(c) ==
    /\ search[c].at = "expand"
    /\ LET k == search[c]
       IN Continue(c, [k EXCEPT !.out = Grounded(Tenant(c), k.out, k.topK), !.at = "touch"])
    /\ UNCHANGED <<cache, recent>>

\* The answer is cut, its memories touched (an error is ignored) and returned.
TouchAndReturn(c) ==
    /\ search[c].at = "touch"
    /\ LET k == search[c]
           out == Cut(k.out, k.topK)
       IN /\ touched' \in {touched} \cup
                (IF k.req.touch THEN {touched \cup ({out[i] : i \in 1..Len(out)} \cap rows)} ELSE {})
          /\ End(c, k, out)
    /\ UNCHANGED <<settings, cache, recent, started, database>>

\* A store, the embedder or the request's context fails.
Fail(c) ==
    /\ search[c].at # "idle"
    /\ search' = [search EXCEPT ![c] = Idle]
    /\ reply' = [status |-> "failed"]
    /\ UNCHANGED <<settings, touched, cache, recent, started, database>>

SearchStep(c) ==
    \/ \E req \in Requests(settings) : SearchWithFilters(c, req)
    \/ SearchByEntityFacts(c) \/ CollectEntityHints(c) \/ CollectLexical(c) \/ Decompose(c)
    \/ CollectGraphBridge(c) \/ LookUpEmbedding(c) \/ EmbedContents(c) \/ RememberEmbedding(c)
    \/ SearchVector(c) \/ FuseAndRank(c) \/ ExpandGroundedContext(c) \/ TouchAndReturn(c) \/ Fail(c)

---------------------------------------------------------------------------
(* Meanwhile memories come and go.                                        *)

Watch(field, Change(_)) ==
    search' = [c \in Searchers |->
                 IF search[c].at = "idle" THEN Idle
                 ELSE [search[c] EXCEPT ![field] = Change(@)]]

Aside == reply' = NoReply /\ UNCHANGED <<settings, touched, cache, recent, started>>

\* Mutant: the id of a deleted memory is given out again.
MutantInsertRow(id) ==
    /\ id \notin rows
    /\ changes < MaxChanges
    /\ rows' = rows \cup {id}
    /\ changes' = changes + 1
    /\ Watch("alive", LAMBDA ids : ids \cup {id})
    /\ UNCHANGED <<gone, embedded, linked>>
    /\ Aside

InsertRow(id) ==
    /\ id \notin rows \cup gone
    /\ changes < MaxChanges
    /\ rows' = rows \cup {id}
    /\ changes' = changes + 1
    /\ Watch("alive", LAMBDA ids : ids \cup {id})
    /\ UNCHANGED <<gone, embedded, linked>>
    /\ Aside

UpsertEmbedding(id) ==
    /\ id \in rows \ embedded
    /\ embedded' = embedded \cup {id}
    /\ UNCHANGED <<rows, gone, linked, changes, search>>
    /\ Aside

StoreFacts(id) ==
    /\ id \in (rows \cap embedded) \ linked
    /\ linked' = linked \cup {id}
    /\ UNCHANGED <<rows, gone, embedded, changes, search>>
    /\ Aside

\* SQLite drops facts and embeddings with the row; the services keep them.
DeleteRow(id) ==
    /\ id \in rows \cap Deletable
    /\ changes < MaxChanges
    /\ rows' = rows \ {id}
    /\ gone' = gone \cup {id}
    /\ embedded' = IF settings.cascade THEN embedded \ {id} ELSE embedded
    /\ linked' = IF settings.cascade THEN linked \ {id} ELSE linked
    /\ changes' = changes + 1
    /\ Watch("steady", LAMBDA ids : ids \ {id})
    /\ Aside

DeleteEmbedding(id) ==
    /\ id \in (gone \ Orphans) \cap embedded
    /\ embedded' = embedded \ {id}
    /\ UNCHANGED <<rows, gone, linked, changes, search>>
    /\ Aside

Change(id) ==
    \/ InsertRow(id) \/ UpsertEmbedding(id) \/ StoreFacts(id) \/ DeleteRow(id) \/ DeleteEmbedding(id)

Next == (\E c \in Searchers : SearchStep(c)) \/ (\E id \in Ids : Change(id))

Spec == Init /\ [][Next]_vars

---------------------------------------------------------------------------
(* Properties.                                                            *)

Served == {r \in {reply} : r.status = "ok"}
In(list) == {list[i] : i \in 1..Len(list)}

(* Stores, cache and searches have their shapes.                           *)
TypeOK ==
    /\ settings \in Settings
    /\ rows \cup gone \cup embedded \cup linked \cup touched \subseteq Ids
    /\ rows \cap gone = {}
    /\ cache.keys \subseteq Keys
    /\ \A i \in 1..Len(cache.list) : cache.list[i].value \in Texts
    /\ \A c \in Searchers : search[c].at # "idle" =>
          In(search[c].out) \subseteq Ids /\ search[c].steady \subseteq search[c].alive

(* An answer names no memory twice, none of another tenant, no more than   *)
(* asked for, and none that was not stored at some time during the search: *)
(* vectors and facts that outlive their row (Delete of a service) never    *)
(* come back (GetByIDs after every list of candidates).                    *)
AnswersAreCurrent ==
    \A r \in Served :
        /\ Len(r.out) <= r.topK
        /\ Cardinality(In(r.out)) = Len(r.out)
        /\ \A id \in In(r.out) : Memory[id].tenant = r.req.tenant /\ id \in r.alive

(* The kinds asked for are respected always; the tiers by every memory     *)
(* but those that expandGroundedContextMemories adds: the raw turn or      *)
(* another fact of the turn of an answer, when kinds are not asked for.    *)
AnswersMatchFilters ==
    \A r \in Served : \A i \in 1..Len(r.out) :
        /\ Passes(r.out[i], r.req.kinds, {})
        /\ \/ Passes(r.out[i], {}, r.req.tiers)
           \/ r.req.kinds = {} /\ \E j \in 1..(i - 1) :
                 /\ Memory[r.out[j]].turn = Memory[r.out[i]].turn
                 /\ Passes(r.out[j], {}, r.req.tiers)

(* A search that returns fewer memories than asked for has not missed one  *)
(* that was stored all the while and shares a word with the query, unless  *)
(* a list of candidates was cut or the facts alone answered: no reordering *)
(* of its calls with deletions loses a memory that has nothing to do with  *)
(* them, and an empty canonical pass is not the answer.                    *)
SettledMatchesAreFound ==
    \A r \in Served :
        /\ r.route = "hybrid" /\ ~r.cut /\ r.req.minScore = 0 /\ Len(r.out) < r.topK
        => LET kinds == IF r.out = <<>> THEN r.req.kinds ELSE r.kinds
           IN Matches(r.req.tenant, r.req.query.text, kinds, r.req.tiers, r.steady) \subseteq In(r.out)

(* List and map of the cache agree and fit (Set evicts from both); an      *)
(* entry holds the embedding of a text with that key; and what is kept is  *)
(* what was used last, whichever searches looked up and stored it.         *)
CacheKeepsRecent ==
    /\ CacheAgrees(cache)
    /\ \A i \in 1..Len(cache.list) : KeyOf[cache.list[i].value] = cache.list[i].key
    /\ cache.keys = In(Cut(recent, Len(cache.list)))

(* The vector store is asked with the embedding of each planned query, or  *)
(* of one with the same key: embeddings that come from the cache and those *)
(* that the embedder returns later meet at the right places.               *)
VectorsBelongToQueries ==
    \A c \in Searchers : search[c].at \in {"remember", "vector"} =>
        \A i \in 1..Len(search[c].vectors) :
            KeyOf[search[c].vectors[i].vector] = KeyOf[search[c].vectors[i].text]

Alike(m, n) ==
    \A field \in {"kind", "canonical", "answers", "marks"} : m[field] = n[field]

NoWorse(f, g) == \A field \in DOMAIN f : f[field] >= g[field]

(* Of two memories alike in kind and metadata the one that is no worse in  *)
(* any signal has no lower score: weights, boosts and the penalty for weak *)
(* evidence never reverse the order of the signals.  Two rules of the code *)
(* do: a routed query raises a total of 0 to 1, and the match algorithm    *)
(* blends word order into the overlap only when there is some.             *)
BetterSignalsRankHigher ==
    \A c \in Searchers : search[c].at \in {"expand", "touch"} =>
        \A x, y \in In(search[c].ranked) :
            LET q == Query(c)
                match == settings.algorithm = "match"
            IN /\ Alike(Memory[x.id], Memory[y.id]) /\ NoWorse(x.f, y.f)
               /\ match => x.f.dependency = y.f.dependency
               /\ ~match /\ Routed(q) =>
                     \A nonRaw \in BOOLEAN : WeighedTotal(y.f, Memory[y.id], nonRaw, q, settings) > 0
               => x.score >= y.score

===========================================================================
