------------------------------ MODULE Ranking ------------------------------
(***************************************************************************)
(* How a search scores what it found: the plan of a query, the fusion of   *)
(* the dense and the lexical list, the weighted score of a memory and the  *)
(* two re-rankings of the best ones.  Numbers between 0 and 1 are          *)
(* thousandths.  A text is a sequence of ranking words; what the regular   *)
(* expressions of the code recognise in it is a field of its record.       *)
(***************************************************************************)
EXTENDS Lists, FiniteSetsExt, SequencesExt

CONSTANTS
    None,           \* no entity, no relation
    Idf(_, _)       \* ln(1 + (n - df + 1/2) / (df + 1/2)) + 1 for n documents, in thousandths

One == 1000

Clamp01(v) == CASE v < 0 -> 0 [] v > One -> One [] OTHER -> v
Times(v, factor) == (v * factor) \div One
Ratio(a, b) == IF b = 0 THEN 0 ELSE (One * a) \div b
If(condition, factor) == IF condition THEN factor ELSE One
Plus(condition, amount) == IF condition THEN amount ELSE 0

\* Folds of a few numbers, from left to right.
Product(factors) ==
    LET upTo[i \in 0..Len(factors)] == IF i = 0 THEN One ELSE Times(upTo[i - 1], factors[i])
    IN upTo[Len(factors)]
Total(numbers) ==
    LET upTo[i \in 0..Len(numbers)] == IF i = 0 THEN 0 ELSE upTo[i - 1] + numbers[i]
    IN upTo[Len(numbers)]

\* Weights that are not positive do not count.
WeightedAverage(values, weights) ==
    LET used == {i \in DOMAIN values : weights[i] > 0}
        weight == Total([i \in DOMAIN values |-> IF i \in used THEN weights[i] ELSE 0])
    IN IF weight = 0 THEN 0
       ELSE Clamp01(Total([i \in DOMAIN values |->
                 IF i \in used THEN weights[i] * Clamp01(values[i]) ELSE 0]) \div weight)

\* scoring.MinMax over the values of a list: equal values all become 0.
MinMax(v, all) ==
    IF Max(all) = Min(all) THEN 0 ELSE Ratio(v - Min(all), Max(all) - Min(all))

---------------------------------------------------------------------------
(* Words of a query and of a content.                                     *)

Words(text) == Range(text)
IsText(text) == text \in Seq(Words(text))
Unique(text) == Picked(text, {i \in 1..Len(text) : \A j \in 1..(i - 1) : text[j] # text[i]})
Pairs(text) == {<<text[i], text[i + 1]>> : i \in 1..(Len(text) - 1)}

QueryOverlap(query, text) ==
    IF text = <<>> THEN 0 ELSE Ratio(Cardinality(Words(query) \cap Words(text)), Cardinality(Words(query)))

LexicalContentScore(query, text) ==
    LET matches == Cardinality(Words(query) \cap Words(text))
        union == Cardinality(Words(query) \cup Words(text))
    IN IF matches = 0 THEN 0
       ELSE Clamp01(Times(Ratio(matches, Cardinality(Words(query))), 700)
                    + Times(Ratio(matches, union), 300))

\* The share of the query's neighbouring words that are neighbours in the text.
OrderedBigramCoverage(query, text) ==
    LET matched == {i \in 1..(Len(query) - 1) : <<query[i], query[i + 1]>> \in Pairs(text)}
    IN IF Len(query) < 2 THEN 0 ELSE Ratio(Cardinality(matched), Len(query) - 1)

\* Where the next word is, if it comes after the one before.
Matched(at, text, word) ==
    LET later == {p \in (at.last + 1)..Len(text) : text[p] = word}
    IN IF later = {} THEN at
       ELSE [last |-> Min(later), matched |-> at.matched + 1,
             gap |-> at.gap + (IF at.last = 0 THEN 0 ELSE Min(later) - at.last - 1)]

\* The query's words looked for from left to right, each after the previous.
Matching(query, text) ==
    LET upTo[i \in 0..Len(query)] ==
            IF i = 0 THEN [last |-> 0, matched |-> 0, gap |-> 0] ELSE Matched(upTo[i - 1], text, query[i])
    IN upTo[Len(query)]

QueryTokenProximity(query, text) ==
    LET found == Matching(Unique(query), text)
        coverage == Ratio(found.matched, Cardinality(Words(query)))
        pairs == found.matched - 1
    IN CASE found.matched = 0 -> 0
         [] found.matched = 1 -> Clamp01(Times(coverage, 500))
         [] OTHER -> Clamp01(Times(coverage, 650) + Times(Ratio(pairs, pairs + found.gap), 350))

---------------------------------------------------------------------------
(* The plan of a query.                                                   *)

TemporalTypes == {"temporal_duration", "temporal_relative", "temporal_absolute"}
OpenTypes == {"open_domain_label", "open_domain_choice", "open_domain_binary"}

\* q.says holds the names of the patterns that match; the first rule wins.
AnswerType(q) ==
    LET says(pattern) == pattern \in q.says
    IN CASE q.temporal /\ says("duration") -> "temporal_duration"
         [] q.temporal /\ ~says("duration") /\ says("relative") -> "temporal_relative"
         [] q.temporal /\ ~says("duration") /\ ~says("relative") -> "temporal_absolute"
         [] OTHER ->
              LET rules == << <<says("label"), "open_domain_label">>,
                              <<says("choice") /\ says("open"), "open_domain_choice">>,
                              <<says("boolean") /\ says("open"), "open_domain_binary">>,
                              <<says("quote"), "single_fact_quote">>,
                              <<says("list"), "single_fact_list">>,
                              <<says("boolean"), "single_fact_boolean">>,
                              <<says("place"), "single_fact_location_or_person">>,
                              <<says("open"), "open_domain_binary">>,
                              <<TRUE, "single_fact">> >>
              IN rules[Min({i \in DOMAIN rules : rules[i][1]})][2]

Aggregates(q) == q.relation # None /\ q.entity # None

\* The name a query mentions, unless another route is responsible for it.
EntityHint(q) ==
    IF q.temporal \/ q.multiHop \/ Aggregates(q) THEN None ELSE q.entity

QueryPlan(q) ==
    LET type == AnswerType(q)
        plan(intent, confidence, entity, relation) ==
            [intent |-> intent, confidence |-> confidence, entity |-> entity,
             relation |-> relation, type |-> type]
    IN CASE Aggregates(q) -> plan("aggregation_lookup", 880, q.entity, q.relation)
         [] ~Aggregates(q) /\ q.multiHop -> plan("graph_entity_expansion", 740, q.entity, None)
         [] ~Aggregates(q) /\ ~q.multiHop /\ q.temporal -> plan("temporal_lookup", 720, None, None)
         [] OTHER ->
              CASE q.person -> plan("direct_fact_lookup", 680, EntityHint(q), None)
                [] ~q.person /\ type \in OpenTypes ->
                      plan("profile_summary_lookup", 660, EntityHint(q), None)
                [] OTHER -> plan("hybrid_vector_fallback", 550, EntityHint(q), None)

\* A query with its plan, which SearchWithFilters makes first.
Planned(q) == [field \in DOMAIN q \cup {"plan"} |-> IF field = "plan" THEN QueryPlan(q) ELSE q[field]]

\* How many candidates each source may give.  From here on a query has its plan.
CandidateWindow(topK, q, filtered, s) ==
    LET low == q.plan.confidence < s.confidence
        n == Max({topK * s.multiplier, s.windowMin})
             + (IF q.multiHop THEN s.multiHopBoost ELSE Plus(q.temporal, s.temporalBoost))
             + Plus(filtered, s.filterBoost) + Plus(low, 2 * topK)
    IN Min({n, IF q.multiHop \/ filtered THEN Max({s.windowMax, s.windowWide}) ELSE s.windowMax})

---------------------------------------------------------------------------
(* How well the kind and the metadata of a memory fit the route.          *)

ByKind(observation, event, summary, raw) ==
    [observation |-> observation, event |-> event, summary |-> summary, raw_turn |-> raw]

TypeFactor(type) ==
    CASE type \in {"single_fact_boolean", "single_fact_quote"} -> ByKind(1000, 1120, 930, 1150)
      [] type = "single_fact_list" -> ByKind(1100, 1060, 1140, 920)
      [] type = "single_fact_location_or_person" -> ByKind(1140, 1090, 950, 940)
      [] type \in TemporalTypes -> ByKind(1000, 1150, 940, 1080)
      [] type \in OpenTypes -> ByKind(1060, 1000, 1180, 940)
      [] OTHER -> ByKind(1000, 1000, 1000, 1000)

\* The kind of answer that a type of question asks for.
Answers(m, type) ==
    \/ type = "single_fact_quote" /\ m.answers = "quote"
    \/ type = "single_fact_boolean" /\ m.answers = "boolean"
    \/ type = "single_fact_location_or_person" /\ m.answers = "entity"

\* m.marks: what the content and the answer metadata hold.
Has(m, mark) == mark \in m.marks

RouteBoost(m, q, s) ==
    LET type == q.plan.type
        boost == Product(<<
            If(q.temporal, ByKind(1150, 1250, 1050, 950)[m.kind]),
            If(q.temporal /\ Has(m, "time"), 1050),
            If(q.person, ByKind(1100, 1000, 1050, 1000)[m.kind]),
            If(q.person /\ Has(m, "colon"), 1030),
            If(q.multiHop, ByKind(1000, 1080, 1080, 1000)[m.kind]),
            If(q.multiHop /\ Has(m, "dialog"), 1020),
            If(s.typeRouting, TypeFactor(type)[m.kind]),
            If(s.typeRouting /\ type \in TemporalTypes /\ Has(m, "anchor"), 1080),
            If(s.typeRouting /\ s.supportLinks /\ type \in OpenTypes /\ Has(m, "lines"), 1050),
            If(Answers(m, type), CASE m.answers = "quote" -> 1120
                                   [] m.answers = "boolean" -> 1100
                                   [] OTHER -> 1080),
            If(type \in OpenTypes /\ (Has(m, "lines") \/ Has(m, "links")), 1040)>>)
    IN Max({800, Min({boost, 1350})})

NormalizedRouteBoost(boost) == Clamp01(Ratio(boost - 800, 550))

\* m.entities: the names in the content, m.relations: the relations its words hint at.
EntityRelationSignal(plan, m) ==
    CASE plan.entity = None \/ plan.entity \notin m.entities -> 0
      [] plan.relation # None /\ plan.relation \in m.relations /\ plan.entity \in m.entities -> One
      [] OTHER -> 650

---------------------------------------------------------------------------
(* Lists of candidates [id, score], best first.                           *)

Cut(list, n) == SubSeq(list, 1, Min({n, Len(list)}))

Places(items) == (1..Len(items)) \X (1..Len(items))

BetterFirst(items) ==
    {p \in Places(items) : \/ items[p[1]].score > items[p[2]].score
                           \/ items[p[1]].score = items[p[2]].score /\ p[1] < p[2]}

BetterThenById(items) ==
    {p \in Places(items) :
        \/ items[p[1]].score > items[p[2]].score
        \/ /\ items[p[1]].score = items[p[2]].score
           /\ items[p[1]].id < items[p[2]].id \/ (items[p[1]].id = items[p[2]].id /\ p[1] < p[2])}

\* Ties in the order of the ids, or in the order they came (the lists are short).
SortById(list) == LET items == Made(list) IN Arranged(items, BetterThenById(items))
SortStable(list) == LET items == Made(list) IN Arranged(items, BetterFirst(items))

RankToNormalized(rank, limit) ==
    CASE rank = 0 -> 0
      [] rank # 0 /\ limit <= 1 -> One
      [] OTHER -> Clamp01(One - Ratio(rank - 1, limit - 1))

FirstRank(list, id) ==
    LET places == {i \in 1..Len(list) : list[i].id = id}
    IN IF places = {} THEN 0 ELSE Min(places)

\* Reciprocal rank fusion with k = 60, in millionths.
Reciprocal(rank) == IF rank = 0 THEN 0 ELSE 1000000 \div (60 + rank)

Signal(dense, lexical, id) ==
    LET d == FirstRank(dense, id)
        l == FirstRank(lexical, id)
        rrf == Reciprocal(d) + Reciprocal(l)
    IN [denseScore |-> IF d = 0 THEN 0 ELSE Clamp01(dense[d].score), denseRank |-> d,
        lexicalScore |-> IF l = 0 THEN 0 ELSE Clamp01(lexical[l].score), lexicalRank |-> l,
        fused |-> rrf, rrf |-> Clamp01(Ratio(rrf, rrf + Reciprocal(1)))]

\* Every id once, by fused rank and then by id.
FusedIds(dense, lexical) ==
    LET all == dense \o lexical
        first == Picked(all, {i \in 1..Len(all) : FirstRank(all, all[i].id) = i})
        items == SortById([k \in 1..Len(first) |->
                    [id |-> first[k].id, score |-> Signal(dense, lexical, first[k].id).fused]])
    IN Made([k \in 1..Len(items) |-> items[k].id])

---------------------------------------------------------------------------
(* The score of a memory.  An item is [id, memory, recency, signal].      *)

Relevance(item, limit, q, s) ==
    LET signal == item.signal
        dense == signal.denseScore # 0 \/ signal.denseRank # 0
    IN WeightedAverage(
        <<signal.denseScore, signal.lexicalScore, RankToNormalized(signal.denseRank, limit),
          RankToNormalized(signal.lexicalRank, limit), signal.rrf,
          EntityRelationSignal(q.plan, item.memory),
          NormalizedRouteBoost(RouteBoost(item.memory, q, s))>>,
        <<Plus(dense, 340), 120, Plus(dense, 80), 200, 100, 100, 60>>)

\* What rankMemories knows of each item before it weighs anything.
Raw(items, limit, q, s) ==
    Made([i \in DOMAIN items |->
        [recency |-> items[i].recency, relevance |-> Relevance(items[i], limit, q, s),
         importance |-> Clamp01(items[i].memory.importance)]])

Normalized(items, raw, q) ==
    LET all(field) == {raw[i][field] : i \in DOMAIN items}
    IN Made([i \in DOMAIN items |->
          [recency |-> MinMax(raw[i].recency, all("recency")),
           relevance |-> MinMax(raw[i].relevance, all("relevance")),
           importance |-> MinMax(raw[i].importance, all("importance")),
           raw |-> raw[i].relevance, rrf |-> items[i].signal.rrf,
           overlap |-> QueryOverlap(q.words, items[i].memory.words),
           dependency |-> OrderedBigramCoverage(q.words, items[i].memory.words)]])

Features(items, limit, q, s) == Normalized(items, Raw(items, limit, q, s), q)

SingleHopPrecisionBoost(total, f, m, nonRaw, q, s) ==
    LET type == q.plan.type
        raw == m.kind = "raw_turn" /\ nonRaw
        base == Clamp01(Times(total, 760) + Times(f.overlap, 140) + Times(f.dependency, 100))
        factor == Product(<<
            If(m.canonical /\ m.kind \in {"observation", "event"}, 1120),
            If(f.dependency >= 500, 1040),
            If(m.kind # "raw_turn", ByKind(1080, 1060, 960, 1000)[m.kind]),
            If(m.kind = "summary" /\ type \in OpenTypes, 1100),
            If(raw, 860),
            If(raw /\ type \in {"single_fact_boolean", "single_fact_quote"}, 1180),
            If(raw /\ Has(m, "noise"), 800),
            If(s.typeRouting /\ type = "single_fact_quote" /\ (m.answers = "quote" \/ Has(m, "quoted")), 1140),
            If(s.typeRouting /\ type = "single_fact_boolean" /\ m.answers = "boolean", 1120),
            If(s.typeRouting /\ type = "single_fact_location_or_person" /\ m.answers = "entity", 1100),
            If(s.typeRouting /\ s.supportLinks /\ type \in OpenTypes /\ Has(m, "lines"), 1080)>>)
    IN Clamp01(Times(base, factor))

\* Mutant: the penalty falls on items that share most words with the query.
MutantLowEvidencePenalty(total, f) == Clamp01(Times(total, IF f.overlap > 600 THEN 250 ELSE One))

\* Items that are weak on all axes lose.
LowEvidencePenalty(total, f) ==
    LET weakest == f.rrf < 650 /\ f.raw < 300 /\ f.overlap < 150
        weak == f.rrf < 550 /\ f.raw < 550 /\ f.overlap < 200
        factor == CASE f.rrf >= 750 -> One
                    [] f.rrf < 750 /\ weakest -> 250
                    [] f.rrf < 750 /\ ~weakest /\ weak -> 450
                    [] OTHER -> One
    IN Clamp01(Times(total, factor))

RelevanceFirst(q) == ~q.multiHop /\ ~q.temporal /\ (q.person \/ "factoid" \in q.says)

\* The default algorithm before routing; weights are thousandths too.
WeighedTotal(f, m, nonRaw, q, s) ==
    LET w == s.weights
        first == RelevanceFirst(q)
        total == WeightedAverage(<<f.recency, f.relevance, f.importance>>,
                    <<Times(w.recency, If(first, 200)), Times(w.relevance, If(first, 1750)),
                      Times(w.importance, If(first, 250))>>)
    IN IF q.temporal \/ q.multiHop THEN total
       ELSE LowEvidencePenalty(SingleHopPrecisionBoost(total, f, m, nonRaw, q, s), f)

Routed(q) == q.temporal \/ q.person \/ q.multiHop

MatchScore(f, m, q, s) ==
    LET w == s.weights
        overlap == IF f.dependency > 0 THEN Clamp01(Times(f.overlap, 800) + Times(f.dependency, 200))
                   ELSE f.overlap
    IN WeightedAverage(<<f.recency, f.relevance, f.importance, overlap,
                         NormalizedRouteBoost(RouteBoost(m, q, s))>>,
                       <<w.recency, w.relevance, w.importance, w.overlap, w.routing>>)

\* A routed query turns a total of 0 into 1 before it multiplies.
Score(f, m, nonRaw, q, s) ==
    LET total == WeighedTotal(f, m, nonRaw, q, s)
    IN CASE s.algorithm = "match" -> MatchScore(f, m, q, s)
         [] s.algorithm # "match" /\ Routed(q) ->
               Clamp01(Times(IF total = 0 THEN One ELSE total, RouteBoost(m, q, s)))
         [] OTHER -> total

Ranked(item, f, nonRaw, q, s) ==
    [id |-> item.id, memory |-> item.memory, f |-> f, score |-> Score(f, item.memory, nonRaw, q, s)]

RankMemories(items, limit, q, s) ==
    LET features == Features(items, limit, q, s)
        nonRaw == \E i \in DOMAIN items : items[i].memory.kind # "raw_turn"
    IN SortStable([i \in DOMAIN items |-> Ranked(items[i], features[i], nonRaw, q, s)])

---------------------------------------------------------------------------
(* Re-ranking the head of a ranked list.                                  *)

\* New scores for the first n items, which are sorted again; the rest follow.
Rescored(items, n, NewScore(_)) ==
    SortById([i \in 1..n |-> [items[i] EXCEPT !.score = Clamp01(NewScore(items[i]))]])
        \o SubSeq(items, n + 1, Len(items))

Document(m) == m.words \o m.view

IdfCoverage(query, text, docs) ==
    LET words == Unique(query)
        df(word) == Cardinality({i \in 1..Len(docs) : word \in Words(docs[i])})
        weight(i) == Idf(Len(docs), df(words[i]))
    IN IF text = <<>> THEN 0
       ELSE Ratio(Total([i \in 1..Len(words) |-> Plus(words[i] \in Words(text), weight(i))]),
                  Total([i \in 1..Len(words) |-> weight(i)]))

PairwiseRerankScore(query, m, docs) ==
    LET doc == Document(m)
    IN WeightedAverage(
        <<LexicalContentScore(query, doc), OrderedBigramCoverage(query, doc),
          QueryTokenProximity(query, doc), LexicalContentScore(query, m.view),
          IdfCoverage(query, doc, docs), IdfCoverage(query, m.view, docs)>>,
        <<280, 160, 150, 110, 200, 100>>)

RerankApplies(q, s) == ~q.temporal /\ (q.multiHop => s.multiHopRerank)

RerankScoredCandidates(items, q, topK, s) ==
    LET window == Min({Max({s.rerankWindow, topK}), Len(items)})
        docs == Made([i \in 1..window |-> Document(items[i].memory)])
        blended(item) == Times(item.score, One - s.rerankBlend)
                         + Times(PairwiseRerankScore(q.words, item.memory, docs), s.rerankBlend)
    IN IF ~s.rerank \/ Len(items) < 2 THEN items ELSE Rescored(items, window, blended)

EarlyRankWindow(n, q, topK, s) ==
    LET low == q.plan.confidence < s.confidence
        wanted == Max({s.earlyWindow, 4 * topK}) + Plus(q.temporal \/ q.multiHop, topK)
                  + Plus(low, Max({8, 2 * topK}))
    IN Max({2, Min({wanted, s.earlyWindowMax, n})})

EarlyRankSignal(q, m, s) ==
    LET type == q.plan.type
        kindIn(kinds) == m.kind \in kinds
    IN Clamp01(Total(<<
        QueryOverlap(q.words, m.words),
        Plus(q.plan.entity # None /\ q.plan.entity \in m.entities, 100),
        Plus("hint" \in q.says /\ Has(m, "hint"), 100),
        Plus(type \in {"single_fact_boolean", "single_fact_quote", "single_fact_location_or_person"}
             /\ Answers(m, type),
             CASE type = "single_fact_boolean" -> 180 [] type = "single_fact_quote" -> 220 [] OTHER -> 150),
        Plus(type = "single_fact_quote" /\ m.answers # "quote" /\ Has(m, "quoted"), 220),
        Plus(type = "single_fact_boolean" /\ kindIn({"raw_turn", "event"}), 100),
        Plus(type = "single_fact_quote" /\ kindIn({"summary"}), -80),
        Plus(type = "single_fact_list" /\ ~kindIn({"raw_turn"}), 120),
        Plus(type = "single_fact_location_or_person" /\ kindIn({"summary"}), -60),
        Plus(type \in TemporalTypes /\ kindIn({"event", "raw_turn"}), 120),
        Plus(type \in TemporalTypes /\ Has(m, "anchor"), 180),
        Plus(type \in TemporalTypes /\ Has(m, "time"), 80),
        Plus(type \in OpenTypes /\ kindIn({"summary"}), 180),
        Plus(type \in OpenTypes /\ s.supportLinks /\ (Has(m, "lines") \/ Has(m, "links")), 150),
        Plus(s.supportLinks /\ Has(m, "lines"), 30)>>))

EarlyRankRerank(items, q, topK, s) ==
    LET window == EarlyRankWindow(Len(items), q, topK, s)
        blended(item) == Times(item.score, 720) + Times(EarlyRankSignal(q, item.memory, s), 280)
    IN IF ~s.earlyRerank \/ q.multiHop \/ Len(items) <= 1 THEN items
       ELSE Rescored(items, window, blended)

\* Lists of facts are only compared in pairs; everything else is re-ranked twice.
PairwiseReranked(items, q, topK, s) ==
    IF RerankApplies(q, s) THEN RerankScoredCandidates(items, q, topK, s) ELSE items
Reranked(items, q, topK, s) ==
    EarlyRankRerank(PairwiseReranked(items, q, topK, s), q, topK, s)

===========================================================================
