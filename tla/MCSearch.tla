------------------------------ MODULE MCSearch ------------------------------
(* A small instance of Search for TLC: five memories of two tenants. *)
EXTENDS Search

CONSTANTS a, b, x, y, ann, hobby, w1, w2, w3, w4, w5

Base(tenant, kind, tier, turn, words) ==
    [tenant |-> tenant, kind |-> kind, tier |-> tier, turn |-> turn, words |-> words, view |-> <<>>,
     importance |-> 500, recency |-> 400, canonical |-> kind = "observation", answers |-> "none",
     marks |-> {}, entities |-> {}, relations |-> {}, facts |-> {}]

Hobby == [entity |-> ann, relation |-> hobby, active |-> TRUE]
Former == [entity |-> ann, relation |-> hobby, active |-> FALSE]

(* 1 and 2: a fact and the turn it comes from.  3: another fact of the tenant, *)
(* stored later.  4: the same turn of another tenant.  5: deleted long ago,    *)
(* with an embedding and a fact that stayed behind.                            *)
Memories == <<
    [Base(a, "observation", "semantic", x, <<w1, w2>>) EXCEPT
        !.facts = {Hobby}, !.entities = {ann}, !.importance = 800],
    [Base(a, "raw_turn", "episodic", x, <<w1, w2, w3>>) EXCEPT !.recency = 900, !.marks = {"noise", "time"}],
    [Base(a, "observation", "semantic", y, <<w1, w3>>) EXCEPT !.facts = {Former}, !.entities = {ann}],
    Base(b, "observation", "semantic", x, <<w1, w2>>),
    [Base(a, "observation", "semantic", x, <<w1>>) EXCEPT !.facts = {Hobby}, !.entities = {ann}]>>

\* "Q" is "q" in capitals.
TheTexts == [q |-> <<w1, w2>>, Q |-> <<w1, w2>>, w |-> <<w3>>, r |-> <<w1, w2, w3, w4, w5>>]
TheKeys == [q |-> "q", Q |-> "q", w |-> "w", r |-> "r"]

Query0 == [text |-> "q", words |-> <<w1, w2>>, rewrites |-> <<>>, parts |-> <<>>, feedback |-> <<>>,
           backoff |-> <<>>, refined |-> <<>>, decomposed |-> <<>>, says |-> {}, hints |-> {},
           temporal |-> FALSE, person |-> FALSE, multiHop |-> FALSE, entity |-> None, relation |-> None]

Factoid == [Query0 EXCEPT !.says = {"factoid", "place"}, !.rewrites = <<"Q">>, !.backoff = <<"w">>]
ListQuestion == [Query0 EXCEPT !.says = {"list"}, !.entity = ann, !.relation = hobby]
Person == [Query0 EXCEPT !.person = TRUE, !.entity = ann, !.text = "w", !.words = <<w3>>]
TwoHops == [Query0 EXCEPT !.temporal = TRUE, !.multiHop = TRUE, !.entity = ann, !.text = "r",
                          !.words = TheTexts.r, !.parts = <<"w">>, !.decomposed = <<"w">>, !.refined = <<"w">>, !.hints = {hobby}]

TheQueries == {Factoid, ListQuestion, Person, TwoHops}

\* Every embedding is near every other, the nearer the more words are shared.
Near(text, id) == 300 + ContentScore[text][id] \div 2

\* ln(1 + (n - df + 1/2) / (df + 1/2)) + 1
IdfTable(n, df) ==
    << <<2386, 1288>>, <<2792, 1693, 1182>>, <<3079, 1981, 1470, 1134>>, <<3303, 2204, 1693, 1357, 1105>>,
       <<3485, 2386, 1875, 1539, 1288, 1087>> >>[n][df + 1]

Ask(query) == [tenant |-> a, query |-> query, topK |-> 2, kinds |-> {}, tiers |-> {}, minScore |-> 0,
               retrieval |-> "auto", touch |-> TRUE]

Local == [entityRepo |-> FALSE, preferCanonical |-> FALSE, cascade |-> TRUE, singleton |-> FALSE,
          temporalValidity |-> FALSE, bridge |-> FALSE, paths |-> FALSE, maxHops |-> 2,
          graphMinScore |-> 120, graphWeight |-> 250, decompose |-> FALSE, tokenFallback |-> FALSE,
          adaptive |-> TRUE, maxExtra |-> 1, weakLexical |-> 620, feedbackMin |-> 6, confidence |-> 600,
          multiplier |-> 1, windowMin |-> 2, windowMax |-> 3, windowWide |-> 6, multiHopBoost |-> 2,
          temporalBoost |-> 1, filterBoost |-> 1, vectorMax |-> 5, typeRouting |-> TRUE,
          supportLinks |-> TRUE, algorithm |-> "wal",
          weights |-> [recency |-> 100, relevance |-> 800, importance |-> 100],
          rerank |-> TRUE, rerankWindow |-> 2, rerankBlend |-> 350, multiHopRerank |-> TRUE,
          earlyRerank |-> TRUE, earlyWindow |-> 2, earlyWindowMax |-> 3]

Services == [Local EXCEPT !.entityRepo = TRUE, !.preferCanonical = TRUE, !.cascade = FALSE, !.singleton = TRUE,
                          !.temporalValidity = TRUE, !.bridge = TRUE, !.paths = TRUE, !.decompose = TRUE,
                          !.tokenFallback = TRUE, !.adaptive = FALSE, !.algorithm = "match",
                          !.weights = [recency |-> 50, relevance |-> 700, importance |-> 100, overlap |-> 100, routing |-> 50],
                          !.earlyRerank = FALSE]

Servers == {Local, Services}

TheRequests(server) ==
    IF server = Local
    THEN {[Ask(Factoid) EXCEPT !.topK = 0], [Ask(Factoid) EXCEPT !.retrieval = "nearest"],
          [Ask(TwoHops) EXCEPT !.tiers = {"semantic"}, !.topK = 3]}
    ELSE {[Ask(ListQuestion) EXCEPT !.tiers = {"semantic"}],
          [Ask(TwoHops) EXCEPT !.topK = 3],
          [Ask(Person) EXCEPT !.kinds = {"raw_turn"}, !.retrieval = "entity", !.minScore = 100, !.touch = FALSE]}

SearcherSymmetry == Permutations(Searchers)

=============================================================================
