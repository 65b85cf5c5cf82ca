--------------------------- MODULE SearchProofs ---------------------------
(***************************************************************************)
(* Searches, their ranking and the cache of query embeddings, for any      *)
(* searchers, memories, texts, settings, requests and capacity.            *)
(*                                                                         *)
(* First the ranking: its numbers are in their ranges, scores rise with    *)
(* the signals, and lists hold what they were made of. Then the cache:     *)
(* what it keeps is what was used last, its list being the beginning of    *)
(* the history of its uses, and every embedding meets its query, one that  *)
(* does not fit yet being a miss that waits for the embedder. Then the     *)
(* answers: at every stage a search has collected the matches that were    *)
(* stored all the while, unless a list was cut, and what it holds as its   *)
(* answer was loaded from the rows of the tenant after its search began.   *)
(* Last the ranking again: a search holds one whose scores were all made   *)
(* for its query.                                                          *)
(***************************************************************************)
EXTENDS Search, ListProofs

-----------------------------------------------------------------------------
(* Numbers of the ranking.                                                 *)

LEMMA Clamp01Type ==
    ASSUME NEW v \in Int
    PROVE  Clamp01(v) \in 0..One /\ Clamp01(v) \in Nat
BY DEF Clamp01, One

LEMMA TimesType ==
    ASSUME NEW v \in Int, NEW factor \in Int
    PROVE  Times(v, factor) \in Int /\ (v >= 0 /\ factor >= 0 => Times(v, factor) >= 0)
<1> PICK p \in Int : p = v * factor
  OBVIOUS
<1>1. p \div 1000 \in Int /\ (p >= 0 => p \div 1000 >= 0)
  OBVIOUS
<1>2. v >= 0 /\ factor >= 0 => p >= 0
  OBVIOUS
<1> QED BY <1>1, <1>2 DEF Times, One

LEMMA TimesInt == \A v, factor \in Int : Times(v, factor) \in Int
BY TimesType

LEMMA Quotient ==
    ASSUME NEW a \in Int, NEW b \in Nat \ {0}
    PROVE  a \div b \in Int
OBVIOUS

LEMMA RatioType ==
    ASSUME NEW a \in Int, NEW b \in Nat
    PROVE  Ratio(a, b) \in Int
BY Quotient DEF Ratio, One

LEMMA IfType ==
    ASSUME NEW condition, NEW factor \in Int
    PROVE  If(condition, factor) \in Int /\ Plus(condition, factor) \in Int
BY DEF If, Plus, One

(* The sums of the first numbers, one after the other. *)
LEMMA TotalRuns ==
    ASSUME NEW numbers \in Seq(Int)
    PROVE  \E upTo : /\ upTo[0] = 0 /\ \A i \in 1..Len(numbers) : upTo[i] = upTo[i - 1] + numbers[i]
                     /\ Total(numbers) = upTo[Len(numbers)]
<1> DEFINE N == Len(numbers)
           Step == [p \in Int \X (1..N) |-> p[1] + numbers[p[2]]]
           upTo == CHOOSE f : f = [i \in 0..N |-> IF i = 0 THEN 0 ELSE f[i - 1] + numbers[i]]
<1>1. N \in Nat /\ 0 \in Int /\ \A i \in 1..N : numbers[i] \in Int
  OBVIOUS
<1>2. PICK g : Recursion(g, N, Int, 0, Step)
  <2>1. Step \in [Int \X (1..N) -> Int]
    BY <1>1
  <2> HIDE DEF Step, N
  <2> QED BY <1>1, <2>1, RecursionExists
<1>3. g = [i \in 0..N |-> IF i = 0 THEN 0 ELSE g[i - 1] + numbers[i]]
  <2>1. g \in [0..N -> Int] /\ g = [i \in 0..N |-> IF i = 0 THEN 0 ELSE Step[<<g[i - 1], i>>]]
    BY <1>2, Zenon DEF Recursion
  <2>2. \A i \in 0..N : i # 0 => Step[<<g[i - 1], i>>] = g[i - 1] + numbers[i]
    <3>1. \A i \in 0..N : i # 0 => <<g[i - 1], i>> \in Int \X (1..N)
      <4> HIDE DEF Step, N
      <4> TAKE i \in 0..N
      <4>1. i # 0 => i - 1 \in 0..N /\ i \in 1..N
        BY <1>1
      <4> QED BY <2>1, <4>1
    <3> QED BY <3>1
  <2> HIDE DEF Step, N
  <2> QED BY <2>1, <2>2
<1> HIDE DEF N, Step
<1>4. upTo = [i \in 0..N |-> IF i = 0 THEN 0 ELSE upTo[i - 1] + numbers[i]]
  BY <1>3, Zenon
<1> HIDE DEF upTo
<1>5. upTo[0] = 0 /\ \A i \in 1..N : upTo[i] = upTo[i - 1] + numbers[i]
  BY <1>1, <1>4
<1>6. Total(numbers) = upTo[N]
  BY Zenon DEF Total, upTo, N
<1> QED BY <1>5, <1>6 DEF N

LEMMA TotalType ==
    ASSUME NEW numbers \in Seq(Int)
    PROVE  /\ Total(numbers) \in Int
           /\ (\A i \in 1..Len(numbers) : numbers[i] >= 0) => Total(numbers) \in Nat
<1> PICK N : N = Len(numbers)
  OBVIOUS
<1>1. N \in Nat /\ \A i \in 1..N : numbers[i] \in Int
  OBVIOUS
<1>2. PICK upTo : /\ upTo[0] = 0 /\ \A i \in 1..N : upTo[i] = upTo[i - 1] + numbers[i]
                  /\ Total(numbers) = upTo[N]
  BY TotalRuns
<1>3. \A i \in 0..N : upTo[i] \in Int
  <2>1. upTo[0] \in Int /\ \A i \in 1..N : upTo[i - 1] \in Int => upTo[i] \in Int
    BY <1>1, <1>2
  <2> QED BY <1>1, <2>1, UpTo
<1>4. ASSUME \A i \in 1..N : numbers[i] >= 0
      PROVE  upTo[N] \in Nat
  <2>1. upTo[0] \in Nat /\ \A i \in 1..N : upTo[i - 1] \in Nat => upTo[i] \in Nat
    BY <1>1, <1>2, <1>4
  <2>2. \A i \in 0..N : upTo[i] \in Nat
    BY <1>1, <2>1, UpTo
  <2> QED BY <1>1, <2>2
<1> QED BY <1>1, <1>2, <1>3, <1>4

(* The products of the first factors, one after the other. *)
LEMMA ProductRuns ==
    ASSUME NEW factors \in Seq(Int)
    PROVE  \E upTo : /\ upTo[0] = One /\ \A i \in 1..Len(factors) : upTo[i] = Times(upTo[i - 1], factors[i])
                     /\ Product(factors) = upTo[Len(factors)]
<1> DEFINE N == Len(factors)
           Step == [p \in Int \X (1..N) |-> Times(p[1], factors[p[2]])]
           upTo == CHOOSE f : f = [i \in 0..N |-> IF i = 0 THEN One ELSE Times(f[i - 1], factors[i])]
<1>1. N \in Nat /\ (\A i \in 1..N : factors[i] \in Int) /\ One \in Int
  BY DEF One
<1>2. PICK g : Recursion(g, N, Int, One, Step)
  <2>1. \A p \in Int \X (1..N) : Times(p[1], factors[p[2]]) \in Int
    BY <1>1, TimesInt
  <2>2. Step \in [Int \X (1..N) -> Int]
    BY <2>1
  <2> HIDE DEF Step, N
  <2> QED BY <1>1, <2>2, RecursionExists
<1>3. g = [i \in 0..N |-> IF i = 0 THEN One ELSE Times(g[i - 1], factors[i])]
  <2>1. g \in [0..N -> Int] /\ g = [i \in 0..N |-> IF i = 0 THEN One ELSE Step[<<g[i - 1], i>>]]
    BY <1>2, Zenon DEF Recursion
  <2>2. \A i \in 0..N : i # 0 => Step[<<g[i - 1], i>>] = Times(g[i - 1], factors[i])
    <3>1. \A i \in 0..N : i # 0 => <<g[i - 1], i>> \in Int \X (1..N)
      <4> HIDE DEF Step, N
      <4> TAKE i \in 0..N
      <4>1. i # 0 => i - 1 \in 0..N /\ i \in 1..N
        BY <1>1
      <4> QED BY <2>1, <4>1
    <3> QED BY <3>1
  <2> HIDE DEF Step, N
  <2> QED BY <2>1, <2>2
<1> HIDE DEF N, Step
<1>4. upTo = [i \in 0..N |-> IF i = 0 THEN One ELSE Times(upTo[i - 1], factors[i])]
  BY <1>3, Zenon
<1> HIDE DEF upTo
<1>5. upTo[0] = One /\ \A i \in 1..N : upTo[i] = Times(upTo[i - 1], factors[i])
  BY <1>1, <1>4
<1>6. Product(factors) = upTo[N]
  BY Zenon DEF Product, upTo, N
<1> QED BY <1>5, <1>6 DEF N

LEMMA ProductType ==
    ASSUME NEW factors \in Seq(Int)
    PROVE  Product(factors) \in Int
<1> PICK N : N = Len(factors)
  OBVIOUS
<1>1. N \in Nat /\ (\A i \in 1..N : factors[i] \in Int) /\ One \in Int
  BY DEF One
<1>2. PICK upTo : /\ upTo[0] = One /\ \A i \in 1..N : upTo[i] = Times(upTo[i - 1], factors[i])
                  /\ Product(factors) = upTo[N]
  BY ProductRuns
<1>3. \A i \in 1..N : upTo[i - 1] \in Int => upTo[i] \in Int
  BY <1>1, <1>2, TimesInt
<1>4. \A i \in 0..N : upTo[i] \in Int
  BY <1>1, <1>2, <1>3, UpTo
<1> QED BY <1>1, <1>2, <1>4

(* An average is between 0 and 1, whatever the values and the weights. *)
LEMMA WeightedAverageType ==
    ASSUME NEW values \in Seq(Int), NEW weights \in Seq(Int), Len(values) = Len(weights)
    PROVE  WeightedAverage(values, weights) \in 0..One
<1> DEFINE used == {i \in DOMAIN values : weights[i] > 0}
           counted == [i \in DOMAIN values |-> IF i \in used THEN weights[i] ELSE 0]
           summed == [i \in DOMAIN values |-> IF i \in used THEN weights[i] * Clamp01(values[i]) ELSE 0]
<1>1. DOMAIN values = 1..Len(values) /\ Len(values) \in Nat
      /\ \A i \in 1..Len(values) : values[i] \in Int /\ weights[i] \in Int
  OBVIOUS
<1>2. counted \in Seq(Int) /\ Len(counted) = Len(values) /\ \A i \in 1..Len(values) : counted[i] >= 0
  BY <1>1
<1>3. \A i \in 1..Len(values) : Clamp01(values[i]) \in Int
  BY <1>1, Clamp01Type
<1>4. summed \in Seq(Int)
  <2>1. \A i \in 1..Len(values) : weights[i] * Clamp01(values[i]) \in Int
    BY <1>1, <1>3
  <2> QED BY <1>1, <2>1
<1> HIDE DEF counted, summed
<1>5. Total(counted) \in Nat /\ Total(summed) \in Int
  BY <1>2, <1>4, TotalType
<1>6. WeightedAverage(values, weights) =
         IF Total(counted) = 0 THEN 0 ELSE Clamp01(Total(summed) \div Total(counted))
  BY Zenon DEF WeightedAverage, counted, summed
<1>7. Total(counted) # 0 => Total(summed) \div Total(counted) \in Int
  BY <1>5, Quotient
<1>8. 0 \in 0..One
  BY DEF One
<1> QED BY <1>5, <1>6, <1>7, <1>8, Clamp01Type

LEMMA TwoNumbers ==
    ASSUME NEW a \in Int, NEW b \in Int
    PROVE  /\ Min({a, b}) = IF a <= b THEN a ELSE b
           /\ Max({a, b}) = IF a >= b THEN a ELSE b
<1> DEFINE m == IF a <= b THEN a ELSE b
           n == IF a >= b THEN a ELSE b
<1>1. m \in {a, b} /\ \A y \in {a, b} : m =< y
  OBVIOUS
<1>2. \A x \in {a, b} : (\A y \in {a, b} : x =< y) => x = m
  OBVIOUS
<1>3. n \in {a, b} /\ \A y \in {a, b} : n >= y
  OBVIOUS
<1>4. \A x \in {a, b} : (\A y \in {a, b} : x >= y) => x = n
  OBVIOUS
<1>5. Min({a, b}) = m
  BY <1>1, <1>2 DEF Min
<1>6. Max({a, b}) = n
  BY <1>3, <1>4 DEF Max
<1> QED BY <1>5, <1>6

LEMMA ThreeNumbers ==
    ASSUME NEW a \in Int, NEW b \in Int, NEW c \in Int
    PROVE  /\ Min({a, b, c}) \in {a, b, c}
           /\ \A y \in {a, b, c} : Min({a, b, c}) <= y
<1> DEFINE m == IF a <= b /\ a <= c THEN a ELSE IF b <= c THEN b ELSE c
<1>1. m \in {a, b, c} /\ \A y \in {a, b, c} : m =< y
  OBVIOUS
<1>2. \A x \in {a, b, c} : (\A y \in {a, b, c} : x =< y) => x = m
  OBVIOUS
<1>3. Min({a, b, c}) = m
  BY <1>1, <1>2 DEF Min
<1> HIDE DEF m
<1> QED BY <1>1, <1>3

LEMMA LeastOf ==
    ASSUME NEW S \in SUBSET Nat, S # {}
    PROVE  Min(S) \in S /\ \A y \in S : Min(S) <= y
<1>1. \E x \in S : \A y \in S : x =< y
  BY LeastNatural
<1> QED BY <1>1 DEF Min

LEMMA GreatestOf ==
    ASSUME NEW B \in Nat, NEW S \in SUBSET (0..B), S # {}
    PROVE  Max(S) \in S /\ \A y \in S : Max(S) >= y
<1> DEFINE T == {n \in Nat : n <= B /\ B - n \in S}
<1>1. T # {}
  <2> PICK x \in S : TRUE
    OBVIOUS
  <2>1. B - x \in T
    OBVIOUS
  <2> QED BY <2>1
<1>2. PICK n \in T : \A m \in T : n <= m
  <2>1. T \in SUBSET Nat
    OBVIOUS
  <2> HIDE DEF T
  <2> QED BY <1>1, <2>1, LeastNatural
<1>3. B - n \in S
  BY <1>2
<1>4. \A y \in S : B - n >= y
  <2> TAKE y \in S
  <2>1. B - y \in T
    OBVIOUS
  <2>2. n <= B - y
    BY <1>2, <2>1
  <2> QED BY <2>2
<1> QED BY <1>3, <1>4 DEF Max

(* scoring.MinMax divides by a spread that is positive. *)
LEMMA MinMaxType ==
    ASSUME NEW all \in SUBSET (0..One), NEW v \in all
    PROVE  MinMax(v, all) \in Int
<1>0. One \in Nat
  BY DEF One
<1>1. all \in SUBSET Nat /\ all # {}
  BY <1>0
<1>2. Min(all) \in all /\ Max(all) \in all /\ Min(all) <= Max(all)
  BY <1>0, <1>1, LeastOf, GreatestOf
<1>a. Min(all) \in Nat /\ Max(all) \in Nat /\ v \in Nat
  BY <1>1, <1>2
<1>3. v - Min(all) \in Int /\ Max(all) - Min(all) \in Nat
  BY <1>2, <1>a
<1>4. 0 \in Int
  OBVIOUS
<1> QED BY <1>3, <1>4, RatioType DEF MinMax

-----------------------------------------------------------------------------
(* Words.                                                                  *)

LEMMA WordsFinite ==
    ASSUME NEW text, IsSeq(text)
    PROVE  /\ IsFiniteSet(Words(text)) /\ Words(text) = {text[i] : i \in 1..Len(text)}
           /\ Len(text) \in Nat
<1> PICK W : text \in Seq(W)
  BY DEF IsSeq
<1>1. Words(text) = {text[i] : i \in 1..Len(text)}
  BY DEF Words, Range
<1>2. text \in Surjection(1..Len(text), Words(text))
  <2>1. text \in [1..Len(text) -> Words(text)]
    BY <1>1
  <2>2. \A w \in Words(text) : \E i \in 1..Len(text) : text[i] = w
    BY <1>1
  <2> QED BY <2>1, <2>2 DEF Surjection
<1>3. IsFiniteSet(1..Len(text))
  BY FS_Interval
<1>4. IsFiniteSet(Words(text))
  BY <1>2, <1>3, FS_Surjection
<1> QED BY <1>1, <1>4

LEMMA WordCounts ==
    ASSUME NEW query, NEW text, IsSeq(query), IsSeq(text)
    PROVE  /\ Cardinality(Words(query)) \in Nat
           /\ Cardinality(Words(query) \cap Words(text)) \in Nat
           /\ Cardinality(Words(query) \cup Words(text)) \in Nat
<1>1. IsFiniteSet(Words(query)) /\ IsFiniteSet(Words(text))
  BY WordsFinite
<1>2. IsFiniteSet(Words(query) \cap Words(text)) /\ IsFiniteSet(Words(query) \cup Words(text))
  BY <1>1, FS_Intersection, FS_Union
<1> QED BY <1>1, <1>2, FS_CardinalityType

LEMMA QueryOverlapType ==
    ASSUME NEW query, NEW text, IsSeq(query), IsSeq(text)
    PROVE  QueryOverlap(query, text) \in Int
<1> DEFINE matches == Cardinality(Words(query) \cap Words(text))
           words == Cardinality(Words(query))
<1>1. matches \in Nat /\ words \in Nat
  BY WordCounts
<1>2. QueryOverlap(query, text) = IF text = <<>> THEN 0 ELSE Ratio(matches, words)
  BY DEF QueryOverlap
<1> HIDE DEF matches, words
<1> QED BY <1>1, <1>2, RatioType

LEMMA LexicalContentScoreType ==
    ASSUME NEW query, NEW text, IsSeq(query), IsSeq(text)
    PROVE  LexicalContentScore(query, text) \in 0..One
<1> DEFINE matches == Cardinality(Words(query) \cap Words(text))
           union == Cardinality(Words(query) \cup Words(text))
           words == Cardinality(Words(query))
<1>1. matches \in Nat /\ union \in Nat /\ words \in Nat
  BY WordCounts
<1>2. LexicalContentScore(query, text) =
         IF matches = 0 THEN 0
         ELSE Clamp01(Times(Ratio(matches, words), 700) + Times(Ratio(matches, union), 300))
  BY DEF LexicalContentScore
<1> HIDE DEF matches, union, words
<1>3. Times(Ratio(matches, words), 700) \in Int /\ Times(Ratio(matches, union), 300) \in Int
  BY <1>1, RatioType, TimesInt
<1>4. 0 \in 0..One
  BY DEF One
<1> QED BY <1>2, <1>3, <1>4, Clamp01Type

LEMMA OrderedBigramCoverageType ==
    ASSUME NEW query, NEW text, IsSeq(query), IsSeq(text)
    PROVE  OrderedBigramCoverage(query, text) \in Int
<1> DEFINE matched == {i \in 1..(Len(query) - 1) : <<query[i], query[i + 1]>> \in Pairs(text)}
<1>1. Len(query) \in Nat
  BY WordsFinite
<1>2. Cardinality(matched) \in Nat
  <2>1. IsFiniteSet(1..(Len(query) - 1))
    BY <1>1, FS_Interval
  <2>2. IsFiniteSet(matched)
    BY <2>1, FS_Subset
  <2> QED BY <2>2, FS_CardinalityType
<1>3. OrderedBigramCoverage(query, text) =
         IF Len(query) < 2 THEN 0 ELSE Ratio(Cardinality(matched), Len(query) - 1)
  BY DEF OrderedBigramCoverage
<1> HIDE DEF matched
<1>4. Len(query) >= 2 => Len(query) - 1 \in Nat
  BY <1>1
<1> QED BY <1>1, <1>2, <1>3, <1>4, RatioType

(* A query without the words that came before. *)
LEMMA UniqueType ==
    ASSUME NEW text, IsSeq(text)
    PROVE  IsSeq(Unique(text)) /\ Len(Unique(text)) \in Nat
<1> PICK W : text \in Seq(W)
  BY DEF IsSeq
<1> DEFINE places == {i \in 1..Len(text) : \A j \in 1..(i - 1) : text[j] # text[i]}
<1>1. Selects(Picked(text, places), text, places)
  BY PickedSelects
<1>2. Unique(text) = Picked(text, places)
  BY DEF Unique
<1> HIDE DEF places
<1>3. places \in SUBSET (1..Len(text))
  BY DEF places
<1>4. Unique(text) \in Seq(W)
  BY <1>1, <1>2, <1>3, SelectsHolds
<1> QED BY <1>4 DEF IsSeq

Matches3 == [last : Nat, matched : Nat, gap : Nat]

LEMMA MatchedType ==
    ASSUME NEW at \in Matches3, NEW text, IsSeq(text), NEW word
    PROVE  Matched(at, text, word) \in Matches3
<1> DEFINE later == {p \in (at.last + 1)..Len(text) : text[p] = word}
<1>1. at.last \in Nat /\ at.matched \in Nat /\ at.gap \in Nat /\ Len(text) \in Nat
  BY WordsFinite DEF Matches3
<1>2. CASE later = {}
  BY <1>2 DEF Matched
<1>3. CASE later # {}
  <2>1. later \in SUBSET Nat
    BY <1>1
  <2>2. Min(later) \in later
    BY <1>3, <2>1, LeastOf
  <2>3. Min(later) \in Nat /\ Min(later) - at.last - 1 \in Nat
    BY <1>1, <2>2
  <2>4. Matched(at, text, word) =
           [last |-> Min(later), matched |-> at.matched + 1,
            gap |-> at.gap + (IF at.last = 0 THEN 0 ELSE Min(later) - at.last - 1)]
    BY <1>3 DEF Matched
  <2> HIDE DEF later
  <2> QED BY <1>1, <2>3, <2>4 DEF Matches3
<1> QED BY <1>2, <1>3

LEMMA MatchingType ==
    ASSUME NEW query, IsSeq(query), NEW text, IsSeq(text)
    PROVE  Matching(query, text) \in Matches3
<1> DEFINE N == Len(query)
           base == [last |-> 0, matched |-> 0, gap |-> 0]
           Step == [p \in Matches3 \X (1..N) |-> Matched(p[1], text, query[p[2]])]
           upTo == CHOOSE f : f = [i \in 0..N |-> IF i = 0 THEN [last |-> 0, matched |-> 0, gap |-> 0]
                                                  ELSE Matched(f[i - 1], text, query[i])]
<1>1. N \in Nat /\ base \in Matches3
  BY WordsFinite DEF Matches3
<1>2. PICK g : Recursion(g, N, Matches3, base, Step)
  <2>1. \A p \in Matches3 \X (1..N) : Matched(p[1], text, query[p[2]]) \in Matches3
    BY MatchedType
  <2>2. Step \in [Matches3 \X (1..N) -> Matches3]
    BY <2>1
  <2> HIDE DEF Step, N, base
  <2> QED BY <1>1, <2>2, RecursionExists
<1>3. g = [i \in 0..N |-> IF i = 0 THEN base ELSE Matched(g[i - 1], text, query[i])]
  <2>1. g \in [0..N -> Matches3] /\ g = [i \in 0..N |-> IF i = 0 THEN base ELSE Step[<<g[i - 1], i>>]]
    BY <1>2, Zenon DEF Recursion
  <2>2. \A i \in 0..N : i # 0 => Step[<<g[i - 1], i>>] = Matched(g[i - 1], text, query[i])
    <3>1. \A i \in 0..N : i # 0 => <<g[i - 1], i>> \in Matches3 \X (1..N)
      <4> HIDE DEF Step, N, base
      <4> TAKE i \in 0..N
      <4>1. i # 0 => i - 1 \in 0..N /\ i \in 1..N
        BY <1>1
      <4> QED BY <2>1, <4>1
    <3> HIDE DEF base
    <3> QED BY <3>1
  <2> HIDE DEF Step, N, base
  <2> QED BY <2>1, <2>2
<1> HIDE DEF N, Step
<1>4. upTo = [i \in 0..N |-> IF i = 0 THEN base ELSE Matched(upTo[i - 1], text, query[i])]
  BY <1>3, Zenon
<1> HIDE DEF upTo, base
<1>5. upTo[0] = base /\ \A i \in 1..N : upTo[i] = Matched(upTo[i - 1], text, query[i])
  BY <1>1, <1>4
<1>6. Matching(query, text) = upTo[N]
  BY Zenon DEF Matching, upTo, N
<1>7. upTo[0] \in Matches3 /\ \A i \in 1..N : upTo[i - 1] \in Matches3 => upTo[i] \in Matches3
  BY <1>1, <1>5, MatchedType
<1>8. \A i \in 0..N : upTo[i] \in Matches3
  BY <1>1, <1>7, UpTo
<1> QED BY <1>1, <1>6, <1>8

LEMMA QueryTokenProximityType ==
    ASSUME NEW query, IsSeq(query), NEW text, IsSeq(text)
    PROVE  QueryTokenProximity(query, text) \in 0..One
<1> DEFINE found == Matching(Unique(query), text)
           coverage == Ratio(found.matched, Cardinality(Words(query)))
           pairs == found.matched - 1
<1>1. found \in Matches3
  BY UniqueType, MatchingType
<1> HIDE DEF found
<1>2. found.matched \in Nat /\ found.gap \in Nat
  BY <1>1 DEF Matches3
<1>3. coverage \in Int
  BY <1>2, WordCounts, RatioType
<1>4. QueryTokenProximity(query, text) =
         CASE found.matched = 0 -> 0
           [] found.matched = 1 -> Clamp01(Times(coverage, 500))
           [] OTHER -> Clamp01(Times(coverage, 650) + Times(Ratio(pairs, pairs + found.gap), 350))
  BY DEF QueryTokenProximity, found
<1> HIDE DEF coverage
<1>a. Times(coverage, 500) \in Int /\ Times(coverage, 650) \in Int
  BY <1>3, TimesInt
<1>b. 0 \in 0..One
  BY DEF One
<1>5. Clamp01(Times(coverage, 500)) \in 0..One /\ Times(coverage, 650) \in Int /\ 0 \in 0..One
  BY <1>a, <1>b, Clamp01Type
<1>6. CASE found.matched \in {0, 1}
  BY <1>4, <1>5, <1>6
<1>7. CASE found.matched \notin {0, 1}
  <2>1. pairs \in Int /\ pairs + found.gap \in Nat
    BY <1>2, <1>7
  <2> HIDE DEF pairs
  <2>a. Ratio(pairs, pairs + found.gap) \in Int
    BY <2>1, RatioType
  <2>2. Times(Ratio(pairs, pairs + found.gap), 350) \in Int
    BY <2>a, TimesInt
  <2>3. Clamp01(Times(coverage, 650) + Times(Ratio(pairs, pairs + found.gap), 350)) \in 0..One
    BY <1>5, <2>2, Clamp01Type
  <2> QED BY <1>4, <1>7, <2>3
<1> QED BY <1>6, <1>7

-----------------------------------------------------------------------------
(* The score of a memory, for any plan and any integer settings.           *)

KindNames == {"observation", "event", "summary", "raw_turn"}

MemoryOK(m) ==
    /\ IsSeq(m.words) /\ IsSeq(m.view)
    /\ m.kind \in KindNames
    /\ m.importance \in Int

WeightsOK(s) ==
    /\ s.weights.recency \in Int /\ s.weights.relevance \in Int /\ s.weights.importance \in Int
    /\ s.algorithm = "match" => s.weights.overlap \in Int /\ s.weights.routing \in Int

SignalOK(signal) ==
    /\ signal.denseScore \in Int /\ signal.denseRank \in Nat
    /\ signal.lexicalScore \in Int /\ signal.lexicalRank \in Nat
    /\ signal.rrf \in Int

LEMMA ByKindType ==
    ASSUME NEW a \in Int, NEW b \in Int, NEW c \in Int, NEW d \in Int, NEW kind \in KindNames
    PROVE  ByKind(a, b, c, d)[kind] \in Int
BY DEF ByKind, KindNames

LEMMA TypeFactorType ==
    ASSUME NEW type, NEW kind \in KindNames
    PROVE  TypeFactor(type)[kind] \in Int
BY DEF TypeFactor, ByKind, KindNames

LEMMA RouteBoostType ==
    ASSUME NEW m, m.kind \in KindNames, NEW q, NEW s
    PROVE  RouteBoost(m, q, s) \in Nat
<1> DEFINE type == q.plan.type
           f1 == If(q.temporal, ByKind(1150, 1250, 1050, 950)[m.kind])
           f2 == If(q.temporal /\ Has(m, "time"), 1050)
           f3 == If(q.person, ByKind(1100, 1000, 1050, 1000)[m.kind])
           f4 == If(q.person /\ Has(m, "colon"), 1030)
           f5 == If(q.multiHop, ByKind(1000, 1080, 1080, 1000)[m.kind])
           f6 == If(q.multiHop /\ Has(m, "dialog"), 1020)
           f7 == If(s.typeRouting, TypeFactor(type)[m.kind])
           f8 == If(s.typeRouting /\ type \in TemporalTypes /\ Has(m, "anchor"), 1080)
           f9 == If(s.typeRouting /\ s.supportLinks /\ type \in OpenTypes /\ Has(m, "lines"), 1050)
           f10 == If(Answers(m, type), CASE m.answers = "quote" -> 1120
                                         [] m.answers = "boolean" -> 1100
                                         [] OTHER -> 1080)
           f11 == If(type \in OpenTypes /\ (Has(m, "lines") \/ Has(m, "links")), 1040)
           boost == Product(<<f1, f2, f3, f4, f5, f6, f7, f8, f9, f10, f11>>)
<1>1. f1 \in Int /\ f3 \in Int /\ f5 \in Int /\ f7 \in Int
  BY ByKindType, TypeFactorType, IfType
<1>2. f2 \in Int /\ f4 \in Int /\ f6 \in Int /\ f8 \in Int /\ f9 \in Int /\ f11 \in Int
  BY IfType
<1>3. f10 \in Int
  <2>1. (CASE m.answers = "quote" -> 1120 [] m.answers = "boolean" -> 1100 [] OTHER -> 1080) \in Int
    OBVIOUS
  <2> QED BY <2>1, IfType
<1>4. RouteBoost(m, q, s) = Max({800, Min({boost, 1350})})
  BY DEF RouteBoost
<1> HIDE DEF f1, f2, f3, f4, f5, f6, f7, f8, f9, f10, f11, boost
<1>5. <<f1, f2, f3, f4, f5, f6, f7, f8, f9, f10, f11>> \in Seq(Int)
  BY <1>1, <1>2, <1>3
<1>6. boost \in Int
  BY <1>5, ProductType DEF boost
<1> DEFINE least == Min({boost, 1350})
<1>7. least \in Int
  BY <1>6, TwoNumbers
<1> HIDE DEF least
<1>8. Max({800, least}) \in Nat
  <2>1. Max({800, least}) = IF 800 >= least THEN 800 ELSE least
    BY <1>7, TwoNumbers
  <2> QED BY <1>7, <2>1
<1> QED BY <1>4, <1>8 DEF least

LEMMA NormalizedRouteBoostType ==
    ASSUME NEW boost \in Int
    PROVE  NormalizedRouteBoost(boost) \in Int
<1>1. Ratio(boost - 800, 550) \in Int
  BY RatioType
<1> QED BY <1>1, Clamp01Type DEF NormalizedRouteBoost

LEMMA RankToNormalizedType ==
    ASSUME NEW rank \in Nat, NEW limit \in Int
    PROVE  RankToNormalized(rank, limit) \in 0..One
<1>1. 0 \in 0..One /\ One \in 0..One /\ One \in Int
  BY DEF One
<1>2. ASSUME ~(limit <= 1)
      PROVE  Clamp01(One - Ratio(rank - 1, limit - 1)) \in 0..One
  <2>1. Ratio(rank - 1, limit - 1) \in Int
    BY <1>2, RatioType
  <2> QED BY <1>1, <2>1, Clamp01Type
<1> QED BY <1>1, <1>2 DEF RankToNormalized

LEMMA EntityRelationSignalType ==
    ASSUME NEW plan, NEW m
    PROVE  EntityRelationSignal(plan, m) \in Int
BY DEF EntityRelationSignal, One

LEMMA RelevanceType ==
    ASSUME NEW item, MemoryOK(item.memory), SignalOK(item.signal), NEW limit \in Int, NEW q, NEW s
    PROVE  Relevance(item, limit, q, s) \in 0..One
<1> DEFINE signal == item.signal
           dense == signal.denseScore # 0 \/ signal.denseRank # 0
           v1 == RankToNormalized(signal.denseRank, limit)
           v2 == RankToNormalized(signal.lexicalRank, limit)
           v3 == EntityRelationSignal(q.plan, item.memory)
           v4 == NormalizedRouteBoost(RouteBoost(item.memory, q, s))
           w1 == Plus(dense, 340)
           w2 == Plus(dense, 80)
           values == <<signal.denseScore, signal.lexicalScore, v1, v2, signal.rrf, v3, v4>>
           weights == <<w1, 120, w2, 200, 100, 100, 60>>
<1>1. signal.denseScore \in Int /\ signal.lexicalScore \in Int /\ signal.rrf \in Int
  BY DEF SignalOK
<1>2. v1 \in Int /\ v2 \in Int
  <2>1. signal.denseRank \in Nat /\ signal.lexicalRank \in Nat
    BY DEF SignalOK
  <2>2. \A v \in 0..One : v \in Int
    BY DEF One
  <2> QED BY <2>1, <2>2, RankToNormalizedType
<1>3. v3 \in Int
  BY EntityRelationSignalType
<1>4. v4 \in Int
  <2>1. RouteBoost(item.memory, q, s) \in Int
    BY RouteBoostType DEF MemoryOK
  <2> QED BY <2>1, NormalizedRouteBoostType
<1>5. w1 \in Int /\ w2 \in Int
  BY IfType
<1>6. Relevance(item, limit, q, s) = WeightedAverage(values, weights)
  BY DEF Relevance
<1> HIDE DEF signal, v1, v2, v3, v4, w1, w2
<1>7. values \in Seq(Int) /\ weights \in Seq(Int) /\ Len(values) = Len(weights)
  BY <1>1, <1>2, <1>3, <1>4, <1>5
<1> HIDE DEF values, weights
<1> QED BY <1>6, <1>7, WeightedAverageType

FeatureOK(f) ==
    /\ f.recency \in Int /\ f.relevance \in Int /\ f.importance \in Int
    /\ f.raw \in Int /\ f.rrf \in Int /\ f.overlap \in Int /\ f.dependency \in Int

LEMMA LowEvidencePenaltyType ==
    ASSUME NEW total \in Int, NEW f
    PROVE  LowEvidencePenalty(total, f) \in 0..One
<1> DEFINE weakest == f.rrf < 650 /\ f.raw < 300 /\ f.overlap < 150
           weak == f.rrf < 550 /\ f.raw < 550 /\ f.overlap < 200
           factor == CASE f.rrf >= 750 -> One
                       [] f.rrf < 750 /\ weakest -> 250
                       [] f.rrf < 750 /\ ~weakest /\ weak -> 450
                       [] OTHER -> One
<1>1. factor \in {One, 250, 450}
  OBVIOUS
<1>2. factor \in Int
  BY <1>1 DEF One
<1>3. LowEvidencePenalty(total, f) = Clamp01(Times(total, factor))
  BY DEF LowEvidencePenalty
<1> HIDE DEF factor
<1>4. Times(total, factor) \in Int
  BY <1>2, TimesInt
<1> QED BY <1>3, <1>4, Clamp01Type

LEMMA SingleHopPrecisionBoostType ==
    ASSUME NEW total \in Int, NEW f, FeatureOK(f), NEW m, m.kind \in KindNames, NEW nonRaw, NEW q, NEW s
    PROVE  SingleHopPrecisionBoost(total, f, m, nonRaw, q, s) \in Int
<1> DEFINE type == q.plan.type
           raw == m.kind = "raw_turn" /\ nonRaw
           b1 == Times(total, 760)
           b2 == Times(f.overlap, 140)
           b3 == Times(f.dependency, 100)
           base == Clamp01(b1 + b2 + b3)
           f1 == If(m.canonical /\ m.kind \in {"observation", "event"}, 1120)
           f2 == If(f.dependency >= 500, 1040)
           f3 == If(m.kind # "raw_turn", ByKind(1080, 1060, 960, 1000)[m.kind])
           f4 == If(m.kind = "summary" /\ type \in OpenTypes, 1100)
           f5 == If(raw, 860)
           f6 == If(raw /\ type \in {"single_fact_boolean", "single_fact_quote"}, 1180)
           f7 == If(raw /\ Has(m, "noise"), 800)
           f8 == If(s.typeRouting /\ type = "single_fact_quote" /\ (m.answers = "quote" \/ Has(m, "quoted")), 1140)
           f9 == If(s.typeRouting /\ type = "single_fact_boolean" /\ m.answers = "boolean", 1120)
           f10 == If(s.typeRouting /\ type = "single_fact_location_or_person" /\ m.answers = "entity", 1100)
           f11 == If(s.typeRouting /\ s.supportLinks /\ type \in OpenTypes /\ Has(m, "lines"), 1080)
           factor == Product(<<f1, f2, f3, f4, f5, f6, f7, f8, f9, f10, f11>>)
<1>1. f3 \in Int
  BY ByKindType, IfType
<1>2. /\ f1 \in Int /\ f2 \in Int /\ f4 \in Int /\ f5 \in Int /\ f6 \in Int /\ f7 \in Int
      /\ f8 \in Int /\ f9 \in Int /\ f10 \in Int /\ f11 \in Int
  BY IfType
<1>3. b1 \in Int /\ b2 \in Int /\ b3 \in Int
  <2>1. f.overlap \in Int /\ f.dependency \in Int
    BY DEF FeatureOK
  <2>2. b1 \in Int
    BY TimesInt
  <2>3. b2 \in Int
    BY <2>1 DEF Times, One
  <2>4. b3 \in Int
    BY <2>1 DEF Times, One
  <2> QED BY <2>2, <2>3, <2>4
<1>4. SingleHopPrecisionBoost(total, f, m, nonRaw, q, s) = Clamp01(Times(base, factor))
  BY DEF SingleHopPrecisionBoost
<1> HIDE DEF f1, f2, f3, f4, f5, f6, f7, f8, f9, f10, f11, b1, b2, b3, factor
<1>5. <<f1, f2, f3, f4, f5, f6, f7, f8, f9, f10, f11>> \in Seq(Int)
  BY <1>1, <1>2
<1>6. factor \in Int
  BY <1>5, ProductType DEF factor
<1>7. base \in Int
  BY <1>3, Clamp01Type
<1> HIDE DEF base
<1>8. Times(base, factor) \in Int
  BY <1>6, <1>7, TimesInt
<1> QED BY <1>4, <1>8, Clamp01Type

LEMMA WeighedTotalType ==
    ASSUME NEW f, FeatureOK(f), NEW m, m.kind \in KindNames, NEW nonRaw, NEW q, NEW s, WeightsOK(s)
    PROVE  WeighedTotal(f, m, nonRaw, q, s) \in 0..One
<1> DEFINE w == s.weights
           first == RelevanceFirst(q)
           w1 == Times(w.recency, If(first, 200))
           w2 == Times(w.relevance, If(first, 1750))
           w3 == Times(w.importance, If(first, 250))
           values == <<f.recency, f.relevance, f.importance>>
           weights == <<w1, w2, w3>>
           total == WeightedAverage(values, weights)
<1>1. w1 \in Int /\ w2 \in Int /\ w3 \in Int
  <2>1. w.recency \in Int /\ w.relevance \in Int /\ w.importance \in Int
    BY DEF WeightsOK
  <2>2. If(first, 200) \in Int /\ If(first, 1750) \in Int /\ If(first, 250) \in Int
    BY IfType
  <2> HIDE DEF w, first
  <2>3. w1 \in Int
    BY <2>1, <2>2 DEF Times, One
  <2>4. w2 \in Int
    BY <2>1, <2>2 DEF Times, One
  <2>5. w3 \in Int
    BY <2>1, <2>2 DEF Times, One
  <2> QED BY <2>3, <2>4, <2>5
<1>2. WeighedTotal(f, m, nonRaw, q, s) =
         IF q.temporal \/ q.multiHop THEN total
         ELSE LowEvidencePenalty(SingleHopPrecisionBoost(total, f, m, nonRaw, q, s), f)
  BY DEF WeighedTotal
<1> HIDE DEF w1, w2, w3
<1>3. values \in Seq(Int) /\ weights \in Seq(Int) /\ Len(values) = Len(weights)
  BY <1>1 DEF FeatureOK
<1>4. total \in 0..One
  <2> HIDE DEF values, weights
  <2> QED BY <1>3, WeightedAverageType
<1> HIDE DEF total
<1>5. total \in Int
  BY <1>4 DEF One
<1>6. SingleHopPrecisionBoost(total, f, m, nonRaw, q, s) \in Int
  BY <1>5, SingleHopPrecisionBoostType
<1> QED BY <1>2, <1>4, <1>6, LowEvidencePenaltyType

LEMMA MatchScoreType ==
    ASSUME NEW f, FeatureOK(f), NEW m, m.kind \in KindNames, NEW q, NEW s, WeightsOK(s),
           s.algorithm = "match"
    PROVE  MatchScore(f, m, q, s) \in 0..One
<1> DEFINE w == s.weights
           blended == Clamp01(Times(f.overlap, 800) + Times(f.dependency, 200))
           overlap == IF f.dependency > 0 THEN blended ELSE f.overlap
           boost == NormalizedRouteBoost(RouteBoost(m, q, s))
           values == <<f.recency, f.relevance, f.importance, overlap, boost>>
           weights == <<w.recency, w.relevance, w.importance, w.overlap, w.routing>>
<1>1. overlap \in Int
  <2>1. f.overlap \in Int /\ f.dependency \in Int
    BY DEF FeatureOK
  <2>2. Times(f.overlap, 800) \in Int
    BY <2>1 DEF Times, One
  <2>a. Times(f.dependency, 200) \in Int
    BY <2>1 DEF Times, One
  <2>3. blended \in Int
    BY <2>2, <2>a, Clamp01Type
  <2> HIDE DEF blended
  <2> QED BY <2>1, <2>3
<1>2. boost \in Int
  <2>1. RouteBoost(m, q, s) \in Int
    BY RouteBoostType
  <2> QED BY <2>1, NormalizedRouteBoostType
<1>3. MatchScore(f, m, q, s) = WeightedAverage(values, weights)
  BY DEF MatchScore
<1> HIDE DEF overlap, boost
<1>4. values \in Seq(Int) /\ weights \in Seq(Int) /\ Len(values) = Len(weights)
  BY <1>1, <1>2 DEF FeatureOK, WeightsOK
<1> HIDE DEF values, weights
<1> QED BY <1>3, <1>4, WeightedAverageType

(* Every score is between 0 and 1. *)
LEMMA ScoreType ==
    ASSUME NEW f, FeatureOK(f), NEW m, m.kind \in KindNames, NEW nonRaw, NEW q, NEW s, WeightsOK(s)
    PROVE  Score(f, m, nonRaw, q, s) \in 0..One
<1> DEFINE total == WeighedTotal(f, m, nonRaw, q, s)
           routed == Clamp01(Times(IF total = 0 THEN One ELSE total, RouteBoost(m, q, s)))
<1>1. total \in 0..One
  BY WeighedTotalType
<1>2. Score(f, m, nonRaw, q, s) =
         CASE s.algorithm = "match" -> MatchScore(f, m, q, s)
           [] s.algorithm # "match" /\ Routed(q) -> routed
           [] OTHER -> total
  BY DEF Score
<1> HIDE DEF total
<1>3. routed \in 0..One
  <2>1. (IF total = 0 THEN One ELSE total) \in Int
    BY <1>1 DEF One
  <2>2. RouteBoost(m, q, s) \in Int
    BY RouteBoostType
  <2>3. Times(IF total = 0 THEN One ELSE total, RouteBoost(m, q, s)) \in Int
    BY <2>1, <2>2 DEF Times, One
  <2> QED BY <2>3, Clamp01Type
<1> HIDE DEF routed
<1> QED BY <1>1, <1>2, <1>3, MatchScoreType

-----------------------------------------------------------------------------
(* Better signals, higher scores.                                          *)

LEMMA Clamp01Rises ==
    ASSUME NEW u \in Int, NEW v \in Int, u >= v
    PROVE  Clamp01(u) >= Clamp01(v)
BY DEF Clamp01, One

LEMMA QuotientRises ==
    ASSUME NEW a \in Int, NEW b \in Int, a >= b, NEW n \in Nat \ {0}
    PROVE  a \div n >= b \div n
<1>1. PICK p \in Int, x \in 0..(n - 1) : p = a \div n /\ a = n * p + x
  <2>1. a \div n \in Int /\ a % n \in 0..(n - 1) /\ a = n * (a \div n) + (a % n)
    OBVIOUS
  <2> QED BY <2>1
<1>2. PICK q \in Int, y \in 0..(n - 1) : q = b \div n /\ b = n * q + y
  <2>1. b \div n \in Int /\ b % n \in 0..(n - 1) /\ b = n * (b \div n) + (b % n)
    OBVIOUS
  <2> QED BY <2>1
<1>3. ASSUME p < q PROVE FALSE
  <2>1. p + 1 <= q /\ n * (p + 1) = n * p + n
    BY <1>3
  <2>2. n * (p + 1) <= n * q
    BY <2>1
  <2> QED BY <1>1, <1>2, <2>1, <2>2
<1> QED BY <1>1, <1>2, <1>3

LEMMA ProductRises ==
    ASSUME NEW a \in Nat, NEW b \in Nat, a >= b, NEW x \in Nat, NEW y \in Nat, x >= y
    PROVE  a * x >= b * y
<1>1. a * x >= b * x
  <2>1. PICK d \in Nat : a = b + d
    <3>1. a - b \in Nat /\ a = b + (a - b)
      OBVIOUS
    <3> QED BY <3>1
  <2>2. (b + d) * x = b * x + d * x
    OBVIOUS
  <2>3. d * x >= 0
    OBVIOUS
  <2> QED BY <2>1, <2>2, <2>3
<1>2. b * x >= b * y
  <2>1. PICK d \in Nat : x = y + d
    <3>1. x - y \in Nat /\ x = y + (x - y)
      OBVIOUS
    <3> QED BY <3>1
  <2>2. b * (y + d) = b * y + b * d
    OBVIOUS
  <2>3. b * d >= 0
    OBVIOUS
  <2> QED BY <2>1, <2>2, <2>3
<1>3. a * x \in Int /\ b * x \in Int /\ b * y \in Int
  OBVIOUS
<1> QED BY <1>1, <1>2, <1>3

LEMMA TimesRises ==
    ASSUME NEW a \in Nat, NEW b \in Nat, a >= b, NEW x \in Nat, NEW y \in Nat, x >= y
    PROVE  Times(a, x) >= Times(b, y) /\ Times(b, y) \in Nat /\ Times(a, x) \in Nat
<1>1. a * x >= b * y
  BY ProductRises
<1>2. PICK p, q \in Int : p = a * x /\ q = b * y
  OBVIOUS
<1>3. p \div 1000 >= q \div 1000
  BY <1>1, <1>2, QuotientRises
<1>4. Times(b, y) \in Nat /\ Times(a, x) \in Nat
  BY TimesType
<1> QED BY <1>2, <1>3, <1>4 DEF Times, One

LEMMA SumRises ==
    ASSUME NEW u \in Int, NEW v \in Int, u >= v, NEW x \in Int, NEW y \in Int, x >= y
    PROVE  u + x >= v + y /\ u + x \in Int /\ v + y \in Int
OBVIOUS

LEMMA TotalRises ==
    ASSUME NEW a \in Seq(Int), NEW b \in Seq(Int), Len(a) = Len(b),
           \A i \in 1..Len(a) : a[i] >= b[i]
    PROVE  Total(a) >= Total(b)
<1> PICK N : N = Len(a)
  OBVIOUS
<1>1. N \in Nat /\ \A i \in 1..N : a[i] \in Int /\ b[i] \in Int
  OBVIOUS
<1>2. PICK s : /\ s[0] = 0 /\ \A i \in 1..N : s[i] = s[i - 1] + a[i]
               /\ Total(a) = s[N]
  BY TotalRuns
<1>3. PICK t : /\ t[0] = 0 /\ \A i \in 1..N : t[i] = t[i - 1] + b[i]
               /\ Total(b) = t[N]
  BY TotalRuns
<1> DEFINE f == [i \in 0..N |-> <<s[i], t[i]>>]
           T == {p \in Int \X Int : p[1] >= p[2]}
<1>4. f[0] \in T
  BY <1>1, <1>2, <1>3
<1>5. ASSUME NEW i \in 1..N, f[i - 1] \in T PROVE f[i] \in T
  <2>1. i \in 0..N /\ i - 1 \in 0..N
    BY <1>1
  <2>2. s[i - 1] \in Int /\ t[i - 1] \in Int /\ s[i - 1] >= t[i - 1]
    <3>1. f[i - 1] = <<s[i - 1], t[i - 1]>>
      BY <2>1
    <3>2. <<s[i - 1], t[i - 1]>> \in T
      BY <1>5, <3>1
    <3> QED BY <3>2
  <2>3. s[i] \in Int /\ t[i] \in Int /\ s[i] >= t[i]
    <3>1. PICK u, v \in Int : u = s[i - 1] /\ v = t[i - 1] /\ u >= v
      BY <2>2
    <3>2. PICK x, y \in Int : x = a[i] /\ y = b[i] /\ x >= y
      BY <1>1
    <3>3. s[i] = u + x /\ t[i] = v + y
      BY <1>2, <1>3, <3>1, <3>2
    <3>4. u + x \in Int /\ v + y \in Int /\ u + x >= v + y
      BY <3>1, <3>2, SumRises
    <3> QED BY ONLY <3>3, <3>4
  <2> QED BY <2>1, <2>3
<1>6. f[N] \in T
  <2> HIDE DEF f, T
  <2>1. \A i \in 0..N : f[i] \in T
    BY <1>1, <1>4, <1>5, UpTo
  <2> QED BY <1>1, <2>1
<1> QED BY <1>1, <1>2, <1>3, <1>6

LEMMA ProductOfNaturalsRises ==
    ASSUME NEW a \in Seq(Nat), NEW b \in Seq(Nat), Len(a) = Len(b),
           \A i \in 1..Len(a) : a[i] >= b[i]
    PROVE  Product(a) >= Product(b) /\ Product(a) \in Nat /\ Product(b) \in Nat
<1> PICK N : N = Len(a)
  OBVIOUS
<1>1. N \in Nat /\ \A i \in 1..N : a[i] \in Nat /\ b[i] \in Nat
  OBVIOUS
<1>a. a \in Seq(Int) /\ b \in Seq(Int)
  OBVIOUS
<1>2. PICK s : /\ s[0] = One /\ \A i \in 1..N : s[i] = Times(s[i - 1], a[i])
               /\ Product(a) = s[N]
  BY <1>a, ProductRuns
<1>3. PICK t : /\ t[0] = One /\ \A i \in 1..N : t[i] = Times(t[i - 1], b[i])
               /\ Product(b) = t[N]
  BY <1>a, ProductRuns
<1> DEFINE f == [i \in 0..N |-> <<s[i], t[i]>>]
           T == {p \in Nat \X Nat : p[1] >= p[2]}
<1>4. f[0] \in T
  BY <1>1, <1>2, <1>3 DEF One
<1>5. ASSUME NEW i \in 1..N, f[i - 1] \in T PROVE f[i] \in T
  <2>1. i \in 0..N /\ i - 1 \in 0..N
    BY <1>1
  <2>2. s[i - 1] \in Nat /\ t[i - 1] \in Nat /\ s[i - 1] >= t[i - 1]
    <3>1. f[i - 1] = <<s[i - 1], t[i - 1]>>
      BY <2>1
    <3>2. <<s[i - 1], t[i - 1]>> \in T
      BY <1>5, <3>1
    <3> QED BY <3>2
  <2>3. s[i] \in Nat /\ t[i] \in Nat /\ s[i] >= t[i]
    <3>1. PICK u, v \in Nat : u = s[i - 1] /\ v = t[i - 1]
      BY <2>2
    <3>2. PICK x, y \in Nat : x = a[i] /\ y = b[i] /\ x >= y
      BY <1>1
    <3>3. Times(u, x) >= Times(v, y) /\ Times(v, y) \in Nat /\ Times(u, x) \in Nat
      BY <2>2, <3>1, <3>2, TimesRises
    <3> QED BY <1>2, <1>3, <3>1, <3>2, <3>3
  <2> QED BY <2>1, <2>3
<1>6. f[N] \in T
  <2> HIDE DEF f, T
  <2>1. \A i \in 0..N : f[i] \in T
    BY <1>1, <1>4, <1>5, UpTo
  <2> QED BY <1>1, <2>1
<1> QED BY <1>1, <1>2, <1>3, <1>6

LEMMA WeightedAverageRises ==
    ASSUME NEW a \in Seq(Int), NEW b \in Seq(Int), NEW weights \in Seq(Int),
           Len(a) = Len(weights), Len(b) = Len(weights), \A i \in 1..Len(weights) : a[i] >= b[i]
    PROVE  WeightedAverage(a, weights) >= WeightedAverage(b, weights)
<1> PICK N : N = Len(weights)
  OBVIOUS
<1>1. N \in Nat /\ DOMAIN a = 1..N /\ DOMAIN b = 1..N
      /\ \A i \in 1..N : a[i] \in Int /\ b[i] \in Int /\ a[i] >= b[i] /\ weights[i] \in Int
  OBVIOUS
<1> DEFINE used == {i \in 1..N : weights[i] > 0}
           counted == [i \in 1..N |-> IF i \in used THEN weights[i] ELSE 0]
           summed(values) == [i \in 1..N |-> IF i \in used THEN weights[i] * Clamp01(values[i]) ELSE 0]
           total == Total(counted)
<1>2. /\ WeightedAverage(a, weights) = IF total = 0 THEN 0 ELSE Clamp01(Total(summed(a)) \div total)
      /\ WeightedAverage(b, weights) = IF total = 0 THEN 0 ELSE Clamp01(Total(summed(b)) \div total)
  BY <1>1, Zenon DEF WeightedAverage
<1>3. counted \in Seq(Int) /\ Len(counted) = N /\ \A i \in 1..N : counted[i] >= 0
  BY <1>1
<1>4. total \in Nat
  <2> HIDE DEF counted
  <2> QED BY <1>3, TotalType
<1>5. ASSUME NEW i \in 1..N
      PROVE  /\ weights[i] * Clamp01(a[i]) \in Int /\ weights[i] * Clamp01(b[i]) \in Int
             /\ weights[i] > 0 => weights[i] * Clamp01(a[i]) >= weights[i] * Clamp01(b[i])
  <2>1. PICK x, y, w \in Int : x = a[i] /\ y = b[i] /\ w = weights[i]
    BY <1>1
  <2>2. Clamp01(x) \in Nat /\ Clamp01(y) \in Nat /\ Clamp01(x) >= Clamp01(y)
    BY <1>1, <2>1, Clamp01Type, Clamp01Rises
  <2>3. PICK u, v \in Nat : u = Clamp01(x) /\ v = Clamp01(y) /\ u >= v
    BY <2>2
  <2>4. w * u \in Int /\ w * v \in Int
    OBVIOUS
  <2>5. w > 0 => w * u >= w * v
    <3>1. w > 0 => w \in Nat /\ w >= w
      OBVIOUS
    <3> QED BY <2>3, <3>1, ProductRises
  <2> QED BY <2>1, <2>3, <2>4, <2>5
<1> PICK s, t : s = summed(a) /\ t = summed(b)
  OBVIOUS
<1>6. s \in Seq(Int) /\ t \in Seq(Int) /\ Len(s) = N /\ Len(t) = N
  BY <1>1, <1>5
<1>7. \A i \in 1..N : s[i] >= t[i]
  <2> TAKE i \in 1..N
  <2>1. CASE i \in used
    <3>1. s[i] = weights[i] * Clamp01(a[i]) /\ t[i] = weights[i] * Clamp01(b[i]) /\ weights[i] > 0
      BY <2>1
    <3> QED BY <1>5, <3>1
  <2>2. CASE i \notin used
    BY <2>2
  <2> QED BY <2>1, <2>2
<1>8. Total(s) >= Total(t) /\ Total(s) \in Int /\ Total(t) \in Int
  BY <1>6, <1>7, TotalRises, TotalType
<1> HIDE DEF total
<1>9. CASE total = 0
  BY <1>2, <1>9
<1>10. CASE total # 0
  <2>1. PICK p, q \in Int, n \in Nat \ {0} : p = Total(s) /\ q = Total(t) /\ n = total /\ p >= q
    BY <1>4, <1>8, <1>10
  <2>2. p \div n \in Int /\ q \div n \in Int /\ p \div n >= q \div n
    BY <2>1, Quotient, QuotientRises
  <2>3. Clamp01(p \div n) >= Clamp01(q \div n)
    BY <2>2, Clamp01Rises
  <2>4. WeightedAverage(a, weights) = Clamp01(p \div n) /\ WeightedAverage(b, weights) = Clamp01(q \div n)
    BY <1>2, <1>10, <2>1
  <2> QED BY <2>3, <2>4
<1> QED BY <1>9, <1>10

PenaltyFactor(rrf, raw, overlap) ==
    LET weakest == rrf < 650 /\ raw < 300 /\ overlap < 150
        weak == rrf < 550 /\ raw < 550 /\ overlap < 200
    IN CASE rrf >= 750 -> One
         [] rrf < 750 /\ weakest -> 250
         [] rrf < 750 /\ ~weakest /\ weak -> 450
         [] OTHER -> One

LEMMA PenaltyFalls ==
    ASSUME NEW r \in Int, NEW w \in Int, NEW o \in Int, NEW r2 \in Int, NEW w2 \in Int, NEW o2 \in Int,
           r >= r2, w >= w2, o >= o2
    PROVE  /\ PenaltyFactor(r, w, o) \in Nat /\ PenaltyFactor(r2, w2, o2) \in Nat
           /\ PenaltyFactor(r, w, o) >= PenaltyFactor(r2, w2, o2)
<1>1. CASE r2 >= 750
  BY <1>1 DEF PenaltyFactor, One
<1>2. CASE r >= 750 /\ r2 < 750
  BY <1>2 DEF PenaltyFactor, One
<1>3. CASE r < 750 /\ r2 < 750
  BY <1>3 DEF PenaltyFactor, One
<1> QED BY <1>1, <1>2, <1>3

LEMMA LowEvidencePenaltyRises ==
    ASSUME NEW t \in Nat, NEW u \in Nat, t >= u, NEW f, NEW g, FeatureOK(f), FeatureOK(g),
           f.rrf >= g.rrf, f.raw >= g.raw, f.overlap >= g.overlap
    PROVE  LowEvidencePenalty(t, f) >= LowEvidencePenalty(u, g)
<1>1. /\ LowEvidencePenalty(t, f) = Clamp01(Times(t, PenaltyFactor(f.rrf, f.raw, f.overlap)))
      /\ LowEvidencePenalty(u, g) = Clamp01(Times(u, PenaltyFactor(g.rrf, g.raw, g.overlap)))
  BY DEF LowEvidencePenalty, PenaltyFactor
<1>2. PICK r, w, o \in Int : r = f.rrf /\ w = f.raw /\ o = f.overlap
  BY DEF FeatureOK
<1>3. PICK r2, w2, o2 \in Int : r2 = g.rrf /\ w2 = g.raw /\ o2 = g.overlap
  BY DEF FeatureOK
<1>b. r >= r2 /\ w >= w2 /\ o >= o2
  BY <1>2, <1>3
<1>a. PICK x, y \in Nat : x = PenaltyFactor(r, w, o) /\ y = PenaltyFactor(r2, w2, o2) /\ x >= y
  <2>1. PenaltyFactor(r, w, o) \in Nat /\ PenaltyFactor(r2, w2, o2) \in Nat
        /\ PenaltyFactor(r, w, o) >= PenaltyFactor(r2, w2, o2)
    BY <1>b, PenaltyFalls
  <2> QED BY <2>1
<1>4. Times(t, x) >= Times(u, y) /\ Times(u, y) \in Nat /\ Times(t, x) \in Nat
  BY <1>a, TimesRises
<1> QED BY <1>1, <1>2, <1>3, <1>a, <1>4, Clamp01Rises

LEMMA TimesConstantRises ==
    ASSUME NEW a \in Int, NEW b \in Int, a >= b, NEW x \in Nat
    PROVE  Times(a, x) >= Times(b, x) /\ Times(a, x) \in Int /\ Times(b, x) \in Int
<1>1. PICK d \in Nat : a = b + d
  <2>1. a - b \in Nat /\ a = b + (a - b)
    OBVIOUS
  <2> QED BY <2>1
<1>2. (b + d) * x = b * x + d * x
  OBVIOUS
<1>3. d * x >= 0 /\ d * x \in Int /\ b * x \in Int
  OBVIOUS
<1>4. PICK p, q \in Int : p = a * x /\ q = b * x /\ p >= q
  BY <1>1, <1>2, <1>3
<1>5. p \div 1000 >= q \div 1000 /\ p \div 1000 \in Int /\ q \div 1000 \in Int
  BY <1>4, Quotient, QuotientRises
<1> QED BY <1>4, <1>5 DEF Times, One

(* Alike for the ranking: the same kind, answer and marks. *)
LEMMA SameRouteBoost ==
    ASSUME NEW m, NEW n, m.kind = n.kind, m.answers = n.answers, m.marks = n.marks, NEW q, NEW s
    PROVE  RouteBoost(m, q, s) = RouteBoost(n, q, s)
<1> DEFINE type == q.plan.type
           f1(x) == If(q.temporal, ByKind(1150, 1250, 1050, 950)[x.kind])
           f2(x) == If(q.temporal /\ Has(x, "time"), 1050)
           f3(x) == If(q.person, ByKind(1100, 1000, 1050, 1000)[x.kind])
           f4(x) == If(q.person /\ Has(x, "colon"), 1030)
           f5(x) == If(q.multiHop, ByKind(1000, 1080, 1080, 1000)[x.kind])
           f6(x) == If(q.multiHop /\ Has(x, "dialog"), 1020)
           f7(x) == If(s.typeRouting, TypeFactor(type)[x.kind])
           f8(x) == If(s.typeRouting /\ type \in TemporalTypes /\ Has(x, "anchor"), 1080)
           f9(x) == If(s.typeRouting /\ s.supportLinks /\ type \in OpenTypes /\ Has(x, "lines"), 1050)
           f10(x) == If(Answers(x, type), CASE x.answers = "quote" -> 1120
                                            [] x.answers = "boolean" -> 1100
                                            [] OTHER -> 1080)
           f11(x) == If(type \in OpenTypes /\ (Has(x, "lines") \/ Has(x, "links")), 1040)
           boost(x) == Product(<<f1(x), f2(x), f3(x), f4(x), f5(x), f6(x), f7(x), f8(x), f9(x), f10(x), f11(x)>>)
<1>1. f1(m) = f1(n) /\ f3(m) = f3(n) /\ f5(m) = f5(n) /\ f7(m) = f7(n)
  OBVIOUS
<1>2. \A mark : Has(m, mark) <=> Has(n, mark)
  BY DEF Has
<1>3. f2(m) = f2(n) /\ f4(m) = f4(n) /\ f6(m) = f6(n) /\ f8(m) = f8(n) /\ f9(m) = f9(n) /\ f11(m) = f11(n)
  BY <1>2 DEF If
<1>4. f10(m) = f10(n)
  BY DEF If, Answers
<1>5. /\ RouteBoost(m, q, s) = Max({800, Min({boost(m), 1350})})
      /\ RouteBoost(n, q, s) = Max({800, Min({boost(n), 1350})})
  BY DEF RouteBoost
<1> HIDE DEF f1, f2, f3, f4, f5, f6, f7, f8, f9, f10, f11
<1> QED BY <1>1, <1>3, <1>4, <1>5

NoWorseThan(f, g) ==
    /\ FeatureOK(f) /\ FeatureOK(g)
    /\ f.recency >= g.recency /\ f.relevance >= g.relevance /\ f.importance >= g.importance
    /\ f.raw >= g.raw /\ f.rrf >= g.rrf /\ f.overlap >= g.overlap /\ f.dependency >= g.dependency

LikeEachOther(m, n) ==
    m.kind = n.kind /\ m.canonical = n.canonical /\ m.answers = n.answers /\ m.marks = n.marks

(* The factors of the boost for a precise answer. *)
PrecisionFactors(dependency, m, nonRaw, q, s) ==
    LET type == q.plan.type
        raw == m.kind = "raw_turn" /\ nonRaw
    IN <<If(m.canonical /\ m.kind \in {"observation", "event"}, 1120),
         If(dependency >= 500, 1040),
         If(m.kind # "raw_turn", ByKind(1080, 1060, 960, 1000)[m.kind]),
         If(m.kind = "summary" /\ type \in OpenTypes, 1100),
         If(raw, 860),
         If(raw /\ type \in {"single_fact_boolean", "single_fact_quote"}, 1180),
         If(raw /\ Has(m, "noise"), 800),
         If(s.typeRouting /\ type = "single_fact_quote" /\ (m.answers = "quote" \/ Has(m, "quoted")), 1140),
         If(s.typeRouting /\ type = "single_fact_boolean" /\ m.answers = "boolean", 1120),
         If(s.typeRouting /\ type = "single_fact_location_or_person" /\ m.answers = "entity", 1100),
         If(s.typeRouting /\ s.supportLinks /\ type \in OpenTypes /\ Has(m, "lines"), 1080)>>

PrecisionBase(total, overlap, dependency) ==
    Clamp01(Times(total, 760) + Times(overlap, 140) + Times(dependency, 100))

LEMMA PrecisionFactorsRise ==
    ASSUME NEW d \in Int, NEW e \in Int, d >= e, NEW m, NEW n, LikeEachOther(m, n), m.kind \in KindNames,
           NEW nonRaw, NEW q, NEW s
    PROVE  /\ PrecisionFactors(d, m, nonRaw, q, s) \in Seq(Nat) /\ PrecisionFactors(e, n, nonRaw, q, s) \in Seq(Nat)
           /\ Len(PrecisionFactors(d, m, nonRaw, q, s)) = 11 /\ Len(PrecisionFactors(e, n, nonRaw, q, s)) = 11
           /\ \A i \in 1..11 : PrecisionFactors(d, m, nonRaw, q, s)[i] >= PrecisionFactors(e, n, nonRaw, q, s)[i]
<1> DEFINE type == q.plan.type
           raw(x) == x.kind = "raw_turn" /\ nonRaw
           f1(x) == If(x.canonical /\ x.kind \in {"observation", "event"}, 1120)
           f2(c) == If(c >= 500, 1040)
           f3(x) == If(x.kind # "raw_turn", ByKind(1080, 1060, 960, 1000)[x.kind])
           f4(x) == If(x.kind = "summary" /\ type \in OpenTypes, 1100)
           f5(x) == If(raw(x), 860)
           f6(x) == If(raw(x) /\ type \in {"single_fact_boolean", "single_fact_quote"}, 1180)
           f7(x) == If(raw(x) /\ Has(x, "noise"), 800)
           f8(x) == If(s.typeRouting /\ type = "single_fact_quote" /\ (x.answers = "quote" \/ Has(x, "quoted")), 1140)
           f9(x) == If(s.typeRouting /\ type = "single_fact_boolean" /\ x.answers = "boolean", 1120)
           f10(x) == If(s.typeRouting /\ type = "single_fact_location_or_person" /\ x.answers = "entity", 1100)
           f11(x) == If(s.typeRouting /\ s.supportLinks /\ type \in OpenTypes /\ Has(x, "lines"), 1080)
<1>1. f1(m) = f1(n) /\ f3(m) = f3(n) /\ f4(m) = f4(n) /\ f5(m) = f5(n) /\ f6(m) = f6(n)
  BY DEF LikeEachOther, If
<1>2. \A mark : Has(m, mark) <=> Has(n, mark)
  BY DEF Has, LikeEachOther
<1>3. f7(m) = f7(n) /\ f8(m) = f8(n) /\ f11(m) = f11(n)
  BY <1>2 DEF LikeEachOther, If
<1>4. f9(m) = f9(n) /\ f10(m) = f10(n)
  BY DEF LikeEachOther, If
<1>5. \A condition : /\ If(condition, 1120) \in Nat /\ If(condition, 1040) \in Nat /\ If(condition, 1100) \in Nat
                     /\ If(condition, 860) \in Nat /\ If(condition, 1180) \in Nat /\ If(condition, 800) \in Nat
                     /\ If(condition, 1140) \in Nat /\ If(condition, 1080) \in Nat
  BY DEF If, One
<1>6. f3(m) \in Nat
  BY DEF If, One, ByKind, KindNames
<1>7. f2(d) \in Nat /\ f2(e) \in Nat /\ f2(d) >= f2(e)
  BY DEF If, One
<1>8. /\ f1(m) \in Nat /\ f4(m) \in Nat /\ f5(m) \in Nat /\ f6(m) \in Nat /\ f7(m) \in Nat
      /\ f8(m) \in Nat /\ f9(m) \in Nat /\ f10(m) \in Nat /\ f11(m) \in Nat
  BY <1>5
<1>9. /\ PrecisionFactors(d, m, nonRaw, q, s)
           = <<f1(m), f2(d), f3(m), f4(m), f5(m), f6(m), f7(m), f8(m), f9(m), f10(m), f11(m)>>
      /\ PrecisionFactors(e, n, nonRaw, q, s)
           = <<f1(n), f2(e), f3(n), f4(n), f5(n), f6(n), f7(n), f8(n), f9(n), f10(n), f11(n)>>
  BY DEF PrecisionFactors
<1> HIDE DEF f1, f2, f3, f4, f5, f6, f7, f8, f9, f10, f11
<1>10. PrecisionFactors(e, n, nonRaw, q, s)
           = <<f1(m), f2(e), f3(m), f4(m), f5(m), f6(m), f7(m), f8(m), f9(m), f10(m), f11(m)>>
  BY <1>1, <1>3, <1>4, <1>9
<1> PICK a1, a2, b2, a3, a4, a5, a6, a7, a8, a9, a10, a11 :
      /\ a1 = f1(m) /\ a2 = f2(d) /\ b2 = f2(e) /\ a3 = f3(m) /\ a4 = f4(m) /\ a5 = f5(m) /\ a6 = f6(m)
      /\ a7 = f7(m) /\ a8 = f8(m) /\ a9 = f9(m) /\ a10 = f10(m) /\ a11 = f11(m)
  OBVIOUS
<1> PICK a, b : /\ a = <<a1, a2, a3, a4, a5, a6, a7, a8, a9, a10, a11>>
                /\ b = <<a1, b2, a3, a4, a5, a6, a7, a8, a9, a10, a11>>
  OBVIOUS
<1>11. PrecisionFactors(d, m, nonRaw, q, s) = a /\ PrecisionFactors(e, n, nonRaw, q, s) = b
  BY <1>9, <1>10
<1>14. /\ a1 \in Nat /\ a2 \in Nat /\ b2 \in Nat /\ a3 \in Nat /\ a4 \in Nat /\ a5 \in Nat /\ a6 \in Nat
       /\ a7 \in Nat /\ a8 \in Nat /\ a9 \in Nat /\ a10 \in Nat /\ a11 \in Nat /\ a2 >= b2
  BY <1>6, <1>7, <1>8
<1>12. a \in Seq(Nat) /\ b \in Seq(Nat) /\ Len(a) = 11 /\ Len(b) = 11
  BY <1>14
<1>13. \A i \in 1..11 : a[i] >= b[i]
  <2> TAKE i \in 1..11
  <2>1. CASE i = 2
    BY <1>14, <2>1
  <2>2. CASE i # 2
    <3>1. a[i] = b[i] /\ a[i] \in Nat
      BY <1>12, <2>2
    <3> QED BY <3>1
  <2> QED BY <2>1, <2>2
<1> QED BY <1>11, <1>12, <1>13

LEMMA PrecisionBaseRises ==
    ASSUME NEW t \in Int, NEW u \in Int, NEW o \in Int, NEW p \in Int, NEW d \in Int, NEW e \in Int,
           t >= u, o >= p, d >= e
    PROVE  /\ PrecisionBase(t, o, d) \in Nat /\ PrecisionBase(u, p, e) \in Nat
           /\ PrecisionBase(t, o, d) >= PrecisionBase(u, p, e)
<1>1. PICK x1, y1 \in Int : x1 = Times(t, 760) /\ y1 = Times(u, 760) /\ x1 >= y1
  <2>1. Times(t, 760) >= Times(u, 760) /\ Times(t, 760) \in Int /\ Times(u, 760) \in Int
    BY TimesConstantRises
  <2> QED BY <2>1
<1>2. PICK x2, y2 \in Int : x2 = Times(o, 140) /\ y2 = Times(p, 140) /\ x2 >= y2
  <2>1. Times(o, 140) >= Times(p, 140) /\ Times(o, 140) \in Int /\ Times(p, 140) \in Int
    BY TimesConstantRises
  <2> QED BY <2>1
<1>3. PICK x3, y3 \in Int : x3 = Times(d, 100) /\ y3 = Times(e, 100) /\ x3 >= y3
  <2>1. Times(d, 100) >= Times(e, 100) /\ Times(d, 100) \in Int /\ Times(e, 100) \in Int
    BY TimesConstantRises
  <2> QED BY <2>1
<1>4. PICK x, y \in Int : x = x1 + x2 + x3 /\ y = y1 + y2 + y3 /\ x >= y
  BY <1>1, <1>2, <1>3
<1>5. Clamp01(x) \in Nat /\ Clamp01(y) \in Nat /\ Clamp01(x) >= Clamp01(y)
  BY <1>4, Clamp01Type, Clamp01Rises
<1> QED BY <1>1, <1>2, <1>3, <1>4, <1>5 DEF PrecisionBase

LEMMA SingleHopPrecisionBoostRises ==
    ASSUME NEW t \in Int, NEW u \in Int, t >= u, NEW f, NEW g, NoWorseThan(f, g),
           NEW m, NEW n, LikeEachOther(m, n), m.kind \in KindNames, NEW nonRaw, NEW q, NEW s
    PROVE  /\ SingleHopPrecisionBoost(t, f, m, nonRaw, q, s) \in Nat
           /\ SingleHopPrecisionBoost(u, g, n, nonRaw, q, s) \in Nat
           /\ SingleHopPrecisionBoost(t, f, m, nonRaw, q, s) >= SingleHopPrecisionBoost(u, g, n, nonRaw, q, s)
<1>1. PICK o, p, d, e \in Int : o = f.overlap /\ p = g.overlap /\ d = f.dependency /\ e = g.dependency
  BY DEF NoWorseThan, FeatureOK
<1>2. o >= p /\ d >= e
  BY <1>1 DEF NoWorseThan
<1>3. /\ SingleHopPrecisionBoost(t, f, m, nonRaw, q, s)
           = Clamp01(Times(PrecisionBase(t, o, d), Product(PrecisionFactors(d, m, nonRaw, q, s))))
      /\ SingleHopPrecisionBoost(u, g, n, nonRaw, q, s)
           = Clamp01(Times(PrecisionBase(u, p, e), Product(PrecisionFactors(e, n, nonRaw, q, s))))
  BY <1>1 DEF SingleHopPrecisionBoost, PrecisionBase, PrecisionFactors
<1>4. PICK x, y \in Nat : x = PrecisionBase(t, o, d) /\ y = PrecisionBase(u, p, e) /\ x >= y
  <2>1. /\ PrecisionBase(t, o, d) \in Nat /\ PrecisionBase(u, p, e) \in Nat
        /\ PrecisionBase(t, o, d) >= PrecisionBase(u, p, e)
    BY <1>2, PrecisionBaseRises
  <2> QED BY <2>1
<1>5. PICK a, b : a = PrecisionFactors(d, m, nonRaw, q, s) /\ b = PrecisionFactors(e, n, nonRaw, q, s)
  OBVIOUS
<1>6. a \in Seq(Nat) /\ b \in Seq(Nat) /\ Len(a) = Len(b) /\ \A i \in 1..Len(a) : a[i] >= b[i]
  <2> DEFINE higher == PrecisionFactors(d, m, nonRaw, q, s)
             lower == PrecisionFactors(e, n, nonRaw, q, s)
  <2>1. /\ higher \in Seq(Nat) /\ lower \in Seq(Nat) /\ Len(higher) = 11 /\ Len(lower) = 11
        /\ \A i \in 1..11 : higher[i] >= lower[i]
    BY <1>2, PrecisionFactorsRise
  <2> HIDE DEF higher, lower
  <2>2. a = higher /\ b = lower
    BY <1>5 DEF higher, lower
  <2> QED BY <2>1, <2>2
<1>7. PICK k, l \in Nat : k = Product(a) /\ l = Product(b) /\ k >= l
  <2>1. Product(a) >= Product(b) /\ Product(a) \in Nat /\ Product(b) \in Nat
    BY <1>6, ProductOfNaturalsRises
  <2> QED BY <2>1
<1>8. PICK v, w \in Int : v = Times(x, k) /\ w = Times(y, l) /\ v >= w
  <2>1. Times(x, k) >= Times(y, l) /\ Times(y, l) \in Nat /\ Times(x, k) \in Nat
    BY <1>4, <1>7, TimesRises
  <2> QED BY <2>1
<1>9. Clamp01(v) \in Nat /\ Clamp01(w) \in Nat /\ Clamp01(v) >= Clamp01(w)
  BY <1>8, Clamp01Type, Clamp01Rises
<1> QED BY <1>3, <1>4, <1>5, <1>7, <1>8, <1>9

LEMMA WeighedTotalRises ==
    ASSUME NEW f, NEW g, NoWorseThan(f, g), NEW m, NEW n, LikeEachOther(m, n), m.kind \in KindNames,
           NEW nonRaw, NEW q, NEW s, WeightsOK(s)
    PROVE  WeighedTotal(f, m, nonRaw, q, s) >= WeighedTotal(g, n, nonRaw, q, s)
<1> DEFINE w == s.weights
           first == RelevanceFirst(q)
           w1 == Times(w.recency, If(first, 200))
           w2 == Times(w.relevance, If(first, 1750))
           w3 == Times(w.importance, If(first, 250))
           values(x) == <<x.recency, x.relevance, x.importance>>
           weights == <<w1, w2, w3>>
           total(x) == WeightedAverage(values(x), weights)
           boosted(x, o) == SingleHopPrecisionBoost(total(x), x, o, nonRaw, q, s)
<1>1. w1 \in Int /\ w2 \in Int /\ w3 \in Int
  <2>1. w.recency \in Int /\ w.relevance \in Int /\ w.importance \in Int
    BY DEF WeightsOK
  <2>2. If(first, 200) \in Int /\ If(first, 1750) \in Int /\ If(first, 250) \in Int
    BY IfType
  <2> HIDE DEF w, first
  <2>3. w1 \in Int
    BY <2>1, <2>2 DEF Times, One
  <2>4. w2 \in Int
    BY <2>1, <2>2 DEF Times, One
  <2>5. w3 \in Int
    BY <2>1, <2>2 DEF Times, One
  <2> QED BY <2>3, <2>4, <2>5
<1>2. /\ WeighedTotal(f, m, nonRaw, q, s) =
            IF q.temporal \/ q.multiHop THEN total(f) ELSE LowEvidencePenalty(boosted(f, m), f)
      /\ WeighedTotal(g, n, nonRaw, q, s) =
            IF q.temporal \/ q.multiHop THEN total(g) ELSE LowEvidencePenalty(boosted(g, n), g)
  BY DEF WeighedTotal
<1>3. FeatureOK(f) /\ FeatureOK(g) /\ f.rrf >= g.rrf /\ f.raw >= g.raw /\ f.overlap >= g.overlap
  BY DEF NoWorseThan
<1> HIDE DEF w1, w2, w3
<1>4. /\ values(f) \in Seq(Int) /\ values(g) \in Seq(Int) /\ weights \in Seq(Int)
      /\ Len(values(f)) = Len(weights) /\ Len(values(g)) = Len(weights) /\ Len(weights) = 3
  BY <1>1, <1>3 DEF FeatureOK
<1>5. \A i \in 1..3 : values(f)[i] >= values(g)[i]
  <2>1. f.recency >= g.recency /\ f.relevance >= g.relevance /\ f.importance >= g.importance
    BY DEF NoWorseThan
  <2> QED BY <2>1
<1>6. PICK t, u \in Int : t = total(f) /\ u = total(g) /\ t >= u
  <2> HIDE DEF values, weights
  <2>1. total(f) \in 0..One /\ total(g) \in 0..One
    BY <1>4, WeightedAverageType
  <2>2. total(f) >= total(g)
    BY <1>4, <1>5, WeightedAverageRises
  <2>3. \A v \in 0..One : v \in Int
    BY DEF One
  <2> HIDE DEF total
  <2> QED BY <2>1, <2>2, <2>3
<1> HIDE DEF total
<1>7. PICK x, y \in Nat : x = boosted(f, m) /\ y = boosted(g, n) /\ x >= y
  <2>1. /\ SingleHopPrecisionBoost(t, f, m, nonRaw, q, s) \in Nat
        /\ SingleHopPrecisionBoost(u, g, n, nonRaw, q, s) \in Nat
        /\ SingleHopPrecisionBoost(t, f, m, nonRaw, q, s) >= SingleHopPrecisionBoost(u, g, n, nonRaw, q, s)
    BY <1>6, SingleHopPrecisionBoostRises
  <2> QED BY <1>6, <2>1
<1> HIDE DEF boosted
<1>8. LowEvidencePenalty(x, f) >= LowEvidencePenalty(y, g)
  BY <1>3, <1>7, LowEvidencePenaltyRises
<1> QED BY <1>2, <1>6, <1>7, <1>8

(* Word order is blended into the overlap when there is some. *)
BlendedOverlap(f) ==
    IF f.dependency > 0 THEN Clamp01(Times(f.overlap, 800) + Times(f.dependency, 200)) ELSE f.overlap

LEMMA BlendedOverlapRises ==
    ASSUME NEW f, NEW g, NoWorseThan(f, g), f.dependency = g.dependency
    PROVE  /\ BlendedOverlap(f) \in Int /\ BlendedOverlap(g) \in Int
           /\ BlendedOverlap(f) >= BlendedOverlap(g)
<1>1. PICK o, p, d \in Int : o = f.overlap /\ p = g.overlap /\ d = f.dependency /\ d = g.dependency
  BY DEF NoWorseThan, FeatureOK
<1>2. o >= p
  BY <1>1 DEF NoWorseThan
<1>3. PICK x, y, z \in Int : x = Times(o, 800) /\ y = Times(p, 800) /\ z = Times(d, 200) /\ x >= y
  <2>1. Times(o, 800) >= Times(p, 800) /\ Times(o, 800) \in Int /\ Times(p, 800) \in Int
    BY <1>2, TimesConstantRises
  <2>2. Times(d, 200) \in Int
    BY TimesInt
  <2> QED BY <2>1, <2>2
<1>4. x + z \in Int /\ y + z \in Int /\ x + z >= y + z
  BY <1>3
<1>5. Clamp01(x + z) \in Nat /\ Clamp01(y + z) \in Nat /\ Clamp01(x + z) >= Clamp01(y + z)
  BY <1>4, Clamp01Type, Clamp01Rises
<1>6. /\ BlendedOverlap(f) = IF d > 0 THEN Clamp01(x + z) ELSE o
      /\ BlendedOverlap(g) = IF d > 0 THEN Clamp01(y + z) ELSE p
  BY <1>1, <1>3 DEF BlendedOverlap
<1> QED BY <1>2, <1>5, <1>6

LEMMA MatchScoreRises ==
    ASSUME NEW f, NEW g, NoWorseThan(f, g), f.dependency = g.dependency,
           NEW m, NEW n, LikeEachOther(m, n), m.kind \in KindNames,
           NEW q, NEW s, WeightsOK(s), s.algorithm = "match"
    PROVE  MatchScore(f, m, q, s) >= MatchScore(g, n, q, s)
<1> DEFINE w == s.weights
           boost(o) == NormalizedRouteBoost(RouteBoost(o, q, s))
           values(x, o) == <<x.recency, x.relevance, x.importance, BlendedOverlap(x), boost(o)>>
           weights == <<w.recency, w.relevance, w.importance, w.overlap, w.routing>>
<1>1. /\ MatchScore(f, m, q, s) = WeightedAverage(values(f, m), weights)
      /\ MatchScore(g, n, q, s) = WeightedAverage(values(g, n), weights)
  BY DEF MatchScore, BlendedOverlap
<1>2. boost(m) = boost(n) /\ boost(m) \in Int
  <2>1. RouteBoost(m, q, s) = RouteBoost(n, q, s)
    BY SameRouteBoost DEF LikeEachOther
  <2>2. RouteBoost(m, q, s) \in Int
    BY RouteBoostType
  <2> QED BY <2>1, <2>2, NormalizedRouteBoostType
<1>3. /\ BlendedOverlap(f) \in Int /\ BlendedOverlap(g) \in Int
      /\ BlendedOverlap(f) >= BlendedOverlap(g)
  BY BlendedOverlapRises
<1> HIDE DEF boost
<1>4. /\ values(f, m) \in Seq(Int) /\ values(g, n) \in Seq(Int) /\ weights \in Seq(Int)
      /\ Len(values(f, m)) = Len(weights) /\ Len(values(g, n)) = Len(weights) /\ Len(weights) = 5
  BY <1>2, <1>3 DEF NoWorseThan, FeatureOK, WeightsOK
<1>5. \A i \in 1..5 : values(f, m)[i] >= values(g, n)[i]
  <2>1. f.recency >= g.recency /\ f.relevance >= g.relevance /\ f.importance >= g.importance
    BY DEF NoWorseThan
  <2>2. boost(m) >= boost(n)
    BY <1>2
  <2> QED BY <1>3, <2>1, <2>2
<1> HIDE DEF values, weights
<1> QED BY <1>1, <1>4, <1>5, WeightedAverageRises

(* No worse in any signal and alike in kind and metadata: no lower score. *)
LEMMA ScoreRises ==
    ASSUME NEW f, NEW g, NoWorseThan(f, g), NEW m, NEW n, LikeEachOther(m, n), m.kind \in KindNames,
           NEW nonRaw, NEW q, NEW s, WeightsOK(s),
           s.algorithm = "match" => f.dependency = g.dependency,
           s.algorithm # "match" /\ Routed(q) => WeighedTotal(g, n, nonRaw, q, s) > 0
    PROVE  Score(f, m, nonRaw, q, s) >= Score(g, n, nonRaw, q, s)
<1> DEFINE total == WeighedTotal(f, m, nonRaw, q, s)
           least == WeighedTotal(g, n, nonRaw, q, s)
           raised(v, o) == Clamp01(Times(IF v = 0 THEN One ELSE v, RouteBoost(o, q, s)))
<1>1. PICK t, u \in Nat : t = total /\ u = least /\ t >= u
  <2>1. FeatureOK(f) /\ FeatureOK(g) /\ n.kind \in KindNames
    BY DEF NoWorseThan, LikeEachOther
  <2>2. total \in 0..One /\ least \in 0..One
    BY <2>1, WeighedTotalType
  <2>3. total >= least
    BY WeighedTotalRises
  <2>4. \A v \in 0..One : v \in Nat
    BY DEF One
  <2> HIDE DEF total, least
  <2> QED BY <2>2, <2>3, <2>4
<1>2. /\ Score(f, m, nonRaw, q, s) =
            CASE s.algorithm = "match" -> MatchScore(f, m, q, s)
              [] s.algorithm # "match" /\ Routed(q) -> raised(total, m)
              [] OTHER -> total
      /\ Score(g, n, nonRaw, q, s) =
            CASE s.algorithm = "match" -> MatchScore(g, n, q, s)
              [] s.algorithm # "match" /\ Routed(q) -> raised(least, n)
              [] OTHER -> least
  BY DEF Score
<1>3. s.algorithm # "match" /\ Routed(q) => u > 0
  BY <1>1
<1> HIDE DEF total, least
<1>4. CASE s.algorithm = "match"
  <2>1. f.dependency = g.dependency
    BY <1>4
  <2>2. MatchScore(f, m, q, s) >= MatchScore(g, n, q, s)
    BY <1>4, <2>1, MatchScoreRises
  <2> QED BY <1>2, <1>4, <2>2
<1>5. CASE s.algorithm # "match" /\ Routed(q)
  <2>1. PICK b \in Nat : b = RouteBoost(m, q, s)
    BY RouteBoostType
  <2>2. b = RouteBoost(n, q, s)
    BY <2>1, SameRouteBoost DEF LikeEachOther
  <2>3. raised(total, m) = Clamp01(Times(t, b)) /\ raised(least, n) = Clamp01(Times(u, b))
    BY <1>1, <1>3, <1>5, <2>1, <2>2
  <2>4. PICK x, y \in Nat : x = Times(t, b) /\ y = Times(u, b) /\ x >= y
    <3>2. t \in Nat /\ u \in Nat /\ t >= u /\ b \in Nat /\ b >= b
      BY <1>1, <2>1
    <3>1. Times(t, b) >= Times(u, b) /\ Times(u, b) \in Nat /\ Times(t, b) \in Nat
      BY ONLY <3>2, TimesRises
    <3> QED BY <3>1
  <2>5. Clamp01(x) >= Clamp01(y)
    BY <2>4, Clamp01Rises
  <2>6. Score(f, m, nonRaw, q, s) = raised(total, m) /\ Score(g, n, nonRaw, q, s) = raised(least, n)
    BY <1>2, <1>5
  <2> HIDE DEF raised
  <2> QED BY <2>3, <2>4, <2>5, <2>6
<1>6. CASE s.algorithm # "match" /\ ~Routed(q)
  BY <1>1, <1>2, <1>6
<1> QED BY <1>4, <1>5, <1>6

-----------------------------------------------------------------------------
(* Lists of candidates and their fusion.                                   *)

LEMMA BetterOrders ==
    ASSUME NEW items, Len(items) \in Nat,
           \A i \in 1..Len(items) : items[i].score \in Int /\ items[i].id \in Int
    PROVE  Orders(BetterFirst(items), 1..Len(items)) /\ Orders(BetterThenById(items), 1..Len(items))
<1> PICK N \in Nat : N = Len(items)
  OBVIOUS
<1> PICK score, id : score = [i \in 1..N |-> items[i].score] /\ id = [i \in 1..N |-> items[i].id]
  OBVIOUS
<1>1. score \in [1..N -> Int] /\ id \in [1..N -> Int]
  OBVIOUS
<1>2. IsFiniteSet(1..N)
  BY IntervalCount
<1>3. \A i, j \in 1..N : <<i, j>> \in BetterFirst(items) <=>
         score[i] > score[j] \/ (score[i] = score[j] /\ i < j)
  BY DEF BetterFirst, Places
<1>4. \A i, j \in 1..N : <<i, j>> \in BetterThenById(items) <=>
         score[i] > score[j] \/ (score[i] = score[j] /\ (id[i] < id[j] \/ (id[i] = id[j] /\ i < j)))
  BY DEF BetterThenById, Places
<1>5. Orders(BetterFirst(items), 1..N)
  <2> DEFINE before(i, j) == score[i] > score[j] \/ (score[i] = score[j] /\ i < j)
  <2>1. \A i \in 1..N : ~before(i, i)
    BY <1>1
  <2>2. \A i, j \in 1..N : i # j => before(i, j) \/ before(j, i)
    BY <1>1
  <2>3. \A i, j, k \in 1..N : before(i, j) /\ before(j, k) => before(i, k)
    BY <1>1
  <2>4. \A i, j \in 1..N : <<i, j>> \in BetterFirst(items) <=> before(i, j)
    BY <1>3
  <2> HIDE DEF before
  <2> QED BY ONLY <1>2, <2>1, <2>2, <2>3, <2>4 DEF Orders
<1>6. Orders(BetterThenById(items), 1..N)
  <2> DEFINE before(i, j) == \/ score[i] > score[j]
                             \/ score[i] = score[j] /\ (id[i] < id[j] \/ (id[i] = id[j] /\ i < j))
  <2>1. \A i \in 1..N : ~before(i, i)
    BY <1>1
  <2>2. \A i, j \in 1..N : i # j => before(i, j) \/ before(j, i)
    BY <1>1
  <2>3. \A i, j, k \in 1..N : before(i, j) /\ before(j, k) => before(i, k)
    BY <1>1
  <2>4. \A i, j \in 1..N : <<i, j>> \in BetterThenById(items) <=> before(i, j)
    BY <1>4
  <2> HIDE DEF before
  <2> QED BY ONLY <1>2, <2>1, <2>2, <2>3, <2>4 DEF Orders
<1> QED BY <1>5, <1>6

LEMMA SortedSelects ==
    ASSUME NEW T, NEW list \in Seq(T),
           \A i \in 1..Len(list) : list[i].score \in Int /\ list[i].id \in Int
    PROVE  /\ Selects(SortById(list), list, 1..Len(list))
           /\ Selects(SortStable(list), list, 1..Len(list))
<1>1. Made(list) = list /\ Len(list) \in Nat
  BY MadeSame
<1>2. Orders(BetterFirst(list), 1..Len(list)) /\ Orders(BetterThenById(list), 1..Len(list))
  BY <1>1, BetterOrders
<1>3. /\ Selects(Arranged(list, BetterFirst(list)), list, 1..Len(list))
      /\ Selects(Arranged(list, BetterThenById(list)), list, 1..Len(list))
  BY <1>2, ArrangedSelects
<1>4. /\ SortById(list) = Arranged(list, BetterThenById(list))
      /\ SortStable(list) = Arranged(list, BetterFirst(list))
  BY <1>1 DEF SortById, SortStable
<1> QED BY <1>3, <1>4

Candidate(S) == [id : S, score : Int]

LEMMA CandidatesAre ==
    ASSUME NEW S, NEW list \in Seq(Candidate(S))
    PROVE  /\ Len(list) \in Nat
           /\ \A i \in 1..Len(list) : /\ list[i] \in Candidate(S)
                                      /\ list[i].id \in S /\ list[i].score \in Int
<1>1. Len(list) \in Nat /\ \A i \in 1..Len(list) : list[i] \in Candidate(S)
  OBVIOUS
<1>2. \A x \in Candidate(S) : x.id \in S /\ x.score \in Int
  BY DEF Candidate
<1> QED BY <1>1, <1>2

LEMMA SortedCandidates ==
    ASSUME NEW S \in SUBSET Int, NEW list \in Seq(Candidate(S))
    PROVE  /\ SortById(list) \in Seq(Candidate(S))
           /\ \A i \in 1..Len(list) : \E n \in 1..Len(SortById(list)) : SortById(list)[n] = list[i]
<1>1. \A i \in 1..Len(list) : list[i].score \in Int /\ list[i].id \in Int
  BY CandidatesAre
<1>2. Selects(SortById(list), list, 1..Len(list))
  BY <1>1, SortedSelects
<1>3. PICK new : new = SortById(list)
  OBVIOUS
<1>4. /\ new \in Seq(Candidate(S))
      /\ \A i \in 1..Len(list) : \E n \in 1..Len(new) : new[n] = list[i]
  <2> PICK places : places = 1..Len(list)
    OBVIOUS
  <2>1. places \in SUBSET (1..Len(list)) /\ Selects(new, list, places)
    BY <1>2, <1>3
  <2>2. new \in Seq(Candidate(S)) /\ HasAll(new, list, places)
    BY <2>1, SelectsHolds
  <2> QED BY <2>2 DEF HasAll
<1> QED BY <1>3, <1>4

LEMMA CutType ==
    ASSUME NEW T, NEW list \in Seq(T), NEW n \in Int
    PROVE  /\ Cut(list, n) \in Seq(T)
           /\ Len(Cut(list, n)) <= Len(list) /\ (n >= 0 => Len(Cut(list, n)) <= n)
           /\ \A i \in 1..Len(Cut(list, n)) : Cut(list, n)[i] = list[i]
           /\ n >= Len(list) => Cut(list, n) = list
<1> DEFINE m == Min({n, Len(list)})
<1>1. Len(list) \in Nat
  OBVIOUS
<1>2. m = IF n <= Len(list) THEN n ELSE Len(list)
  BY <1>1, TwoNumbers
<1>3. Cut(list, n) = SubSeq(list, 1, m)
  BY DEF Cut
<1> HIDE DEF m
<1>4. CASE m >= 1
  BY <1>1, <1>2, <1>3, <1>4
<1>5. CASE m < 1
  <2>1. Cut(list, n) = <<>>
    BY <1>1, <1>2, <1>3, <1>5
  <2>2. n >= Len(list) => list = <<>>
    BY <1>1, <1>2, <1>5
  <2> QED BY <1>1, <2>1, <2>2
<1> QED BY <1>1, <1>2, <1>4, <1>5

LEMMA FirstRankType ==
    ASSUME NEW list, Len(list) \in Nat, NEW id
    PROVE  /\ FirstRank(list, id) \in 0..Len(list)
           /\ FirstRank(list, id) # 0 => list[FirstRank(list, id)].id = id
           /\ FirstRank(list, id) = 0 => \A i \in 1..Len(list) : list[i].id # id
           /\ \A i \in 1..Len(list) : list[i].id = id => FirstRank(list, id) <= i
<1> DEFINE places == {i \in 1..Len(list) : list[i].id = id}
<1>1. FirstRank(list, id) = IF places = {} THEN 0 ELSE Min(places)
  BY DEF FirstRank
<1>2. CASE places = {}
  BY <1>1, <1>2
<1>3. CASE places # {}
  <2>1. places \in SUBSET Nat
    OBVIOUS
  <2>2. Min(places) \in places /\ \A y \in places : Min(places) <= y
    BY <1>3, <2>1, LeastOf
  <2>3. FirstRank(list, id) = Min(places)
    BY <1>1, <1>3
  <2>4. Min(places) \in 1..Len(list) /\ list[Min(places)].id = id
    BY <2>2
  <2>5. \A i \in 1..Len(list) : list[i].id = id => Min(places) <= i
    BY <2>2
  <2> HIDE DEF places
  <2> QED BY <2>3, <2>4, <2>5
<1> QED BY <1>2, <1>3

LEMMA ReciprocalType ==
    ASSUME NEW rank \in Nat
    PROVE  Reciprocal(rank) \in Nat
<1>1. 60 + rank \in Nat \ {0}
  OBVIOUS
<1>2. \A b \in Nat \ {0} : 1000000 \div b \in Nat
  OBVIOUS
<1> QED BY <1>1, <1>2 DEF Reciprocal

LEMMA SignalType ==
    ASSUME NEW S, NEW dense \in Seq(Candidate(S)), NEW lexical \in Seq(Candidate(S)), NEW id
    PROVE  SignalOK(Signal(dense, lexical, id)) /\ Signal(dense, lexical, id).fused \in Nat
<1> DEFINE d == FirstRank(dense, id)
           l == FirstRank(lexical, id)
           rrf == Reciprocal(d) + Reciprocal(l)
           dscore == IF d = 0 THEN 0 ELSE Clamp01(dense[d].score)
           lscore == IF l = 0 THEN 0 ELSE Clamp01(lexical[l].score)
           share == Clamp01(Ratio(rrf, rrf + Reciprocal(1)))
<1>1. d \in 0..Len(dense) /\ l \in 0..Len(lexical) /\ Len(dense) \in Nat /\ Len(lexical) \in Nat
  BY FirstRankType
<1>2. Signal(dense, lexical, id) =
         [denseScore |-> dscore, denseRank |-> d, lexicalScore |-> lscore, lexicalRank |-> l,
          fused |-> rrf, rrf |-> share]
  BY DEF Signal
<1> HIDE DEF d, l
<1>3. dscore \in Int
  <2>1. d # 0 => dense[d].score \in Int
    BY <1>1, CandidatesAre
  <2> QED BY <2>1 DEF Clamp01, One
<1>4. lscore \in Int
  <2>1. l # 0 => lexical[l].score \in Int
    BY <1>1, CandidatesAre
  <2> QED BY <2>1 DEF Clamp01, One
<1>5. d \in Nat /\ l \in Nat
  BY <1>1
<1>6. rrf \in Nat
  <2>1. Reciprocal(d) \in Nat /\ Reciprocal(l) \in Nat
    BY <1>5, ReciprocalType
  <2> QED BY <2>1
<1>7. share \in Int
  <2>1. Reciprocal(1) \in Nat
    BY ReciprocalType
  <2> HIDE DEF rrf
  <2>2. rrf + Reciprocal(1) \in Nat
    BY <1>6, <2>1
  <2>3. Ratio(rrf, rrf + Reciprocal(1)) \in Int
    BY <1>6, <2>2, RatioType
  <2> QED BY <2>3, Clamp01Type
<1> HIDE DEF dscore, lscore, rrf, share
<1> QED BY <1>2, <1>3, <1>4, <1>5, <1>6, <1>7 DEF SignalOK

(* Fusion names every id of both lists once, and no other. *)
LEMMA FusedIdsHold ==
    ASSUME NEW S \in SUBSET Int, NEW dense \in Seq(Candidate(S)), NEW lexical \in Seq(Candidate(S))
    PROVE  /\ FusedIds(dense, lexical) \in Seq(S)
           /\ Distinct(FusedIds(dense, lexical))
           /\ \A i \in 1..Len(dense) : \E n \in 1..Len(FusedIds(dense, lexical)) :
                 FusedIds(dense, lexical)[n] = dense[i].id
           /\ \A i \in 1..Len(lexical) : \E n \in 1..Len(FusedIds(dense, lexical)) :
                 FusedIds(dense, lexical)[n] = lexical[i].id
<1> DEFINE all == dense \o lexical
           places == {i \in 1..Len(all) : FirstRank(all, all[i].id) = i}
           first == Picked(all, places)
           listed == [k \in 1..Len(first) |->
                        [id |-> first[k].id, score |-> Signal(dense, lexical, first[k].id).fused]]
           items == SortById(listed)
           ids == [k \in 1..Len(items) |-> items[k].id]
<1>1. all \in Seq(Candidate(S)) /\ Len(all) \in Nat
  OBVIOUS
<1>2. /\ \A i \in 1..Len(dense) : i \in 1..Len(all) /\ all[i] = dense[i]
      /\ \A i \in 1..Len(lexical) : Len(dense) + i \in 1..Len(all) /\ all[Len(dense) + i] = lexical[i]
  OBVIOUS
<1>3. FusedIds(dense, lexical) = Made(ids)
  BY DEF FusedIds
<1> HIDE DEF all
<1>4. places \in SUBSET (1..Len(all)) /\ Selects(first, all, places)
  BY <1>1, PickedSelects
<1>5. \A i \in 1..Len(all) : \E j \in places : all[j].id = all[i].id
  <2> TAKE i \in 1..Len(all)
  <2>1. PICK r : r = FirstRank(all, all[i].id)
    OBVIOUS
  <2>2. r \in 1..Len(all) /\ all[r].id = all[i].id
    BY <1>1, <2>1, FirstRankType
  <2>3. r \in places
    BY <2>1, <2>2
  <2> QED BY <2>2, <2>3
<1>6. \A i, j \in places : all[i].id = all[j].id => i = j
  OBVIOUS
<1> HIDE DEF places, first
<1>7. /\ first \in Seq(Candidate(S)) /\ DistinctIds(first)
      /\ \A i \in places : \E n \in 1..Len(first) : first[n] = all[i]
  <2>1. /\ first \in Seq(Candidate(S))
        /\ \A i \in places : \E n \in 1..Len(first) : first[n] = all[i]
    <3>1. first \in Seq(Candidate(S)) /\ HasAll(first, all, places)
      BY <1>1, <1>4, SelectsHolds
    <3> QED BY <3>1 DEF HasAll
  <2>2. DistinctIds(first)
    BY <1>1, <1>4, <1>6, SelectsDistinctIds
  <2> QED BY <2>1, <2>2
<1>8. /\ listed \in Seq(Candidate(S)) /\ Len(listed) = Len(first)
      /\ \A k \in 1..Len(first) : listed[k].id = first[k].id
  <2>1. \A k \in 1..Len(first) : first[k].id \in S /\ Signal(dense, lexical, first[k].id).fused \in Int
    BY <1>7, SignalType, CandidatesAre
  <2>2. \A k \in 1..Len(first) :
           [id |-> first[k].id, score |-> Signal(dense, lexical, first[k].id).fused] \in Candidate(S)
    BY <2>1 DEF Candidate
  <2>3. Len(first) \in Nat
    BY <1>7
  <2> QED BY <2>2, <2>3
<1> HIDE DEF listed
<1>9. Selects(items, listed, 1..Len(listed))
  <2>1. \A i \in 1..Len(listed) : listed[i].score \in Int /\ listed[i].id \in Int
    BY <1>8, CandidatesAre
  <2> QED BY <1>8, <2>1, SortedSelects
<1> HIDE DEF items
<1>10. /\ items \in Seq(Candidate(S)) /\ DistinctIds(items)
       /\ \A i \in 1..Len(listed) : \E n \in 1..Len(items) : items[n] = listed[i]
  <2>1. \A i, j \in 1..Len(listed) : listed[i].id = listed[j].id => i = j
    BY <1>7, <1>8 DEF DistinctIds
  <2>2. /\ items \in Seq(Candidate(S))
        /\ \A i \in 1..Len(listed) : \E n \in 1..Len(items) : items[n] = listed[i]
    <3> PICK whole : whole = 1..Len(listed)
      OBVIOUS
    <3>1. whole \in SUBSET (1..Len(listed)) /\ Selects(items, listed, whole)
      BY <1>9
    <3>2. items \in Seq(Candidate(S)) /\ HasAll(items, listed, whole)
      BY <1>8, <3>1, SelectsHolds
    <3> QED BY <3>2 DEF HasAll
  <2>3. DistinctIds(items)
    BY <1>8, <1>9, <2>1, SelectsDistinctIds
  <2> QED BY <2>2, <2>3
<1>11. ids \in Seq(S) /\ Len(ids) = Len(items) /\ Distinct(ids)
  <2>1. \A k \in 1..Len(items) : items[k].id \in S
    BY <1>10, CandidatesAre
  <2>2. Len(items) \in Nat
    BY <1>10
  <2>3. \A k \in 1..Len(items) : ids[k] = items[k].id
    OBVIOUS
  <2>4. ids \in Seq(S) /\ Len(ids) = Len(items)
    BY <2>1, <2>2
  <2> HIDE DEF ids
  <2> QED BY <1>10, <2>3, <2>4 DEF Distinct, DistinctIds
<1>12. \A i \in 1..Len(all) : \E n \in 1..Len(ids) : ids[n] = all[i].id
  <2> TAKE i \in 1..Len(all)
  <2>1. PICK j \in places : all[j].id = all[i].id
    BY <1>5
  <2>2. PICK m \in 1..Len(first) : first[m] = all[j]
    BY <1>7
  <2>3. PICK n \in 1..Len(items) : items[n] = listed[m]
    BY <1>8, <1>10
  <2> QED BY <1>8, <1>11, <2>1, <2>2, <2>3
<1>13. FusedIds(dense, lexical) = ids
  BY <1>3, <1>11, MadeSame
<1> HIDE DEF ids
<1>14. \A i \in 1..Len(dense) : \E n \in 1..Len(ids) : ids[n] = dense[i].id
  BY <1>2, <1>12
<1>15. \A i \in 1..Len(lexical) : \E n \in 1..Len(ids) : ids[n] = lexical[i].id
  <2> TAKE i \in 1..Len(lexical)
  <2>1. Len(dense) + i \in 1..Len(all) /\ all[Len(dense) + i] = lexical[i]
    BY <1>2
  <2>2. PICK n \in 1..Len(ids) : ids[n] = all[Len(dense) + i].id
    BY <1>12, <2>1
  <2> QED BY <2>1, <2>2
<1> QED BY <1>11, <1>13, <1>14, <1>15

-----------------------------------------------------------------------------
(* Ranked lists.                                                           *)

ItemsOK(items, S, M) ==
    /\ IsSeq(items)
    /\ \A i \in 1..Len(items) : /\ items[i].id \in S /\ items[i].memory \in M
                                /\ items[i].recency \in 0..One /\ SignalOK(items[i].signal)

Feature == [recency : Int, relevance : Int, importance : Int, raw : Int,
            rrf : Int, overlap : Int, dependency : Int]

Scored(S, M) == [id : S, memory : M, f : Feature, score : 0..One]

(* The same ids: none is new, none is lost, and none is repeated. *)
SameIds(new, old) ==
    /\ \A n \in 1..Len(new) : \E i \in 1..Len(old) : new[n].id = old[i].id
    /\ \A i \in 1..Len(old) : \E n \in 1..Len(new) : new[n].id = old[i].id
    /\ DistinctIds(old) => DistinctIds(new)

LEMMA SameIdsItself == \A list : SameIds(list, list)
BY DEF SameIds

LEMMA SameIdsTransitive ==
    ASSUME NEW a, NEW b, NEW c, SameIds(a, b), SameIds(b, c)
    PROVE  SameIds(a, c)
<1>1. ASSUME NEW n \in 1..Len(a) PROVE \E i \in 1..Len(c) : a[n].id = c[i].id
  <2>1. PICK j \in 1..Len(b) : a[n].id = b[j].id
    BY Zenon DEF SameIds
  <2>2. PICK i \in 1..Len(c) : b[j].id = c[i].id
    BY Zenon DEF SameIds
  <2> QED BY <2>1, <2>2
<1>2. ASSUME NEW i \in 1..Len(c) PROVE \E n \in 1..Len(a) : a[n].id = c[i].id
  <2>1. PICK j \in 1..Len(b) : b[j].id = c[i].id
    BY Zenon DEF SameIds
  <2>2. PICK n \in 1..Len(a) : a[n].id = b[j].id
    BY Zenon DEF SameIds
  <2> QED BY <2>1, <2>2
<1> QED BY <1>1, <1>2, Zenon DEF SameIds

LEMMA RawType ==
    ASSUME NEW S, NEW M, \A m \in M : MemoryOK(m), NEW items, ItemsOK(items, S, M),
           NEW limit \in Int, NEW q, NEW s
    PROVE  \A i \in 1..Len(items) : /\ Raw(items, limit, q, s)[i].recency \in 0..One
                                    /\ Raw(items, limit, q, s)[i].relevance \in 0..One
                                    /\ Raw(items, limit, q, s)[i].importance \in 0..One
<1> DEFINE entry(i) == [recency |-> items[i].recency, relevance |-> Relevance(items[i], limit, q, s),
                        importance |-> Clamp01(items[i].memory.importance)]
           raw == [i \in DOMAIN items |-> entry(i)]
           Unit == [recency : 0..One, relevance : 0..One, importance : 0..One]
<1>1. Len(items) \in Nat /\ DOMAIN items = 1..Len(items)
  BY DEF ItemsOK, IsSeq
<1>2. \A i \in 1..Len(items) : entry(i) \in Unit
  <2> TAKE i \in 1..Len(items)
  <2>1. items[i].recency \in 0..One
    BY DEF ItemsOK
  <2>2. Relevance(items[i], limit, q, s) \in 0..One
    <3>1. MemoryOK(items[i].memory) /\ SignalOK(items[i].signal)
      BY DEF ItemsOK
    <3> QED BY <3>1, RelevanceType
  <2>3. Clamp01(items[i].memory.importance) \in 0..One
    <3>1. PICK v \in Int : v = items[i].memory.importance
      BY DEF ItemsOK, MemoryOK
    <3> QED BY <3>1, Clamp01Type
  <2> QED BY <2>1, <2>2, <2>3
<1> HIDE DEF entry
<1>3. raw \in Seq(Unit) /\ \A i \in 1..Len(items) : raw[i] = entry(i)
  BY <1>1, <1>2
<1>4. Raw(items, limit, q, s) = raw
  <2>1. Raw(items, limit, q, s) = Made(raw)
    BY DEF Raw, entry
  <2> HIDE DEF raw
  <2> QED BY <1>3, <2>1, MadeSame
<1> HIDE DEF raw
<1> QED BY <1>2, <1>3, <1>4

LEMMA NormalizedType ==
    ASSUME NEW S, NEW M, \A m \in M : MemoryOK(m), NEW items, ItemsOK(items, S, M),
           NEW limit \in Int, NEW q, IsSeq(q.words), NEW s
    PROVE  /\ Features(items, limit, q, s) \in Seq(Feature)
           /\ Len(Features(items, limit, q, s)) = Len(items)
<1> DEFINE raw == Raw(items, limit, q, s)
           all(field) == {raw[i][field] : i \in DOMAIN items}
           entry(i) == [recency |-> MinMax(raw[i].recency, all("recency")),
                        relevance |-> MinMax(raw[i].relevance, all("relevance")),
                        importance |-> MinMax(raw[i].importance, all("importance")),
                        raw |-> raw[i].relevance, rrf |-> items[i].signal.rrf,
                        overlap |-> QueryOverlap(q.words, items[i].memory.words),
                        dependency |-> OrderedBigramCoverage(q.words, items[i].memory.words)]
           new == [i \in DOMAIN items |-> entry(i)]
<1>1. Len(items) \in Nat /\ DOMAIN items = 1..Len(items)
  BY DEF ItemsOK, IsSeq
<1>2. \A i \in 1..Len(items) : /\ raw[i].recency \in 0..One /\ raw[i].relevance \in 0..One
                               /\ raw[i].importance \in 0..One
  BY RawType
<1>3. Features(items, limit, q, s) = Made(new)
  BY DEF Features, Normalized
<1> HIDE DEF raw
<1>4. \A i \in 1..Len(items) : entry(i) \in Feature
  <2> TAKE i \in 1..Len(items)
  <2>1. MinMax(raw[i].recency, all("recency")) \in Int
    <3>1. all("recency") \in SUBSET (0..One) /\ raw[i].recency \in all("recency")
      BY <1>1, <1>2
    <3> HIDE DEF all
    <3> PICK v, set : v = raw[i].recency /\ set = all("recency")
      OBVIOUS
    <3> QED BY <3>1, MinMaxType
  <2>2. MinMax(raw[i].relevance, all("relevance")) \in Int
    <3>1. all("relevance") \in SUBSET (0..One) /\ raw[i].relevance \in all("relevance")
      BY <1>1, <1>2
    <3> HIDE DEF all
    <3> PICK v, set : v = raw[i].relevance /\ set = all("relevance")
      OBVIOUS
    <3> QED BY <3>1, MinMaxType
  <2>3. MinMax(raw[i].importance, all("importance")) \in Int
    <3>1. all("importance") \in SUBSET (0..One) /\ raw[i].importance \in all("importance")
      BY <1>1, <1>2
    <3> HIDE DEF all
    <3> PICK v, set : v = raw[i].importance /\ set = all("importance")
      OBVIOUS
    <3> QED BY <3>1, MinMaxType
  <2>4. raw[i].relevance \in Int
    <3>1. PICK v : v = raw[i].relevance
      OBVIOUS
    <3>2. v \in 0..One
      BY <1>2, <3>1
    <3>3. v \in Int
      BY <3>2 DEF One
    <3> QED BY <3>1, <3>3
  <2>5. items[i].signal.rrf \in Int
    BY DEF ItemsOK, SignalOK
  <2>6. QueryOverlap(q.words, items[i].memory.words) \in Int
        /\ OrderedBigramCoverage(q.words, items[i].memory.words) \in Int
    <3>1. IsSeq(items[i].memory.words)
      BY DEF ItemsOK, MemoryOK
    <3> QED BY <3>1, QueryOverlapType, OrderedBigramCoverageType
  <2> HIDE DEF all
  <2> QED BY <2>1, <2>2, <2>3, <2>4, <2>5, <2>6 DEF Feature
<1> HIDE DEF entry
<1>5. new \in Seq(Feature) /\ Len(new) = Len(items)
  BY <1>1, <1>4
<1> HIDE DEF new
<1> QED BY <1>3, <1>5, MadeSame

LEMMA FeatureFields ==
    ASSUME NEW f \in Feature
    PROVE  FeatureOK(f)
BY DEF Feature, FeatureOK

LEMMA ScoredIs ==
    ASSUME NEW S, NEW M, NEW x \in Scored(S, M)
    PROVE  x.id \in S /\ x.memory \in M /\ x.score \in 0..One /\ x.score \in Int
<1>1. x.id \in S /\ x.memory \in M /\ x.score \in 0..One
  BY DEF Scored
<1>2. \A v \in 0..One : v \in Int
  BY DEF One
<1> QED BY <1>1, <1>2

LEMMA ScoredAre ==
    ASSUME NEW S \in SUBSET Int, NEW M, NEW list \in Seq(Scored(S, M))
    PROVE  /\ Len(list) \in Nat
           /\ \A i \in 1..Len(list) : /\ list[i] \in Scored(S, M) /\ list[i].memory \in M
                                      /\ list[i].id \in S /\ list[i].id \in Int /\ list[i].score \in Int
                                      /\ list[i].score \in 0..One
<1>1. Len(list) \in Nat /\ \A i \in 1..Len(list) : list[i] \in Scored(S, M)
  OBVIOUS
<1>2. \A x \in Scored(S, M) : /\ x.id \in S /\ x.id \in Int /\ x.memory \in M
                              /\ x.score \in 0..One /\ x.score \in Int
  BY ScoredIs
<1> QED BY <1>1, <1>2

(* A list in another order follows itself. *)
LEMMA SelectedSameIds ==
    ASSUME NEW T, NEW list \in Seq(T), NEW new, Selects(new, list, 1..Len(list))
    PROVE  new \in Seq(T) /\ Len(new) = Len(list) /\ SameIds(new, list)
<1> PICK places : places = 1..Len(list)
  OBVIOUS
<1>1. places \in SUBSET (1..Len(list)) /\ Selects(new, list, places)
  OBVIOUS
<1>2. new \in Seq(T) /\ Len(new) = Cardinality(places)
      /\ ComesFrom(new, list, places) /\ HasAll(new, list, places)
  BY <1>1, SelectsHolds
<1>3. Cardinality(places) = Len(list)
  BY PlacesFinite
<1>4. DistinctIds(list) => DistinctIds(new)
  <2>1. ASSUME DistinctIds(list) PROVE \A i, j \in places : list[i].id = list[j].id => i = j
    BY <2>1 DEF DistinctIds
  <2> QED BY <1>1, <2>1, SelectsDistinctIds
<1>5. \A n \in 1..Len(new) : \E i \in 1..Len(list) : new[n].id = list[i].id
  BY <1>2, Zenon DEF ComesFrom
<1>6. \A i \in 1..Len(list) : \E n \in 1..Len(new) : new[n].id = list[i].id
  BY <1>2, Zenon DEF HasAll
<1> QED BY <1>2, <1>3, <1>4, <1>5, <1>6, Zenon DEF SameIds

(* A ranked list holds the items it was made of, with scores between 0 and 1. *)
LEMMA RankMemoriesType ==
    ASSUME NEW S \in SUBSET Int, NEW M, \A m \in M : MemoryOK(m), NEW items, ItemsOK(items, S, M),
           NEW limit \in Int, NEW q, IsSeq(q.words), NEW s, WeightsOK(s)
    PROVE  /\ RankMemories(items, limit, q, s) \in Seq(Scored(S, M))
           /\ SameIds(RankMemories(items, limit, q, s), items)
<1> DEFINE features == Features(items, limit, q, s)
           nonRaw == \E i \in DOMAIN items : items[i].memory.kind # "raw_turn"
           entry(i) == Ranked(items[i], features[i], nonRaw, q, s)
           listed == [i \in DOMAIN items |-> entry(i)]
           whole == 1..Len(listed)
<1>1. Len(items) \in Nat /\ DOMAIN items = 1..Len(items)
  BY DEF ItemsOK, IsSeq
<1>2. features \in Seq(Feature) /\ Len(features) = Len(items)
  BY NormalizedType
<1>3. RankMemories(items, limit, q, s) = SortStable(listed)
  BY Zenon DEF RankMemories
<1> HIDE DEF features, nonRaw
<1>4. \A i \in 1..Len(items) : entry(i) \in Scored(S, M) /\ entry(i).id = items[i].id
  <2> TAKE i \in 1..Len(items)
  <2> PICK f : f = features[i]
    OBVIOUS
  <2>1. f \in Feature
    BY <1>2
  <2> PICK m : m = items[i].memory
    OBVIOUS
  <2>2. items[i].id \in S /\ m \in M /\ m.kind \in KindNames
    BY DEF ItemsOK, MemoryOK
  <2>3. Score(f, m, nonRaw, q, s) \in 0..One
    BY <2>1, <2>2, FeatureFields, ScoreType
  <2> QED BY <2>1, <2>2, <2>3 DEF Scored, Ranked
<1> HIDE DEF entry
<1>5. listed \in Seq(Scored(S, M)) /\ Len(listed) = Len(items) /\ \A i \in 1..Len(items) : listed[i].id = items[i].id
  BY <1>1, <1>4
<1> HIDE DEF listed
<1>6. Selects(SortStable(listed), listed, whole)
  <2>1. \A i \in 1..Len(listed) : listed[i].score \in Int /\ listed[i].id \in Int
    BY <1>5, ScoredAre
  <2> QED BY <1>5, <2>1, SortedSelects
<1> PICK new : new = SortStable(listed)
  OBVIOUS
<1>7. /\ new \in Seq(Scored(S, M)) /\ SameIds(new, listed)
  BY <1>5, <1>6, SelectedSameIds
<1>8. SameIds(listed, items)
  <2>1. DistinctIds(items) => DistinctIds(listed)
    BY <1>5, Zenon DEF DistinctIds
  <2> QED BY <1>5, <2>1, Zenon DEF SameIds
<1> QED BY <1>3, <1>7, <1>8, SameIdsTransitive

(* New scores for the head of a list keep its items and those of the tail. *)
LEMMA RescoredSameIds ==
    ASSUME NEW S \in SUBSET Int, NEW M, NEW items \in Seq(Scored(S, M)), NEW n \in 0..Len(items),
           NEW v \in [1..n -> Int], NEW head,
           head = SortById([i \in 1..n |-> [items[i] EXCEPT !.score = Clamp01(v[i])]])
    PROVE  /\ head \o SubSeq(items, n + 1, Len(items)) \in Seq(Scored(S, M))
           /\ SameIds(head \o SubSeq(items, n + 1, Len(items)), items)
<1> DEFINE entry(i) == [items[i] EXCEPT !.score = Clamp01(v[i])]
           new == [i \in 1..n |-> entry(i)]
           rest == SubSeq(items, n + 1, Len(items))
           all == head \o rest
<1>1. Len(items) \in Nat /\ n \in Nat /\ \A i \in 1..Len(items) : items[i] \in Scored(S, M)
  BY ScoredAre
<1>a. head = SortById(new)
  OBVIOUS
<1>2. \A i \in 1..n : entry(i) \in Scored(S, M) /\ entry(i).id = items[i].id
  <2> TAKE i \in 1..n
  <2> PICK x, c : x = items[i] /\ c = Clamp01(v[i])
    OBVIOUS
  <2>1. x \in Scored(S, M)
    BY <1>1
  <2>2. c \in 0..One
    BY Clamp01Type
  <2>3. [x EXCEPT !.score = c] \in Scored(S, M) /\ [x EXCEPT !.score = c].id = x.id
    BY <2>1, <2>2 DEF Scored
  <2> QED BY <2>3
<1> HIDE DEF entry
<1>3. new \in Seq(Scored(S, M)) /\ Len(new) = n /\ \A i \in 1..n : new[i].id = items[i].id
  <2>1. new \in Seq(Scored(S, M)) /\ Len(new) = n
    <3>1. n \in Nat /\ \A i \in 1..n : entry(i) \in Scored(S, M)
      BY <1>1, <1>2
    <3> QED BY ONLY <3>1
  <2>2. \A i \in 1..n : new[i] = entry(i)
    OBVIOUS
  <2> QED BY <1>2, <2>1, <2>2
<1> HIDE DEF new
<1>4. head \in Seq(Scored(S, M)) /\ Len(head) = n /\ SameIds(head, new)
  <2>1. \A i \in 1..Len(new) : new[i].score \in Int /\ new[i].id \in Int
    BY <1>3, ScoredAre
  <2>2. Selects(head, new, 1..Len(new))
    BY <1>3, <1>a, <2>1, SortedSelects
  <2> QED BY <1>3, <2>2, SelectedSameIds
<1>5. /\ rest \in Seq(Scored(S, M)) /\ Len(rest) = Len(items) - n
      /\ \A i \in 1..Len(rest) : rest[i] = items[n + i]
  BY <1>1
<1> HIDE DEF rest
<1>6. /\ all \in Seq(Scored(S, M)) /\ Len(all) = Len(items)
      /\ \A i \in 1..n : all[i] = head[i]
      /\ \A i \in (n + 1)..Len(items) : all[i] = items[i]
  <2>1. all \in Seq(Scored(S, M)) /\ Len(all) = Len(items)
    BY <1>1, <1>4, <1>5
  <2>2. \A i \in 1..n : all[i] = head[i]
    BY <1>1, <1>4, <1>5
  <2>3. ASSUME NEW i \in (n + 1)..Len(items) PROVE all[i] = items[i]
    <3>1. i - n \in 1..Len(rest) /\ n + (i - n) = i
      BY <1>1, <1>5
    <3>2. all[i] = rest[i - n]
      BY <1>1, <1>4, <1>5, <3>1
    <3> QED BY <1>5, <3>1, <3>2
  <2> QED BY <2>1, <2>2, <2>3
<1> HIDE DEF all
<1>7. \A i \in 1..n : \E j \in 1..n : all[i].id = items[j].id
  <2> TAKE i \in 1..n
  <2>1. i \in 1..Len(head)
    BY <1>4
  <2>2. PICK j \in 1..Len(new) : head[i].id = new[j].id
    BY <1>4, <2>1, Zenon DEF SameIds
  <2> QED BY <1>3, <1>6, <2>2
<1>8. \A i \in 1..n : \E j \in 1..n : all[j].id = items[i].id
  <2> TAKE i \in 1..n
  <2>1. i \in 1..Len(new)
    BY <1>3
  <2>2. PICK j \in 1..Len(head) : head[j].id = new[i].id
    BY <1>4, <2>1, Zenon DEF SameIds
  <2> QED BY <1>3, <1>4, <1>6, <2>2
<1>9. \A i \in 1..Len(items) : \E j \in 1..Len(items) : all[i].id = items[j].id
  <2> TAKE i \in 1..Len(items)
  <2>1. CASE i <= n
    BY <1>1, <1>7, <2>1
  <2>2. CASE i > n
    <3>1. all[i] = items[i]
      BY <1>1, <1>6, <2>2
    <3> QED BY <3>1
  <2> QED BY <1>1, <2>1, <2>2
<1>10. \A i \in 1..Len(items) : \E j \in 1..Len(items) : all[j].id = items[i].id
  <2> TAKE i \in 1..Len(items)
  <2>1. CASE i <= n
    BY <1>1, <1>8, <2>1
  <2>2. CASE i > n
    <3>1. all[i] = items[i]
      BY <1>1, <1>6, <2>2
    <3> QED BY <3>1
  <2> QED BY <1>1, <2>1, <2>2
<1>11. ASSUME DistinctIds(items) PROVE DistinctIds(all)
  <2>1. \A i, j \in 1..Len(items) : items[i].id = items[j].id => i = j
    BY <1>11 DEF DistinctIds
  <2>2. DistinctIds(head)
    <3>1. DistinctIds(new)
      BY <1>1, <1>3, <2>1 DEF DistinctIds
    <3> QED BY <1>4, <3>1 DEF SameIds
  <2>3. ASSUME NEW i \in 1..Len(items), NEW j \in 1..Len(items), all[i].id = all[j].id
        PROVE  i = j
    <3>1. CASE i <= n /\ j <= n
      <4>1. all[i] = head[i] /\ all[j] = head[j] /\ i \in 1..Len(head) /\ j \in 1..Len(head)
        BY <1>1, <1>4, <1>6, <3>1
      <4>2. head[i].id = head[j].id
        BY <2>3, <4>1
      <4> QED BY <2>2, <4>1, <4>2, Zenon DEF DistinctIds
    <3>2. CASE i <= n /\ j > n
      <4>1. PICK p \in 1..n : all[i].id = items[p].id
        BY <1>1, <1>7, <3>2
      <4>2. all[j] = items[j]
        <5>1. j \in (n + 1)..Len(items)
          BY <1>1, <3>2
        <5> QED BY <1>6, <5>1
      <4>3. p \in 1..Len(items) /\ p # j
        BY <1>1, <3>2
      <4> QED BY <2>1, <2>3, <4>1, <4>2, <4>3
    <3>3. CASE i > n /\ j <= n
      <4>1. PICK p \in 1..n : all[j].id = items[p].id
        BY <1>1, <1>7, <3>3
      <4>2. all[i] = items[i]
        <5>1. i \in (n + 1)..Len(items)
          BY <1>1, <3>3
        <5> QED BY <1>6, <5>1
      <4>3. p \in 1..Len(items) /\ p # i
        BY <1>1, <3>3
      <4> QED BY <2>1, <2>3, <4>1, <4>2, <4>3
    <3>4. CASE i > n /\ j > n
      <4>1. all[i] = items[i] /\ all[j] = items[j]
        BY <1>1, <1>6, <3>4
      <4> QED BY <2>1, <2>3, <4>1
    <3> QED BY <1>1, <3>1, <3>2, <3>3, <3>4
  <2> QED BY <1>6, <2>3 DEF DistinctIds
<1>12. SameIds(all, items)
  BY <1>6, <1>9, <1>10, <1>11, Zenon DEF SameIds
<1> QED BY <1>6, <1>12 DEF all, rest

(* What the code's logarithm gives for n documents; only that it is a natural matters. *)
IdfOK(n) == \A df \in 0..n : Idf(n, df) \in Nat

LEMMA IdfCoverageType ==
    ASSUME NEW query, IsSeq(query), NEW text, NEW docs, IsSeq(docs), IdfOK(Len(docs))
    PROVE  IdfCoverage(query, text, docs) \in Int
<1> DEFINE words == Unique(query)
           df(word) == Cardinality({i \in 1..Len(docs) : word \in Words(docs[i])})
           weight(i) == Idf(Len(docs), df(words[i]))
           held(i) == Plus(words[i] \in Words(text), weight(i))
           some == [i \in 1..Len(words) |-> held(i)]
           all == [i \in 1..Len(words) |-> weight(i)]
<1>1. Len(words) \in Nat
  BY UniqueType
<1>2. IdfCoverage(query, text, docs) = IF text = <<>> THEN 0 ELSE Ratio(Total(some), Total(all))
  BY DEF IdfCoverage
<1> HIDE DEF words
<1>3. \A word : df(word) \in 0..Len(docs)
  <2> TAKE word
  <2> DEFINE places == {i \in 1..Len(docs) : word \in Words(docs[i])}
  <2>1. PICK T : docs \in Seq(T)
    BY DEF IsSeq
  <2>2. places \in SUBSET (1..Len(docs))
    OBVIOUS
  <2> HIDE DEF places
  <2>3. Cardinality(places) \in Nat /\ Cardinality(places) <= Len(docs) /\ Len(docs) \in Nat
    BY <2>1, <2>2, PlacesFinite
  <2> QED BY <2>3 DEF places
<1> HIDE DEF df
<1>4. \A i \in 1..Len(words) : weight(i) \in Nat
  BY <1>3 DEF IdfOK
<1> HIDE DEF weight
<1>5. \A i \in 1..Len(words) : held(i) \in Int
  BY <1>4, IfType
<1> HIDE DEF held
<1>6. some \in Seq(Int)
  BY <1>1, <1>5
<1>7. all \in Seq(Int) /\ \A i \in 1..Len(all) : all[i] >= 0
  BY <1>1, <1>4
<1> HIDE DEF some, all
<1>8. Total(some) \in Int /\ Total(all) \in Nat
  BY <1>6, <1>7, TotalType
<1> QED BY <1>2, <1>8, RatioType

LEMMA DocumentType ==
    ASSUME NEW m, MemoryOK(m)
    PROVE  IsSeq(Document(m))
<1>1. PICK V, W : m.words \in Seq(V) /\ m.view \in Seq(W)
  BY DEF MemoryOK, IsSeq
<1>2. PICK T : T = V \cup W
  OBVIOUS
<1>3. m.words \in Seq(T) /\ m.view \in Seq(T)
  BY <1>1, <1>2
<1>4. m.words \o m.view \in Seq(T)
  BY <1>3
<1> QED BY <1>4 DEF Document, IsSeq

LEMMA PairwiseRerankScoreType ==
    ASSUME NEW query, IsSeq(query), NEW m, MemoryOK(m), NEW docs, IsSeq(docs), IdfOK(Len(docs))
    PROVE  PairwiseRerankScore(query, m, docs) \in 0..One
<1> DEFINE doc == Document(m)
           v1 == LexicalContentScore(query, doc)
           v2 == OrderedBigramCoverage(query, doc)
           v3 == QueryTokenProximity(query, doc)
           v4 == LexicalContentScore(query, m.view)
           v5 == IdfCoverage(query, doc, docs)
           v6 == IdfCoverage(query, m.view, docs)
           values == <<v1, v2, v3, v4, v5, v6>>
           weights == <<280, 160, 150, 110, 200, 100>>
<1>1. IsSeq(doc) /\ IsSeq(m.view)
  BY DocumentType DEF MemoryOK
<1>2. PairwiseRerankScore(query, m, docs) = WeightedAverage(values, weights)
  BY DEF PairwiseRerankScore
<1> HIDE DEF doc
<1>3. v1 \in 0..One /\ v3 \in 0..One /\ v4 \in 0..One
  BY <1>1, LexicalContentScoreType, QueryTokenProximityType
<1>4. v2 \in Int /\ v5 \in Int /\ v6 \in Int
  BY <1>1, OrderedBigramCoverageType, IdfCoverageType
<1> HIDE DEF v1, v2, v3, v4, v5, v6
<1>5. v1 \in Int /\ v3 \in Int /\ v4 \in Int
  BY <1>3 DEF One
<1>6. values \in Seq(Int) /\ weights \in Seq(Int) /\ Len(values) = Len(weights)
  BY <1>4, <1>5
<1> HIDE DEF values, weights
<1> QED BY <1>2, <1>6, WeightedAverageType

LEMMA EarlyRankSignalType ==
    ASSUME NEW q, IsSeq(q.words), NEW m, MemoryOK(m), NEW s
    PROVE  EarlyRankSignal(q, m, s) \in 0..One
<1> DEFINE type == q.plan.type
           kindIn(kinds) == m.kind \in kinds
           a1 == QueryOverlap(q.words, m.words)
           a2 == Plus(q.plan.entity # None /\ q.plan.entity \in m.entities, 100)
           a3 == Plus("hint" \in q.says /\ Has(m, "hint"), 100)
           a4 == Plus(type \in {"single_fact_boolean", "single_fact_quote", "single_fact_location_or_person"}
                      /\ Answers(m, type),
                      CASE type = "single_fact_boolean" -> 180 [] type = "single_fact_quote" -> 220 [] OTHER -> 150)
           a5 == Plus(type = "single_fact_quote" /\ m.answers # "quote" /\ Has(m, "quoted"), 220)
           a6 == Plus(type = "single_fact_boolean" /\ kindIn({"raw_turn", "event"}), 100)
           a7 == Plus(type = "single_fact_quote" /\ kindIn({"summary"}), -80)
           a8 == Plus(type = "single_fact_list" /\ ~kindIn({"raw_turn"}), 120)
           a9 == Plus(type = "single_fact_location_or_person" /\ kindIn({"summary"}), -60)
           a10 == Plus(type \in TemporalTypes /\ kindIn({"event", "raw_turn"}), 120)
           a11 == Plus(type \in TemporalTypes /\ Has(m, "anchor"), 180)
           a12 == Plus(type \in TemporalTypes /\ Has(m, "time"), 80)
           a13 == Plus(type \in OpenTypes /\ kindIn({"summary"}), 180)
           a14 == Plus(type \in OpenTypes /\ s.supportLinks /\ (Has(m, "lines") \/ Has(m, "links")), 150)
           a15 == Plus(s.supportLinks /\ Has(m, "lines"), 30)
           list == <<a1, a2, a3, a4, a5, a6, a7, a8, a9, a10, a11, a12, a13, a14, a15>>
<1>1. EarlyRankSignal(q, m, s) = Clamp01(Total(list))
  BY DEF EarlyRankSignal
<1>2. a1 \in Int
  BY QueryOverlapType DEF MemoryOK
<1>3. a2 \in Int /\ a3 \in Int /\ a5 \in Int /\ a6 \in Int
  BY IfType
<1>4. a4 \in Int
  BY DEF Plus
<1>5. a7 \in Int /\ a9 \in Int
  BY DEF Plus
<1>6. a8 \in Int /\ a10 \in Int /\ a11 \in Int /\ a12 \in Int /\ a13 \in Int /\ a14 \in Int /\ a15 \in Int
  BY IfType
<1> HIDE DEF a1, a2, a3, a4, a5, a6, a7, a8, a9, a10, a11, a12, a13, a14, a15
<1>7. list \in Seq(Int)
  BY <1>2, <1>3, <1>4, <1>5, <1>6
<1> HIDE DEF list
<1> QED BY <1>1, <1>7, TotalType, Clamp01Type

ServerOK(s) ==
    /\ WeightsOK(s)
    /\ s.rerankWindow \in Int /\ s.rerankBlend \in Int
    /\ s.earlyWindow \in Int /\ s.earlyWindowMax \in Int
    /\ s.multiplier \in Int /\ s.windowMin \in Int /\ s.windowMax \in Int /\ s.windowWide \in Int
    /\ s.multiHopBoost \in Int /\ s.temporalBoost \in Int /\ s.filterBoost \in Int

LEMMA RerankKeeps ==
    ASSUME NEW S \in SUBSET Int, NEW M, \A m \in M : MemoryOK(m), NEW items \in Seq(Scored(S, M)),
           NEW q, IsSeq(q.words), NEW topK \in Nat \ {0}, NEW s, ServerOK(s),
           \A n \in 1..Len(items) : IdfOK(n)
    PROVE  /\ RerankScoredCandidates(items, q, topK, s) \in Seq(Scored(S, M))
           /\ SameIds(RerankScoredCandidates(items, q, topK, s), items)
<1> DEFINE window == Min({Max({s.rerankWindow, topK}), Len(items)})
           docs == Made([i \in 1..window |-> Document(items[i].memory)])
           blended(item) == Times(item.score, One - s.rerankBlend)
                            + Times(PairwiseRerankScore(q.words, item.memory, docs), s.rerankBlend)
           v == [i \in 1..window |-> blended(items[i])]
           head == SortById([i \in 1..window |-> [items[i] EXCEPT !.score = Clamp01(v[i])]])
<1>1. Len(items) \in Nat
  OBVIOUS
<1> SUFFICES ASSUME s.rerank, ~(Len(items) < 2)
             PROVE  /\ RerankScoredCandidates(items, q, topK, s) \in Seq(Scored(S, M))
                    /\ SameIds(RerankScoredCandidates(items, q, topK, s), items)
  BY SameIdsItself DEF RerankScoredCandidates
<1>2. RerankScoredCandidates(items, q, topK, s) = Rescored(items, window, blended)
  BY DEF RerankScoredCandidates
<1>3. window \in 1..Len(items)
  <2> PICK a, b : a = s.rerankWindow /\ b = Len(items)
    OBVIOUS
  <2>1. a \in Int /\ b \in Int /\ b >= 2
    BY <1>1 DEF ServerOK
  <2>2. PICK c \in Int : c = Max({a, topK}) /\ c >= 1
    <3>1. topK \in Int
      OBVIOUS
    <3>2. Max({a, topK}) = IF a >= topK THEN a ELSE topK
      BY <2>1, <3>1, TwoNumbers
    <3> QED BY <2>1, <3>2
  <2>3. Min({c, b}) = IF c <= b THEN c ELSE b
    BY <2>1, TwoNumbers
  <2> QED BY <2>1, <2>2, <2>3
<1> HIDE DEF window
<1>4. \A i \in 1..window : i \in 1..Len(items) /\ items[i].memory \in M /\ items[i].score \in Int
  BY <1>1, <1>3, ScoredAre
<1>5. IsSeq(docs) /\ Len(docs) = window
  <2> DEFINE doc(i) == Document(items[i].memory)
             all == {doc(i) : i \in 1..window}
             list == [i \in 1..window |-> doc(i)]
  <2> HIDE DEF doc
  <2>1. list \in Seq(all) /\ Len(list) = window
    <3>1. window \in Nat
      BY <1>1, <1>3
    <3>2. list \in [1..window -> all]
      OBVIOUS
    <3> HIDE DEF list, all
    <3> QED BY <3>1, <3>2, FunctionSeq
  <2>2. docs = Made(list)
    BY DEF doc
  <2> HIDE DEF all, list
  <2>3. docs = list
    BY <2>1, <2>2, MadeSame
  <2>4. IsSeq(list)
    BY <2>1, Zenon DEF IsSeq
  <2> QED BY <2>1, <2>3, <2>4
<1> HIDE DEF docs
<1>6. \A i \in 1..window : blended(items[i]) \in Int
  <2> TAKE i \in 1..window
  <2> PICK x, y, z, m : x = items[i].score /\ m = items[i].memory /\ z = s.rerankBlend
                        /\ y = PairwiseRerankScore(q.words, m, docs)
    OBVIOUS
  <2>1. x \in Int /\ m \in M /\ z \in Int
    BY <1>4 DEF ServerOK
  <2>2. y \in 0..One
    BY <1>3, <1>5, <2>1, PairwiseRerankScoreType
  <2>3. y \in Int /\ One - z \in Int
    BY <2>1, <2>2 DEF One
  <2>4. Times(x, One - z) \in Int /\ Times(y, z) \in Int
    BY <2>1, <2>3, TimesInt
  <2> QED BY <2>4
<1>7. Rescored(items, window, blended) = head \o SubSeq(items, window + 1, Len(items))
  <2>1. \A i \in 1..window : v[i] = blended(items[i])
    OBVIOUS
  <2> HIDE DEF blended, v
  <2>2. [i \in 1..window |-> [items[i] EXCEPT !.score = Clamp01(v[i])]]
          = [i \in 1..window |-> [items[i] EXCEPT !.score = Clamp01(blended(items[i]))]]
    BY <2>1
  <2> QED BY <2>2 DEF Rescored
<1> HIDE DEF blended
<1>8. v \in [1..window -> Int] /\ window \in 0..Len(items)
  BY <1>3, <1>6
<1> HIDE DEF v
<1>9. head = SortById([i \in 1..window |-> [items[i] EXCEPT !.score = Clamp01(v[i])]])
  OBVIOUS
<1> HIDE DEF head
<1>10. PICK new : new = head \o SubSeq(items, window + 1, Len(items))
  OBVIOUS
<1>11. new \in Seq(Scored(S, M)) /\ SameIds(new, items)
  BY <1>8, <1>9, <1>10, RescoredSameIds
<1> QED BY <1>2, <1>7, <1>10, <1>11

LEMMA EarlyRankWindowType ==
    ASSUME NEW n \in Nat, n >= 2, NEW q, NEW topK \in Nat, NEW s, ServerOK(s)
    PROVE  EarlyRankWindow(n, q, topK, s) \in 2..n
<1> DEFINE low == q.plan.confidence < s.confidence
           x1 == Max({s.earlyWindow, 4 * topK})
           x2 == Plus(q.temporal \/ q.multiHop, topK)
           x3 == Plus(low, Max({8, 2 * topK}))
           wanted == x1 + x2 + x3
           least == Min({wanted, s.earlyWindowMax, n})
<1>1. EarlyRankWindow(n, q, topK, s) = Max({2, least})
  BY DEF EarlyRankWindow
<1>2. PICK a, b \in Int : a = s.earlyWindow /\ b = s.earlyWindowMax
  BY DEF ServerOK
<1>3. PICK c, d \in Int : c = 4 * topK /\ d = 2 * topK
  OBVIOUS
<1>4. x1 \in Int
  <2>1. Max({a, c}) = IF a >= c THEN a ELSE c
    BY <1>2, <1>3, TwoNumbers
  <2> QED BY <1>2, <1>3, <2>1
<1>5. x2 \in Int
  BY IfType
<1>6. x3 \in Int
  <2>1. Max({8, d}) \in Int
    <3>1. PICK e \in Int : e = 8
      OBVIOUS
    <3>2. Max({e, d}) = IF e >= d THEN e ELSE d
      BY <1>3, <3>1, TwoNumbers
    <3> QED BY <1>3, <3>1, <3>2
  <2>2. Max({8, 2 * topK}) \in Int
    BY <1>3, <2>1
  <2> QED BY <2>2, IfType
<1> HIDE DEF x1, x2, x3
<1>7. wanted \in Int
  BY <1>4, <1>5, <1>6
<1> HIDE DEF wanted
<1>8. Min({wanted, b, n}) \in {wanted, b, n} /\ Min({wanted, b, n}) <= n
  <2>1. /\ Min({wanted, b, n}) \in {wanted, b, n}
        /\ \A y \in {wanted, b, n} : Min({wanted, b, n}) <= y
    <3>1. wanted \in Int /\ b \in Int /\ n \in Int
      BY <1>2, <1>7
    <3> QED BY ONLY <3>1, ThreeNumbers
  <2> QED BY <2>1
<1>9. PICK m \in Int : m = least /\ m <= n
  BY <1>2, <1>7, <1>8
<1>10. Max({2, m}) = IF 2 >= m THEN 2 ELSE m
  BY <1>9, TwoNumbers
<1> QED BY <1>1, <1>9, <1>10

LEMMA EarlyRankKeeps ==
    ASSUME NEW S \in SUBSET Int, NEW M, \A m \in M : MemoryOK(m), NEW items \in Seq(Scored(S, M)),
           NEW q, IsSeq(q.words), NEW topK \in Nat, NEW s, ServerOK(s)
    PROVE  /\ EarlyRankRerank(items, q, topK, s) \in Seq(Scored(S, M))
           /\ SameIds(EarlyRankRerank(items, q, topK, s), items)
<1> DEFINE window == EarlyRankWindow(Len(items), q, topK, s)
           blended(item) == Times(item.score, 720) + Times(EarlyRankSignal(q, item.memory, s), 280)
           v == [i \in 1..window |-> blended(items[i])]
           head == SortById([i \in 1..window |-> [items[i] EXCEPT !.score = Clamp01(v[i])]])
<1>1. Len(items) \in Nat
  OBVIOUS
<1> SUFFICES ASSUME ~(~s.earlyRerank \/ q.multiHop \/ Len(items) <= 1)
             PROVE  /\ EarlyRankRerank(items, q, topK, s) \in Seq(Scored(S, M))
                    /\ SameIds(EarlyRankRerank(items, q, topK, s), items)
  BY SameIdsItself DEF EarlyRankRerank
<1>2. EarlyRankRerank(items, q, topK, s) = Rescored(items, window, blended)
  BY DEF EarlyRankRerank
<1>3. window \in 2..Len(items)
  BY <1>1, EarlyRankWindowType
<1> HIDE DEF window
<1>4. \A i \in 1..window : i \in 1..Len(items) /\ items[i].memory \in M /\ items[i].score \in Int
  BY <1>1, <1>3, ScoredAre
<1>5. \A i \in 1..window : blended(items[i]) \in Int
  <2> TAKE i \in 1..window
  <2> PICK x, y, m : x = items[i].score /\ m = items[i].memory /\ y = EarlyRankSignal(q, m, s)
    OBVIOUS
  <2>1. x \in Int /\ m \in M
    BY <1>4
  <2>2. y \in 0..One
    BY <2>1, EarlyRankSignalType
  <2>3. y \in Int
    BY <2>2 DEF One
  <2>4. Times(x, 720) \in Int
    BY ONLY <2>1 DEF Times, One
  <2>5. Times(y, 280) \in Int
    BY ONLY <2>3 DEF Times, One
  <2> QED BY <2>4, <2>5
<1>6. Rescored(items, window, blended) = head \o SubSeq(items, window + 1, Len(items))
  <2>1. \A i \in 1..window : v[i] = blended(items[i])
    OBVIOUS
  <2> HIDE DEF blended, v
  <2>2. [i \in 1..window |-> [items[i] EXCEPT !.score = Clamp01(v[i])]]
          = [i \in 1..window |-> [items[i] EXCEPT !.score = Clamp01(blended(items[i]))]]
    BY <2>1
  <2> QED BY <2>2 DEF Rescored
<1> HIDE DEF blended
<1>7. v \in [1..window -> Int] /\ window \in 0..Len(items)
  BY <1>3, <1>5
<1> HIDE DEF v
<1>8. head = SortById([i \in 1..window |-> [items[i] EXCEPT !.score = Clamp01(v[i])]])
  OBVIOUS
<1> HIDE DEF head
<1> QED BY <1>2, <1>6, <1>7, <1>8, RescoredSameIds

(* Both re-rankings keep the items of a list. *)
LEMMA RerankedKeeps ==
    ASSUME NEW S \in SUBSET Int, NEW M, \A m \in M : MemoryOK(m), NEW items \in Seq(Scored(S, M)),
           NEW q, IsSeq(q.words), NEW topK \in Nat \ {0}, NEW s, ServerOK(s),
           \A n \in 1..Len(items) : IdfOK(n)
    PROVE  /\ PairwiseReranked(items, q, topK, s) \in Seq(Scored(S, M))
           /\ SameIds(PairwiseReranked(items, q, topK, s), items)
           /\ Reranked(items, q, topK, s) \in Seq(Scored(S, M))
           /\ SameIds(Reranked(items, q, topK, s), items)
<1> PICK pairs : pairs = PairwiseReranked(items, q, topK, s)
  OBVIOUS
<1>1. pairs \in Seq(Scored(S, M)) /\ SameIds(pairs, items)
  BY SameIdsItself, RerankKeeps DEF PairwiseReranked
<1>2. /\ EarlyRankRerank(pairs, q, topK, s) \in Seq(Scored(S, M))
      /\ SameIds(EarlyRankRerank(pairs, q, topK, s), pairs)
  BY <1>1, EarlyRankKeeps
<1> QED BY <1>1, <1>2, SameIdsTransitive DEF Reranked

LEMMA CandidateWindowType ==
    ASSUME NEW topK \in Nat, NEW q, NEW filtered, NEW s, ServerOK(s)
    PROVE  CandidateWindow(topK, q, filtered, s) \in Int
<1> DEFINE low == q.plan.confidence < s.confidence
           x1 == Max({topK * s.multiplier, s.windowMin})
           x2 == IF q.multiHop THEN s.multiHopBoost ELSE Plus(q.temporal, s.temporalBoost)
           x3 == Plus(filtered, s.filterBoost)
           x4 == Plus(low, 2 * topK)
           n == x1 + x2 + x3 + x4
           most == IF q.multiHop \/ filtered THEN Max({s.windowMax, s.windowWide}) ELSE s.windowMax
<1>1. CandidateWindow(topK, q, filtered, s) = Min({n, most})
  BY DEF CandidateWindow
<1>2. PICK a, b, c, d \in Int : a = s.multiplier /\ b = s.windowMin /\ c = s.windowMax /\ d = s.windowWide
  BY DEF ServerOK
<1>3. PICK e, f, g \in Int : e = s.multiHopBoost /\ f = s.temporalBoost /\ g = s.filterBoost
  BY DEF ServerOK
<1>4. x1 \in Int
  <2>1. PICK p \in Int : p = topK * a
    BY <1>2
  <2>2. Max({p, b}) \in Int
    BY <1>2, <2>1, TwoNumbers
  <2> QED BY <1>2, <2>1, <2>2
<1>5. x2 \in Int /\ x3 \in Int
  BY <1>3, IfType
<1>6. x4 \in Int
  BY DEF Plus
<1>7. most \in Int
  <2>1. Max({c, d}) \in Int
    BY <1>2, TwoNumbers
  <2> QED BY <1>2, <2>1
<1> HIDE DEF x1, x2, x3, x4, most
<1>8. n \in Int
  BY <1>4, <1>5, <1>6
<1> HIDE DEF n
<1>9. Min({n, most}) \in Int
  BY <1>7, <1>8, TwoNumbers
<1> QED BY <1>1, <1>9

-----------------------------------------------------------------------------
(* Sequences.                                                              *)

LEMMA MinOfTwo ==
    ASSUME NEW a \in Nat, NEW b \in Nat
    PROVE  Min({a, b}) = IF a <= b THEN a ELSE b
<1> DEFINE m == IF a <= b THEN a ELSE b
<1>1. m \in {a, b} /\ \A y \in {a, b} : m =< y
  OBVIOUS
<1>2. \A x \in {a, b} : (\A y \in {a, b} : x =< y) => x = m
  OBVIOUS
<1> QED BY <1>1, <1>2 DEF Min

LEMMA MinOfSet ==
    ASSUME NEW S \in SUBSET Nat, NEW p \in S, \A y \in S : y = p
    PROVE  Min(S) = p
<1>0. S = {p}
  OBVIOUS
<1>1. p \in Nat /\ p =< p
  OBVIOUS
<1>2. \A x \in {p} : (\A y \in {p} : x =< y) => x = p
  OBVIOUS
<1>3. \E x \in {p} : \A y \in {p} : x =< y
  BY <1>1
<1> QED BY <1>0, <1>2, <1>3 DEF Min

LEMMA RemovePresent ==
    ASSUME NEW T, NEW s \in Seq(T), NEW p \in 1..Len(s),
           \A i, j \in 1..Len(s) : s[i] = s[j] => i = j
    PROVE  RemoveFirst(s, s[p]) = SubSeq(s, 1, p - 1) \o SubSeq(s, p + 1, Len(s))
<1> DEFINE I == {i \in 1..Len(s) : s[i] = s[p]}
<1>1. I \in SUBSET Nat /\ p \in I /\ \A y \in I : y = p
  OBVIOUS
<1>2. Min(I) = p
  BY <1>1, MinOfSet
<1> QED BY <1>1, <1>2 DEF RemoveFirst, SelectInSeq, RemoveAt

(* The history after a use of key. *)
After(recent0, key) == <<key>> \o RemoveFirst(recent0, key)

LEMMA AfterPresent ==
    ASSUME NEW T, NEW s \in Seq(T), NEW p \in 1..Len(s), Distinct(s)
    PROVE  /\ After(s, s[p]) \in Seq(T)
           /\ Len(After(s, s[p])) = Len(s)
           /\ \A j \in 1..Len(s) :
                 After(s, s[p])[j] = IF j = 1 THEN s[p] ELSE IF j <= p THEN s[j - 1] ELSE s[j]
<1> DEFINE front == SubSeq(s, 1, p - 1)
           back == SubSeq(s, p + 1, Len(s))
<1>1. After(s, s[p]) = <<s[p]>> \o (front \o back)
  BY RemovePresent DEF After, Distinct
<1>2. front \in Seq(T) /\ Len(front) = p - 1 /\ \A i \in 1..(p - 1) : front[i] = s[i]
  OBVIOUS
<1>3. back \in Seq(T) /\ Len(back) = Len(s) - p /\ \A i \in 1..(Len(s) - p) : back[i] = s[p + i]
  OBVIOUS
<1> HIDE DEF front, back
<1> DEFINE rest == front \o back
<1>4. /\ rest \in Seq(T) /\ Len(rest) = Len(s) - 1
      /\ \A i \in 1..(Len(s) - 1) : rest[i] = IF i < p THEN s[i] ELSE s[i + 1]
  <2>1. rest \in Seq(T) /\ Len(rest) = Len(s) - 1
    BY <1>2, <1>3
  <2>2. ASSUME NEW i \in 1..(Len(s) - 1), i < p
        PROVE  rest[i] = s[i]
    BY <1>2, <1>3, <2>2
  <2>3. ASSUME NEW i \in 1..(Len(s) - 1), ~(i < p)
        PROVE  rest[i] = s[i + 1]
    <3>1. rest[i] = back[i - (p - 1)] /\ i - (p - 1) \in 1..(Len(s) - p)
      BY <1>2, <1>3, <2>3
    <3> QED BY <1>3, <2>3, <3>1
  <2> QED BY <2>1, <2>2, <2>3
<1>5. After(s, s[p]) = <<s[p]>> \o rest
  BY <1>1
<1> HIDE DEF rest
<1> QED BY <1>4, <1>5

LEMMA AfterAbsent ==
    ASSUME NEW T, NEW s \in Seq(T), NEW key \in T, \A i \in 1..Len(s) : s[i] # key
    PROVE  /\ After(s, key) \in Seq(T)
           /\ Len(After(s, key)) = Len(s) + 1
           /\ \A j \in 1..(Len(s) + 1) : After(s, key)[j] = IF j = 1 THEN key ELSE s[j - 1]
<1>1. After(s, key) = <<key>> \o s
  BY DEF After, RemoveFirst
<1> QED BY <1>1

(* A use keeps the history a list without repetitions. *)
LEMMA AfterDistinct ==
    ASSUME NEW s, NEW key, IsSeq(s), Distinct(s)
    PROVE  IsSeq(After(s, key)) /\ Distinct(After(s, key))
<1> PICK T0 : s \in Seq(T0)
  BY DEF IsSeq
<1> DEFINE T == T0 \cup {key}
<1> s \in Seq(T)
  OBVIOUS
<1>1. CASE \E p \in 1..Len(s) : s[p] = key
  <2> PICK p \in 1..Len(s) : s[p] = key
    BY <1>1
  <2> HIDE DEF T
  <2> DEFINE new == After(s, key)
  <2>1. /\ new \in Seq(T) /\ Len(new) = Len(s)
        /\ \A j \in 1..Len(s) : new[j] = IF j = 1 THEN s[p] ELSE IF j <= p THEN s[j - 1] ELSE s[j]
    BY AfterPresent
  <2> HIDE DEF new
  <2>2. Distinct(new)
    <3> SUFFICES ASSUME NEW i \in 1..Len(s), NEW j \in 1..Len(s), new[i] = new[j]
                 PROVE  i = j
      BY <2>1 DEF Distinct
    <3>1. \A m, n \in 1..Len(s) : s[m] = s[n] => m = n
      BY DEF Distinct
    <3> DEFINE place(m) == IF m = 1 THEN p ELSE IF m <= p THEN m - 1 ELSE m
    <3>2. place(i) \in 1..Len(s) /\ place(j) \in 1..Len(s)
      OBVIOUS
    <3>3. new[i] = s[place(i)] /\ new[j] = s[place(j)]
      BY <2>1
    <3>4. place(i) = place(j)
      BY <3>1, <3>2, <3>3
    <3> QED BY <3>4
  <2> QED BY <2>1, <2>2 DEF IsSeq, new
<1>2. CASE \A i \in 1..Len(s) : s[i] # key
  <2> key \in T
    OBVIOUS
  <2> HIDE DEF T
  <2> DEFINE new == After(s, key)
  <2>1. /\ new \in Seq(T) /\ Len(new) = Len(s) + 1
        /\ \A j \in 1..(Len(s) + 1) : new[j] = IF j = 1 THEN key ELSE s[j - 1]
    BY <1>2, AfterAbsent
  <2> HIDE DEF new
  <2>2. Distinct(new)
    <3> SUFFICES ASSUME NEW i \in 1..(Len(s) + 1), NEW j \in 1..(Len(s) + 1), new[i] = new[j]
                 PROVE  i = j
      BY <2>1 DEF Distinct
    <3>1. \A m, n \in 1..Len(s) : s[m] = s[n] => m = n
      BY DEF Distinct
    <3>2. \A m \in 1..(Len(s) + 1) : new[m] = key => m = 1
      <4> SUFFICES ASSUME NEW m \in 1..(Len(s) + 1), new[m] = key, m # 1
                   PROVE  FALSE
        OBVIOUS
      <4>1. m - 1 \in 1..Len(s) /\ new[m] = s[m - 1]
        BY <2>1
      <4> QED BY <1>2, <4>1
    <3>3. CASE i = 1 \/ j = 1
      BY <2>1, <3>2, <3>3
    <3>4. CASE i # 1 /\ j # 1
      <4>1. /\ i - 1 \in 1..Len(s) /\ new[i] = s[i - 1]
            /\ j - 1 \in 1..Len(s) /\ new[j] = s[j - 1]
        BY <2>1, <3>4
      <4>2. i - 1 = j - 1
        BY <3>1, <4>1
      <4> QED BY <4>2
    <3> QED BY <3>3, <3>4
  <2> QED BY <2>1, <2>2 DEF IsSeq, new
<1> QED BY <1>1, <1>2

-----------------------------------------------------------------------------
(* The cache and the history of its uses.                                  *)

(* The list of the cache is the beginning of the history. *)
Follows(list, r) ==
    /\ Len(list) <= Len(r)
    /\ \A i \in 1..Len(list) : r[i] = list[i].key

CacheOK(store, r) ==
    /\ store = [list |-> store.list, keys |-> store.keys]
    /\ IsSeq(store.list)
    /\ CacheAgrees(store)
    /\ \A i \in 1..Len(store.list) : KeyOf[store.list[i].value] = store.list[i].key
    /\ IsSeq(r) /\ Distinct(r)
    /\ Follows(store.list, r)

LEMMA PositionOf ==
    ASSUME NEW store, NEW r, CacheOK(store, r), NEW key \in store.keys
    PROVE  /\ Position(store.list, key) \in 1..Len(store.list)
           /\ store.list[Position(store.list, key)].key = key
BY DEF CacheOK, CacheAgrees, Position

(* A cached embedding belongs to its key. *)
LEMMA GotBelongs ==
    ASSUME NEW store, NEW r, CacheOK(store, r), NEW key \in store.keys
    PROVE  KeyOf[Got(store, key)] = key
BY PositionOf DEF CacheOK, Got

(* Moving the entry of a key to the front is a use of that key. *)
LEMMA MovedOK ==
    ASSUME NEW store, NEW r, CacheOK(store, r), NEW key \in store.keys, NEW entry,
           entry.key = key, KeyOf[entry.value] = key
    PROVE  CacheOK([store EXCEPT !.list = MoveToFront(@, Position(store.list, key), entry)], After(r, key))
<1> DEFINE list == store.list
           p == Position(list, key)
           moved == MoveToFront(list, p, entry)
           new == After(r, key)
<1>1. PICK T : list \in Seq(T)
  BY DEF CacheOK, IsSeq
<1>2. p \in 1..Len(list) /\ list[p].key = key
  BY PositionOf
<1>3. Len(list) \in Nat
  BY <1>1
<1>4. PICK U : r \in Seq(U)
  BY DEF CacheOK, IsSeq
<1>5. p \in 1..Len(r) /\ r[p] = key /\ Len(list) <= Len(r) /\ Len(r) \in Nat
      /\ \A i \in 1..Len(list) : r[i] = list[i].key
  BY <1>2, <1>3, <1>4 DEF CacheOK, Follows
<1>6. /\ Len(new) = Len(r)
      /\ \A j \in 1..Len(r) : new[j] = IF j = 1 THEN r[p] ELSE IF j <= p THEN r[j - 1] ELSE r[j]
  BY <1>4, <1>5, AfterPresent DEF CacheOK
<1>7. moved \in Seq(T \cup {entry}) /\ Len(moved) = Len(list)
  <2> SUFFICES \A j \in 1..Len(list) :
                  (IF j = 1 THEN entry ELSE IF j <= p THEN list[j - 1] ELSE list[j]) \in T \cup {entry}
    BY <1>3 DEF MoveToFront
  <2> QED BY <1>1, <1>2, <1>3
<1>8. \A j \in 1..Len(list) : moved[j] = IF j = 1 THEN entry ELSE IF j <= p THEN list[j - 1] ELSE list[j]
  BY DEF MoveToFront
<1>9. IsSeq(new) /\ Distinct(new)
  BY AfterDistinct DEF CacheOK
<1>10. [store EXCEPT !.list = MoveToFront(@, Position(store.list, key), entry)]
          = [list |-> moved, keys |-> store.keys]
  BY DEF CacheOK
<1>11. Follows(moved, new)
  <2>1. \A j \in 1..Len(list) : new[j] = moved[j].key
    <3> HIDE DEF p, moved, new, list
    <3> TAKE j \in 1..Len(list)
    <3>1. CASE j = 1
      BY <1>2, <1>3, <1>5, <1>6, <1>8, <3>1
    <3>2. CASE j # 1 /\ j <= p
      <4>1. j - 1 \in 1..Len(list) /\ moved[j] = list[j - 1] /\ new[j] = r[j - 1]
        BY <1>2, <1>3, <1>5, <1>6, <1>8, <3>2
      <4> QED BY <1>5, <4>1
    <3>3. CASE j # 1 /\ ~(j <= p)
      <4>1. moved[j] = list[j] /\ new[j] = r[j]
        BY <1>2, <1>3, <1>5, <1>6, <1>8, <3>3
      <4> QED BY <1>5, <4>1
    <3> QED BY <3>1, <3>2, <3>3
  <2> QED BY <1>5, <1>6, <1>7, <2>1 DEF Follows
<1>12. \A j \in 1..Len(list) : KeyOf[moved[j].value] = moved[j].key
  <2>1. \A i \in 1..Len(list) : KeyOf[list[i].value] = list[i].key
    BY DEF CacheOK
  <2> HIDE DEF p, moved, new, list
  <2> QED BY <1>2, <1>3, <1>8, <2>1
<1>13. \A i, j \in 1..Len(list) : moved[i].key = moved[j].key => i = j
  BY <1>5, <1>6, <1>7, <1>9, <1>11 DEF Follows, Distinct
<1>14. store.keys = {moved[i].key : i \in 1..Len(list)}
  <2>1. store.keys = {list[i].key : i \in 1..Len(list)}
    BY DEF CacheOK, CacheAgrees
  <2> HIDE DEF p, moved, new, list
  <2>2. ASSUME NEW i \in 1..Len(list)
        PROVE  \E j \in 1..Len(list) : moved[j].key = list[i].key
    <3>1. CASE i = p
      <4>1. 1 \in 1..Len(list) /\ moved[1].key = key
        BY <1>2, <1>3, <1>8
      <4> QED BY <1>2, <3>1, <4>1
    <3>2. CASE i < p
      <4>1. i + 1 \in 1..Len(list) /\ moved[i + 1] = list[i]
        BY <1>2, <1>3, <1>8, <3>2
      <4> QED BY <4>1
    <3>3. CASE i > p
      <4>1. moved[i] = list[i]
        BY <1>2, <1>3, <1>8, <3>3
      <4> QED BY <4>1
    <3> QED BY <1>2, <1>3, <3>1, <3>2, <3>3
  <2>3. ASSUME NEW j \in 1..Len(list)
        PROVE  moved[j].key \in {list[i].key : i \in 1..Len(list)}
    <3>1. CASE j = 1
      BY <1>2, <1>3, <1>8, <3>1
    <3>2. CASE j # 1 /\ j <= p
      <4>1. j - 1 \in 1..Len(list) /\ moved[j] = list[j - 1]
        BY <1>2, <1>3, <1>8, <3>2
      <4> QED BY <4>1
    <3>3. CASE j # 1 /\ ~(j <= p)
      <4>1. moved[j] = list[j]
        BY <1>2, <1>3, <1>8, <3>3
      <4> QED BY <4>1
    <3> QED BY <3>1, <3>2, <3>3
  <2>4. {list[i].key : i \in 1..Len(list)} \subseteq {moved[i].key : i \in 1..Len(list)}
    BY <2>2
  <2>5. {moved[i].key : i \in 1..Len(list)} \subseteq {list[i].key : i \in 1..Len(list)}
    BY <2>3
  <2> QED BY <2>1, <2>4, <2>5
<1>15. IsSeq(moved)
  BY <1>7 DEF IsSeq
<1>16. Len(list) <= Capacity
  BY DEF CacheOK, CacheAgrees
<1> DEFINE after == [list |-> moved, keys |-> store.keys]
<1>17. after.list = moved /\ after.keys = store.keys /\ after = [list |-> after.list, keys |-> after.keys]
  OBVIOUS
<1> HIDE DEF p, moved, new, list, after
<1>18. CacheAgrees(after)
  BY <1>7, <1>13, <1>14, <1>16, <1>17 DEF CacheAgrees
<1>19. CacheOK(after, new)
  BY <1>7, <1>9, <1>11, <1>12, <1>15, <1>17, <1>18 DEF CacheOK
<1> QED BY <1>10, <1>19 DEF after, moved, new, list, p

(* What follows a history without repetitions has no key twice. *)
LEMMA ListOK ==
    ASSUME NEW list, NEW keys, NEW r, IsSeq(list), IsSeq(r), Distinct(r), Follows(list, r),
           Len(list) <= Capacity,
           keys = {list[i].key : i \in 1..Len(list)},
           \A i \in 1..Len(list) : KeyOf[list[i].value] = list[i].key
    PROVE  CacheOK([list |-> list, keys |-> keys], r)
<1> DEFINE store == [list |-> list, keys |-> keys]
<1>1. store.list = list /\ store.keys = keys /\ store = [list |-> store.list, keys |-> store.keys]
  OBVIOUS
<1>2. Len(list) \in Nat /\ Len(r) \in Nat
  BY DEF IsSeq
<1>3. \A i, j \in 1..Len(list) : list[i].key = list[j].key => i = j
  BY <1>2 DEF Follows, Distinct
<1> HIDE DEF store
<1>4. CacheAgrees(store)
  BY <1>1, <1>3 DEF CacheAgrees
<1>5. CacheOK(store, r)
  BY <1>1, <1>4 DEF CacheOK
<1> QED BY <1>5 DEF store

(* A new entry in front, and the last one evicted if there are too many. *)
LEMMA PushedOK ==
    ASSUME NEW store, NEW r, CacheOK(store, r), NEW key, key \notin store.keys, NEW entry,
           entry.key = key, KeyOf[entry.value] = key, Capacity # 0
    PROVE  CacheOK(Evict([list |-> PushFront(store.list, entry), keys |-> store.keys \cup {key}]),
                   After(r, key))
<1> DEFINE list == store.list
           pushed == PushFront(list, entry)
           kept == RemoveBack(pushed)
           all == store.keys \cup {key}
           new == After(r, key)
<1>1. PICK T : list \in Seq(T)
  BY DEF CacheOK, IsSeq
<1>2. PICK U0 : r \in Seq(U0)
  BY DEF CacheOK, IsSeq
<1>3. PICK U : r \in Seq(U) /\ key \in U
  <2> r \in Seq(U0 \cup {key})
    BY <1>2
  <2> QED OBVIOUS
<1>4. /\ Len(list) \in Nat /\ Len(r) \in Nat /\ Len(list) <= Len(r)
      /\ \A i \in 1..Len(list) : r[i] = list[i].key /\ r[i] # key
  BY <1>1, <1>2 DEF CacheOK, CacheAgrees, Follows
<1>5. pushed \in Seq(T \cup {entry}) /\ Len(pushed) = Len(list) + 1
  <2> SUFFICES \A j \in 1..(Len(list) + 1) : (IF j = 1 THEN entry ELSE list[j - 1]) \in T \cup {entry}
    BY <1>4 DEF PushFront
  <2> QED BY <1>1, <1>4
<1>6. \A j \in 1..(Len(list) + 1) : pushed[j] = IF j = 1 THEN entry ELSE list[j - 1]
  BY DEF PushFront
<1>7. IsSeq(new) /\ Distinct(new)
  BY AfterDistinct DEF CacheOK
<1>8. Len(new) >= Len(list) + 1 /\ \A j \in 1..(Len(list) + 1) : new[j] = pushed[j].key
  <2> HIDE DEF list, pushed, new
  <2>1. ASSUME Len(new) \in Nat, Len(new) >= Len(list) + 1,
               \A j \in 1..(Len(list) + 1) : new[j] = IF j = 1 THEN key ELSE r[j - 1]
        PROVE  \A j \in 1..(Len(list) + 1) : new[j] = pushed[j].key
    <3> TAKE j \in 1..(Len(list) + 1)
    <3>1. CASE j = 1
      BY <1>4, <1>6, <2>1, <3>1
    <3>2. CASE j # 1
      <4>1. j - 1 \in 1..Len(list) /\ new[j] = r[j - 1] /\ pushed[j] = list[j - 1]
        BY <1>4, <1>6, <2>1, <3>2
      <4> QED BY <1>4, <4>1
    <3> QED BY <3>1, <3>2
  <2>2. CASE \E p \in 1..Len(r) : r[p] = key
    <3> PICK p \in 1..Len(r) : r[p] = key
      BY <2>2
    <3>1. p >= Len(list) + 1
      BY <1>4
    <3>2. /\ Len(new) = Len(r)
          /\ \A j \in 1..Len(r) : new[j] = IF j = 1 THEN r[p] ELSE IF j <= p THEN r[j - 1] ELSE r[j]
      BY <1>3, AfterPresent DEF CacheOK, new
    <3>3. \A j \in 1..(Len(list) + 1) : new[j] = IF j = 1 THEN key ELSE r[j - 1]
      BY <1>4, <3>1, <3>2
    <3> QED BY <1>4, <2>1, <3>1, <3>2, <3>3
  <2>3. CASE \A p \in 1..Len(r) : r[p] # key
    <3>1. /\ Len(new) = Len(r) + 1
          /\ \A j \in 1..(Len(r) + 1) : new[j] = IF j = 1 THEN key ELSE r[j - 1]
      BY <1>3, <2>3, AfterAbsent DEF new
    <3>2. \A j \in 1..(Len(list) + 1) : new[j] = IF j = 1 THEN key ELSE r[j - 1]
      BY <1>4, <3>1
    <3> QED BY <1>4, <2>1, <3>1, <3>2
  <2> QED BY <2>2, <2>3
<1>9. \A j \in 1..(Len(list) + 1) : KeyOf[pushed[j].value] = pushed[j].key
  <2>1. \A i \in 1..Len(list) : KeyOf[list[i].value] = list[i].key
    BY DEF CacheOK
  <2> HIDE DEF list, pushed
  <2> TAKE j \in 1..(Len(list) + 1)
  <2>2. CASE j = 1
    <3>1. pushed[j] = entry
      BY <1>6, <2>2
    <3> QED BY <3>1
  <2>3. CASE j # 1
    <3>1. j - 1 \in 1..Len(list) /\ pushed[j] = list[j - 1]
      BY <1>4, <1>6, <2>3
    <3> QED BY <2>1, <3>1
  <2> QED BY <2>2, <2>3
<1>10. all = {pushed[j].key : j \in 1..(Len(list) + 1)}
  <2>1. store.keys = {list[i].key : i \in 1..Len(list)}
    BY DEF CacheOK, CacheAgrees
  <2> HIDE DEF list, pushed
  <2>2. ASSUME NEW i \in 1..Len(list)
        PROVE  list[i].key \in {pushed[j].key : j \in 1..(Len(list) + 1)}
    <3>1. i + 1 \in 1..(Len(list) + 1) /\ pushed[i + 1] = list[i]
      BY <1>4, <1>6
    <3> QED BY <3>1
  <2>3. key \in {pushed[j].key : j \in 1..(Len(list) + 1)}
    <3>1. 1 \in 1..(Len(list) + 1) /\ pushed[1] = entry
      BY <1>4, <1>6
    <3> QED BY <3>1
  <2>4. ASSUME NEW j \in 1..(Len(list) + 1)
        PROVE  pushed[j].key \in all
    <3>1. CASE j = 1
      BY <1>6, <3>1
    <3>2. CASE j # 1
      <4>1. j - 1 \in 1..Len(list) /\ pushed[j] = list[j - 1]
        BY <1>4, <1>6, <3>2
      <4> QED BY <2>1, <4>1
    <3> QED BY <3>1, <3>2
  <2>5. all \subseteq {pushed[j].key : j \in 1..(Len(list) + 1)}
    BY <2>1, <2>2, <2>3
  <2>6. {pushed[j].key : j \in 1..(Len(list) + 1)} \subseteq all
    BY <2>4
  <2> QED BY <2>5, <2>6
<1>11. Len(new) \in Nat
  BY <1>7 DEF IsSeq
<1>12. CASE Len(pushed) <= Capacity
  <2>1. Follows(pushed, new)
    BY <1>4, <1>5, <1>8, <1>11 DEF Follows
  <2>2. Evict([list |-> pushed, keys |-> all]) = [list |-> pushed, keys |-> all]
    BY <1>12 DEF Evict
  <2>3. IsSeq(pushed)
    BY <1>5 DEF IsSeq
  <2>4. all = {pushed[j].key : j \in 1..Len(pushed)} /\ \A j \in 1..Len(pushed) : KeyOf[pushed[j].value] = pushed[j].key
    BY <1>5, <1>9, <1>10
  <2> HIDE DEF list, pushed, all, new
  <2>5. CacheOK([list |-> pushed, keys |-> all], new)
    BY <1>7, <1>12, <2>1, <2>3, <2>4, ListOK
  <2> QED BY <2>2, <2>5 DEF list, pushed, all, new
<1>13. CASE ~(Len(pushed) <= Capacity)
  <2> DEFINE left == all \ {pushed[Len(pushed)].key}
  <2>1. Evict([list |-> pushed, keys |-> all]) = [list |-> kept, keys |-> left]
    BY <1>13 DEF Evict
  <2>2. kept \in Seq(T \cup {entry}) /\ Len(kept) = Len(list) /\ \A j \in 1..Len(list) : kept[j] = pushed[j]
    <3>1. Len(pushed) - 1 = Len(list)
      BY <1>4, <1>5
    <3>2. kept = [j \in 1..Len(list) |-> pushed[j]]
      BY <3>1 DEF RemoveBack
    <3>3. \A j \in 1..Len(list) : pushed[j] \in T \cup {entry}
      BY <1>4, <1>5
    <3> HIDE DEF list, pushed, kept
    <3> QED BY <1>4, <3>2, <3>3
  <2>3. IsSeq(kept)
    BY <2>2 DEF IsSeq
  <2>4. Len(list) <= Capacity
    BY DEF CacheOK, CacheAgrees
  <2>5. Follows(kept, new)
    BY <1>4, <1>8, <1>11, <2>2 DEF Follows
  <2>6. \A j \in 1..Len(kept) : KeyOf[kept[j].value] = kept[j].key
    BY <1>4, <1>9, <2>2
  <2>7. left = {kept[j].key : j \in 1..Len(kept)}
    <3> HIDE DEF list, pushed, kept, new
    <3>1. \A i, j \in 1..(Len(list) + 1) : pushed[i].key = pushed[j].key => i = j
      BY <1>4, <1>7, <1>8, <1>11 DEF Distinct
    <3>2. ASSUME NEW j \in 1..Len(list)
          PROVE  kept[j].key \in left
      <4>1. j \in 1..(Len(list) + 1) /\ Len(list) + 1 \in 1..(Len(list) + 1) /\ j # Len(list) + 1
        BY <1>4
      <4>2. pushed[j].key # pushed[Len(list) + 1].key
        BY <3>1, <4>1
      <4>3. pushed[j].key \in all
        BY <1>10, <4>1
      <4> QED BY <1>5, <2>2, <4>2, <4>3
    <3>3. ASSUME NEW x \in left
          PROVE  x \in {kept[j].key : j \in 1..Len(list)}
      <4>1. PICK j \in 1..(Len(list) + 1) : x = pushed[j].key
        BY <1>10
      <4>2. j # Len(list) + 1
        BY <1>5, <4>1
      <4>3. j \in 1..Len(list)
        BY <1>4, <4>2
      <4> QED BY <2>2, <4>1, <4>3
    <3>4. {kept[j].key : j \in 1..Len(list)} \subseteq left
      BY <3>2
    <3>5. left \subseteq {kept[j].key : j \in 1..Len(list)}
      BY <3>3
    <3> QED BY <2>2, <3>4, <3>5
  <2> HIDE DEF list, pushed, all, new, kept, left
  <2>8. CacheOK([list |-> kept, keys |-> left], new)
    BY <1>7, <2>2, <2>3, <2>4, <2>5, <2>6, <2>7, ListOK
  <2> QED BY <2>1, <2>8 DEF list, pushed, all, new
<1> QED BY <1>12, <1>13

LEMMA GetOK ==
    ASSUME NEW store, NEW r, CacheOK(store, r), NEW key
    PROVE  IF Hit(store, key) THEN CacheOK(Get(store, key), After(r, key)) ELSE Get(store, key) = store
<1>1. CASE Hit(store, key)
  <2> DEFINE entry == store.list[Position(store.list, key)]
  <2>1. key \in store.keys
    BY <1>1 DEF Hit
  <2>2. entry.key = key /\ KeyOf[entry.value] = key
    BY <2>1, PositionOf DEF CacheOK
  <2>3. Get(store, key) = [store EXCEPT !.list = MoveToFront(@, Position(store.list, key), entry)]
    BY <1>1 DEF Get
  <2> HIDE DEF entry
  <2> QED BY <1>1, <2>1, <2>2, <2>3, MovedOK
<1>2. CASE ~Hit(store, key)
  BY <1>2 DEF Get
<1> QED BY <1>1, <1>2

LEMMA SetOK ==
    ASSUME NEW store, NEW r, CacheOK(store, r), NEW value
    PROVE  IF Capacity = 0 THEN Set(store, KeyOf[value], value) = store
           ELSE CacheOK(Set(store, KeyOf[value], value), After(r, KeyOf[value]))
<1> DEFINE key == KeyOf[value]
           entry == [key |-> key, value |-> value]
<1>1. CASE Capacity = 0
  BY <1>1 DEF Set
<1>2. entry.key = key /\ KeyOf[entry.value] = key
  OBVIOUS
<1>3. CASE Capacity # 0 /\ Hit(store, key)
  <2>1. Set(store, key, value) = [store EXCEPT !.list = MoveToFront(@, Position(store.list, key), entry)]
    BY <1>3 DEF Set
  <2>2. key \in store.keys
    BY <1>3 DEF Hit
  <2> HIDE DEF key, entry
  <2>3. CacheOK(Set(store, key, value), After(r, key))
    BY <1>2, <2>1, <2>2, MovedOK
  <2> QED BY <1>3, <2>3 DEF key
<1>4. CASE Capacity # 0 /\ ~Hit(store, key)
  <2>1. Set(store, key, value)
           = Evict([list |-> PushFront(store.list, entry), keys |-> store.keys \cup {key}])
    BY <1>4 DEF Set
  <2>2. key \notin store.keys
    BY <1>4 DEF Hit
  <2> HIDE DEF key, entry
  <2>3. CacheOK(Set(store, key, value), After(r, key))
    BY <1>2, <1>4, <2>1, <2>2, PushedOK
  <2> QED BY <1>4, <2>3 DEF key
<1> QED BY <1>1, <1>3, <1>4

LEMMA CacheOKKeepsRecent ==
    CacheOK(cache, recent) => CacheKeepsRecent
<1> SUFFICES ASSUME CacheOK(cache, recent)
             PROVE  CacheKeepsRecent
  OBVIOUS
<1> DEFINE n == Len(cache.list)
<1>1. PICK T : recent \in Seq(T)
  BY DEF CacheOK, IsSeq
<1>2. n \in Nat /\ Len(recent) \in Nat /\ n <= Len(recent) /\ \A i \in 1..n : recent[i] = cache.list[i].key
  BY <1>1 DEF CacheOK, IsSeq, Follows
<1>3. Cut(recent, n) = SubSeq(recent, 1, n)
  BY <1>2, MinOfTwo DEF Cut
<1>4. Len(SubSeq(recent, 1, n)) = n /\ \A i \in 1..n : SubSeq(recent, 1, n)[i] = recent[i]
  BY <1>1, <1>2
<1>5. In(Cut(recent, n)) = {recent[i] : i \in 1..n}
  BY <1>3, <1>4 DEF In
<1>6. cache.keys = {recent[i] : i \in 1..n}
  BY <1>2 DEF CacheOK, CacheAgrees
<1> QED BY <1>5, <1>6 DEF CacheOK, CacheKeepsRecent

-----------------------------------------------------------------------------
(* The course of a search; k is its record.                                *)

Rounds == {"initial", "adaptive", "decomposed", "iterative"}

Shape(k) ==
    /\ {"at", "round", "vectors", "misses"} \subseteq DOMAIN k
    /\ k.round \in Rounds

(* Before the first embedding is looked up. *)
Blank(k) ==
    /\ Shape(k)
    /\ k.at \notin {"embed", "remember", "vector"}
    /\ k.vectors = <<>> /\ k.misses = <<>>

Fits(v) == KeyOf[v.vector] = KeyOf[v.text]

(* An embedding that does not fit yet is a miss that waits for the embedder. *)
Course(k) ==
    /\ Shape(k)
    /\ k.at \in {"begin", "facts", "hint", "lexical", "decompose", "bridge"} => Blank(k)
    /\ k.at \in {"lookup", "embed", "remember", "vector"} => IsSeq(k.vectors)
    /\ k.at = "lookup" =>
          /\ IsSeq(k.misses)
          /\ \A i \in 1..Len(k.vectors) :
                Fits(k.vectors[i]) \/ (k.vectors[i].vector = None /\ k.misses # <<>>)
    /\ k.at = "embed" =>
          \A i \in 1..Len(k.vectors) : Fits(k.vectors[i]) \/ k.vectors[i].vector = None
    /\ k.at \in {"embed", "remember", "vector"} => k.vectors # <<>>
    /\ k.at \in {"remember", "vector"} => \A i \in 1..Len(k.vectors) : Fits(k.vectors[i])

SearchOK ==
    /\ DOMAIN search = Searchers
    /\ \A c \in Searchers : search[c].at = "idle" \/ Course(search[c])

LEMMA BlankCourse ==
    ASSUME NEW k, Blank(k)
    PROVE  Course(k)
<1>1. IsSeq(<<>>) /\ Len(<<>>) = 0
  <2>1. <<>> \in Seq({})
    OBVIOUS
  <2> QED BY <2>1 DEF IsSeq
<1> QED BY <1>1 DEF Blank, Course

LEMMA BlankRound ==
    ASSUME NEW k, Blank(k), NEW round \in Rounds, NEW texts
    PROVE  Blank(Round(k, round, texts))
BY DEF Blank, Shape, Round

LEMMA BlankAfterCandidates ==
    ASSUME NEW k, Blank(k)
    PROVE  Blank(AfterCandidates(k))
BY DEF Blank, Shape, AfterCandidates

LEMMA BlankAfterLexical ==
    ASSUME NEW k, Blank(k)
    PROVE  Blank(AfterLexical(k))
<1>1. Blank([k EXCEPT !.at = "bridge"])
  BY DEF Blank, Shape
<1> QED BY <1>1, BlankAfterCandidates DEF AfterLexical

LEMMA BlankAfterDecomposed ==
    ASSUME NEW k, Blank(k)
    PROVE  Blank(AfterDecomposed(k))
BY BlankAfterLexical, BlankRound DEF AfterDecomposed, Rounds

LEMMA BlankAfterAdaptive ==
    ASSUME NEW k, Blank(k)
    PROVE  Blank(AfterAdaptive(k))
<1>1. Blank([k EXCEPT !.at = "decompose"])
  BY DEF Blank, Shape
<1> QED BY <1>1, BlankAfterLexical, BlankAfterDecomposed DEF AfterAdaptive

LEMMA BlankAfterRound ==
    ASSUME NEW k, Blank(k)
    PROVE  Blank(AfterRound(k))
<1>1. k.round \in Rounds
  BY DEF Blank, Shape
<1> QED BY <1>1, BlankRound, BlankAfterLexical, BlankAfterDecomposed, BlankAfterAdaptive
        DEF AfterRound, Rounds

LEMMA BlankHybrid ==
    ASSUME NEW k, Blank(k)
    PROVE  Blank(Hybrid(k))
<1>1. Blank([k EXCEPT !.at = "hint"])
  BY DEF Blank, Shape
<1> QED BY <1>1, BlankRound DEF Hybrid, Rounds

(* A new pass forgets the embeddings of the one before. *)
LEMMA BlankPass ==
    ASSUME NEW k, Shape(k), k.at \notin {"embed", "remember", "vector"}, NEW kinds
    PROVE  Blank(Pass(k, kinds))
<1> DEFINE fresh == [k EXCEPT !.kinds = kinds, !.planned = <<>>, !.hinted = <<>>, !.lexical = <<>>,
                              !.vectors = <<>>, !.dense = <<>>, !.cut = FALSE,
                              !.misses = <<>>, !.ranked = <<>>, !.out = <<>>, !.route = "hybrid"]
<1>1. Blank(fresh)
  BY DEF Blank, Shape
<1>2. Blank([fresh EXCEPT !.at = "facts"])
  <2> HIDE DEF fresh
  <2> QED BY <1>1 DEF Blank, Shape
<1>3. Blank(Hybrid(fresh))
  <2> HIDE DEF fresh
  <2> QED BY <1>1, BlankHybrid
<1> QED BY <1>2, <1>3 DEF Pass

(* One searcher takes a step, or what it watches changes. *)
LEMMA StepOK ==
    ASSUME SearchOK, NEW c \in Searchers, NEW k, search' = [search EXCEPT ![c] = k],
           k.at = "idle" \/ Course(k)
    PROVE  SearchOK'
BY DEF SearchOK

LEMMA BlankStep ==
    ASSUME SearchOK, NEW c \in Searchers, NEW k, search' = [search EXCEPT ![c] = k], Blank(k)
    PROVE  SearchOK'
BY StepOK, BlankCourse

(* What is not at a step of the embeddings only has its shape. *)
LEMMA ShapeCourse ==
    ASSUME NEW k, Shape(k), k.at \in {"fuse", "expand", "touch"}
    PROVE  Course(k)
BY DEF Course

LEMMA EarlyBlank ==
    ASSUME SearchOK, NEW c \in Searchers,
           search[c].at \in {"begin", "facts", "hint", "lexical", "decompose", "bridge"}
    PROVE  Blank(search[c])
BY DEF SearchOK, Course

LEMMA BusyCourse ==
    ASSUME SearchOK, NEW c \in Searchers, search[c].at # "idle"
    PROVE  Course(search[c]) /\ Shape(search[c])
BY DEF SearchOK, Course

LEMMA BeginKeeps ==
    ASSUME SearchOK, NEW c \in Searchers, NEW req, SearchWithFilters(c, req)
    PROVE  SearchOK'
<1>1. CASE Valid(req)
  <2> DEFINE kinds == IF Implicit(req) THEN CanonicalKinds ELSE req.kinds
  <2>1. Shape(Begun(req)) /\ Begun(req).at = "begin"
    BY DEF Shape, Begun, Rounds
  <2>2. search' = [search EXCEPT ![c] = Pass(Begun(req), kinds)]
    BY <1>1 DEF SearchWithFilters
  <2> HIDE DEF kinds
  <2>3. Blank(Pass(Begun(req), kinds))
    BY <2>1, BlankPass
  <2> QED BY <2>2, <2>3, BlankStep
<1>2. CASE ~Valid(req)
  BY <1>2 DEF SearchWithFilters, SearchOK
<1> QED BY <1>1, <1>2

LEMMA FactsKeep ==
    ASSUME SearchOK, NEW c \in Searchers, SearchByEntityFacts(c)
    PROVE  SearchOK'
<1> DEFINE k == search[c]
<1>1. Blank(k)
  BY EarlyBlank DEF SearchByEntityFacts
<1>2. PICK scored : search' = [search EXCEPT ![c] = FactsRanked(k, scored)]
  BY DEF SearchByEntityFacts, Continue
<1>3. PICK out : search' = [search EXCEPT ![c] = AfterFacts(k, scored, out)]
  BY <1>2 DEF FactsRanked
<1>4. CASE out = <<>>
  BY <1>1, <1>3, <1>4, BlankHybrid, BlankStep DEF AfterFacts
<1>5. CASE out # <<>>
  <2> DEFINE new == [k EXCEPT !.at = IF k.kinds = {} THEN "expand" ELSE "touch",
                              !.route = "facts", !.ranked = Scores(scored), !.out = out]
  <2>1. Shape(new) /\ new.at \in {"fuse", "expand", "touch"}
    BY <1>1 DEF Blank, Shape
  <2>2. search' = [search EXCEPT ![c] = new]
    BY <1>3, <1>5 DEF AfterFacts
  <2> HIDE DEF new
  <2> QED BY <2>1, <2>2, ShapeCourse, StepOK
<1> QED BY <1>4, <1>5

LEMMA HintsKeep ==
    ASSUME SearchOK, NEW c \in Searchers, CollectEntityHints(c)
    PROVE  SearchOK'
<1> DEFINE k == search[c]
<1>1. Blank(k)
  BY EarlyBlank DEF CollectEntityHints
<1>2. PICK some, texts : search' = [search EXCEPT ![c] = Round([k EXCEPT !.hinted = some], "initial", texts)]
  BY DEF CollectEntityHints, Continue
<1>3. Blank([k EXCEPT !.hinted = some])
  BY <1>1 DEF Blank, Shape
<1>4. Blank(Round([k EXCEPT !.hinted = some], "initial", texts))
  BY <1>3, BlankRound DEF Rounds
<1> QED BY <1>2, <1>4, BlankStep

LEMMA LexicalKeeps ==
    ASSUME SearchOK, NEW c \in Searchers, CollectLexical(c)
    PROVE  SearchOK'
<1> DEFINE k == search[c]
           more(todo, lexical, cut) == [k EXCEPT !.todo = todo, !.lexical = lexical, !.cut = cut]
<1>1. Blank(k)
  BY EarlyBlank DEF CollectLexical
<1>2. PICK todo, lexical, cut : 
         search' = [search EXCEPT ![c] = IF more(todo, lexical, cut).todo = <<>>
                                         THEN AfterRound(more(todo, lexical, cut)) ELSE more(todo, lexical, cut)]
  BY DEF CollectLexical, Continue
<1>3. Blank(more(todo, lexical, cut))
  BY <1>1 DEF Blank, Shape
<1> HIDE DEF more
<1> QED BY <1>2, <1>3, BlankAfterRound, BlankStep

LEMMA DecomposeKeeps ==
    ASSUME SearchOK, NEW c \in Searchers, Decompose(c)
    PROVE  SearchOK'
<1>1. Blank(search[c])
  BY EarlyBlank DEF Decompose
<1>2. PICK texts : search' = [search EXCEPT ![c] = IF texts = <<>> THEN AfterDecomposed(search[c])
                                                   ELSE Round(search[c], "decomposed", texts)]
  BY DEF Decompose, Continue
<1>3. Blank(IF texts = <<>> THEN AfterDecomposed(search[c]) ELSE Round(search[c], "decomposed", texts))
  BY <1>1, BlankAfterDecomposed, BlankRound DEF Rounds
<1> QED BY <1>2, <1>3, BlankStep

LEMMA BridgeKeeps ==
    ASSUME SearchOK, NEW c \in Searchers, CollectGraphBridge(c)
    PROVE  SearchOK'
<1>1. Blank(search[c])
  BY EarlyBlank DEF CollectGraphBridge
<1>2. PICK lexical : search' = [search EXCEPT ![c] = AfterCandidates([search[c] EXCEPT !.lexical = lexical])]
  BY DEF CollectGraphBridge, Continue
<1>3. Blank([search[c] EXCEPT !.lexical = lexical])
  BY <1>1 DEF Blank, Shape
<1> QED BY <1>2, <1>3, BlankAfterCandidates, BlankStep

(* A hit brings an embedding with the key of its text, a miss leaves one   *)
(* more text to embed.                                                     *)
LEMMA LookUpKeeps ==
    ASSUME SearchOK, CacheOK(cache, recent), NEW c \in Searchers, LookUpEmbedding(c)
    PROVE  SearchOK'
<1> PICK k : k = search[c]
  OBVIOUS
<1> DEFINE text == Head(k.todo)
           key == KeyOf[text]
           hit == Hit(cache, key)
<1>1. PICK vector : vector = IF hit THEN Got(cache, key) ELSE None
  OBVIOUS
<1>2. PICK misses : misses = IF hit THEN k.misses ELSE Append(k.misses, text)
  OBVIOUS
<1>3. PICK todo, at : 
         /\ search' = [search EXCEPT ![c] =
                [k EXCEPT !.vectors = Append(@, [text |-> text, vector |-> vector]),
                          !.misses = misses, !.todo = todo, !.at = at]]
         /\ at \in {"lookup", "vector", "embed"}
         /\ at = "vector" => misses = <<>>
  <2> DEFINE done == Tail(k.todo) = <<>>
             next == CASE ~done -> "lookup"
                       [] done /\ misses = <<>> -> "vector"
                       [] done /\ misses # <<>> -> "embed"
  <2>1. next \in {"lookup", "vector", "embed"} /\ (next = "vector" => misses = <<>>)
    OBVIOUS
  <2>2. search' = [search EXCEPT ![c] =
                [k EXCEPT !.vectors = Append(@, [text |-> text, vector |-> vector]),
                          !.misses = misses, !.todo = Tail(@), !.at = next]]
    BY <1>1, <1>2 DEF LookUpEmbedding, Continue
  <2> HIDE DEF next
  <2> QED BY <2>1, <2>2
<1> DEFINE v == [text |-> text, vector |-> vector]
           more == Append(k.vectors, v)
           new == [k EXCEPT !.vectors = Append(@, v), !.misses = misses, !.todo = todo, !.at = at]
<1>4. /\ Shape(k) /\ IsSeq(k.vectors) /\ IsSeq(k.misses)
      /\ \A i \in 1..Len(k.vectors) :
            Fits(k.vectors[i]) \/ (k.vectors[i].vector = None /\ k.misses # <<>>)
  BY BusyCourse DEF LookUpEmbedding, Course
<1>5. Fits(v) \/ (v.vector = None /\ misses # <<>>)
  <2>1. CASE hit
    <3>1. KeyOf[vector] = key
      BY <1>1, <2>1, GotBelongs DEF Hit
    <3> QED BY <3>1 DEF Fits
  <2>2. CASE ~hit
    <3>1. Append(k.misses, text) # <<>>
      BY <1>4 DEF IsSeq
    <3> QED BY <1>1, <1>2, <2>2, <3>1
  <2> QED BY <2>1, <2>2
<1>6. IsSeq(misses) /\ (k.misses # <<>> => misses # <<>>)
  <2>1. IsSeq(Append(k.misses, text)) /\ Append(k.misses, text) # <<>>
    <3> PICK T : k.misses \in Seq(T)
      BY <1>4 DEF IsSeq
    <3>1. k.misses \in Seq(T \cup {text})
      OBVIOUS
    <3>2. Append(k.misses, text) \in Seq(T \cup {text}) /\ Append(k.misses, text) # <<>>
      BY <3>1
    <3> QED BY <3>2 DEF IsSeq
  <2> QED BY <1>2, <1>4, <2>1
<1> HIDE DEF v
<1>7. /\ IsSeq(more) /\ more # <<>> /\ Len(more) = Len(k.vectors) + 1 /\ Len(k.vectors) \in Nat
      /\ \A i \in 1..Len(k.vectors) : more[i] = k.vectors[i]
      /\ more[Len(k.vectors) + 1] = v
  <2> PICK T : k.vectors \in Seq(T)
    BY <1>4 DEF IsSeq
  <2>1. k.vectors \in Seq(T \cup {v})
    OBVIOUS
  <2>2. more \in Seq(T \cup {v}) /\ more # <<>>
    BY <2>1
  <2>3. IsSeq(more)
    BY <2>2 DEF IsSeq
  <2> QED BY <2>1, <2>2, <2>3
<1>8. \A i \in 1..Len(more) : Fits(more[i]) \/ (more[i].vector = None /\ misses # <<>>)
  <2> HIDE DEF more
  <2> QED BY <1>4, <1>5, <1>6, <1>7
<1>9. Shape(new) /\ new.vectors = more /\ new.misses = misses /\ new.at = at
  BY <1>4 DEF Shape
<1> HIDE DEF new, more
<1>10. Course(new)
  BY <1>3, <1>6, <1>7, <1>8, <1>9 DEF Course
<1> QED BY <1>3, <1>10, StepOK DEF new, v

(* The embedder's answers go where an embedding is missing. *)
LEMMA EmbedKeeps ==
    ASSUME SearchOK, NEW c \in Searchers, EmbedContents(c)
    PROVE  SearchOK'
<1> PICK k : k = search[c]
  OBVIOUS
<1> DEFINE filled == Embedded(k)
           new == [k EXCEPT !.vectors = filled, !.at = "remember"]
<1>1. /\ Shape(k) /\ IsSeq(k.vectors) /\ k.vectors # <<>>
      /\ \A i \in 1..Len(k.vectors) : Fits(k.vectors[i]) \/ k.vectors[i].vector = None
  BY BusyCourse DEF EmbedContents, Course
<1>2. search' = [search EXCEPT ![c] = new]
  BY DEF EmbedContents, Continue
<1> PICK T : k.vectors \in Seq(T)
  BY <1>1 DEF IsSeq
<1>3. Len(k.vectors) \in Nat /\ Len(k.vectors) # 0
  BY <1>1
<1> DEFINE place(i) == IF k.vectors[i].vector = None
                       THEN [k.vectors[i] EXCEPT !.vector = k.vectors[i].text] ELSE k.vectors[i]
           S == {place(i) : i \in 1..Len(k.vectors)}
<1>4. filled = [i \in 1..Len(k.vectors) |-> place(i)]
  BY DEF Embedded
<1> HIDE DEF place
<1>5. filled \in Seq(S) /\ Len(filled) = Len(k.vectors) /\ \A i \in 1..Len(k.vectors) : filled[i] = place(i)
  BY <1>3, <1>4
<1>6. IsSeq(filled) /\ filled # <<>>
  BY <1>3, <1>5 DEF IsSeq
<1>7. \A i \in 1..Len(filled) : Fits(filled[i])
  <2> TAKE i \in 1..Len(filled)
  <2>1. i \in 1..Len(k.vectors) /\ filled[i] = place(i)
    BY <1>5
  <2>2. Fits(place(i))
    BY <1>1, <2>1 DEF Fits, place
  <2> QED BY <2>1, <2>2
<1> HIDE DEF filled
<1>8. Shape(new) /\ new.vectors = filled /\ new.at = "remember"
  BY <1>1 DEF Shape
<1> HIDE DEF new
<1>9. Course(new)
  BY <1>6, <1>7, <1>8 DEF Course
<1> QED BY <1>2, <1>9, StepOK

LEMMA RememberKeeps ==
    ASSUME SearchOK, NEW c \in Searchers, RememberEmbedding(c)
    PROVE  SearchOK'
<1> PICK k : k = search[c]
  OBVIOUS
<1>1. /\ Shape(k) /\ IsSeq(k.vectors) /\ k.vectors # <<>>
      /\ \A i \in 1..Len(k.vectors) : Fits(k.vectors[i])
  BY BusyCourse DEF RememberEmbedding, Course
<1>2. PICK misses, at : search' = [search EXCEPT ![c] = [k EXCEPT !.misses = misses, !.at = at]]
                        /\ at \in {"vector", "remember"}
  BY DEF RememberEmbedding, Continue
<1> DEFINE new == [k EXCEPT !.misses = misses, !.at = at]
<1>3. Shape(new) /\ new.vectors = k.vectors /\ new.at = at
  BY <1>1 DEF Shape
<1> HIDE DEF new
<1>4. Course(new)
  BY <1>1, <1>2, <1>3 DEF Course
<1> QED BY <1>2, <1>4, StepOK DEF new

LEMMA VectorKeeps ==
    ASSUME SearchOK, NEW c \in Searchers, SearchVector(c)
    PROVE  SearchOK'
<1> PICK k : k = search[c]
  OBVIOUS
<1>1. /\ Shape(k) /\ IsSeq(k.vectors) /\ k.vectors # <<>>
      /\ \A i \in 1..Len(k.vectors) : Fits(k.vectors[i])
  BY BusyCourse DEF SearchVector, Course
<1> DEFINE rest == Tail(k.vectors)
           at == IF rest = <<>> THEN "fuse" ELSE "vector"
<1>2. PICK cut, dense : search' = [search EXCEPT ![c] =
                           [k EXCEPT !.vectors = rest, !.cut = cut, !.dense = dense, !.at = at]]
  BY DEF SearchVector, Continue
<1> DEFINE new == [k EXCEPT !.vectors = rest, !.cut = cut, !.dense = dense, !.at = at]
<1> PICK T : k.vectors \in Seq(T)
  BY <1>1 DEF IsSeq
<1>3. rest \in Seq(T) /\ Len(rest) = Len(k.vectors) - 1 /\ \A i \in 1..Len(rest) : rest[i] = k.vectors[i + 1]
  BY <1>1
<1>4. \A i \in 1..Len(rest) : Fits(rest[i])
  <2> TAKE i \in 1..Len(rest)
  <2>1. i + 1 \in 1..Len(k.vectors)
    BY <1>3
  <2> QED BY <1>1, <1>3, <2>1
<1>5. IsSeq(rest)
  BY <1>3 DEF IsSeq
<1> HIDE DEF rest
<1>6. Shape(new) /\ new.vectors = rest /\ new.at = at
  BY <1>1 DEF Shape
<1> HIDE DEF new
<1>7. Course(new)
  BY <1>4, <1>5, <1>6 DEF Course
<1> QED BY <1>2, <1>7, StepOK DEF new

LEMMA EndKeeps ==
    ASSUME SearchOK, NEW c \in Searchers, NEW k, Shape(k), k.at \in {"fuse", "touch"},
           NEW out, End(c, k, out)
    PROVE  SearchOK'
<1>1. Blank(Pass(k, {}))
  BY BlankPass
<1>2. Idle.at = "idle"
  BY DEF Idle
<1> QED BY <1>1, <1>2, BlankStep, StepOK DEF End

LEMMA FuseKeeps ==
    ASSUME SearchOK, NEW c \in Searchers, FuseAndRank(c)
    PROVE  SearchOK'
<1>1. Shape(search[c]) /\ search[c].at = "fuse"
  BY BusyCourse DEF FuseAndRank
<1>2. PICK dense, lexical, ids : CandidatesFused(c, search[c], dense, lexical, ids)
  BY DEF FuseAndRank
<1>3. PICK cut, scored : CandidatesRanked(c, [search[c] EXCEPT !.cut = cut], scored)
  BY <1>2 DEF CandidatesFused
<1>4. PICK k : k = [search[c] EXCEPT !.cut = cut]
  OBVIOUS
<1>5. Shape(k) /\ k.at = "fuse"
  BY <1>1, <1>4 DEF Shape
<1>6. PICK ranked, out : AfterRanking(c, [k EXCEPT !.ranked = ranked, !.hinted = <<>>, !.lexical = <<>>,
                                                   !.dense = <<>>], out)
  BY <1>3, <1>4 DEF CandidatesRanked
<1>7. PICK m : m = [k EXCEPT !.ranked = ranked, !.hinted = <<>>, !.lexical = <<>>, !.dense = <<>>]
  OBVIOUS
<1>8. Shape(m) /\ m.at = "fuse"
  BY <1>5, <1>7 DEF Shape
<1>9. CASE End(c, m, <<>>)
  BY <1>8, <1>9, EndKeeps
<1>10. CASE ~End(c, m, <<>>)
  <2>1. PICK at \in {"expand", "touch"} : search' = [search EXCEPT ![c] = [m EXCEPT !.out = out, !.at = at]]
    BY <1>6, <1>7, <1>10 DEF AfterRanking, Continue
  <2>2. PICK n : n = [m EXCEPT !.out = out, !.at = at]
    OBVIOUS
  <2>3. Shape(n) /\ n.at \in {"fuse", "expand", "touch"}
    BY <1>8, <2>2 DEF Shape
  <2> QED BY <2>1, <2>2, <2>3, ShapeCourse, StepOK
<1> QED BY <1>9, <1>10

LEMMA ExpandKeeps ==
    ASSUME SearchOK, NEW c \in Searchers, ExpandGroundedContext(c)
    PROVE  SearchOK'
<1>1. Shape(search[c])
  BY BusyCourse DEF ExpandGroundedContext
<1>2. PICK out : search' = [search EXCEPT ![c] = [search[c] EXCEPT !.out = out, !.at = "touch"]]
  BY DEF ExpandGroundedContext, Continue
<1>3. PICK k : k = [search[c] EXCEPT !.out = out, !.at = "touch"]
  OBVIOUS
<1>4. Shape(k) /\ k.at = "touch"
  BY <1>1, <1>3 DEF Shape
<1> QED BY <1>2, <1>3, <1>4, ShapeCourse, StepOK

LEMMA TouchKeeps ==
    ASSUME SearchOK, NEW c \in Searchers, TouchAndReturn(c)
    PROVE  SearchOK'
<1>1. Shape(search[c]) /\ search[c].at = "touch"
  BY BusyCourse DEF TouchAndReturn
<1>2. PICK out : End(c, search[c], out)
  BY DEF TouchAndReturn
<1> QED BY <1>1, <1>2, EndKeeps

LEMMA FailKeeps ==
    ASSUME SearchOK, NEW c \in Searchers, Fail(c)
    PROVE  SearchOK'
<1>1. Idle.at = "idle" /\ search' = [search EXCEPT ![c] = Idle]
  BY DEF Idle, Fail
<1> QED BY <1>1, StepOK

(* Insertions and deletions change what a search watches and nothing else of it. *)
LEMMA WatchedCourse ==
    ASSUME NEW k, Course(k), NEW field \in {"alive", "steady"}, NEW value
    PROVE  Course([k EXCEPT ![field] = value])
<1>1. PICK m : m = [k EXCEPT ![field] = value]
  OBVIOUS
<1>2. Shape(k)
  BY DEF Course
<1>3. /\ Shape(m) /\ m.at = k.at /\ m.vectors = k.vectors /\ m.misses = k.misses
  BY <1>1, <1>2 DEF Shape
<1>4. Blank(k) => Blank(m)
  BY <1>3 DEF Blank
<1>5. Course(m)
  BY <1>3, <1>4 DEF Course
<1> QED BY <1>1, <1>5

LEMMA ChangeKeeps ==
    ASSUME SearchOK, NEW id, Change(id)
    PROVE  SearchOK'
<1>1. CASE InsertRow(id)
  <2>1. search' = [c \in Searchers |-> IF search[c].at = "idle" THEN Idle
                     ELSE [search[c] EXCEPT !["alive"] = search[c]["alive"] \cup {id}]]
    BY <1>1 DEF InsertRow, Watch
  <2>2. DOMAIN search' = Searchers /\ Idle.at = "idle"
    BY <2>1 DEF Idle
  <2>3. ASSUME NEW c \in Searchers
        PROVE  search'[c].at = "idle" \/ Course(search'[c])
    BY <2>1, <2>2, WatchedCourse DEF SearchOK
  <2> QED BY <2>2, <2>3 DEF SearchOK
<1>2. CASE DeleteRow(id)
  <2>1. search' = [c \in Searchers |-> IF search[c].at = "idle" THEN Idle
                     ELSE [search[c] EXCEPT !["steady"] = search[c]["steady"] \ {id}]]
    BY <1>2 DEF DeleteRow, Watch
  <2>2. DOMAIN search' = Searchers /\ Idle.at = "idle"
    BY <2>1 DEF Idle
  <2>3. ASSUME NEW c \in Searchers
        PROVE  search'[c].at = "idle" \/ Course(search'[c])
    BY <2>1, <2>2, WatchedCourse DEF SearchOK
  <2> QED BY <2>2, <2>3 DEF SearchOK
<1>3. CASE UpsertEmbedding(id) \/ StoreFacts(id) \/ DeleteEmbedding(id)
  BY <1>3 DEF UpsertEmbedding, StoreFacts, DeleteEmbedding, SearchOK
<1> QED BY <1>1, <1>2, <1>3 DEF Change

-----------------------------------------------------------------------------
(* The inductive invariant and the theorems.                               *)

Inv == CacheOK(cache, recent) /\ SearchOK

LEMMA CacheUnchanged ==
    ASSUME CacheOK(cache, recent), UNCHANGED <<cache, recent>>
    PROVE  CacheOK(cache, recent)'
BY DEF CacheOK, CacheAgrees, Follows, IsSeq, Distinct

LEMMA LookUpCache ==
    ASSUME CacheOK(cache, recent), NEW c \in Searchers, LookUpEmbedding(c)
    PROVE  CacheOK(cache, recent)'
<1>1. PICK key : /\ cache' = Get(cache, key)
                 /\ IF Hit(cache, key) THEN Uses(key) ELSE UNCHANGED recent
  BY DEF LookUpEmbedding
<1>2. CASE Hit(cache, key)
  <2>1. CacheOK(Get(cache, key), After(recent, key))
    BY <1>2, GetOK
  <2>2. recent' = After(recent, key)
    BY <1>1, <1>2 DEF Uses, After
  <2> QED BY <1>1, <2>1, <2>2
<1>3. CASE ~Hit(cache, key)
  BY <1>1, <1>3, GetOK
<1> QED BY <1>2, <1>3

LEMMA RememberCache ==
    ASSUME CacheOK(cache, recent), NEW c \in Searchers, RememberEmbedding(c)
    PROVE  CacheOK(cache, recent)'
<1>1. PICK text : /\ cache' = Set(cache, KeyOf[text], text)
                  /\ IF Capacity = 0 THEN UNCHANGED recent ELSE Uses(KeyOf[text])
  BY DEF RememberEmbedding
<1>2. CASE Capacity = 0
  BY <1>1, <1>2, SetOK
<1>3. CASE Capacity # 0
  <2>1. CacheOK(Set(cache, KeyOf[text], text), After(recent, KeyOf[text]))
    BY <1>3, SetOK
  <2>2. recent' = After(recent, KeyOf[text])
    BY <1>1, <1>3 DEF Uses, After
  <2> QED BY <1>1, <2>1, <2>2
<1> QED BY <1>2, <1>3

LEMMA InvInit ==
    Init => Inv
<1> SUFFICES ASSUME Init
             PROVE  Inv
  OBVIOUS
<1>1. IsSeq(<<>>) /\ Len(<<>>) = 0
  <2>1. <<>> \in Seq({})
    OBVIOUS
  <2> QED BY <2>1 DEF IsSeq
<1>2. cache = [list |-> <<>>, keys |-> {}] /\ recent = <<>>
  BY DEF Init, EmptyCache
<1>3. Follows(<<>>, <<>>) /\ Distinct(<<>>)
  BY <1>1 DEF Follows, Distinct
<1>4. 0 <= Capacity
  BY CapacityAssumption
<1>5. CacheOK(cache, recent)
  BY <1>1, <1>2, <1>3, <1>4, ListOK
<1>6. SearchOK
  BY DEF Init, Idle, SearchOK
<1> QED BY <1>5, <1>6 DEF Inv

LEMMA SearchStepKeeps ==
    ASSUME Inv, NEW c \in Searchers, SearchStep(c)
    PROVE  Inv'
<1> USE DEF Inv
<1>1. ASSUME NEW req, SearchWithFilters(c, req)
      PROVE  Inv'
  BY <1>1, BeginKeeps, CacheUnchanged DEF SearchWithFilters
<1>2. CASE SearchByEntityFacts(c)
  BY <1>2, FactsKeep, CacheUnchanged DEF SearchByEntityFacts
<1>3. CASE CollectEntityHints(c)
  BY <1>3, HintsKeep, CacheUnchanged DEF CollectEntityHints
<1>4. CASE CollectLexical(c)
  BY <1>4, LexicalKeeps, CacheUnchanged DEF CollectLexical
<1>5. CASE Decompose(c)
  BY <1>5, DecomposeKeeps, CacheUnchanged DEF Decompose
<1>6. CASE CollectGraphBridge(c)
  BY <1>6, BridgeKeeps, CacheUnchanged DEF CollectGraphBridge
<1>7. CASE LookUpEmbedding(c)
  BY <1>7, LookUpKeeps, LookUpCache
<1>8. CASE EmbedContents(c)
  BY <1>8, EmbedKeeps, CacheUnchanged DEF EmbedContents
<1>9. CASE RememberEmbedding(c)
  BY <1>9, RememberKeeps, RememberCache
<1>10. CASE SearchVector(c)
  BY <1>10, VectorKeeps, CacheUnchanged DEF SearchVector
<1>11. CASE FuseAndRank(c)
  BY <1>11, FuseKeeps, CacheUnchanged DEF FuseAndRank
<1>12. CASE ExpandGroundedContext(c)
  BY <1>12, ExpandKeeps, CacheUnchanged DEF ExpandGroundedContext
<1>13. CASE TouchAndReturn(c)
  BY <1>13, TouchKeeps, CacheUnchanged DEF TouchAndReturn
<1>14. CASE Fail(c)
  BY <1>14, FailKeeps, CacheUnchanged DEF Fail
<1> QED BY <1>1, <1>2, <1>3, <1>4, <1>5, <1>6, <1>7, <1>8, <1>9, <1>10, <1>11, <1>12, <1>13, <1>14
        DEF SearchStep

LEMMA InvNext ==
    Inv /\ [Next]_vars => Inv'
<1> SUFFICES ASSUME Inv, [Next]_vars
             PROVE  Inv'
  OBVIOUS
<1>1. CASE \E c \in Searchers : SearchStep(c)
  BY <1>1, SearchStepKeeps
<1>2. CASE \E id \in Ids : Change(id)
  <2> PICK id \in Ids : Change(id)
    BY <1>2
  <2>1. UNCHANGED <<cache, recent>>
    BY DEF Change, InsertRow, UpsertEmbedding, StoreFacts, DeleteRow, DeleteEmbedding, Aside
  <2> QED BY <2>1, ChangeKeeps, CacheUnchanged DEF Inv
<1>3. CASE UNCHANGED vars
  BY <1>3, CacheUnchanged DEF vars, Inv, SearchOK
<1> QED BY <1>1, <1>2, <1>3 DEF Next

LEMMA InvHolds ==
    Spec => []Inv
BY InvInit, InvNext, PTL DEF Spec

(* Whatever searches look up, store and evict, in any order, the list and  *)
(* the map of queryEmbeddingCache hold the same keys, no more than fit, an *)
(* entry holds the embedding of a text with its key, and what is kept is   *)
(* what was used last.                                                     *)
THEOREM CacheKeepsRecentCorrect == Spec => []CacheKeepsRecent
<1>1. Inv => CacheKeepsRecent
  BY CacheOKKeepsRecent DEF Inv
<1> QED BY <1>1, InvHolds, PTL

(* Every vector that SearchWithFilters hands to the vector store is the    *)
(* embedding of its query or of one with the same key: cached embeddings   *)
(* and those the embedder returns for the misses meet at the right places. *)
THEOREM VectorsBelongToQueriesCorrect == Spec => []VectorsBelongToQueries
<1>1. Inv => VectorsBelongToQueries
  BY DEF Inv, SearchOK, Course, Fits, VectorsBelongToQueries
<1> QED BY <1>1, InvHolds, PTL

-----------------------------------------------------------------------------
(* What the assumptions say of memories, queries and settings.             *)

LEMMA IdsAre ==
    /\ Ids \in SUBSET Int /\ IsFiniteSet(Ids) /\ Cardinality(Ids) = Len(Memory) /\ Len(Memory) \in Nat
    /\ \A set \in SUBSET Ids : IsFiniteSet(set) /\ set \in SUBSET Int
<1>1. Len(Memory) \in Nat
  BY MemoryAssumption
<1>2. IsFiniteSet(1..Len(Memory)) /\ Cardinality(1..Len(Memory)) = Len(Memory)
  BY <1>1, IntervalCount
<1>3. \A set \in SUBSET Ids : IsFiniteSet(set)
  BY <1>2, FS_Subset DEF Ids
<1> QED BY <1>1, <1>2, <1>3 DEF Ids

LEMMA TextIs ==
    ASSUME NEW text, IsText(text)
    PROVE  IsSeq(text)
BY DEF IsText, IsSeq

LEMMA MemoryIs ==
    ASSUME NEW id \in Ids
    PROVE  MemoryOK(Memory[id]) /\ Memory[id].recency \in 0..One
<1>1. IsText(Memory[id].words) /\ IsText(Memory[id].view) /\ Memory[id].kind \in Kinds
      /\ Memory[id].recency \in 0..One /\ Memory[id].importance \in Int
  BY MemoryAssumption
<1> QED BY <1>1, TextIs DEF MemoryOK, KindNames, Kinds

LEMMA ContentScoreIs ==
    ASSUME NEW text \in Texts, NEW id \in Ids
    PROVE  ContentScore[text][id] \in 0..One /\ ContentScore[text][id] \in Int
           /\ Bm25[text][id] \in 0..One /\ Bm25[text][id] \in Int
<1>1. IsSeq(TextWords[text])
  BY SearchAssumption, TextIs
<1>2. IsSeq(Memory[id].words)
  BY MemoryIs DEF MemoryOK
<1>3. IsSeq(Memory[id].words \o Memory[id].view)
  BY MemoryIs, DocumentType DEF Document
<1>4. /\ LexicalContentScore(TextWords[text], Memory[id].words) \in 0..One
      /\ LexicalContentScore(TextWords[text], Memory[id].words \o Memory[id].view) \in 0..One
  BY <1>1, <1>2, <1>3, LexicalContentScoreType
<1>5. ContentScore[text][id] \in 0..One /\ Bm25[text][id] \in 0..One
  <2>1. ContentScore[text][id] = LexicalContentScore(TextWords[text], Memory[id].words)
    BY DEF ContentScore
  <2>2. Bm25[text][id] = LexicalContentScore(TextWords[text], Memory[id].words \o Memory[id].view)
    BY DEF Bm25
  <2>3. ContentScore[text][id] \in 0..One
    BY <1>4, <2>1
  <2>4. Bm25[text][id] \in 0..One
    BY <1>4, <2>2
  <2> QED BY <2>3, <2>4
<1>6. \A v \in 0..One : v \in Int
  BY DEF One
<1> QED BY <1>5, <1>6

TextFields == {"rewrites", "parts", "feedback", "backoff", "refined", "decomposed"}

LEMMA QueryIs ==
    ASSUME NEW q \in Queries
    PROVE  /\ Planned(q).text = q.text /\ q.text \in Texts
           /\ IsSeq(Planned(q).words)
           /\ \A field \in TextFields : Planned(q)[field] \in Seq(Texts)
<1>1. /\ {"text", "words"} \subseteq DOMAIN q
      /\ q.text \in Texts /\ q.words = TextWords[q.text]
      /\ \A field \in TextFields : field \in DOMAIN q /\ q[field] \in Seq(Texts)
  BY QueryAssumption DEF TextFields
<1>2. \A field \in DOMAIN q : field # "plan" => Planned(q)[field] = q[field]
  BY DEF Planned
<1>3. Planned(q).text = q.text /\ Planned(q).words = q.words
  BY <1>1, <1>2
<1>4. \A field \in TextFields : Planned(q)[field] \in Seq(Texts)
  BY <1>1, <1>2 DEF TextFields
<1>5. IsSeq(TextWords[q.text])
  BY <1>1, SearchAssumption, TextIs
<1> QED BY <1>1, <1>3, <1>4, <1>5

LEMMA SettingsAre ==
    ASSUME NEW s \in Settings
    PROVE  ServerOK(s) /\ s.vectorMax \in Int /\ s.maxExtra \in Int /\ s.graphWeight \in Int
<1>1. /\ s.multiplier \in Int /\ s.windowMin \in Int /\ s.windowMax \in Int /\ s.windowWide \in Int
      /\ s.multiHopBoost \in Int /\ s.temporalBoost \in Int /\ s.filterBoost \in Int
      /\ s.vectorMax \in Int /\ s.maxExtra \in Int /\ s.graphWeight \in Int
      /\ s.rerankWindow \in Int /\ s.rerankBlend \in Int /\ s.earlyWindow \in Int /\ s.earlyWindowMax \in Int
  BY SettingsAssumption
<1>2. WeightsOK(s)
  BY SettingsAssumption DEF WeightsOK
<1> QED BY <1>1, <1>2 DEF ServerOK

LEMMA IdfIs ==
    ASSUME NEW n \in 1..Len(Memory)
    PROVE  IdfOK(n)
BY MemoryAssumption DEF IdfOK, Ids

-----------------------------------------------------------------------------
(* Lists of ids and of candidates.                                         *)

LEMMA PickedHolds ==
    ASSUME NEW T, NEW list \in Seq(T), NEW places \in SUBSET (1..Len(list)), NEW new, new = Picked(list, places)
    PROVE  /\ new \in Seq(T) /\ Len(new) <= Len(list)
           /\ ComesFrom(new, list, places) /\ HasAll(new, list, places)
           /\ Distinct(list) => Distinct(new)
           /\ DistinctIds(list) => DistinctIds(new)
<1>1. Selects(new, list, places)
  BY PickedSelects
<1>2. /\ new \in Seq(T) /\ Len(new) <= Len(list)
      /\ ComesFrom(new, list, places) /\ HasAll(new, list, places)
  BY <1>1, SelectsHolds
<1>3. ASSUME Distinct(list) PROVE Distinct(new)
  <2>1. \A i, j \in places : list[i] = list[j] => i = j
    BY <1>3 DEF Distinct
  <2> QED BY <1>1, <2>1, SelectsDistinct
<1>4. ASSUME DistinctIds(list) PROVE DistinctIds(new)
  <2>1. \A i, j \in places : list[i].id = list[j].id => i = j
    BY <1>4 DEF DistinctIds
  <2> QED BY <1>1, <2>1, SelectsDistinctIds
<1> QED BY <1>2, <1>3, <1>4

LEMMA ListedIs ==
    ASSUME NEW set \in SUBSET Ids
    PROVE  /\ Listed(set) \in Seq(set) /\ Len(Listed(set)) = Cardinality(set) /\ Distinct(Listed(set))
           /\ \A id \in set : \E n \in 1..Len(Listed(set)) : Listed(set)[n] = id
<1>1. Enumerates(Listed(set), set)
  BY IdsAre, AscendingEnumerates DEF Listed
<1>2. /\ Listed(set) \in Seq(set) /\ Len(Listed(set)) = Cardinality(set)
      /\ \A id \in set : \E n \in 1..Len(Listed(set)) : Listed(set)[n] = id
      /\ \A m, n \in 1..Len(Listed(set)) : Listed(set)[m] = Listed(set)[n] => m = n
  BY <1>1, Zenon DEF Enumerates
<1> QED BY <1>2, Zenon DEF Distinct

(* A list of ids with a number for each, and the ids of a list. *)
Valued(ids, v) == [i \in 1..Len(ids) |-> [id |-> ids[i], score |-> v[i]]]
Names(list) == Made([i \in 1..Len(list) |-> list[i].id])

LEMMA ValuedAre ==
    ASSUME NEW S, NEW ids \in Seq(S), NEW v \in [1..Len(ids) -> Int], NEW list, list = Valued(ids, v)
    PROVE  /\ list \in Seq(Candidate(S)) /\ Len(list) = Len(ids) /\ Made(list) = list
           /\ \A i \in 1..Len(ids) : list[i].id = ids[i] /\ list[i].score = v[i]
<1> DEFINE entry(i) == [id |-> ids[i], score |-> v[i]]
<1>1. Len(ids) \in Nat /\ \A i \in 1..Len(ids) : ids[i] \in S /\ v[i] \in Int
  OBVIOUS
<1>2. \A i \in 1..Len(ids) : entry(i) \in Candidate(S) /\ entry(i).id = ids[i] /\ entry(i).score = v[i]
  BY <1>1 DEF Candidate
<1>3. list = [i \in 1..Len(ids) |-> entry(i)]
  BY DEF Valued
<1> HIDE DEF entry
<1>4. list \in Seq(Candidate(S)) /\ Len(list) = Len(ids)
  <2>1. Len(ids) \in Nat /\ \A i \in 1..Len(ids) : entry(i) \in Candidate(S)
    BY <1>1, <1>2
  <2> QED BY ONLY <1>3, <2>1
<1>5. \A i \in 1..Len(ids) : list[i].id = ids[i] /\ list[i].score = v[i]
  BY <1>2, <1>3
<1>6. Made(list) = list
  BY <1>4, MadeSame
<1> QED BY <1>4, <1>5, <1>6

LEMMA NamesAre ==
    ASSUME NEW S, NEW list, NEW new, new = Names(list),
           Len(list) \in Nat, \A i \in 1..Len(list) : list[i].id \in S
    PROVE  new \in Seq(S) /\ Len(new) = Len(list) /\ \A i \in 1..Len(list) : new[i] = list[i].id
<1> DEFINE ids == [i \in 1..Len(list) |-> list[i].id]
<1>1. ids \in Seq(S) /\ Len(ids) = Len(list) /\ \A i \in 1..Len(list) : ids[i] = list[i].id
  OBVIOUS
<1>2. new = Made(ids)
  BY DEF Names
<1> HIDE DEF ids
<1> QED BY <1>1, <1>2, MadeSame

LEMMA InOrderIs ==
    ASSUME NEW S \in SUBSET Int, NEW ids \in Seq(S), NEW v \in [1..Len(ids) -> Int],
           NEW new, new = Names(SortById(Valued(ids, v)))
    PROVE  /\ new \in Seq(S) /\ Len(new) = Len(ids)
           /\ HasAll(new, ids, 1..Len(ids))
<1>1. PICK list : list = Valued(ids, v)
  OBVIOUS
<1>2. PICK sorted : sorted = SortById(list)
  OBVIOUS
<1>3. /\ list \in Seq(Candidate(S)) /\ Len(list) = Len(ids)
      /\ \A i \in 1..Len(ids) : list[i].id = ids[i]
  BY <1>1, ValuedAre
<1>4. sorted \in Seq(Candidate(S)) /\ Len(sorted) = Len(list) /\ SameIds(sorted, list)
  <2>1. \A i \in 1..Len(list) : list[i].score \in Int /\ list[i].id \in Int
    BY <1>3, CandidatesAre
  <2>2. Selects(sorted, list, 1..Len(list))
    BY <1>2, <1>3, <2>1, SortedSelects
  <2> QED BY <1>3, <2>2, SelectedSameIds
<1>5. Len(sorted) \in Nat /\ \A i \in 1..Len(sorted) : sorted[i].id \in S
  BY <1>4, CandidatesAre
<1>6. new \in Seq(S) /\ Len(new) = Len(sorted) /\ \A i \in 1..Len(sorted) : new[i] = sorted[i].id
  BY <1>1, <1>2, <1>5, NamesAre
<1>7. \A i \in 1..Len(ids) : \E n \in 1..Len(new) : new[n] = ids[i]
  <2> TAKE i \in 1..Len(ids)
  <2>1. i \in 1..Len(list)
    BY <1>3
  <2>2. PICK n \in 1..Len(sorted) : sorted[n].id = list[i].id
    BY <1>4, <2>1, Zenon DEF SameIds
  <2> QED BY <1>3, <1>4, <1>6, <2>2
<1>8. HasAll(new, ids, 1..Len(ids))
  BY <1>7 DEF HasAll
<1> QED BY <1>3, <1>4, <1>6, <1>8

-----------------------------------------------------------------------------
(* What the stores answer.                                                 *)

LEMMA GetByIDsIs ==
    ASSUME NEW S, NEW ids \in Seq(S), NEW tenant, NEW new, new = GetByIDs(tenant, ids)
    PROVE  /\ new \in Seq(S) /\ Len(new) <= Len(ids)
           /\ \A n \in 1..Len(new) : new[n] \in rows /\ Memory[new[n]].tenant = tenant
           /\ \A i \in 1..Len(ids) : ids[i] \in rows /\ Memory[ids[i]].tenant = tenant
                                     => \E n \in 1..Len(new) : new[n] = ids[i]
           /\ Distinct(ids) => Distinct(new)
<1> DEFINE places == {i \in 1..Len(ids) : ids[i] \in rows /\ Memory[ids[i]].tenant = tenant}
<1>1. new = Picked(ids, places) /\ places \in SUBSET (1..Len(ids))
  BY DEF GetByIDs, Kept
<1>2. \A i \in places : ids[i] \in rows /\ Memory[ids[i]].tenant = tenant
  OBVIOUS
<1>3. \A i \in 1..Len(ids) : ids[i] \in rows /\ Memory[ids[i]].tenant = tenant => i \in places
  OBVIOUS
<1> HIDE DEF places
<1>4. /\ new \in Seq(S) /\ Len(new) <= Len(ids) /\ ComesFrom(new, ids, places) /\ HasAll(new, ids, places)
      /\ Distinct(ids) => Distinct(new)
  BY <1>1, PickedHolds
<1>5. \A n \in 1..Len(new) : new[n] \in rows /\ Memory[new[n]].tenant = tenant
  BY <1>2, <1>4, Zenon DEF ComesFrom
<1>6. \A i \in 1..Len(ids) : ids[i] \in rows /\ Memory[ids[i]].tenant = tenant
                             => \E n \in 1..Len(new) : new[n] = ids[i]
  BY <1>3, <1>4, Zenon DEF HasAll
<1> QED BY <1>4, <1>5, <1>6

(* What is kept of a list of ids by the filters of a search. *)
KeptFresh(new, ids, k) ==
    /\ Len(new) <= Len(ids) /\ ComesFrom(new, ids, 1..Len(ids))
    /\ \A n \in 1..Len(new) : Passes(new[n], k.kinds, k.req.tiers)
    /\ \A i \in 1..Len(ids) : Passes(ids[i], k.kinds, k.req.tiers) => \E n \in 1..Len(new) : new[n] = ids[i]
    /\ Distinct(ids) => Distinct(new)

LEMMA FreshIs ==
    ASSUME NEW S, NEW ids \in Seq(S), NEW k, NEW new, new = Fresh(ids, k)
    PROVE  new \in Seq(S) /\ KeptFresh(new, ids, k)
<1> DEFINE places == {i \in 1..Len(ids) : Passes(ids[i], k.kinds, k.req.tiers)}
<1>1. new = Picked(ids, places) /\ places \in SUBSET (1..Len(ids))
  BY DEF Fresh, Kept
<1>2. \A i \in places : i \in 1..Len(ids) /\ Passes(ids[i], k.kinds, k.req.tiers)
  OBVIOUS
<1>3. \A i \in 1..Len(ids) : Passes(ids[i], k.kinds, k.req.tiers) => i \in places
  OBVIOUS
<1> HIDE DEF places
<1>4. /\ new \in Seq(S) /\ Len(new) <= Len(ids) /\ ComesFrom(new, ids, places) /\ HasAll(new, ids, places)
      /\ Distinct(ids) => Distinct(new)
  BY <1>1, PickedHolds
<1>5. \A n \in 1..Len(new) : Passes(new[n], k.kinds, k.req.tiers)
  BY <1>2, <1>4, Zenon DEF ComesFrom
<1>6. \A i \in 1..Len(ids) : Passes(ids[i], k.kinds, k.req.tiers) => \E n \in 1..Len(new) : new[n] = ids[i]
  BY <1>3, <1>4, Zenon DEF HasAll
<1>7. ComesFrom(new, ids, 1..Len(ids))
  BY <1>2, <1>4, Zenon DEF ComesFrom
<1> QED BY <1>4, <1>5, <1>6, <1>7 DEF KeptFresh

(* The full-text index names every match if they are no more than asked for. *)
LEMMA SearchRowsIs ==
    ASSUME rows \in SUBSET Ids, NEW text \in Texts, NEW tenant, NEW kinds, NEW tiers, NEW topK \in Int,
           NEW all, all = Matches(tenant, text, kinds, tiers, rows),
           NEW new, new = SearchRows(tenant, text, kinds, tiers, topK)
    PROVE  /\ new \in Seq(Ids)
           /\ Cardinality(all) \in Nat
           /\ Cardinality(all) <= topK => \A id \in all : \E n \in 1..Len(new) : new[n] = id
<1> DEFINE ids == Listed(all)
           v == [i \in 1..Len(ids) |-> Bm25[text][ids[i]]]
           order == Names(SortById([i \in 1..Len(ids) |-> [id |-> ids[i], score |-> Bm25[text][ids[i]]]]))
<1>1. all \in SUBSET Ids
  BY DEF Matches
<1>2. /\ ids \in Seq(Ids) /\ Len(ids) = Cardinality(all)
      /\ \A id \in all : \E n \in 1..Len(ids) : ids[n] = id
  <2>1. ids \in Seq(all) /\ Len(ids) = Cardinality(all)
        /\ \A id \in all : \E n \in 1..Len(ids) : ids[n] = id
    BY <1>1, ListedIs
  <2> HIDE DEF ids
  <2> QED BY <1>1, <2>1
<1>3. Cardinality(all) \in Nat
  BY <1>1, IdsAre, FS_CardinalityType
<1>4. new = Cut(order, topK)
  BY DEF SearchRows, InOrder, Names
<1> HIDE DEF ids
<1>5. v \in [1..Len(ids) -> Int]
  <2>1. \A i \in 1..Len(ids) : Bm25[text][ids[i]] \in Int
    BY <1>2, ContentScoreIs
  <2> QED BY <2>1
<1>6. order = Names(SortById(Valued(ids, v)))
  <2>1. [i \in 1..Len(ids) |-> [id |-> ids[i], score |-> Bm25[text][ids[i]]]] = Valued(ids, v)
    BY DEF Valued
  <2> QED BY <2>1
<1> HIDE DEF v, order
<1>7. order \in Seq(Ids) /\ Len(order) = Len(ids) /\ HasAll(order, ids, 1..Len(ids))
  BY <1>2, <1>5, <1>6, IdsAre, InOrderIs
<1>8. new \in Seq(Ids)
  BY <1>4, <1>7, CutType
<1>9. ASSUME Cardinality(all) <= topK
      PROVE  \A id \in all : \E n \in 1..Len(new) : new[n] = id
  <2>1. new = order
    BY <1>2, <1>4, <1>7, <1>9, CutType
  <2>2. \A i \in 1..Len(ids) : \E n \in 1..Len(order) : order[n] = ids[i]
    BY <1>7, Zenon DEF HasAll
  <2> QED BY <1>2, <2>1, <2>2
<1> QED BY <1>3, <1>8, <1>9

(* The vector store: only what it names matters. *)
LEMMA SearchVectorsIs ==
    ASSUME embedded \in SUBSET Ids, NEW text \in Texts, NEW tenant, NEW topK \in Int,
           NEW new, new = SearchVectors(tenant, text, topK)
    PROVE  new \in Seq(Candidate(Ids))
<1> DEFINE all == {id \in embedded : Memory[id].tenant = tenant}
           ids == Listed(all)
           v == [i \in 1..Len(ids) |-> Similarity(text, ids[i])]
           order == Names(SortById([i \in 1..Len(ids) |-> [id |-> ids[i], score |-> Similarity(text, ids[i])]]))
           list == Cut(order, topK)
           w == [i \in 1..Len(list) |-> Similarity(text, list[i])]
<1>0. \A id \in Ids : Similarity(text, id) \in Int
  BY SearchAssumption
<1>1. new = Made([i \in 1..Len(list) |-> [id |-> list[i], score |-> Similarity(text, list[i])]])
  BY DEF SearchVectors, InOrder, Names
<1>2. ids \in Seq(Ids)
  <2>1. all \in SUBSET Ids /\ ids \in Seq(all)
    BY ListedIs
  <2> HIDE DEF ids, all
  <2> QED BY <2>1
<1> HIDE DEF ids
<1>3. v \in [1..Len(ids) -> Int]
  <2>1. \A i \in 1..Len(ids) : Similarity(text, ids[i]) \in Int
    BY <1>0, <1>2
  <2> QED BY <2>1
<1>4. order = Names(SortById(Valued(ids, v)))
  <2>1. [i \in 1..Len(ids) |-> [id |-> ids[i], score |-> Similarity(text, ids[i])]] = Valued(ids, v)
    BY DEF Valued
  <2> QED BY <2>1
<1> HIDE DEF v, order
<1>5. order \in Seq(Ids)
  BY <1>2, <1>3, <1>4, IdsAre, InOrderIs
<1>6. list \in Seq(Ids)
  BY <1>5, CutType
<1> HIDE DEF list
<1>7. w \in [1..Len(list) -> Int]
  <2>1. \A i \in 1..Len(list) : Similarity(text, list[i]) \in Int
    BY <1>0, <1>6
  <2> QED BY <2>1
<1>8. new = Made(Valued(list, w))
  <2>1. [i \in 1..Len(list) |-> [id |-> list[i], score |-> Similarity(text, list[i])]] = Valued(list, w)
    BY DEF Valued
  <2> QED BY <1>1, <2>1
<1> HIDE DEF w
<1> QED BY <1>6, <1>7, <1>8, ValuedAre

LEMMA ListByEntityRelationIs ==
    ASSUME linked \in SUBSET Ids, NEW tenant, NEW entity, NEW relations,
           NEW new, new = ListByEntityRelation(tenant, entity, relations)
    PROVE  new \in Seq(Ids) /\ Distinct(new)
<1> DEFINE all == {id \in linked : /\ Memory[id].tenant = tenant
                                  /\ \E f \in Memory[id].facts :
                                        /\ f.entity = entity /\ f.relation \in relations
                                        /\ (settings.singleton => f.active)}
<1>1. new = Listed(all)
  <2>1. all = {id \in linked : /\ Memory[id].tenant = tenant
                               /\ \E f \in Memory[id].facts :
                                     /\ (f.entity = entity /\ f.relation \in relations)
                                     /\ (settings.singleton => f.active)}
    OBVIOUS
  <2> HIDE DEF all
  <2> QED BY <2>1 DEF ListByEntityRelation, FactMemories
<1>2. all \in SUBSET Ids
  OBVIOUS
<1> HIDE DEF all
<1>3. new \in Seq(all) /\ Distinct(new)
  BY <1>1, <1>2, ListedIs
<1> QED BY <1>2, <1>3

(* The memories of a turn. *)
OfTurn(tenant, turn) == {id \in rows : Memory[id].tenant = tenant /\ Memory[id].turn = turn}

LEMMA ListBySourceTurnIs ==
    ASSUME rows \in SUBSET Ids, NEW tenant, NEW turn, NEW new, new = ListBySourceTurn(tenant, turn)
    PROVE  new \in Seq(OfTurn(tenant, turn))
<1> DEFINE all == OfTurn(tenant, turn)
           ids == Listed(all)
           rank(id) == ByKind(2, 3, 1, 4)[Memory[id].kind]
           v == [i \in 1..Len(ids) |-> rank(ids[i])]
           order == Names(SortById([i \in 1..Len(ids) |-> [id |-> ids[i], score |-> rank(ids[i])]]))
<1>1. new = Cut(order, 4)
  BY DEF ListBySourceTurn, InOrder, Names, OfTurn
<1>2. all \in SUBSET Ids /\ all \in SUBSET Int
  BY IdsAre DEF OfTurn
<1>3. ids \in Seq(all)
  BY <1>2, ListedIs
<1>4. \A id \in all : rank(id) \in Int
  <2> TAKE id \in all
  <2>1. Memory[id].kind \in KindNames
    BY <1>2, MemoryIs DEF MemoryOK
  <2> QED BY <2>1 DEF ByKind, KindNames
<1> HIDE DEF all, ids, rank
<1>5. v \in [1..Len(ids) -> Int]
  <2>1. \A i \in 1..Len(ids) : rank(ids[i]) \in Int
    BY <1>3, <1>4
  <2> QED BY <2>1
<1>6. order = Names(SortById(Valued(ids, v)))
  <2>1. [i \in 1..Len(ids) |-> [id |-> ids[i], score |-> rank(ids[i])]] = Valued(ids, v)
    BY DEF Valued
  <2> QED BY <2>1
<1> HIDE DEF v, order
<1>7. order \in Seq(all)
  BY <1>2, <1>3, <1>5, <1>6, InOrderIs
<1>8. new \in Seq(all)
  <2>1. PICK n \in Int : n = 4
    OBVIOUS
  <2> QED BY <1>1, <1>7, <2>1, CutType
<1> QED BY <1>8 DEF all

-----------------------------------------------------------------------------
(* The texts that are asked.                                               *)

LEMMA PickedFirst ==
    ASSUME NEW T, NEW list \in Seq(T), NEW places \in SUBSET (1..Len(list)), 1 \in places
    PROVE  Picked(list, places) # <<>> /\ Picked(list, places)[1] = list[1]
<1> DEFINE R == {p \in places \X places : p[1] < p[2]}
           order == Ascending(places)
           new == [n \in 1..Cardinality(places) |-> list[order[n]]]
<1>1. /\ IsFiniteSet(places) /\ places \in SUBSET Int /\ Cardinality(places) \in Nat
      /\ \A i \in places : i >= 1 /\ list[i] \in T
  <2>1. \A i \in places : i \in 1..Len(list)
    OBVIOUS
  <2>2. \A i \in 1..Len(list) : i >= 1 /\ list[i] \in T
    OBVIOUS
  <2> QED BY <2>1, <2>2, PlacesFinite
<1>2. \A s, t \in places : <<s, t>> \in R <=> s < t
  OBVIOUS
<1>3. order = SortedBy(places, R)
  BY DEF Ascending
<1> HIDE DEF R, order
<1>4. Orders(R, places)
  BY <1>1, <1>2 DEF Orders
<1>5. PICK one \in places : one = 1
  OBVIOUS
<1>a. Place(places, R, one) = 1
  <2>1. \A t \in places : t \in Int /\ t >= one
    BY <1>1, <1>5
  <2>b. \A t \in places : <<t, one>> \notin R
    BY <1>2, <1>5, <2>1
  <2>c. Below(places, R, one) = {}
    BY <2>b, Zenon DEF Below
  <2>2. Cardinality(Below(places, R, one)) = 0
    BY <2>c, FS_EmptySet
  <2> QED BY <2>2 DEF Place
<1>6. Sorts(order, places, R)
  BY <1>3, <1>4, SortedBySorts
<1>7. Cardinality(places) >= 1
  BY <1>1, FS_EmptySet
<1>8. order[1] \in places /\ Place(places, R, order[1]) = 1
  BY <1>1, <1>6, <1>7 DEF Sorts
<1>9. order[1] = 1
  BY <1>4, <1>5, <1>8, <1>a, PlacesDiffer
<1>10. \A n \in 1..Cardinality(places) : order[n] \in places
  BY <1>6 DEF Sorts
<1>11. new \in Seq(T) /\ Len(new) = Cardinality(places) /\ new[1] = list[1]
  <2>1. \A n \in 1..Cardinality(places) : list[order[n]] \in T
    BY <1>1, <1>10
  <2>2. new \in Seq(T) /\ Len(new) = Cardinality(places)
    BY <1>1, <2>1
  <2> QED BY <1>1, <1>7, <1>9, <2>2
<1>12. Picked(list, places) = Made(new)
  BY DEF Picked, order
<1> HIDE DEF new
<1>13. Picked(list, places) = new
  BY <1>11, <1>12, MadeSame
<1> QED BY <1>7, <1>11, <1>13

LEMMA AppendUniqueIs ==
    ASSUME NEW base \in Seq(Texts), NEW extra \in Seq(Texts), NEW new, new = AppendUnique(base, extra)
    PROVE  /\ new \in Seq(Texts)
           /\ base # <<>> \/ extra # <<>> => new # <<>>
           /\ base = <<>> /\ extra # <<>> => Head(new) = Head(extra)
<1> DEFINE all == base \o extra
           isNew(i) == i <= Len(base) \/ \A j \in 1..(i - 1) : KeyOf[all[j]] # KeyOf[all[i]]
           places == {i \in 1..Len(all) : isNew(i)}
<1>1. new = Picked(all, places)
  BY DEF AppendUnique
<1>2. all \in Seq(Texts) /\ (base # <<>> \/ extra # <<>> => Len(all) >= 1)
      /\ (base = <<>> /\ extra # <<>> => all[1] = extra[1])
  OBVIOUS
<1>3. places \in SUBSET (1..Len(all)) /\ (Len(all) >= 1 => 1 \in places)
  OBVIOUS
<1> HIDE DEF all, places
<1>4. new \in Seq(Texts)
  BY <1>1, <1>2, <1>3, PickedHolds
<1>5. ASSUME Len(all) >= 1
      PROVE  new # <<>> /\ new[1] = all[1]
  BY <1>1, <1>2, <1>3, <1>5, PickedFirst
<1> QED BY <1>2, <1>4, <1>5

LEMMA SearchQueriesAre ==
    ASSUME NEW q \in Queries, NEW query, query = Planned(q), NEW new, new = SearchQueries(query)
    PROVE  new \in Seq(Texts) /\ new # <<>> /\ Head(new) = q.text
<1>1. /\ query.text = q.text /\ q.text \in Texts
      /\ query.rewrites \in Seq(Texts) /\ query.parts \in Seq(Texts)
  BY QueryIs DEF TextFields
<1> DEFINE more == IF query.temporal \/ query.multiHop THEN query.parts ELSE <<>>
           extra == <<q.text>> \o query.rewrites \o more
<1>2. more \in Seq(Texts)
  BY <1>1
<1> HIDE DEF more
<1>3. extra \in Seq(Texts) /\ extra # <<>> /\ Head(extra) = q.text
  BY <1>1, <1>2
<1>4. new = AppendUnique(<<>>, extra)
  BY <1>1 DEF SearchQueries, IntentAwareRewrites, more
<1> HIDE DEF extra
<1>5. <<>> \in Seq(Texts)
  OBVIOUS
<1> QED BY <1>3, <1>4, <1>5, AppendUniqueIs

-----------------------------------------------------------------------------
(* What a search has found so far.  k is its record, R the rows of now and *)
(* s the settings.                                                         *)

Fields == {"at", "req", "query", "topK", "kinds", "round", "todo", "planned", "hinted", "lexical",
           "vectors", "dense", "misses", "ranked", "out", "cut", "route", "alive", "steady"}

(* The request as it was accepted, and the kinds of this pass. *)
Frame(k, s) ==
    /\ DOMAIN k = Fields
    /\ Valid(k.req) /\ k.req.query \in Queries
    /\ k.query = Planned(k.req.query)
    /\ k.topK \in Nat \ {0}
    /\ \/ k.kinds = k.req.kinds
       \/ s.preferCanonical /\ s.entityRepo /\ k.req.kinds = {} /\ k.kinds = CanonicalKinds

(* What it watches of the rows. *)
Watching(k, R) ==
    /\ k.alive \subseteq Ids /\ R \subseteq k.alive
    /\ k.steady \subseteq R

ListsOK(k) ==
    /\ k.todo \in Seq(Texts) /\ k.planned \in Seq(Texts) /\ k.misses \in Seq(Texts)
    /\ k.hinted \in Seq(Candidate(Ids)) /\ k.lexical \in Seq(Candidate(Ids)) /\ k.dense \in Seq(Candidate(Ids))
    /\ k.out \in Seq(Ids)

Basis(k, R, s) == Frame(k, s) /\ Watching(k, R) /\ ListsOK(k)

(* The memories that the lexical pass over the query itself must find. *)
Wanted(k) == Matches(k.req.tenant, k.req.query.text, k.kinds, k.req.tiers, k.steady)
IdsOf(list) == {list[i].id : i \in 1..Len(list)}
Collected(k) == k.cut \/ Wanted(k) \subseteq IdsOf(k.lexical)

NoVectors(k) == k.vectors = <<>> /\ k.misses = <<>>
Gathered(k) == NoVectors(k) /\ k.planned # <<>> /\ Collected(k)

Vector(found) == [text : Texts, vector : found]

(* An id of the tenant that was stored during the search and passes the filters. *)
Proper(k, id) == Memory[id].tenant = k.req.tenant /\ id \in k.alive
Answered(k, id) == Passes(id, k.req.kinds, {}) /\ Passes(id, {}, k.req.tiers)

OutOK(k, out) == Distinct(out) /\ \A i \in 1..Len(out) : Proper(k, out[i])
Exact(k, out) == \A i \in 1..Len(out) : Answered(k, out[i])
Grounds(k, out) ==
    \A i \in 1..Len(out) :
        \/ Answered(k, out[i])
        \/ k.req.kinds = {} /\ \E j \in 1..(i - 1) :
              Memory[out[j]].turn = Memory[out[i]].turn /\ Passes(out[j], {}, k.req.tiers)
Complete(k, out) == k.route = "facts" \/ k.cut \/ k.req.minScore # 0 \/ Wanted(k) \subseteq In(out)

Stage(k) ==
    /\ k.at \in {"facts", "hint"} => NoVectors(k)
    /\ k.at = "lexical" => /\ NoVectors(k) /\ k.planned # <<>> /\ k.todo # <<>>
                           /\ Head(k.todo) = k.req.query.text \/ Collected(k)
    /\ k.at \in {"decompose", "bridge"} => Gathered(k)
    /\ k.at \in {"lookup", "embed", "remember", "vector", "fuse"} => Collected(k)
    /\ k.at = "lookup" => k.todo # <<>>
    /\ k.at \in {"lookup", "embed"} => k.vectors \in Seq(Vector(Texts \cup {None}))
    /\ k.at = "lookup" /\ k.misses = <<>> => k.vectors \in Seq(Vector(Texts))
    /\ k.at \in {"embed", "remember"} => k.misses # <<>>
    /\ k.at \in {"remember", "vector"} => k.vectors \in Seq(Vector(Texts))
    /\ k.at \in {"expand", "touch"} => OutOK(k, k.out) /\ Complete(k, k.out)
    /\ k.at = "expand" => k.req.kinds = {} /\ Exact(k, k.out)
    /\ k.at = "touch" => Grounds(k, k.out)

Going(k, R, s) == Basis(k, R, s) /\ Stage(k)

StoresOK ==
    /\ settings \in Settings
    /\ rows \in SUBSET Ids /\ gone \in SUBSET Ids /\ rows \cap gone = {}
    /\ embedded \in SUBSET Ids /\ linked \in SUBSET Ids /\ touched \in SUBSET Ids

LEMMA FrameIs ==
    ASSUME NEW s \in Settings, NEW k, Frame(k, s)
    PROVE  /\ k.query.text = k.req.query.text /\ k.query.text \in Texts
           /\ IsSeq(k.query.words)
           /\ \A field \in TextFields : k.query[field] \in Seq(Texts)
           /\ k.topK \in Nat \ {0} /\ CandidateWindow(k.topK, k.query, Filtered(k), s) \in Int
<1>1. k.req.query \in Queries /\ k.query = Planned(k.req.query) /\ k.topK \in Nat \ {0}
  BY DEF Frame
<1>2. CandidateWindow(k.topK, k.query, Filtered(k), s) \in Int
  BY <1>1, SettingsAre, CandidateWindowType
<1> QED BY <1>1, <1>2, QueryIs

LEMMA WindowIs ==
    ASSUME StoresOK, NEW k, Frame(k, settings)
    PROVE  Window(k) \in Int /\ settings \in Settings
BY FrameIs DEF StoresOK, Window

LEMMA GreaterIs ==
    ASSUME NEW a \in Int, NEW b \in Int
    PROVE  Max({a, b}) \in Int
BY TwoNumbers

-----------------------------------------------------------------------------
(* Lists of candidates.                                                    *)

(* Some of the candidates, the best first. *)
LEMMA SomeBest ==
    ASSUME NEW ids \in Seq(Ids), NEW v \in [1..Len(ids) -> Int], NEW list, list = Made(Valued(ids, v)),
           NEW places \in SUBSET (1..Len(list)), NEW n \in Int,
           NEW new, new = Cut(SortById(Picked(list, places)), n)
    PROVE  new \in Seq(Candidate(Ids))
<1>1. list \in Seq(Candidate(Ids))
  BY ValuedAre
<1> PICK good : good = Picked(list, places)
  OBVIOUS
<1>2. good \in Seq(Candidate(Ids))
  BY <1>1, PickedHolds
<1> PICK sorted : sorted = SortById(good)
  OBVIOUS
<1>3. sorted \in Seq(Candidate(Ids))
  BY <1>2, IdsAre, SortedCandidates
<1> QED BY <1>3, CutType

(* What CollectEntityHints puts in front. *)
LEMMA HintsFoundAre ==
    ASSUME StoresOK, NEW k, Frame(k, settings)
    PROVE  HintsFound(k) \in Seq(Candidate(Ids))
<1> DEFINE named == ListByEntityRelation(k.req.tenant, EntityHint(k.query), HintRelations)
           loaded == GetByIDs(k.req.tenant, named)
           ids == Fresh(loaded, k)
           v == [i \in 1..Len(ids) |-> ContentScore[k.query.text][ids[i]]]
           list == Made([i \in 1..Len(ids) |-> [id |-> ids[i], score |-> ContentScore[k.query.text][ids[i]]]])
           places == {i \in 1..Len(list) : list[i].score >= 120}
           n == Max({8, Window(k) \div 2})
<1>1. HintsFound(k) = Cut(SortById(Picked(list, places)), n)
  BY DEF HintsFound, Kept, Candidates
<1>2. named \in Seq(Ids)
  BY ListByEntityRelationIs DEF StoresOK
<1> HIDE DEF named
<1>3. loaded \in Seq(Ids)
  BY <1>2, GetByIDsIs
<1> HIDE DEF loaded
<1>4. ids \in Seq(Ids)
  BY <1>3, FreshIs
<1> HIDE DEF ids
<1>5. k.query.text \in Texts
  BY FrameIs DEF StoresOK
<1>6. v \in [1..Len(ids) -> Int]
  <2>1. \A i \in 1..Len(ids) : ContentScore[k.query.text][ids[i]] \in Int
    BY <1>4, <1>5, ContentScoreIs
  <2> QED BY <2>1
<1>7. list = Made(Valued(ids, v))
  <2>1. [i \in 1..Len(ids) |-> [id |-> ids[i], score |-> ContentScore[k.query.text][ids[i]]]] = Valued(ids, v)
    BY DEF Valued
  <2> QED BY <2>1
<1>8. places \in SUBSET (1..Len(list))
  OBVIOUS
<1>9. n \in Int
  <2>1. PICK a, b \in Int : a = 8 /\ b = Window(k) \div 2
    <3> PICK w \in Int : w = Window(k)
      BY WindowIs
    <3> QED OBVIOUS
  <2> QED BY <2>1, GreaterIs
<1> HIDE DEF v, list, places, n
<1> QED BY <1>1, <1>4, <1>6, <1>7, <1>8, <1>9, SomeBest

LEMMA TraversalScoreType ==
    ASSUME NEW tenant, NEW seeds, NEW relations, NEW id
    PROVE  TraversalScore(tenant, seeds, relations, id) \in Int
<1> DEFINE hops == Hops(tenant, seeds, id)
           hinted == \E f \in Memory[id].facts : f.relation \in relations
           valid == ~settings.temporalValidity \/ \E f \in Memory[id].facts : f.active
<1>1. hops \in {0, 1, 2}
  BY DEF Hops
<1>2. TraversalScore(tenant, seeds, relations, id)
        = IF hops = 0 \/ ~valid \/ hops > settings.maxHops THEN 0
          ELSE 112 + 250 \div (4 * hops - 2) + (IF hinted THEN 300 ELSE 135)
  BY DEF TraversalScore
<1> HIDE DEF hops, hinted, valid
<1>3. hops # 0 => 112 + 250 \div (4 * hops - 2) + (IF hinted THEN 300 ELSE 135) \in Int
  BY <1>1
<1> QED BY <1>2, <1>3

LEMMA GraphBridgeCandidateScoreType ==
    ASSUME settings \in Settings, NEW text \in Texts, NEW id \in Ids, NEW seeds, NEW path \in Int
    PROVE  GraphBridgeCandidateScore(text, id, seeds, path) \in Int
<1>a. PICK score \in Int : score = ContentScore[text][id]
  BY ContentScoreIs
<1>b. PICK a, b \in Int : a = 720 /\ b = 280
  OBVIOUS
<1>c. PICK weight \in Int : weight = settings.graphWeight
  BY SettingsAre
<1> DEFINE base == Clamp01(Times(score, a) + Plus(seeds \cap Memory[id].entities # {}, b))
           blend == Times(base, One - weight) + Times(path, weight)
<1>1. base \in Int
  <2>1. Times(score, a) \in Int /\ Plus(seeds \cap Memory[id].entities # {}, b) \in Int
    BY TimesInt DEF Plus
  <2>2. Times(score, a) + Plus(seeds \cap Memory[id].entities # {}, b) \in Int
    BY <2>1
  <2>3. base \in Nat
    BY <2>2, Clamp01Type
  <2> QED BY <2>3
<1>2. GraphBridgeCandidateScore(text, id, seeds, path) = IF path = 0 \/ weight = 0 THEN base ELSE Clamp01(blend)
  BY <1>a, <1>b, <1>c DEF GraphBridgeCandidateScore
<1> HIDE DEF base
<1>3. Clamp01(blend) \in Int
  <2>1. PICK rest \in Int : rest = One - weight
    BY DEF One
  <2>2. Times(base, rest) \in Int /\ Times(path, weight) \in Int
    BY <1>1, <2>1, TimesInt
  <2>3. blend \in Int
    BY <2>1, <2>2
  <2>4. Clamp01(blend) \in Nat
    BY <2>3, Clamp01Type
  <2> QED BY <2>4
<1> QED BY <1>1, <1>2, <1>3

(* What CollectGraphBridge adds. *)
LEMMA BridgeFoundAre ==
    ASSUME StoresOK, NEW k, Frame(k, settings)
    PROVE  BridgeFound(k) \in Seq(Candidate(Ids))
<1> DEFINE seeds == Seeds(k)
           score(id) == TraversalScore(k.req.tenant, seeds, RelationHints(k.query), id)
           path(id) == IF settings.paths /\ score(id) >= settings.graphMinScore THEN score(id) ELSE 0
           named == {id \in linked : path(id) > 0} \cup About(k.req.tenant, seeds)
           listed == Listed(named)
           loaded == GetByIDs(k.req.tenant, listed)
           ids == Fresh(loaded, k)
           value(id) == GraphBridgeCandidateScore(k.query.text, id, seeds, path(id))
           v == [i \in 1..Len(ids) |-> value(ids[i])]
           list == Made([i \in 1..Len(ids) |-> [id |-> ids[i], score |-> value(ids[i])]])
           places == {i \in 1..Len(list) : list[i].score >= IF path(list[i].id) > 0 THEN settings.graphMinScore ELSE 160}
           n == Max({12, Window(k)})
<1>1. BridgeFound(k) = Cut(SortById(Picked(list, places)), n)
  BY DEF BridgeFound, Kept, Candidates
<1>2. \A id : path(id) \in Int
  <2>1. \A id : score(id) \in Int
    BY TraversalScoreType
  <2> HIDE DEF score
  <2> QED BY <2>1
<1> HIDE DEF path, seeds
<1>3. named \in SUBSET Ids
  BY DEF StoresOK, About
<1> HIDE DEF named
<1>4. listed \in Seq(Ids)
  <2>1. listed \in Seq(named)
    BY <1>3, ListedIs
  <2> HIDE DEF listed
  <2> QED BY <1>3, <2>1
<1> HIDE DEF listed
<1>5. loaded \in Seq(Ids)
  BY <1>4, GetByIDsIs
<1> HIDE DEF loaded
<1>6. ids \in Seq(Ids)
  BY <1>5, FreshIs
<1> HIDE DEF ids
<1>7. k.query.text \in Texts /\ settings \in Settings
  BY FrameIs DEF StoresOK
<1>8. v \in [1..Len(ids) -> Int]
  <2>1. \A i \in 1..Len(ids) : value(ids[i]) \in Int
    <3> TAKE i \in 1..Len(ids)
    <3>1. PICK p \in Int : p = path(ids[i])
      BY <1>2
    <3>2. ids[i] \in Ids
      BY <1>6
    <3> QED BY <1>7, <3>1, <3>2, GraphBridgeCandidateScoreType
  <2> HIDE DEF value
  <2> QED BY <2>1
<1> HIDE DEF value
<1>9. list = Made(Valued(ids, v))
  <2>1. [i \in 1..Len(ids) |-> [id |-> ids[i], score |-> value(ids[i])]] = Valued(ids, v)
    BY DEF Valued
  <2> QED BY <2>1
<1>10. places \in SUBSET (1..Len(list))
  OBVIOUS
<1>11. n \in Int
  <2>1. PICK a, b \in Int : a = 12 /\ b = Window(k)
    BY WindowIs
  <2> QED BY <2>1, GreaterIs
<1> HIDE DEF v, list, places, n
<1> QED BY <1>1, <1>6, <1>8, <1>9, <1>10, <1>11, SomeBest

(* What the lexical pass over a text adds: every match, if no list is cut. *)
LEMMA LexicalFoundAre ==
    ASSUME StoresOK, NEW k, Frame(k, settings), NEW text \in Texts,
           NEW all, all = Matches(k.req.tenant, text, k.kinds, k.req.tiers, rows)
    PROVE  /\ LexicalFound(k, text) \in Seq(Candidate(Ids))
           /\ Cardinality(all) > Window(k) \/ all \subseteq IdsOf(LexicalFound(k, text))
<1> PICK window \in Int : window = Window(k)
  BY WindowIs
<1> DEFINE ids == SearchRows(k.req.tenant, text, k.kinds, k.req.tiers, window)
           value(i) == Clamp01(Times(RankToNormalized(i, window), 800)
                               + Times(ContentScore[text][ids[i]], 200))
           v == [i \in 1..Len(ids) |-> value(i)]
           list == [i \in 1..Len(ids) |-> [id |-> ids[i], score |-> value(i)]]
<1>1. list = LexicalFound(k, text)
  BY DEF LexicalFound
<1>2. /\ ids \in Seq(Ids) /\ Cardinality(all) \in Nat
      /\ Cardinality(all) <= window => \A id \in all : \E n \in 1..Len(ids) : ids[n] = id
  BY SearchRowsIs DEF StoresOK
<1> HIDE DEF ids
<1>3. v \in [1..Len(ids) -> Int]
  <2>1. \A i \in 1..Len(ids) : value(i) \in Int
    <3> TAKE i \in 1..Len(ids)
    <3>1. PICK id \in Ids : id = ids[i]
      BY <1>2
    <3>2. i \in Nat
      BY <1>2
    <3>3. PICK a, b \in Int : a = 800 /\ b = 200
      OBVIOUS
    <3>4. PICK r, c \in Int : r = RankToNormalized(i, window) /\ c = ContentScore[text][id]
      <4>1. RankToNormalized(i, window) \in 0..One
        BY <3>2, RankToNormalizedType
      <4>2. \A x \in 0..One : x \in Int
        BY DEF One
      <4> QED BY <4>1, <4>2, ContentScoreIs
    <3>5. Times(r, a) \in Int /\ Times(c, b) \in Int
      BY TimesInt
    <3>6. Times(r, a) + Times(c, b) \in Int
      BY <3>5
    <3>7. Clamp01(Times(r, a) + Times(c, b)) \in Nat
      BY <3>6, Clamp01Type
    <3> QED BY <3>1, <3>3, <3>4, <3>7
  <2> HIDE DEF value
  <2> QED BY <2>1
<1> HIDE DEF value
<1>4. list = Valued(ids, v)
  BY DEF Valued
<1> HIDE DEF v, list
<1>5. /\ list \in Seq(Candidate(Ids)) /\ Len(list) = Len(ids)
      /\ \A i \in 1..Len(ids) : list[i].id = ids[i]
  <2>1. ids \in Seq(Ids)
    BY <1>2
  <2> QED BY <2>1, <1>3, <1>4, ValuedAre
<1>6. ASSUME ~(Cardinality(all) > window)
      PROVE  all \subseteq IdsOf(list)
  BY <1>2, <1>5, <1>6 DEF IdsOf
<1> QED BY <1>1, <1>5, <1>6

-----------------------------------------------------------------------------
(* From one stage of a search to the next.                                 *)

LEMMA RoundGoes ==
    ASSUME NEW k, NEW R, NEW s, Basis(k, R, s), NoVectors(k), NEW round,
           NEW texts \in Seq(Texts), texts # <<>>, Head(texts) = k.req.query.text \/ Collected(k)
    PROVE  Going(Round(k, round, texts), R, s)
<1>1. PICK planned : planned = AppendUnique(k.planned, texts)
  OBVIOUS
<1>2. planned \in Seq(Texts) /\ planned # <<>>
  BY <1>1, AppendUniqueIs DEF Basis, ListsOK
<1>3. PICK new : new = Round(k, round, texts)
  OBVIOUS
<1>4. new = [k EXCEPT !.at = "lexical", !.round = round, !.todo = texts, !.planned = planned]
  BY <1>1, <1>3 DEF Round
<1>5. Frame(new, s)
  BY <1>4 DEF Basis, Frame, Fields
<1>6. Watching(new, R)
  BY <1>4 DEF Basis, Frame, Fields, Watching
<1>7. ListsOK(new)
  BY <1>2, <1>4 DEF Basis, Frame, Fields, ListsOK
<1>8. Stage(new)
  BY <1>2, <1>4 DEF Basis, Frame, Fields, Stage, NoVectors, Collected, Wanted
<1> QED BY <1>3, <1>5, <1>6, <1>7, <1>8 DEF Going, Basis

LEMMA AdaptiveQueriesAre ==
    ASSUME settings \in Settings, NEW k, Frame(k, settings)
    PROVE  AdaptiveQueries(k) \in Seq(Texts) /\ IterativeQueries(k) \in Seq(Texts)
<1> PICK feedback, backoff, refined \in Seq(Texts) :
      feedback = FeedbackQueries(k.query, k.lexical) /\ backoff = k.query.backoff /\ refined = k.query.refined
  <2>1. \A field \in TextFields : k.query[field] \in Seq(Texts)
    BY FrameIs
  <2>2. k.query.feedback \in Seq(Texts) /\ k.query.backoff \in Seq(Texts) /\ k.query.refined \in Seq(Texts)
    BY <2>1 DEF TextFields
  <2>3. FeedbackQueries(k.query, k.lexical) \in Seq(Texts)
    BY <2>2 DEF FeedbackQueries
  <2> QED BY <2>2, <2>3
<1> PICK all : all = AppendUnique(feedback, backoff)
  OBVIOUS
<1>1. all \in Seq(Texts)
  BY AppendUniqueIs
<1>2. PICK n, two \in Int : n = settings.maxExtra /\ two = 2
  BY SettingsAre
<1>3. Cut(all, n) \in Seq(Texts) /\ Cut(refined, two) \in Seq(Texts)
  BY <1>1, CutType
<1>4. AdaptiveQueries(k) \in {<<>>, Cut(all, n)}
  BY <1>2 DEF AdaptiveQueries, LowConfidenceBackoffQueries
<1>5. IterativeQueries(k) \in {<<>>, Cut(refined, two)}
  BY <1>2 DEF IterativeQueries, QueriesWithNovelTokens
<1>6. <<>> \in Seq(Texts)
  OBVIOUS
<1> QED BY ONLY <1>3, <1>4, <1>5, <1>6

LEMMA AfterCandidatesGoes ==
    ASSUME NEW k, Basis(k, rows, settings), Gathered(k)
    PROVE  Going(AfterCandidates(k), rows, settings)
<1>1. CASE k.req.retrieval = "entity"
  <2>1. PICK new : new = [k EXCEPT !.at = "fuse"]
    OBVIOUS
  <2>2. Basis(new, rows, settings)
    BY <2>1 DEF Basis, Frame, Fields, Watching, ListsOK
  <2>3. Stage(new)
    BY <2>1 DEF Basis, Frame, Fields, Stage, Gathered, Collected, Wanted
  <2>4. AfterCandidates(k) = new
    BY <1>1, <2>1 DEF AfterCandidates
  <2> QED BY <2>2, <2>3, <2>4 DEF Going
<1>2. CASE k.req.retrieval # "entity"
  <2>1. PICK new : new = [k EXCEPT !.at = "lookup", !.todo = k.planned]
    OBVIOUS
  <2>2. Basis(new, rows, settings)
    BY <2>1 DEF Basis, Frame, Fields, Watching, ListsOK
  <2>3. <<>> \in Seq(Vector(Texts \cup {None})) /\ <<>> \in Seq(Vector(Texts))
    OBVIOUS
  <2>4. Stage(new)
    BY <2>1, <2>3 DEF Basis, Frame, Fields, Stage, Gathered, NoVectors, Collected, Wanted
  <2>5. AfterCandidates(k) = new
    BY <1>2, <2>1 DEF AfterCandidates
  <2> QED BY <2>2, <2>4, <2>5 DEF Going
<1> QED BY <1>1, <1>2

(* To a step that needs what the lexical passes found and no more. *)
LEMMA StepsTo ==
    ASSUME NEW k, Basis(k, rows, settings), Gathered(k), NEW at \in {"decompose", "bridge"}
    PROVE  Going([k EXCEPT !.at = at], rows, settings)
<1>1. PICK new : new = [k EXCEPT !.at = at]
  OBVIOUS
<1>2. Basis(new, rows, settings)
  BY <1>1 DEF Basis, Frame, Fields, Watching, ListsOK
<1>3. Stage(new)
  BY <1>1 DEF Basis, Frame, Fields, Stage, Gathered, NoVectors, Collected, Wanted
<1> QED BY <1>1, <1>2, <1>3 DEF Going

LEMMA AfterLexicalGoes ==
    ASSUME NEW k, Basis(k, rows, settings), Gathered(k)
    PROVE  Going(AfterLexical(k), rows, settings)
BY StepsTo, AfterCandidatesGoes DEF AfterLexical

LEMMA AfterDecomposedGoes ==
    ASSUME settings \in Settings, NEW k, Basis(k, rows, settings), Gathered(k)
    PROVE  Going(AfterDecomposed(k), rows, settings)
<1>1. IterativeQueries(k) \in Seq(Texts)
  BY AdaptiveQueriesAre DEF Basis
<1> QED BY <1>1, RoundGoes, AfterLexicalGoes DEF AfterDecomposed, Gathered

LEMMA AfterAdaptiveGoes ==
    ASSUME settings \in Settings, NEW k, Basis(k, rows, settings), Gathered(k)
    PROVE  Going(AfterAdaptive(k), rows, settings)
BY StepsTo, AfterLexicalGoes, AfterDecomposedGoes DEF AfterAdaptive

LEMMA AfterRoundGoes ==
    ASSUME settings \in Settings, NEW k, Basis(k, rows, settings), Gathered(k), k.round \in Rounds
    PROVE  Going(AfterRound(k), rows, settings)
<1>1. AdaptiveQueries(k) \in Seq(Texts)
  BY AdaptiveQueriesAre DEF Basis
<1> QED BY <1>1, RoundGoes, AfterLexicalGoes, AfterDecomposedGoes, AfterAdaptiveGoes
        DEF AfterRound, Gathered, Rounds

LEMMA HybridGoes ==
    ASSUME NEW k, Basis(k, rows, settings), NoVectors(k)
    PROVE  Going(Hybrid(k), rows, settings)
<1>1. CASE settings.entityRepo /\ EntityHint(k.query) # None
  <2>1. PICK new : new = [k EXCEPT !.at = "hint"]
    OBVIOUS
  <2>2. Basis(new, rows, settings)
    BY <2>1 DEF Basis, Frame, Fields, Watching, ListsOK
  <2>3. Stage(new)
    BY <2>1 DEF Basis, Frame, Fields, Stage, NoVectors
  <2> QED BY <1>1, <2>1, <2>2, <2>3 DEF Hybrid, Going
<1>2. CASE ~(settings.entityRepo /\ EntityHint(k.query) # None)
  <2>1. PICK texts : texts = SearchQueries(k.query)
    OBVIOUS
  <2>2. texts \in Seq(Texts) /\ texts # <<>> /\ Head(texts) = k.req.query.text
    BY <2>1, SearchQueriesAre DEF Basis, Frame
  <2> QED BY <1>2, <2>1, <2>2, RoundGoes DEF Hybrid
<1> QED BY <1>1, <1>2

(* A pass starts with nothing found. *)
LEMMA PassGoes ==
    ASSUME NEW k, NEW kinds, Basis([k EXCEPT !.kinds = kinds], rows, settings)
    PROVE  Going(Pass(k, kinds), rows, settings)
<1>1. PICK old : old = [k EXCEPT !.kinds = kinds]
  OBVIOUS
<1>2. DOMAIN k = Fields
  BY DEF Basis, Frame
<1>3. PICK fresh : fresh = [k EXCEPT !.kinds = kinds, !.planned = <<>>, !.hinted = <<>>, !.lexical = <<>>,
                                !.vectors = <<>>, !.dense = <<>>, !.cut = FALSE,
                                !.misses = <<>>, !.ranked = <<>>, !.out = <<>>, !.route = "hybrid"]
  OBVIOUS
<1>4. fresh = [old EXCEPT !.planned = <<>>, !.hinted = <<>>, !.lexical = <<>>,
                          !.vectors = <<>>, !.dense = <<>>, !.cut = FALSE,
                          !.misses = <<>>, !.ranked = <<>>, !.out = <<>>, !.route = "hybrid"]
  BY <1>1, <1>2, <1>3 DEF Fields
<1>5. Basis(old, rows, settings)
  BY <1>1
<1>6. <<>> \in Seq(Texts) /\ <<>> \in Seq(Candidate(Ids)) /\ <<>> \in Seq(Ids)
  OBVIOUS
<1>7. Frame(fresh, settings) /\ Watching(fresh, rows)
  BY <1>4, <1>5 DEF Basis, Frame, Fields, Watching
<1>8. ListsOK(fresh) /\ NoVectors(fresh)
  BY <1>4, <1>5, <1>6 DEF Basis, Frame, Fields, ListsOK, NoVectors
<1>9. Basis(fresh, rows, settings)
  BY <1>7, <1>8 DEF Basis
<1>10. Going(Hybrid(fresh), rows, settings)
  BY <1>8, <1>9, HybridGoes
<1>11. PICK facts : facts = [fresh EXCEPT !.at = "facts"]
  OBVIOUS
<1>12. Basis(facts, rows, settings)
  BY <1>9, <1>11 DEF Basis, Frame, Fields, Watching, ListsOK
<1>13. Stage(facts)
  BY <1>8, <1>9, <1>11 DEF Basis, Frame, Fields, Stage, NoVectors
<1>14. Going(facts, rows, settings)
  BY <1>12, <1>13 DEF Going
<1> QED BY <1>3, <1>10, <1>11, <1>14 DEF Pass

-----------------------------------------------------------------------------
(* From what was found to the answer.                                      *)

Memories == {Memory[id] : id \in Ids}

Itemised(ids, signals) ==
    Made([i \in 1..Len(ids) |-> [id |-> ids[i], memory |-> Memory[ids[i]], recency |-> Recency(ids[i]),
                                 signal |-> signals[i]]])

LEMMA ItemsAre ==
    ASSUME NEW ids \in Seq(Ids), NEW signals, \A i \in 1..Len(ids) : SignalOK(signals[i]),
           NEW items, items = Itemised(ids, signals)
    PROVE  /\ ItemsOK(items, Ids, Memories) /\ Len(items) = Len(ids)
           /\ \A i \in 1..Len(ids) : items[i].id = ids[i] /\ items[i].memory = Memory[ids[i]]
<1> DEFINE entry(i) == [id |-> ids[i], memory |-> Memory[ids[i]], recency |-> Recency(ids[i]),
                        signal |-> signals[i]]
           list == [i \in 1..Len(ids) |-> entry(i)]
           T == {entry(i) : i \in 1..Len(ids)}
<1>1. items = Made(list)
  BY DEF Itemised
<1>2. Len(ids) \in Nat /\ \A i \in 1..Len(ids) : ids[i] \in Ids
  OBVIOUS
<1>3. \A id \in Ids : Recency(id) \in 0..One
  BY MemoryIs DEF Recency, One
<1>4. \A i \in 1..Len(ids) :
         /\ entry(i).id = ids[i] /\ entry(i).id \in Ids
         /\ entry(i).memory = Memory[ids[i]] /\ entry(i).memory \in Memories
         /\ entry(i).recency \in 0..One /\ SignalOK(entry(i).signal)
  BY <1>2, <1>3 DEF Memories
<1> HIDE DEF entry
<1>5. list \in Seq(T) /\ Len(list) = Len(ids) /\ \A i \in 1..Len(ids) : list[i] = entry(i)
  BY <1>2
<1> HIDE DEF list
<1>6. items = list /\ IsSeq(list)
  BY <1>1, <1>5, MadeSame DEF IsSeq
<1> HIDE DEF T
<1> QED BY <1>4, <1>5, <1>6 DEF ItemsOK

LEMMA MemoriesAre == \A m \in Memories : MemoryOK(m)
BY MemoryIs DEF Memories

(* A list without repetitions is no longer than the memory. *)
LEMMA DistinctLength ==
    ASSUME NEW list, Len(list) \in Nat, \A i \in 1..Len(list) : list[i].id \in Ids, DistinctIds(list)
    PROVE  Len(list) <= Len(Memory)
<1> DEFINE f == [i \in 1..Len(list) |-> list[i].id]
<1>1. f \in [1..Len(list) -> Ids]
  OBVIOUS
<1>2. \A i, j \in 1..Len(list) : f[i] = f[j] => i = j
  BY DEF DistinctIds
<1> HIDE DEF f
<1>3. f \in Injection(1..Len(list), Ids)
  BY <1>1, <1>2 DEF Injection, IsInjective
<1>4. IsFiniteSet(Ids) /\ Cardinality(Ids) = Len(Memory)
  BY IdsAre
<1>5. Cardinality(1..Len(list)) <= Cardinality(Ids)
  BY <1>3, <1>4, FS_Injection
<1>6. Cardinality(1..Len(list)) = Len(list)
  <2>1. Len(list) \in Nat
    OBVIOUS
  <2> QED BY <2>1, IntervalCount
<1> QED BY <1>4, <1>5, <1>6

LEMMA DistinctCount ==
    ASSUME NEW T, NEW list \in Seq(T), Distinct(list)
    PROVE  Cardinality(In(list)) = Len(list)
<1> DEFINE f == [i \in 1..Len(list) |-> list[i]]
<1>1. Len(list) \in Nat
  OBVIOUS
<1>2. f \in [1..Len(list) -> In(list)] /\ \A v \in In(list) : \E i \in 1..Len(list) : f[i] = v
  BY DEF In
<1>3. \A i, j \in 1..Len(list) : f[i] = f[j] => i = j
  BY DEF Distinct
<1> HIDE DEF f
<1>4. ExistsBijection(1..Len(list), In(list))
  <2>1. f \in Bijection(1..Len(list), In(list))
    BY <1>2, <1>3 DEF Bijection, Injection, Surjection, IsInjective
  <2> QED BY <2>1, Zenon DEF ExistsBijection
<1>5. IsFiniteSet(1..Len(list)) /\ Cardinality(1..Len(list)) = Len(list)
  BY <1>1, IntervalCount
<1>6. Cardinality(In(list)) = Cardinality(1..Len(list))
  BY <1>4, <1>5, FS_Bijection
<1> QED BY <1>5, <1>6

Joined(new, a, b) ==
    /\ Len(new) = Len(a) + Len(b)
    /\ \A i \in 1..Len(a) : i \in 1..Len(new) /\ new[i] = a[i]
    /\ \A j \in 1..Len(b) : Len(a) + j \in 1..Len(new) /\ new[Len(a) + j] = b[j]
    /\ \A n \in 1..Len(new) : n \in 1..Len(a) \/ \E j \in 1..Len(b) : n = Len(a) + j

LEMMA JoinedIs ==
    ASSUME NEW S, NEW a \in Seq(S), NEW b \in Seq(S), NEW new, new = a \o b
    PROVE  new \in Seq(S) /\ Joined(new, a, b)
<1>1. Len(a) \in Nat /\ Len(b) \in Nat
  OBVIOUS
<1>2. new \in Seq(S) /\ Len(new) = Len(a) + Len(b)
  OBVIOUS
<1>3. \A i \in 1..Len(a) : i \in 1..Len(new) /\ new[i] = a[i]
  OBVIOUS
<1>4. \A j \in 1..Len(b) : Len(a) + j \in 1..Len(new) /\ new[Len(a) + j] = b[j]
  OBVIOUS
<1>5. ASSUME NEW n \in 1..Len(new), n \notin 1..Len(a)
      PROVE  \E j \in 1..Len(b) : n = Len(a) + j
  <2>1. n - Len(a) \in 1..Len(b) /\ n = Len(a) + (n - Len(a))
    BY <1>1, <1>2, <1>5
  <2> QED BY <2>1
<1> QED BY <1>2, <1>3, <1>4, <1>5 DEF Joined

LEMMA JoinedDistinct ==
    ASSUME NEW S, NEW a \in Seq(S), NEW b \in Seq(S), Distinct(a), Distinct(b),
           \A i \in 1..Len(a), j \in 1..Len(b) : a[i] # b[j]
    PROVE  Distinct(a \o b)
<1>a. PICK new : new = a \o b
  OBVIOUS
<1>2. /\ \A i \in 1..Len(a) : new[i] = a[i]
      /\ \A j \in 1..Len(b) : new[Len(a) + j] = b[j]
      /\ \A n \in 1..Len(new) : n \in 1..Len(a) \/ \E j \in 1..Len(b) : n = Len(a) + j
  <2>1. Joined(new, a, b)
    BY <1>a, JoinedIs
  <2> QED BY <2>1 DEF Joined
<1>1. SUFFICES ASSUME NEW m \in 1..Len(new), NEW n \in 1..Len(new), new[m] = new[n]
               PROVE  m = n
  BY <1>a DEF Distinct
<1>3. /\ \A i, j \in 1..Len(a) : a[i] = a[j] => i = j
      /\ \A i, j \in 1..Len(b) : b[i] = b[j] => i = j
  BY DEF Distinct
<1>4. CASE m \in 1..Len(a) /\ n \in 1..Len(a)
  BY <1>1, <1>2, <1>3, <1>4
<1>5. CASE m \in 1..Len(a) /\ n \notin 1..Len(a)
  <2>1. PICK j \in 1..Len(b) : n = Len(a) + j
    BY <1>2, <1>5
  <2>2. new[m] = a[m] /\ new[n] = b[j] /\ a[m] # b[j]
    BY <1>2, <1>5, <2>1
  <2> QED BY <1>1, <2>2
<1>6. CASE m \notin 1..Len(a) /\ n \in 1..Len(a)
  <2>1. PICK j \in 1..Len(b) : m = Len(a) + j
    BY <1>2, <1>6
  <2>2. new[n] = a[n] /\ new[m] = b[j] /\ a[n] # b[j]
    BY <1>2, <1>6, <2>1
  <2> QED BY <1>1, <2>2
<1>7. CASE m \notin 1..Len(a) /\ n \notin 1..Len(a)
  <2>1. PICK i, j \in 1..Len(b) : m = Len(a) + i /\ n = Len(a) + j
    BY <1>2, <1>7
  <2>2. new[m] = b[i] /\ new[n] = b[j]
    BY <1>2, <2>1
  <2> QED BY <1>1, <1>3, <2>1, <2>2
<1> QED BY <1>4, <1>5, <1>6, <1>7

LEMMA PreferCanonicalIs ==
    ASSUME NEW S, NEW ids \in Seq(S), Distinct(ids), NEW new, new = PreferCanonical(ids)
    PROVE  /\ new \in Seq(S) /\ Distinct(new)
           /\ ComesFrom(new, ids, 1..Len(ids)) /\ HasAll(new, ids, 1..Len(ids))
<1> DEFINE P == {i \in 1..Len(ids) : Memory[ids[i]].kind # "raw_turn"}
           Q == {i \in 1..Len(ids) : Memory[ids[i]].kind = "raw_turn"}
<1>1. PICK a, b : a = Picked(ids, P) /\ b = Picked(ids, Q)
  OBVIOUS
<1>2. new = a \o b
  BY <1>1 DEF PreferCanonical, Kept
<1>3. P \in SUBSET (1..Len(ids)) /\ Q \in SUBSET (1..Len(ids))
  OBVIOUS
<1>4. \A i \in 1..Len(ids) : i \in P \/ i \in Q
  OBVIOUS
<1>5. \A i \in P, j \in Q : ids[i] # ids[j]
  OBVIOUS
<1> HIDE DEF P, Q
<1>6. /\ a \in Seq(S) /\ Distinct(a) /\ ComesFrom(a, ids, P) /\ HasAll(a, ids, P)
      /\ b \in Seq(S) /\ Distinct(b) /\ ComesFrom(b, ids, Q) /\ HasAll(b, ids, Q)
  BY <1>1, <1>3, PickedHolds
<1>7. \A i \in 1..Len(a), j \in 1..Len(b) : a[i] # b[j]
  <2> TAKE i \in 1..Len(a), j \in 1..Len(b)
  <2>1. PICK p \in P : a[i] = ids[p]
    BY <1>6, Zenon DEF ComesFrom
  <2>2. PICK q \in Q : b[j] = ids[q]
    BY <1>6, Zenon DEF ComesFrom
  <2> QED BY <1>5, <2>1, <2>2
<1>8. /\ new \in Seq(S) /\ Len(new) = Len(a) + Len(b)
      /\ \A i \in 1..Len(a) : i \in 1..Len(new) /\ new[i] = a[i]
      /\ \A j \in 1..Len(b) : Len(a) + j \in 1..Len(new) /\ new[Len(a) + j] = b[j]
      /\ \A n \in 1..Len(new) : n \in 1..Len(a) \/ \E j \in 1..Len(b) : n = Len(a) + j
  <2>1. new \in Seq(S) /\ Joined(new, a, b)
    BY <1>2, <1>6, JoinedIs
  <2> QED BY <2>1 DEF Joined
<1>9. Distinct(new)
  BY ONLY <1>2, <1>6, <1>7, JoinedDistinct
<1>10. \A n \in 1..Len(new) : \E i \in 1..Len(ids) : new[n] = ids[i]
  <2> TAKE n \in 1..Len(new)
  <2>1. CASE n \in 1..Len(a)
    <3>1. PICK i \in P : a[n] = ids[i]
      BY <1>6, <2>1, Zenon DEF ComesFrom
    <3> QED BY <1>3, <1>8, <2>1, <3>1
  <2>2. CASE n \notin 1..Len(a)
    <3>1. PICK j \in 1..Len(b) : n = Len(a) + j
      BY <1>8, <2>2
    <3>2. PICK i \in Q : b[j] = ids[i]
      BY <1>6, <3>1, Zenon DEF ComesFrom
    <3> QED BY <1>3, <1>8, <3>1, <3>2
  <2> QED BY <2>1, <2>2
<1>11. \A i \in 1..Len(ids) : \E n \in 1..Len(new) : new[n] = ids[i]
  <2> TAKE i \in 1..Len(ids)
  <2>1. CASE i \in P
    <3>1. PICK n \in 1..Len(a) : a[n] = ids[i]
      BY <1>6, <2>1, Zenon DEF HasAll
    <3> QED BY <1>8, <3>1
  <2>2. CASE i \in Q
    <3>1. PICK n \in 1..Len(b) : b[n] = ids[i]
      BY <1>6, <2>2, Zenon DEF HasAll
    <3>2. Len(a) + n \in 1..Len(new) /\ new[Len(a) + n] = ids[i]
      BY <1>8, <3>1
    <3> QED BY <3>2
  <2>3. i \in P \/ i \in Q
    BY <1>4
  <2> QED BY <2>1, <2>2, <2>3
<1> QED BY <1>8, <1>9, <1>10, <1>11 DEF ComesFrom, HasAll

(* What is chosen of a ranked list passes the filters; with no least score *)
(* it is everything that does.                                             *)
ChosenOf(new, scored, k) ==
    /\ \A n \in 1..Len(new) : /\ Passes(new[n], k.kinds, k.req.tiers)
                              /\ \E i \in 1..Len(scored) : new[n] = scored[i].id
    /\ k.req.minScore = 0 =>
          \A i \in 1..Len(scored) : Passes(scored[i].id, k.kinds, k.req.tiers)
                                    => \E n \in 1..Len(new) : new[n] = scored[i].id

LEMMA ChosenIs ==
    ASSUME NEW scored \in Seq(Scored(Ids, Memories)), DistinctIds(scored), NEW k, NEW new, new = Chosen(scored, k)
    PROVE  new \in Seq(Ids) /\ Distinct(new) /\ ChosenOf(new, scored, k)
<1> DEFINE places == {i \in 1..Len(scored) : scored[i].score >= k.req.minScore}
           good == Picked(scored, places)
           names == [i \in 1..Len(good) |-> good[i].id]
           ids == Fresh(names, k)
<1>1. new = IF k.kinds = {} THEN PreferCanonical(ids) ELSE ids
  BY DEF Chosen, Kept
<1>2. \A i \in 1..Len(scored) : scored[i].score >= 0
  <2>1. \A i \in 1..Len(scored) : scored[i].score \in 0..One
    BY IdsAre, ScoredAre
  <2>2. \A x \in 0..One : x >= 0
    BY DEF One
  <2> QED BY <2>1, <2>2
<1>3. places \in SUBSET (1..Len(scored)) /\ (k.req.minScore = 0 => \A i \in 1..Len(scored) : i \in places)
  BY <1>2
<1> HIDE DEF places
<1>4. /\ good \in Seq(Scored(Ids, Memories)) /\ DistinctIds(good)
      /\ ComesFrom(good, scored, places) /\ HasAll(good, scored, places)
  BY <1>3, PickedHolds
<1> HIDE DEF good
<1>5. /\ names \in Seq(Ids) /\ Len(names) = Len(good) /\ \A i \in 1..Len(good) : names[i] = good[i].id
  <2>1. Len(good) \in Nat /\ \A i \in 1..Len(good) : good[i].id \in Ids
    BY <1>4, IdsAre, ScoredAre
  <2> QED BY ONLY <2>1
<1> HIDE DEF names
<1>6. Distinct(names)
  BY <1>4, <1>5 DEF Distinct, DistinctIds
<1>7. /\ ids \in Seq(Ids) /\ Distinct(ids) /\ ComesFrom(ids, names, 1..Len(names))
      /\ \A n \in 1..Len(ids) : Passes(ids[n], k.kinds, k.req.tiers)
      /\ \A i \in 1..Len(names) : Passes(names[i], k.kinds, k.req.tiers) => \E n \in 1..Len(ids) : ids[n] = names[i]
  <2>1. PICK new0 : new0 = Fresh(names, k)
    OBVIOUS
  <2>2. /\ new0 \in Seq(Ids)
        /\ ComesFrom(new0, names, 1..Len(names))
        /\ \A n \in 1..Len(new0) : Passes(new0[n], k.kinds, k.req.tiers)
        /\ \A i \in 1..Len(names) : Passes(names[i], k.kinds, k.req.tiers)
                                    => \E n \in 1..Len(new0) : new0[n] = names[i]
        /\ Distinct(names) => Distinct(new0)
    <3>1. new0 \in Seq(Ids) /\ KeptFresh(new0, names, k)
      BY <1>5, <2>1, FreshIs
    <3> QED BY <3>1 DEF KeptFresh
  <2> QED BY <1>6, <2>1, <2>2
<1> HIDE DEF ids
<1>8. \A n \in 1..Len(ids) : \E i \in 1..Len(scored) : ids[n] = scored[i].id
  <2> TAKE n \in 1..Len(ids)
  <2>1. PICK j \in 1..Len(names) : ids[n] = names[j]
    BY <1>7, Zenon DEF ComesFrom
  <2>2. PICK i \in places : good[j] = scored[i]
    BY <1>4, <1>5, <2>1, Zenon DEF ComesFrom
  <2> QED BY <1>3, <1>5, <2>1, <2>2
<1>9. ASSUME k.req.minScore = 0, NEW i \in 1..Len(scored), Passes(scored[i].id, k.kinds, k.req.tiers)
      PROVE  \E n \in 1..Len(ids) : ids[n] = scored[i].id
  <2>1. i \in places
    BY <1>3, <1>9
  <2>2. PICK j \in 1..Len(good) : good[j] = scored[i]
    BY <1>4, <2>1, Zenon DEF HasAll
  <2> QED BY <1>5, <1>7, <1>9, <2>2
<1>10. CASE k.kinds # {}
  <2>1. new = ids
    BY <1>1, <1>10
  <2>2. \A n \in 1..Len(ids) : /\ Passes(ids[n], k.kinds, k.req.tiers)
                               /\ \E i \in 1..Len(scored) : ids[n] = scored[i].id
    BY <1>7, <1>8
  <2> QED BY ONLY <1>7, <1>9, <2>1, <2>2 DEF ChosenOf
<1>11. CASE k.kinds = {}
  <2>1. /\ new \in Seq(Ids) /\ Distinct(new)
        /\ ComesFrom(new, ids, 1..Len(ids)) /\ HasAll(new, ids, 1..Len(ids))
    BY <1>1, <1>7, <1>11, PreferCanonicalIs
  <2>2. /\ \A n \in 1..Len(new) : \E i \in 1..Len(ids) : new[n] = ids[i]
        /\ \A i \in 1..Len(ids) : \E n \in 1..Len(new) : new[n] = ids[i]
    BY <2>1, Zenon DEF ComesFrom, HasAll
  <2>3. \A n \in 1..Len(new) : /\ Passes(new[n], k.kinds, k.req.tiers)
                               /\ \E i \in 1..Len(scored) : new[n] = scored[i].id
    BY <1>7, <1>8, <2>2
  <2>4. ASSUME k.req.minScore = 0, NEW i \in 1..Len(scored), Passes(scored[i].id, k.kinds, k.req.tiers)
        PROVE  \E n \in 1..Len(new) : new[n] = scored[i].id
    BY <1>9, <2>2, <2>4
  <2> QED BY <2>1, <2>3, <2>4 DEF ChosenOf
<1> QED BY <1>10, <1>11

(* All of a list that passes the filters is in the answer. *)
Keeps(k, out, ids) ==
    \A i \in 1..Len(ids) : Passes(ids[i], k.kinds, k.req.tiers) => ids[i] \in In(out)

(* What is ranked, re-ranked and chosen of the rows that were loaded. *)
LEMMA RankedAnswer ==
    ASSUME StoresOK, NEW k, Basis(k, rows, settings),
           NEW loaded \in Seq(Ids), Distinct(loaded),
           \A n \in 1..Len(loaded) : loaded[n] \in rows /\ Memory[loaded[n]].tenant = k.req.tenant,
           NEW signals, \A i \in 1..Len(loaded) : SignalOK(signals[i]), NEW limit \in Int,
           NEW scored, scored = RankMemories(Itemised(loaded, signals), limit, k.query, settings),
           NEW best, \/ best = PairwiseReranked(scored, k.query, k.topK, settings)
                     \/ best = Reranked(scored, k.query, k.topK, settings),
           NEW out, out = Chosen(best, k)
    PROVE  /\ out \in Seq(Ids) /\ OutOK(k, out) /\ Exact(k, out)
           /\ k.req.minScore = 0 => Keeps(k, out, loaded)
<1>1. PICK items : items = Itemised(loaded, signals)
  OBVIOUS
<1>2. /\ ItemsOK(items, Ids, Memories) /\ Len(items) = Len(loaded)
      /\ \A i \in 1..Len(loaded) : items[i].id = loaded[i]
  BY <1>1, ItemsAre
<1>3. DistinctIds(items)
  BY <1>2 DEF DistinctIds, Distinct
<1>4. Frame(k, settings) /\ settings \in Settings /\ IsSeq(k.query.words) /\ k.topK \in Nat \ {0}
  BY FrameIs DEF Basis, StoresOK
<1>5. ServerOK(settings) /\ WeightsOK(settings) /\ Ids \in SUBSET Int
  BY <1>4, SettingsAre, IdsAre DEF ServerOK
<1>6. scored \in Seq(Scored(Ids, Memories)) /\ SameIds(scored, items)
  <2>1. scored = RankMemories(items, limit, k.query, settings)
    BY <1>1
  <2>2. \A m \in Memories : MemoryOK(m)
    BY MemoriesAre
  <2> QED BY ONLY <1>2, <1>4, <1>5, <2>1, <2>2, limit \in Int, RankMemoriesType
<1>7. DistinctIds(scored)
  BY <1>3, <1>6, Zenon DEF SameIds
<1>8. \A n \in 1..Len(scored) : IdfOK(n)
  <2>1. Len(scored) \in Nat /\ \A i \in 1..Len(scored) : scored[i].id \in Ids
    BY <1>5, <1>6, ScoredAre
  <2>2. Len(scored) <= Len(Memory) /\ Len(Memory) \in Nat
    BY <1>7, <2>1, DistinctLength, IdsAre
  <2>3. \A n \in 1..Len(scored) : n \in 1..Len(Memory)
    BY <2>1, <2>2
  <2> QED BY <2>3, IdfIs
<1>9. best \in Seq(Scored(Ids, Memories)) /\ SameIds(best, scored)
  <2>1. \A m \in Memories : MemoryOK(m)
    BY MemoriesAre
  <2>2. PICK a, b : a = PairwiseReranked(scored, k.query, k.topK, settings)
                    /\ b = Reranked(scored, k.query, k.topK, settings)
    OBVIOUS
  <2>3. /\ a \in Seq(Scored(Ids, Memories)) /\ SameIds(a, scored)
        /\ b \in Seq(Scored(Ids, Memories)) /\ SameIds(b, scored)
    BY ONLY <1>4, <1>5, <1>6, <1>8, <2>1, <2>2, RerankedKeeps
  <2> QED BY <2>2, <2>3
<1>10. SameIds(best, items) /\ DistinctIds(best)
  <2>1. SameIds(best, items)
    BY <1>6, <1>9, SameIdsTransitive
  <2> QED BY <1>3, <2>1, Zenon DEF SameIds
<1>11. /\ out \in Seq(Ids) /\ Distinct(out)
       /\ \A n \in 1..Len(out) : /\ Passes(out[n], k.kinds, k.req.tiers)
                                 /\ \E i \in 1..Len(best) : out[n] = best[i].id
       /\ k.req.minScore = 0 =>
             \A i \in 1..Len(best) : Passes(best[i].id, k.kinds, k.req.tiers)
                                     => \E n \in 1..Len(out) : out[n] = best[i].id
  <2>1. out \in Seq(Ids) /\ Distinct(out) /\ ChosenOf(out, best, k)
    BY <1>9, <1>10, ChosenIs
  <2> QED BY <2>1 DEF ChosenOf
<1>12. \A n \in 1..Len(out) : \E i \in 1..Len(loaded) : out[n] = loaded[i]
  <2> TAKE n \in 1..Len(out)
  <2>1. PICK i \in 1..Len(best) : out[n] = best[i].id
    BY <1>11
  <2>2. PICK j \in 1..Len(items) : best[i].id = items[j].id
    BY <1>10, <2>1, Zenon DEF SameIds
  <2> QED BY <1>2, <2>1, <2>2
<1>13. \A n \in 1..Len(out) : Proper(k, out[n])
  BY <1>12 DEF Basis, Watching, Proper
<1>14. \A n \in 1..Len(out) : Answered(k, out[n])
  <2>1. k.kinds = k.req.kinds \/ k.req.kinds = {}
    BY <1>4 DEF Frame
  <2> QED BY <1>11, <2>1 DEF Answered, Passes
<1>15. ASSUME k.req.minScore = 0 PROVE Keeps(k, out, loaded)
  <2>1. SUFFICES ASSUME NEW i \in 1..Len(loaded), Passes(loaded[i], k.kinds, k.req.tiers)
                 PROVE  \E n \in 1..Len(out) : out[n] = loaded[i]
    BY DEF Keeps, In
  <2>2. PICK j \in 1..Len(best) : best[j].id = items[i].id
    BY <1>2, <1>10, Zenon DEF SameIds
  <2> QED BY <1>2, <1>11, <1>15, <2>1, <2>2
<1> QED BY <1>11, <1>13, <1>14, <1>15 DEF OutOK, Exact

-----------------------------------------------------------------------------
(* What follows an answer of the same turn.                                *)

Extends(new, list, more) ==
    /\ Len(list) <= Len(new)
    /\ \A i \in 1..Len(list) : i \in 1..Len(new) /\ new[i] = list[i]
    /\ \A n \in 1..Len(new) : n \in 1..Len(list) \/ (n > Len(list) /\ \E j \in 1..Len(more) : new[n] = more[j])
    /\ \A j \in 1..Len(more) : \E n \in 1..Len(new) : new[n] = more[j]

LEMMA AddedIs ==
    ASSUME NEW S, NEW list \in Seq(S), Distinct(list), NEW more \in Seq(S), Distinct(more),
           NEW new, new = Added(list, more)
    PROVE  new \in Seq(S) /\ Distinct(new) /\ Extends(new, list, more)
<1> DEFINE places == {j \in 1..Len(more) : \A i \in 1..Len(list) : list[i] # more[j]}
<1>1. PICK rest : rest = Picked(more, places)
  OBVIOUS
<1>2. new = list \o rest
  BY <1>1 DEF Added, Kept
<1>3. /\ places \in SUBSET (1..Len(more))
      /\ \A j \in places : \A i \in 1..Len(list) : list[i] # more[j]
      /\ \A j \in 1..Len(more) : j \notin places => \E i \in 1..Len(list) : list[i] = more[j]
  OBVIOUS
<1> HIDE DEF places
<1>4. rest \in Seq(S) /\ Distinct(rest) /\ ComesFrom(rest, more, places) /\ HasAll(rest, more, places)
  BY <1>1, <1>3, PickedHolds
<1>5. \A i \in 1..Len(list), n \in 1..Len(rest) : list[i] # rest[n]
  <2> TAKE i \in 1..Len(list), n \in 1..Len(rest)
  <2>1. PICK j \in places : rest[n] = more[j]
    BY <1>4, Zenon DEF ComesFrom
  <2> QED BY <1>3, <2>1
<1>6. Distinct(new)
  BY <1>2, <1>4, <1>5, JoinedDistinct
<1>7. new \in Seq(S) /\ Joined(new, list, rest)
  BY <1>2, <1>4, JoinedIs
<1>8. /\ Len(new) = Len(list) + Len(rest) /\ Len(list) \in Nat /\ Len(rest) \in Nat
      /\ \A i \in 1..Len(list) : i \in 1..Len(new) /\ new[i] = list[i]
      /\ \A j \in 1..Len(rest) : Len(list) + j \in 1..Len(new) /\ new[Len(list) + j] = rest[j]
      /\ \A n \in 1..Len(new) : n \in 1..Len(list) \/ \E j \in 1..Len(rest) : n = Len(list) + j
  BY <1>4, <1>7 DEF Joined
<1>9. \A n \in 1..Len(new) : n \in 1..Len(list) \/ (n > Len(list) /\ \E j \in 1..Len(more) : new[n] = more[j])
  <2> SUFFICES ASSUME NEW n \in 1..Len(new), n \notin 1..Len(list)
               PROVE  n > Len(list) /\ \E j \in 1..Len(more) : new[n] = more[j]
    OBVIOUS
  <2>1. PICK m \in 1..Len(rest) : n = Len(list) + m
    BY <1>8
  <2>2. PICK j \in places : rest[m] = more[j]
    BY <1>4, <2>1, Zenon DEF ComesFrom
  <2> QED BY <1>3, <1>8, <2>1, <2>2
<1>10. \A j \in 1..Len(more) : \E n \in 1..Len(new) : new[n] = more[j]
  <2> TAKE j \in 1..Len(more)
  <2>1. CASE j \in places
    <3>1. PICK m \in 1..Len(rest) : rest[m] = more[j]
      BY <1>4, <2>1, Zenon DEF HasAll
    <3>2. Len(list) + m \in 1..Len(new) /\ new[Len(list) + m] = more[j]
      BY <1>8, <3>1
    <3> QED BY <3>2
  <2>2. CASE j \notin places
    <3>1. PICK i \in 1..Len(list) : list[i] = more[j]
      BY <1>3, <2>2
    <3> QED BY <1>8, <3>1
  <2> QED BY <2>1, <2>2
<1>11. Len(list) <= Len(new)
  BY <1>8
<1>12. \A i \in 1..Len(list) : i \in 1..Len(new) /\ new[i] = list[i]
  BY <1>8
<1>13. Extends(new, list, more)
  BY <1>9, <1>10, <1>11, <1>12 DEF Extends
<1> QED BY <1>6, <1>7, <1>13

LEMMA SiblingOfIs ==
    ASSUME rows \in SUBSET Ids, NEW tenant, NEW id, NEW kinds, NEW new, new = SiblingOf(tenant, id, kinds)
    PROVE  /\ new \in Seq(Ids) /\ Distinct(new)
           /\ \A n \in 1..Len(new) : /\ new[n] \in rows /\ Memory[new[n]].tenant = tenant
                                     /\ Memory[new[n]].turn = Memory[id].turn
<1> DEFINE turn == Memory[id].turn
           P == {i \in 1..Len(ListBySourceTurn(tenant, turn)) : ListBySourceTurn(tenant, turn)[i] # id}
<1>1. PICK S : S = OfTurn(tenant, turn)
  OBVIOUS
<1>2. PICK all : all = ListBySourceTurn(tenant, turn)
  OBVIOUS
<1>3. all \in Seq(S)
  BY <1>1, <1>2, ListBySourceTurnIs
<1>4. PICK others : others = Siblings(tenant, id)
  OBVIOUS
<1>5. others = Picked(all, {i \in 1..Len(all) : all[i] # id})
  BY <1>2, <1>4 DEF Siblings, Kept
<1>6. others \in Seq(S)
  BY <1>3, <1>5, PickedHolds
<1>7. PICK named : named = Picked(others, {i \in 1..Len(others) : Memory[others[i]].kind \in kinds})
  OBVIOUS
<1>8. named \in Seq(S)
  BY <1>6, <1>7, PickedHolds
<1>9. PICK one \in Int : one = 1
  OBVIOUS
<1>10. new = Cut(named, one)
  BY <1>4, <1>7, <1>9 DEF SiblingOf, Kept
<1>11. new \in Seq(S) /\ Len(new) <= one
  BY <1>8, <1>9, <1>10, CutType
<1>12. Distinct(new)
  BY <1>9, <1>11 DEF Distinct
<1>13. \A m \in S : m \in Ids /\ m \in rows /\ Memory[m].tenant = tenant /\ Memory[m].turn = turn
  BY <1>1 DEF OfTurn
<1>14. \A n \in 1..Len(new) : new[n] \in S
  BY <1>11
<1>15. new \in Seq(Ids)
  <2>1. S \in SUBSET Ids
    BY <1>13
  <2> QED BY <1>11, <2>1
<1> QED BY <1>12, <1>13, <1>14, <1>15

(* Answers in which every memory is asked for or follows one of its turn. *)
Holding(k) == {list \in Seq(Ids) : OutOK(k, list) /\ Grounds(k, list)}

LEMMA HoldingEmpty ==
    ASSUME NEW k
    PROVE  <<>> \in Holding(k)
<1> PICK list : list = <<>>
  OBVIOUS
<1>1. list \in Seq(Ids) /\ Len(list) = 0
  OBVIOUS
<1> QED BY <1>1 DEF Holding, OutOK, Grounds, Distinct

(* What may follow a list. *)
Follower(k, list, m) ==
    /\ Proper(k, m)
    /\ \/ Answered(k, m)
       \/ \E j \in 1..Len(list) : Memory[list[j]].turn = Memory[m].turn /\ Passes(list[j], {}, k.req.tiers)

LEMMA AddedHolding ==
    ASSUME NEW k, k.req.kinds = {}, NEW list \in Holding(k), NEW more \in Seq(Ids), Distinct(more),
           \A j \in 1..Len(more) : Follower(k, list, more[j]), NEW new, new = Added(list, more)
    PROVE  new \in Holding(k) /\ Extends(new, list, more)
<1>1. list \in Seq(Ids) /\ OutOK(k, list) /\ Grounds(k, list) /\ Distinct(list)
  BY DEF Holding, OutOK
<1>2. new \in Seq(Ids) /\ Distinct(new) /\ Extends(new, list, more)
  BY <1>1, AddedIs
<1>3. /\ Len(list) <= Len(new) /\ Len(list) \in Nat /\ Len(new) \in Nat
      /\ \A i \in 1..Len(list) : i \in 1..Len(new) /\ new[i] = list[i]
      /\ \A n \in 1..Len(new) : n \in 1..Len(list) \/ (n > Len(list) /\ \E j \in 1..Len(more) : new[n] = more[j])
  BY <1>1, <1>2 DEF Extends
<1>4. \A n \in 1..Len(new) : Proper(k, new[n])
  <2> TAKE n \in 1..Len(new)
  <2>1. CASE n \in 1..Len(list)
    BY <1>1, <1>3, <2>1 DEF OutOK
  <2>2. CASE n \notin 1..Len(list)
    <3> PICK j \in 1..Len(more) : new[n] = more[j]
      BY <1>3, <2>2
    <3> QED BY DEF Follower
  <2> QED BY <2>1, <2>2
<1>5. ASSUME NEW n \in 1..Len(new), ~Answered(k, new[n])
      PROVE  \E j \in 1..(n - 1) : Memory[new[j]].turn = Memory[new[n]].turn /\ Passes(new[j], {}, k.req.tiers)
  <2>1. CASE n \in 1..Len(list)
    <3>1. PICK j \in 1..(n - 1) :
             Memory[list[j]].turn = Memory[list[n]].turn /\ Passes(list[j], {}, k.req.tiers)
      BY <1>1, <1>3, <1>5, <2>1 DEF Grounds
    <3>2. j \in 1..Len(list) /\ n \in 1..Len(list)
      BY <1>3, <2>1
    <3> QED BY <1>3, <3>1, <3>2
  <2>2. CASE n \notin 1..Len(list)
    <3>1. PICK i \in 1..Len(more) : new[n] = more[i]
      BY <1>3, <2>2
    <3>2. PICK j \in 1..Len(list) :
             Memory[list[j]].turn = Memory[more[i]].turn /\ Passes(list[j], {}, k.req.tiers)
      BY <1>5, <3>1 DEF Follower
    <3>3. j \in 1..(n - 1)
      BY <1>3, <2>2
    <3> QED BY <1>3, <3>1, <3>2, <3>3
  <2> QED BY <2>1, <2>2
<1>6. Grounds(k, new)
  BY <1>5 DEF Grounds
<1> QED BY <1>2, <1>4, <1>6 DEF Holding, OutOK

LEMMA ExtendsIn ==
    ASSUME NEW new, NEW list, NEW more, Extends(new, list, more)
    PROVE  In(list) \subseteq In(new) /\ In(more) \subseteq In(new)
<1>1. \A i \in 1..Len(list) : list[i] \in In(new)
  BY DEF Extends, In
<1>2. \A j \in 1..Len(more) : more[j] \in In(new)
  BY DEF Extends, In
<1> QED BY <1>1, <1>2 DEF In

(* One answer and the siblings of its turn. *)
LEMMA AccompaniedIs ==
    ASSUME StoresOK, NEW k, Watching(k, rows), k.req.kinds = {}, NEW list \in Holding(k),
           NEW id \in Ids, Proper(k, id), Answered(k, id), NEW topK,
           NEW new, new = Accompanied(k.req.tenant, list, id, topK)
    PROVE  new \in Holding(k) /\ In(list) \subseteq In(new) /\ id \in In(new)
<1>1. PICK more : more = <<id>>
  OBVIOUS
<1>2. more \in Seq(Ids) /\ Distinct(more) /\ Len(more) = 1 /\ more[1] = id
  BY <1>1 DEF Distinct
<1>3. PICK with : with = Added(list, more)
  OBVIOUS
<1>4. with \in Holding(k) /\ Extends(with, list, more)
  BY <1>2, <1>3, AddedHolding DEF Follower
<1>5. In(list) \subseteq In(with) /\ In(more) \subseteq In(with) /\ id \in In(more)
  <2>1. In(list) \subseteq In(with) /\ In(more) \subseteq In(with)
    BY <1>4, ExtendsIn
  <2>2. id \in In(more)
    BY <1>2 DEF In
  <2> QED BY <2>1, <2>2
<1>6. PICK p \in 1..Len(with) : with[p] = id
  BY <1>5 DEF In
<1>7. Passes(id, {}, k.req.tiers)
  BY DEF Answered
<1>8. PICK raw : raw = SiblingOf(k.req.tenant, id, {"raw_turn"})
  OBVIOUS
<1>9. PICK fact : fact = SiblingOf(k.req.tenant, id, {"event", "observation"})
  OBVIOUS
<1>10. /\ raw \in Seq(Ids) /\ Distinct(raw)
       /\ \A n \in 1..Len(raw) : /\ raw[n] \in rows /\ Memory[raw[n]].tenant = k.req.tenant
                                 /\ Memory[raw[n]].turn = Memory[id].turn
  BY <1>8, SiblingOfIs DEF StoresOK
<1>11. /\ fact \in Seq(Ids) /\ Distinct(fact)
       /\ \A n \in 1..Len(fact) : /\ fact[n] \in rows /\ Memory[fact[n]].tenant = k.req.tenant
                                  /\ Memory[fact[n]].turn = Memory[id].turn
  BY <1>9, SiblingOfIs DEF StoresOK
<1>12. rows \subseteq k.alive
  BY DEF Watching
<1>13. \A n \in 1..Len(raw) : Follower(k, with, raw[n])
  BY <1>6, <1>7, <1>10, <1>12 DEF Follower, Proper
<1>14. PICK one : one = Added(with, raw)
  OBVIOUS
<1>15. one \in Holding(k) /\ Extends(one, with, raw)
  BY <1>4, <1>10, <1>13, <1>14, AddedHolding
<1>16. In(with) \subseteq In(one)
  BY <1>15, ExtendsIn
<1>17. PICK q \in 1..Len(one) : one[q] = id
  BY <1>6, <1>16 DEF In
<1>18. \A n \in 1..Len(fact) : Follower(k, one, fact[n])
  BY <1>7, <1>11, <1>12, <1>17 DEF Follower, Proper
<1>19. PICK two : two = Added(one, fact)
  OBVIOUS
<1>20. two \in Holding(k) /\ Extends(two, one, fact)
  BY <1>11, <1>15, <1>18, <1>19, AddedHolding
<1>21. In(one) \subseteq In(two)
  BY <1>20, ExtendsIn
<1>22. new \in {with, two}
  BY <1>1, <1>3, <1>8, <1>9, <1>14, <1>19 DEF Accompanied
<1> QED BY <1>4, <1>5, <1>16, <1>20, <1>21, <1>22

LEMMA GroundedIs ==
    ASSUME StoresOK, NEW k, Watching(k, rows), k.req.kinds = {}, NEW ids \in Seq(Ids),
           OutOK(k, ids), Exact(k, ids), NEW topK, NEW new, new = Grounded(k.req.tenant, ids, topK)
    PROVE  new \in Holding(k) /\ In(ids) \subseteq In(new)
<1> DEFINE N == Len(ids)
           tenant == k.req.tenant
           base == <<>>
           Step == [p \in Holding(k) \X (1..N) |-> Accompanied(tenant, p[1], ids[p[2]], topK)]
           upTo == CHOOSE f : f = [i \in 0..N |-> IF i = 0 THEN <<>>
                                                  ELSE Accompanied(tenant, f[i - 1], ids[i], topK)]
<1>1. N \in Nat /\ base \in Holding(k)
  BY HoldingEmpty
<1>2. \A list \in Holding(k) : \A i \in 1..N :
         /\ Accompanied(tenant, list, ids[i], topK) \in Holding(k)
         /\ In(list) \subseteq In(Accompanied(tenant, list, ids[i], topK))
         /\ ids[i] \in In(Accompanied(tenant, list, ids[i], topK))
  <2> TAKE list \in Holding(k)
  <2> TAKE i \in 1..N
  <2>1. ids[i] \in Ids /\ Proper(k, ids[i]) /\ Answered(k, ids[i])
    BY DEF OutOK, Exact
  <2>2. PICK next : next = Accompanied(tenant, list, ids[i], topK)
    OBVIOUS
  <2>3. next \in Holding(k) /\ In(list) \subseteq In(next) /\ ids[i] \in In(next)
    BY <2>1, <2>2, AccompaniedIs
  <2> QED BY <2>2, <2>3
<1>3. PICK g : Recursion(g, N, Holding(k), base, Step)
  <2>1. \A p \in Holding(k) \X (1..N) : Accompanied(tenant, p[1], ids[p[2]], topK) \in Holding(k)
    BY <1>2
  <2>2. Step \in [Holding(k) \X (1..N) -> Holding(k)]
    BY <2>1
  <2> HIDE DEF Step, N, base
  <2> QED BY <1>1, <2>2, RecursionExists
<1>4. g = [i \in 0..N |-> IF i = 0 THEN base ELSE Accompanied(tenant, g[i - 1], ids[i], topK)]
  <2>1. g \in [0..N -> Holding(k)] /\ g = [i \in 0..N |-> IF i = 0 THEN base ELSE Step[<<g[i - 1], i>>]]
    BY <1>3, Zenon DEF Recursion
  <2>2. \A i \in 0..N : i # 0 => Step[<<g[i - 1], i>>] = Accompanied(tenant, g[i - 1], ids[i], topK)
    <3>1. \A i \in 0..N : i # 0 => <<g[i - 1], i>> \in Holding(k) \X (1..N)
      <4> HIDE DEF Step, N, base
      <4> TAKE i \in 0..N
      <4>1. i # 0 => i - 1 \in 0..N /\ i \in 1..N
        BY <1>1
      <4> QED BY <2>1, <4>1
    <3> HIDE DEF base
    <3> QED BY <3>1
  <2> HIDE DEF Step, N, base
  <2> QED BY <2>1, <2>2
<1> HIDE DEF N, Step
<1>5. upTo = [i \in 0..N |-> IF i = 0 THEN base ELSE Accompanied(tenant, upTo[i - 1], ids[i], topK)]
  BY <1>4, Zenon
<1> HIDE DEF upTo, base
<1>6. upTo[0] = base /\ \A i \in 1..N : upTo[i] = Accompanied(tenant, upTo[i - 1], ids[i], topK)
  BY <1>1, <1>5
<1>7. new = upTo[N]
  BY Zenon DEF Grounded, upTo, N
<1>8. upTo[0] \in Holding(k) /\ \A i \in 1..N : upTo[i - 1] \in Holding(k) => upTo[i] \in Holding(k)
  BY <1>1, <1>2, <1>6
<1>9. \A i \in 0..N : upTo[i] \in Holding(k)
  BY <1>1, <1>8, UpTo
<1>10. \A i \in 1..N : /\ In(upTo[i - 1]) \subseteq In(upTo[i])
                       /\ ids[i] \in In(upTo[i])
  <2> TAKE i \in 1..N
  <2>1. i - 1 \in 0..N
    BY <1>1
  <2> QED BY <1>2, <1>6, <1>9, <2>1
<1> DEFINE f == [i \in 0..N |-> IF \A j \in 1..i : ids[j] \in In(upTo[i]) THEN 1 ELSE 0]
<1>11. f[0] \in {1} /\ \A i \in 1..N : f[i - 1] \in {1} => f[i] \in {1}
  <2>1. f[0] \in {1}
    BY <1>1
  <2>2. ASSUME NEW i \in 1..N, f[i - 1] \in {1} PROVE f[i] \in {1}
    <3>1. i \in 0..N /\ i - 1 \in 0..N
      BY <1>1
    <3>2. \A j \in 1..(i - 1) : ids[j] \in In(upTo[i - 1])
      BY <2>2, <3>1
    <3>3. \A j \in 1..i : j = i \/ j \in 1..(i - 1)
      BY <1>1
    <3>4. \A j \in 1..i : ids[j] \in In(upTo[i])
      BY <1>10, <3>2, <3>3
    <3> QED BY <3>1, <3>4
  <2> QED BY <2>1, <2>2
<1>12. f[N] \in {1}
  <2> HIDE DEF f
  <2>1. PICK T : T = {1}
    OBVIOUS
  <2>2. f[0] \in T /\ \A i \in 1..N : f[i - 1] \in T => f[i] \in T
    BY <1>11, <2>1
  <2>3. \A i \in 0..N : f[i] \in T
    BY ONLY <1>1, <2>2, UpTo
  <2> QED BY <1>1, <2>1, <2>3
<1>13. \A j \in 1..N : ids[j] \in In(new)
  BY <1>1, <1>7, <1>12
<1> QED BY <1>1, <1>7, <1>9, <1>13 DEF In, N

-----------------------------------------------------------------------------
(* The inductive invariant.                                                *)

ValuesOK == \A i \in 1..Len(cache.list) : cache.list[i].value \in Texts

SearchesOK == \A c \in Searchers : search[c].at = "idle" \/ Going(search[c], rows, settings)

(* The answer of the last step. *)
ReplyOK == AnswersAreCurrent /\ AnswersMatchFilters /\ SettledMatchesAreFound

(* The state is good before a step: what holds of the stores, of the cache and of the searches. *)
Sound == StoresOK /\ SearchOK /\ CacheOK(cache, recent) /\ ValuesOK /\ SearchesOK

LEMMA NoAnswer ==
    ASSUME reply.status # "ok"
    PROVE  ReplyOK
<1>1. Served = {}
  BY DEF Served
<1> QED BY <1>1 DEF ReplyOK, AnswersAreCurrent, AnswersMatchFilters, SettledMatchesAreFound

LEMMA NoAnswerNext ==
    ASSUME reply'.status # "ok"
    PROVE  ReplyOK'
<1>1. Served' = {}
  BY DEF Served
<1> QED BY <1>1 DEF ReplyOK, AnswersAreCurrent, AnswersMatchFilters, SettledMatchesAreFound

(* An answer that a search may give. *)
Final(k, out) ==
    /\ out \in Seq(Ids) /\ Len(out) <= k.topK
    /\ OutOK(k, out) /\ Grounds(k, out)
    /\ Len(out) < k.topK => Complete(k, out)

LEMMA AnswerNext ==
    ASSUME NEW k, Frame(k, settings), NEW out, Final(k, out), reply' = Reply(k, out),
           out = <<>> => k.kinds = k.req.kinds
    PROVE  ReplyOK'
<1>1. PICK r : r = Reply(k, out)
  OBVIOUS
<1>2. /\ r.req = k.req /\ r.kinds = k.kinds /\ r.topK = k.topK /\ r.route = k.route /\ r.cut = k.cut
      /\ r.alive = k.alive /\ r.steady = k.steady /\ r.out = out
  BY <1>1 DEF Reply
<1>3. Served' \subseteq {r}
  BY <1>1 DEF Served
<1>4. Distinct(out) /\ \A i \in 1..Len(out) : Memory[out[i]].tenant = k.req.tenant /\ out[i] \in k.alive
  BY DEF Final, OutOK, Proper
<1>5. Cardinality(In(out)) = Len(out)
  BY <1>4, DistinctCount DEF Final
<1>6. \A id \in In(out) : Memory[id].tenant = k.req.tenant /\ id \in k.alive
  BY <1>4 DEF In
<1>7. AnswersAreCurrent'
  BY <1>2, <1>3, <1>5, <1>6 DEF AnswersAreCurrent, Final
<1>8. \A i \in 1..Len(out) :
        /\ Passes(out[i], k.req.kinds, {})
        /\ \/ Passes(out[i], {}, k.req.tiers)
           \/ k.req.kinds = {} /\ \E j \in 1..(i - 1) :
                 /\ Memory[out[j]].turn = Memory[out[i]].turn
                 /\ Passes(out[j], {}, k.req.tiers)
  <2> TAKE i \in 1..Len(out)
  <2>1. CASE Answered(k, out[i])
    BY <2>1 DEF Answered
  <2>2. CASE k.req.kinds = {} /\ \E j \in 1..(i - 1) :
                 /\ Memory[out[j]].turn = Memory[out[i]].turn
                 /\ Passes(out[j], {}, k.req.tiers)
    BY <2>2 DEF Passes
  <2> QED BY <2>1, <2>2 DEF Final, Grounds
<1>9. AnswersMatchFilters'
  BY <1>2, <1>3, <1>8 DEF AnswersMatchFilters
<1>10. k.route = "hybrid" /\ ~k.cut /\ k.req.minScore = 0 /\ Len(out) < k.topK => Wanted(k) \subseteq In(out)
  BY DEF Final, Complete
<1>11. (IF out = <<>> THEN k.req.kinds ELSE k.kinds) = k.kinds
  OBVIOUS
<1>13. SettledMatchesAreFound'
  BY <1>2, <1>3, <1>10, <1>11 DEF SettledMatchesAreFound, Wanted
<1> QED BY <1>7, <1>9, <1>13 DEF ReplyOK

LEMMA OneSearch ==
    ASSUME Sound, NEW c \in Searchers, NEW k, search' = [search EXCEPT ![c] = k],
           k.at = "idle" \/ Going(k, rows, settings), UNCHANGED <<rows, settings>>
    PROVE  SearchesOK'
<1>1. DOMAIN search = Searchers
  BY DEF Sound, SearchOK
<1>2. ASSUME NEW d \in Searchers
      PROVE  search'[d].at = "idle" \/ Going(search'[d], rows, settings)
  BY <1>1 DEF Sound, SearchesOK
<1> QED BY <1>2 DEF SearchesOK

LEMMA ContinueGoes ==
    ASSUME Sound, NEW c \in Searchers, NEW k, Going(k, rows, settings), Continue(c, k)
    PROVE  SearchesOK' /\ ReplyOK'
<1>1. search' = [search EXCEPT ![c] = k] /\ UNCHANGED <<rows, settings>> /\ reply' = NoReply
  BY DEF Continue, database
<1>2. reply'.status # "ok"
  BY <1>1 DEF NoReply
<1> QED BY <1>1, <1>2, OneSearch, NoAnswerNext

LEMMA EndGoes ==
    ASSUME Sound, NEW c \in Searchers, NEW k, Basis(k, rows, settings), NEW out, Final(k, out), End(c, k, out),
           UNCHANGED <<rows, settings>>
    PROVE  SearchesOK' /\ ReplyOK'
<1>1. CASE out = <<>> /\ Implicit(k.req) /\ k.kinds # {}
  <2>1. PICK p : p = Pass(k, {})
    OBVIOUS
  <2>2. search' = [search EXCEPT ![c] = p] /\ reply' = NoReply
    BY <1>1, <2>1 DEF End
  <2>3. PICK all : all = [k EXCEPT !.kinds = {}]
    OBVIOUS
  <2>4. k.req.kinds = {}
    BY <1>1 DEF Implicit
  <2>5. Basis(all, rows, settings)
    BY <2>3, <2>4 DEF Basis, Frame, Fields, Watching, ListsOK
  <2>6. Going(p, rows, settings)
    BY <2>1, <2>3, <2>5, PassGoes
  <2>7. reply'.status # "ok"
    BY <2>2 DEF NoReply
  <2> QED BY <2>2, <2>6, <2>7, OneSearch, NoAnswerNext
<1>2. CASE ~(out = <<>> /\ Implicit(k.req) /\ k.kinds # {})
  <2>1. search' = [search EXCEPT ![c] = Idle] /\ reply' = Reply(k, out)
    BY <1>2 DEF End
  <2>2. Idle.at = "idle"
    BY DEF Idle
  <2>3. Frame(k, settings)
    BY DEF Basis
  <2>4. ASSUME out = <<>> PROVE k.kinds = k.req.kinds
    BY <1>2, <2>3, <2>4 DEF Frame, Implicit
  <2> QED BY <2>1, <2>2, <2>3, <2>4, OneSearch, AnswerNext
<1> QED BY <1>1, <1>2

LEMMA AtWork ==
    ASSUME Sound, NEW c \in Searchers, search[c].at # "idle"
    PROVE  /\ Basis(search[c], rows, settings) /\ Stage(search[c])
           /\ Frame(search[c], settings) /\ Watching(search[c], rows) /\ ListsOK(search[c])
           /\ Course(search[c]) /\ StoresOK /\ settings \in Settings
BY DEF Sound, SearchesOK, SearchOK, Going, Basis, StoresOK

-----------------------------------------------------------------------------
(* One action after the other.                                             *)

LEMMA BeginGoes ==
    ASSUME Sound, NEW c \in Searchers, NEW req \in Requests(settings), SearchWithFilters(c, req)
    PROVE  SearchesOK' /\ ReplyOK'
<1>1. CASE ~Valid(req)
  <2>1. reply'.status # "ok" /\ UNCHANGED <<search, rows, settings>>
    BY <1>1 DEF SearchWithFilters, database
  <2>2. SearchesOK'
    BY <2>1 DEF Sound, SearchesOK
  <2> QED BY <2>1, <2>2, NoAnswerNext
<1>2. CASE Valid(req)
  <2>1. PICK kinds : kinds = IF Implicit(req) THEN CanonicalKinds ELSE req.kinds
    OBVIOUS
  <2>2. PICK k : k = Begun(req)
    OBVIOUS
  <2>3. PICK new : new = [k EXCEPT !.kinds = kinds]
    OBVIOUS
  <2>4. req.query \in Queries /\ req.topK \in Nat /\ settings \in Settings
    BY SearchAssumption DEF Sound, StoresOK
  <2>5. (IF req.topK = 0 THEN 10 ELSE req.topK) \in Nat \ {0}
    BY <2>4
  <2>6. Frame(new, settings)
    <3>1. DOMAIN new = Fields
      BY <2>2, <2>3 DEF Begun, Fields
    <3>2. new.req = req /\ new.query = Planned(req.query) /\ new.topK \in Nat \ {0} /\ new.kinds = kinds
      BY <2>2, <2>3, <2>5 DEF Begun
    <3>3. kinds = req.kinds \/ (settings.preferCanonical /\ settings.entityRepo /\ req.kinds = {} /\ kinds = CanonicalKinds)
      BY <2>1 DEF Implicit
    <3> QED BY <1>2, <2>4, <3>1, <3>2, <3>3 DEF Frame
  <2>7. Watching(new, rows)
    BY <2>2, <2>3 DEF Begun, Watching, Sound, StoresOK
  <2>8. ListsOK(new)
    <3>1. <<>> \in Seq(Texts) /\ <<>> \in Seq(Candidate(Ids)) /\ <<>> \in Seq(Ids)
      OBVIOUS
    <3> QED BY <2>2, <2>3, <3>1 DEF Begun, ListsOK
  <2>9. Going(Pass(k, kinds), rows, settings)
    BY <2>3, <2>6, <2>7, <2>8, PassGoes DEF Basis
  <2>10. search' = [search EXCEPT ![c] = Pass(k, kinds)] /\ reply' = NoReply /\ UNCHANGED <<rows, settings>>
    BY <1>2, <2>1, <2>2 DEF SearchWithFilters, database
  <2>11. reply'.status # "ok"
    BY <2>10 DEF NoReply
  <2> QED BY <2>9, <2>10, <2>11, OneSearch, NoAnswerNext
<1> QED BY <1>1, <1>2

LEMMA HintsGo ==
    ASSUME Sound, NEW c \in Searchers, CollectEntityHints(c)
    PROVE  SearchesOK' /\ ReplyOK'
<1>1. PICK k : k = search[c]
  OBVIOUS
<1>2. k.at = "hint" /\ Basis(k, rows, settings) /\ Stage(k) /\ Frame(k, settings) /\ StoresOK
  BY <1>1, AtWork DEF CollectEntityHints
<1>3. PICK some : some = HintsFound(k)
  OBVIOUS
<1>4. some \in Seq(Candidate(Ids))
  BY <1>2, <1>3, HintsFoundAre
<1>5. PICK new : new = [k EXCEPT !.hinted = some]
  OBVIOUS
<1>6. Basis(new, rows, settings)
  BY <1>2, <1>4, <1>5 DEF Basis, Frame, Fields, Watching, ListsOK
<1>7. NoVectors(new)
  BY <1>2, <1>5 DEF Frame, Fields, Stage, NoVectors
<1>8. PICK texts : texts = SearchQueries(k.query)
  OBVIOUS
<1>9. texts \in Seq(Texts) /\ texts # <<>> /\ Head(texts) = k.req.query.text
  BY <1>2, <1>8, SearchQueriesAre DEF Frame
<1>10. Head(texts) = new.req.query.text
  BY <1>2, <1>5, <1>9 DEF Frame, Fields
<1>11. Going(Round(new, "initial", texts), rows, settings)
  BY <1>6, <1>7, <1>9, <1>10, RoundGoes
<1>12. Continue(c, Round(new, "initial", texts))
  BY <1>1, <1>3, <1>5, <1>8 DEF CollectEntityHints, Query
<1> QED BY <1>11, <1>12, ContinueGoes

LEMMA LexicalGoes ==
    ASSUME Sound, NEW c \in Searchers, CollectLexical(c)
    PROVE  SearchesOK' /\ ReplyOK'
<1>1. PICK k : k = search[c]
  OBVIOUS
<1>2. /\ k.at = "lexical" /\ Basis(k, rows, settings) /\ Stage(k) /\ Frame(k, settings)
      /\ Watching(k, rows) /\ ListsOK(k) /\ Course(k) /\ StoresOK /\ settings \in Settings
  BY <1>1, AtWork DEF CollectLexical
<1>3. PICK text : text = Head(k.todo)
  OBVIOUS
<1>4. PICK rest : rest = Tail(k.todo)
  OBVIOUS
<1>5. text \in Texts /\ rest \in Seq(Texts)
  BY <1>2, <1>3, <1>4 DEF ListsOK, Stage
<1>6. PICK all : all = Matches(k.req.tenant, text, k.kinds, k.req.tiers, rows)
  OBVIOUS
<1>7. PICK found : found = LexicalFound(k, text)
  OBVIOUS
<1>8. found \in Seq(Candidate(Ids)) /\ (Cardinality(all) > Window(k) \/ all \subseteq IdsOf(found))
  BY <1>2, <1>5, <1>6, <1>7, LexicalFoundAre
<1>9. PICK lexical : lexical = k.lexical \o found
  OBVIOUS
<1>10. lexical \in Seq(Candidate(Ids)) /\ IdsOf(k.lexical) \subseteq IdsOf(lexical) /\ IdsOf(found) \subseteq IdsOf(lexical)
  <2>1. lexical \in Seq(Candidate(Ids)) /\ Joined(lexical, k.lexical, found)
    BY <1>2, <1>8, <1>9, JoinedIs DEF ListsOK
  <2>2. IdsOf(k.lexical) \subseteq IdsOf(lexical)
    BY <2>1 DEF Joined, IdsOf
  <2>3. \A j \in 1..Len(found) : \E n \in 1..Len(lexical) : lexical[n] = found[j]
    BY <2>1 DEF Joined
  <2>4. IdsOf(found) \subseteq IdsOf(lexical)
    BY <2>3 DEF IdsOf
  <2> QED BY <2>1, <2>2, <2>4
<1>11. PICK cut : cut = (k.cut \/ Cardinality(all) > Window(k))
  OBVIOUS
<1>12. PICK new : new = [k EXCEPT !.todo = rest, !.lexical = lexical, !.cut = cut]
  OBVIOUS
<1>13. Basis(new, rows, settings)
  BY <1>2, <1>5, <1>10, <1>12 DEF Basis, Frame, Fields, Watching, ListsOK
<1>14. /\ new.at = "lexical" /\ new.todo = rest /\ NoVectors(new) /\ new.planned # <<>> /\ new.round = k.round
       /\ new.cut = cut /\ new.lexical = lexical /\ Wanted(new) = Wanted(k)
  BY <1>2, <1>12 DEF Frame, Fields, Stage, NoVectors, Wanted
<1>15. Collected(new)
  <2>1. CASE Collected(k)
    BY <1>10, <1>11, <1>14, <2>1 DEF Collected
  <2>2. CASE text = k.req.query.text
    <3>1. Wanted(k) \subseteq all
      BY <1>2, <1>6, <2>2 DEF Wanted, Matches, Watching
    <3> QED BY <1>8, <1>10, <1>11, <1>14, <3>1 DEF Collected
  <2> QED BY <1>2, <1>3, <2>1, <2>2 DEF Stage
<1>16. CASE rest = <<>>
  <2>1. new.round \in Rounds
    BY <1>2, <1>14 DEF Course, Shape
  <2>2. Going(AfterRound(new), rows, settings)
    BY <1>2, <1>13, <1>14, <1>15, <2>1, AfterRoundGoes DEF Gathered
  <2>3. Continue(c, AfterRound(new))
    BY <1>1, <1>3, <1>4, <1>6, <1>7, <1>9, <1>11, <1>12, <1>14, <1>16
       DEF CollectLexical, Tenant
  <2> QED BY <2>2, <2>3, ContinueGoes
<1>17. CASE rest # <<>>
  <2>1. Stage(new)
    BY <1>14, <1>15, <1>17 DEF Stage
  <2>2. Continue(c, new)
    BY <1>1, <1>3, <1>4, <1>6, <1>7, <1>9, <1>11, <1>12, <1>14, <1>17
       DEF CollectLexical, Tenant
  <2> QED BY <1>13, <2>1, <2>2, ContinueGoes DEF Going
<1> QED BY <1>16, <1>17

LEMMA DecomposeGoes ==
    ASSUME Sound, NEW c \in Searchers, Decompose(c)
    PROVE  SearchesOK' /\ ReplyOK'
<1>1. PICK k : k = search[c]
  OBVIOUS
<1>2. /\ k.at = "decompose" /\ Basis(k, rows, settings) /\ Stage(k) /\ Frame(k, settings)
      /\ settings \in Settings
  BY <1>1, AtWork DEF Decompose
<1>3. Gathered(k)
  BY <1>2 DEF Stage
<1>4. PICK texts \in {<<>>, k.query.decomposed} :
         Continue(c, IF texts = <<>> THEN AfterDecomposed(k) ELSE Round(k, "decomposed", texts))
  BY <1>1 DEF Decompose, Query
<1>5. texts \in Seq(Texts)
  <2>1. k.query.decomposed \in Seq(Texts)
    BY <1>2, FrameIs DEF TextFields
  <2>2. <<>> \in Seq(Texts)
    OBVIOUS
  <2> QED BY <2>1, <2>2
<1>6. CASE texts = <<>>
  BY <1>2, <1>3, <1>4, <1>6, AfterDecomposedGoes, ContinueGoes
<1>7. CASE texts # <<>>
  <2>1. Going(Round(k, "decomposed", texts), rows, settings)
    BY <1>2, <1>3, <1>5, <1>7, RoundGoes DEF Gathered
  <2> QED BY <1>4, <1>7, <2>1, ContinueGoes
<1> QED BY <1>6, <1>7

LEMMA BridgeGoes ==
    ASSUME Sound, NEW c \in Searchers, CollectGraphBridge(c)
    PROVE  SearchesOK' /\ ReplyOK'
<1>1. PICK k : k = search[c]
  OBVIOUS
<1>2. /\ k.at = "bridge" /\ Basis(k, rows, settings) /\ Stage(k) /\ Frame(k, settings)
      /\ ListsOK(k) /\ StoresOK
  BY <1>1, AtWork DEF CollectGraphBridge
<1>3. PICK found : found = BridgeFound(k)
  OBVIOUS
<1>4. found \in Seq(Candidate(Ids))
  BY <1>2, <1>3, BridgeFoundAre
<1>5. PICK lexical : lexical = k.lexical \o found
  OBVIOUS
<1>6. lexical \in Seq(Candidate(Ids)) /\ IdsOf(k.lexical) \subseteq IdsOf(lexical)
  <2>1. lexical \in Seq(Candidate(Ids)) /\ Joined(lexical, k.lexical, found)
    BY <1>2, <1>4, <1>5, JoinedIs DEF ListsOK
  <2> QED BY <2>1 DEF Joined, IdsOf
<1>7. PICK new : new = [k EXCEPT !.lexical = lexical]
  OBVIOUS
<1>8. Basis(new, rows, settings)
  BY <1>2, <1>6, <1>7 DEF Basis, Frame, Fields, Watching, ListsOK
<1>9. Gathered(k)
  BY <1>2 DEF Stage
<1>10. /\ NoVectors(new) /\ new.planned # <<>> /\ new.cut = k.cut /\ new.lexical = lexical
       /\ Wanted(new) = Wanted(k)
  BY <1>2, <1>7, <1>9 DEF Frame, Fields, Gathered, NoVectors, Wanted
<1>11. Gathered(new)
  BY <1>6, <1>9, <1>10 DEF Gathered, Collected
<1>12. Going(AfterCandidates(new), rows, settings)
  BY <1>8, <1>11, AfterCandidatesGoes
<1>13. Continue(c, AfterCandidates(new))
  BY <1>1, <1>3, <1>5, <1>7 DEF CollectGraphBridge
<1> QED BY <1>12, <1>13, ContinueGoes

(* The cache holds embeddings of texts. *)
TextsOf(store) == \A i \in 1..Len(store.list) : store.list[i].value \in Texts

LEMMA MovedTexts ==
    ASSUME NEW store, NEW r, CacheOK(store, r), TextsOf(store), NEW key \in store.keys,
           NEW entry, entry.value \in Texts
    PROVE  TextsOf([store EXCEPT !.list = MoveToFront(@, Position(store.list, key), entry)])
<1>1. PICK list : list = store.list
  OBVIOUS
<1>2. Len(list) \in Nat
  BY <1>1 DEF CacheOK, IsSeq
<1>3. PICK p : p = Position(list, key)
  OBVIOUS
<1>4. p \in 1..Len(list)
  BY <1>1, <1>3, PositionOf
<1>5. PICK moved : moved = MoveToFront(list, p, entry)
  OBVIOUS
<1>6. moved = [j \in 1..Len(list) |-> IF j = 1 THEN entry ELSE IF j <= p THEN list[j - 1] ELSE list[j]]
  BY <1>5 DEF MoveToFront
<1>7. Len(moved) = Len(list)
  BY <1>2, <1>6
<1>8. \A j \in 1..Len(moved) : moved[j].value \in Texts
  <2> TAKE j \in 1..Len(moved)
  <2>1. j = 1 \/ j - 1 \in 1..Len(list)
    BY <1>2, <1>7
  <2>2. moved[j] = entry \/ \E i \in 1..Len(list) : moved[j] = list[i]
    BY <1>6, <1>7, <2>1
  <2> QED BY <1>1, <2>2 DEF TextsOf
<1>9. [store EXCEPT !.list = MoveToFront(@, Position(store.list, key), entry)].list = moved
  <2>1. store = [list |-> store.list, keys |-> store.keys]
    BY DEF CacheOK
  <2> QED BY <1>1, <1>3, <1>5, <2>1
<1> QED BY <1>8, <1>9 DEF TextsOf

LEMMA GetTexts ==
    ASSUME NEW store, NEW r, CacheOK(store, r), TextsOf(store), NEW key
    PROVE  /\ TextsOf(Get(store, key))
           /\ Hit(store, key) => Got(store, key) \in Texts
<1>1. CASE Hit(store, key)
  <2>1. PICK entry : entry = store.list[Position(store.list, key)]
    OBVIOUS
  <2>2. key \in store.keys
    BY <1>1 DEF Hit
  <2>3. entry.value \in Texts
    BY <2>1, <2>2, PositionOf DEF TextsOf
  <2>4. Get(store, key) = [store EXCEPT !.list = MoveToFront(@, Position(store.list, key), entry)]
    BY <1>1, <2>1 DEF Get
  <2>5. Got(store, key) = entry.value
    BY <2>1 DEF Got
  <2> QED BY <2>2, <2>3, <2>4, <2>5, MovedTexts
<1>2. CASE ~Hit(store, key)
  BY <1>2 DEF Get
<1> QED BY <1>1, <1>2

LEMMA SetTexts ==
    ASSUME NEW store, NEW r, CacheOK(store, r), TextsOf(store), NEW key, NEW value \in Texts
    PROVE  TextsOf(Set(store, key, value))
<1>1. PICK entry : entry = [key |-> key, value |-> value]
  OBVIOUS
<1>2. entry.value \in Texts
  BY <1>1
<1>3. CASE Capacity = 0
  BY <1>3 DEF Set
<1>4. CASE Capacity # 0 /\ Hit(store, key)
  <2>1. key \in store.keys
    BY <1>4 DEF Hit
  <2>2. Set(store, key, value) = [store EXCEPT !.list = MoveToFront(@, Position(store.list, key), entry)]
    BY <1>1, <1>4 DEF Set
  <2> QED BY <1>2, <2>1, <2>2, MovedTexts
<1>5. CASE Capacity # 0 /\ ~Hit(store, key)
  <2>1. PICK list : list = store.list
    OBVIOUS
  <2>2. PICK n \in Nat : n = Len(list)
    BY <2>1 DEF CacheOK, IsSeq
  <2>3. PICK pushed : pushed = [j \in 1..(n + 1) |-> IF j = 1 THEN entry ELSE list[j - 1]]
    OBVIOUS
  <2>4. Len(pushed) = n + 1
    BY <2>2, <2>3
  <2>5. \A j \in 1..(n + 1) : pushed[j].value \in Texts
    <3> TAKE j \in 1..(n + 1)
    <3>1. j = 1 \/ j - 1 \in 1..n
      OBVIOUS
    <3> QED BY <1>2, <2>1, <2>2, <2>3, <3>1 DEF TextsOf
  <2>6. PICK kept : kept = [j \in 1..n |-> pushed[j]]
    OBVIOUS
  <2>7. Len(kept) = n /\ \A j \in 1..n : kept[j].value \in Texts
    BY <2>5, <2>6
  <2>8. Set(store, key, value).list \in {pushed, kept}
    <3>1. PICK new : new = [list |-> pushed, keys |-> store.keys \cup {key}]
      OBVIOUS
    <3>2. pushed = PushFront(store.list, entry)
      BY <2>1, <2>2, <2>3 DEF PushFront
    <3>3. Set(store, key, value) = Evict(new)
      BY <1>1, <1>5, <3>1, <3>2 DEF Set
    <3>4. new.list = pushed
      BY <3>1
    <3>5. RemoveBack(pushed) = kept
      BY <2>2, <2>4, <2>6 DEF RemoveBack
    <3> QED BY <3>3, <3>4, <3>5 DEF Evict
  <2> QED BY <2>4, <2>5, <2>7, <2>8 DEF TextsOf
<1> QED BY <1>3, <1>4, <1>5

LEMMA LookUpGoes ==
    ASSUME Sound, NEW c \in Searchers, LookUpEmbedding(c)
    PROVE  SearchesOK' /\ ReplyOK' /\ ValuesOK'
<1>1. PICK k : k = search[c]
  OBVIOUS
<1>2. /\ k.at = "lookup" /\ Basis(k, rows, settings) /\ Stage(k) /\ Frame(k, settings)
      /\ ListsOK(k)
  BY <1>1, AtWork DEF LookUpEmbedding
<1>3. PICK text : text = Head(k.todo)
  OBVIOUS
<1>4. PICK rest : rest = Tail(k.todo)
  OBVIOUS
<1>5. text \in Texts /\ rest \in Seq(Texts)
  BY <1>2, <1>3, <1>4 DEF ListsOK, Stage
<1>6. PICK key : key = KeyOf[text]
  OBVIOUS
<1>7. TextsOf(Get(cache, key)) /\ (Hit(cache, key) => Got(cache, key) \in Texts)
  BY GetTexts DEF Sound, ValuesOK, TextsOf
<1>8. PICK vector : vector = IF Hit(cache, key) THEN Got(cache, key) ELSE None
  OBVIOUS
<1>9. PICK misses : misses = IF Hit(cache, key) THEN k.misses ELSE Append(k.misses, text)
  OBVIOUS
<1>10. misses \in Seq(Texts)
  BY <1>2, <1>5, <1>9 DEF ListsOK
<1>11. PICK found : found = [text |-> text, vector |-> vector]
  OBVIOUS
<1>12. PICK vectors : vectors = Append(k.vectors, found)
  OBVIOUS
<1>13. vectors \in Seq(Vector(Texts \cup {None}))
  BY <1>2, <1>5, <1>7, <1>8, <1>11, <1>12 DEF Stage, Vector
<1>14. misses = <<>> => vectors \in Seq(Vector(Texts))
  <2> SUFFICES ASSUME misses = <<>> PROVE vectors \in Seq(Vector(Texts))
    OBVIOUS
  <2>1. Append(k.misses, text) # <<>>
    <3>1. k.misses \in Seq(Texts)
      BY <1>2 DEF ListsOK
    <3>2. Len(Append(k.misses, text)) = Len(k.misses) + 1 /\ Len(k.misses) \in Nat
      BY <1>5, <3>1
    <3>3. Len(Append(k.misses, text)) # 0
      BY <3>2
    <3>4. \A list : list = <<>> => Len(list) = 0
      OBVIOUS
    <3> QED BY <3>3, <3>4
  <2>2. Hit(cache, key) /\ k.misses = <<>>
    BY <1>9, <2>1
  <2>3. found \in Vector(Texts)
    BY <1>5, <1>7, <1>8, <1>11, <2>2 DEF Vector
  <2> QED BY <1>2, <1>12, <2>2, <2>3 DEF Stage
<1>15. PICK at : at = CASE ~(rest = <<>>) -> "lookup"
                        [] rest = <<>> /\ misses = <<>> -> "vector"
                        [] rest = <<>> /\ misses # <<>> -> "embed"
  OBVIOUS
<1>16. PICK new : new = [k EXCEPT !.vectors = vectors, !.misses = misses, !.todo = rest, !.at = at]
  OBVIOUS
<1>17. Basis(new, rows, settings)
  BY <1>2, <1>5, <1>10, <1>16 DEF Basis, Frame, Fields, Watching, ListsOK
<1>18. /\ new.at = at /\ new.vectors = vectors /\ new.misses = misses /\ new.todo = rest
       /\ Collected(new) = Collected(k)
  BY <1>2, <1>16 DEF Frame, Fields, Collected, Wanted
<1>19. Collected(new)
  BY <1>2, <1>18 DEF Stage
<1>20. Stage(new)
  <2>1. CASE ~(rest = <<>>)
    BY <1>13, <1>14, <1>15, <1>18, <1>19, <2>1 DEF Stage
  <2>2. CASE rest = <<>> /\ misses = <<>>
    BY <1>14, <1>15, <1>18, <1>19, <2>2 DEF Stage
  <2>3. CASE rest = <<>> /\ misses # <<>>
    BY <1>13, <1>15, <1>18, <1>19, <2>3 DEF Stage
  <2> QED BY <2>1, <2>2, <2>3
<1>21. Continue(c, new) /\ cache' = Get(cache, key)
  BY <1>1, <1>3, <1>4, <1>6, <1>8, <1>9, <1>11, <1>12, <1>15, <1>16 DEF LookUpEmbedding
<1>22. ValuesOK'
  BY <1>7, <1>21 DEF ValuesOK, TextsOf
<1> QED BY <1>17, <1>20, <1>21, <1>22, ContinueGoes DEF Going

LEMMA EmbedGoes ==
    ASSUME Sound, NEW c \in Searchers, EmbedContents(c)
    PROVE  SearchesOK' /\ ReplyOK'
<1>1. PICK k : k = search[c]
  OBVIOUS
<1>2. /\ k.at = "embed" /\ Basis(k, rows, settings) /\ Stage(k) /\ Frame(k, settings)
  BY <1>1, AtWork DEF EmbedContents
<1>3. PICK vectors : vectors = Embedded(k)
  OBVIOUS
<1>4. vectors \in Seq(Vector(Texts))
  <2> DEFINE entry(i) == IF k.vectors[i].vector = None THEN [k.vectors[i] EXCEPT !.vector = k.vectors[i].text]
                         ELSE k.vectors[i]
  <2>1. k.vectors \in Seq(Vector(Texts \cup {None}))
    BY <1>2 DEF Stage
  <2>2. \A v \in Vector(Texts \cup {None}) : IF v.vector = None THEN [v EXCEPT !.vector = v.text] \in Vector(Texts)
                                             ELSE v \in Vector(Texts)
    BY DEF Vector
  <2>3. \A i \in 1..Len(k.vectors) : k.vectors[i] \in Vector(Texts \cup {None})
    BY <2>1
  <2>4. \A i \in 1..Len(k.vectors) : entry(i) \in Vector(Texts)
    BY <2>2, <2>3
  <2>5. Len(k.vectors) \in Nat
    BY <2>1
  <2>6. vectors = [i \in 1..Len(k.vectors) |-> entry(i)]
    BY <1>3 DEF Embedded
  <2> HIDE DEF entry
  <2> QED BY ONLY <2>4, <2>5, <2>6
<1>5. PICK new : new = [k EXCEPT !.vectors = vectors, !.at = "remember"]
  OBVIOUS
<1>6. Basis(new, rows, settings)
  BY <1>2, <1>5 DEF Basis, Frame, Fields, Watching, ListsOK
<1>7. /\ new.at = "remember" /\ new.vectors = vectors /\ new.misses = k.misses
      /\ Collected(new) = Collected(k)
  BY <1>2, <1>5 DEF Frame, Fields, Collected, Wanted
<1>8. Stage(new)
  BY <1>2, <1>4, <1>7 DEF Stage
<1>9. Continue(c, new)
  BY <1>1, <1>3, <1>5 DEF EmbedContents
<1> QED BY <1>6, <1>8, <1>9, ContinueGoes DEF Going

LEMMA RememberGoes ==
    ASSUME Sound, NEW c \in Searchers, RememberEmbedding(c)
    PROVE  SearchesOK' /\ ReplyOK' /\ ValuesOK'
<1>1. PICK k : k = search[c]
  OBVIOUS
<1>2. /\ k.at = "remember" /\ Basis(k, rows, settings) /\ Stage(k) /\ Frame(k, settings)
      /\ ListsOK(k)
  BY <1>1, AtWork DEF RememberEmbedding
<1>3. PICK text : text = Head(k.misses)
  OBVIOUS
<1>4. PICK rest : rest = Tail(k.misses)
  OBVIOUS
<1>5. text \in Texts /\ rest \in Seq(Texts)
  BY <1>2, <1>3, <1>4 DEF ListsOK, Stage
<1>6. PICK at : at = IF rest = <<>> THEN "vector" ELSE "remember"
  OBVIOUS
<1>7. PICK new : new = [k EXCEPT !.misses = rest, !.at = at]
  OBVIOUS
<1>8. Basis(new, rows, settings)
  BY <1>2, <1>5, <1>7 DEF Basis, Frame, Fields, Watching, ListsOK
<1>9. new.at = at /\ new.vectors = k.vectors /\ new.misses = rest /\ Collected(new) = Collected(k)
  BY <1>2, <1>7 DEF Frame, Fields, Collected, Wanted
<1>10. Stage(new)
  BY <1>2, <1>6, <1>9 DEF Stage
<1>11. Continue(c, new) /\ cache' = Set(cache, KeyOf[text], text)
  BY <1>1, <1>3, <1>4, <1>6, <1>7 DEF RememberEmbedding
<1>12. ValuesOK'
  <2>1. TextsOf(Set(cache, KeyOf[text], text))
    BY <1>5, SetTexts DEF Sound, ValuesOK, TextsOf
  <2> QED BY <1>11, <2>1 DEF ValuesOK, TextsOf
<1> QED BY <1>8, <1>10, <1>11, <1>12, ContinueGoes DEF Going

LEMMA VectorsFoundAre ==
    ASSUME StoresOK, NEW k, Frame(k, settings), NEW text \in Texts
    PROVE  VectorsFound(k, text) \in Seq(Candidate(Ids))
<1> DEFINE found == SearchVectors(k.req.tenant, text, VectorLimit(k))
           known == {id \in rows : Memory[id].tenant = k.req.tenant /\ Passes(id, k.kinds, k.req.tiers)}
           some == Picked(found, {i \in 1..Len(found) : found[i].id \in known})
<1>1. VectorLimit(k) \in Int
  <2>1. PICK a, b \in Int : a = 3 * Window(k) /\ b = settings.vectorMax
    BY WindowIs, SettingsAre
  <2>2. Min({a, b}) \in Int
    BY <2>1, TwoNumbers
  <2> QED BY <2>1, <2>2, WindowIs DEF VectorLimit
<1>2. VectorsFound(k, text) = IF Filtered(k) THEN some ELSE found
  BY DEF VectorsFound, Kept
<1>3. found \in Seq(Candidate(Ids))
  BY <1>1, SearchVectorsIs DEF StoresOK
<1> HIDE DEF found
<1>4. some \in Seq(Candidate(Ids))
  BY <1>3, PickedHolds
<1> QED BY <1>2, <1>3, <1>4

LEMMA VectorGoes ==
    ASSUME Sound, NEW c \in Searchers, SearchVector(c)
    PROVE  SearchesOK' /\ ReplyOK'
<1>1. PICK k : k = search[c]
  OBVIOUS
<1>2. /\ k.at = "vector" /\ Basis(k, rows, settings) /\ Stage(k) /\ Frame(k, settings)
      /\ ListsOK(k) /\ Course(k) /\ StoresOK /\ settings \in Settings
  BY <1>1, AtWork DEF SearchVector
<1>3. k.vectors \in Seq(Vector(Texts)) /\ k.vectors # <<>> /\ Collected(k)
  BY <1>2 DEF Stage, Course
<1>4. PICK rest : rest = Tail(k.vectors)
  OBVIOUS
<1>5. Head(k.vectors).vector \in Texts /\ rest \in Seq(Vector(Texts))
  <2>1. Head(k.vectors) \in Vector(Texts) /\ rest \in Seq(Vector(Texts))
    BY <1>3, <1>4
  <2> QED BY <2>1 DEF Vector
<1>6. PICK limit : limit = VectorLimit(k)
  OBVIOUS
<1>7. PICK found : found = VectorsFound(k, Head(k.vectors).vector)
  OBVIOUS
<1>8. found \in Seq(Candidate(Ids))
  BY <1>2, <1>5, <1>7, VectorsFoundAre
<1>9. PICK dense : dense = k.dense \o found
  OBVIOUS
<1>10. dense \in Seq(Candidate(Ids))
  BY <1>2, <1>8, <1>9 DEF ListsOK
<1>11. PICK cut : cut = (k.cut \/ Cardinality({id \in embedded : Memory[id].tenant = k.req.tenant}) > limit)
  OBVIOUS
<1>12. PICK at : at = IF rest = <<>> THEN "fuse" ELSE "vector"
  OBVIOUS
<1>13. PICK new : new = [k EXCEPT !.vectors = rest, !.cut = cut, !.dense = dense, !.at = at]
  OBVIOUS
<1>14. Basis(new, rows, settings)
  BY <1>2, <1>10, <1>13 DEF Basis, Frame, Fields, Watching, ListsOK
<1>15. /\ new.at = at /\ new.vectors = rest /\ new.lexical = k.lexical /\ new.cut = cut
       /\ Wanted(new) = Wanted(k)
  BY <1>2, <1>13 DEF Frame, Fields, Wanted
<1>16. Collected(new)
  BY <1>3, <1>11, <1>15 DEF Collected
<1>17. Stage(new)
  BY <1>5, <1>12, <1>15, <1>16 DEF Stage
<1>18. Continue(c, new)
  BY <1>1, <1>4, <1>6, <1>7, <1>9, <1>11, <1>12, <1>13 DEF SearchVector, Tenant
<1> QED BY <1>14, <1>17, <1>18, ContinueGoes DEF Going

LEMMA FactSignalOK ==
    ASSUME NEW k, k.query.text \in Texts, NEW id \in Ids
    PROVE  SignalOK(FactSignal(k, id))
<1>1. ContentScore[k.query.text][id] \in Int /\ One \in Int
  BY ContentScoreIs DEF One
<1>2. /\ FactSignal(k, id).denseScore = 0 /\ FactSignal(k, id).denseRank = 0
      /\ FactSignal(k, id).lexicalRank = 0 /\ FactSignal(k, id).rrf = One
      /\ FactSignal(k, id).lexicalScore = ContentScore[k.query.text][id]
  BY DEF FactSignal
<1> QED BY <1>1, <1>2 DEF SignalOK

LEMMA FactItemsAre ==
    ASSUME StoresOK, NEW k, Frame(k, settings)
    PROVE  \E loaded, signals :
              /\ loaded \in Seq(Ids) /\ Distinct(loaded) /\ loaded = FactsFound(k)
              /\ \A n \in 1..Len(loaded) : loaded[n] \in rows /\ Memory[loaded[n]].tenant = k.req.tenant
              /\ \A i \in 1..Len(loaded) : SignalOK(signals[i])
              /\ FactItems(k) = Itemised(loaded, signals)
<1> DEFINE loaded == FactsFound(k)
           signals == [i \in 1..Len(loaded) |-> FactSignal(k, loaded[i])]
<1>1. PICK named : named = ListByEntityRelation(k.req.tenant, k.query.entity, {k.query.relation})
  OBVIOUS
<1>2. named \in Seq(Ids) /\ Distinct(named)
  BY <1>1, ListByEntityRelationIs DEF StoresOK
<1>3. PICK here : here = GetByIDs(k.req.tenant, named)
  OBVIOUS
<1>4. /\ here \in Seq(Ids) /\ Distinct(here)
      /\ \A n \in 1..Len(here) : here[n] \in rows /\ Memory[here[n]].tenant = k.req.tenant
  BY <1>2, <1>3, GetByIDsIs
<1>5. loaded = Fresh(here, k)
  BY <1>1, <1>3 DEF FactsFound
<1>6. loaded \in Seq(Ids) /\ KeptFresh(loaded, here, k)
  BY <1>4, <1>5, FreshIs
<1>7. Distinct(loaded) /\ ComesFrom(loaded, here, 1..Len(here))
  BY <1>4, <1>6 DEF KeptFresh
<1>8. \A n \in 1..Len(loaded) : loaded[n] \in rows /\ Memory[loaded[n]].tenant = k.req.tenant
  <2> TAKE n \in 1..Len(loaded)
  <2>1. PICK i \in 1..Len(here) : loaded[n] = here[i]
    BY <1>7, Zenon DEF ComesFrom
  <2> QED BY <1>4, <2>1
<1>9. \A i \in 1..Len(loaded) : SignalOK(signals[i])
  <2>1. k.query.text \in Texts
    BY FrameIs DEF StoresOK
  <2> QED BY <1>6, <2>1, FactSignalOK
<1>10. FactItems(k) = Made([i \in 1..Len(loaded) |->
          [id |-> loaded[i], memory |-> Memory[loaded[i]], recency |-> Recency(loaded[i]),
           signal |-> FactSignal(k, loaded[i])]])
  BY DEF FactItems, Items
<1>11. [i \in 1..Len(loaded) |-> [id |-> loaded[i], memory |-> Memory[loaded[i]], recency |-> Recency(loaded[i]),
                                  signal |-> FactSignal(k, loaded[i])]]
         = [i \in 1..Len(loaded) |-> [id |-> loaded[i], memory |-> Memory[loaded[i]],
                                      recency |-> Recency(loaded[i]), signal |-> signals[i]]]
  OBVIOUS
<1>12. FactItems(k) = Itemised(loaded, signals)
  <2> HIDE DEF loaded, signals
  <2> QED BY <1>10, <1>11 DEF Itemised
<1> HIDE DEF loaded, signals
<1> QED BY <1>6, <1>7, <1>8, <1>9, <1>12, loaded = FactsFound(k) DEF loaded

LEMMA FactsGo ==
    ASSUME Sound, NEW c \in Searchers, SearchByEntityFacts(c)
    PROVE  SearchesOK' /\ ReplyOK'
<1>1. PICK k : k = search[c]
  OBVIOUS
<1>2. /\ k.at = "facts" /\ Basis(k, rows, settings) /\ Stage(k) /\ Frame(k, settings)
      /\ StoresOK
  BY <1>1, AtWork DEF SearchByEntityFacts
<1>3. PICK loaded, signals :
         /\ loaded \in Seq(Ids) /\ Distinct(loaded) /\ loaded = FactsFound(k)
         /\ \A n \in 1..Len(loaded) : loaded[n] \in rows /\ Memory[loaded[n]].tenant = k.req.tenant
         /\ \A i \in 1..Len(loaded) : SignalOK(signals[i])
         /\ FactItems(k) = Itemised(loaded, signals)
  BY <1>2, FactItemsAre
<1>4. PICK limit : limit = Max({k.topK, Len(loaded)})
  OBVIOUS
<1>5. limit \in Int
  <2>1. PICK a, b \in Int : a = k.topK /\ b = Len(loaded)
    <3>1. k.topK \in Nat
      BY <1>2 DEF Frame
    <3>2. Len(loaded) \in Nat
      BY <1>3
    <3> QED BY <3>1, <3>2
  <2> QED BY <1>4, <2>1, GreaterIs
<1>6. PICK scored : scored = RankMemories(FactItems(k), limit, k.query, settings)
  OBVIOUS
<1>7. PICK best : best = PairwiseReranked(scored, k.query, k.topK, settings)
  OBVIOUS
<1>8. PICK out : out = Chosen(best, k)
  OBVIOUS
<1>9. out \in Seq(Ids) /\ OutOK(k, out) /\ Exact(k, out)
  <2>1. scored = RankMemories(Itemised(loaded, signals), limit, k.query, settings)
    BY <1>3, <1>6
  <2> QED BY <1>2, <1>3, <1>5, <1>7, <1>8, <2>1, RankedAnswer
<1>10. Continue(c, FactsRanked(k, scored))
  BY <1>1, <1>3, <1>4, <1>6 DEF SearchByEntityFacts
<1>11. FactsRanked(k, scored) = AfterFacts(k, scored, out)
  BY <1>7, <1>8 DEF FactsRanked
<1>12. CASE out = <<>>
  <2>1. Going(Hybrid(k), rows, settings)
    BY <1>2, HybridGoes DEF Stage
  <2> QED BY <1>10, <1>11, <1>12, <2>1, ContinueGoes DEF AfterFacts
<1>13. CASE out # <<>>
  <2>1. PICK at : at = IF k.kinds = {} THEN "expand" ELSE "touch"
    OBVIOUS
  <2>2. PICK new : new = [k EXCEPT !.at = at, !.route = "facts", !.ranked = Scores(scored), !.out = out]
    OBVIOUS
  <2>3. Basis(new, rows, settings)
    BY <1>2, <1>9, <2>2 DEF Basis, Frame, Fields, Watching, ListsOK
  <2>4. /\ new.at = at /\ new.out = out /\ new.route = "facts"
        /\ new.req = k.req /\ new.alive = k.alive
    BY <1>2, <2>2 DEF Frame, Fields
  <2>5. OutOK(new, out) /\ Exact(new, out) /\ Grounds(new, out) /\ Complete(new, out)
    BY <1>9, <2>4 DEF OutOK, Proper, Exact, Answered, Grounds, Complete
  <2>6. at = "expand" => k.req.kinds = {}
    BY <1>2, <2>1 DEF Frame, CanonicalKinds
  <2>7. Stage(new)
    BY <2>1, <2>4, <2>5, <2>6 DEF Stage
  <2>8. Continue(c, new)
    BY <1>10, <1>11, <1>13, <2>1, <2>2 DEF AfterFacts
  <2> QED BY <2>3, <2>7, <2>8, ContinueGoes DEF Going
<1> QED BY <1>12, <1>13

(* What is ranked of the fused candidates. *)
LEMMA FusedItemsAre ==
    ASSUME StoresOK, NEW k, NEW dense \in Seq(Candidate(Ids)), NEW lexical \in Seq(Candidate(Ids)),
           NEW ids \in Seq(Ids), NEW loaded, loaded = GetByIDs(k.req.tenant, Cut(ids, Window(k)))
    PROVE  \E signals : /\ \A i \in 1..Len(loaded) : SignalOK(signals[i])
                        /\ FusedItems(k, dense, lexical, ids) = Itemised(loaded, signals)
<1> DEFINE signals == [i \in 1..Len(loaded) |-> Signal(dense, lexical, loaded[i])]
<1>1. \A i \in 1..Len(loaded) : SignalOK(signals[i])
  BY SignalType
<1>2. FusedItems(k, dense, lexical, ids) = Made([i \in 1..Len(loaded) |->
          [id |-> loaded[i], memory |-> Memory[loaded[i]], recency |-> Recency(loaded[i]),
           signal |-> Signal(dense, lexical, loaded[i])]])
  BY DEF FusedItems, Items
<1>3. [i \in 1..Len(loaded) |-> [id |-> loaded[i], memory |-> Memory[loaded[i]], recency |-> Recency(loaded[i]),
                                 signal |-> Signal(dense, lexical, loaded[i])]]
         = [i \in 1..Len(loaded) |-> [id |-> loaded[i], memory |-> Memory[loaded[i]],
                                      recency |-> Recency(loaded[i]), signal |-> signals[i]]]
  OBVIOUS
<1> HIDE DEF signals
<1>4. FusedItems(k, dense, lexical, ids) = Itemised(loaded, signals)
  BY <1>2, <1>3 DEF Itemised
<1> QED BY <1>1, <1>4

(* What was collected is among what is fused, and its rows are loaded unless the list is cut. *)
LEMMA WantedLoaded ==
    ASSUME StoresOK, NEW k, Basis(k, rows, settings), Wanted(k) \subseteq IdsOf(k.lexical),
           NEW dense \in Seq(Candidate(Ids)), NEW lexical, lexical = SortById(LexicalCandidates(k)),
           NEW ids, ids = FusedIds(dense, lexical),
           NEW window \in Int, Len(ids) <= window,
           NEW loaded, loaded = GetByIDs(k.req.tenant, Cut(ids, window))
    PROVE  \A id \in Wanted(k) : \E n \in 1..Len(loaded) : loaded[n] = id
<1>1. PICK both : both = LexicalCandidates(k)
  OBVIOUS
<1>2. k.hinted \in Seq(Candidate(Ids)) /\ k.lexical \in Seq(Candidate(Ids))
  BY DEF Basis, ListsOK
<1>3. both \in Seq(Candidate(Ids)) /\ Joined(both, k.hinted, k.lexical)
  BY <1>1, <1>2, JoinedIs DEF LexicalCandidates
<1>4. lexical \in Seq(Candidate(Ids)) /\ \A i \in 1..Len(both) : \E n \in 1..Len(lexical) : lexical[n] = both[i]
  BY <1>1, <1>3, IdsAre, SortedCandidates
<1>5. /\ ids \in Seq(Ids)
      /\ \A i \in 1..Len(lexical) : \E n \in 1..Len(ids) : ids[n] = lexical[i].id
  <2>1. Ids \in SUBSET Int
    BY IdsAre
  <2>2. FusedIds(dense, lexical) \in Seq(Ids)
    BY <1>4, <2>1, FusedIdsHold
  <2>3. \A i \in 1..Len(lexical) : \E n \in 1..Len(FusedIds(dense, lexical)) :
           FusedIds(dense, lexical)[n] = lexical[i].id
    BY <1>4, <2>1, FusedIdsHold
  <2> QED BY <2>2, <2>3
<1>6. Cut(ids, window) = ids
  BY <1>5, CutType
<1>7. \A i \in 1..Len(ids) : ids[i] \in rows /\ Memory[ids[i]].tenant = k.req.tenant
                             => \E n \in 1..Len(loaded) : loaded[n] = ids[i]
  <2>1. ids \in Seq(Ids) /\ loaded = GetByIDs(k.req.tenant, ids)
    BY <1>5, <1>6
  <2> QED BY <2>1, GetByIDsIs
<1>8. SUFFICES ASSUME NEW id \in Wanted(k) PROVE \E n \in 1..Len(loaded) : loaded[n] = id
  OBVIOUS
<1>9. id \in rows /\ Memory[id].tenant = k.req.tenant
  BY <1>8 DEF Wanted, Matches, Basis, Watching
<1>10. PICK j \in 1..Len(k.lexical) : k.lexical[j].id = id
  BY <1>8 DEF IdsOf
<1>11. PICK i \in 1..Len(both) : both[i] = k.lexical[j]
  BY <1>3 DEF Joined
<1>12. PICK n \in 1..Len(lexical) : lexical[n] = both[i]
  BY <1>4
<1>13. PICK m \in 1..Len(ids) : ids[m] = lexical[n].id
  BY <1>5
<1>14. ids[m] = id
  BY <1>10, <1>11, <1>12, <1>13
<1>15. ids[m] \in rows /\ Memory[ids[m]].tenant = k.req.tenant
  BY <1>9, <1>14
<1>16. PICK l \in 1..Len(loaded) : loaded[l] = ids[m]
  BY <1>7, <1>15
<1> QED BY <1>14, <1>16

LEMMA FuseGoes ==
    ASSUME Sound, NEW c \in Searchers, FuseAndRank(c)
    PROVE  SearchesOK' /\ ReplyOK'
<1>1. PICK k : k = search[c]
  OBVIOUS
<1>2. /\ k.at = "fuse" /\ Basis(k, rows, settings) /\ Stage(k) /\ Frame(k, settings)
      /\ ListsOK(k) /\ StoresOK
  BY <1>1, AtWork DEF FuseAndRank
<1>3. PICK lexical, dense : lexical = SortById(LexicalCandidates(k)) /\ dense = SortById(k.dense)
  OBVIOUS
<1>4. dense \in Seq(Candidate(Ids)) /\ lexical \in Seq(Candidate(Ids))
  <2>1. k.dense \in Seq(Candidate(Ids)) /\ k.hinted \in Seq(Candidate(Ids)) /\ k.lexical \in Seq(Candidate(Ids))
    BY <1>2 DEF ListsOK
  <2>2. LexicalCandidates(k) \in Seq(Candidate(Ids))
    BY <2>1 DEF LexicalCandidates
  <2> QED BY <1>3, <2>1, <2>2, IdsAre, SortedCandidates
<1>5. PICK ids : ids = FusedIds(dense, lexical)
  OBVIOUS
<1>6. ids \in Seq(Ids) /\ Distinct(ids)
  BY <1>4, <1>5, IdsAre, FusedIdsHold
<1>7. PICK window \in Int : window = Window(k)
  BY <1>2, WindowIs
<1>8. PICK some : some = Cut(ids, window)
  OBVIOUS
<1>9. some \in Seq(Ids) /\ Distinct(some)
  <2>1. /\ some \in Seq(Ids) /\ Len(some) <= Len(ids)
        /\ \A i \in 1..Len(some) : some[i] = ids[i]
    BY <1>6, <1>7, <1>8, CutType
  <2> QED BY <1>6, <2>1 DEF Distinct
<1>10. PICK loaded : loaded = GetByIDs(k.req.tenant, some)
  OBVIOUS
<1>11. /\ loaded \in Seq(Ids) /\ Distinct(loaded)
       /\ \A n \in 1..Len(loaded) : loaded[n] \in rows /\ Memory[loaded[n]].tenant = k.req.tenant
  BY <1>9, <1>10, GetByIDsIs
<1>12. PICK items : items = FusedItems(k, dense, lexical, ids)
  OBVIOUS
<1>13. PICK signals : /\ \A i \in 1..Len(loaded) : SignalOK(signals[i])
                      /\ items = Itemised(loaded, signals)
  BY <1>2, <1>4, <1>6, <1>7, <1>8, <1>10, <1>12, FusedItemsAre
<1>14. PICK cut : cut = (k.cut \/ Len(ids) > window)
  OBVIOUS
<1>15. PICK k1 : k1 = [k EXCEPT !.cut = cut]
  OBVIOUS
<1>16. Basis(k1, rows, settings)
  BY <1>2, <1>15 DEF Basis, Frame, Fields, Watching, ListsOK
<1>17. /\ k1.req = k.req /\ k1.query = k.query /\ k1.topK = k.topK /\ k1.kinds = k.kinds
       /\ k1.cut = cut /\ k1.at = "fuse"
  BY <1>2, <1>15 DEF Frame, Fields
<1>18. PICK scored : scored = RankMemories(items, window, k.query, settings)
  OBVIOUS
<1>19. PICK best : best = Reranked(scored, k.query, k.topK, settings)
  OBVIOUS
<1>20. PICK out : out = Chosen(best, k1)
  OBVIOUS
<1>21. /\ out \in Seq(Ids) /\ OutOK(k1, out) /\ Exact(k1, out)
       /\ k1.req.minScore = 0 => Keeps(k1, out, loaded)
  <2>1. scored = RankMemories(Itemised(loaded, signals), window, k1.query, settings)
    BY <1>13, <1>17, <1>18
  <2>2. best = Reranked(scored, k1.query, k1.topK, settings)
    BY <1>17, <1>19
  <2>3. \A n \in 1..Len(loaded) : loaded[n] \in rows /\ Memory[loaded[n]].tenant = k1.req.tenant
    BY <1>11, <1>17
  <2> QED BY <1>2, <1>11, <1>13, <1>16, <1>20, <2>1, <2>2, <2>3, RankedAnswer
<1>22. PICK m : m = [k1 EXCEPT !.ranked = Scores(scored), !.hinted = <<>>, !.lexical = <<>>, !.dense = <<>>]
  OBVIOUS
<1>23. Basis(m, rows, settings)
  <2>1. <<>> \in Seq(Candidate(Ids))
    OBVIOUS
  <2> QED BY <1>16, <1>22, <2>1 DEF Basis, Frame, Fields, Watching, ListsOK
<1>24. /\ m.req = k.req /\ m.alive = k1.alive /\ m.cut = cut /\ m.topK = k.topK /\ m.query = k.query
       /\ m.kinds = k.kinds /\ Wanted(m) = Wanted(k)
  <2>1. /\ m.req = k1.req /\ m.alive = k1.alive /\ m.cut = k1.cut /\ m.topK = k1.topK /\ m.query = k1.query
        /\ m.kinds = k1.kinds /\ m.steady = k1.steady
    BY <1>16, <1>22 DEF Basis, Frame, Fields
  <2>2. k1.steady = k.steady
    BY <1>2, <1>15 DEF Frame, Fields
  <2> QED BY <1>17, <2>1, <2>2 DEF Wanted
<1>25. OutOK(m, out) /\ Exact(m, out) /\ Grounds(m, out)
  BY <1>17, <1>21, <1>24 DEF OutOK, Proper, Exact, Answered, Grounds
<1>26. Complete(m, out)
  <2> SUFFICES ASSUME ~cut, k.req.minScore = 0, NEW id \in Wanted(k)
               PROVE  id \in In(out)
    BY <1>24 DEF Complete
  <2>1. Wanted(k) \subseteq IdsOf(k.lexical) /\ ~(Len(ids) > window)
    BY <1>2, <1>14 DEF Stage, Collected
  <2>2. Len(ids) <= window
    BY <1>6, <1>7, <2>1
  <2>3. \A w \in Wanted(k) : \E n \in 1..Len(loaded) : loaded[n] = w
    BY <1>2, <1>3, <1>4, <1>5, <1>7, <1>8, <1>10, <2>1, <2>2, WantedLoaded
  <2>4. PICK n \in 1..Len(loaded) : loaded[n] = id
    BY <2>3
  <2>5. Passes(id, k1.kinds, k1.req.tiers)
    BY <1>17 DEF Wanted, Matches
  <2> QED BY <1>17, <1>21, <2>4, <2>5 DEF Keeps
<1>27. AfterRanking(c, m, out)
  BY <1>1, <1>3, <1>5, <1>7, <1>12, <1>14, <1>15, <1>17, <1>18, <1>19, <1>20, <1>22
     DEF FuseAndRank, CandidatesFused, CandidatesRanked
<1>28. CASE out = <<>>
  <2>1. End(c, m, out) /\ UNCHANGED <<rows, settings>>
    BY <1>27, <1>28 DEF AfterRanking, database
  <2>2. m.topK \in Nat \ {0}
    BY <1>23 DEF Basis, Frame
  <2>3. Final(m, out)
    BY <1>21, <1>25, <1>26, <1>28, <2>2 DEF Final
  <2> QED BY <1>23, <2>1, <2>3, EndGoes
<1>29. CASE out # <<>>
  <2>1. PICK at : at = IF m.kinds = {} /\ (m.query.temporal \/ m.query.multiHop) THEN "expand" ELSE "touch"
    OBVIOUS
  <2>2. PICK new : new = [m EXCEPT !.out = out, !.at = at]
    OBVIOUS
  <2>3. Basis(new, rows, settings)
    BY <1>21, <1>23, <2>2 DEF Basis, Frame, Fields, Watching, ListsOK
  <2>4. /\ new.at = at /\ new.out = out /\ new.route = m.route /\ new.cut = m.cut
        /\ new.req = m.req /\ new.alive = m.alive /\ Wanted(new) = Wanted(m)
    BY <1>23, <2>2 DEF Basis, Frame, Fields, Wanted
  <2>5. OutOK(new, out) /\ Exact(new, out) /\ Grounds(new, out) /\ Complete(new, out)
    BY <1>25, <1>26, <2>4 DEF OutOK, Proper, Exact, Answered, Grounds, Complete
  <2>6. at = "expand" => new.req.kinds = {}
    BY <1>2, <1>24, <2>1, <2>4 DEF Frame, CanonicalKinds
  <2>7. Stage(new)
    BY <2>1, <2>4, <2>5, <2>6 DEF Stage
  <2>8. Continue(c, new)
    BY <1>27, <1>29, <2>1, <2>2 DEF AfterRanking
  <2> QED BY <2>3, <2>7, <2>8, ContinueGoes DEF Going
<1> QED BY <1>28, <1>29

LEMMA ExpandGoes ==
    ASSUME Sound, NEW c \in Searchers, ExpandGroundedContext(c)
    PROVE  SearchesOK' /\ ReplyOK'
<1>1. PICK k : k = search[c]
  OBVIOUS
<1>2. /\ k.at = "expand" /\ Basis(k, rows, settings) /\ Stage(k) /\ Frame(k, settings)
      /\ Watching(k, rows) /\ ListsOK(k) /\ StoresOK
  BY <1>1, AtWork DEF ExpandGroundedContext
<1>3. PICK out : out = Grounded(k.req.tenant, k.out, k.topK)
  OBVIOUS
<1>4. k.req.kinds = {} /\ k.out \in Seq(Ids) /\ OutOK(k, k.out) /\ Exact(k, k.out) /\ Complete(k, k.out)
  BY <1>2 DEF Stage, ListsOK
<1>5. out \in Holding(k) /\ In(k.out) \subseteq In(out)
  <2>1. PICK ids, topK : ids = k.out /\ topK = k.topK
    OBVIOUS
  <2>2. /\ ids \in Seq(Ids) /\ OutOK(k, ids) /\ Exact(k, ids) /\ out = Grounded(k.req.tenant, ids, topK)
        /\ StoresOK /\ Watching(k, rows) /\ k.req.kinds = {}
    BY <1>2, <1>3, <1>4, <2>1
  <2>3. out \in Holding(k)
    BY <2>2, GroundedIs
  <2>4. In(ids) \subseteq In(out)
    BY <2>2, GroundedIs
  <2> QED BY <2>1, <2>3, <2>4
<1>6. out \in Seq(Ids) /\ OutOK(k, out) /\ Grounds(k, out)
  BY <1>5 DEF Holding
<1>7. Complete(k, out)
  BY <1>4, <1>5 DEF Complete
<1>8. PICK new : new = [k EXCEPT !.out = out, !.at = "touch"]
  OBVIOUS
<1>9. Basis(new, rows, settings)
  BY <1>2, <1>6, <1>8 DEF Basis, Frame, Fields, Watching, ListsOK
<1>10. /\ new.at = "touch" /\ new.out = out /\ new.route = k.route /\ new.cut = k.cut
       /\ new.req = k.req /\ new.alive = k.alive /\ Wanted(new) = Wanted(k)
  BY <1>2, <1>8 DEF Frame, Fields, Wanted
<1>11. OutOK(new, out) /\ Grounds(new, out) /\ Complete(new, out)
  BY <1>6, <1>7, <1>10 DEF OutOK, Proper, Answered, Grounds, Complete
<1>12. Stage(new)
  BY <1>10, <1>11 DEF Stage
<1>13. Continue(c, new)
  BY <1>1, <1>3, <1>8 DEF ExpandGroundedContext, Tenant
<1> QED BY <1>9, <1>12, <1>13, ContinueGoes DEF Going

LEMMA CutLength ==
    ASSUME NEW T, NEW list \in Seq(T), NEW n \in Nat, ~(n >= Len(list))
    PROVE  Len(Cut(list, n)) = n
<1> PICK m : m = Min({n, Len(list)})
  OBVIOUS
<1>1. Len(list) \in Nat
  OBVIOUS
<1>2. m = n
  BY <1>1, TwoNumbers
<1>3. Cut(list, n) = SubSeq(list, 1, n)
  BY <1>2 DEF Cut
<1> QED BY <1>1, <1>3

(* What is left of an answer that is too long. *)
LEMMA CutFinal ==
    ASSUME NEW k, k.topK \in Nat, NEW all \in Seq(Ids), OutOK(k, all), Grounds(k, all), Complete(k, all),
           NEW out, out = Cut(all, k.topK)
    PROVE  Final(k, out)
<1>1. /\ out \in Seq(Ids) /\ Len(out) <= Len(all) /\ Len(out) <= k.topK
      /\ \A i \in 1..Len(out) : out[i] = all[i]
      /\ k.topK >= Len(all) => out = all
  BY CutType
<1>2. Len(out) \in Nat /\ Len(all) \in Nat
  BY <1>1
<1>3. \A i \in 1..Len(out) : i \in 1..Len(all)
  BY <1>1, <1>2
<1>4. OutOK(k, out)
  BY <1>1, <1>3 DEF OutOK, Distinct
<1>5. Grounds(k, out)
  <2> SUFFICES ASSUME NEW i \in 1..Len(out), ~Answered(k, out[i])
               PROVE  k.req.kinds = {} /\ \E j \in 1..(i - 1) :
                        Memory[out[j]].turn = Memory[out[i]].turn /\ Passes(out[j], {}, k.req.tiers)
    BY DEF Grounds
  <2>1. i \in 1..Len(all) /\ out[i] = all[i]
    BY <1>1, <1>3
  <2>2. k.req.kinds = {} /\ \E j \in 1..(i - 1) :
           Memory[all[j]].turn = Memory[all[i]].turn /\ Passes(all[j], {}, k.req.tiers)
    BY <2>1 DEF Grounds
  <2>3. PICK j \in 1..(i - 1) : Memory[all[j]].turn = Memory[all[i]].turn /\ Passes(all[j], {}, k.req.tiers)
    BY <2>2
  <2>4. j \in 1..Len(out)
    BY <1>2
  <2> QED BY <1>1, <2>1, <2>2, <2>3, <2>4
<1>6. Len(out) < k.topK => Complete(k, out)
  <2> SUFFICES ASSUME Len(out) < k.topK PROVE out = all
    OBVIOUS
  <2>1. CASE k.topK >= Len(all)
    BY <1>1, <2>1
  <2>2. CASE ~(k.topK >= Len(all))
    <3>1. Len(Cut(all, k.topK)) = k.topK
      BY <1>2, <2>2, CutLength
    <3> QED BY <1>2, <3>1
  <2> QED BY <2>1, <2>2
<1> QED BY <1>1, <1>4, <1>5, <1>6 DEF Final

LEMMA TouchGoes ==
    ASSUME Sound, NEW c \in Searchers, TouchAndReturn(c)
    PROVE  SearchesOK' /\ ReplyOK'
<1>1. PICK k : k = search[c]
  OBVIOUS
<1>2. /\ k.at = "touch" /\ Basis(k, rows, settings) /\ Stage(k) /\ Frame(k, settings) /\ ListsOK(k)
  BY <1>1, AtWork DEF TouchAndReturn
<1>3. PICK out : out = Cut(k.out, k.topK)
  OBVIOUS
<1>4. k.out \in Seq(Ids) /\ OutOK(k, k.out) /\ Grounds(k, k.out) /\ Complete(k, k.out) /\ k.topK \in Nat
  BY <1>2 DEF Stage, ListsOK, Frame
<1>5. Final(k, out)
  BY <1>3, <1>4, CutFinal
<1>6. End(c, k, out) /\ UNCHANGED <<rows, settings>>
  BY <1>1, <1>3 DEF TouchAndReturn, database
<1> QED BY <1>2, <1>5, <1>6, EndGoes

LEMMA FailGoes ==
    ASSUME Sound, NEW c \in Searchers, Fail(c)
    PROVE  SearchesOK' /\ ReplyOK'
<1>1. search' = [search EXCEPT ![c] = Idle] /\ Idle.at = "idle" /\ UNCHANGED <<rows, settings>>
  BY DEF Fail, Idle, database
<1>2. reply'.status # "ok"
  BY DEF Fail
<1> QED BY <1>1, <1>2, OneSearch, NoAnswerNext

(* What a touch may have changed, the rest being as it was. *)
LEMMA StoresStay ==
    ASSUME Sound, NEW c \in Searchers, SearchStep(c)
    PROVE  StoresOK'
<1>1. UNCHANGED <<settings, rows, gone, embedded, linked>>
  <2>1. \A k : Continue(c, k) => UNCHANGED <<settings, rows, gone, embedded, linked>>
    BY DEF Continue, database
  <2>2. ASSUME FuseAndRank(c) PROVE UNCHANGED <<settings, rows, gone, embedded, linked>>
    <3>1. PICK k, out : AfterRanking(c, k, out)
      BY <2>2 DEF FuseAndRank, CandidatesFused, CandidatesRanked
    <3> QED BY <2>1, <3>1 DEF AfterRanking, database
  <2> QED BY <2>1, <2>2 DEF SearchStep, SearchWithFilters, SearchByEntityFacts, CollectEntityHints, CollectLexical,
            Decompose, CollectGraphBridge, LookUpEmbedding, EmbedContents, RememberEmbedding, SearchVector,
            ExpandGroundedContext, TouchAndReturn, Fail, database
<1>2. touched' \in SUBSET Ids
  <2>1. \A k : Continue(c, k) => UNCHANGED touched
    BY DEF Continue
  <2>2. ASSUME FuseAndRank(c) PROVE UNCHANGED touched
    <3>1. PICK k, out : AfterRanking(c, k, out)
      BY <2>2 DEF FuseAndRank, CandidatesFused, CandidatesRanked
    <3> QED BY <2>1, <3>1 DEF AfterRanking
  <2>3. ASSUME TouchAndReturn(c) PROVE touched' \in SUBSET Ids
    <3>1. PICK more : touched' \in {touched, touched \cup (more \cap rows)}
      BY <2>3 DEF TouchAndReturn
    <3> QED BY <3>1 DEF Sound, StoresOK
  <2>4. touched \in SUBSET Ids
    BY DEF Sound, StoresOK
  <2> QED BY <2>1, <2>2, <2>3, <2>4 DEF SearchStep, SearchWithFilters, SearchByEntityFacts, CollectEntityHints,
            CollectLexical, Decompose, CollectGraphBridge, LookUpEmbedding, EmbedContents, RememberEmbedding,
            SearchVector, ExpandGroundedContext, Fail
<1> QED BY <1>1, <1>2 DEF Sound, StoresOK

-----------------------------------------------------------------------------
(* Meanwhile memories come and go.                                         *)

(* A row that is new, or one that is gone, takes nothing from what a search has found. *)
LEMMA InsertedGoing ==
    ASSUME NEW k, Going(k, rows, settings), NEW id \in Ids,
           NEW new, new = [k EXCEPT !["alive"] = k["alive"] \cup {id}]
    PROVE  Going(new, rows \cup {id}, settings)
<1>1. Basis(k, rows, settings) /\ Stage(k)
  BY DEF Going
<1>2. /\ DOMAIN k = Fields /\ DOMAIN new = Fields
      /\ new.alive = k.alive \cup {id}
      /\ \A field \in Fields \ {"alive"} : new[field] = k[field]
  BY <1>1 DEF Basis, Frame, Fields
<1>3. /\ new.at = k.at /\ new.req = k.req /\ new.query = k.query /\ new.topK = k.topK /\ new.kinds = k.kinds
      /\ new.todo = k.todo /\ new.planned = k.planned /\ new.hinted = k.hinted /\ new.lexical = k.lexical
      /\ new.vectors = k.vectors /\ new.dense = k.dense /\ new.misses = k.misses /\ new.out = k.out
      /\ new.cut = k.cut /\ new.route = k.route /\ new.steady = k.steady
  BY <1>2 DEF Fields
<1>4. Frame(new, settings)
  BY <1>1, <1>2, <1>3 DEF Basis, Frame
<1>5. Watching(new, rows \cup {id})
  BY <1>1, <1>2, <1>3 DEF Basis, Watching
<1>6. ListsOK(new)
  BY <1>1, <1>3 DEF Basis, ListsOK
<1>7. Wanted(new) = Wanted(k)
  BY <1>3 DEF Wanted
<1>8. /\ NoVectors(k) => NoVectors(new)
      /\ Collected(k) => Collected(new)
      /\ Gathered(k) => Gathered(new)
      /\ Complete(k, k.out) => Complete(new, new.out)
  BY <1>3, <1>7 DEF NoVectors, Collected, Gathered, Complete
<1>9. /\ OutOK(k, k.out) => OutOK(new, new.out)
      /\ Exact(k, k.out) => Exact(new, new.out)
      /\ Grounds(k, k.out) => Grounds(new, new.out)
  BY <1>2, <1>3 DEF OutOK, Proper, Exact, Answered, Grounds
<1>10. Stage(new)
  BY <1>1, <1>3, <1>8, <1>9 DEF Stage
<1> QED BY <1>4, <1>5, <1>6, <1>10 DEF Going, Basis

LEMMA DeletedGoing ==
    ASSUME NEW k, Going(k, rows, settings), NEW id,
           NEW new, new = [k EXCEPT !["steady"] = k["steady"] \ {id}]
    PROVE  Going(new, rows \ {id}, settings)
<1>1. Basis(k, rows, settings) /\ Stage(k)
  BY DEF Going
<1>2. /\ DOMAIN k = Fields /\ DOMAIN new = Fields
      /\ new.steady = k.steady \ {id}
      /\ \A field \in Fields \ {"steady"} : new[field] = k[field]
  BY <1>1 DEF Basis, Frame, Fields
<1>3. /\ new.at = k.at /\ new.req = k.req /\ new.query = k.query /\ new.topK = k.topK /\ new.kinds = k.kinds
      /\ new.todo = k.todo /\ new.planned = k.planned /\ new.hinted = k.hinted /\ new.lexical = k.lexical
      /\ new.vectors = k.vectors /\ new.dense = k.dense /\ new.misses = k.misses /\ new.out = k.out
      /\ new.cut = k.cut /\ new.route = k.route /\ new.alive = k.alive
  BY <1>2 DEF Fields
<1>4. Frame(new, settings)
  BY <1>1, <1>2, <1>3 DEF Basis, Frame
<1>5. Watching(new, rows \ {id})
  BY <1>1, <1>2, <1>3 DEF Basis, Watching
<1>6. ListsOK(new)
  BY <1>1, <1>3 DEF Basis, ListsOK
<1>7. Wanted(new) \subseteq Wanted(k)
  BY <1>2, <1>3 DEF Wanted, Matches
<1>8. /\ NoVectors(k) => NoVectors(new)
      /\ Collected(k) => Collected(new)
      /\ Gathered(k) => Gathered(new)
      /\ Complete(k, k.out) => Complete(new, new.out)
  BY <1>3, <1>7 DEF NoVectors, Collected, Gathered, Complete
<1>9. /\ OutOK(k, k.out) => OutOK(new, new.out)
      /\ Exact(k, k.out) => Exact(new, new.out)
      /\ Grounds(k, k.out) => Grounds(new, new.out)
  BY <1>2, <1>3 DEF OutOK, Proper, Exact, Answered, Grounds
<1>10. Stage(new)
  BY <1>1, <1>3, <1>7, <1>8, <1>9 DEF Stage
<1> QED BY <1>4, <1>5, <1>6, <1>10 DEF Going, Basis

LEMMA ChangeGoes ==
    ASSUME Sound, NEW id \in Ids, Change(id)
    PROVE  StoresOK' /\ SearchesOK' /\ ReplyOK' /\ ValuesOK'
<1>1. reply' = NoReply /\ UNCHANGED <<settings, touched, cache>>
  BY DEF Change, InsertRow, UpsertEmbedding, StoreFacts, DeleteRow, DeleteEmbedding, Aside
<1>2. ReplyOK'
  <2>1. reply'.status # "ok"
    BY <1>1 DEF NoReply
  <2> QED BY <2>1, NoAnswerNext
<1>3. ValuesOK'
  BY <1>1 DEF Sound, ValuesOK
<1>4. StoresOK'
  <2>1. StoresOK
    BY DEF Sound
  <2>2. CASE InsertRow(id)
    BY <1>1, <2>1, <2>2 DEF InsertRow, StoresOK
  <2>3. CASE UpsertEmbedding(id)
    BY <1>1, <2>1, <2>3 DEF UpsertEmbedding, StoresOK
  <2>4. CASE StoreFacts(id)
    BY <1>1, <2>1, <2>4 DEF StoreFacts, StoresOK
  <2>5. CASE DeleteRow(id)
    BY <1>1, <2>1, <2>5 DEF DeleteRow, StoresOK
  <2>6. CASE DeleteEmbedding(id)
    BY <1>1, <2>1, <2>6 DEF DeleteEmbedding, StoresOK
  <2> QED BY <2>2, <2>3, <2>4, <2>5, <2>6 DEF Change
<1>5. SearchesOK'
  <2>1. CASE InsertRow(id)
    <3>1. search' = [c \in Searchers |-> IF search[c].at = "idle" THEN Idle
                       ELSE [search[c] EXCEPT !["alive"] = search[c]["alive"] \cup {id}]]
      BY <2>1 DEF InsertRow, Watch
    <3>2. rows' = rows \cup {id}
      BY <2>1 DEF InsertRow
    <3>3. ASSUME NEW c \in Searchers
          PROVE  search'[c].at = "idle" \/ Going(search'[c], rows', settings')
      <4>1. CASE search[c].at = "idle"
        BY <3>1, <4>1 DEF Idle
      <4>2. CASE search[c].at # "idle"
        <5>1. search'[c] = [search[c] EXCEPT !["alive"] = search[c]["alive"] \cup {id}]
          BY <3>1, <4>2
        <5>2. Going(search[c], rows, settings)
          BY <4>2 DEF Sound, SearchesOK
        <5> QED BY <1>1, <3>2, <5>1, <5>2, InsertedGoing
      <4> QED BY <4>1, <4>2
    <3> QED BY <3>3 DEF SearchesOK
  <2>2. CASE DeleteRow(id)
    <3>1. search' = [c \in Searchers |-> IF search[c].at = "idle" THEN Idle
                       ELSE [search[c] EXCEPT !["steady"] = search[c]["steady"] \ {id}]]
      BY <2>2 DEF DeleteRow, Watch
    <3>2. rows' = rows \ {id}
      BY <2>2 DEF DeleteRow
    <3>3. ASSUME NEW c \in Searchers
          PROVE  search'[c].at = "idle" \/ Going(search'[c], rows', settings')
      <4>1. CASE search[c].at = "idle"
        BY <3>1, <4>1 DEF Idle
      <4>2. CASE search[c].at # "idle"
        <5>1. search'[c] = [search[c] EXCEPT !["steady"] = search[c]["steady"] \ {id}]
          BY <3>1, <4>2
        <5>2. Going(search[c], rows, settings)
          BY <4>2 DEF Sound, SearchesOK
        <5> QED BY <1>1, <3>2, <5>1, <5>2, DeletedGoing
      <4> QED BY <4>1, <4>2
    <3> QED BY <3>3 DEF SearchesOK
  <2>3. CASE UpsertEmbedding(id) \/ StoreFacts(id) \/ DeleteEmbedding(id)
    <3>1. UNCHANGED <<search, rows, settings>>
      BY <1>1, <2>3 DEF UpsertEmbedding, StoreFacts, DeleteEmbedding
    <3> QED BY <3>1 DEF Sound, SearchesOK
  <2> QED BY <2>1, <2>2, <2>3 DEF Change
<1> QED BY <1>2, <1>3, <1>4, <1>5

-----------------------------------------------------------------------------
(* The theorems.                                                           *)

LEMMA SoundInit ==
    Init => Sound /\ ReplyOK
<1> SUFFICES ASSUME Init
             PROVE  Sound /\ ReplyOK
  OBVIOUS
<1>1. Inv
  BY InvInit
<1>2. StoresOK
  BY SearchAssumption DEF Init, StoresOK
<1>3. ValuesOK
  BY DEF Init, EmptyCache, ValuesOK
<1>4. SearchesOK
  BY DEF Init, Idle, SearchesOK
<1>5. ReplyOK
  <2>1. reply.status # "ok"
    BY DEF Init, NoReply
  <2> QED BY <2>1, NoAnswer
<1> QED BY <1>1, <1>2, <1>3, <1>4, <1>5 DEF Sound, Inv

LEMMA SearchStepGoes ==
    ASSUME Sound, NEW c \in Searchers, SearchStep(c)
    PROVE  SearchesOK' /\ ReplyOK' /\ ValuesOK'
<1>0. UNCHANGED cache => ValuesOK'
  BY DEF Sound, ValuesOK
<1>1. CASE \E req \in Requests(settings) : SearchWithFilters(c, req)
  BY <1>0, <1>1, BeginGoes DEF SearchWithFilters
<1>2. CASE SearchByEntityFacts(c)
  BY <1>0, <1>2, FactsGo DEF SearchByEntityFacts
<1>3. CASE CollectEntityHints(c)
  BY <1>0, <1>3, HintsGo DEF CollectEntityHints
<1>4. CASE CollectLexical(c)
  BY <1>0, <1>4, LexicalGoes DEF CollectLexical
<1>5. CASE Decompose(c)
  BY <1>0, <1>5, DecomposeGoes DEF Decompose
<1>6. CASE CollectGraphBridge(c)
  BY <1>0, <1>6, BridgeGoes DEF CollectGraphBridge
<1>7. CASE LookUpEmbedding(c)
  BY <1>7, LookUpGoes
<1>8. CASE EmbedContents(c)
  BY <1>0, <1>8, EmbedGoes DEF EmbedContents
<1>9. CASE RememberEmbedding(c)
  BY <1>9, RememberGoes
<1>10. CASE SearchVector(c)
  BY <1>0, <1>10, VectorGoes DEF SearchVector
<1>11. CASE FuseAndRank(c)
  BY <1>0, <1>11, FuseGoes DEF FuseAndRank
<1>12. CASE ExpandGroundedContext(c)
  BY <1>0, <1>12, ExpandGoes DEF ExpandGroundedContext
<1>13. CASE TouchAndReturn(c)
  BY <1>0, <1>13, TouchGoes DEF TouchAndReturn
<1>14. CASE Fail(c)
  BY <1>0, <1>14, FailGoes DEF Fail
<1> QED BY <1>1, <1>2, <1>3, <1>4, <1>5, <1>6, <1>7, <1>8, <1>9, <1>10, <1>11, <1>12, <1>13, <1>14
        DEF SearchStep

LEMMA SoundNext ==
    Sound /\ ReplyOK /\ [Next]_vars => (Sound /\ ReplyOK)'
<1> SUFFICES ASSUME Sound, ReplyOK, [Next]_vars
             PROVE  (Sound /\ ReplyOK)'
  OBVIOUS
<1>1. Inv'
  <2>1. Inv
    BY DEF Sound, Inv
  <2> QED BY <2>1, InvNext
<1>2. CASE \E c \in Searchers : SearchStep(c)
  BY <1>1, <1>2, SearchStepGoes, StoresStay DEF Sound, Inv
<1>3. CASE \E id \in Ids : Change(id)
  BY <1>1, <1>3, ChangeGoes DEF Sound, Inv
<1>4. CASE UNCHANGED vars
  <2>1. StoresOK' /\ ValuesOK' /\ SearchesOK'
    BY <1>4 DEF vars, Sound, StoresOK, ValuesOK, SearchesOK
  <2>2. Served' = Served
    BY <1>4 DEF vars, Served
  <2>3. ReplyOK'
    BY <2>2 DEF ReplyOK, AnswersAreCurrent, AnswersMatchFilters, SettledMatchesAreFound
  <2> QED BY <1>1, <2>1, <2>3 DEF Sound, Inv
<1> QED BY <1>2, <1>3, <1>4 DEF Next

LEMMA SoundHolds ==
    Spec => [](Sound /\ ReplyOK)
BY SoundInit, SoundNext, PTL DEF Spec

(* Stores, cache and searches keep their shapes: a key of the cache is the *)
(* key of a text, and no row comes back under an id that was deleted.      *)
THEOREM TypeOKCorrect == Spec => []TypeOK
<1>1. Sound => TypeOK
  <2> SUFFICES ASSUME Sound PROVE TypeOK
    OBVIOUS
  <2>1. StoresOK /\ ValuesOK /\ SearchesOK /\ CacheOK(cache, recent)
    BY DEF Sound
  <2>2. cache.keys \subseteq Keys
    <3>1. SUFFICES ASSUME NEW key \in cache.keys PROVE key \in Keys
      OBVIOUS
    <3>2. PICK i \in 1..Len(cache.list) : key = cache.list[i].key
      BY <2>1, <3>1 DEF CacheOK, CacheAgrees
    <3>3. cache.list[i].value \in Texts /\ KeyOf[cache.list[i].value] = key
      BY <2>1, <3>2 DEF CacheOK, ValuesOK
    <3> QED BY <3>3 DEF Keys
  <2>3. ASSUME NEW c \in Searchers, search[c].at # "idle"
        PROVE  In(search[c].out) \subseteq Ids /\ search[c].steady \subseteq search[c].alive
    <3>1. Watching(search[c], rows) /\ ListsOK(search[c])
      BY <2>3, AtWork
    <3> QED BY <3>1 DEF Watching, ListsOK, In
  <2> QED BY <2>1, <2>2, <2>3 DEF TypeOK, StoresOK, ValuesOK
<1> QED BY <1>1, SoundHolds, PTL

(* Whatever is stored and deleted between the calls of SearchWithFilters,  *)
(* an answer names no memory twice, none of another tenant, no more than   *)
(* were asked for, and none that was not stored during the search.         *)
THEOREM AnswersAreCurrentCorrect == Spec => []AnswersAreCurrent
<1>1. ReplyOK => AnswersAreCurrent
  BY DEF ReplyOK
<1> QED BY <1>1, SoundHolds, PTL

(* The kinds that were asked for are respected by every memory of an       *)
(* answer, the tiers by all but those that follow one of their own turn.   *)
THEOREM AnswersMatchFiltersCorrect == Spec => []AnswersMatchFilters
<1>1. ReplyOK => AnswersMatchFilters
  BY DEF ReplyOK
<1> QED BY <1>1, SoundHolds, PTL

(* A search that returns fewer memories than asked for has not missed one  *)
(* that was stored all the while and shares a word with the query, unless  *)
(* a list of candidates was cut or the facts alone answered.               *)
THEOREM SettledMatchesAreFoundCorrect == Spec => []SettledMatchesAreFound
<1>1. ReplyOK => SettledMatchesAreFound
  BY DEF ReplyOK
<1> QED BY <1>1, SoundHolds, PTL

-----------------------------------------------------------------------------
(* The scores of a ranked list are those of its signals.                   *)

(* A list that rankMemories scored for this query under these settings. *)
Weighed(ranked, q, s) ==
    \E nonRaw \in BOOLEAN : \A n \in 1..Len(ranked) :
        LET x == ranked[n]
        IN /\ x.id \in Ids /\ x.f \in Feature
           /\ x.score = Score(x.f, Memory[x.id], nonRaw, q, s)

LEMMA RankMemoriesWeighs ==
    ASSUME StoresOK, NEW loaded \in Seq(Ids), NEW signals, \A i \in 1..Len(loaded) : SignalOK(signals[i]),
           NEW limit \in Int, NEW q, IsSeq(q.words),
           NEW scored, scored = RankMemories(Itemised(loaded, signals), limit, q, settings)
    PROVE  Weighed(Scores(scored), q, settings)
<1>1. PICK items : items = Itemised(loaded, signals)
  OBVIOUS
<1>2. /\ ItemsOK(items, Ids, Memories) /\ Len(items) = Len(loaded)
      /\ \A i \in 1..Len(loaded) : items[i].id = loaded[i] /\ items[i].memory = Memory[loaded[i]]
  BY <1>1, ItemsAre
<1>3. WeightsOK(settings) /\ Ids \in SUBSET Int /\ \A m \in Memories : MemoryOK(m)
  BY SettingsAre, IdsAre, MemoriesAre DEF StoresOK, ServerOK
<1>4. Len(items) \in Nat /\ DOMAIN items = 1..Len(items)
  BY <1>2 DEF ItemsOK, IsSeq
<1>5. PICK features : features = Features(items, limit, q, settings)
  OBVIOUS
<1>6. features \in Seq(Feature) /\ Len(features) = Len(items)
  BY ONLY <1>2, <1>3, <1>5, limit \in Int, IsSeq(q.words), NormalizedType
<1>7. PICK nonRaw \in BOOLEAN : nonRaw = (\E i \in DOMAIN items : items[i].memory.kind # "raw_turn")
  OBVIOUS
<1> DEFINE entry(i) == Ranked(items[i], features[i], nonRaw, q, settings)
           listed == [i \in DOMAIN items |-> entry(i)]
<1>8. scored = SortStable(listed)
  BY <1>1, <1>5, <1>7, Zenon DEF RankMemories
<1>9. \A i \in 1..Len(items) :
         /\ entry(i) \in Scored(Ids, Memories)
         /\ entry(i).id \in Ids /\ entry(i).f \in Feature
         /\ entry(i).score = Score(entry(i).f, Memory[entry(i).id], nonRaw, q, settings)
  <2> TAKE i \in 1..Len(items)
  <2>1. PICK f : f = features[i]
    OBVIOUS
  <2>2. PICK id : id = loaded[i]
    OBVIOUS
  <2>3. f \in Feature /\ id \in Ids /\ items[i].id = id /\ items[i].memory = Memory[id]
    BY <1>2, <1>6, <2>1, <2>2
  <2>4. Memory[id] \in Memories /\ Memory[id].kind \in KindNames
    BY <1>3, <2>3 DEF Memories, MemoryOK
  <2>5. Score(f, Memory[id], nonRaw, q, settings) \in 0..One
    BY <1>3, <2>3, <2>4, FeatureFields, ScoreType
  <2>6. entry(i) = [id |-> id, memory |-> Memory[id], f |-> f, score |-> Score(f, Memory[id], nonRaw, q, settings)]
    BY <2>1, <2>3 DEF Ranked
  <2> HIDE DEF entry
  <2> QED BY <2>3, <2>4, <2>5, <2>6 DEF Scored
<1> HIDE DEF entry
<1>10. listed \in Seq(Scored(Ids, Memories)) /\ Len(listed) = Len(items)
       /\ \A i \in 1..Len(items) : listed[i] = entry(i)
  BY <1>4, <1>9
<1> HIDE DEF listed
<1>11. scored \in Seq(Scored(Ids, Memories)) /\ ComesFrom(scored, listed, 1..Len(listed))
  <2>1. \A i \in 1..Len(listed) : listed[i].score \in Int /\ listed[i].id \in Int
    BY <1>3, <1>10, ScoredAre
  <2>2. PICK places : places = 1..Len(listed)
    OBVIOUS
  <2>3. Selects(scored, listed, places) /\ places \in SUBSET (1..Len(listed))
    BY <1>8, <1>10, <2>1, <2>2, SortedSelects
  <2> QED BY <1>10, <2>2, <2>3, SelectsHolds
<1>12. \A n \in 1..Len(scored) :
          /\ scored[n].id \in Ids /\ scored[n].f \in Feature
          /\ scored[n].score = Score(scored[n].f, Memory[scored[n].id], nonRaw, q, settings)
  <2> TAKE n \in 1..Len(scored)
  <2>1. PICK i \in 1..Len(listed) : scored[n] = listed[i]
    BY <1>11, Zenon DEF ComesFrom
  <2>2. i \in 1..Len(items) /\ scored[n] = entry(i)
    BY <1>10, <2>1
  <2> QED BY <1>9, <2>2
<1> DEFINE kept(n) == [id |-> scored[n].id, score |-> scored[n].score, f |-> scored[n].f]
           list == [n \in 1..Len(scored) |-> kept(n)]
<1>13. Scores(scored) = Made(list)
  BY DEF Scores
<1>14. \A n \in 1..Len(scored) :
          /\ kept(n).id = scored[n].id /\ kept(n).f = scored[n].f /\ kept(n).score = scored[n].score
  OBVIOUS
<1>15. Len(scored) \in Nat
  BY <1>11
<1> HIDE DEF kept
<1>16. IsSeq(list) /\ Len(list) = Len(scored) /\ \A n \in 1..Len(scored) : list[n] = kept(n)
  <2> PICK T : T = {kept(n) : n \in 1..Len(scored)}
    OBVIOUS
  <2>1. list \in Seq(T)
    BY <1>15
  <2>2. IsSeq(list)
    BY <2>1, Zenon DEF IsSeq
  <2> QED BY <1>15, <2>2
<1> HIDE DEF list
<1>17. Scores(scored) = list
  BY <1>13, <1>16, MadeSame DEF IsSeq
<1> QED BY <1>12, <1>14, <1>16, <1>17 DEF Weighed

(* The order of two scores is that of the signals. *)
LEMMA WeighedRankHigher ==
    ASSUME StoresOK, NEW q, NEW ranked, Weighed(ranked, q, settings),
           NEW x \in In(ranked), NEW y \in In(ranked),
           Alike(Memory[x.id], Memory[y.id]), NoWorse(x.f, y.f),
           settings.algorithm = "match" => x.f.dependency = y.f.dependency,
           settings.algorithm # "match" /\ Routed(q) =>
              \A nonRaw \in BOOLEAN : WeighedTotal(y.f, Memory[y.id], nonRaw, q, settings) > 0
    PROVE  x.score >= y.score
<1>1. PICK nonRaw \in BOOLEAN : \A n \in 1..Len(ranked) :
         /\ ranked[n].id \in Ids /\ ranked[n].f \in Feature
         /\ ranked[n].score = Score(ranked[n].f, Memory[ranked[n].id], nonRaw, q, settings)
  BY DEF Weighed
<1>2. /\ x.id \in Ids /\ x.f \in Feature /\ x.score = Score(x.f, Memory[x.id], nonRaw, q, settings)
      /\ y.id \in Ids /\ y.f \in Feature /\ y.score = Score(y.f, Memory[y.id], nonRaw, q, settings)
  BY <1>1 DEF In
<1>3. PICK f, g, m, n : f = x.f /\ g = y.f /\ m = Memory[x.id] /\ n = Memory[y.id]
  OBVIOUS
<1>4. NoWorseThan(f, g)
  <2>1. FeatureOK(f) /\ FeatureOK(g)
    BY <1>2, <1>3, FeatureFields
  <2>2. DOMAIN f = {"recency", "relevance", "importance", "raw", "rrf", "overlap", "dependency"}
    BY <1>2, <1>3 DEF Feature
  <2>3. \A field \in DOMAIN f : f[field] >= g[field]
    BY <1>3 DEF NoWorse
  <2> QED BY <2>1, <2>2, <2>3 DEF NoWorseThan
<1>5. LikeEachOther(m, n)
  BY <1>3 DEF Alike, LikeEachOther
<1>6. m.kind \in KindNames /\ WeightsOK(settings)
  <2>1. m \in Memories
    BY <1>2, <1>3 DEF Memories
  <2> QED BY <2>1, MemoriesAre, SettingsAre DEF MemoryOK, StoresOK, ServerOK
<1>7. /\ settings.algorithm = "match" => f.dependency = g.dependency
      /\ settings.algorithm # "match" /\ Routed(q) => WeighedTotal(g, n, nonRaw, q, settings) > 0
  BY <1>3
<1>8. Score(f, m, nonRaw, q, settings) >= Score(g, n, nonRaw, q, settings)
  BY <1>4, <1>5, <1>6, <1>7, ScoreRises
<1> QED BY <1>2, <1>3, <1>8

(* The ranking stays what it is until the next one. *)
Carries(k, ranked, q) == DOMAIN k = Fields /\ k.ranked = ranked /\ k.query = q

LEMMA CarriesRound ==
    ASSUME NEW k, NEW ranked, NEW q, Carries(k, ranked, q), NEW round, NEW texts
    PROVE  Carries(Round(k, round, texts), ranked, q)
BY DEF Carries, Fields, Round

LEMMA CarriesAt ==
    ASSUME NEW k, NEW ranked, NEW q, Carries(k, ranked, q), NEW at
    PROVE  Carries([k EXCEPT !.at = at], ranked, q)
BY DEF Carries, Fields

LEMMA CarriesAfterCandidates ==
    ASSUME NEW k, NEW ranked, NEW q, Carries(k, ranked, q)
    PROVE  Carries(AfterCandidates(k), ranked, q)
BY DEF Carries, Fields, AfterCandidates

LEMMA CarriesAfterLexical ==
    ASSUME NEW k, NEW ranked, NEW q, Carries(k, ranked, q)
    PROVE  Carries(AfterLexical(k), ranked, q)
BY CarriesAt, CarriesAfterCandidates DEF AfterLexical

LEMMA CarriesAfterDecomposed ==
    ASSUME NEW k, NEW ranked, NEW q, Carries(k, ranked, q)
    PROVE  Carries(AfterDecomposed(k), ranked, q)
BY CarriesAfterLexical, CarriesRound DEF AfterDecomposed

LEMMA CarriesAfterAdaptive ==
    ASSUME NEW k, NEW ranked, NEW q, Carries(k, ranked, q)
    PROVE  Carries(AfterAdaptive(k), ranked, q)
<1>1. Carries([k EXCEPT !.at = "decompose"], ranked, q)
  BY CarriesAt
<1> QED BY <1>1, CarriesAfterLexical, CarriesAfterDecomposed DEF AfterAdaptive

LEMMA CarriesAfterRound ==
    ASSUME NEW k, k.round \in Rounds, NEW ranked, NEW q, Carries(k, ranked, q)
    PROVE  Carries(AfterRound(k), ranked, q)
BY CarriesRound, CarriesAfterLexical, CarriesAfterDecomposed, CarriesAfterAdaptive DEF AfterRound, Rounds

LEMMA CarriesHybrid ==
    ASSUME NEW k, NEW ranked, NEW q, Carries(k, ranked, q)
    PROVE  Carries(Hybrid(k), ranked, q)
BY CarriesRound, CarriesAt DEF Hybrid

(* A new pass starts with an empty ranking. *)
LEMMA CarriesPass ==
    ASSUME NEW k, DOMAIN k = Fields, NEW kinds
    PROVE  Carries(Pass(k, kinds), <<>>, k.query)
<1> DEFINE fresh == [k EXCEPT !.kinds = kinds, !.planned = <<>>, !.hinted = <<>>, !.lexical = <<>>,
                              !.vectors = <<>>, !.dense = <<>>, !.cut = FALSE,
                              !.misses = <<>>, !.ranked = <<>>, !.out = <<>>, !.route = "hybrid"]
<1>1. Carries(fresh, <<>>, k.query)
  BY DEF Carries, Fields
<1>2. Carries([fresh EXCEPT !.at = "facts"], <<>>, k.query) /\ Carries(Hybrid(fresh), <<>>, k.query)
  <2> HIDE DEF fresh
  <2> QED BY <1>1, CarriesAt, CarriesHybrid
<1> QED BY <1>2 DEF Pass

(* Every search holds a ranking that was made for its query. *)
RankingsOK ==
    \A c \in Searchers : search[c].at = "idle" \/ Weighed(search[c].ranked, search[c].query, settings)

LEMMA WeighedNothing ==
    ASSUME NEW q, NEW s
    PROVE  Weighed(<<>>, q, s)
<1>1. 1..Len(<<>>) = {}
  OBVIOUS
<1> QED BY <1>1 DEF Weighed

LEMMA OneRanking ==
    ASSUME Sound, RankingsOK, NEW c \in Searchers, NEW k, search' = [search EXCEPT ![c] = k],
           k.at = "idle" \/ Weighed(k.ranked, k.query, settings), UNCHANGED settings
    PROVE  RankingsOK'
<1>1. DOMAIN search = Searchers
  BY DEF Sound, SearchOK
<1>2. ASSUME NEW d \in Searchers
      PROVE  search'[d].at = "idle" \/ Weighed(search'[d].ranked, search'[d].query, settings')
  BY <1>1 DEF RankingsOK
<1> QED BY <1>2 DEF RankingsOK

LEMMA Carried ==
    ASSUME Sound, RankingsOK, NEW c \in Searchers, search[c].at # "idle",
           NEW k, Carries(k, search[c].ranked, search[c].query), Continue(c, k)
    PROVE  RankingsOK'
<1>1. Weighed(k.ranked, k.query, settings)
  BY DEF RankingsOK, Carries
<1>2. search' = [search EXCEPT ![c] = k] /\ UNCHANGED settings
  BY DEF Continue
<1> QED BY <1>1, <1>2, OneRanking

LEMMA EndRanks ==
    ASSUME Sound, RankingsOK, NEW c \in Searchers, NEW k, DOMAIN k = Fields, NEW out, End(c, k, out),
           UNCHANGED settings
    PROVE  RankingsOK'
<1>1. CASE out = <<>> /\ Implicit(k.req) /\ k.kinds # {}
  <2>1. PICK p : p = Pass(k, {})
    OBVIOUS
  <2>2. Carries(p, <<>>, k.query)
    BY <2>1, CarriesPass
  <2>3. Weighed(p.ranked, p.query, settings)
    BY <2>2, WeighedNothing DEF Carries
  <2>4. search' = [search EXCEPT ![c] = p]
    BY <1>1, <2>1 DEF End
  <2> QED BY <2>3, <2>4, OneRanking
<1>2. CASE ~(out = <<>> /\ Implicit(k.req) /\ k.kinds # {})
  <2>1. search' = [search EXCEPT ![c] = Idle] /\ Idle.at = "idle"
    BY <1>2 DEF End, Idle
  <2> QED BY <2>1, OneRanking
<1> QED BY <1>1, <1>2

LEMMA BeginRanks ==
    ASSUME Sound, RankingsOK, NEW c \in Searchers, NEW req \in Requests(settings), SearchWithFilters(c, req)
    PROVE  RankingsOK'
<1>1. CASE ~Valid(req)
  <2>1. UNCHANGED <<search, settings>>
    BY <1>1 DEF SearchWithFilters
  <2> QED BY <2>1 DEF RankingsOK
<1>2. CASE Valid(req)
  <2>1. PICK kinds : kinds = IF Implicit(req) THEN CanonicalKinds ELSE req.kinds
    OBVIOUS
  <2>2. PICK k : k = Begun(req)
    OBVIOUS
  <2>3. DOMAIN k = Fields
    BY <2>2 DEF Begun, Fields
  <2>4. PICK p : p = Pass(k, kinds)
    OBVIOUS
  <2>5. Carries(p, <<>>, k.query)
    BY <2>3, <2>4, CarriesPass
  <2>6. Weighed(p.ranked, p.query, settings)
    BY <2>5, WeighedNothing DEF Carries
  <2>7. search' = [search EXCEPT ![c] = p] /\ UNCHANGED settings
    BY <1>2, <2>1, <2>2, <2>4 DEF SearchWithFilters
  <2> QED BY <2>6, <2>7, OneRanking
<1> QED BY <1>1, <1>2

LEMMA FactsRank ==
    ASSUME Sound, RankingsOK, NEW c \in Searchers, SearchByEntityFacts(c)
    PROVE  RankingsOK'
<1>1. PICK k : k = search[c]
  OBVIOUS
<1>2. /\ k.at = "facts" /\ Frame(k, settings) /\ StoresOK /\ k.topK \in Nat /\ IsSeq(k.query.words)
      /\ DOMAIN k = Fields
  <2>1. k.at = "facts" /\ Frame(k, settings) /\ StoresOK /\ settings \in Settings
    BY <1>1, AtWork DEF SearchByEntityFacts
  <2> QED BY <2>1, FrameIs DEF Frame
<1>3. PICK loaded, signals :
         /\ loaded \in Seq(Ids) /\ loaded = FactsFound(k)
         /\ \A i \in 1..Len(loaded) : SignalOK(signals[i])
         /\ FactItems(k) = Itemised(loaded, signals)
  BY <1>2, FactItemsAre
<1>4. PICK limit : limit = Max({k.topK, Len(loaded)})
  OBVIOUS
<1>5. limit \in Int
  <2>1. PICK a, b \in Int : a = k.topK /\ b = Len(loaded)
    <3>1. k.topK \in Int /\ Len(loaded) \in Int
      BY <1>2, <1>3
    <3> QED BY <3>1
  <2> QED BY <1>4, <2>1, GreaterIs
<1>6. PICK scored : scored = RankMemories(FactItems(k), limit, k.query, settings)
  OBVIOUS
<1>7. Weighed(Scores(scored), k.query, settings)
  <2>1. scored = RankMemories(Itemised(loaded, signals), limit, k.query, settings)
    BY <1>3, <1>6
  <2> QED BY <1>2, <1>3, <1>5, <2>1, RankMemoriesWeighs
<1>8. PICK out : out = Chosen(PairwiseReranked(scored, k.query, k.topK, settings), k)
  OBVIOUS
<1>9. Continue(c, AfterFacts(k, scored, out))
  BY <1>1, <1>3, <1>4, <1>6, <1>8 DEF SearchByEntityFacts, FactsRanked
<1>10. CASE out = <<>>
  <2>1. Carries(Hybrid(k), k.ranked, k.query)
    BY <1>2, CarriesHybrid DEF Carries
  <2>2. Continue(c, Hybrid(k))
    BY <1>9, <1>10 DEF AfterFacts
  <2> QED BY <1>1, <1>2, <2>1, <2>2, Carried
<1>11. CASE out # <<>>
  <2>1. PICK at : at = IF k.kinds = {} THEN "expand" ELSE "touch"
    OBVIOUS
  <2>2. PICK new : new = [k EXCEPT !.at = at, !.route = "facts", !.ranked = Scores(scored), !.out = out]
    OBVIOUS
  <2>3. new.ranked = Scores(scored) /\ new.query = k.query
    BY <1>2, <2>2 DEF Fields
  <2>4. search' = [search EXCEPT ![c] = new] /\ UNCHANGED settings
    BY <1>9, <1>11, <2>1, <2>2 DEF AfterFacts, Continue
  <2> QED BY <1>7, <2>3, <2>4, OneRanking
<1> QED BY <1>10, <1>11

LEMMA FuseRanks ==
    ASSUME Sound, RankingsOK, NEW c \in Searchers, FuseAndRank(c)
    PROVE  RankingsOK'
<1>1. PICK k : k = search[c]
  OBVIOUS
<1>2. /\ k.at = "fuse" /\ Frame(k, settings) /\ ListsOK(k) /\ StoresOK /\ IsSeq(k.query.words)
      /\ DOMAIN k = Fields
  <2>1. k.at = "fuse" /\ Frame(k, settings) /\ ListsOK(k) /\ StoresOK /\ settings \in Settings
    BY <1>1, AtWork DEF FuseAndRank
  <2> QED BY <2>1, FrameIs DEF Frame
<1>3. PICK lexical, dense : lexical = SortById(LexicalCandidates(k)) /\ dense = SortById(k.dense)
  OBVIOUS
<1>4. dense \in Seq(Candidate(Ids)) /\ lexical \in Seq(Candidate(Ids))
  <2>1. k.dense \in Seq(Candidate(Ids)) /\ k.hinted \in Seq(Candidate(Ids)) /\ k.lexical \in Seq(Candidate(Ids))
    BY <1>2 DEF ListsOK
  <2>2. LexicalCandidates(k) \in Seq(Candidate(Ids))
    BY <2>1 DEF LexicalCandidates
  <2> QED BY <1>3, <2>1, <2>2, IdsAre, SortedCandidates
<1>5. PICK ids : ids = FusedIds(dense, lexical)
  OBVIOUS
<1>6. ids \in Seq(Ids) /\ Distinct(ids)
  BY <1>4, <1>5, IdsAre, FusedIdsHold
<1>7. PICK window \in Int : window = Window(k)
  BY <1>2, WindowIs
<1>8. PICK some : some = Cut(ids, window)
  OBVIOUS
<1>9. some \in Seq(Ids) /\ Distinct(some)
  <2>1. /\ some \in Seq(Ids) /\ Len(some) <= Len(ids)
        /\ \A i \in 1..Len(some) : some[i] = ids[i]
    BY <1>6, <1>7, <1>8, CutType
  <2> QED BY <1>6, <2>1 DEF Distinct
<1>10. PICK loaded : loaded = GetByIDs(k.req.tenant, some)
  OBVIOUS
<1>11. loaded \in Seq(Ids)
  BY <1>9, <1>10, GetByIDsIs
<1>12. PICK items : items = FusedItems(k, dense, lexical, ids)
  OBVIOUS
<1>13. PICK signals : /\ \A i \in 1..Len(loaded) : SignalOK(signals[i])
                      /\ items = Itemised(loaded, signals)
  BY <1>2, <1>4, <1>6, <1>7, <1>8, <1>10, <1>12, FusedItemsAre
<1>14. PICK scored : scored = RankMemories(items, window, k.query, settings)
  OBVIOUS
<1>15. Weighed(Scores(scored), k.query, settings)
  <2>1. scored = RankMemories(Itemised(loaded, signals), window, k.query, settings)
    BY <1>13, <1>14
  <2> QED BY <1>2, <1>11, <1>13, <2>1, RankMemoriesWeighs
<1>16. PICK k1 : k1 = [k EXCEPT !.cut = k.cut \/ Len(ids) > window]
  OBVIOUS
<1>17. PICK out : out = Chosen(Reranked(scored, k.query, k.topK, settings), k1)
  OBVIOUS
<1>18. PICK m : m = [k1 EXCEPT !.ranked = Scores(scored), !.hinted = <<>>, !.lexical = <<>>, !.dense = <<>>]
  OBVIOUS
<1>19. /\ k1.query = k.query /\ k1.topK = k.topK /\ DOMAIN k1 = Fields
       /\ DOMAIN m = Fields /\ m.ranked = Scores(scored) /\ m.query = k.query
  BY <1>2, <1>16, <1>18 DEF Fields
<1>20. AfterRanking(c, m, out)
  BY <1>1, <1>3, <1>5, <1>7, <1>12, <1>14, <1>16, <1>17, <1>18, <1>19
     DEF FuseAndRank, CandidatesFused, CandidatesRanked
<1>21. CASE out = <<>>
  BY <1>19, <1>20, <1>21, EndRanks DEF AfterRanking
<1>22. CASE out # <<>>
  <2>1. PICK at : at = IF m.kinds = {} /\ (m.query.temporal \/ m.query.multiHop) THEN "expand" ELSE "touch"
    OBVIOUS
  <2>2. PICK new : new = [m EXCEPT !.out = out, !.at = at]
    OBVIOUS
  <2>3. new.ranked = Scores(scored) /\ new.query = k.query
    BY <1>19, <2>2 DEF Fields
  <2>4. search' = [search EXCEPT ![c] = new] /\ UNCHANGED settings
    BY <1>20, <1>22, <2>1, <2>2 DEF AfterRanking, Continue
  <2> QED BY <1>15, <2>3, <2>4, OneRanking
<1> QED BY <1>21, <1>22

(* The steps between a ranking and the next. *)
LEMMA CollectingRanks ==
    ASSUME Sound, RankingsOK, NEW c \in Searchers,
           CollectEntityHints(c) \/ CollectLexical(c) \/ Decompose(c) \/ CollectGraphBridge(c)
    PROVE  RankingsOK'
<1>1. PICK k, ranked, q : k = search[c] /\ ranked = k.ranked /\ q = k.query
  OBVIOUS
<1>2. /\ k.at # "idle" /\ DOMAIN k = Fields /\ k.round \in Rounds /\ Carries(k, ranked, q)
  <2>1. k.at # "idle"
    BY <1>1 DEF CollectEntityHints, CollectLexical, Decompose, CollectGraphBridge
  <2>2. Frame(k, settings) /\ Course(k)
    BY <1>1, <2>1, AtWork
  <2> QED BY <1>1, <2>1, <2>2 DEF Frame, Course, Shape, Carries
<1>3. CASE CollectEntityHints(c)
  <2>1. PICK m : m = [k EXCEPT !.hinted = HintsFound(k)]
    OBVIOUS
  <2>2. Carries(m, ranked, q)
    BY <1>2, <2>1 DEF Carries, Fields
  <2>3. PICK new : new = Round(m, "initial", SearchQueries(q))
    OBVIOUS
  <2>4. Carries(new, ranked, q)
    BY <2>2, <2>3, CarriesRound
  <2>5. Continue(c, new)
    BY <1>1, <1>3, <2>1, <2>3 DEF CollectEntityHints, Query
  <2> QED BY <1>1, <1>2, <2>4, <2>5, Carried
<1>4. CASE CollectLexical(c)
  <2>1. PICK text, all : text = Head(k.todo) /\ all = Matches(Tenant(c), text, k.kinds, k.req.tiers, rows)
    OBVIOUS
  <2>2. PICK more : more = [k EXCEPT !.todo = Tail(@), !.lexical = @ \o LexicalFound(k, text),
                                     !.cut = @ \/ Cardinality(all) > Window(k)]
    OBVIOUS
  <2>3. Carries(more, ranked, q) /\ more.round \in Rounds
    BY <1>2, <2>2 DEF Carries, Fields
  <2>4. Carries(AfterRound(more), ranked, q)
    BY <2>3, CarriesAfterRound
  <2>5. Continue(c, IF more.todo = <<>> THEN AfterRound(more) ELSE more)
    BY <1>1, <1>4, <2>1, <2>2 DEF CollectLexical
  <2> QED BY <1>1, <1>2, <2>3, <2>4, <2>5, Carried
<1>5. CASE Decompose(c)
  <2>1. Carries(AfterDecomposed(k), ranked, q) /\ \A texts : Carries(Round(k, "decomposed", texts), ranked, q)
    BY <1>2, CarriesAfterDecomposed, CarriesRound
  <2>2. PICK texts : Continue(c, IF texts = <<>> THEN AfterDecomposed(k) ELSE Round(k, "decomposed", texts))
    BY <1>1, <1>5 DEF Decompose
  <2> QED BY <1>1, <1>2, <2>1, <2>2, Carried
<1>6. CASE CollectGraphBridge(c)
  <2>1. PICK m : m = [k EXCEPT !.lexical = @ \o BridgeFound(k)]
    OBVIOUS
  <2>2. Carries(m, ranked, q)
    BY <1>2, <2>1 DEF Carries, Fields
  <2>3. PICK new : new = AfterCandidates(m)
    OBVIOUS
  <2>4. Carries(new, ranked, q)
    BY <2>2, <2>3, CarriesAfterCandidates
  <2>5. Continue(c, new)
    BY <1>1, <1>6, <2>1, <2>3 DEF CollectGraphBridge
  <2> QED BY <1>1, <1>2, <2>4, <2>5, Carried
<1> QED BY <1>3, <1>4, <1>5, <1>6

LEMMA EmbeddingRanks ==
    ASSUME Sound, RankingsOK, NEW c \in Searchers,
           LookUpEmbedding(c) \/ EmbedContents(c) \/ RememberEmbedding(c) \/ SearchVector(c)
              \/ ExpandGroundedContext(c)
    PROVE  RankingsOK'
<1>1. PICK k : k = search[c]
  OBVIOUS
<1>2. k.at # "idle" /\ DOMAIN k = Fields
  <2>1. k.at # "idle"
    BY <1>1 DEF LookUpEmbedding, EmbedContents, RememberEmbedding, SearchVector, ExpandGroundedContext
  <2> QED BY <1>1, <2>1, AtWork DEF Frame
<1>3. \A vectors, misses, todo, at :
         Carries([k EXCEPT !.vectors = vectors, !.misses = misses, !.todo = todo, !.at = at], k.ranked, k.query)
  BY <1>2 DEF Carries, Fields
<1>4. \A vectors, cut, dense, at :
         Carries([k EXCEPT !.vectors = vectors, !.cut = cut, !.dense = dense, !.at = at], k.ranked, k.query)
  BY <1>2 DEF Carries, Fields
<1>5. \A vectors, misses, out, at :
         /\ Carries([k EXCEPT !.vectors = vectors, !.at = at], k.ranked, k.query)
         /\ Carries([k EXCEPT !.misses = misses, !.at = at], k.ranked, k.query)
         /\ Carries([k EXCEPT !.out = out, !.at = at], k.ranked, k.query)
  BY <1>2 DEF Carries, Fields
<1>6. \E new : Carries(new, k.ranked, k.query) /\ Continue(c, new)
  <2>1. CASE LookUpEmbedding(c)
    <3>1. PICK key, text : text = Head(k.todo) /\ key = KeyOf[text]
      OBVIOUS
    <3>2. PICK vector : vector = IF Hit(cache, key) THEN Got(cache, key) ELSE None
      OBVIOUS
    <3>3. PICK misses : misses = IF Hit(cache, key) THEN k.misses ELSE Append(k.misses, text)
      OBVIOUS
    <3>4. PICK vectors, todo : vectors = Append(k.vectors, [text |-> text, vector |-> vector]) /\ todo = Tail(k.todo)
      OBVIOUS
    <3>5. PICK at : at = CASE ~(todo = <<>>) -> "lookup"
                           [] todo = <<>> /\ misses = <<>> -> "vector"
                           [] todo = <<>> /\ misses # <<>> -> "embed"
      OBVIOUS
    <3>6. PICK new : new = [k EXCEPT !.vectors = vectors, !.misses = misses, !.todo = todo, !.at = at]
      OBVIOUS
    <3>7. Continue(c, new)
      BY <1>1, <2>1, <3>1, <3>2, <3>3, <3>4, <3>5, <3>6 DEF LookUpEmbedding
    <3> QED BY <1>3, <3>6, <3>7
  <2>2. CASE EmbedContents(c)
    BY <1>1, <1>5, <2>2 DEF EmbedContents
  <2>3. CASE RememberEmbedding(c)
    BY <1>1, <1>5, <2>3 DEF RememberEmbedding
  <2>4. CASE SearchVector(c)
    BY <1>1, <1>4, <2>4 DEF SearchVector
  <2>5. CASE ExpandGroundedContext(c)
    BY <1>1, <1>5, <2>5 DEF ExpandGroundedContext
  <2> QED BY <2>1, <2>2, <2>3, <2>4, <2>5
<1> QED BY <1>1, <1>2, <1>6, Carried

LEMMA ChangeRanks ==
    ASSUME Sound, RankingsOK, NEW id \in Ids, Change(id)
    PROVE  RankingsOK'
<1>1. UNCHANGED settings
  BY DEF Change, InsertRow, UpsertEmbedding, StoreFacts, DeleteRow, DeleteEmbedding, Aside
<1>2. ASSUME NEW c \in Searchers
      PROVE  search'[c].at = "idle" \/ Weighed(search'[c].ranked, search'[c].query, settings)
  <2>1. CASE search[c].at = "idle"
    BY <2>1 DEF Change, InsertRow, UpsertEmbedding, StoreFacts, DeleteRow, DeleteEmbedding, Watch, Idle
  <2>2. CASE search[c].at # "idle"
    <3>1. DOMAIN search[c] = Fields
      BY <2>2, AtWork DEF Frame
    <3>2. \A ids : \A field \in {"alive", "steady"} :
             /\ [search[c] EXCEPT ![field] = ids].ranked = search[c].ranked
             /\ [search[c] EXCEPT ![field] = ids].query = search[c].query
      BY <3>1 DEF Fields
    <3>3. search'[c].ranked = search[c].ranked /\ search'[c].query = search[c].query
      <4>1. CASE InsertRow(id)
        BY <2>2, <3>2, <4>1 DEF InsertRow, Watch
      <4>2. CASE DeleteRow(id)
        BY <2>2, <3>2, <4>2 DEF DeleteRow, Watch
      <4>3. CASE UpsertEmbedding(id) \/ StoreFacts(id) \/ DeleteEmbedding(id)
        BY <4>3 DEF UpsertEmbedding, StoreFacts, DeleteEmbedding
      <4> QED BY <4>1, <4>2, <4>3 DEF Change
    <3> QED BY <2>2, <3>3 DEF RankingsOK
  <2> QED BY <2>1, <2>2
<1> QED BY <1>1, <1>2 DEF RankingsOK

LEMMA RankingsNext ==
    Sound /\ RankingsOK /\ [Next]_vars => RankingsOK'
<1> SUFFICES ASSUME Sound, RankingsOK, [Next]_vars
             PROVE  RankingsOK'
  OBVIOUS
<1>1. ASSUME NEW c \in Searchers, SearchStep(c)
      PROVE  RankingsOK'
  <2>1. CASE \E req \in Requests(settings) : SearchWithFilters(c, req)
    BY <2>1, BeginRanks
  <2>2. CASE TouchAndReturn(c)
    <3>1. DOMAIN search[c] = Fields
      BY <2>2, AtWork DEF TouchAndReturn, Frame
    <3>2. UNCHANGED settings /\ End(c, search[c], Cut(search[c].out, search[c].topK))
      BY <2>2 DEF TouchAndReturn
    <3> QED BY <3>1, <3>2, EndRanks
  <2>3. CASE Fail(c)
    <3>1. search' = [search EXCEPT ![c] = Idle] /\ Idle.at = "idle" /\ UNCHANGED settings
      BY <2>3 DEF Fail, Idle
    <3> QED BY <3>1, OneRanking
  <2> QED BY <1>1, <2>1, <2>2, <2>3, FactsRank, FuseRanks, CollectingRanks, EmbeddingRanks DEF SearchStep
<1>2. CASE UNCHANGED vars
  BY <1>2 DEF vars, RankingsOK
<1> QED BY <1>1, <1>2, ChangeRanks DEF Next

(* Of two memories of a ranking that are alike in kind and metadata, the   *)
(* one that is no worse in any signal has no lower score: weights, boosts  *)
(* and the penalty for weak evidence never reverse the order of the        *)
(* signals (rankMemories), whatever the weights are.                       *)
THEOREM BetterSignalsRankHigherCorrect == Spec => []BetterSignalsRankHigher
<1>1. Init => RankingsOK
  BY DEF Init, Idle, RankingsOK
<1>2. Sound /\ RankingsOK => BetterSignalsRankHigher
  <2> SUFFICES ASSUME Sound, RankingsOK, NEW c \in Searchers, search[c].at \in {"expand", "touch"},
                      NEW x \in In(search[c].ranked), NEW y \in In(search[c].ranked),
                      Alike(Memory[x.id], Memory[y.id]), NoWorse(x.f, y.f),
                      settings.algorithm = "match" => x.f.dependency = y.f.dependency,
                      settings.algorithm # "match" /\ Routed(search[c].query) =>
                         \A nonRaw \in BOOLEAN :
                            WeighedTotal(y.f, Memory[y.id], nonRaw, search[c].query, settings) > 0
               PROVE  x.score >= y.score
    BY Zenon DEF BetterSignalsRankHigher, Query
  <2>1. Weighed(search[c].ranked, search[c].query, settings)
    BY DEF RankingsOK
  <2>2. StoresOK
    BY DEF Sound
  <2> QED BY <2>1, <2>2, WeighedRankHigher
<1> QED BY <1>1, <1>2, SoundHolds, RankingsNext, PTL DEF Spec

===========================================================================
