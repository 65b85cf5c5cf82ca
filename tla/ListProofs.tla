---------------------------- MODULE ListProofs ----------------------------
(***************************************************************************)
(* What the lists of module Lists hold, for any list and any order that    *)
(* tells any two elements apart: a sorted set is a list of the whole set   *)
(* with every element at its place, and a list that is arranged or picked  *)
(* holds each of its places once.  Recursive functions over a list are     *)
(* shown to exist and to keep what each of their steps keeps.              *)
(***************************************************************************)
EXTENDS Lists, FiniteSetTheorems, WellFoundedInduction, SequenceTheorems, TLAPS

-----------------------------------------------------------------------------
(* Natural numbers.                                                        *)

LEMMA IntervalCount ==
    ASSUME NEW n \in Nat
    PROVE  IsFiniteSet(1 .. n) /\ Cardinality(1 .. n) = n
  <1>1. n \in Int /\ 1 \in Int
    OBVIOUS
  <1>2. IsFiniteSet(1 .. n) /\ Cardinality(1 .. n) = (IF 1 > n THEN 0 ELSE n - 1 + 1)
    BY ONLY <1>1, FS_Interval
  <1>3. (IF 1 > n THEN 0 ELSE n - 1 + 1) = n
    OBVIOUS
  <1> QED BY <1>2, <1>3

(* A set of naturals that is not empty has a least element. *)
LEMMA LeastNatural ==
    ASSUME NEW T \in SUBSET Nat, T # {}
    PROVE  \E x \in T : \A y \in T : x <= y
  <1> DEFINE R == {ss \in Nat \X Nat : ss[1] < ss[2]}
  <1>0. IsWellFoundedOn(R, Nat)
    BY NatLessThanWellFounded, Zenon DEF OpToRel
  <1>1. PICK x \in T : \A y \in T : ~ (<<y, x>> \in R)
    <2> HIDE DEF R
    <2> QED
      BY <1>0, WFMin
  <1>2. \A y \in T : ~ (y < x)
    BY <1>1
  <1> QED
    BY <1>2

-----------------------------------------------------------------------------
(* Orders and sorted sets.  R is a set of pairs, the earlier element first. *)

Below(S, R, s) == {t \in S : <<t, s>> \in R}
Place(S, R, s) == Cardinality(Below(S, R, s)) + 1

Orders(R, S) ==
    /\ IsFiniteSet(S)
    /\ \A s \in S : <<s, s>> \notin R
    /\ \A s, t \in S : s # t => <<s, t>> \in R \/ <<t, s>> \in R
    /\ \A s, t, u \in S : <<s, t>> \in R /\ <<t, u>> \in R => <<s, u>> \in R

LEMMA PlaceType ==
    ASSUME NEW S, NEW R, Orders(R, S), NEW s \in S
    PROVE  Place(S, R, s) \in 1 .. Cardinality(S)
  <1>1. Below(S, R, s) \in SUBSET S /\ Below(S, R, s) # S
    BY DEF Below, Orders
  <1>2. IsFiniteSet(S)
    BY DEF Orders
  <1> QED
    BY <1>1, <1>2, FS_Subset, FS_CardinalityType DEF Place

(* Earlier in the order, earlier in the list. *)
LEMMA PlaceFollowsOrder ==
    ASSUME NEW S, NEW R, Orders(R, S), NEW s \in S, NEW t \in S, <<s, t>> \in R
    PROVE  Place(S, R, s) < Place(S, R, t)
  <1>1. /\ Below(S, R, s) \in SUBSET Below(S, R, t) /\ Below(S, R, s) # Below(S, R, t)
        /\ Below(S, R, t) \in SUBSET S
    BY DEF Below, Orders
  <1>2. IsFiniteSet(Below(S, R, t)) /\ IsFiniteSet(Below(S, R, s))
    BY <1>1, FS_Subset DEF Orders
  <1> QED
    BY <1>1, <1>2, FS_Subset, FS_CardinalityType DEF Place

LEMMA PlacesDiffer ==
    ASSUME NEW S, NEW R, Orders(R, S), NEW s \in S, NEW t \in S, Place(S, R, s) = Place(S, R, t)
    PROVE  s = t
  <1> SUFFICES ASSUME s # t PROVE FALSE
    OBVIOUS
  <1>1. <<s, t>> \in R \/ <<t, s>> \in R
    BY DEF Orders
  <1>2. Place(S, R, s) \in Nat /\ Place(S, R, t) \in Nat
    BY PlaceType
  <1> QED
    BY <1>1, <1>2, PlaceFollowsOrder

(* Every place is taken: places are as many as elements. *)
LEMMA PlacesTaken ==
    ASSUME NEW S, NEW R, Orders(R, S), NEW n \in 1 .. Cardinality(S)
    PROVE  \E s \in S : Place(S, R, s) = n
  <1> DEFINE f == [s \in S |-> Place(S, R, s)]
             T == 1 .. Cardinality(S)
  <1>1. Cardinality(S) \in Nat
    BY FS_CardinalityType DEF Orders
  <1>2. IsFiniteSet(T) /\ Cardinality(T) = Cardinality(S)
    BY <1>1, IntervalCount
  <1>3. f \in [S -> T]
    BY PlaceType
  <1>4. f \in Injection(S, T)
    <2>1. \A a, b \in DOMAIN f : f[a] = f[b] => a = b
      BY PlacesDiffer
    <2> QED
      BY <1>3, <2>1 DEF Injection, IsInjective
  <1>5. f \in Surjection(S, T)
    BY <1>2, <1>4, FS_Injection
  <1> QED
    BY <1>5 DEF Surjection

(* What is not among the first places comes after all that is. *)
LEMMA FirstLead ==
    ASSUME NEW S, NEW R, Orders(R, S), NEW s \in S, NEW t \in S, Place(S, R, s) < Place(S, R, t)
    PROVE  <<s, t>> \in R
  <1>1. Place(S, R, s) \in Nat /\ Place(S, R, t) \in Nat
    BY PlaceType
  <1>2. s # t
    BY <1>1
  <1>3. <<t, s>> \notin R
    BY <1>1, PlaceFollowsOrder
  <1> QED
    BY <1>2, <1>3 DEF Orders

(* Each element of the list is at its place in the order. *)
Sorts(list, S, R) ==
    /\ list \in [1 .. Cardinality(S) -> S]
    /\ \A n \in 1 .. Cardinality(S) : Place(S, R, list[n]) = n

(* The first of a list comes before every other of the set. *)
LeadsAll(list, S, R) ==
    /\ S # {} => list[1] \in S
    /\ \A t \in S : t = list[1] \/ <<list[1], t>> \in R

CutAt(top, list, limit) == top = SubSeq(list, 1, IF Len(list) > limit THEN limit ELSE Len(list))

(* A list cut at a limit holds the first in the order. *)
LEMMA Leaders ==
    ASSUME NEW S, NEW R, Orders(R, S), NEW f, Sorts(f, S, R), NEW limit \in Nat,
           NEW top, CutAt(top, f, limit)
    PROVE  /\ \A i \in 1 .. Len(top) : top[i] \in S
           /\ \A i \in 1 .. Len(top), t \in S :
                 (\A j \in 1 .. Len(top) : t # top[j]) => <<top[i], t>> \in R
           /\ limit # 0 => LeadsAll(top, S, R)
  <1> DEFINE size == Cardinality(S)
             m == IF size > limit THEN limit ELSE size
  <1>1. size \in Nat
    BY FS_CardinalityType DEF Orders
  <1>2. f \in Seq(S) /\ Len(f) = size
    <2>1. f \in [1 .. size -> S]
      BY DEF Sorts
    <2>2. f \in Seq(S)
      BY <1>1, <2>1, SeqDef
    <2> QED
      BY <1>1, <2>1, <2>2, LenProperties
  <1>3. m \in Nat /\ m <= size /\ top = SubSeq(f, 1, m)
    BY <1>1, <1>2 DEF CutAt
  <1> HIDE DEF m
  <1>4. Len(top) = m /\ \A i \in 1 .. m : top[i] = f[i]
    BY <1>1, <1>2, <1>3
  <1>5. ASSUME NEW i \in 1 .. m PROVE i \in 1 .. size /\ top[i] \in S /\ Place(S, R, top[i]) = i
    BY <1>1, <1>3, <1>4 DEF Sorts
  <1>6. ASSUME NEW i \in 1 .. m, NEW t \in S, \A j \in 1 .. m : t # top[j]
        PROVE  <<top[i], t>> \in R
    <2>1. Place(S, R, t) \in 1 .. size
      BY PlaceType
    <2>2. ~ (Place(S, R, t) \in 1 .. m)
      <3> SUFFICES ASSUME Place(S, R, t) \in 1 .. m PROVE FALSE
        OBVIOUS
      <3>1. Place(S, R, top[Place(S, R, t)]) = Place(S, R, t) /\ top[Place(S, R, t)] \in S
        BY <1>5
      <3>2. t = top[Place(S, R, t)]
        BY <3>1, PlacesDiffer
      <3> QED
        BY <1>6, <3>2
    <2>3. Place(S, R, top[i]) < Place(S, R, t) /\ top[i] \in S
      BY <1>1, <1>3, <1>5, <2>1, <2>2
    <2> QED
      BY <2>3, FirstLead
  <1>7. ASSUME limit # 0, NEW t \in S PROVE top[1] \in S /\ (t = top[1] \/ <<top[1], t>> \in R)
    <2>1. Place(S, R, t) \in 1 .. size
      BY PlaceType
    <2>2. 1 \in 1 .. m
      BY <1>1, <1>7, <2>1 DEF m
    <2>3. top[1] \in S /\ Place(S, R, top[1]) = 1
      BY <1>5, <2>2
    <2>4. CASE Place(S, R, t) = 1
      <3>1. Place(S, R, t) = Place(S, R, top[1])
        BY <2>3, <2>4
      <3> QED
        BY <2>3, <3>1, PlacesDiffer
    <2>5. CASE Place(S, R, t) # 1
      <3>1. Place(S, R, top[1]) < Place(S, R, t)
        BY ONLY <1>1, <2>1, <2>3, <2>5
      <3> QED
        BY <2>3, <3>1, FirstLead
    <2> QED
      BY <2>3, <2>4, <2>5
  <1>8. limit # 0 => LeadsAll(top, S, R)
    BY <1>7 DEF LeadsAll
  <1> QED
    BY <1>4, <1>5, <1>6, <1>8

(* A set by an order of its elements is a list that sorts it. *)
LEMMA SortedBySorts ==
    ASSUME NEW S, NEW R, Orders(R, S)
    PROVE  Sorts(SortedBy(S, R), S, R)
  <1> DEFINE size == Cardinality(S)
             at(n) == CHOOSE s \in S : Cardinality({t \in S : <<t, s>> \in R}) = n - 1
  <1>1. size \in Nat
    BY FS_CardinalityType DEF Orders
  <1>2. ASSUME NEW n \in 1 .. size
        PROVE  at(n) \in S /\ Place(S, R, at(n)) = n
    <2>1. PICK s \in S : Place(S, R, s) = n
      BY PlacesTaken
    <2>2. ASSUME NEW u \in S
          PROVE  Cardinality(Below(S, R, u)) \in Nat
      <3>1. Below(S, R, u) \in SUBSET S
        BY DEF Below
      <3> QED
        BY <3>1, FS_Subset, FS_CardinalityType DEF Orders
    <2>3. Cardinality(Below(S, R, s)) = n - 1
      BY <1>1, <2>1, <2>2 DEF Place
    <2>4. at(n) \in S /\ Cardinality({t \in S : <<t, at(n)>> \in R}) = n - 1
      BY <2>3 DEF Below
    <2>5. Cardinality(Below(S, R, at(n))) = n - 1
      BY <2>4 DEF Below
    <2> QED
      BY <1>1, <2>4, <2>5 DEF Place
  <1>3. SortedBy(S, R) = [n \in 1 .. size |-> at(n)]
    BY DEF SortedBy
  <1> HIDE DEF at
  <1> QED
    BY <1>2, <1>3 DEF Sorts

(* A list that sorts a set holds each of its elements once. *)
Enumerates(list, S) ==
    /\ list \in Seq(S)
    /\ Len(list) = Cardinality(S)
    /\ \A s \in S : \E n \in 1 .. Len(list) : list[n] = s
    /\ \A m, n \in 1 .. Len(list) : list[m] = list[n] => m = n

LEMMA SortsEnumerates ==
    ASSUME NEW S, NEW R, Orders(R, S), NEW list, Sorts(list, S, R)
    PROVE  Enumerates(list, S)
  <1> DEFINE size == Cardinality(S)
  <1>1. size \in Nat
    BY FS_CardinalityType DEF Orders
  <1>2. list \in Seq(S) /\ Len(list) = size
    <2>1. list \in [1 .. size -> S]
      BY DEF Sorts
    <2>2. list \in Seq(S)
      BY <1>1, <2>1, SeqDef
    <2> QED
      BY <1>1, <2>1, <2>2, LenProperties
  <1>3. \A m, n \in 1 .. size : list[m] = list[n] => m = n
    BY DEF Sorts
  <1>4. ASSUME NEW s \in S PROVE \E n \in 1 .. size : list[n] = s
    <2>1. Place(S, R, s) \in 1 .. size
      BY PlaceType
    <2>2. list[Place(S, R, s)] \in S /\ Place(S, R, list[Place(S, R, s)]) = Place(S, R, s)
      BY <2>1 DEF Sorts
    <2>3. list[Place(S, R, s)] = s
      BY <2>2, PlacesDiffer
    <2> QED
      BY <2>1, <2>3
  <1> QED
    BY <1>2, <1>3, <1>4 DEF Enumerates

LEMMA AscendingEnumerates ==
    ASSUME NEW S \in SUBSET Int, IsFiniteSet(S)
    PROVE  Enumerates(Ascending(S), S)
  <1> DEFINE R == {p \in S \X S : p[1] < p[2]}
  <1>1. Orders(R, S)
    <2>1. \A s, t \in S : <<s, t>> \in R <=> s < t
      OBVIOUS
    <2> HIDE DEF R
    <2> QED
      BY <2>1 DEF Orders
  <1>2. Ascending(S) = SortedBy(S, R)
    BY DEF Ascending
  <1> HIDE DEF R
  <1> QED
    BY <1>1, <1>2, SortedBySorts, SortsEnumerates

-----------------------------------------------------------------------------
(* Lists made of the elements of a list.                                   *)

IsSeq(s) == \E T : s \in Seq(T)

Distinct(s) == \A i, j \in 1 .. Len(s) : s[i] = s[j] => i = j

(* new holds what is at these places of list, each place once, in any order. *)
Selects(new, list, places) ==
    \E order : /\ Enumerates(order, places)
               /\ new = [n \in 1 .. Len(order) |-> list[order[n]]]

LEMMA MadeSame ==
    ASSUME NEW T, NEW s \in Seq(T)
    PROVE  Made(s) = s
  BY DEF Made

LEMMA FunctionSeq ==
    ASSUME NEW T, NEW n \in Nat, NEW f \in [1 .. n -> T]
    PROVE  f \in Seq(T) /\ Len(f) = n
  OBVIOUS

LEMMA PlacesFinite ==
    ASSUME NEW T, NEW list \in Seq(T), NEW places \in SUBSET (1 .. Len(list))
    PROVE  /\ IsFiniteSet(places) /\ places \in SUBSET Int
           /\ Cardinality(places) \in Nat /\ Cardinality(places) <= Len(list)
           /\ Cardinality(1 .. Len(list)) = Len(list)
  <1>1. Len(list) \in Nat
    OBVIOUS
  <1>2. IsFiniteSet(1 .. Len(list)) /\ Cardinality(1 .. Len(list)) = Len(list)
    BY <1>1, IntervalCount
  <1>3. IsFiniteSet(places) /\ Cardinality(places) <= Cardinality(1 .. Len(list))
    BY <1>2, FS_Subset
  <1>4. Cardinality(places) \in Nat
    BY <1>3, FS_CardinalityType
  <1>5. places \in SUBSET Int
    BY <1>1
  <1> QED
    BY <1>2, <1>3, <1>4, <1>5

(* A list of the places of a list. *)
LEMMA EnumeratesPlaces ==
    ASSUME NEW S, NEW order, Enumerates(order, S)
    PROVE  /\ Len(order) \in Nat /\ Len(order) = Cardinality(S)
           /\ \A n \in 1 .. Len(order) : order[n] \in S
           /\ \A s \in S : \E n \in 1 .. Len(order) : order[n] = s
           /\ \A m, n \in 1 .. Len(order) : order[m] = order[n] => m = n
  BY DEF Enumerates

LEMMA PickedSelects ==
    ASSUME NEW T, NEW list \in Seq(T), NEW places \in SUBSET (1 .. Len(list))
    PROVE  Selects(Picked(list, places), list, places)
  <1> DEFINE order == Ascending(places)
             new == [n \in 1 .. Cardinality(places) |-> list[order[n]]]
  <1>1. IsFiniteSet(places) /\ places \in SUBSET Int
    BY PlacesFinite
  <1>2. Enumerates(order, places)
    BY <1>1, AscendingEnumerates
  <1>3. Picked(list, places) = Made(new)
    BY DEF Picked
  <1> HIDE DEF order
  <1>4. new \in Seq(T)
    <2>1. Cardinality(places) \in Nat
      BY <1>1, FS_CardinalityType
    <2>2. \A n \in 1 .. Cardinality(places) : order[n] \in places
      BY <1>2, EnumeratesPlaces
    <2>3. \A n \in 1 .. Cardinality(places) : list[order[n]] \in T
      <3>1. \A i \in places : list[i] \in T
        OBVIOUS
      <3> QED
        BY <2>2, <3>1
    <2> QED
      BY <2>1, <2>3
  <1>5. Picked(list, places) = new
    BY <1>3, <1>4, MadeSame
  <1>6. Len(order) = Cardinality(places)
    BY <1>2, EnumeratesPlaces
  <1> QED
    BY <1>2, <1>5, <1>6 DEF Selects

LEMMA ArrangedSelects ==
    ASSUME NEW T, NEW list \in Seq(T), NEW R, Orders(R, 1 .. Len(list))
    PROVE  Selects(Arranged(list, R), list, 1 .. Len(list))
  <1> DEFINE order == SortedBy(1 .. Len(list), R)
             new == [n \in 1 .. Len(list) |-> list[order[n]]]
  <1>1. Enumerates(order, 1 .. Len(list))
    BY SortedBySorts, SortsEnumerates
  <1>2. Arranged(list, R) = Made(new)
    BY DEF Arranged
  <1>3. Cardinality(1 .. Len(list)) = Len(list)
    BY PlacesFinite
  <1> HIDE DEF order
  <1>4. new \in Seq(T)
    <2>1. \A n \in 1 .. Len(list) : order[n] \in 1 .. Len(list)
      BY <1>1, <1>3, EnumeratesPlaces
    <2>2. \A n \in 1 .. Len(list) : list[order[n]] \in T
      BY <2>1
    <2> QED
      BY <2>2
  <1>5. Arranged(list, R) = new
    BY <1>2, <1>4, MadeSame
  <1>6. Len(order) = Len(list)
    BY <1>1, <1>3, EnumeratesPlaces
  <1> QED
    BY <1>1, <1>5, <1>6 DEF Selects

(* All of a list comes from these places of another one; all that is there is in it. *)
ComesFrom(new, list, places) == \A n \in 1 .. Len(new) : \E i \in places : new[n] = list[i]
HasAll(new, list, places) == \A i \in places : \E n \in 1 .. Len(new) : new[n] = list[i]

LEMMA SelectsHolds ==
    ASSUME NEW T, NEW list \in Seq(T), NEW places \in SUBSET (1 .. Len(list)),
           NEW new, Selects(new, list, places)
    PROVE  /\ new \in Seq(T)
           /\ Len(new) = Cardinality(places) /\ Len(new) <= Len(list)
           /\ ComesFrom(new, list, places)
           /\ HasAll(new, list, places)
  <1>1. PICK order : Enumerates(order, places) /\ new = [n \in 1 .. Len(order) |-> list[order[n]]]
    BY DEF Selects
  <1>2. PICK size : size = Len(order)
    OBVIOUS
  <1>3. /\ size \in Nat /\ size = Cardinality(places)
        /\ \A n \in 1 .. size : order[n] \in places
        /\ \A i \in places : \E n \in 1 .. size : order[n] = i
    BY <1>1, <1>2, EnumeratesPlaces
  <1>4. \A n \in 1 .. size : list[order[n]] \in T
    <2>1. \A i \in places : list[i] \in T
      OBVIOUS
    <2> QED
      BY <1>3, <2>1
  <1>5. new \in Seq(T) /\ Len(new) = size /\ \A n \in 1 .. size : new[n] = list[order[n]]
    BY <1>1, <1>2, <1>3, <1>4
  <1>6. Len(new) <= Len(list)
    BY <1>3, <1>5, PlacesFinite
  <1>7. \A n \in 1 .. size : \E i \in places : new[n] = list[i]
    BY <1>3, <1>5
  <1>8. \A i \in places : \E n \in 1 .. size : new[n] = list[i]
    BY <1>3, <1>5
  <1> QED
    BY <1>3, <1>5, <1>6, <1>7, <1>8 DEF ComesFrom, HasAll

(* What a list has once, a selection of it has once. *)
LEMMA SelectsDistinct ==
    ASSUME NEW T, NEW list \in Seq(T), NEW places \in SUBSET (1 .. Len(list)),
           NEW new, Selects(new, list, places),
           \A i, j \in places : list[i] = list[j] => i = j
    PROVE  Distinct(new)
  <1>1. PICK order : Enumerates(order, places) /\ new = [n \in 1 .. Len(order) |-> list[order[n]]]
    BY DEF Selects
  <1>2. /\ Len(order) \in Nat
        /\ \A n \in 1 .. Len(order) : order[n] \in places
        /\ \A m, n \in 1 .. Len(order) : order[m] = order[n] => m = n
    BY <1>1, EnumeratesPlaces
  <1>3. Len(new) = Len(order) /\ \A n \in 1 .. Len(order) : new[n] = list[order[n]]
    BY <1>1, <1>2
  <1>4. ASSUME NEW m \in 1 .. Len(order), NEW n \in 1 .. Len(order), new[m] = new[n]
        PROVE  m = n
    <2>1. list[order[m]] = list[order[n]] /\ order[m] \in places /\ order[n] \in places
      BY <1>2, <1>3, <1>4
    <2>2. order[m] = order[n]
      BY <2>1
    <2> QED
      BY <1>2, <2>2
  <1> QED
    BY <1>3, <1>4 DEF Distinct

(* Each id once. *)
DistinctIds(s) == \A i, j \in 1 .. Len(s) : s[i].id = s[j].id => i = j

LEMMA SelectsDistinctIds ==
    ASSUME NEW T, NEW list \in Seq(T), NEW places \in SUBSET (1 .. Len(list)),
           NEW new, Selects(new, list, places),
           \A i, j \in places : list[i].id = list[j].id => i = j
    PROVE  DistinctIds(new)
  <1>1. PICK order : Enumerates(order, places) /\ new = [n \in 1 .. Len(order) |-> list[order[n]]]
    BY DEF Selects
  <1>2. /\ Len(order) \in Nat
        /\ \A n \in 1 .. Len(order) : order[n] \in places
        /\ \A m, n \in 1 .. Len(order) : order[m] = order[n] => m = n
    BY <1>1, EnumeratesPlaces
  <1>3. Len(new) = Len(order) /\ \A n \in 1 .. Len(order) : new[n] = list[order[n]]
    BY <1>1, <1>2
  <1>4. ASSUME NEW m \in 1 .. Len(order), NEW n \in 1 .. Len(order), new[m].id = new[n].id
        PROVE  m = n
    <2>1. list[order[m]].id = list[order[n]].id /\ order[m] \in places /\ order[n] \in places
      BY <1>2, <1>3, <1>4
    <2>2. order[m] = order[n]
      BY <2>1
    <2> QED
      BY <1>2, <2>2
  <1> QED
    BY <1>3, <1>4 DEF DistinctIds

-----------------------------------------------------------------------------
(* Numbers counted up to a bound, and functions defined by recursion.      *)

LEMMA UpTo ==
    ASSUME NEW N \in Nat, NEW T, NEW f, f[0] \in T,
           \A i \in 1 .. N : f[i - 1] \in T => f[i] \in T
    PROVE  \A i \in 0 .. N : f[i] \in T
  <1> DEFINE bad == {i \in 0 .. N : f[i] \notin T}
  <1> SUFFICES ASSUME bad # {} PROVE FALSE
    OBVIOUS
  <1>1. PICK x \in bad : \A y \in bad : x <= y
    <2>1. bad \in SUBSET Nat
      OBVIOUS
    <2> HIDE DEF bad
    <2> QED
      BY <2>1, LeastNatural
  <1>2. x # 0
    OBVIOUS
  <1>3. x \in 1 .. N /\ x - 1 \in 0 .. N /\ x - 1 \notin bad
    BY <1>1, <1>2
  <1> QED
    BY <1>3

(* A function whose value at i is made of the value before it. *)
Recursion(g, N, T, base, Step) ==
    /\ g \in [0 .. N -> T]
    /\ g = [i \in 0 .. N |-> IF i = 0 THEN base ELSE Step[<<g[i - 1], i>>]]

LEMMA RecursionExists ==
    ASSUME NEW N \in Nat, NEW T, NEW base \in T, NEW Step \in [T \X (1 .. N) -> T]
    PROVE  \E g : Recursion(g, N, T, base, Step)
  <1> DEFINE bad == {n \in 0 .. N : ~ \E g : Recursion(g, n, T, base, Step)}
  <1> SUFFICES ASSUME bad # {} PROVE FALSE
    OBVIOUS
  <1>1. PICK x \in bad : \A y \in bad : x <= y
    <2>1. bad \in SUBSET Nat
      OBVIOUS
    <2> HIDE DEF bad
    <2> QED
      BY <2>1, LeastNatural
  <1>2. x # 0
    <2> SUFFICES \E g : Recursion(g, 0, T, base, Step)
      OBVIOUS
    <2> DEFINE g == [i \in 0 .. 0 |-> base]
    <2>1. g \in [0 .. 0 -> T]
      OBVIOUS
    <2>2. g = [i \in 0 .. 0 |-> IF i = 0 THEN base ELSE Step[<<g[i - 1], i>>]]
      <3>1. \A i \in 0 .. 0 : i = 0
        OBVIOUS
      <3> QED
        BY <3>1
    <2> HIDE DEF g
    <2> QED
      BY <2>1, <2>2 DEF Recursion
  <1>3. x \in 1 .. N /\ x - 1 \in 0 .. N /\ x - 1 \notin bad
    BY <1>1, <1>2
  <1>4. PICK f : Recursion(f, x - 1, T, base, Step)
    BY <1>3
  <1> DEFINE g == [i \in 0 .. x |-> IF i = x THEN Step[<<f[x - 1], x>>] ELSE f[i]]
  <1>5. f \in [0 .. x - 1 -> T] /\ \A i \in 0 .. x - 1 : f[i] = IF i = 0 THEN base ELSE Step[<<f[i - 1], i>>]
    BY <1>4, Zenon DEF Recursion
  <1>6. f[x - 1] \in T /\ Step[<<f[x - 1], x>>] \in T
    BY <1>3, <1>5
  <1>7. g \in [0 .. x -> T]
    BY <1>3, <1>5, <1>6
  <1>8. ASSUME NEW i \in 0 .. x
        PROVE  g[i] = IF i = 0 THEN base ELSE Step[<<g[i - 1], i>>]
    <2>1. CASE i = x
      <3>1. x # 0 /\ x - 1 # x /\ x - 1 \in 0 .. x
        BY <1>3
      <3>2. g[x] = Step[<<f[x - 1], x>>] /\ g[x - 1] = f[x - 1]
        BY <1>3, <3>1
      <3> HIDE DEF g
      <3> QED
        BY <2>1, <3>1, <3>2
    <2>2. CASE i # x
      <3>1. i \in 0 .. x - 1 /\ g[i] = f[i]
        BY <1>3, <2>2
      <3>2. f[i] = IF i = 0 THEN base ELSE Step[<<f[i - 1], i>>]
        BY <1>5, <3>1
      <3>3. ASSUME i # 0 PROVE g[i - 1] = f[i - 1]
        BY <1>3, <3>1, <3>3
      <3> HIDE DEF g
      <3> QED
        BY <3>1, <3>2, <3>3
    <2> QED
      BY <2>1, <2>2
  <1>9. g = [i \in 0 .. x |-> g[i]]
    OBVIOUS
  <1> HIDE DEF g
  <1>10. g = [i \in 0 .. x |-> IF i = 0 THEN base ELSE Step[<<g[i - 1], i>>]]
    BY <1>8, <1>9, Zenon
  <1>11. Recursion(g, x, T, base, Step)
    BY <1>7, <1>10 DEF Recursion
  <1> QED
    BY <1>11

===========================================================================
