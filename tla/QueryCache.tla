----------------------------- MODULE QueryCache -----------------------------
(***************************************************************************)
(* The cache of query embeddings: a list of entries, the most recently     *)
(* used one first, and a map from the key of a query to its entry.  Both   *)
(* are changed together under one mutex.                                   *)
(***************************************************************************)
EXTENDS Naturals, Sequences

CONSTANT Capacity       \* 0: newQueryEmbeddingCache returns no cache

ASSUME CapacityAssumption == Capacity \in Nat

\* list: entries [key, value]; keys: the keys of the map byKey.
EmptyCache == [list |-> <<>>, keys |-> {}]

Position(list, key) == CHOOSE i \in 1..Len(list) : list[i].key = key

\* Mutant: a hit leaves the entry where it is.
MutantMoveToFront(list, i, entry) == [j \in 1..Len(list) |-> IF j = i THEN entry ELSE list[j]]

\* entry takes the first place, the entries before place i move up by one.
MoveToFront(list, i, entry) ==
    [j \in 1..Len(list) |-> IF j = 1 THEN entry ELSE IF j <= i THEN list[j - 1] ELSE list[j]]

PushFront(list, entry) ==
    [j \in 1..(Len(list) + 1) |-> IF j = 1 THEN entry ELSE list[j - 1]]

RemoveBack(list) == [j \in 1..(Len(list) - 1) |-> list[j]]

Hit(cache, key) == key \in cache.keys

\* The embedding that Get returns on a hit, and the cache it leaves.
Got(cache, key) == cache.list[Position(cache.list, key)].value

Get(cache, key) ==
    IF ~Hit(cache, key) THEN cache
    ELSE LET i == Position(cache.list, key)
         IN [cache EXCEPT !.list = MoveToFront(@, i, cache.list[i])]

\* One round is enough: Set adds one entry.
Evict(cache) ==
    IF Len(cache.list) <= Capacity THEN cache
    ELSE [list |-> RemoveBack(cache.list), keys |-> cache.keys \ {cache.list[Len(cache.list)].key}]

Set(cache, key, value) ==
    LET entry == [key |-> key, value |-> value]
    IN CASE Capacity = 0 -> cache
         [] Capacity # 0 /\ Hit(cache, key) ->
               [cache EXCEPT !.list = MoveToFront(@, Position(@, key), entry)]
         [] Capacity # 0 /\ ~Hit(cache, key) ->
               Evict([list |-> PushFront(cache.list, entry), keys |-> cache.keys \cup {key}])

\* The list and the map hold the same keys, each once, and no more than fit.
CacheAgrees(cache) ==
    /\ cache.keys = {cache.list[i].key : i \in 1..Len(cache.list)}
    /\ \A i, j \in 1..Len(cache.list) : cache.list[i].key = cache.list[j].key => i = j
    /\ Len(cache.list) <= Capacity

=============================================================================
