------------------------------- MODULE Lists -------------------------------
(***************************************************************************)
(* Lists in an order.  The code sorts slices with sort.Slice and copies    *)
(* what it keeps of a slice in a loop; what both leave is said here by the *)
(* number of elements that come before another one, without a recursion.   *)
(* An order is a set of pairs, the earlier element first.                  *)
(***************************************************************************)
EXTENDS Integers, Sequences, FiniteSets

\* A set by an order in which any two differ: place n has n - 1 before it.
SortedBy(set, before) ==
    [n \in 1..Cardinality(set) |->
        CHOOSE s \in set : Cardinality({t \in set : <<t, s>> \in before}) = n - 1]

\* The list itself, with every element computed once.
Made(list) == SubSeq(list, 1, Len(list))

\* The same elements by an order of their places.
Arranged(list, before) ==
    LET order == SortedBy(1..Len(list), before)
    IN Made([n \in 1..Len(list) |-> list[order[n]]])

\* Numbers from the smallest on.
Ascending(numbers) == SortedBy(numbers, {p \in numbers \X numbers : p[1] < p[2]})

\* What is at some places of a list, in its order.
Picked(list, places) ==
    LET order == Ascending(places)
    IN Made([n \in 1..Cardinality(places) |-> list[order[n]]])

\* What passes a test, in the order of the list.
Kept(list, Test(_)) == Picked(list, {i \in 1..Len(list) : Test(list[i])})
============================================================================
