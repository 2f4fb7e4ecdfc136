------------------------------- MODULE Sorting -------------------------------
(* Sorted lists.  An order is a set of pairs, smaller element first.        *)
EXTENDS Naturals, FiniteSets

(* sort.Slice and its like: S by a strict total order. *)
Sorted(S, order) ==
    [i \in 1 .. Cardinality(S) |->
        CHOOSE f \in S : Cardinality({g \in S : <<g, f>> \in order}) = i - 1]

(* The elements of the list s, their positions in that order. *)
Arranged(s, order) == [n \in DOMAIN s |-> s[Sorted(DOMAIN s, order)[n]]]

Ascending(S) == Sorted(S, {p \in S \X S : p[1] < p[2]})
==============================================================================
