------------------------------- MODULE Listing -------------------------------
(***************************************************************************)
(* Sequences made of sets: the members of a set in an order, and the       *)
(* elements of a sequence at some of its places. They are given member by  *)
(* member and not by sorting or by going through, so that they can be      *)
(* reasoned about.                                                         *)
(***************************************************************************)
EXTENDS Integers, Sequences, FiniteSets

\* The members of S in the total order R: the kth is the one that k - 1 others are before.
Sorted(S, R) == [k \in 1..Cardinality(S) |->
                    CHOOSE x \in S : Cardinality({y \in S : <<y, x>> \in R}) = k - 1]

\* Numbers, the smaller first.
Ascending(T) == {p \in T \X T : p[1] < p[2]}

\* Numbers, those with the larger value first and the smaller first among equals.
Descending(T, value) ==
    {p \in T \X T : \/ value[p[1]] > value[p[2]]
                    \/ value[p[1]] = value[p[2]] /\ p[1] < p[2]}

\* The elements of s at the places in T, in their order.
Picked(s, T) == LET places == Sorted(T, Ascending(T)) IN [k \in DOMAIN places |-> s[places[k]]]
=============================================================================
