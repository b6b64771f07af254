------------------------------ MODULE Positions ------------------------------
(***************************************************************************)
(* Filtering a list in Python keeps the order of what is left.  Here a     *)
(* filter is the set of the positions it keeps, and the list that is left  *)
(* has on its n-th place the position with n - 1 others before it.         *)
(* SelectSeq and SortSeq compute the same, but by recursion and by a       *)
(* choice among permutations, which proofs cannot look into.               *)
(***************************************************************************)
EXTENDS Integers, FiniteSets, Sequences

\* How many of the positions are before this one.
Ahead(I, i) == Cardinality({j \in I : j < i})

\* The n-th of the positions.
Nth(I, n) == CHOOSE i \in I : Ahead(I, i) = n - 1

\* The elements of a list at these positions, in the order of the list.
Only(s, I) == [n \in 1 .. Cardinality(I) |-> s[Nth(I, n)]]
=============================================================================
