------------------------------ MODULE Sublists ------------------------------
(***************************************************************************)
(* The part of a list that a filter keeps.                                 *)
(***************************************************************************)
EXTENDS Integers, FiniteSets

\* How many of some positions come up to one of them.
Rank(positions, i) == Cardinality({j \in positions : j <= i})

\* The members of a list at some positions, in order.
InOrder(list, positions) ==
    [n \in 1..Cardinality(positions) |-> list[CHOOSE i \in positions : Rank(positions, i) = n]]
=============================================================================
