------------------------------ MODULE Selection ------------------------------
(***************************************************************************)
(* The elements of a sequence that stand at chosen places, in their order. *)
(* This is SelectSeq without its recursion and its operator argument, which *)
(* the prover cannot reason about; MCApp compares the two.                 *)
(***************************************************************************)
EXTENDS Integers, Sequences, FiniteSets

\* How many of the places come up to i.
Rank(places, i) == Cardinality({j \in places : j <= i})

\* The n-th of the places.
Nth(places, n) == CHOOSE i \in places : Rank(places, i) = n

Selected(s, places) ==
    [n \in 1 .. Cardinality(places) |-> s[Nth(places, n)]]

=============================================================================
