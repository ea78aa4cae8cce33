-------------------------------- MODULE Vectors --------------------------------
(***************************************************************************)
(* What std::vector does for socket-lib that Sequences has no provable     *)
(* operator for.                                                           *)
(***************************************************************************)
EXTENDS Naturals, Sequences, FiniteSets

\* Where x is not, and how many such places come up to one of them.
Kept(s, x) == {i \in 1..Len(s) : s[i] # x}
Upto(s, x, i) == Cardinality(Kept(s, x) \cap 1..i)

\* std::remove and erase: the items other than x, in their order.
Without(s, x) ==
    [j \in 1..Cardinality(Kept(s, x)) |-> s[CHOOSE i \in Kept(s, x) : Upto(s, x, i) = j]]
===============================================================================
