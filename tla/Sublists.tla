------------------------------ MODULE Sublists ------------------------------
(***************************************************************************)
(* The filters of .NET's List<T> and of LINQ: a list of what the places in *)
(* a set hold, in their order. Picked is SelectSeq (MCListStore and        *)
(* MCAccountStore check that) without recursion, to be proved about.       *)
(***************************************************************************)
EXTENDS Naturals, Sequences, FiniteSets

\* How many places of S there are up to i, and the n-th one.
Rank(S, i) == Cardinality({j \in S : j <= i})
Nth(S, n) == CHOOSE i \in S : Rank(S, i) = n

\* What s has at the places in S.
Picked(s, S) == [n \in 1..Cardinality(S) |-> s[Nth(S, n)]]

\* s.RemoveAll(o => o == x)
Kept(s, x) == {i \in DOMAIN s : s[i] # x}
Without(s, x) == Picked(s, Kept(s, x))
=============================================================================
