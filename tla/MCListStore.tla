---------------------------- MODULE MCListStore ----------------------------
EXTENDS ListStore, TLC

\* Sound for the safety properties: no operator of the model distinguishes
\* threads, and the two kinds of items are exchanged only among themselves.
Symmetry == Permutations(Threads) \cup Permutations(Items \ ClientIds)

\* Without is what List.RemoveAll does, on every list of up to four items.
ASSUME WithoutIsRemoveAll ==
  \A n \in 0..4 : \A l \in [1..n -> Items], x \in Items :
    Without(l, x) = SelectSeq(l, LAMBDA y : y # x)
=============================================================================
