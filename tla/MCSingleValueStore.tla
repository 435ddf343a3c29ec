------------------------- MODULE MCSingleValueStore -------------------------
EXTENDS SingleValueStore, TLC

\* Sound: the safety properties do not tell threads, values or names apart.
Symmetry == Permutations(Threads) \cup Permutations(Values) \cup Permutations(Removals)
=============================================================================
