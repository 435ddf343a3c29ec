------------------------ MODULE MCAtomicKeyOperation ------------------------
EXTENDS AtomicKeyOperation, TLC

\* Sound for the invariants and the refinement; not used with liveness.
Symmetry == Permutations(Threads) \cup Permutations(Keys) \cup Permutations(Counters)
=============================================================================
