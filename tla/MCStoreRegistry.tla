-------------------------- MODULE MCStoreRegistry --------------------------
EXTENDS StoreRegistry, TLC

\* Sound: no property tells handlers, names or incarnations apart.
Symmetry == Permutations(Handlers) \cup Permutations(Names) \cup Permutations(Incarnations)

\* What becomes of a store that no file, dictionary or request refers to is not
\* looked at again, except that it was made and whether its values are in a directory.
Known ==
  {stores[n] : n \in Names} \cup {ref[h] : h \in Handlers} \cup {snapshot[n] : n \in Names}
    \cup (IF meta = Torn THEN {} ELSE {meta[n] : n \in Names})
View ==
  LET Shown(f) == [o \in Incarnations |-> IF o \in Known \/ scheme[o] = "unborn" THEN f[o] ELSE "gone"]
  IN  <<path, process, stores, Shown(scheme), Shown(base), meta,
        [n \in Names |-> <<dir[n] = NoDir, Held(dir[n]) = {}, Held(dir[n]) \cap Known>>],
        lock, saver, caller, acked \cap Known, broken \cap Known, leftover, stale>>
=============================================================================
