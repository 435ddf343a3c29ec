--------------------------- MODULE MCAccountStore ---------------------------
EXTENDS AccountStore, TLC

\* Sound: nothing tells requests, or ids, or keys apart.
Symmetry == Permutations(Requests) \cup Permutations(Ids) \cup Permutations(Keys)

\* List objects that nothing refers to any more are no part of a state: they
\* are filled before they are read again.
UsedKeys == UNION {Used(l) : l \in LiveLists} \cup ({keys[r] : r \in Requests} \ {None})
InUse ==
  <<cached, [l \in LiveLists |-> lists[l]], [k \in UsedKeys |-> keyLists[k]],
    file, pc, req, locals, history>>

\* Named and Unnamed are Where and RemoveAll: what they pick of any list of up to
\* three accounts is what SelectSeq selects.
ASSUME PickedIsSelected ==
  \A n \in 0..3 : \A s \in [1..n -> [id : Ids, keys : KeyRefs]], a \in Ids :
    /\ Picked(s, {i \in DOMAIN s : s[i].id = a}) = SelectSeq(s, LAMBDA e : e.id = a)
    /\ Picked(s, {i \in DOMAIN s : s[i].id # a}) = SelectSeq(s, LAMBDA e : e.id # a)
=============================================================================
