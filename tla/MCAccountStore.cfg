CONSTANTS
  Requests = {r1, r2}
  Ids = {a1, a2}
  Keys = {k1, k2}
  Hashes = {h1}
  ListRefs = {l1, l2, l3}
  KeyRefs = {q1, q2, q3, q4, q5, q6, q7, q8, q9}
  None = None
  Absent = Absent
  Torn = Torn
  Broken = Broken
  MayFail = TRUE
  MayCrash = TRUE
  MaxEdits = 2
SYMMETRY Symmetry
VIEW InUse
SPECIFICATION Spec
INVARIANTS TypeOK SoloRequestsTakeEffect FileFollowsCache
PROPERTY UncontestedUntouched
