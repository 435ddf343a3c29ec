CONSTANTS
  Threads = {t1, t2, t3}
  Keys = {k1}
  Values = {v1, v2}
  Removals = {r1, r2}
  NoOp = NoOp
  None = None
  MayFail = TRUE
SYMMETRY Symmetry
SPECIFICATION Spec
INVARIANTS TypeOK SoleWriteAgrees
PROPERTY RegularReads
