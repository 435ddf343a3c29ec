CONSTANTS
  Threads = {t1, t2}
  Keys = {k1}
  Values = {v1, v2}
  Removals = {}
  NoOp = NoOp
  None = None
  MayFail = FALSE
SPECIFICATION Spec
INVARIANT SurvivesRestart
