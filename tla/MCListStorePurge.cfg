CONSTANTS
  Threads = {t1, t2}
  Keys = {k1}
  Items = {x, y}
  NoList = NoList
  NoItem = NoItem
  NoThread = NoThread
  NoOp = NoOp
  NoKey = NoKey
  Persistent = TRUE
  CacheLoss = FALSE
  Destructive = TRUE
  MayFail = FALSE
  MayCrash = FALSE
  ClientIds = {}
  MaxUses = 1
SPECIFICATION Spec
PROPERTY RemovedStaysRemoved
