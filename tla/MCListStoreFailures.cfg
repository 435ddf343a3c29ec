CONSTANTS
  Threads = {t1, t2}
  Keys = {k1}
  Items = {x, y}
  NoList = NoList
  NoItem = NoItem
  NoThread = NoThread
  NoOp = NoOp
  NoKey = NoKey
  Persistent = TRUE
  CacheLoss = TRUE
  Destructive = TRUE
  MayFail = TRUE
  MayCrash = TRUE
  ClientIds = {}
  MaxUses = 1
SPECIFICATION FairSpec
PROPERTIES NoLostItem LockGivenUp
