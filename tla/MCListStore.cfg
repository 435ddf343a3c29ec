CONSTANTS
  Threads = {t1, t2, t3}
  Keys = {k1}
  Items = {x, y}
  NoList = NoList
  NoItem = NoItem
  NoThread = NoThread
  NoOp = NoOp
  NoKey = NoKey
  Persistent = TRUE
  CacheLoss = TRUE
  Destructive = FALSE
  MayFail = FALSE
  MayCrash = TRUE
  ClientIds = {y}
  MaxUses = 2
SYMMETRY Symmetry
SPECIFICATION Spec
INVARIANTS TypeOK CacheAgrees PushedOnce
PROPERTIES NoLostItem NoGhostItem ImplementsListSpec
