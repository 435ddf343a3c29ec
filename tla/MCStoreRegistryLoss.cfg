CONSTANTS
  Handlers = {h1, h2}
  Heartbeat = Heartbeat
  Stopper = Stopper
  Names = {n1}
  Incarnations = {o1, o2}
  NoStore = NoStore
  NoName = NoName
  NoDir = NoDir
  Torn = Torn
  PersistencePaths = {TRUE}
  OpenMayFail = FALSE
  SaveMayFail = FALSE
  DeleteMayFail = FALSE
  MayCrash = FALSE
SPECIFICATION Spec
INVARIANT AckedIsStored
CHECK_DEADLOCK FALSE
