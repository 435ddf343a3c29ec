CONSTANTS
  Handlers = {h1, h2}
  Heartbeat = Heartbeat
  Stopper = Stopper
  Names = {n1, n2}
  Incarnations = {o1, o2, o3}
  NoStore = NoStore
  NoName = NoName
  NoDir = NoDir
  Torn = Torn
  PersistencePaths = {TRUE, FALSE}
  OpenMayFail = TRUE
  SaveMayFail = TRUE
  DeleteMayFail = TRUE
  MayCrash = TRUE
SYMMETRY Symmetry
VIEW View
SPECIFICATION Spec
INVARIANTS TypeOK FileIsCurrent FoundIsOpen CreatedEmpty AckedIsStoredUnlessBroken
PROPERTY ImplementsStoreCatalog
CHECK_DEADLOCK FALSE
