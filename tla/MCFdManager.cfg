SPECIFICATION Spec
CONSTANTS
  Threads = {t1, t2}
  Handles = {h1, h2}
  Paths = {p1, p2}
  Entities = {e1, e2}
  Nobody = Nobody
  NoPath = NoPath
  NoEnt = NoEnt
  NoHandle = NoHandle
  MaxRefs = 4
  MaxSections = 2
  OpenMayFail = FALSE
  MayRename = FALSE
INVARIANTS
  TypeOK
  RefCountExact
  NoUseAfterFree
  HandleHasEntity
  MapOwnsEntities
PROPERTY
  ManagerIsReleased
