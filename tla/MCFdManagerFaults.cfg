SPECIFICATION Spec
SYMMETRY Symmetry
CONSTANTS
  Threads = {t1, t2}
  Handles = {h1, h2}
  Paths = {p1, p2}
  Entities = {e1, e2}
  Nobody = Nobody
  NoPath = NoPath
  NoEnt = NoEnt
  NoHandle = NoHandle
  MaxRefs = 3
  MaxSections = 1
  OpenMayFail = TRUE
  MayRename = TRUE
INVARIANTS
  MapOwnsEntities
