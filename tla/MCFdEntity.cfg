SPECIFICATION Spec
SYMMETRY ThreadSymmetry
CONSTANTS
  PageSize = 2
  MaxSize = 3
  Zero = 0
  Byte = {0, 1, 2}
  Threads = {t1, t2}
  MaxHandles = 1
  Careful = TRUE
INVARIANTS
  TypeOK
  ReadSeesLoaded
  WriteAreaLoaded
  DirtyFileIsWhole
PROPERTY
  BehavesAsFile
