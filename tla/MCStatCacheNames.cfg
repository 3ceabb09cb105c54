SPECIFICATION Spec
SYMMETRY Symmetry
CONSTANTS
  Threads = {t1, t2}
  Paths = {p1, p2}
  MaxSize = 0
  Modes = {1}
  NoMode = 0
  Absent = Absent
  NoEntry = NoEntry
  Kinds = {"stat", "create", "mkdir", "unlink", "rmdir", "rename", "symlink", "list", "release"}
  CacheSize = 1
  CacheNoObject = TRUE
  Expires = TRUE
  HeadMayFail = FALSE
  PutMayFail = FALSE
INVARIANTS
  CacheFresh
