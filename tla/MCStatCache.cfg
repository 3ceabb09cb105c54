SPECIFICATION Spec
SYMMETRY Symmetry
CONSTANTS
  Threads = {t1, t2}
  Paths = {p1}
  MaxSize = 1
  Modes = {1, 2}
  NoMode = 0
  Absent = Absent
  NoEntry = NoEntry
  Kinds = {"stat", "open", "create", "mknod", "unlink", "chmod", "truncate", "flush", "release", "list"}
  CacheSize = 1
  CacheNoObject = FALSE
  Expires = TRUE
  HeadMayFail = TRUE
  PutMayFail = TRUE
INVARIANTS
  TypeOK
  CacheFresh
