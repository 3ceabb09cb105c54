SPECIFICATION Spec
CONSTANTS
  PageSize = 3
  MaxSize = 14
INVARIANTS
  PagesTile
  SetInitMatchesMap
  UninitPagesAreWanted
  ReopenKeepsPages
