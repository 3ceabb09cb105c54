SPECIFICATION Spec
CONSTANTS
  Names <- Tree
  Dirs <- TreeDirs
  Top = 1
  Above <- TreeAbove
  Contents = {x, y}
  Dir = Dir
  None = None
  Targets <- NothingOrAll
  MaxEdits = 2
  PageLen = 1
INVARIANTS
  TypeOK
  NothingLost
  RenameReportsTruth
  ListingComplete
SYMMETRY ContentSymmetry
