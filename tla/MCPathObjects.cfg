SPECIFICATION Spec
CONSTANTS
  Modes = {m1, m2}
  Contents = {empty, x}
  New = empty
  None = None
INVARIANTS
  TypeOK
  FileKept
  NewFormStays
  ChmodTakesEffect
  RmdirRemovesAll
