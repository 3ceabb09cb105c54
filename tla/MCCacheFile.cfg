SPECIFICATION Spec
SYMMETRY ByteSymmetry
CONSTANTS
  PageSize = 1
  MaxSize = 3
  Zero = z
  Byte = {z, b1, b2}
INVARIANTS
  TypeOK
  LoadedIsStored
PROPERTY
  UploadsWholeFiles
