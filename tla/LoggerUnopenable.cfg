\* root has a file that cannot be opened.
SPECIFICATION Spec
CONSTANTS
  root = root
  zn = zn
  i1 = i1
  i2 = i2
  i3 = i3
  i4 = i4
  std = std
  own = own
  fileA = fileA
  fileB = fileB
  c1 = c1
  NULL = NULL
  THROWS = THROWS
  Names <- TwoNames
  RootName = root
  Ids <- FourIds
  Levels <- DebugAndError
  Patterns <- TwoPatterns
  DefaultPattern = std
  Paths <- TwoPaths
  BadPaths <- OnePath
  Documents <- Reloads
  Definitions <- None
  Creations <- None
  Additions <- None
  MaxAppenders = 2
  Asked <- TwoNames
  Callers <- OneCaller
SYMMETRY Addresses
INVARIANTS
  LoggingTerminates
