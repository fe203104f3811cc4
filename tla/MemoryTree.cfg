SPECIFICATION Spec
CONSTANTS
  Names <- MCNames
  Empty = ""
  Paths <- MCTreePaths
  Bytes = {"x", "y"}
  Zero = "0"
  Buffers = {}
  Handles = {f}
  Modes = {"Write"}
  MaxNodes = 4
  MaxSize = 0
INVARIANTS
  SingleLink
  Acyclic
  ReportsItsPath
PROPERTY
  CrashOnlyIntoOwnSubtree
