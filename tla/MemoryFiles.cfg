SPECIFICATION Spec
CONSTANTS
  Names <- MCNames
  Empty = ""
  Paths <- MCFilePaths
  Bytes = {"x", "y"}
  Zero = "0"
  Buffers <- MCBuffers
  Handles = {f, g}
  Modes = {"Read", "Write"}
  MaxNodes = 3
  MaxSize = 2
INVARIANTS
  TypeOK
  PositionWithinData
  NoUnwrittenByte
PROPERTY DataNeverShrinks
