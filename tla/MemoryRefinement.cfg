SPECIFICATION Spec
CONSTANTS
  Names <- MCNames
  Empty = ""
  Paths <- MCRefinementPaths
  Bytes = {"x"}
  Zero = "0"
  Buffers <- MCRefinementBuffers
  Handles = {f}
  Modes = {"Write"}
  MaxNodes = 4
  MaxSize = 1
PROPERTY ImplementsFileTree
