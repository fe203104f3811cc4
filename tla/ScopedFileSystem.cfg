SPECIFICATION ScopedSpec
CONSTANTS
  Names <- MCNames
  Empty = ""
  Paths <- MCPaths
  Bytes = {"x"}
  Zero = "0"
  Buffers = {}
  Handles = {f}
  Modes = {"Write"}
  MaxNodes = 3
  MaxSize = 0
  Scopes = {s}
  Roots <- MCRoots
  Arguments <- MCArguments
  Dot = "."
  Drives = {"C:"}
INVARIANTS
  LeadsBack
PROPERTIES
  Confined
  EnsuredIsThere
