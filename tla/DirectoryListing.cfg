SPECIFICATION Spec
CONSTANTS
  Backends = {"memory", "posix", "windows", "arduino"}
  Names = {1, 2}
  MaxDepth = 2
  MaxEdits = 2
  MaxFailures = 1
INVARIANT CompleteIfTrue
PROPERTY RefusalIsKept
