SPECIFICATION Spec
CONSTANTS
  c1 = c1
  c2 = c2
  a = a
  b = b
  Zero = Zero
  Hosts = {"posix", "windows", "arduino"}
  Names = {a, b}
  Callers = {c1, c2}
  Modes = {"Read", "Write", "ReadWrite"}
  MaxNodes = 2
  MaxSize = 2
  MaxOpens = 2
SYMMETRY MCSymmetry
INVARIANTS
  TypeOK
  ContentsAsWritten
  SizeIsFileSize
  AvailableIsHonest
PROPERTY OnlyWriteEmpties
