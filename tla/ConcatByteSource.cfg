SPECIFICATION FairSpec
CONSTANTS
  Lengths <- MCLengths
  Sockets <- MCSockets
  Windows <- MCWindows
  MaxRead = 3
  Spurious = TRUE
INVARIANTS
  TypeOK
  InOrder
  NothingSkipped
PROPERTIES
  ShortReadMeansNothingThere
  Drained
