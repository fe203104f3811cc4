SPECIFICATION FairSpec
CONSTANTS
  Budget <- MCBudget
  Window = 1
  Chunk = 1
  MaxSize = 2
  Interrupts = TRUE
  Windows = {"server"}
INVARIANTS
  TypeOK
  Contiguous
  HonestWrites
  EndedMeansEnd
  ProbeDoesNotBlock
PROPERTY
  CallsReturn
