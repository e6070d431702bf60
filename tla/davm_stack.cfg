SPECIFICATION FairDisciplinedSpec
CONSTANTS
  PageSize = 16
  AddrSpace = 64
  NumRegs = 3
  MaxProgram = 4
  Programs <- StackPrograms
  MemStack <- StackMem
  MemUser <- StackUser
  CompilerTested = FALSE
  BitOr <- MCBitOr
  BitAnd <- MCBitAnd
INVARIANT
  StackBounded
PROPERTIES
  IsStackMachine
  RunawayRecursionStops
CHECK_DEADLOCK FALSE
