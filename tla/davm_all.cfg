SPECIFICATION Spec
CONSTANTS
  PageSize = 8
  AddrSpace = 32
  NumRegs = 3
  MaxProgram = 3
  Programs <- UnruledPrograms
  MemStack <- UnruledStack
  MemUser <- UnruledUser
  CompilerTested = TRUE
  BitOr <- MCBitOr
  BitAnd <- MCBitAnd
INVARIANTS
  TypeOK
  CleanRunPassedItsTest
PROPERTY ExceptionsSpareMemory
CHECK_DEADLOCK FALSE
