SPECIFICATION Spec
CONSTANTS
  Basic = 4
  NumRegs = 16
  LastWord <- MCLastWord
  Programs <- MCPrograms
  PageSize = 64
  AddrSpace = 65536
  MemStack <- MCStack
  MemUser <- MCUser
  BitOr <- MCBitOr
  BitAnd <- MCBitAnd
  MaxDepth = 4
INVARIANTS
  VariablesHoldTheirValues
  WordsKeepTheirInstructions
  FunctionsFindTheirMembers
PROPERTY ReturnsRestoreTheCaller
CHECK_DEADLOCK FALSE
