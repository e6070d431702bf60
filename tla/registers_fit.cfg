SPECIFICATION Spec
CONSTANTS
  MaxMachineReg = 6
  FixedUsage = 2
  Vars = {x, y}
  MaxVRegs = 6
  MaxPending = 3
  Forcing = FALSE
  Calls = "statement"
  ArgReads = "leaf"
SYMMETRY VarSymmetry
CHECK_DEADLOCK FALSE
INVARIANTS TypeOK ReadsFindTheirValues VariablesKeepTheirValue UsageCountsHeldRegisters R0StaysReserved NoFault
PROPERTY FlushForgetsAll
