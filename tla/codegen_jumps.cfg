SPECIFICATION CodeSpec
CONSTANTS
  Statement <- MCStatement
  Programs <- MCPrograms
  MaxDepth = 2
INVARIANT
  JumpsStayInTheirFunction
CHECK_DEADLOCK FALSE
