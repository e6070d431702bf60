SPECIFICATION Spec
CONSTANTS
  Names = {f, x}
  MaxSymbols = 5
  MaxScopes = 4
  OwnNameParams = TRUE
  LeakyErrors = TRUE
SYMMETRY NameSymmetry
INVARIANTS
  TypeOK
  UndoFindsItsNames
CHECK_DEADLOCK FALSE
