SPECIFICATION Spec
CONSTANTS
  Names = {f, x}
  MaxSymbols = 5
  MaxScopes = 4
  OwnNameParams = FALSE
  LeakyErrors = FALSE
INVARIANTS
  NothingLeftBehind
PROPERTIES
  IsScopeChain
CHECK_DEADLOCK FALSE
