SPECIFICATION Spec
CONSTANTS
  Tools <- MCTools
  LR1Tools <- MCLR1Tools
  LALRTools <- MCLALRTools
  MaxLen = 6
  Foreign = foreign
INVARIANTS
  SetsAreWhatIsDerived
  ViolationsAreRight
  AcceptsTheLanguage
  ReadsOnlyPrefixes
  MergedStatesReduce
PROPERTY ParserEnds
CHECK_DEADLOCK FALSE
