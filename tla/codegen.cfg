SPECIFICATION CodeSpec
CONSTANTS
  Statement <- MCStatement
  Programs <- MCPrograms
  MaxDepth = 2
INVARIANTS
  TypeOK
  PatchesFindTheirJumps
  NoJumpIsForgotten
  FollowsSource
PROPERTIES
  JumpsEnterBlocks
  KeepsGoing
CHECK_DEADLOCK FALSE
