SPECIFICATION FairSpec
CONSTANTS
  Kinds <- TwoKinds
  Shapes <- MCShapes
  MaxWrites = 2
  MaxToggles = 1
INVARIANTS
  TypeOK
  ReadableAnytime
  RestIsTrue
PROPERTIES
  OrderNeverGoesBack
  ReloadIsShown
CHECK_DEADLOCK FALSE
