SPECIFICATION Spec
CONSTANTS
  Kinds <- AllKinds
  Shapes <- MCShapes
  MaxWrites = 1
  MaxToggles = 0
INVARIANTS
  ConsistentAcrossSurfaces
CHECK_DEADLOCK FALSE
