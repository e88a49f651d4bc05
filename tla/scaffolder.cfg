SPECIFICATION Spec
CONSTANTS
  Hosts <- MCHosts
  MaxEdits = 1
INVARIANTS
  TypeOK
  OriginalsKept
  StartsAreSound
  RenamesAreExact
  ReportsAreTrue
  AtomicPromotion
CHECK_DEADLOCK FALSE
