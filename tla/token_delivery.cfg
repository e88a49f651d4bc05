SPECIFICATION FairSpec
CONSTANTS
  first = first
  rotated = rotated
  device = device
  e1 = e1
  e2 = e2
  e3 = e3
  e4 = e4
  e5 = e5
  e6 = e6
  Keys <- MCKeys
  KindOf <- MCKindOf
  Emissions <- MCEmissions
  RecordOf <- MCRecordOf
  Invalid <- MCInvalid
  NoKey = NoKey
  HasPushClient = TRUE
  MaxForwards = 2
  MaxRestarts = 1
  Advances = {1}
  MaxRetries = 1
INVARIANTS
  TypeOK
  AckedIsStored
PROPERTIES
  PushUsesNewestAcked
  ForwardsSettle
CHECK_DEADLOCK FALSE
