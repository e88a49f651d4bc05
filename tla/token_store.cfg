SPECIFICATION FairSpec
CONSTANTS
  start = start
  first = first
  activity = activity
  none = none
  e1 = e1
  e2 = e2
  e3 = e3
  NoActivity = none
  Activities = {activity}
  ActivityOf <- MCActivityOf
  Emissions = {e1, e2, e3}
  Tokens = {start, first}
  TokenOf <- MCTokenOf
  Persisted = {start}
  HasNodeCrypto = TRUE
  HasSubtle = TRUE
  MaxSaves = 2
  MaxRestarts = 1
INVARIANTS
  TypeOK
  DiskCatchesUp
PROPERTIES
  LoadingSparesDisk
  SavesDrain
