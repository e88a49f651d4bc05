SPECIFICATION Spec
CONSTANTS
  start = start
  first = first
  activity = activity
  none = none
  e1 = e1
  e2 = e2
  e3 = e3
  NoActivity = none
  Activities = {activity}
  ActivityOf <- MCActivityOf
  Emissions = {e2}
  Tokens = {first}
  TokenOf <- MCTokenOf
  Persisted = {}
  HasNodeCrypto = FALSE
  HasSubtle = TRUE
  MaxSaves = 1
  MaxRestarts = 0
INVARIANT EndedTokensNotActive
