SPECIFICATION FairSpec
CONSTANTS
  a1 = a1
  a2 = a2
  Activities = {a1}
  TokenSlot = TokenSlot
  UpdatesSlot = UpdatesSlot
  MaxSurprises = 1
  MaxStarts = 2
  MaxTokens = 1
INVARIANTS
  TypeOK
  NoUntrackedDrain
  DrainsFollowListeners
PROPERTIES
  EndsAreTold
CHECK_DEADLOCK FALSE
