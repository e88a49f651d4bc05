SPECIFICATION LiveSpec
CONSTANTS
  r1 = r1
  r2 = r2
  Requests <- TwoRequests
  UserCap = 2
  PeerCaps <- PeerOneOrTwo
  StreamCapFloor = 3
  RequestTimeoutMs = 1
  IdleTimeoutMs = 1
  CloseTimeoutMs = 1
  MaxSessions = 3
INVARIANTS
  TypeOK
  SlotAccounting
  QueueExact
  QueuedBehindStream
  OneSession
PROPERTIES
  IdleSparesBusySession
  ImplementsSlotPool
  RequestsSettle
