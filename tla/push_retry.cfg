SPECIFICATION Spec
CONSTANTS
  urgent = urgent
  background = background
  Calls <- MCCalls
  Priority <- MCPriority
  MaxRetries = 2
  PriorityTenCap = 1
  RetryDisabled = FALSE
  RetryableReasons <- MCWideReasons
  JwtFailures = {"fatal"}
INVARIANTS
  TypeOK
  RetryBudget
  RejectedBearerNotResent
  HooksInOrder
PROPERTIES
  ClosedSendsNothing
