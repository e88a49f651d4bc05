SPECIFICATION ApiSpec
CONSTANTS
  urgent = urgent
  background = background
  Calls <- MCCalls
  Priority <- MCPriority
  MaxRetries = 1
  PriorityTenCap = 1
  RetryDisabled = FALSE
  RetryableReasons <- MCReasons
  JwtFailures = {"transport", "fatal"}
  Environment = "development"
  Inputs <- MCInputs
  Invocations <- MCInvocations
  StatusCodes <- MCStatusCodes
INVARIANTS
  RequestsAreValid
  PathsAgree
  ResultsAreTrue
PROPERTIES
  CallsAnswer
CHECK_DEADLOCK FALSE
