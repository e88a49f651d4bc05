SPECIFICATION Spec
CONSTANTS
  Hosts <- MCOneApp
  MaxEdits = 0
INVARIANTS
  StoppedMeansUnchanged
CHECK_DEADLOCK FALSE
