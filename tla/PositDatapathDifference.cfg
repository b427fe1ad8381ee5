SPECIFICATION Spec
CONSTANTS
  NBits = 7
  ES = 1
  PowerUp = {TRUE}
  FirstOps <- WarmUps
  NextOps <- Differences
INVARIANTS
  DifferencesReturned
CHECK_DEADLOCK FALSE
