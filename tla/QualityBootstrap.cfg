SPECIFICATION FairSpec
CONSTANTS
  Requests = {"r1", "r2"}
  Sweepers = {"s1"}
  Callbacks = {"c1"}
  MaxBuilds = 2
  MaxFaults = 2
  MaxChanges = 1
  None = None
INVARIANTS OneAttempt BoundIsVerified
PROPERTIES AttemptIsFinal BuildIsRecovered
CHECK_DEADLOCK FALSE
