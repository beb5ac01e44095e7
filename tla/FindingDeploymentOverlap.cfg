SPECIFICATION Spec
CONSTANTS
  Keys = {"k1", "k2"}
  Handlers = {"h1", "h2"}
  Workloads <- MCRetryWorkloads
  None = None
INVARIANT OneWorkingRun
CHECK_DEADLOCK FALSE
