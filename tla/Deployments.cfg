SPECIFICATION FairSpec
CONSTANTS
  Keys = {"k1", "k2"}
  Handlers = {"h1", "h2"}
  Workloads <- MCWorkloads
  None = None
INVARIANTS OpenMeansQuiet RecordsAreTrue
PROPERTIES LateIsFenced EffectsOnce BuildIsSettled
CHECK_DEADLOCK FALSE
