SPECIFICATION Spec
CONSTANTS
  Keys = {"k1", "k2"}
  Callers = {"c1", "c2", "c3"}
  KeyOf <- MCKeyOf
  Hooks = {"h1", "h2"}
  Sweepers = {"s1", "s2"}
  HistoryLimit = 2
  MaxOpens = 2
  Workloads <- MCWorkloads
  None = None
INVARIANTS NothingIsDoubled
PROPERTIES VerdictsDecide GoodProbeCloses
CHECK_DEADLOCK FALSE
