SPECIFICATION FairSpec
CONSTANTS
  Schedules = {"hour", "half"}
  MaxFaults = 3
INVARIANTS ProductionIsSafe OutcomeIsTrue PromotedAsChecked
PROPERTIES RunEnds
CHECK_DEADLOCK FALSE
