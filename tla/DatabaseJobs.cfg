SPECIFICATION Spec
CONSTANTS
    Executions = {"e1", "e2"}
    Exports = {"x"}
    Views = {"v"}
    Requests = {"r"}
    Workloads <- MCWorkloads
    None = "none"
    Budget = 3
    MaxFaults = 1
INVARIANTS ResourcesAreAccountedFor CapturesAreWhole
PROPERTIES NoResurrection EverythingIsErased
CHECK_DEADLOCK FALSE
