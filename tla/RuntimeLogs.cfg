SPECIFICATION Spec
CONSTANTS
    Participants = {p1, p2}
    Threads = {t1, t2}
    Objects = {o1, o2, o3}
    None = None
    Limits <- TightLimits
    MaxWaiters = 2
    Window = 2
    WaiterTtl = 1
    PageSize = 1
    Buffer = 2
    MaxFaults = 1
SYMMETRY Interchangeable
INVARIANTS BudgetIsKept SamplesAreBounded
PROPERTIES SharesAreFair
CHECK_DEADLOCK FALSE
