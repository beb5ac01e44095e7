CONSTANTS
    w1 = w1
    w2 = w2
    g1 = g1
    g2 = g2
    p1 = p1
    p2 = p2
    p3 = p3
    Workers = {w1, w2}
    Grants = {g1, g2}
    Pairs = {p1, p2, p3}
    None = None
    MutationLimit = 1
    MaxCalls = 3
    MaxCrashes = 1
SYMMETRY Symmetry
SPECIFICATION Spec
INVARIANTS OneLineOfCredentials AnswersAreCurrent MutationsAreBounded
PROPERTIES RevokedStaysRevoked
CHECK_DEADLOCK FALSE
