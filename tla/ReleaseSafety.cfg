CONSTANTS
    b1 = b1
    b2 = b2
    b3 = b3
    b4 = b4
    i1 = i1
    i2 = i2
    w1 = w1
    w2 = w2
    NoBuild = NoBuild
    NoImage = NoImage
    Builds = {b1, b2, b3, b4}
    Images = {i1, i2}
    Operations = {"main_release"}
    Selections <- CloudBuild
    MaxSequence = 3
    MaxAttempts = 2
    Workers = {w1, w2}
    Serves <- ReleaseServes
    First = w1
    Origin = "hook"
    FirstImage = i1
    AutoPublish = TRUE
    MaxFaults = 2
SPECIFICATION SSpec
INVARIANTS RecordIsTrue SteadyImageIsOrderly RecoveryIsOrderly
PROPERTIES EvidenceIsFrozen
CHECK_DEADLOCK FALSE
