CONSTANTS
    b1 = b1
    b2 = b2
    b3 = b3
    b4 = b4
    i1 = i1
    i2 = i2
    w1 = w1
    w2 = w2
    NoBuild = NoBuild
    NoImage = NoImage
    Builds = {b1, b2, b3}
    Images = {i1}
    Operations = {"pr_quality", "main_release"}
    Selections <- CloudBuild
    MaxSequence = 3
    MaxAttempts = 2
    Workers = {w1, w2}
    Serves <- WebhookServes
    First = w1
    Origin = "hook"
    FirstImage = i1
    AutoPublish = TRUE
    MaxFaults = 1
SPECIFICATION FairSpec
PROPERTIES PublicationEnds SubmissionIsTakenUp ResultIsConsolidated
CHECK_DEADLOCK FALSE
