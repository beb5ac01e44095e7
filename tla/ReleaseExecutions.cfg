CONSTANTS
    b1 = b1
    b2 = b2
    i1 = i1
    i2 = i2
    Builds = {b1, b2}
    NoBuild = NoBuild
    Images = {i1, i2}
    NoImage = NoImage
    Operations = {"pr_quality", "main_release"}
    Selections <- NewAndLegacy
    MaxSequence = 1
    MaxAttempts = 1
SYMMETRY Symmetry
SPECIFICATION Spec
INVARIANTS IInv
PROPERTIES FinishedStaysFinished BindingIsStable HandoffBeforeEvents
