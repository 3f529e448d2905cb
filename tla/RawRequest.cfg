\* Every target, a call of the user, two processings; the peer may fall silent.
SPECIFICATION FairSpec
CONSTANTS
    Targets = {"response", "file", "unnamed"}
    OpenMayFail = FALSE
    MaxOps = 1
    Sizes <- NothingOrThree
    MaxStarts = 2
INVARIANTS
    SilentEndIsStale
    FinishedHoldsAll
    HasResponseForData
PROPERTIES
    Terminates
