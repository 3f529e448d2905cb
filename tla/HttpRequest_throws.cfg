\* Replies that are well formed.
SPECIFICATION Spec
CONSTANTS
    Targets = {"file"}
    OpenMayFail = TRUE
    MaxOps = 0
    Addresses = 2
    RequestSize = 1
    BodySize = 2
    Replies <- SomeReplies
    MaxStarts = 1
INVARIANTS
    WellFormedNeverThrows
