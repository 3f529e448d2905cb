\* Output to a file, two calls of the user at any moment, two addresses.
SPECIFICATION Spec
CONSTANTS
    Targets = {"file"}
    OpenMayFail = TRUE
    MaxOps = 2
    Addresses = 2
    RequestSize = 1
    BodySize = 2
    Replies <- AllReplies
    MaxStarts = 1
INVARIANTS
    TypeOK
    OutcomeToldOnce
    FailedLeavesNoFile
    CrashNeedsUser
    CancelLeavesOnePiece
