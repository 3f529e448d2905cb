\* The request is processed twice, interrupted once, and the peer may fall silent.
\* Files open at once.
SPECIFICATION FairSpec
CONSTANTS
    Targets = {"file", "response", "unnamed"}
    OpenMayFail = FALSE
    MaxOps = 1
    Addresses = 2
    RequestSize = 1
    BodySize = 2
    Replies <- AllReplies
    MaxStarts = 2
INVARIANTS
    FinishedHoldsBody
PROPERTIES
    FailedNeverFinishes
    KeepsPromise
