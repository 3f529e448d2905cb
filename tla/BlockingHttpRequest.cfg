\* Processed twice, with a call of the user; the peer may fall silent.
SPECIFICATION BlockingFairSpec
CONSTANTS
    Targets = {"file", "response", "unnamed"}
    OpenMayFail = FALSE
    MaxOps = 1
    Addresses = 2
    RequestSize = 1
    BodySize = 2
    Replies <- BlockingReplies
    MaxStarts = 2
INVARIANTS
    FinishedHoldsBody
PROPERTIES
    KeepsPromise
