\* A reply with a Transfer-Encoding other than chunked.
SPECIFICATION Spec
CONSTANTS
    Targets = {"file"}
    OpenMayFail = TRUE
    MaxOps = 0
    Addresses = 2
    RequestSize = 1
    BodySize = 2
    Replies <- AllReplies
    MaxStarts = 1
INVARIANTS
    SizelessReplyFails
