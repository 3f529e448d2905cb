\* Two requests: the first comes without an address or with two, and is given twice; the
\* second is read in chunks, and its user may call it once.  One run, the smallest limit.
SPECIFICATION HandledFairSpec
CONSTANTS
    j1 = j1
    j2 = j2
    j3 = j3
    r1 = r1
    r2 = r2
    Jobs <- ThreeJobs
    EmptyJobs <- NoJobs
    ThrowingJobs <- NoJobs
    MinResumes = 1
    MaxResumes = 1
    MaxRuns = 1
    CounterRange = 3
    InitialLimit = 0
    Limits <- NoJobs
    Requests <- BothRequests
    RequestOf <- FirstTwice
    Chunked <- JustRequest2
    Multihomed <- JustRequest1
    Unresolved <- JustRequest1
    Kept <- JustRequest2
    MaxCalls = 1
INVARIANTS
    HandledTypeOK
    AcceptedAreTold
    FinishedIsKept
PROPERTIES
    AcceptedIsTold
    OwnerReturns
