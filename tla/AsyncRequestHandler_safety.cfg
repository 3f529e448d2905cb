\* Five requests, one of them empty and one that may throw; two resumes each, so
\* that with the surplus pointer the pointer iterator can run ahead of the other
\* one up to the end of its list.  The limit is lowered to 0 while the worker works,
\* a uint8_t of four values wraps both ways, and the handler may be run again.
SPECIFICATION Spec
CONSTANTS
    j1 = j1
    j2 = j2
    j3 = j3
    j4 = j4
    j5 = j5
    Jobs <- FiveJobs
    EmptyJobs <- JustJob3
    ThrowingJobs <- JustJob1
    MinResumes = 0
    MaxResumes = 2
    MaxRuns = 2
    CounterRange = 4
    InitialLimit = 1
    Limits <- Limit0
INVARIANTS
    PairedLists
    NoDangling
    NeverResumesFinished
    DestructorSettlesAll
    NeverErasesEnd
    LimitBoundsStarted
SYMMETRY Alike
