\* The destructor after stop().
SPECIFICATION Spec
CONSTANTS
    j1 = j1
    j2 = j2
    j3 = j3
    j4 = j4
    j5 = j5
    Jobs <- ThreeJobs
    EmptyJobs <- NoJobs
    ThrowingJobs <- JustJob1
    MinResumes = 0
    MaxResumes = 1
    MaxRuns = 2
    CounterRange = 4
    InitialLimit = 1
    Limits <- Limit0
INVARIANTS
    StoppedThenDestroyed
