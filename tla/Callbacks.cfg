\* Up to two of nine sign-ups, two calls by the user or by the callbacks, and one
\* piece of data.
SPECIFICATION Spec
CONSTANTS
    SignUps <- SomeSignUps
    MaxSigned = 2
    MaxOps = 2
    MaxPieces = 1
INVARIANTS
    EveryoneIsTold
    NobodyIsBehind
    OuterStatusStays
    CanceledHasNoFile
