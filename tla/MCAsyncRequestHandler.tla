----------------------- MODULE MCAsyncRequestHandler -----------------------
(* Instances of AsyncRequestHandler for TLC. *)
EXTENDS AsyncRequestHandler

CONSTANTS j1, j2, j3, j4, j5

NoJobs == {}
ThreeJobs == {j1, j2, j3}
FiveJobs == {j1, j2, j3, j4, j5}
JustJob1 == {j1}
JustJob3 == {j3}
Limit0 == {0}

\* Those that no constant tells apart.
Alike == Permutations({j2, j4, j5})
=============================================================================
