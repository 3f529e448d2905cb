-------------------------- MODULE MCHandledRequests --------------------------
(* An instance of HandledRequests for TLC. *)
EXTENDS HandledRequests

CONSTANTS j1, j2, j3, r1, r2

NoJobs == {}
ThreeJobs == {j1, j2, j3}
BothRequests == {r1, r2}
JustRequest1 == {r1}
JustRequest2 == {r2}

\* The first request is given twice.
FirstTwice == [j \in ThreeJobs |-> IF j = j2 THEN r2 ELSE r1]
=============================================================================
