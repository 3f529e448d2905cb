--------------------------- MODULE RequestPromise ---------------------------
(***************************************************************************)
(* What a request promises to who waits for it: processing ends, and by    *)
(* then either the finished or the failed callbacks ran, and not the one   *)
(* after the other.                                                        *)
(*                                                                         *)
(* The error of a request is for good, and is not told twice: a processing *)
(* that begins with one (the host was not found, or an earlier processing  *)
(* failed) promises only that it will not be told a success.  It may end   *)
(* with no word.  So may one with which the user has interfered, and the   *)
(* program may die.  HttpRequest implements it.                            *)
(***************************************************************************)

VARIABLES
    phase,      \* "processing", "over", or "dead" with the program
    outcome,    \* what was told in this processing: "none", "finished" or "failed"
    stale,      \* there was an error when it began
    excused     \* the user canceled, paused or continued the request

promise == <<phase, outcome, stale, excused>>

Init == phase = "processing" /\ outcome = "none" /\ stale \in BOOLEAN /\ excused = FALSE

Succeed ==
    /\ phase = "processing" /\ outcome = "none" /\ ~stale
    /\ outcome' = "finished"
    /\ UNCHANGED <<phase, stale, excused>>

Fail ==
    /\ phase = "processing" /\ outcome = "none"
    /\ outcome' = "failed"
    /\ UNCHANGED <<phase, stale, excused>>

End ==
    /\ phase = "processing"
    /\ outcome # "none" \/ stale \/ excused
    /\ phase' = "over"
    /\ UNCHANGED <<outcome, stale, excused>>

Die == phase # "dead" /\ phase' = "dead" /\ UNCHANGED <<outcome, stale, excused>>

\* The request is processed once more; only a failure is remembered.
Again ==
    /\ phase = "over"
    /\ phase' = "processing"
    /\ outcome' = "none"
    /\ stale' = (stale \/ outcome = "failed")
    /\ UNCHANGED excused

Interfere == ~excused /\ excused' = TRUE /\ UNCHANGED <<phase, outcome, stale>>

Next == Succeed \/ Fail \/ End \/ Die \/ Again \/ Interfere

Settle == phase = "processing" /\ (Succeed \/ Fail \/ End \/ Die)

Safety == Init /\ [][Next]_promise
Spec == Safety /\ WF_promise(Settle)
=============================================================================
