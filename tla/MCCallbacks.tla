---------------------------- MODULE MCCallbacks ----------------------------
(* An instance of Callbacks for TLC. *)
EXTENDS Callbacks

\* Each event, and each way to sign up for one, but for a null pointer, which is passed
\* over as an empty function is.  Two are for the status, told at any depth, and two for
\* a cancel, of which one may be gone by its turn.
SomeSignUps ==
    {[id |-> 1, event |-> "StatusChange", by |-> "function"],
     [id |-> 2, event |-> "StatusChange", by |-> "pointer"],
     [id |-> 3, event |-> "BytesRead", by |-> "pointer"],
     [id |-> 4, event |-> "Finished", by |-> "weak"],
     [id |-> 5, event |-> "Failed", by |-> "function"],
     [id |-> 6, event |-> "Cancelled", by |-> "function"],
     [id |-> 7, event |-> "Paused", by |-> "empty"],
     [id |-> 8, event |-> "Resumed", by |-> "emptyUnchecked"],
     [id |-> 9, event |-> "Cancelled", by |-> "weak"]}
=============================================================================
