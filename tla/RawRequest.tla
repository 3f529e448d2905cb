----------------------------- MODULE RawRequest -----------------------------
(***************************************************************************)
(* A raw request, source/raw_request.cpp: connect, and read the number of  *)
(* bytes that the user asked for.  processRequest and the coroutine        *)
(* _asyncProcessRequest have the same steps, and differ in that one sleeps *)
(* where the other is suspended.                                           *)
(*                                                                         *)
(* Nothing in the code gives a raw request data to send (m_request_data is *)
(* protected, and requestData() hands out a constant), so the loop that    *)
(* writes is never entered and only its status is modelled.                *)
(***************************************************************************)
EXTENDS RequestBase

CONSTANTS
    Sizes,      \* what setBytesToRead is called with, in pieces
    MaxStarts   \* bound: how often the request is processed

ASSUME RawRequestAssumption == Sizes \subseteq Nat /\ MaxStarts \in Nat \ {0}

VARIABLES
    pc,         \* where the processing is
    wanted,     \* m_bytes_to_read
    received,   \* bytes_read, pieces read since processing began
    response,   \* m_response is no longer std::monostate
    late,       \* m_timeout has passed since start
    silent,     \* the peer will not answer any more
    starts,     \* how often the request was processed
    stale       \* m_error was set when processing began

rawVars == <<pc, wanted, received, response, late, silent, starts, stale>>
vars == <<baseVars, rawVars>>
baseRest == <<status, output, told, ops, fault>>

Timed == {"connect", "body"}
Places == Timed \union {"start", "connected", "choose", "added", "finish", "ended"}

Init ==
    /\ BaseInit /\ status = "Waiting"
    /\ pc = "start"
    /\ wanted \in Sizes
    /\ received = 0 /\ response = FALSE
    /\ late = FALSE /\ silent = FALSE
    /\ starts = 1
    /\ stale = error

TypeOK ==
    /\ BaseTypeOK
    /\ pc \in Places
    /\ wanted \in Sizes /\ received \in 0 .. wanted
    /\ response \in BOOLEAN /\ late \in BOOLEAN /\ silent \in BOOLEAN /\ stale \in BOOLEAN
    /\ starts \in 1 .. MaxStarts

-----------------------------------------------------------------------------
Interrupted == paused \/ canceled
Ready(p) == pc = p /\ Returned

Keep == UNCHANGED <<flags, error, calls, intake>>
Tell(s) == SetStatus("worker", s) /\ UNCHANGED <<error, intake>>
Goto(p) == pc' = p
GiveUp ==
    /\ SetError("worker") /\ UNCHANGED intake
    /\ Goto("ended")
    /\ UNCHANGED <<wanted, received, response, late, silent, starts, stale>>

\* What a socket operation can come to; a silent peer makes no progress.
Outcomes == {"wouldBlock"} \union (IF silent THEN {} ELSE {"progress", "error"})

\* checkSocketOperationErrorAndTimeOut
CheckFailsOnErrorOnly(outcome) == outcome = "error"
CheckFails(outcome) == outcome = "error" \/ late

CreateSocket ==
    /\ Ready("start")
    /\ \/ GiveUp
       \/ /\ Tell("Processed")
          /\ Goto("connect")
          /\ late' = FALSE
          /\ UNCHANGED <<wanted, received, response, silent, starts, stale>>
    /\ UNCHANGED baseRest

Leave ==
    /\ pc \in Timed /\ Returned
    /\ Interrupted
    /\ pc = "body" => received < wanted
    /\ Goto("ended")
    /\ Keep /\ UNCHANGED <<wanted, received, response, late, silent, starts, stale, baseRest>>

Connect ==
    /\ Ready("connect") /\ ~Interrupted
    /\ \E outcome \in Outcomes :
          IF CheckFails(outcome)
          THEN GiveUp
          ELSE /\ Goto(IF outcome = "progress" THEN "connected" ELSE "connect")
               /\ Keep /\ UNCHANGED <<wanted, received, response, late, silent, starts, stale>>
    /\ UNCHANGED baseRest

\* There is nothing to write.
Write0 ==
    /\ Ready("connected")
    /\ Tell("Writing")
    /\ Goto("choose")
    /\ late' = FALSE
    /\ UNCHANGED <<wanted, received, response, silent, starts, stale, baseRest>>

\* A response is made only if there is something to read into it.
ChooseWithoutResponse ==
    /\ Ready("choose")
    /\ Goto(IF wanted = 0 THEN "finish" ELSE "body")
    /\ late' = FALSE
    /\ Keep /\ UNCHANGED <<wanted, received, response, silent, starts, stale, baseRest>>
Choose ==
    /\ Ready("choose")
    /\ IF wanted = 0
       THEN Goto("finish") /\ UNCHANGED <<response, late, stored>>
       ELSE /\ Goto("body")
            /\ response' = TRUE /\ late' = FALSE
            /\ stored' = IF target = "file" THEN stored ELSE 0
    /\ Keep /\ UNCHANGED <<wanted, received, silent, starts, stale>>
    /\ UNCHANGED <<status, target, file, exists, bytesRead, told, ops, fault>>

\* One read is offered no more than what is left.
PieceSizes == 1 .. wanted - received

Read ==
    /\ Ready("body") /\ ~Interrupted
    /\ received < wanted
    /\ \E outcome \in Outcomes :
          \/ CheckFails(outcome) /\ GiveUp
          \/ /\ ~CheckFails(outcome) /\ outcome = "progress"
             /\ \E n \in PieceSizes : AddResponseData(n) /\ received' = received + n
             /\ Goto("added")
             /\ UNCHANGED <<wanted, response, late, silent, starts, stale>>
          \/ /\ ~CheckFails(outcome) /\ outcome = "wouldBlock"
             /\ Keep /\ UNCHANGED rawVars
    /\ UNCHANGED baseRest

\* m_error may be of addResponseData, but also of an earlier processing, or of the
\* constructor, which could not resolve the host.
Added ==
    /\ Ready("added")
    /\ Goto(IF error THEN "ended" ELSE "body")
    /\ Keep /\ UNCHANGED <<wanted, received, response, late, silent, starts, stale, baseRest>>

AllReadEarly == received + 1 >= wanted
AllRead == received = wanted

BodyRead ==
    /\ Ready("body")
    /\ AllRead
    /\ Goto("finish")
    /\ Keep /\ UNCHANGED <<wanted, received, response, late, silent, starts, stale, baseRest>>

FinishForgotten ==
    /\ Ready("finish")
    /\ Goto("ended")
    /\ Keep /\ UNCHANGED <<wanted, received, response, late, silent, starts, stale, baseRest>>
Finish ==
    /\ Ready("finish")
    /\ Tell("Done")
    /\ Goto("ended")
    /\ UNCHANGED <<wanted, received, response, late, silent, starts, stale, baseRest>>

Process == CreateSocket \/ Leave \/ Connect \/ Write0 \/ Choose \/ Read \/ Added \/ BodyRead \/ Finish

-----------------------------------------------------------------------------
(* The rest of the world. *)

\* The user has the request processed once more; nothing in it is reset.
ProcessAgain ==
    /\ pc = "ended" /\ Returned /\ todo["user"] = <<>>
    /\ starts < MaxStarts
    /\ starts' = starts + 1
    /\ Goto("start")
    /\ received' = 0 /\ late' = FALSE /\ silent' = FALSE
    /\ stale' = error
    /\ finished' = 0 /\ failed' = 0
    /\ UNCHANGED <<wanted, response, flags, error, status, output, calls, intake, ops, fault>>

Expire ==
    /\ pc \in Timed /\ ~late
    /\ late' = TRUE
    /\ UNCHANGED <<baseVars, pc, wanted, received, response, silent, starts, stale>>

FallSilent ==
    /\ pc \in Timed /\ ~silent
    /\ silent' = TRUE
    /\ UNCHANGED <<baseVars, pc, wanted, received, response, late, starts, stale>>

Worker == Process \/ ((SetStatusStep("worker") \/ AddStep) /\ UNCHANGED rawVars)
User == UserActs /\ UNCHANGED rawVars

Alive == fault = "none"
Over == (~Alive \/ pc = "ended") /\ UNCHANGED vars
Next == (Alive /\ (Worker \/ User \/ ProcessAgain \/ Expire \/ FallSilent)) \/ Over

\* The handler keeps resuming the coroutine, or the thread runs on, and time passes.
Fairness == WF_vars(Alive /\ Worker) /\ WF_vars(Alive /\ Expire)

Spec == Init /\ [][Next]_vars
FairSpec == Spec /\ Fairness

-----------------------------------------------------------------------------
(* Properties *)

Ended == pc = "ended" /\ Returned /\ fault = "none"
Quiet == ops = 0

\* The only way for an undisturbed raw request to end with neither callback is an
\* error that was there before it began; unlike an HTTP request, which never
\* gets past its headers with one, it then reads a piece and returns in silence.
SilentEndIsStale == Ended /\ Quiet /\ finished = 0 /\ failed = 0 => stale /\ received > 0

\* A finished raw request read all that was asked for and stored it, through
\* parts of any size and a second processing.  (Where files open at once.)
FinishedHoldsAll ==
    Ended /\ Quiet /\ finished > 0 =>
        /\ received = wanted
        /\ wanted > 0 => stored = wanted
        /\ starts = 1 => bytesRead = wanted

\* "Should not happened": data is never added to memory before there is a
\* response to add it to.
HasResponseForData == adding = "write" /\ target = "response" => response

\* Processing comes to its end, even if the peer falls silent.
Terminates == pc = "start" ~> (pc = "ended" \/ fault # "none")
=============================================================================
