------------------------ MODULE BlockingHttpRequest ------------------------
(***************************************************************************)
(* An HTTP request processed by a thread that does nothing else:           *)
(* HttpRequest::processRequest of source/http_base_request.tpp, which      *)
(* handle_request (source/thread_handler.cpp) calls in place or in a       *)
(* detached thread.                                                        *)
(*                                                                         *)
(* It is the coroutine of HttpRequest with a sleep where that one is       *)
(* suspended, written out a second time.  Where the two agree the actions  *)
(* of HttpRequest are used; they differ in what follows a connection that  *)
(* came too late, and in that the status of the reply is not looked at.    *)
(***************************************************************************)
EXTENDS HttpRequest

\* A reply other than 200 is read as any other, so it is not a kind of its own.
ASSUME BlockingAssumption == "notOk" \notin Replies

-----------------------------------------------------------------------------
\* The next address gets a socket of its own, also when this one has connected
\* and the check came too late.
ConnectInPlaceStopping ==
    /\ Ready("connect")
    /\ \E outcome \in Outcomes({"connected"}) :
          IF ~CheckFails(outcome)
          THEN Keep /\ Goto(IF outcome = "connected" THEN "prepare" ELSE "connect")
          ELSE Keep /\ Goto("ended")
    /\ UNCHANGED <<left, late, unchangedData, baseRest>>
ConnectInPlace ==
    /\ Ready("connect")
    /\ \E outcome \in Outcomes({"connected"}) :
          IF ~CheckFails(outcome)
          THEN Keep /\ Goto(IF outcome = "connected" THEN "prepare" ELSE "connect") /\ UNCHANGED address
          ELSE /\ Fail
               /\ IF HasNextAddress
                  THEN address' = address + 1 /\ UNCHANGED pc
                  ELSE Goto("ended") /\ UNCHANGED address
    /\ UNCHANGED <<left, late, reply, damaged, silent, starts, stale, announced, received, baseRest>>

ReachPeer == CreateSocket \/ ConnectInPlace
SendRequest == Prepare \/ WriteRequest \/ RequestWritten

DoneUnlessChunked ==
    /\ reply = "otherEncoding"
    /\ Tell("Done")
    /\ Goto("ended")
    /\ UNCHANGED <<left, late, unchangedData>>

ChooseBody ==
    /\ Ready("dispatch")
    /\ \/ ExpectBody
       \/ ExpectNothing
       \/ reply = "badLength" /\ Throw
       \/ DoneUnlessChunked
       \/ ExpectChunks
       \/ SizeError
    /\ UNCHANGED baseRest

TakeBody == ReadPiece("body") \/ PartRead("body", "finish")
TakeChunks == ReadChunkSize \/ ReadPiece("chunkBody") \/ PartRead("chunkBody", "crlf") \/ ReadLineEnd

Process ==
    Leave \/ ReachPeer \/ SendRequest \/ ReadHeaders \/ ChooseBody \/ TakeBody \/ TakeChunks \/ DataRefused \/ Finish

-----------------------------------------------------------------------------
BlockingWorker == Process \/ ((SetStatusStep("worker") \/ AddStep) /\ UNCHANGED httpVars)

\* handle_request once more, which is possible when the earlier call has returned.
HandleRequest == ProcessAgain

BlockingStep == BlockingWorker \/ User \/ HandleRequest \/ Expire \/ FallSilent
BlockingNext == (Alive /\ BlockingStep) \/ Over

\* The thread runs on, and time passes.
BlockingFairness == WF_vars(Alive /\ BlockingWorker) /\ WF_vars(Alive /\ Expire)

BlockingSpec == Init /\ [][BlockingNext]_vars
BlockingFairSpec == BlockingSpec /\ BlockingFairness
=============================================================================
