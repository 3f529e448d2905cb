---------------------------- MODULE HttpRequest ----------------------------
(***************************************************************************)
(* An HTTP request processed by the asynchronous handler: the coroutine    *)
(* HttpRequest::_asyncProcessRequest of source/http_base_request.tpp, with *)
(* the user's calls (RequestBase) at any moment, and a peer that answers,  *)
(* fails, or falls silent.                                                 *)
(*                                                                         *)
(* One action is one turn of a loop up to the call into the request it     *)
(* ends with; that call's steps come before the next action.  Between two  *)
(* actions the coroutine may be suspended: co_await has no other effect.   *)
(* The socket is external: an operation does something, would block, or    *)
(* fails.  Lengths count pieces of what one read returns.                  *)
(***************************************************************************)
EXTENDS RequestBase

CONSTANTS
    Addresses,      \* the length of m_url.hostIPList()
    RequestSize,    \* pieces of m_request_data to write
    BodySize,       \* bound: pieces of body the peer sends at most
    Replies,        \* the kinds of replies it sends
    MaxStarts       \* bound: how often the request is given to the handler

AllReplies == {
    "badStart",         \* the status line or a header is malformed, and HttpResponse throws
    "notHttp11",        \* not HTTP/1.1: the response's status is never initialized
    "notOk",            \* a status other than 200
    "length",           \* a Content-Length that is not 0
    "length0",          \* Content-Length: 0
    "badLength",        \* a Content-Length that is no number
    "chunked",          \* Transfer-Encoding: chunked
    "badChunk",         \* the same, and a chunk's size may be no number
    "otherEncoding",    \* another Transfer-Encoding, no Content-Length
    "noSize"}           \* neither header

ASSUME HttpRequestAssumption ==
    /\ Addresses \in Nat \ {0} /\ RequestSize \in Nat \ {0} /\ BodySize \in Nat /\ MaxStarts \in Nat \ {0}
    /\ Replies \subseteq AllReplies

VARIABLES
    pc,             \* where the coroutine is
    address,        \* the IP it tries, ip_index
    left,           \* pieces left of what it writes or reads
    late,           \* m_timeout has passed since start
    reply,          \* the reply it got, "none" before m_response is set
    damaged,        \* what the chunk reader left in or lost from the stream
    silent,         \* the peer will not answer any more
    starts,         \* how often the request was given to the handler
    \* what the others know of this processing
    stale,          \* m_error was set before it began
    announced,      \* pieces of body the peer announced, in its own numbers
    received        \* pieces read from the socket

httpVars == <<pc, address, left, late, reply, damaged, silent, starts, stale, announced, received>>
vars == <<baseVars, httpVars>>
unchangedData == <<address, reply, damaged, silent, starts, stale, announced, received>>

Timed == {"connect", "write", "headers", "body", "chunk", "chunkBody", "crlf"}
Checked == Timed \ {"crlf"}     \* the loops that look at m_paused and m_canceled
Damages == {
    "no",           \* the client reads where the peer's next size line, chunk or line end begins
    "crlf",         \* the line end of the last chunk is still there
    "torn",         \* the beginning of a size line is lost
    "lost"}         \* a torn line was read as another number: the client is out of step for good
Places == Timed \union {"start", "prepare", "dispatch", "finish", "ended", "threw"}

Init ==
    /\ BaseInit
    /\ pc = "start" /\ address = 1 /\ left = 0 /\ late = FALSE
    /\ reply = "none" /\ damaged = "no" /\ silent = FALSE
    /\ starts = 1 /\ stale = error /\ announced = 0 /\ received = 0

TypeOK ==
    /\ BaseTypeOK
    /\ pc \in Places
    /\ address \in 1 .. Addresses
    /\ left \in Nat
    /\ late \in BOOLEAN /\ silent \in BOOLEAN
    /\ reply \in Replies \union {"none"}
    /\ damaged \in Damages
    /\ starts \in 1 .. MaxStarts /\ stale \in BOOLEAN
    /\ announced \in 0 .. BodySize /\ received \in 0 .. BodySize

-----------------------------------------------------------------------------
(* What the parts of the coroutine share. *)

InterruptedByPause == paused
Interrupted == paused \/ canceled

\* The coroutine is at p, nothing is in progress, and no flag stops it.
Ready(p) == pc = p /\ Returned /\ (p \in Checked => ~Interrupted)

\* Calls into the request that end an action.
Keep == UNCHANGED <<flags, error, calls, intake>>
Tell(s) == SetStatus("worker", s) /\ UNCHANGED <<error, intake>>
Fail == SetError("worker") /\ UNCHANGED intake

\* What a socket operation can come to: a real error, or progress out of what
\* is offered.  A silent peer makes no progress.
Outcomes(progress) == {"wouldBlock"} \union (IF silent THEN {} ELSE progress \union {"error"})

\* checkSocketOperationErrorAndTimeOut, which the code asks after every
\* operation, also one that made progress.
CheckFailsOnErrorOnly(outcome) == outcome = "error"
CheckFails(outcome) == outcome = "error" \/ late

Goto(p) == pc' = p
\* As the constructor notes an error: with no word to anybody.
GiveUpUntold == error' = TRUE /\ UNCHANGED <<flags, calls, intake>> /\ Goto("ended") /\ UNCHANGED <<left, late, unchangedData>>
GiveUp == Fail /\ Goto("ended") /\ UNCHANGED <<left, late, unchangedData>>

baseRest == <<status, output, told, ops, fault>>

-----------------------------------------------------------------------------
(* Up to the reply. *)

CreateSocket ==
    /\ Ready("start")
    /\ \/ GiveUp
       \/ /\ Tell("Processed")
          /\ Goto("connect")
          /\ late' = FALSE
          /\ UNCHANGED <<left, unchangedData>>
    /\ UNCHANGED baseRest

\* The loops test the flags before each turn.
Leave ==
    /\ pc \in Checked /\ Returned
    /\ Interrupted
    /\ Goto("ended")
    /\ Keep /\ UNCHANGED <<left, late, unchangedData, baseRest>>

HasNextAddressOffByOne == address <= Addresses
HasNextAddress == address < Addresses

\* A connection that fails or times out is an error of the request, and only then
\* is the next address tried, with the same start.
Connect ==
    /\ Ready("connect")
    /\ \E outcome \in Outcomes({"connected"}) :
          IF ~CheckFails(outcome)
          THEN Keep /\ Goto(IF outcome = "connected" THEN "prepare" ELSE "connect") /\ UNCHANGED address
          ELSE /\ Fail
               /\ IF HasNextAddress
                  THEN address' = address + 1 /\ Goto(IF outcome = "connected" THEN "prepare" ELSE "connect")
                  ELSE Goto("ended") /\ UNCHANGED address
    /\ UNCHANGED <<left, late, reply, damaged, silent, starts, stale, announced, received, baseRest>>

Prepare ==
    /\ Ready("prepare")
    /\ Tell("Writing")
    /\ Goto("write")
    /\ left' = RequestSize /\ late' = FALSE
    /\ UNCHANGED <<unchangedData, baseRest>>

WriteRequest ==
    /\ Ready("write")
    /\ left > 0
    /\ \E outcome \in Outcomes({"wrote"}) :
          IF CheckFails(outcome)
          THEN GiveUp
          ELSE /\ \E n \in 1 .. left : left' = IF outcome = "wrote" THEN left - n ELSE left
               /\ Keep /\ UNCHANGED <<pc, late, unchangedData>>
    /\ UNCHANGED baseRest

\* The loops end without looking at the flags once there is nothing left.
RequestWritten ==
    /\ pc = "write" /\ Returned
    /\ left = 0
    /\ Tell("Reading")
    /\ Goto("headers")
    /\ late' = FALSE
    /\ UNCHANGED <<left, unchangedData, baseRest>>

\* m_error may be left from a failed connection, or from an earlier processing.
AfterHeadersUnchecked(r) == IF r = "badStart" THEN "threw" ELSE "dispatch"
AfterHeaders(r) == IF r = "badStart" THEN "threw" ELSE IF error THEN "ended" ELSE "dispatch"

ReadHeaders ==
    /\ Ready("headers")
    /\ \E outcome \in Outcomes({"whole"}) :
          IF CheckFails(outcome)
          THEN GiveUp /\ UNCHANGED stored
          ELSE /\ IF outcome = "whole"
                  THEN /\ reply' \in Replies
                       /\ Goto(AfterHeaders(reply'))
                       /\ stored' = IF target = "file" THEN stored ELSE 0
                  ELSE UNCHANGED <<pc, reply, stored>>
               /\ Keep
               /\ UNCHANGED <<left, late, address, damaged, silent, starts, stale, announced, received>>
    /\ UNCHANGED <<status, target, file, exists, bytesRead, told, ops, fault>>

-----------------------------------------------------------------------------
(* The reply decides how the body is read, if at all. *)

\* An uninitialized status may be Ok or not.
DoneAndOn ==
    /\ reply \in {"notOk", "notHttp11", "otherEncoding"}
    /\ Tell("Done")
    /\ Goto("finish")
    /\ UNCHANGED <<left, late, unchangedData>>
DoneWithoutBody ==
    /\ reply \in {"notOk", "notHttp11", "otherEncoding"}
    /\ Tell("Done")
    /\ Goto("ended")
    /\ UNCHANGED <<left, late, unchangedData>>

ExpectBody ==
    /\ reply = "length"
    /\ \E n \in 1 .. BodySize : left' = n /\ announced' = n
    /\ Tell("Reading")
    /\ Goto("body")
    /\ late' = FALSE
    /\ UNCHANGED <<address, reply, damaged, silent, starts, stale, received>>

\* Done here, and Done again where all replies with a body end.
ExpectNothing ==
    /\ reply = "length0"
    /\ Tell("Done")
    /\ Goto("finish")
    /\ UNCHANGED <<left, late, unchangedData>>

\* std::stoll throws, and nothing catches it.
Throw == Keep /\ Goto("threw") /\ UNCHANGED <<left, late, unchangedData>>

ExpectChunks ==
    /\ reply \in {"chunked", "badChunk"}
    /\ Keep
    /\ Goto("chunk")
    /\ UNCHANGED <<left, late, unchangedData>>

SizeError == reply \in {"noSize", "notHttp11"} /\ GiveUp

Dispatch ==
    /\ Ready("dispatch")
    /\ \/ DoneWithoutBody
       \/ ExpectBody
       \/ ExpectNothing
       \/ reply = "badLength" /\ Throw
       \/ ExpectChunks
       \/ SizeError
    /\ UNCHANGED baseRest

-----------------------------------------------------------------------------
(* The body. *)

NothingLeftEarly == left <= 1
NothingLeft == left = 0

\* Read what is left of the body or of a chunk.
ReadPiece(p) ==
    /\ Ready(p)
    /\ ~error /\ ~NothingLeft
    /\ \E outcome \in Outcomes({"data"}) :
          \/ CheckFails(outcome) /\ GiveUp
          \/ /\ ~CheckFails(outcome)
             /\ outcome = "data"
             /\ \E n \in 1 .. left :
                   /\ AddResponseData(n)
                   /\ left' = left - n
                   /\ received' = received + n
             /\ UNCHANGED <<pc, late, address, reply, damaged, silent, starts, stale, announced>>
          \/ /\ ~CheckFails(outcome)
             /\ outcome = "wouldBlock"
             /\ Keep /\ UNCHANGED <<pc, left, late, unchangedData>>
    /\ UNCHANGED baseRest

\* addResponseData set an error.
DataRefused ==
    /\ pc \in {"body", "chunkBody"} /\ Returned
    /\ error
    /\ Goto("ended")
    /\ Keep /\ UNCHANGED <<left, late, unchangedData, baseRest>>

PartRead(from, to) ==
    /\ pc = from /\ Returned
    /\ ~error /\ NothingLeft
    /\ Goto(to)
    /\ Keep /\ UNCHANGED <<left, late, unchangedData, baseRest>>

\* A size line is read up to its end, from wherever the client is in the stream.
\* A leftover line end gives nothing that std::stoll takes.  What is left of a torn
\* line may be no number, or any: of "10", "0" is; and once the client has taken
\* another number than the peer wrote, it reads data for size lines and takes size
\* lines for data.
SizeMayThrow == damaged # "no" \/ reply = "badChunk"
SizesTaken(n) == CASE damaged = "no" -> {n} [] damaged = "crlf" -> {} [] OTHER -> 0 .. BodySize - received

\* A line that is not there yet is waited for in the worker's thread, without
\* co_await, and what came of it is dropped.
AfterDrop == CASE damaged = "no" -> {"no", "torn"} [] damaged = "crlf" -> {"crlf", "no"} [] OTHER -> {damaged}

ReadChunkSize ==
    /\ Ready("chunk")
    /\ \E outcome \in Outcomes({"line"}) :
          \/ CheckFails(outcome) /\ GiveUp
          \/ /\ ~CheckFails(outcome)
             /\ outcome = "wouldBlock"
             /\ damaged' \in IF silent THEN {damaged} ELSE AfterDrop
             /\ Keep /\ UNCHANGED <<pc, left, late, address, reply, silent, starts, stale, announced, received>>
          \/ ~CheckFails(outcome) /\ outcome = "line" /\ SizeMayThrow /\ Throw
          \/ /\ ~CheckFails(outcome)
             /\ outcome = "line"
             /\ \E n \in 0 .. BodySize - announced :        \* what the peer wrote, ...
                \E taken \in SizesTaken(n) :                \* ... and what the client takes
                   /\ announced' = announced + n
                   /\ left' = taken
                   /\ damaged' = IF damaged = "lost" \/ taken # n THEN "lost" ELSE "no"
                   /\ Goto(IF taken = 0 THEN "finish" ELSE "chunkBody")
                   /\ late' = IF taken = 0 THEN late ELSE FALSE
             /\ Keep /\ UNCHANGED <<address, reply, silent, starts, stale, received>>
    /\ UNCHANGED baseRest

\* The line end behind a chunk; if it is not there yet, the code goes on as if
\* it had been read.
ReadLineEnd ==
    /\ Ready("crlf")
    /\ \E outcome \in Outcomes({"data"}) :
          IF CheckFails(outcome)
          THEN GiveUp
          ELSE /\ damaged' = IF outcome = "wouldBlock" /\ damaged = "no" THEN "crlf" ELSE damaged
               /\ Goto("chunk")
               /\ Keep /\ UNCHANGED <<left, late, address, reply, silent, starts, stale, announced, received>>
    /\ UNCHANGED baseRest

Finish ==
    /\ Ready("finish")
    /\ Tell("Done")
    /\ Goto("ended")
    /\ UNCHANGED <<left, late, unchangedData, baseRest>>

Coroutine ==
    \/ CreateSocket \/ Leave \/ Connect \/ Prepare \/ WriteRequest \/ RequestWritten \/ ReadHeaders
    \/ Dispatch \/ ReadPiece("body") \/ ReadPiece("chunkBody") \/ DataRefused
    \/ PartRead("body", "finish") \/ PartRead("chunkBody", "crlf")
    \/ ReadChunkSize \/ ReadLineEnd \/ Finish

-----------------------------------------------------------------------------
(* The rest of the world. *)

\* The user gives the request to the handler again, to resume it after a pause or
\* to retry it.  Nothing in the request is reset.
ProcessAgain ==
    /\ pc = "ended" /\ Returned /\ todo["user"] = <<>>
    /\ starts < MaxStarts
    /\ starts' = starts + 1
    /\ Goto("start")
    /\ address' = 1 /\ left' = 0 /\ late' = FALSE /\ damaged' = "no" /\ silent' = FALSE
    /\ stale' = error /\ announced' = 0 /\ received' = 0
    /\ finished' = 0 /\ failed' = 0
    /\ UNCHANGED <<reply, flags, error, status, output, calls, intake, ops, fault>>

Expire ==
    /\ pc \in Timed /\ ~late
    /\ late' = TRUE
    /\ UNCHANGED <<baseVars, pc, left, unchangedData>>

FallSilent ==
    /\ pc \in Timed /\ ~silent
    /\ silent' = TRUE
    /\ UNCHANGED <<baseVars, pc, address, left, late, reply, damaged, starts, stale, announced, received>>

Worker == Coroutine \/ ((SetStatusStep("worker") \/ AddStep) /\ UNCHANGED httpVars)
User == UserActs /\ UNCHANGED httpVars

Alive == fault = "none" /\ pc # "threw"
Step == Worker \/ User \/ ProcessAgain \/ Expire \/ FallSilent
Over == (~Alive \/ pc = "ended") /\ UNCHANGED vars
Next == (Alive /\ Step) \/ Over

\* The handler keeps resuming the coroutine, and time passes.
Fairness == WF_vars(Alive /\ Worker) /\ WF_vars(Alive /\ Expire)

Spec == Init /\ [][Next]_vars
FairSpec == Spec /\ Fairness

-----------------------------------------------------------------------------
(* Properties *)

Ended == pc = "ended" /\ Returned /\ fault = "none"
Quiet == ops = 0

\* Once m_error is set, the finished callbacks never run again: not after a
\* failed connection whose next address answered, and not when the request is
\* given to the handler a second time.
FailedNeverFinishes == [][error => finished' <= finished]_vars

\* The finished callbacks run once, except that a Content-Length of 0 makes them
\* run twice; the failed callbacks run at most once for each address.
OutcomeToldOnce ==
    /\ finished <= IF reply = "length0" THEN 2 ELSE 1
    /\ failed <= Addresses

\* A finished request holds what was received of the body and counted it, and that
\* is all that the peer announced, unless a chunk-size line arrived in parts and was
\* taken for another number.  (Only where files open at once: a stream that opens at
\* the second try appends to what the file held before.)
FinishedHoldsBody ==
    Ended /\ Quiet /\ finished > 0 =>
        /\ damaged # "lost" => received = announced
        /\ received > 0 => stored = received
        /\ starts = 1 => bytesRead = received

\* After a cancel() returned and the coroutine too, no output file is left, or one
\* with the single piece that was under way when the file was removed.
CancelLeavesOnePiece ==
    Ended /\ canceled /\ todo["user"] = <<>> /\ exists => stored <= piece

\* A request that failed leaves no output file behind, not even an older one, and
\* whatever the user did.
FailedLeavesNoFile == Ended /\ failed > 0 => ~exists

\* Only a user who calls while the worker uses the file can crash the program.
CrashNeedsUser == Quiet => fault = "none"

\* What the request shows to who waits for it: an outcome is one whose callbacks
\* have run in this processing.
Promise == INSTANCE RequestPromise WITH
    phase <- IF ~Alive THEN "dead" ELSE IF pc = "ended" /\ Returned THEN "over" ELSE "processing",
    outcome <- IF failed > 0 THEN "failed" ELSE IF finished > 0 THEN "finished" ELSE "none",
    stale <- stale,
    excused <- ops > 0

\* The coroutine implements the promise of a request: it runs the finished or the
\* failed callbacks before it ends, unless it began with an old error; it never takes
\* a failure back; and it always ends, even if the peer falls silent.
KeepsPromise == Promise!Spec

\* An answer whose size is given by neither header, as the description of
\* Http_response_size_error has it, is not a success.
SizelessReplyFails == reply = "otherEncoding" => finished = 0

\* A reply with nothing wrong in it makes no exception leave the coroutine.
WellFormedNeverThrows == pc = "threw" => reply \in {"badStart", "badLength", "badChunk"}
=============================================================================
