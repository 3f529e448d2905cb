------------------------- MODULE HttpRequestProofs -------------------------
(***************************************************************************)
(* What holds of an HTTP request for any number of addresses, pieces,      *)
(* calls and processings.                                                  *)
(*                                                                         *)
(* Every action of the coroutine is one of eight kinds of Turn, by what it *)
(* does to the request: it gives up, tries the next address, tells how far *)
(* it is, succeeds, adds data, reads the reply, leaves, or walks on.  What *)
(* is proved is proved of turns, and so of processRequest too, which takes *)
(* no other ones (BlockingHttpRequest).                                    *)
(*                                                                         *)
(* An outcome counts from the call of setStatus on: callbacks are Pending  *)
(* before they run, and a file that is to be removed has that step Ahead.  *)
(***************************************************************************)
EXTENDS BlockingHttpRequest, RequestBaseProofs

-----------------------------------------------------------------------------
(* Turns. *)

GivesUp ==
    /\ pc # "finish" /\ (pc \in {"body", "chunkBody"} => ~error)
    /\ Fail /\ Goto("ended")
    /\ UNCHANGED <<stored, address, left, reply, announced, received>>

TriesNext ==
    /\ pc = "connect" /\ HasNextAddress
    /\ Fail /\ pc' \in {"connect", "prepare"}
    /\ address' = address + 1
    /\ UNCHANGED <<stored, left, reply, announced, received>>

GoesOn ==
    /\ \/ pc = "start" /\ Tell("Processed") /\ Goto("connect") /\ UNCHANGED <<left, announced>>
       \/ pc = "prepare" /\ Tell("Writing") /\ Goto("write") /\ left' = RequestSize /\ UNCHANGED announced
       \/ pc = "write" /\ Tell("Reading") /\ Goto("headers") /\ UNCHANGED <<left, announced>>
       \/ pc = "dispatch" /\ Tell("Reading") /\ Goto("body") /\ \E n \in 1 .. BodySize : left' = n /\ announced' = n
    /\ UNCHANGED <<stored, address, reply, received>>

Succeeds ==
    /\ \/ pc = "dispatch" /\ pc' = "ended"
       \/ pc = "dispatch" /\ pc' = "finish" /\ reply = "length0"
       \/ pc = "finish" /\ pc' = "ended"
    /\ Tell("Done")
    /\ UNCHANGED <<stored, address, left, reply, announced, received>>

Adds ==
    /\ pc \in {"body", "chunkBody"} /\ ~error /\ ~canceled
    /\ \E n \in 1 .. left : AddResponseData(n) /\ left' = left - n /\ received' = received + n
    /\ UNCHANGED <<stored, pc, address, reply, announced>>

ReadsReply ==
    /\ pc = "headers" /\ Keep
    /\ reply' \in Replies /\ pc' = AfterHeaders(reply')
    /\ stored' = IF target = "file" THEN stored ELSE 0
    /\ UNCHANGED <<address, left, announced, received>>

Leaves ==
    /\ Interrupted \/ error
    /\ pc \notin {"finish", "dispatch"}
    /\ Keep /\ Goto("ended")
    /\ UNCHANGED <<stored, address, left, reply, announced, received>>

\* With nothing left, where a body or a chunk was read.
Walks ==
    /\ \/ UNCHANGED <<pc, announced>> /\ left' \in Nat /\ (pc \in {"body", "chunkBody"} => left' = left)
       \/ /\ <<pc, pc'>> \in {<<"connect", "prepare">>, <<"dispatch", "threw">>, <<"dispatch", "chunk">>,
                              <<"chunk", "threw">>, <<"crlf", "chunk">>}
          /\ UNCHANGED <<left, announced>>
       \/ /\ <<pc, pc'>> \in {<<"body", "finish">>, <<"chunkBody", "crlf">>} /\ ~error /\ left = 0
          /\ UNCHANGED <<left, announced>>
       \/ /\ pc = "chunk"
          /\ \E n \in 0 .. BodySize - announced, taken \in Nat :
                /\ left' = taken /\ announced' = announced + n
                /\ pc' = (IF taken = 0 THEN "finish" ELSE "chunkBody")
                /\ \/ taken = n /\ damaged # "lost"
                   \/ taken \in 0 .. BodySize - received /\ damaged' = "lost"
    /\ Keep
    /\ UNCHANGED <<stored, address, reply, received>>

Turn ==
    /\ Returned /\ pc \notin {"ended", "threw"}
    /\ UNCHANGED <<status, target, file, exists, bytesRead, told, ops, fault, silent, starts, stale>>
    /\ late' \in BOOLEAN /\ damaged' \in Damages
    /\ damaged = "lost" => damaged' = "lost"
    /\ GivesUp \/ TriesNext \/ GoesOn \/ Succeeds \/ Adds \/ ReadsReply \/ Leaves \/ Walks

\* Every action of the coroutine is such a turn.
LEMMA CoroutineTurns ==
  ASSUME left \in Nat, late \in BOOLEAN, damaged \in Damages, received \in 0 .. BodySize, announced \in 0 .. BodySize, Coroutine
  PROVE  Turn
<1> USE HttpRequestAssumption DEF Ready, Goto, unchangedData, baseRest, output, Damages
<1>1. CASE CreateSocket
  BY <1>1 DEF CreateSocket, GiveUp, Turn, GivesUp, GoesOn
<1>2. CASE Leave
  BY <1>2 DEF Leave, Turn, Leaves, Checked, Timed
<1>3. CASE Connect
  <2>1. /\ pc = "connect" /\ Returned
        /\ UNCHANGED <<status, target, file, exists, bytesRead, stored, told, ops, fault, left, late, reply, damaged, silent, starts, stale, announced, received>>
    BY <1>3 DEF Connect
  <2>2. \/ Keep /\ pc' \in {"connect", "prepare"} /\ UNCHANGED address
        \/ Fail /\ HasNextAddress /\ address' = address + 1 /\ pc' \in {"connect", "prepare"}
        \/ Fail /\ pc' = "ended" /\ UNCHANGED address
    BY <1>3 DEF Connect
  <2>3. Walks \/ TriesNext \/ GivesUp
    BY <2>1, <2>2 DEF Walks, TriesNext, GivesUp
  <2> QED
    BY <2>1, <2>3 DEF Turn
<1>4. CASE Prepare
  BY <1>4 DEF Prepare, Turn, GoesOn
<1>5. CASE WriteRequest
  BY <1>5 DEF WriteRequest, GiveUp, Turn, GivesUp, Walks
<1>6. CASE RequestWritten
  BY <1>6 DEF RequestWritten, Turn, GoesOn
<1>7. CASE ReadHeaders
  BY <1>7 DEF ReadHeaders, GiveUp, Turn, GivesUp, ReadsReply, Walks
<1>8. CASE Dispatch
  <2>1. CASE ExpectBody
    BY <1>8, <2>1 DEF Dispatch, ExpectBody, Turn, GoesOn
  <2>2. CASE DoneWithoutBody \/ ExpectNothing
    BY <1>8, <2>2 DEF Dispatch, DoneWithoutBody, ExpectNothing, Turn, Succeeds
  <2>3. CASE Throw \/ ExpectChunks
    BY <1>8, <2>3 DEF Dispatch, Throw, ExpectChunks, Turn, Walks
  <2>4. CASE SizeError
    BY <1>8, <2>4 DEF Dispatch, SizeError, GiveUp, Turn, GivesUp
  <2> QED
    BY <1>8, <2>1, <2>2, <2>3, <2>4 DEF Dispatch
<1>9. ASSUME NEW p \in {"body", "chunkBody"}, ReadPiece(p) PROVE Turn
  <2>1. CASE GiveUp
    BY <1>9, <2>1 DEF ReadPiece, GiveUp, Turn, GivesUp
  <2>2. CASE Keep /\ UNCHANGED <<pc, left, late, unchangedData>>
    BY <1>9, <2>2 DEF ReadPiece, Turn, Walks
  <2>3. ASSUME NEW n \in 1 .. left, AddResponseData(n), left' = left - n, received' = received + n,
               UNCHANGED <<pc, late, address, reply, damaged, silent, starts, stale, announced>>
        PROVE  Turn
    <3>1. ~canceled /\ ~error /\ pc \in {"body", "chunkBody"} /\ Returned /\ UNCHANGED <<status, output, told, ops, fault>>
      BY <1>9 DEF ReadPiece, Checked, Timed, Interrupted
    <3>2. Adds
      BY <2>3, <3>1 DEF Adds
    <3> QED
      BY <2>3, <3>1, <3>2 DEF Turn
  <2> QED
    BY <1>9, <2>1, <2>2, <2>3 DEF ReadPiece
<1>10. CASE DataRefused
  BY <1>10 DEF DataRefused, Turn, Leaves
<1>11. CASE PartRead("body", "finish") \/ PartRead("chunkBody", "crlf")
  BY <1>11 DEF PartRead, NothingLeft, Turn, Walks
<1>12. CASE ReadChunkSize
  <2>1. /\ pc = "chunk" /\ Returned
        /\ UNCHANGED <<status, target, file, exists, bytesRead, stored, told, ops, fault, address, reply, silent, starts, stale, received>>
    BY <1>12 DEF ReadChunkSize, GiveUp, Throw
  <2>2. CASE GiveUp
    BY <2>1, <2>2 DEF GiveUp, Turn, GivesUp
  <2>3. CASE Throw
    BY <2>1, <2>3 DEF Throw, Turn, Walks
  <2>4. CASE Keep /\ damaged' \in AfterDrop \union {damaged} /\ UNCHANGED <<pc, left, late, announced>>
    BY <2>1, <2>4 DEF Turn, Walks, AfterDrop
  <2>5. ASSUME NEW n \in 0 .. BodySize - announced, NEW taken \in SizesTaken(n), announced' = announced + n, left' = taken,
               damaged' = (IF damaged = "lost" \/ taken # n THEN "lost" ELSE "no"),
               pc' = (IF taken = 0 THEN "finish" ELSE "chunkBody"), late' = (IF taken = 0 THEN late ELSE FALSE), Keep
        PROVE  Turn
    <3>1. n \in Nat /\ taken \in Nat /\ (taken = n \/ taken \in 0 .. BodySize - received)
          /\ (damaged = "lost" => taken \in 0 .. BodySize - received)
      BY <2>5 DEF SizesTaken
    <3>2. \/ taken = n /\ damaged # "lost"
          \/ taken \in 0 .. BodySize - received /\ damaged' = "lost"
      BY <2>5, <3>1
    <3>3. Walks
      BY <2>1, <2>5, <3>1, <3>2 DEF Walks
    <3> QED
      BY <2>1, <2>5, <3>3 DEF Turn
  <2> QED
    BY <1>12, <2>2, <2>3, <2>4, <2>5 DEF ReadChunkSize
<1>13. CASE ReadLineEnd
  BY <1>13 DEF ReadLineEnd, GiveUp, Turn, GivesUp, Walks
<1>14. CASE Finish
  BY <1>14 DEF Finish, Turn, Succeeds
<1> QED
  BY <1>1, <1>2, <1>3, <1>4, <1>5, <1>6, <1>7, <1>8, <1>9, <1>10, <1>11, <1>12, <1>13, <1>14 DEF Coroutine

-----------------------------------------------------------------------------
(* The invariant. *)

\* The types of the coroutine's own variables.
HttpTypes ==
    /\ pc \in Places
    /\ address \in 1 .. Addresses
    /\ left \in Nat
    /\ late \in BOOLEAN /\ silent \in BOOLEAN
    /\ reply \in Replies \union {"none"}
    /\ damaged \in Damages
    /\ starts \in 1 .. MaxStarts /\ stale \in BOOLEAN
    /\ announced \in 0 .. BodySize /\ received \in 0 .. BodySize

\* Of what was announced, what was not read is what is left of this body or chunk,
\* as long as the client is in step with the peer.
Counted ==
    /\ pc \in {"start", "connect", "prepare", "write", "headers", "dispatch"} => announced = 0 /\ received = 0
    /\ pc \in {"body", "chunkBody"} => received + left <= BodySize
    /\ damaged # "lost" =>
          /\ pc \in {"body", "chunkBody"} => received + left = announced
          /\ pc \in {"chunk", "crlf", "finish"} => received = announced

\* With an error the coroutine is not where it decides about Done, nor anywhere
\* it gets to such a place from without looking at m_error.
Unfailed == error => pc \notin {"dispatch", "chunk", "crlf", "finish"}

\* Data is added from two places only, and both look at m_error afterwards.
AddsWhileReading == adding # "no" => ~error /\ pc \in {"body", "chunkBody"}

Owed(s) == IF Pending(s) THEN 1 ELSE 0

\* Success is told where the processing ends, and before that only for a reply
\* without a body, which is then told once more.
ToldFinished ==
    finished + Owed("Done") <=
        IF pc = "ended" THEN IF reply = "length0" THEN 2 ELSE 1
        ELSE IF pc = "finish" /\ reply = "length0" THEN 1 ELSE 0

\* Each address but the last one fails once, the last one may; and a failure while
\* data is added leads to the end.
ToldFailed ==
    failed + Owed("Error") <=
        IF pc = "ended" \/ (error /\ pc \in {"body", "chunkBody"}) THEN address ELSE address - 1

\* A success that was told, or is about to be, is one, and has read everything.
SuccessIsSound == finished > 0 \/ Pending("Done") => ~error /\ (damaged # "lost" => received = announced)

\* An error is an old one, or was told in this processing, or is about to be.
ErrorIsTold ==
    /\ stale \/ failed > 0 => error
    /\ error => stale \/ failed > 0 \/ Pending("Error")

\* A processing that is at its end told how, unless the user stopped it.
EndIsTold == pc = "ended" => ops # 0 \/ error \/ finished > 0 \/ Pending("Done")

OutcomesInv == ToldFinished /\ ToldFailed /\ SuccessIsSound /\ ErrorIsTold /\ EndIsTold

\* The file of a request that failed is gone, or about to be.
FailedFile == failed > 0 => error /\ (~exists \/ Ahead("worker", "remove"))

\* So is that of a request that was canceled, but for the piece that was under way.
CanceledFile == canceled /\ target = "file" => Ahead("user", "remove") \/ OnePiece

InBody == pc \in {"body", "chunk", "chunkBody", "crlf", "finish"}

\* Outside of the body there is no stream, or the worker is about to reset it, and
\* in an undisturbed body it resets none that something was written to.
FileClosed ==
    ops = 0 /\ ((~InBody /\ pc # "threw") \/ error) => file = "none" \/ Ahead("worker", "reset")
QuietBody == InBody /\ ~error /\ todo["worker"] # <<>> => received = 0

\* So what an undisturbed request holds is what it received.
BodyStored ==
    ops = 0 /\ ~error /\ ~OpenMayFail =>
        /\ pc = "dispatch" /\ target = "response" => stored = 0
        /\ InBody /\ received = 0 => (target = "response" => stored = 0) /\ file = "none" /\ adding = "no"
        /\ (InBody \/ pc = "ended") /\ received > 0 => target # "unnamed" /\ Holding = received
        /\ InBody /\ received > 0 /\ target = "file" /\ file = "none" => adding = "open"
        /\ file = "open" => exists
        /\ starts = 1 => Counting = received

Files == FailedFile /\ CanceledFile /\ FileClosed /\ QuietBody /\ BodyStored

IInv == BaseInv /\ HttpTypes /\ Counted /\ Unfailed /\ AddsWhileReading /\ OutcomesInv /\ Files

\* The invariant holds at first.
LEMMA InitIInv == Init => IInv
<1> SUFFICES ASSUME Init PROVE IInv
  OBVIOUS
<1> USE DEF Init
<1>1. BaseInv
  BY BaseInitInv
<1>2. 1 \in 1 .. Addresses /\ 1 \in 1 .. MaxStarts /\ 0 \in 0 .. BodySize
  BY HttpRequestAssumption
<1>3. HttpTypes /\ Counted /\ Unfailed
  BY <1>2 DEF HttpTypes, Counted, Unfailed, Places, Damages, BaseInit
<1>4. /\ todo["worker"] = <<>> /\ adding = "no" /\ finished = 0 /\ failed = 0 /\ ~canceled
      /\ file = "none" /\ (exists => target = "file") /\ bytesRead = 0 /\ stale = error
  BY DEF BaseInit, Threads
<1>5. \A x : ~Pending(x)
  BY <1>4 DEF Pending, At
<1>6. AddsWhileReading /\ OutcomesInv
  BY <1>4, <1>5 DEF AddsWhileReading, OutcomesInv, ToldFinished, ToldFailed, SuccessIsSound, ErrorIsTold, EndIsTold, Owed
<1>7. Files
  BY <1>4 DEF Files, FailedFile, CanceledFile, FileClosed, QuietBody, BodyStored, InBody, Counting
<1> QED
  BY <1>1, <1>3, <1>6, <1>7 DEF IInv

-----------------------------------------------------------------------------
(* A turn preserves it. *)

\* What a turn does to the base: it keeps it, tells a status, fails, or adds data.
LEMMA TurnBase ==
  ASSUME BaseInv, left \in Nat, Turn
  PROVE  BaseInv'
<1> USE DEF Turn
<1>1. CASE Keep
  <2>1. stored' \in {0, stored} /\ (target = "file" => stored' = stored)
    BY <1>1 DEF GivesUp, TriesNext, GoesOn, Succeeds, Adds, ReadsReply, Leaves, Walks
  <2> QED
    BY <1>1, <2>1, KeepInv DEF Keep, told, BaseInv, BaseTypeOK
<1>2. ASSUME NEW s \in WorkerStatus, s # "Error", Tell(s), UNCHANGED stored PROVE BaseInv'
  BY <1>2, WorkerCallInv DEF Tell, output, intake, BaseInv, BaseTypeOK
<1>3. CASE Fail /\ UNCHANGED stored
  BY <1>3, WorkerCallInv DEF Fail, SetError, WorkerStatus, output, intake, BaseInv, BaseTypeOK
<1>4. ASSUME NEW n \in 1 .. left, AddResponseData(n), UNCHANGED stored PROVE BaseInv'
  BY <1>4, AddResponseDataInv DEF output
<1>5. CASE GivesUp \/ TriesNext
  BY <1>3, <1>5 DEF GivesUp, TriesNext
<1>6. CASE GoesOn \/ Succeeds
  BY <1>2, <1>6 DEF GoesOn, Succeeds, WorkerStatus
<1>7. CASE Adds
  BY <1>4, <1>7 DEF Adds
<1>8. CASE ReadsReply \/ Leaves \/ Walks
  BY <1>1, <1>8 DEF ReadsReply, Leaves, Walks
<1> QED
  BY <1>5, <1>6, <1>7, <1>8

\* What it does to its own variables.
LEMMA TurnCounts ==
  ASSUME HttpTypes, Counted, Turn
  PROVE  HttpTypes' /\ Counted'
<1> USE HttpRequestAssumption DEF HttpTypes, Counted, Places, Timed, Turn, Goto
<1>0. BodySize \in Nat /\ (damaged' # "lost" => damaged # "lost") /\ damaged' \in Damages /\ UNCHANGED <<silent, starts, stale>>
  OBVIOUS
<1>1. CASE GivesUp
  BY <1>1 DEF GivesUp
<1>2. CASE TriesNext
  BY <1>2 DEF TriesNext, HasNextAddress
<1>3. CASE GoesOn
  <2>1. ASSUME pc = "dispatch", pc' = "body", NEW n \in 1 .. BodySize, left' = n, announced' = n, UNCHANGED <<address, reply, received>>
        PROVE  HttpTypes' /\ Counted'
    <3>1. received' = 0
      BY <2>1
    <3>2. /\ left' \in Nat /\ announced' \in 0 .. BodySize /\ received' \in 0 .. BodySize
          /\ received' + left' = announced' /\ received' + left' <= BodySize
      BY <1>0, <2>1, <3>1
    <3> QED
      BY <2>1, <3>2
  <2>2. CASE UNCHANGED announced /\ left' \in Nat /\ pc' \in {"connect", "write", "headers"} /\ UNCHANGED <<address, reply, received>>
    BY <1>3, <2>2 DEF GoesOn
  <2> QED
    BY <1>3, <2>1, <2>2 DEF GoesOn
<1>4. CASE Succeeds
  BY <1>4 DEF Succeeds
<1>5. CASE Adds
  <2>1. PICK n \in 1 .. left : left' = left - n /\ received' = received + n
    BY <1>5 DEF Adds
  <2>2. pc \in {"body", "chunkBody"} /\ UNCHANGED <<pc, address, reply, announced>>
    BY <1>5 DEF Adds
  <2>3. /\ left' \in Nat /\ received' \in 0 .. BodySize /\ received' + left' <= BodySize
        /\ damaged # "lost" => received' + left' = announced'
    BY <1>0, <2>1, <2>2
  <2> QED
    BY <1>0, <2>2, <2>3
<1>6. CASE ReadsReply
  BY <1>6 DEF ReadsReply, AfterHeaders
<1>7. CASE Leaves
  BY <1>7 DEF Leaves
<1>8. CASE Walks
  <2>1. UNCHANGED <<address, reply, received>>
    BY <1>8 DEF Walks
  <2>2. ASSUME pc = "chunk", NEW n \in 0 .. BodySize - announced, NEW taken \in Nat, left' = taken, announced' = announced + n,
               pc' = (IF taken = 0 THEN "finish" ELSE "chunkBody"),
               \/ taken = n /\ damaged # "lost"
               \/ taken \in 0 .. BodySize - received /\ damaged' = "lost"
        PROVE  HttpTypes' /\ Counted'
    <3>1. damaged # "lost" => received = announced
      BY <2>2
    <3>2. left' \in Nat /\ announced' \in 0 .. BodySize /\ received' \in 0 .. BodySize /\ received' + left' <= BodySize
      BY <1>0, <2>1, <2>2, <3>1
    <3>3. pc' \in {"finish", "chunkBody"} /\ (pc' = "finish" => left' = 0)
      BY <2>2
    <3>4. damaged' # "lost" => received' + left' = announced'
      BY <1>0, <2>1, <2>2, <3>1
    <3>5. damaged' # "lost" /\ pc' = "finish" => received' = announced'
      <4> SUFFICES ASSUME damaged' # "lost", pc' = "finish" PROVE received' = announced'
        OBVIOUS
      <4>1. taken = 0 /\ n = 0 /\ damaged # "lost"
        BY <1>0, <2>2
      <4> QED
        BY <2>1, <2>2, <3>1, <4>1
    <3> QED
      BY <1>0, <2>1, <3>2, <3>3, <3>4, <3>5
  <2>3. CASE UNCHANGED announced
    BY <1>8, <2>1, <2>3 DEF Walks
  <2> QED
    BY <1>8, <2>2, <2>3 DEF Walks
<1> QED
  BY <1>1, <1>2, <1>3, <1>4, <1>5, <1>6, <1>7, <1>8

\* What it leaves to be told.
LEMMA TurnTells ==
  ASSUME BaseInv, Turn
  PROVE  /\ Keep => /\ ~Pending("Done")' /\ ~Pending("Error")' /\ todo'["worker"] = <<>>
                    /\ ~Ahead("worker", "remove")'
                    /\ UNCHANGED <<error, canceled, adding, piece>>
         /\ \A s \in WorkerStatus \ {"Error"} :
               Tell(s) => /\ Pending("Done")' <=> s = "Done"
                          /\ ~Pending("Error")' /\ todo'["worker"] # <<>>
                          /\ s = "Done" => Ahead("worker", "reset")'
                          /\ UNCHANGED <<error, canceled, adding, piece>>
         /\ SetError("worker") => /\ Pending("Error")' /\ ~Pending("Done")' /\ todo'["worker"] # <<>>
                                  /\ Ahead("worker", "reset")' /\ Ahead("worker", "remove")'
                                  /\ error' = TRUE /\ UNCHANGED canceled
         /\ Ahead("user", "remove")' <=> Ahead("user", "remove")
<1>1. ASSUME Keep
      PROVE  /\ ~Pending("Done")' /\ ~Pending("Error")' /\ todo'["worker"] = <<>> /\ ~Ahead("worker", "remove")'
             /\ UNCHANGED <<error, canceled, adding, piece>>
             /\ Ahead("user", "remove")' <=> Ahead("user", "remove")
  <2>1. UNCHANGED <<calls, error, canceled, adding, piece>>
    BY <1>1 DEF Keep, flags, intake
  <2>2. Returned
    BY DEF Turn
  <2> QED
    BY <2>1, <2>2, NothingLeftBehind, SameCalls DEF Returned
<1>2. ASSUME NEW s \in WorkerStatus \ {"Error"}, Tell(s)
      PROVE  /\ Pending("Done")' <=> s = "Done"
             /\ ~Pending("Error")' /\ todo'["worker"] # <<>>
             /\ s = "Done" => Ahead("worker", "reset")'
             /\ UNCHANGED <<error, canceled, adding, piece>>
             /\ Ahead("user", "remove")' <=> Ahead("user", "remove")
  <2>1. SetStatus("worker", s) /\ UNCHANGED <<error, adding, piece>>
    BY <1>2 DEF Tell, intake
  <2> QED
    BY <2>1, WorkerCallTells DEF flags
<1>3. ASSUME SetError("worker")
      PROVE  /\ Pending("Error")' /\ ~Pending("Done")' /\ todo'["worker"] # <<>>
             /\ Ahead("worker", "reset")' /\ Ahead("worker", "remove")'
             /\ error' = TRUE /\ UNCHANGED canceled
             /\ Ahead("user", "remove")' <=> Ahead("user", "remove")
  <2>1. SetStatus("worker", "Error") /\ error' = TRUE /\ "Error" \in WorkerStatus
    BY <1>3 DEF SetError, WorkerStatus
  <2> QED
    BY <2>1, WorkerCallTells DEF flags
<1>4. Ahead("user", "remove")' <=> Ahead("user", "remove")
  <2>1. CASE Keep
    BY <1>1, <2>1
  <2>2. CASE \E s \in WorkerStatus \ {"Error"} : Tell(s)
    BY <1>2, <2>2
  <2>3. CASE SetError("worker")
    BY <1>3, <2>3
  <2>4. CASE \E n : AddResponseData(n)
    BY <2>3, <2>4, SameCalls DEF AddResponseData
  <2> QED
    BY <2>1, <2>2, <2>3, <2>4
       DEF Turn, GivesUp, TriesNext, GoesOn, Succeeds, Adds, ReadsReply, Leaves, Walks, Fail, WorkerStatus
<1> QED
  BY <1>1, <1>2, <1>3, <1>4

\* What adding a piece does: it fails, or goes on.
LEMMA AddsTells ==
  ASSUME BaseInv, Turn, Adds
  PROVE  /\ ~Pending("Done")' /\ UNCHANGED canceled
         /\ \/ /\ error' = TRUE /\ Pending("Error")' /\ adding' = "no"
               /\ Ahead("worker", "reset")'
            \/ /\ UNCHANGED <<error, todo>> /\ ~Pending("Error")'
               /\ target # "unnamed"
               /\ adding' = (IF target = "file" THEN "open" ELSE "write")
<1>1. Returned /\ adding = "no" /\ \A x : ~Pending(x)
  BY NothingLeftBehind DEF Turn, Returned
<1>2. CASE SetError("worker") /\ UNCHANGED adding
  BY <1>1, <1>2, TurnTells
<1>3. CASE UNCHANGED <<calls, flags, error>> /\ target # "unnamed" /\ adding' = (IF target = "file" THEN "open" ELSE "write")
  BY <1>1, <1>3, SameCalls DEF flags
<1> QED
  BY <1>2, <1>3 DEF Adds, AddResponseData

\* The outcomes.
LEMMA TurnOutcomes ==
  ASSUME IInv, Turn
  PROVE  Unfailed' /\ AddsWhileReading' /\ OutcomesInv'
<1> USE DEF Goto
<1>1. /\ BaseInv /\ Returned /\ adding = "no" /\ todo["worker"] = <<>> /\ ~Pending("Done") /\ ~Pending("Error")
      /\ finished \in Nat /\ failed \in Nat /\ address \in Nat /\ UNCHANGED <<finished, failed, ops>>
      /\ error \in BOOLEAN /\ stale' = stale /\ (stale \/ failed > 0 <=> error)
      /\ damaged' # "lost" => damaged # "lost"
  <2>1. BaseInv /\ Returned /\ UNCHANGED <<finished, failed, ops, stale>> /\ (damaged' # "lost" => damaged # "lost")
    BY DEF IInv, Turn, told
  <2>2. finished \in Nat /\ failed \in Nat /\ address \in Nat /\ error \in BOOLEAN
    BY DEF IInv, BaseInv, BaseTypeOK, HttpTypes
  <2>3. adding = "no" /\ todo["worker"] = <<>> /\ ~Pending("Done") /\ ~Pending("Error")
    BY <2>1, NothingLeftBehind DEF Returned
  <2> QED
    BY <2>1, <2>2, <2>3 DEF IInv, OutcomesInv, ErrorIsTold
<1>2. /\ pc \notin {"ended", "finish"} => finished = 0
      /\ finished <= (IF pc = "finish" /\ reply = "length0" THEN 1 ELSE 0)
      /\ failed <= (IF error /\ pc \in {"body", "chunkBody"} THEN address ELSE address - 1)
  BY <1>1 DEF IInv, OutcomesInv, ToldFinished, ToldFailed, Owed, Turn
<1>3. CASE GivesUp \/ TriesNext
  <2>1. /\ Pending("Error")' /\ ~Pending("Done")' /\ error' = TRUE /\ adding' = "no"
        /\ finished = 0 /\ failed <= address - 1
    BY <1>1, <1>2, <1>3, TurnTells DEF GivesUp, TriesNext, Fail, intake, Turn
  <2>2. \/ pc' = "ended" /\ address' = address
        \/ pc' \in {"connect", "prepare"} /\ address' = address + 1
    BY <1>3 DEF GivesUp, TriesNext
  <2>3. Unfailed' /\ AddsWhileReading' /\ ToldFinished' /\ SuccessIsSound' /\ ErrorIsTold' /\ EndIsTold'
    BY <1>1, <2>1, <2>2 DEF Unfailed, AddsWhileReading, ToldFinished, Owed, SuccessIsSound, ErrorIsTold, EndIsTold
  <2>4. ToldFailed'
    BY <1>1, <2>1, <2>2 DEF ToldFailed, Owed
  <2> QED
    BY <2>3, <2>4 DEF OutcomesInv
<1>4. CASE GoesOn
  <2>1. /\ ~Pending("Done")' /\ ~Pending("Error")' /\ UNCHANGED <<error, adding, address>>
        /\ pc \in {"start", "prepare", "write", "dispatch"} /\ pc' \in {"connect", "write", "headers", "body"}
        /\ pc' = "body" => ~error
    BY <1>1, <1>4, TurnTells DEF GoesOn, WorkerStatus, IInv, Unfailed
  <2>2. Unfailed' /\ AddsWhileReading' /\ ToldFinished' /\ SuccessIsSound' /\ ErrorIsTold' /\ EndIsTold'
    BY <1>1, <1>2, <2>1 DEF Unfailed, AddsWhileReading, ToldFinished, Owed, SuccessIsSound, ErrorIsTold, EndIsTold
  <2>3. ToldFailed'
    BY <1>1, <1>2, <2>1 DEF ToldFailed, Owed
  <2> QED
    BY <2>2, <2>3 DEF OutcomesInv
<1>5. CASE Succeeds
  <2>1. /\ Pending("Done")' /\ ~Pending("Error")' /\ UNCHANGED <<error, adding, address, reply, received, announced>>
        /\ ~error /\ (damaged # "lost" => received = announced)
    BY <1>1, <1>5, TurnTells DEF Succeeds, WorkerStatus, IInv, Unfailed, Counted
  <2>2. Unfailed' /\ AddsWhileReading' /\ SuccessIsSound' /\ ErrorIsTold' /\ EndIsTold'
    BY <1>1, <2>1 DEF Unfailed, AddsWhileReading, SuccessIsSound, ErrorIsTold, EndIsTold
  <2>3. ToldFinished'
    BY <1>1, <1>2, <1>5, <2>1 DEF ToldFinished, Owed, Succeeds
  <2>4. ToldFailed'
    BY <1>1, <1>2, <2>1 DEF ToldFailed, Owed
  <2> QED
    BY <2>2, <2>3, <2>4 DEF OutcomesInv
<1>6. CASE Adds
  <2>1. /\ pc \in {"body", "chunkBody"} /\ ~error /\ UNCHANGED <<pc, address, reply>>
        /\ finished = 0 /\ failed <= address - 1
    BY <1>1, <1>2, <1>6 DEF Adds
  <2>2. /\ ~Pending("Done")'
        /\ \/ error' = TRUE /\ Pending("Error")' /\ adding' = "no"
           \/ UNCHANGED error /\ ~Pending("Error")'
    BY <1>1, <1>6, AddsTells
  <2>3. Unfailed' /\ AddsWhileReading' /\ ToldFinished' /\ SuccessIsSound' /\ ErrorIsTold' /\ EndIsTold'
    BY <1>1, <2>1, <2>2 DEF Unfailed, AddsWhileReading, ToldFinished, Owed, SuccessIsSound, ErrorIsTold, EndIsTold
  <2>4. ToldFailed'
    BY <1>1, <2>1, <2>2 DEF ToldFailed, Owed
  <2> QED
    BY <2>3, <2>4 DEF OutcomesInv
<1>7. CASE ReadsReply \/ Leaves \/ Walks
  <2>1. /\ ~Pending("Done")' /\ ~Pending("Error")' /\ UNCHANGED <<error, adding, address>>
    BY <1>1, <1>7, TurnTells DEF ReadsReply, Leaves, Walks
  <2>2. /\ pc' = "ended" => error \/ ops # 0
        /\ error => pc' \notin {"dispatch", "chunk", "crlf", "finish"}
    <3>1. CASE ReadsReply
      BY <3>1 DEF ReadsReply, AfterHeaders
    <3>2. CASE Leaves
      BY <1>1, <3>2 DEF Leaves, Interrupted, BaseInv, Callers
    <3>3. CASE Walks
      BY <3>3 DEF Walks, IInv, Unfailed, Turn
    <3> QED
      BY <1>7, <3>1, <3>2, <3>3
  <2>3. Unfailed' /\ AddsWhileReading' /\ ErrorIsTold' /\ EndIsTold'
    BY <1>1, <2>1, <2>2 DEF Unfailed, AddsWhileReading, ErrorIsTold, EndIsTold
  <2>4. pc = "finish" => pc' = "finish" /\ UNCHANGED <<reply, received, announced>>
    BY <1>7 DEF ReadsReply, Leaves, Walks
  <2>5. ToldFinished'
    BY <1>1, <1>2, <2>1, <2>4 DEF ToldFinished, Owed, Turn
  <2>6. SuccessIsSound'
    <3> SUFFICES ASSUME finished > 0 PROVE ~error /\ (damaged # "lost" => received' = announced')
      BY <1>1, <2>1 DEF SuccessIsSound
    <3>1. pc = "finish"
      BY <1>1, <1>2 DEF Turn
    <3> QED
      BY <2>4, <3>1 DEF IInv, Unfailed, Counted
  <2>7. ToldFailed'
    <3>1. error /\ pc \in {"body", "chunkBody"} => pc' \in {pc, "ended"}
      BY <1>7 DEF ReadsReply, Leaves, Walks
    <3> QED
      BY <1>1, <1>2, <2>1, <3>1 DEF ToldFailed, Owed
  <2> QED
    BY <2>3, <2>5, <2>6, <2>7 DEF OutcomesInv
<1> QED
  BY <1>3, <1>4, <1>5, <1>6, <1>7 DEF Turn

\* The file and what is stored.
LEMMA TurnFiles ==
  ASSUME IInv, Turn
  PROVE  Files'
<1> USE DEF Goto
<1>1. /\ BaseInv /\ Returned /\ adding = "no" /\ todo["worker"] = <<>>
      /\ \A x : ~Ahead("worker", x)
      /\ UNCHANGED <<target, file, exists, bytesRead, finished, failed, ops, starts>> /\ pc \notin {"ended", "threw"}
  BY NothingLeftBehind DEF IInv, Turn, Returned, told
<1>2. /\ Ahead("user", "remove")' <=> Ahead("user", "remove")
      /\ UNCHANGED canceled /\ error \in BOOLEAN /\ (error => error')
      /\ ~Adds => UNCHANGED <<adding, piece>> /\ (target = "file" => stored' = stored)
  <2>1. CASE Adds
    BY <1>1, <2>1, TurnTells, AddsTells DEF Adds, BaseInv, BaseTypeOK
  <2>2. CASE GivesUp \/ TriesNext
    BY <1>1, <2>2, TurnTells DEF GivesUp, TriesNext, Fail, intake, BaseInv, BaseTypeOK
  <2>3. CASE GoesOn \/ Succeeds
    BY <1>1, <2>3, TurnTells DEF GoesOn, Succeeds, WorkerStatus, BaseInv, BaseTypeOK
  <2>4. CASE ReadsReply \/ Leaves \/ Walks
    BY <1>1, <2>4, TurnTells DEF ReadsReply, Leaves, Walks, BaseInv, BaseTypeOK
  <2> QED
    BY <2>1, <2>2, <2>3, <2>4 DEF Turn
<1>3. FailedFile'
  BY <1>1, <1>2 DEF IInv, Files, FailedFile
<1>4. CanceledFile'
  <2>1. CASE Adds
    BY <1>2, <2>1 DEF Adds, CanceledFile
  <2>2. CASE ~Adds
    BY <1>1, <1>2, <2>2 DEF IInv, Files, CanceledFile, OnePiece
  <2> QED
    BY <2>1, <2>2
<1>5. ops = 0 /\ ((~InBody /\ pc # "threw") \/ error) => file = "none"
  BY <1>1 DEF IInv, Files, FileClosed
<1>6. FileClosed' /\ QuietBody'
  <2>1. CASE GivesUp \/ TriesNext
    BY <1>1, <2>1, TurnTells DEF GivesUp, TriesNext, Fail, FileClosed, QuietBody
  <2>2. CASE GoesOn
    <3>1. UNCHANGED <<error, received>> /\ ~InBody /\ (pc' = "body" => ~error /\ received = 0)
      BY <1>1, <2>2, TurnTells DEF GoesOn, WorkerStatus, InBody, IInv, Unfailed, Counted
    <3>2. InBody' => pc' = "body"
      BY <2>2 DEF GoesOn, InBody
    <3> QED
      BY <1>1, <1>5, <3>1, <3>2 DEF FileClosed, QuietBody
  <2>3. CASE Succeeds
    <3>1. Ahead("worker", "reset")' /\ (InBody' => received' = 0)
      BY <1>1, <2>3, TurnTells DEF Succeeds, WorkerStatus, InBody, IInv, Counted
    <3> QED
      BY <3>1 DEF FileClosed, QuietBody
  <2>4. CASE Adds
    <3>1. InBody' /\ ~error
      BY <2>4 DEF Adds, InBody
    <3>2. (error' = TRUE /\ Ahead("worker", "reset")') \/ (error' = error /\ todo'["worker"] = <<>>)
      BY <1>1, <2>4, AddsTells
    <3> QED
      BY <3>1, <3>2 DEF FileClosed, QuietBody
  <2>5. CASE ReadsReply \/ Leaves \/ Walks
    <3>1. UNCHANGED error /\ todo'["worker"] = <<>>
      BY <1>1, <2>5, TurnTells DEF ReadsReply, Leaves, Walks
    <3>2. ops = 0 /\ ~InBody' /\ pc' # "threw" => ~InBody \/ error
      <4>1. CASE ReadsReply
        BY <4>1 DEF ReadsReply, InBody
      <4>2. CASE Leaves
        BY <1>1, <4>2 DEF Leaves, Interrupted, BaseInv, Callers
      <4>3. CASE Walks
        BY <4>3 DEF Walks, InBody
      <4> QED
        BY <2>5, <4>1, <4>2, <4>3
    <3> QED
      BY <1>1, <1>5, <3>1, <3>2 DEF FileClosed, QuietBody
  <2> QED
    BY <2>1, <2>2, <2>3, <2>4, <2>5 DEF Turn
<1>7. BodyStored'
  <2> SUFFICES ASSUME ops' = 0, ~error', ~OpenMayFail PROVE BodyStored'
    BY DEF BodyStored
  <2>0. ops = 0 /\ ~error
    BY <1>1, <1>2
  <2>1. /\ ops = 0 /\ ~error
        /\ pc = "dispatch" /\ target = "response" => stored = 0
        /\ InBody /\ received = 0 => (target = "response" => stored = 0) /\ file = "none"
        /\ InBody /\ received > 0 => target # "unnamed" /\ stored = received
        /\ InBody /\ received > 0 /\ target = "file" => file # "none"
        /\ file = "open" => exists
        /\ starts = 1 => bytesRead = received
        /\ ~InBody => file = "none"
    <3>1. BodyStored /\ Holding = stored /\ Counting = bytesRead + 0 /\ bytesRead \in Nat
      BY <1>1 DEF IInv, Files, Holding, Counting, BaseInv, BaseTypeOK
    <3>2. ~InBody => file = "none"
      BY <1>1, <1>5, <2>0
    <3> QED
      BY <1>1, <2>0, <3>1, <3>2 DEF BodyStored
  <2>2. CASE GivesUp \/ TriesNext
    BY <1>1, <2>2, TurnTells DEF GivesUp, TriesNext, Fail
  <2>3. CASE GoesOn \/ Succeeds \/ Walks
    <3>1. UNCHANGED <<stored, received>> /\ adding' = "no"
      BY <1>1, <1>2, <2>3 DEF GoesOn, Succeeds, Walks, Adds
    <3>2. /\ pc' = "dispatch" => pc = "dispatch"
          /\ InBody' => InBody \/ pc = "dispatch"
          /\ pc' = "ended" => InBody \/ pc = "dispatch"
          /\ pc = "dispatch" => received = 0
      BY <1>1, <2>3 DEF GoesOn, Succeeds, Walks, InBody, IInv, Counted
    <3>3. /\ InBody' /\ received' = 0 => (target' = "response" => stored' = 0) /\ file' = "none"
          /\ (InBody' \/ pc' = "ended") /\ received' > 0 => target' # "unnamed" /\ stored' = received'
          /\ InBody' /\ received' > 0 /\ target' = "file" => file' # "none"
      BY <1>1, <2>1, <3>1, <3>2 DEF InBody
    <3>4. Holding' = stored' /\ Counting' = bytesRead + 0 /\ bytesRead \in Nat
      BY <1>1, <3>1 DEF Holding, Counting, BaseInv, BaseTypeOK
    <3> QED
      BY <1>1, <2>1, <3>1, <3>2, <3>3, <3>4 DEF BodyStored
  <2>4. CASE Adds
    <3>1. PICK n \in 1 .. left : AddResponseData(n) /\ received' = received + n
      BY <2>4 DEF Adds
    <3>2. /\ InBody /\ InBody' /\ pc' # "dispatch" /\ UNCHANGED stored /\ piece' = n
          /\ target # "unnamed" /\ adding' = (IF target = "file" THEN "open" ELSE "write")
          /\ file \in {"none", "open"} /\ (target # "file" => file = "none")
      BY <1>1, <2>4, <3>1, AddsTells, RequestBaseAssumption
         DEF Adds, InBody, AddResponseData, BaseInv, FileSound
    <3>3. n \in Nat \ {0} /\ stored \in Nat /\ received \in Nat /\ bytesRead \in Nat /\ target \in {"response", "file", "unnamed"}
      BY RequestBaseAssumption DEF IInv, HttpTypes, BaseInv, BaseTypeOK
    <3>4. received' > 0
      BY <3>1, <3>3
    <3>5. Holding' = received'
      BY <1>1, <2>1, <3>1, <3>2, <3>3 DEF Holding
    <3>6. starts' = 1 => Counting' = received'
      BY <1>1, <2>1, <3>1, <3>2, <3>3 DEF Counting
    <3> QED
      BY <1>1, <2>1, <3>2, <3>4, <3>5, <3>6 DEF BodyStored
  <2>5. CASE ReadsReply
    <3>1. /\ adding' = "no" /\ received' = 0 /\ ~InBody' /\ (target = "response" => stored' = 0) /\ received = 0
      BY <1>1, <1>2, <2>5 DEF ReadsReply, AfterHeaders, InBody, Adds, IInv, Counted
    <3> QED
      BY <1>1, <2>1, <3>1 DEF BodyStored, Counting
  <2>6. CASE Leaves
    BY <1>1, <2>1, <2>6 DEF Leaves, Interrupted, BaseInv, Callers
  <2> QED
    BY <2>2, <2>3, <2>4, <2>5, <2>6 DEF Turn
<1> QED
  BY <1>3, <1>4, <1>6, <1>7 DEF Files

-----------------------------------------------------------------------------
(* The steps of calls, the user and the rest of the world preserve it.      *)

\* A step of addResponseData, which goes on or fails.
LEMMA AddStepIInv ==
  ASSUME IInv, AddStep, UNCHANGED httpVars
  PROVE  IInv'
<1> USE DEF httpVars
<1>1. /\ BaseInv /\ adding # "no" /\ todo["worker"] = <<>>
      /\ UNCHANGED <<target, finished, failed, piece, ops>>
      /\ OnePiece => OnePiece'
      /\ \/ UNCHANGED <<calls, flags, error>>
         \/ SetError("worker") /\ adding' = "no" /\ UNCHANGED <<output, fault>>
  BY AddStepTells DEF IInv, told
<1>2. /\ ~error /\ pc \in {"body", "chunkBody"} /\ ~Pending("Done") /\ ~Pending("Error")
      /\ finished \in Nat /\ failed \in Nat /\ address \in Nat
  BY <1>1 DEF IInv, AddsWhileReading, Pending, At, BaseInv, BaseTypeOK, HttpTypes
<1>3. finished = 0 /\ failed <= address - 1 /\ failed = 0 /\ ~stale
  BY <1>2 DEF IInv, OutcomesInv, ToldFinished, ToldFailed, ErrorIsTold, Owed, Files, FailedFile
<1>4. BaseInv' /\ HttpTypes' /\ Counted'
  BY AddStepInv DEF IInv, HttpTypes, Counted
<1>5. CASE UNCHANGED <<calls, flags, error>>
  <2>1. /\ ~Pending("Done")' /\ ~Pending("Error")' /\ todo'["worker"] = <<>> /\ ~error'
        /\ Ahead("user", "remove")' <=> Ahead("user", "remove")
    BY <1>1, <1>2, <1>5, SameCalls
  <2>2. Unfailed' /\ AddsWhileReading' /\ OutcomesInv'
    BY <1>1, <1>2, <1>3, <2>1
       DEF Unfailed, AddsWhileReading, OutcomesInv, ToldFinished, ToldFailed, SuccessIsSound, ErrorIsTold, EndIsTold, Owed
  <2>3. FailedFile' /\ CanceledFile' /\ FileClosed' /\ QuietBody'
    BY <1>1, <1>2, <1>3, <1>5, <2>1 DEF IInv, Files, FailedFile, CanceledFile, FileClosed, QuietBody, InBody, flags
  <2>4. BodyStored'
    <3> SUFFICES ASSUME ops' = 0, ~OpenMayFail PROVE BodyStored'
      BY DEF BodyStored
    <3>1. /\ received > 0 /\ target # "unnamed" /\ Holding = received
          /\ target = "file" /\ file = "none" => adding = "open"
          /\ file = "open" => exists
          /\ starts = 1 => Counting = received
      BY <1>1, <1>2 DEF IInv, Files, BodyStored, InBody, HttpTypes
    <3>2. /\ Holding' = Holding /\ Counting' = Counting /\ (file' = "open" => exists')
          /\ target = "file" => file' # "none"
      BY <1>1, <3>1, AddStepHolds
    <3> QED
      BY <1>1, <1>2, <3>1, <3>2 DEF BodyStored, InBody
  <2> QED
    BY <1>4, <2>2, <2>3, <2>4 DEF IInv, Files
<1>6. CASE SetError("worker") /\ adding' = "no" /\ UNCHANGED <<output, fault>>
  <2>1. /\ ~Pending("Done")' /\ Pending("Error")' /\ error' = TRUE /\ UNCHANGED canceled
        /\ Ahead("worker", "reset")'
        /\ Ahead("user", "remove")' <=> Ahead("user", "remove")
    BY <1>1, <1>6, WorkerCallTells DEF SetError, WorkerStatus, flags
  <2>2. Unfailed' /\ AddsWhileReading' /\ OutcomesInv'
    BY <1>1, <1>2, <1>3, <1>6, <2>1
       DEF Unfailed, AddsWhileReading, OutcomesInv, ToldFinished, ToldFailed, SuccessIsSound, ErrorIsTold, EndIsTold, Owed
  <2>3. Files'
    BY <1>1, <1>3, <2>1 DEF IInv, Files, FailedFile, CanceledFile, FileClosed, QuietBody, BodyStored
  <2> QED
    BY <1>4, <2>2, <2>3 DEF IInv
<1> QED
  BY <1>1, <1>5, <1>6

\* A step of the worker's setStatus, which tells what was pending.
LEMMA WorkerStepIInv ==
  ASSUME IInv, SetStatusStep("worker"), UNCHANGED httpVars
  PROVE  IInv'
<1> USE DEF httpVars
<1>1. BaseInv /\ BaseInv' /\ HttpTypes' /\ Counted'
  BY SetStatusStepInv DEF IInv, HttpTypes, Counted, Threads
<1>2. /\ todo["worker"] # <<>> /\ ~Pending("Done")' /\ ~Pending("Error")'
      /\ finished' = IF Pending("Done") THEN finished + 1 ELSE finished
      /\ failed' = IF Pending("Error") THEN failed + 1 ELSE failed
      /\ Pending("Error") => Ahead("worker", "remove")'
      /\ Ahead("worker", "reset") => Ahead("worker", "reset")' \/ file' = "none"
      /\ Ahead("worker", "remove") => Ahead("worker", "remove")' \/ ~exists'
      /\ file' \in {file, "none"} /\ (exists' => exists) /\ stored' \in {0, stored}
      /\ ~error => UNCHANGED <<exists, stored>>
      /\ UNCHANGED <<flags, error, target, bytesRead, adding, piece, ops>>
      /\ Ahead("user", "remove")' <=> Ahead("user", "remove")
  BY <1>1, WorkerStepTells DEF intake
<1>3. /\ finished \in Nat /\ failed \in Nat /\ address \in Nat /\ stored \in Nat /\ piece \in Nat
      /\ adding = "no" /\ (Pending("Error") => error)
  BY <1>1, <1>2 DEF BaseInv, BaseTypeOK, BaseSafe, Callers, Pending, IInv, HttpTypes
<1>4. Unfailed' /\ AddsWhileReading'
  BY <1>2 DEF IInv, Unfailed, AddsWhileReading
<1>5. ToldFinished' /\ ToldFailed'
  BY <1>2, <1>3 DEF IInv, OutcomesInv, ToldFinished, ToldFailed, Owed
<1>6. SuccessIsSound' /\ ErrorIsTold' /\ EndIsTold'
  BY <1>2, <1>3 DEF IInv, OutcomesInv, SuccessIsSound, ErrorIsTold, EndIsTold
<1>7. FailedFile'
  BY <1>2, <1>3 DEF IInv, Files, FailedFile
<1>8. CanceledFile'
  BY <1>2, <1>3 DEF IInv, Files, CanceledFile, OnePiece, flags
<1>9. FileClosed' /\ QuietBody'
  BY <1>2 DEF IInv, Files, FileClosed, QuietBody, InBody
<1>10. BodyStored'
  <2> SUFFICES ASSUME ops' = 0, ~error', ~OpenMayFail PROVE BodyStored'
    BY DEF BodyStored
  <2>1. BodyStored /\ ops = 0 /\ ~error /\ UNCHANGED <<exists, stored, adding, piece, bytesRead, target>>
    BY <1>2 DEF IInv, Files
  <2>2. Holding = stored /\ Holding' = stored /\ Counting' = Counting
    BY <1>3, <2>1 DEF Holding, Counting
  <2>3. InBody => received = 0
    BY <1>2, <2>1 DEF IInv, Files, QuietBody
  <2> QED
    BY <1>2, <1>3, <2>1, <2>2, <2>3 DEF BodyStored, InBody
<1> QED
  BY <1>1, <1>4, <1>5, <1>6, <1>7, <1>8, <1>9, <1>10 DEF IInv, OutcomesInv, Files

\* The calls of the user, which tell no outcome.
LEMMA UserIInv ==
  ASSUME IInv, UserActs, UNCHANGED httpVars
  PROVE  IInv'
<1> USE DEF httpVars
<1>1. BaseInv /\ BaseInv' /\ HttpTypes' /\ Counted'
  BY UserActsInv DEF IInv, HttpTypes, Counted
<1>2. /\ ops' # 0 /\ UNCHANGED <<finished, failed, error, target, adding, piece>>
      /\ \A x : (Pending(x)' <=> Pending(x)) /\ (Ahead("worker", x)' <=> Ahead("worker", x))
      /\ todo'["worker"] = todo["worker"]
      /\ (exists' => exists) /\ stored' \in {0, stored}
      /\ canceled' => \/ canceled /\ (Ahead("user", "remove") => Ahead("user", "remove")' \/ ~exists')
                      \/ Ahead("user", "remove")'
  <2>1. CASE SetStatusStep("user")
    BY <1>1, <2>1, UserStepTells DEF told, intake, flags
  <2>2. ASSUME NEW s \in {"Canceled", "Paused", "Resumed"}, UserCall(s)
        PROVE  /\ ops' # 0 /\ UNCHANGED <<error, output, told, intake>>
               /\ todo'["worker"] = todo["worker"]
               /\ \A x : (Pending(x)' <=> Pending(x)) /\ (Ahead("worker", x)' <=> Ahead("worker", x))
               /\ \A x : ~Ahead("user", x)
               /\ canceled' => canceled \/ Ahead("user", "remove")'
    BY <1>1, <2>2, UserCallTells
  <2> QED
    BY <2>1, <2>2 DEF UserActs, Cancel, PauseProcessing, ContinueProcessing, output, told, intake
<1>3. Unfailed' /\ AddsWhileReading' /\ ToldFinished' /\ ToldFailed' /\ SuccessIsSound' /\ ErrorIsTold' /\ EndIsTold'
  BY <1>2 DEF IInv, OutcomesInv, Unfailed, AddsWhileReading, ToldFinished, ToldFailed, SuccessIsSound, ErrorIsTold, EndIsTold, Owed
<1>4. FailedFile' /\ FileClosed' /\ QuietBody' /\ BodyStored'
  BY <1>2 DEF IInv, Files, FailedFile, FileClosed, QuietBody, InBody, BodyStored
<1>5. CanceledFile'
  <2> SUFFICES ASSUME canceled', target' = "file", ~Ahead("user", "remove")' PROVE OnePiece'
    BY DEF CanceledFile
  <2>1. canceled /\ target = "file" /\ (OnePiece \/ ~exists')
    BY <1>2 DEF IInv, Files, CanceledFile
  <2>2. stored' \in {0, stored} /\ (~exists' => stored' = 0) /\ piece \in Nat
    BY <1>1, <1>2 DEF BaseInv, BaseTypeOK, FileSound
  <2> QED
    BY <1>2, <2>1, <2>2 DEF OnePiece
<1> QED
  BY <1>1, <1>3, <1>4, <1>5 DEF IInv, OutcomesInv, Files

\* Giving the request to the handler once more begins to count anew.
LEMMA ProcessAgainIInv ==
  ASSUME IInv, ProcessAgain
  PROVE  IInv'
<1> USE DEF ProcessAgain, Goto
<1>1. BaseInv'
  BY KeepInv DEF IInv, BaseInv, BaseTypeOK, output
<1>2. /\ BaseInv /\ UNCHANGED <<flags, error, target, file, exists, stored, bytesRead, calls, adding, piece, ops>>
      /\ pc = "ended" /\ adding = "no" /\ finished' = 0 /\ failed' = 0
      /\ pc' = "start" /\ address' = 1 /\ received' = 0 /\ announced' = 0 /\ starts' = starts + 1
      /\ stale' = error /\ error \in BOOLEAN
      /\ ~Pending("Done")' /\ ~Pending("Error")'
      /\ \A x : Ahead("worker", x)' <=> Ahead("worker", x)
      /\ Ahead("user", "remove")' <=> Ahead("user", "remove")
  BY NothingLeftBehind, SameCalls DEF IInv, Returned, output, intake, BaseInv, BaseTypeOK
<1>3. starts' \in 1 .. MaxStarts /\ starts \in Nat \ {0} /\ address' \in 1 .. Addresses /\ 0 \in 0 .. BodySize
  BY HttpRequestAssumption DEF IInv, HttpTypes
<1>4. HttpTypes' /\ Counted'
  BY <1>2, <1>3 DEF IInv, HttpTypes, Counted, Places, Damages
<1>5. Unfailed' /\ AddsWhileReading' /\ OutcomesInv'
  BY <1>2 DEF Unfailed, AddsWhileReading, OutcomesInv, ToldFinished, ToldFailed, SuccessIsSound, ErrorIsTold, EndIsTold, Owed
<1>6. FailedFile' /\ QuietBody'
  BY <1>2 DEF FailedFile, QuietBody, InBody
<1>7. CanceledFile' /\ FileClosed'
  BY <1>2 DEF IInv, Files, CanceledFile, FileClosed, OnePiece, flags, InBody
<1>8. BodyStored'
  BY <1>2, <1>3 DEF IInv, Files, BodyStored, InBody
<1> QED
  BY <1>1, <1>4, <1>5, <1>6, <1>7, <1>8 DEF IInv, Files

\* Time passes, or the peer falls silent.
TimePasses ==
    /\ UNCHANGED <<baseVars, pc, address, left, reply, damaged, starts, stale, announced, received>>
    /\ late' \in BOOLEAN /\ silent' \in BOOLEAN

LEMMA TimePassesIInv ==
  ASSUME IInv, TimePasses
  PROVE  IInv'
<1> USE DEF TimePasses
<1>1. BaseInv'
  BY KeepInv DEF IInv, BaseInv, BaseTypeOK, baseVars, output, told
<1>2. HttpTypes' /\ Counted'
  BY DEF IInv, HttpTypes, Counted
<1>3. /\ UNCHANGED <<flags, error, target, file, exists, stored, bytesRead, finished, failed, calls, todo, adding, piece, ops>>
      /\ \A x : (Pending(x)' <=> Pending(x)) /\ \A t : Ahead(t, x)' <=> Ahead(t, x)
  BY SameCalls DEF baseVars, output, told, intake, calls
<1>4. Unfailed' /\ AddsWhileReading' /\ OutcomesInv'
  BY <1>3 DEF IInv, OutcomesInv, Unfailed, AddsWhileReading, ToldFinished, ToldFailed, SuccessIsSound, ErrorIsTold, EndIsTold, Owed
<1>5. FailedFile' /\ CanceledFile' /\ FileClosed' /\ QuietBody'
  BY <1>3 DEF IInv, Files, FailedFile, CanceledFile, FileClosed, QuietBody, InBody, OnePiece, flags
<1>6. BodyStored'
  BY <1>3 DEF IInv, Files, BodyStored, InBody, Holding, Counting
<1> QED
  BY <1>1, <1>2, <1>4, <1>5, <1>6 DEF IInv, Files

\* Whatever happens to a request, by the coroutine's turns or by others like them.
Moves ==
    \/ Turn
    \/ (AddStep \/ SetStatusStep("worker") \/ UserActs) /\ UNCHANGED httpVars
    \/ ProcessAgain
    \/ TimePasses

LEMMA MovesIInv ==
  ASSUME IInv, Moves
  PROVE  IInv'
<1>1. CASE Turn
  <2>1. BaseInv' /\ HttpTypes' /\ Counted'
    BY <1>1, TurnBase, TurnCounts DEF IInv, HttpTypes
  <2> QED
    BY <1>1, <2>1, TurnOutcomes, TurnFiles DEF IInv
<1> QED
  BY <1>1, AddStepIInv, WorkerStepIInv, UserIInv, ProcessAgainIInv, TimePassesIInv DEF Moves

-----------------------------------------------------------------------------
(* What the invariant says of the properties that the runs check.           *)

LEMMA IInvSafety ==
  ASSUME IInv
  PROVE  /\ TypeOK /\ CrashNeedsUser /\ OutcomeToldOnce /\ FailedLeavesNoFile /\ CancelLeavesOnePiece
         /\ ~OpenMayFail => FinishedHoldsBody
<1>1. TypeOK /\ CrashNeedsUser
  BY DEF IInv, BaseInv, HttpTypes, TypeOK, BaseSafe, CrashNeedsUser, Quiet
<1>2. OutcomeToldOnce
  <2>1. finished \in Nat /\ failed \in Nat /\ address \in 1 .. Addresses /\ Addresses \in Nat
    BY HttpRequestAssumption DEF IInv, BaseInv, BaseTypeOK, HttpTypes
  <2> QED
    BY <2>1 DEF IInv, OutcomesInv, ToldFinished, ToldFailed, Owed, OutcomeToldOnce
<1>3. ASSUME Ended PROVE adding = "no" /\ \A x : ~Pending(x) /\ ~Ahead("worker", x)
  BY <1>3, NothingLeftBehind DEF Ended, Returned
<1>4. FailedLeavesNoFile
  BY <1>3 DEF IInv, Files, FailedFile, FailedLeavesNoFile
<1>5. CancelLeavesOnePiece
  BY <1>3 DEF IInv, BaseInv, FileSound, Files, CanceledFile, OnePiece, Ahead, CancelLeavesOnePiece
<1>6. ASSUME ~OpenMayFail PROVE FinishedHoldsBody
  <2> SUFFICES ASSUME Ended, Quiet, finished > 0
               PROVE  /\ damaged # "lost" => received = announced
                      /\ received > 0 => stored = received
                      /\ starts = 1 => bytesRead = received
    BY DEF FinishedHoldsBody
  <2>1. ~error /\ (damaged # "lost" => received = announced)
    BY DEF IInv, OutcomesInv, SuccessIsSound
  <2>2. pc = "ended" /\ ops = 0 /\ Holding = stored /\ Counting = bytesRead + 0 /\ bytesRead \in Nat
    BY <1>3 DEF Ended, Quiet, Holding, Counting, IInv, BaseInv, BaseTypeOK
  <2> QED
    BY <1>6, <2>1, <2>2 DEF IInv, Files, BodyStored
<1> QED
  BY <1>1, <1>2, <1>4, <1>5, <1>6

-----------------------------------------------------------------------------
(* What the invariant says of steps.                                        *)

\* Only a setStatus(Done) of the worker tells a success, and no error came between.
LEMMA MovesNeverFinishFailed ==
  ASSUME IInv, Moves, error
  PROVE  finished' <= finished
<1>1. finished \in Nat /\ ~Pending("Done") /\ BaseInv
  BY DEF IInv, BaseInv, BaseTypeOK, OutcomesInv, SuccessIsSound
<1>2. CASE UNCHANGED finished
  BY <1>1, <1>2
<1>3. CASE AddStep
  BY <1>1, <1>3, AddStepTells DEF told
<1>4. CASE SetStatusStep("worker")
  BY <1>1, <1>4, WorkerStepTells
<1>5. CASE UserActs
  <2>1. UNCHANGED told
    BY <1>1, <1>5, UserStepTells, UserCallTells DEF UserActs, Cancel, PauseProcessing, ContinueProcessing
  <2> QED
    BY <1>2, <2>1 DEF told
<1>6. CASE ProcessAgain
  BY <1>1, <1>6 DEF ProcessAgain
<1>7. CASE Turn \/ TimePasses
  BY <1>2, <1>7 DEF Turn, TimePasses, baseVars, told
<1> QED
  BY <1>3, <1>4, <1>5, <1>6, <1>7 DEF Moves

\* Every step of the request is one of its promise, or changes nothing that the
\* promise speaks of.
LEMMA MovesKeepPromise ==
  ASSUME IInv, IInv', Moves, Alive
  PROVE  [Promise!Next]_(Promise!promise)
<1> USE DEF Promise!promise, Promise!Next, Alive
<1>1. /\ BaseInv /\ fault = "none" /\ pc # "threw"
      /\ finished \in Nat /\ failed \in Nat /\ ops \in Nat /\ error \in BOOLEAN /\ stale \in BOOLEAN
      /\ finished > 0 \/ Pending("Done") => ~error /\ ~stale /\ failed = 0
      /\ Pending("Error") => error
  <2>1. /\ BaseInv /\ fault = "none" /\ pc # "threw"
        /\ finished \in Nat /\ failed \in Nat /\ ops \in Nat /\ error \in BOOLEAN /\ stale \in BOOLEAN
    BY DEF IInv, BaseInv, BaseTypeOK, HttpTypes
  <2>2. finished > 0 \/ Pending("Done") => ~error
    BY DEF IInv, OutcomesInv, SuccessIsSound
  <2>3. stale \/ failed > 0 => error
    BY DEF IInv, OutcomesInv, ErrorIsTold
  <2>4. Pending("Error") => error
    BY <2>1 DEF BaseInv, Callers, Pending
  <2> QED
    BY <2>1, <2>2, <2>3, <2>4
\* Where nothing is told and the user does not call, the program dies, the
\* processing ends, or nothing is seen.
<1>2. ASSUME UNCHANGED <<finished, failed, stale, ops>>, pc = "ended" /\ Returned => pc' = "ended" /\ Returned'
      PROVE  [Promise!Next]_(Promise!promise)
  <2>1. CASE fault' # "none" \/ pc' = "threw"
    BY <1>1, <1>2, <2>1 DEF Promise!Die
  <2>2. CASE fault' = "none" /\ pc' = "ended" /\ Returned' /\ ~(pc = "ended" /\ Returned)
    <3>1. ops' # 0 \/ stale' \/ failed' > 0 \/ finished' > 0
      BY <2>2 DEF IInv, OutcomesInv, EndIsTold, ErrorIsTold, Pending, At, Returned
    <3> QED
      BY <1>1, <1>2, <2>2, <3>1 DEF Promise!End
  <2> QED
    BY <1>1, <1>2, <2>1, <2>2
<1>3. CASE Turn
  BY <1>2, <1>3 DEF Turn, told
<1>4. CASE AddStep /\ UNCHANGED httpVars
  BY <1>1, <1>2, <1>4, AddStepTells DEF told, httpVars, Returned
<1>5. CASE SetStatusStep("worker") /\ UNCHANGED httpVars
  <2>1. /\ ~Returned /\ UNCHANGED <<stale, ops, pc>>
        /\ finished' = IF Pending("Done") THEN finished + 1 ELSE finished
        /\ failed' = IF Pending("Error") THEN failed + 1 ELSE failed
        /\ todo'["worker"] = <<>> => UNCHANGED <<finished, failed>>
        /\ fault' # "none" => UNCHANGED <<finished, failed>>
    BY <1>1, <1>5, WorkerStepTells DEF Returned, httpVars, told, SetStatusStep, Notify, Close, Reset, Remove, Assign
  <2>2. CASE UNCHANGED <<finished, failed>>
    BY <1>2, <2>1, <2>2
  <2>3. ASSUME ~UNCHANGED <<finished, failed>> PROVE ~Returned' /\ fault' = "none"
    BY <1>1, <2>1, <2>3 DEF Returned
  <2>4. CASE Pending("Done") /\ finished' = finished + 1
    BY <1>1, <2>1, <2>3, <2>4 DEF Promise!Succeed
  <2>5. CASE Pending("Error") /\ failed' = failed + 1
    BY <1>1, <2>1, <2>3, <2>5 DEF Promise!Fail
  <2> QED
    BY <2>1, <2>2, <2>4, <2>5
<1>6. CASE UserActs /\ UNCHANGED httpVars
  <2>1. UNCHANGED <<finished, failed, pc, stale, adding>> /\ todo'["worker"] = todo["worker"]
    BY <1>1, <1>6, UserStepTells, UserCallTells
       DEF UserActs, Cancel, PauseProcessing, ContinueProcessing, told, output, intake, httpVars
  <2>2. CASE SetStatusStep("user")
    <3>1. UNCHANGED ops
      BY <1>1, <2>2, UserStepTells
    <3> QED
      BY <1>2, <2>1, <3>1 DEF Returned
  <2>3. CASE Cancel \/ PauseProcessing \/ ContinueProcessing
    <3>1. ops' = ops + 1 /\ UNCHANGED fault
      BY <2>3 DEF Cancel, PauseProcessing, ContinueProcessing, UserCall
    <3> QED
      BY <1>1, <2>1, <3>1 DEF Returned, Promise!Interfere
  <2> QED
    BY <1>6, <2>2, <2>3 DEF UserActs
<1>7. CASE ProcessAgain
  <2>1. /\ pc = "ended" /\ Returned /\ pc' = "start" /\ finished' = 0 /\ failed' = 0
        /\ stale' = error /\ UNCHANGED <<ops, fault>>
    BY <1>7 DEF ProcessAgain, Goto
  <2>2. error <=> stale \/ failed > 0
    BY <1>1, <2>1 DEF IInv, OutcomesInv, ErrorIsTold, Pending, At, Returned
  <2> QED
    BY <1>1, <2>1, <2>2 DEF Promise!Again
<1>8. CASE TimePasses
  BY <1>2, <1>8 DEF TimePasses, baseVars, told, calls, intake, Returned
<1> QED
  BY <1>3, <1>4, <1>5, <1>6, <1>7, <1>8 DEF Moves

\* The request begins as its promise does.
LEMMA InitKeepsPromise == Init => Promise!Init
  BY DEF Init, BaseInit, Promise!Init, Alive, Threads

-----------------------------------------------------------------------------
(* The coroutine.                                                           *)

\* A step moves the request while the program is alive, or changes nothing.
LEMMA NextMoves ==
  ASSUME IInv, [Next]_vars
  PROVE  (Alive /\ Moves) \/ UNCHANGED vars
<1>1. left \in Nat /\ late \in BOOLEAN /\ silent \in BOOLEAN /\ damaged \in Damages
      /\ received \in 0 .. BodySize /\ announced \in 0 .. BodySize
  BY DEF IInv, HttpTypes
<1>2. ASSUME Step PROVE Moves
  <2>1. CASE Coroutine
    BY <1>1, <2>1, CoroutineTurns DEF Moves
  <2>2. CASE Expire \/ FallSilent
    BY <1>1, <2>2 DEF Expire, FallSilent, unchangedData, Moves, TimePasses
  <2> QED
    BY <1>2, <2>1, <2>2 DEF Step, Worker, User, Moves
<1> QED
  BY <1>2 DEF Next, Over

\* So the invariant holds in every behaviour.
THEOREM Invariance == Spec => []IInv
<1>1. IInv /\ [Next]_vars => IInv'
  <2> SUFFICES ASSUME IInv, [Next]_vars PROVE IInv'
    OBVIOUS
  <2>1. CASE UNCHANGED vars
    BY <2>1, TimePassesIInv DEF vars, httpVars, TimePasses, IInv, HttpTypes
  <2> QED
    BY <2>1, NextMoves, MovesIInv
<1> QED
  BY <1>1, InitIInv, PTL DEF Spec

\* Every variable of a request keeps its type: no address past the last one is
\* tried, and no more of the body is read than the peer announced.
THEOREM RequestTypes == Spec => []TypeOK
  BY Invariance, IInvSafety, PTL

\* Without a call of the user the worker never uses a stream that is gone.
THEOREM CrashTakesUser == Spec => []CrashNeedsUser
  BY Invariance, IInvSafety, PTL

\* The callbacks for an outcome run once, but for a Content-Length of 0 and for
\* addresses that fail one after the other.
THEOREM OutcomesAreToldOnce == Spec => []OutcomeToldOnce
  BY Invariance, IInvSafety, PTL

\* A failed request leaves no output file, whatever the user does meanwhile.
THEOREM FailureLeavesNoFile == Spec => []FailedLeavesNoFile
  BY Invariance, IInvSafety, PTL

\* A canceled request leaves at most the piece that was under way.
THEOREM CancelLeavesLittle == Spec => []CancelLeavesOnePiece
  BY Invariance, IInvSafety, PTL

\* Where files open at once, an undisturbed success holds what it received, and that is
\* all that the peer wrote into its lengths, unless a chunk-size line that came in parts
\* was taken for another number.
THEOREM FinishedIsWhole ==
  ASSUME ~OpenMayFail
  PROVE  Spec => []FinishedHoldsBody
<1>1. IInv => FinishedHoldsBody
  BY IInvSafety
<1> QED
  BY <1>1, Invariance, PTL

\* A failure is for good, whatever the peer sends, the user calls and the network
\* does, and however often the request is given to the handler.
THEOREM FailureIsForGood == Spec => FailedNeverFinishes
<1>1. IInv /\ [Next]_vars => [error => finished' <= finished]_vars
  BY NextMoves, MovesNeverFinishFailed
<1> QED
  BY <1>1, Invariance, PTL DEF Spec, FailedNeverFinishes

\* The coroutine does what its promise allows, and nothing else: an undisturbed
\* processing that began without an error ends only behind the finished or the failed
\* callbacks, told in this processing, and no success is told behind an error, of an
\* earlier processing or of the constructor.  One that began with an error may end with
\* no word.  This is the safety of KeepsPromise; that it ends is for TLC.
THEOREM PromiseIsKept == Spec => Promise!Safety
<1>1. IInv /\ IInv' /\ [Next]_vars => [Promise!Next]_(Promise!promise)
  <2> SUFFICES ASSUME IInv, IInv', [Next]_vars PROVE [Promise!Next]_(Promise!promise)
    OBVIOUS
  <2>1. CASE UNCHANGED vars
    BY <2>1 DEF vars, httpVars, baseVars, told, calls, intake, Promise!promise, Alive, Returned
  <2> QED
    BY <2>1, NextMoves, MovesKeepPromise
<1> QED
  BY <1>1, Invariance, InitKeepsPromise, PTL DEF Spec, Promise!Safety

-----------------------------------------------------------------------------
(* The blocking twin: processRequest is written out a second time beside   *)
(* the coroutine, but takes no other turns.                                *)

\* Every action of processRequest is a turn like those of the coroutine.
LEMMA ProcessTurns ==
  ASSUME left \in Nat, late \in BOOLEAN, damaged \in Damages, received \in 0 .. BodySize, announced \in 0 .. BodySize, Process
  PROVE  Turn
<1>1. CASE ConnectInPlace
  <2>1. /\ pc = "connect" /\ Returned
        /\ UNCHANGED <<status, target, file, exists, bytesRead, stored, told, ops, fault, left, late, reply, damaged, silent, starts, stale, announced, received>>
    BY <1>1 DEF ConnectInPlace, Ready, baseRest, output
  <2>2. \/ Keep /\ pc' \in {"connect", "prepare"} /\ UNCHANGED address
        \/ Fail /\ HasNextAddress /\ address' = address + 1 /\ pc' = "connect"
        \/ Fail /\ pc' = "ended" /\ UNCHANGED address
    BY <1>1 DEF ConnectInPlace, Ready, Goto
  <2>3. Walks \/ TriesNext \/ GivesUp
    BY <2>1, <2>2 DEF Walks, TriesNext, GivesUp, Goto
  <2> QED
    BY <2>1, <2>3 DEF Turn
<1>2. CASE ChooseBody
  <2> USE HttpRequestAssumption DEF ChooseBody, Ready, Goto, unchangedData, baseRest, output, Turn
  <2>1. CASE ExpectBody
    BY <1>2, <2>1 DEF ExpectBody, GoesOn
  <2>2. CASE DoneUnlessChunked \/ ExpectNothing
    BY <1>2, <2>2 DEF DoneUnlessChunked, ExpectNothing, Succeeds
  <2>3. CASE Throw \/ ExpectChunks
    BY <1>2, <2>3 DEF Throw, ExpectChunks, Walks
  <2>4. CASE SizeError
    BY <1>2, <2>4 DEF SizeError, GiveUp, GivesUp
  <2> QED
    BY <1>2, <2>1, <2>2, <2>3, <2>4
<1>3. CASE Coroutine
  BY <1>3, CoroutineTurns
<1> QED
  BY <1>1, <1>2, <1>3 DEF Process, ReachPeer, SendRequest, TakeBody, TakeChunks, Coroutine

\* A step moves the request while the program is alive, or changes nothing.
LEMMA BlockingNextMoves ==
  ASSUME IInv, [BlockingNext]_vars
  PROVE  (Alive /\ Moves) \/ UNCHANGED vars
<1>1. left \in Nat /\ late \in BOOLEAN /\ silent \in BOOLEAN /\ damaged \in Damages
      /\ received \in 0 .. BodySize /\ announced \in 0 .. BodySize
  BY DEF IInv, HttpTypes
<1>2. ASSUME BlockingStep PROVE Moves
  <2>1. CASE Process
    BY <1>1, <2>1, ProcessTurns DEF Moves
  <2>2. CASE Expire \/ FallSilent
    BY <1>1, <2>2 DEF Expire, FallSilent, unchangedData, Moves, TimePasses
  <2> QED
    BY <1>2, <2>1, <2>2 DEF BlockingStep, BlockingWorker, User, HandleRequest, Moves
<1> QED
  BY <1>2 DEF BlockingNext, Over

\* So the invariant holds for the blocking twin too.
THEOREM BlockingInvariance == BlockingSpec => []IInv
<1>1. IInv /\ [BlockingNext]_vars => IInv'
  <2> SUFFICES ASSUME IInv, [BlockingNext]_vars PROVE IInv'
    OBVIOUS
  <2>1. CASE UNCHANGED vars
    BY <2>1, TimePassesIInv DEF vars, httpVars, TimePasses, IInv, HttpTypes
  <2> QED
    BY <2>1, BlockingNextMoves, MovesIInv
<1> QED
  BY <1>1, InitIInv, PTL DEF BlockingSpec

\* Every variable keeps its type; only the user's calls can crash the program; the
\* outcome is told once; neither a failure nor a cancel leaves more of a file than
\* it does after the coroutine.
THEOREM BlockingSafety ==
  BlockingSpec =>
    []TypeOK /\ []CrashNeedsUser /\ []OutcomeToldOnce /\ []FailedLeavesNoFile /\ []CancelLeavesOnePiece
  BY BlockingInvariance, IInvSafety, PTL

\* Where files open at once, an undisturbed success of processRequest holds what it
\* received, which is all of the body, with the exception that the coroutine has.
THEOREM BlockingFinishedIsWhole ==
  ASSUME ~OpenMayFail
  PROVE  BlockingSpec => []FinishedHoldsBody
<1>1. IInv => FinishedHoldsBody
  BY IInvSafety
<1> QED
  BY <1>1, BlockingInvariance, PTL

\* A failure is for good.
THEOREM BlockingFailureIsForGood == BlockingSpec => FailedNeverFinishes
<1>1. IInv /\ [BlockingNext]_vars => [error => finished' <= finished]_vars
  BY BlockingNextMoves, MovesNeverFinishFailed
<1> QED
  BY <1>1, BlockingInvariance, PTL DEF BlockingSpec, FailedNeverFinishes

\* The thread does what the promise of a request allows, and nothing else: like the
\* coroutine, it may return with no callback run only if it began with an error or its
\* user called.
THEOREM BlockingPromiseIsKept == BlockingSpec => Promise!Safety
<1>1. IInv /\ IInv' /\ [BlockingNext]_vars => [Promise!Next]_(Promise!promise)
  <2> SUFFICES ASSUME IInv, IInv', [BlockingNext]_vars PROVE [Promise!Next]_(Promise!promise)
    OBVIOUS
  <2>1. CASE UNCHANGED vars
    BY <2>1 DEF vars, httpVars, baseVars, told, calls, intake, Promise!promise, Alive, Returned
  <2> QED
    BY <2>1, BlockingNextMoves, MovesKeepPromise
<1> QED
  BY <1>1, BlockingInvariance, InitKeepsPromise, PTL DEF BlockingSpec, Promise!Safety
=============================================================================
