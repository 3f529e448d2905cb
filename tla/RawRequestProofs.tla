-------------------------- MODULE RawRequestProofs --------------------------
(***************************************************************************)
(* What holds of a raw request for any sizes, calls of its user and number *)
(* of processings: it finishes with all that it was asked for              *)
(* (FinishedHoldsAll), data always finds a response (HasResponseForData),  *)
(* and an undisturbed request ends in silence only because of an error     *)
(* that it had before (SilentEndIsStale).                                  *)
(*                                                                         *)
(* As in HttpRequestProofs an action of the processing is a Turn of one of *)
(* a few kinds, and an outcome counts from the call of setStatus on, while *)
(* the callbacks for it are Pending.  Unlike an HTTP request, a raw one    *)
(* goes on with an old error until it has read a piece, so the argument is *)
(* about requests that have read something, or have nothing to read.       *)
(***************************************************************************)
EXTENDS RawRequest, RequestBaseProofs

-----------------------------------------------------------------------------
(* Turns. *)

GivesUp ==
    /\ pc \in {"start", "connect", "body"}
    /\ SetError("worker") /\ UNCHANGED intake /\ Goto("ended")
    /\ UNCHANGED <<stored, received, response>>

GoesOn ==
    /\ \/ pc = "start" /\ Tell("Processed") /\ Goto("connect")
       \/ pc = "connected" /\ Tell("Writing") /\ Goto("choose")
    /\ UNCHANGED <<stored, received, response>>

Succeeds ==
    /\ pc = "finish" /\ Tell("Done") /\ Goto("ended")
    /\ UNCHANGED <<stored, received, response>>

Adds ==
    /\ pc = "body" /\ Goto("added")
    /\ \E n \in PieceSizes : AddResponseData(n) /\ received' = received + n
    /\ UNCHANGED <<stored, response>>

Chooses ==
    /\ pc = "choose" /\ Keep
    /\ IF wanted = 0
       THEN Goto("finish") /\ UNCHANGED <<stored, response>>
       ELSE Goto("body") /\ response' = TRUE /\ stored' = IF target = "file" THEN stored ELSE 0
    /\ UNCHANGED received

Leaves ==
    /\ Interrupted /\ pc \in Timed /\ Keep /\ Goto("ended")
    /\ UNCHANGED <<stored, received, response>>

Walks ==
    /\ \/ pc \in Timed /\ UNCHANGED pc
       \/ pc = "connect" /\ Goto("connected")
       \/ pc = "added" /\ Goto(IF error THEN "ended" ELSE "body")
       \/ pc = "body" /\ received = wanted /\ Goto("finish")
    /\ Keep
    /\ UNCHANGED <<stored, received, response>>

Turn ==
    /\ Returned /\ pc # "ended"
    /\ UNCHANGED <<status, target, file, exists, bytesRead, told, ops, fault, wanted, silent, starts, stale>>
    /\ late' \in BOOLEAN
    /\ GivesUp \/ GoesOn \/ Succeeds \/ Adds \/ Chooses \/ Leaves \/ Walks

\* Every action of the processing is such a turn.
LEMMA ProcessTurns ==
  ASSUME late \in BOOLEAN, Process
  PROVE  Turn
<1> USE DEF Ready, Goto, baseRest, output, Turn
<1>1. CASE CreateSocket
  BY <1>1 DEF CreateSocket, GiveUp, GivesUp, GoesOn
<1>2. CASE Leave
  BY <1>2 DEF Leave, Leaves, Timed
<1>3. CASE Connect
  BY <1>3 DEF Connect, GiveUp, GivesUp, Walks, Timed
<1>4. CASE Write0
  BY <1>4 DEF Write0, GoesOn
<1>5. CASE Choose
  BY <1>5 DEF Choose, Chooses
<1>6. CASE Read
  BY <1>6 DEF Read, GiveUp, GivesUp, Adds, Walks, rawVars, Timed
<1>7. CASE Added
  BY <1>7 DEF Added, Walks
<1>8. CASE BodyRead
  BY <1>8 DEF BodyRead, AllRead, Walks
<1>9. CASE Finish
  BY <1>9 DEF Finish, Succeeds
<1> QED
  BY <1>1, <1>2, <1>3, <1>4, <1>5, <1>6, <1>7, <1>8, <1>9 DEF Process

-----------------------------------------------------------------------------
(* The invariant. *)

RawTypes ==
    /\ pc \in Places
    /\ wanted \in Sizes /\ received \in 0 .. wanted
    /\ response \in BOOLEAN /\ late \in BOOLEAN /\ silent \in BOOLEAN /\ stale \in BOOLEAN
    /\ starts \in 1 .. MaxStarts

\* What was read where the processing is; that it looked at m_error when it had
\* read something; and that nothing was counted before.
Received ==
    /\ pc \in {"start", "connect", "connected", "choose"} => received = 0
    /\ pc = "added" => received > 0
    /\ pc = "finish" => received = wanted
    /\ pc \in {"body", "finish"} /\ received > 0 => ~error
    /\ starts = 1 /\ received = 0 => bytesRead = 0

\* Data is added at one place only, into a response that was made before.
AddsAfterReading == adding # "no" => pc = "added"
ReadsIntoResponse == pc \in {"body", "added"} => response

\* An error that came up in this processing was told, or is about to be.
ErrorIsTold == error => stale \/ failed > 0 \/ Pending("Error")

\* An undisturbed processing that is at its end has told how, unless it read a
\* piece and then found an old error.
EndIsTold ==
    pc = "ended" /\ ops = 0 =>
        \/ finished > 0 \/ failed > 0
        \/ Pending("Error") \/ Pending("Done")
        \/ stale /\ received > 0

\* A success that was told, or is about to be, has read everything.
SuccessIsSound ==
    finished > 0 \/ Pending("Done") => pc = "ended" /\ received = wanted /\ (received > 0 => ~error)

OutcomesInv == ErrorIsTold /\ EndIsTold /\ SuccessIsSound

InBody == pc \in {"body", "added", "finish"}

\* Outside of the body there is no stream, or the worker is about to reset it, and
\* in the body it resets none.
FileClosed == ops = 0 /\ ~error /\ ~InBody => file = "none" \/ Ahead("worker", "reset")
QuietBody == InBody /\ ~error => todo["worker"] = <<>>

\* So what an undisturbed request holds is what it received.
BodyStored ==
    ops = 0 /\ ~error /\ ~OpenMayFail =>
        /\ InBody /\ received = 0 => (target = "response" /\ wanted > 0 => stored = 0) /\ file = "none"
        /\ (InBody \/ pc = "ended") /\ received > 0 => target # "unnamed" /\ Holding = received
        /\ InBody /\ received > 0 /\ target = "file" /\ file = "none" => adding = "open"
        /\ file = "open" => exists
        /\ starts = 1 => Counting = received

Files == FileClosed /\ QuietBody /\ BodyStored

IInv == BaseInv /\ RawTypes /\ Received /\ AddsAfterReading /\ ReadsIntoResponse /\ OutcomesInv /\ Files

\* The invariant holds at first.
LEMMA InitIInv == Init => IInv
<1> SUFFICES ASSUME Init PROVE IInv
  OBVIOUS
<1> USE DEF Init
<1>1. BaseInv
  BY BaseInitInv
<1>2. wanted \in Sizes /\ 0 \in 0 .. wanted /\ 1 \in 1 .. MaxStarts
  BY RawRequestAssumption
<1>3. RawTypes
  BY <1>2 DEF RawTypes, Places, BaseInit
<1>4. /\ todo["worker"] = <<>> /\ adding = "no" /\ finished = 0 /\ failed = 0
      /\ file = "none" /\ bytesRead = 0
  BY DEF BaseInit, Threads
<1>5. Received /\ AddsAfterReading /\ ReadsIntoResponse /\ OutcomesInv
  BY <1>4 DEF Received, AddsAfterReading, ReadsIntoResponse, OutcomesInv, ErrorIsTold, EndIsTold, SuccessIsSound, Pending, At
<1>6. Files
  BY <1>4 DEF Files, FileClosed, QuietBody, BodyStored, InBody, Counting
<1> QED
  BY <1>1, <1>3, <1>5, <1>6 DEF IInv

-----------------------------------------------------------------------------
(* A turn preserves it. *)

LEMMA TurnBase ==
  ASSUME BaseInv, RawTypes, Turn
  PROVE  BaseInv'
<1> USE DEF Turn
<1>1. CASE Keep
  <2>1. stored' \in {0, stored} /\ (target = "file" => stored' = stored)
    BY <1>1 DEF GivesUp, GoesOn, Succeeds, Adds, Chooses, Leaves, Walks
  <2> QED
    BY <1>1, <2>1, KeepInv DEF Keep, told, BaseInv, BaseTypeOK
<1>2. ASSUME NEW s \in WorkerStatus, s # "Error", Tell(s), UNCHANGED stored PROVE BaseInv'
  BY <1>2, WorkerCallInv DEF Tell, output, intake, BaseInv, BaseTypeOK
<1>3. CASE GivesUp
  BY <1>3, WorkerCallInv DEF GivesUp, SetError, WorkerStatus, output, intake, BaseInv, BaseTypeOK
<1>4. CASE Adds
  <2>1. PICK n \in PieceSizes : AddResponseData(n)
    BY <1>4 DEF Adds
  <2>2. n \in Nat /\ UNCHANGED stored
    BY <1>4 DEF Adds, PieceSizes
  <2> QED
    BY <2>1, <2>2, AddResponseDataInv DEF output
<1>5. CASE GoesOn \/ Succeeds
  BY <1>2, <1>5 DEF GoesOn, Succeeds, WorkerStatus
<1>6. CASE Chooses \/ Leaves \/ Walks
  BY <1>1, <1>6 DEF Chooses, Leaves, Walks
<1> QED
  BY <1>3, <1>4, <1>5, <1>6

\* What a turn does to its own variables.
LEMMA TurnTypes ==
  ASSUME RawTypes, Turn
  PROVE  RawTypes'
<1> USE DEF Turn, Goto
<1>1. wanted \in Nat
  BY RawRequestAssumption DEF RawTypes
<1>2. CASE Adds
  <2>1. PICK n \in PieceSizes : received' = received + n
    BY <1>2 DEF Adds
  <2>2. received' \in 0 .. wanted
    BY <1>1, <2>1 DEF PieceSizes, RawTypes
  <2> QED
    BY <1>2, <2>2 DEF Adds, RawTypes, Places
<1>3. CASE GivesUp \/ GoesOn \/ Succeeds \/ Chooses \/ Leaves \/ Walks
  BY <1>3 DEF GivesUp, GoesOn, Succeeds, Chooses, Leaves, Walks, RawTypes, Places, Timed
<1> QED
  BY <1>2, <1>3

\* What it leaves to be told.
LEMMA TurnTells ==
  ASSUME BaseInv, Turn
  PROVE  /\ todo["worker"] = <<>> /\ adding = "no" /\ \A x : ~Pending(x) /\ ~Ahead("worker", x)
         /\ UNCHANGED <<finished, failed, ops, flags>>
         /\ Keep => UNCHANGED <<error, adding>> /\ todo'["worker"] = <<>> /\ \A x : ~Pending(x)' /\ ~Ahead("worker", x)'
         /\ \A s \in WorkerStatus \ {"Error"} :
               Tell(s) => /\ UNCHANGED <<error, adding>> /\ ~Pending("Error")' /\ (Pending("Done")' <=> s = "Done")
                          /\ s = "Done" => Ahead("worker", "reset")'
         /\ SetError("worker") => error' = TRUE /\ Pending("Error")' /\ ~Pending("Done")' /\ Ahead("worker", "reset")'
         /\ UNCHANGED calls => UNCHANGED todo /\ \A x : ~Pending(x)' /\ ~Ahead("worker", x)'
<1>1. todo["worker"] = <<>> /\ adding = "no" /\ (\A x : ~Pending(x) /\ ~Ahead("worker", x)) /\ UNCHANGED <<finished, failed, ops>>
  BY NothingLeftBehind DEF Turn, Returned, told
<1>2. UNCHANGED calls => UNCHANGED todo /\ \A x : ~Pending(x)' /\ ~Ahead("worker", x)'
  BY <1>1, SameCalls DEF calls
<1>3. ASSUME NEW s \in WorkerStatus \ {"Error"}, Tell(s)
      PROVE  /\ UNCHANGED <<error, adding, flags>> /\ ~Pending("Error")' /\ (Pending("Done")' <=> s = "Done")
             /\ s = "Done" => Ahead("worker", "reset")'
  <2>1. SetStatus("worker", s) /\ UNCHANGED <<error, adding>>
    BY <1>3 DEF Tell, intake
  <2> QED
    BY <2>1, WorkerCallTells
<1>4. ASSUME SetError("worker")
      PROVE  error' = TRUE /\ Pending("Error")' /\ ~Pending("Done")' /\ Ahead("worker", "reset")' /\ UNCHANGED flags
  <2>1. SetStatus("worker", "Error") /\ error' = TRUE /\ "Error" \in WorkerStatus
    BY <1>4 DEF SetError, WorkerStatus
  <2> QED
    BY <2>1, WorkerCallTells
<1>5. UNCHANGED flags
  <2>1. \/ Keep \/ SetError("worker") \/ (\E s \in WorkerStatus \ {"Error"} : Tell(s)) \/ UNCHANGED flags
    BY DEF Turn, GivesUp, GoesOn, Succeeds, Adds, Chooses, Leaves, Walks, AddResponseData, WorkerStatus
  <2> QED
    BY <2>1, <1>3, <1>4 DEF Keep
<1> QED
  BY <1>1, <1>2, <1>3, <1>4, <1>5 DEF Keep, intake

\* What adding a piece does: it fails, or goes on.
LEMMA AddsTells ==
  ASSUME BaseInv, RawTypes, Turn, Adds
  PROVE  /\ ~Pending("Done")' /\ pc = "body" /\ pc' = "added" /\ received' > 0
         /\ \E n \in PieceSizes : received' = received + n /\ piece' = n
         /\ \/ error' = TRUE /\ Pending("Error")' /\ adding' = "no"
            \/ /\ UNCHANGED <<error, todo>>
               /\ target # "unnamed" /\ adding' = (IF target = "file" THEN "open" ELSE "write")
<1>1. PICK n \in PieceSizes : received' = received + n /\ AddResponseData(n)
  BY DEF Adds
<1>2. received' > 0 /\ piece' = n /\ pc = "body" /\ pc' = "added"
  BY <1>1 DEF PieceSizes, RawTypes, AddResponseData, Adds, Goto
<1>3. CASE SetError("worker") /\ UNCHANGED adding
  BY <1>1, <1>2, <1>3, TurnTells
<1>4. CASE UNCHANGED <<calls, error>> /\ target # "unnamed" /\ adding' = (IF target = "file" THEN "open" ELSE "write")
  BY <1>1, <1>2, <1>4, TurnTells DEF calls
<1> QED
  BY <1>1, <1>3, <1>4 DEF AddResponseData

\* Where the processing is, and what it has told.
LEMMA TurnOutcomes ==
  ASSUME IInv, Turn
  PROVE  Received' /\ AddsAfterReading' /\ ReadsIntoResponse' /\ OutcomesInv'
<1> USE DEF Goto
<1>1. /\ BaseInv /\ RawTypes /\ adding = "no" /\ \A x : ~Pending(x)
      /\ UNCHANGED <<finished, failed, ops, flags, wanted, stale, starts, bytesRead>> /\ pc # "ended" /\ finished = 0
      /\ finished \in Nat /\ failed \in Nat /\ received \in Nat
  <2>1. BaseInv /\ RawTypes /\ finished \in Nat /\ failed \in Nat /\ received \in Nat
    BY RawRequestAssumption DEF IInv, BaseInv, BaseTypeOK, RawTypes
  <2>2. adding = "no" /\ (\A x : ~Pending(x)) /\ UNCHANGED <<finished, failed, ops, flags>>
    BY <2>1, TurnTells
  <2> QED
    BY <2>1, <2>2 DEF Turn, IInv, OutcomesInv, SuccessIsSound
<1>2. ErrorIsTold /\ Received /\ ReadsIntoResponse
  BY DEF IInv, OutcomesInv
<1>3. CASE GivesUp
  <2>1. /\ error' = TRUE /\ Pending("Error")' /\ ~Pending("Done")'
        /\ pc' = "ended" /\ adding' = "no" /\ UNCHANGED received
    BY <1>1, <1>3, TurnTells DEF GivesUp, intake
  <2> QED
    BY <1>1, <1>2, <2>1
       DEF Received, AddsAfterReading, ReadsIntoResponse, OutcomesInv, ErrorIsTold, EndIsTold, SuccessIsSound
<1>4. CASE GoesOn
  <2>1. /\ UNCHANGED <<error, adding, received>> /\ ~Pending("Done")' /\ ~Pending("Error")'
        /\ pc' \in {"connect", "choose"} /\ pc \in {"start", "connected"}
    BY <1>1, <1>4, TurnTells DEF GoesOn, WorkerStatus
  <2> QED
    BY <1>1, <1>2, <2>1
       DEF Received, AddsAfterReading, ReadsIntoResponse, OutcomesInv, ErrorIsTold, EndIsTold, SuccessIsSound
<1>5. CASE Succeeds
  <2>1. /\ UNCHANGED <<error, adding, received>> /\ Pending("Done")' /\ ~Pending("Error")'
        /\ pc = "finish" /\ pc' = "ended"
    BY <1>1, <1>5, TurnTells DEF Succeeds, WorkerStatus
  <2> QED
    BY <1>1, <1>2, <2>1
       DEF Received, AddsAfterReading, ReadsIntoResponse, OutcomesInv, ErrorIsTold, EndIsTold, SuccessIsSound
<1>6. CASE Adds
  <2>1. /\ pc = "body" /\ pc' = "added" /\ received' > 0 /\ response' = response /\ ~Pending("Done")'
        /\ (error' = TRUE /\ Pending("Error")') \/ UNCHANGED error
    BY <1>1, <1>6, AddsTells DEF Adds
  <2> QED
    BY <1>1, <1>2, <2>1
       DEF Received, AddsAfterReading, ReadsIntoResponse, OutcomesInv, ErrorIsTold, EndIsTold, SuccessIsSound
<1>7. CASE Chooses \/ Leaves \/ Walks
  <2>1. UNCHANGED <<error, adding, received>> /\ ~Pending("Done")' /\ ~Pending("Error")'
    BY <1>1, <1>7, TurnTells DEF Chooses, Leaves, Walks
  <2>2. \/ pc = "choose" /\ received = 0 /\ pc' = "finish" /\ wanted = 0
        \/ pc = "choose" /\ received = 0 /\ pc' = "body" /\ response'
        \/ pc' = "ended" /\ ops # 0
        \/ UNCHANGED <<pc, response>>
        \/ pc = "connect" /\ pc' = "connected" /\ received = 0
        \/ pc = "added" /\ error /\ pc' = "ended"
        \/ pc = "added" /\ ~error /\ pc' = "body" /\ response' = response
        \/ pc = "body" /\ received = wanted /\ pc' = "finish"
    BY <1>1, <1>2, <1>7 DEF Chooses, Leaves, Walks, Interrupted, BaseInv, Callers, Received
  <2>3. Received' /\ AddsAfterReading' /\ ReadsIntoResponse'
    BY <1>1, <1>2, <2>1, <2>2 DEF Received, AddsAfterReading, ReadsIntoResponse
  <2>4. ErrorIsTold' /\ EndIsTold' /\ SuccessIsSound'
    BY <1>1, <1>2, <2>1, <2>2 DEF Received, ErrorIsTold, EndIsTold, SuccessIsSound
  <2> QED
    BY <2>3, <2>4 DEF OutcomesInv
<1> QED
  BY <1>3, <1>4, <1>5, <1>6, <1>7 DEF Turn

\* The stream, and what is stored.
LEMMA TurnFiles ==
  ASSUME IInv, Turn
  PROVE  Files'
<1> USE DEF Goto
<1>1. /\ BaseInv /\ RawTypes /\ adding = "no" /\ todo["worker"] = <<>> /\ \A x : ~Ahead("worker", x)
      /\ UNCHANGED <<target, file, exists, bytesRead, wanted, ops, starts>> /\ pc # "ended"
      /\ error \in BOOLEAN /\ stored \in Nat /\ bytesRead \in Nat
      /\ ops = 0 => ~Interrupted
  BY TurnTells DEF IInv, Turn, BaseInv, BaseTypeOK, Callers, Interrupted
<1>2. /\ ops = 0 /\ ~error /\ ~InBody => file = "none"
      /\ Received
  BY <1>1 DEF IInv, Files, FileClosed
<1>3. CASE GivesUp
  <2>1. error' = TRUE
    BY <1>1, <1>3, TurnTells DEF GivesUp
  <2> QED
    BY <2>1 DEF Files, FileClosed, QuietBody, BodyStored
<1>4. CASE Adds
  <2>1. InBody /\ InBody' /\ received' > 0 /\ UNCHANGED stored
    BY <1>1, <1>4, AddsTells DEF InBody, Adds
  <2>2. CASE error' = TRUE
    BY <2>2 DEF Files, FileClosed, QuietBody, BodyStored
  <2>3. CASE UNCHANGED <<error, todo>> /\ target # "unnamed" /\ adding' = (IF target = "file" THEN "open" ELSE "write")
    <3>1. FileClosed' /\ QuietBody'
      BY <1>1, <2>1, <2>3 DEF FileClosed, QuietBody
    <3> SUFFICES ASSUME ops = 0, ~error, ~OpenMayFail PROVE BodyStored'
      BY <1>1, <2>3, <3>1 DEF Files, BodyStored
    <3>2. PICK n \in PieceSizes : received' = received + n /\ piece' = n
      BY <1>1, <1>4, AddsTells
    <3>3. n \in Nat /\ received \in Nat /\ wanted \in Nat /\ (received = 0 => n > 0 /\ wanted > 0)
      BY RawRequestAssumption, <1>1 DEF PieceSizes, RawTypes
    <3>4. /\ received = 0 => (target = "response" => stored = 0) /\ file = "none"
          /\ received > 0 => stored = received /\ (target = "file" => file # "none")
          /\ file = "open" => exists
          /\ starts = 1 => bytesRead = received
      <4>1. Holding = stored /\ Counting = bytesRead + 0
        BY <1>1 DEF Holding, Counting
      <4> QED
        BY <1>1, <2>1, <3>3, <4>1 DEF IInv, Files, BodyStored
    <3>5. file \in {"none", "open"} /\ (target # "file" => file = "none") /\ target \in {"response", "file", "unnamed"}
      BY <1>1, RequestBaseAssumption DEF BaseInv, BaseTypeOK, FileSound
    <3>6. Holding' = received'
      BY <1>1, <2>1, <2>3, <3>2, <3>3, <3>4, <3>5 DEF Holding
    <3>7. starts' = 1 => Counting' = received'
      BY <1>1, <2>3, <3>2, <3>3, <3>4 DEF Counting
    <3> QED
      BY <1>1, <2>1, <2>3, <3>4, <3>6, <3>7 DEF BodyStored
  <2> QED
    BY <1>1, <1>4, <2>2, <2>3, AddsTells
<1>5. CASE GoesOn \/ Succeeds \/ Chooses \/ Leaves \/ Walks
  <2>1. /\ UNCHANGED <<error, adding, received>>
        /\ \/ Ahead("worker", "reset")' \/ ~InBody
           \/ todo'["worker"] = <<>>
        /\ GoesOn => pc' \notin {"body", "added", "finish", "ended"} /\ ~InBody
        /\ ~GoesOn /\ ~Succeeds => todo'["worker"] = <<>>
        /\ Succeeds => Ahead("worker", "reset")'
    BY <1>1, <1>5, TurnTells DEF GoesOn, Succeeds, Chooses, Leaves, Walks, WorkerStatus, InBody
  <2>2. /\ InBody' => InBody \/ Chooses
        /\ pc' = "ended" => InBody \/ ops # 0
        /\ Chooses => InBody' /\ received = 0 /\ (target = "response" /\ wanted > 0 => stored' = 0) /\ ~InBody
        /\ ~Chooses => UNCHANGED stored
        /\ ~InBody' => ~InBody \/ Succeeds \/ error \/ ops # 0
        /\ InBody' => ~GoesOn /\ ~Succeeds
    BY <1>1, <1>2, <1>5 DEF GoesOn, Succeeds, Chooses, Leaves, Walks, InBody, Received, Timed
  <2>3. FileClosed' /\ QuietBody'
    BY <1>1, <1>2, <2>1, <2>2 DEF FileClosed, QuietBody
  <2>4. ASSUME ops = 0, ~error, ~OpenMayFail PROVE BodyStored'
    <3>1. /\ InBody /\ received = 0 => (target = "response" /\ wanted > 0 => stored = 0) /\ file = "none"
          /\ InBody /\ received > 0 => target # "unnamed" /\ stored = received /\ (target = "file" => file # "none")
          /\ file = "open" => exists
          /\ starts = 1 => bytesRead = received
      <4>1. Holding = stored /\ Counting = bytesRead + 0
        BY <1>1 DEF Holding, Counting
      <4> QED
        BY <1>1, <2>4, <4>1 DEF IInv, Files, BodyStored
    <3>2. Holding' = stored' /\ Counting' = bytesRead + 0 /\ received \in Nat
      BY <1>1, <2>1, RawRequestAssumption DEF Holding, Counting, RawTypes
    <3>3. ASSUME InBody', received = 0 PROVE (target = "response" /\ wanted > 0 => stored' = 0) /\ file = "none"
      BY <1>1, <1>2, <2>2, <2>4, <3>1, <3>3
    <3>4. ASSUME InBody' \/ pc' = "ended", received > 0 PROVE target # "unnamed" /\ stored' = received /\ (target = "file" => file # "none")
      BY <1>1, <2>2, <2>4, <3>1, <3>2, <3>4
    <3> QED
      BY <1>1, <2>1, <3>1, <3>2, <3>3, <3>4 DEF BodyStored
  <2> QED
    BY <1>1, <2>1, <2>3, <2>4 DEF Files, BodyStored
<1> QED
  BY <1>3, <1>4, <1>5 DEF Turn

-----------------------------------------------------------------------------
(* The steps of calls, the user and the rest of the world preserve it.      *)

\* A step of addResponseData, which goes on or fails.
LEMMA AddStepIInv ==
  ASSUME IInv, AddStep, UNCHANGED rawVars
  PROVE  IInv'
<1> USE DEF rawVars
<1>1. /\ BaseInv /\ BaseInv' /\ adding # "no" /\ todo["worker"] = <<>>
      /\ UNCHANGED <<target, finished, failed, ops>>
      /\ \/ UNCHANGED <<calls, flags, error>>
         \/ SetError("worker") /\ adding' = "no"
  BY AddStepTells, AddStepInv DEF IInv, told
<1>2. /\ pc = "added" /\ finished = 0 /\ ~Pending("Done") /\ ~Pending("Error") /\ received > 0
      /\ finished \in Nat /\ failed \in Nat
  BY <1>1 DEF IInv, AddsAfterReading, Received, OutcomesInv, SuccessIsSound, BaseInv, BaseTypeOK, Pending, At
<1>3. RawTypes' /\ Received' /\ AddsAfterReading' /\ ReadsIntoResponse' /\ EndIsTold'
  BY <1>2 DEF IInv, RawTypes, Received, AddsAfterReading, ReadsIntoResponse, EndIsTold
<1>4. CASE UNCHANGED <<calls, flags, error>>
  <2>1. todo'["worker"] = <<>> /\ ~Pending("Done")' /\ ~Pending("Error")'
    BY <1>1, <1>2, <1>4, SameCalls
  <2>2. ErrorIsTold' /\ SuccessIsSound' /\ QuietBody' /\ FileClosed'
    BY <1>1, <1>2, <1>4, <2>1
       DEF IInv, OutcomesInv, ErrorIsTold, SuccessIsSound, QuietBody, FileClosed, InBody
  <2>3. BodyStored'
    <3> SUFFICES ASSUME ops = 0, ~error, ~OpenMayFail PROVE BodyStored'
      BY <1>1, <1>4 DEF BodyStored
    <3>1. /\ target # "unnamed" /\ Holding = received
          /\ target = "file" /\ file = "none" => adding = "open"
          /\ file = "open" => exists
          /\ starts = 1 => Counting = received
      BY <1>1, <1>2 DEF IInv, Files, BodyStored, InBody
    <3>2. /\ Holding' = Holding /\ Counting' = Counting /\ (file' = "open" => exists')
          /\ target = "file" => file' # "none"
      BY <1>1, <3>1, AddStepHolds
    <3> QED
      BY <1>1, <1>2, <3>1, <3>2 DEF BodyStored, InBody
  <2> QED
    BY <1>1, <1>3, <2>2, <2>3 DEF IInv, OutcomesInv, Files
<1>5. CASE SetError("worker") /\ adding' = "no"
  <2>1. ~Pending("Done")' /\ Pending("Error")' /\ error' = TRUE
    BY <1>1, <1>5, WorkerCallTells DEF SetError, WorkerStatus
  <2> QED
    BY <1>1, <1>2, <1>3, <2>1
       DEF IInv, OutcomesInv, ErrorIsTold, SuccessIsSound, Files, QuietBody, FileClosed, BodyStored
<1> QED
  BY <1>1, <1>4, <1>5

\* A step of the worker's setStatus, which tells what was pending.
LEMMA WorkerStepIInv ==
  ASSUME IInv, SetStatusStep("worker"), UNCHANGED rawVars
  PROVE  IInv'
<1> USE DEF rawVars
<1>1. BaseInv /\ BaseInv'
  BY SetStatusStepInv DEF IInv, Threads
<1>2. /\ todo["worker"] # <<>> /\ ~Pending("Done")' /\ ~Pending("Error")'
      /\ finished' = IF Pending("Done") THEN finished + 1 ELSE finished
      /\ failed' = IF Pending("Error") THEN failed + 1 ELSE failed
      /\ Ahead("worker", "reset") => Ahead("worker", "reset")' \/ file' = "none"
      /\ file' \in {file, "none"}
      /\ ~error => UNCHANGED <<exists, stored>>
      /\ UNCHANGED <<flags, error, target, bytesRead, adding, piece, ops>>
  BY <1>1, WorkerStepTells DEF intake
<1>3. finished \in Nat /\ failed \in Nat /\ adding = "no" /\ (Pending("Error") => error)
  BY <1>1, <1>2 DEF BaseInv, BaseTypeOK, BaseSafe, Callers, Pending
<1>4. RawTypes' /\ Received' /\ AddsAfterReading' /\ ReadsIntoResponse'
  BY <1>2 DEF IInv, RawTypes, Received, AddsAfterReading, ReadsIntoResponse
<1>5. ErrorIsTold' /\ EndIsTold' /\ SuccessIsSound'
  BY <1>2, <1>3 DEF IInv, OutcomesInv, ErrorIsTold, EndIsTold, SuccessIsSound
<1>6. Files'
  <2> SUFFICES ASSUME ~error PROVE Files'
    BY <1>2 DEF Files, FileClosed, QuietBody, BodyStored
  <2>1. ~InBody /\ UNCHANGED <<exists, stored>>
    BY <1>2 DEF IInv, Files, QuietBody
  <2>2. Holding = stored /\ Holding' = stored /\ Counting' = Counting
    BY <1>2, <1>3, <2>1 DEF Holding, Counting
  <2>3. FileClosed' /\ QuietBody'
    BY <1>2, <2>1 DEF IInv, Files, FileClosed, QuietBody, InBody
  <2>4. BodyStored'
    BY <1>2, <2>1, <2>2 DEF IInv, Files, BodyStored, InBody
  <2> QED
    BY <2>3, <2>4 DEF Files
<1> QED
  BY <1>1, <1>4, <1>5, <1>6 DEF IInv, OutcomesInv

\* The calls of the user, which tell no outcome.
LEMMA UserIInv ==
  ASSUME IInv, User
  PROVE  IInv'
<1> USE DEF rawVars
<1>1. BaseInv /\ BaseInv' /\ UNCHANGED rawVars
  BY UserActsInv DEF IInv, User
<1>2. /\ ops' # 0 /\ UNCHANGED <<finished, failed, error, adding, bytesRead>> /\ todo'["worker"] = todo["worker"]
      /\ \A x : Pending(x)' <=> Pending(x)
  BY <1>1, UserStepTells, UserCallTells
     DEF User, UserActs, Cancel, PauseProcessing, ContinueProcessing, told, intake, output
<1>3. RawTypes' /\ Received' /\ AddsAfterReading' /\ ReadsIntoResponse'
  BY <1>1, <1>2 DEF IInv, RawTypes, Received, AddsAfterReading, ReadsIntoResponse
<1>4. OutcomesInv'
  BY <1>1, <1>2 DEF IInv, OutcomesInv, ErrorIsTold, EndIsTold, SuccessIsSound
<1>5. Files'
  BY <1>1, <1>2 DEF IInv, Files, FileClosed, QuietBody, BodyStored, InBody
<1> QED
  BY <1>1, <1>3, <1>4, <1>5 DEF IInv

\* Processing the request once more begins to count anew.
LEMMA ProcessAgainIInv ==
  ASSUME IInv, ProcessAgain
  PROVE  IInv'
<1> USE DEF ProcessAgain, Goto
<1>1. BaseInv'
  BY KeepInv DEF IInv, BaseInv, BaseTypeOK, output
<1>2. /\ UNCHANGED <<error, target, file, exists, stored, bytesRead, adding, ops, wanted>>
      /\ pc = "ended" /\ adding = "no" /\ todo'["worker"] = <<>> /\ finished' = 0 /\ failed' = 0
      /\ pc' = "start" /\ received' = 0 /\ starts' = starts + 1 /\ stale' = error
      /\ ~Pending("Done")' /\ ~Pending("Error")' /\ ~Ahead("worker", "reset")
  BY NothingLeftBehind, SameCalls DEF Returned, output, intake, calls
<1>3. 0 \in 0 .. wanted /\ starts' \in 1 .. MaxStarts /\ starts' # 1 /\ error \in BOOLEAN
  BY RawRequestAssumption DEF IInv, RawTypes, BaseInv, BaseTypeOK
<1>4. RawTypes'
  BY <1>2, <1>3 DEF IInv, RawTypes, Places
<1>5. Received' /\ AddsAfterReading' /\ ReadsIntoResponse' /\ OutcomesInv'
  BY <1>2, <1>3 DEF Received, AddsAfterReading, ReadsIntoResponse, OutcomesInv, ErrorIsTold, EndIsTold, SuccessIsSound
<1>6. Files'
  BY <1>2, <1>3 DEF IInv, Files, FileClosed, QuietBody, BodyStored, InBody
<1> QED
  BY <1>1, <1>4, <1>5, <1>6 DEF IInv

\* Time passes, the peer falls silent, or nothing happens.
LEMMA TimeIInv ==
  ASSUME IInv, UNCHANGED <<baseVars, pc, wanted, received, response, starts, stale>>, late' \in BOOLEAN, silent' \in BOOLEAN
  PROVE  IInv'
<1>1. BaseInv'
  BY KeepInv DEF IInv, BaseInv, BaseTypeOK, baseVars, output, told
<1>2. /\ UNCHANGED <<error, target, file, exists, stored, bytesRead, finished, failed, todo, adding, piece, ops>>
      /\ \A x : (Pending(x)' <=> Pending(x)) /\ (Ahead("worker", x)' <=> Ahead("worker", x))
  BY SameCalls DEF baseVars, output, told, intake, calls
<1>3. RawTypes' /\ Received' /\ AddsAfterReading' /\ ReadsIntoResponse'
  BY <1>2 DEF IInv, RawTypes, Received, AddsAfterReading, ReadsIntoResponse
<1>4. OutcomesInv'
  BY <1>2 DEF IInv, OutcomesInv, ErrorIsTold, EndIsTold, SuccessIsSound
<1>5. Files'
  BY <1>2 DEF IInv, Files, FileClosed, QuietBody, BodyStored, InBody, Holding, Counting
<1> QED
  BY <1>1, <1>3, <1>4, <1>5 DEF IInv

\* Every step preserves the invariant.
LEMMA NextIInv == IInv /\ [Next]_vars => IInv'
<1> SUFFICES ASSUME IInv, [Next]_vars PROVE IInv'
  OBVIOUS
<1>1. CASE Process
  <2>1. Turn
    BY <1>1, ProcessTurns DEF IInv, RawTypes
  <2>2. BaseInv' /\ RawTypes'
    BY <2>1, TurnBase, TurnTypes DEF IInv
  <2> QED
    BY <2>1, <2>2, TurnOutcomes, TurnFiles DEF IInv
<1>2. CASE (SetStatusStep("worker") \/ AddStep) /\ UNCHANGED rawVars
  BY <1>2, WorkerStepIInv, AddStepIInv
<1>3. CASE User \/ ProcessAgain
  BY <1>3, UserIInv, ProcessAgainIInv
<1>4. CASE Expire \/ FallSilent \/ UNCHANGED vars
  BY <1>4, TimeIInv DEF Expire, FallSilent, vars, rawVars, IInv, RawTypes
<1> QED
  BY <1>1, <1>2, <1>3, <1>4 DEF Next, Worker, Over

-----------------------------------------------------------------------------
\* The invariant holds in every behaviour.
THEOREM Invariance == Spec => []IInv
  BY InitIInv, NextIInv, PTL DEF Spec

\* Every variable of a raw request keeps its type: it never reads more than it was
\* asked for.
THEOREM RawRequestTypes == Spec => []TypeOK
<1>1. IInv => TypeOK
  BY DEF IInv, BaseInv, RawTypes, TypeOK
<1> QED
  BY <1>1, Invariance, PTL

\* Without a call of the user the worker never uses a stream that is gone.
THEOREM RawCrashTakesUser == Spec => [](Quiet => fault = "none")
<1>1. IInv => (Quiet => fault = "none")
  BY DEF IInv, BaseInv, BaseSafe, Quiet
<1> QED
  BY <1>1, Invariance, PTL

\* An undisturbed raw request that ends without a callback had an error before it
\* was processed, and read a piece.
THEOREM SilenceIsStale == Spec => []SilentEndIsStale
<1>1. IInv => SilentEndIsStale
  BY NothingLeftBehind DEF IInv, OutcomesInv, EndIsTold, Ended, Quiet, SilentEndIsStale
<1> QED
  BY <1>1, Invariance, PTL

\* Data is never added to memory before there is a response to add it to.
THEOREM DataHasResponse == Spec => []HasResponseForData
<1>1. IInv => HasResponseForData
  BY DEF IInv, AddsAfterReading, ReadsIntoResponse, HasResponseForData
<1> QED
  BY <1>1, Invariance, PTL

\* Where files open at once, an undisturbed success read, holds and counted all
\* that was asked for.
THEOREM RawFinishedIsWhole ==
  ASSUME ~OpenMayFail
  PROVE  Spec => []FinishedHoldsAll
<1>1. IInv => FinishedHoldsAll
  <2> SUFFICES ASSUME IInv, Ended, Quiet, finished > 0
               PROVE  /\ received = wanted
                      /\ wanted > 0 => stored = wanted
                      /\ starts = 1 => bytesRead = wanted
    BY DEF FinishedHoldsAll
  <2>1. /\ pc = "ended" /\ ops = 0 /\ received = wanted /\ (received > 0 => ~error)
        /\ Holding = stored /\ Counting = bytesRead + 0 /\ bytesRead \in Nat /\ wanted \in Nat
        /\ starts = 1 /\ received = 0 => bytesRead = 0
    BY RawRequestAssumption
       DEF IInv, Received, OutcomesInv, SuccessIsSound, Ended, Returned, Quiet, Holding, Counting, RawTypes, BaseInv, BaseTypeOK
  <2> QED
    BY <2>1 DEF IInv, Files, BodyStored
<1> QED
  BY <1>1, Invariance, PTL
=============================================================================
