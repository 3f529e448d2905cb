------------------------------ MODULE Callbacks ------------------------------
(***************************************************************************)
(* The callbacks of a request: the signupFor... functions and the notify   *)
(* functions of base_request.hpp and base_request.cpp.  A callback is run  *)
(* in the middle of setStatus or addResponseData, and may call cancel,     *)
(* pauseProcessing, continueProcessing or a signupFor... function of the   *)
(* request that runs it: calls nest, and the calls under way are a stack.  *)
(*                                                                         *)
(* RequestBase has two threads that use one request; here there is one     *)
(* thread at a time, and in its place the calls that come from within.     *)
(***************************************************************************)
EXTENDS Naturals, SequencesExt, FiniteSets

CONSTANTS
    SignUps,        \* the sign-ups that may be made, [id, event, by]
    MaxSigned,      \* bound: how many of them are made
    MaxOps,         \* bound: calls of cancel, pauseProcessing, continueProcessing
    MaxPieces       \* bound: pieces of data that are added

Events == {"BytesRead", "Finished", "StatusChange", "Paused", "Resumed", "Cancelled", "Failed"}

\* A function, or a member function of an object that is held weakly or pointed
\* to.  A function may be empty; the overload for one without arguments does not
\* look.  (Nobody can sign up by reference: those overloads do not compile where
\* they are used, since the lambda holds a constant copy of the object.)
Ways == {"function", "emptyUnchecked", "empty", "weak", "pointer", "null"}

ASSUME CallbacksAssumption ==
    /\ \A s \in SignUps : s.event \in Events /\ s.by \in Ways
    /\ {MaxSigned, MaxOps, MaxPieces} \subseteq Nat

VARIABLES
    \* the request
    callbacks,          \* the seven lists, m_..._callbacks, by event
    frames,             \* the calls under way, the innermost first
    status,             \* m_status
    paused, canceled,   \* m_paused, m_canceled
    bytesRead,          \* m_bytes_read
    file, exists,       \* m_output_file is open; the file is there
    \* its surroundings
    held,               \* sign-ups whose weakly held object still has an owner
    work,               \* how far the processing of the request has come
    looked,             \* it has looked at the flags since, and went on
    ops,                \* calls that the user and the callbacks made
    fault,              \* why the program died, "none" while it has not
    \* history
    due, times,         \* how often each was to be called, and was
    last,               \* what it could see at the last time: status, bytesRead
    outermost,          \* argument of the last setStatus that no other contains
    answered            \* during it, a status callback called back

members == <<status, paused, canceled, bytesRead, file, exists>>
history == <<due, times, last, outermost, answered>>
vars == <<callbacks, frames, members, held, work, looked, ops, fault, history>>

NoOne == [id |-> 0, event |-> "none", by |-> "none"]

Init ==
    /\ callbacks = [e \in Events |-> <<>>]
    /\ frames = <<>>
    /\ status = "Waiting" /\ paused = FALSE /\ canceled = FALSE /\ bytesRead = 0
    /\ file = "none" /\ exists = FALSE
    /\ held = {s \in SignUps : s.by = "weak"}
    /\ work = "Waiting" /\ looked = FALSE /\ ops = 0 /\ fault = "none"
    /\ due = [s \in SignUps |-> 0] /\ times = [s \in SignUps |-> 0]
    /\ last = [s \in SignUps |-> <<"Waiting", 0>>]
    /\ outermost = "Waiting" /\ answered = FALSE

-----------------------------------------------------------------------------
(* Signing up. *)

Signed == UNION {ToSet(callbacks[e]) : e \in Events}

Loops == {"notify", "tell", "tellBytes"}
EventOf == [Paused |-> "Paused", Resumed |-> "Resumed", Error |-> "Failed", Canceled |-> "Cancelled", Done |-> "Finished"]

\* The list that the loop of a call goes over.
ListAtFailedForBoth(step, s) ==
    CASE step = "notify" -> EventOf[IF s = "Canceled" THEN "Error" ELSE s]
      [] step = "tell" -> "StatusChange"
      [] step = "tellBytes" -> "BytesRead"
ListAt(step, s) ==
    CASE step = "notify" -> EventOf[s]
      [] step = "tell" -> "StatusChange"
      [] step = "tellBytes" -> "BytesRead"

\* The calls that go over the list e.
GoingOver(e) ==
    {k \in 1 .. Len(frames) :
        Head(frames[k].steps) \in Loops /\ ListAt(Head(frames[k].steps), frames[k].status) = e}

\* Outside of all calls, or within a callback.
UserRuns == frames # <<>> => Head(frames).running # NoOne

\* emplace_back may move the elements; a loop over them is then left with an
\* iterator to where they were.
Enlist(s, list) ==
    /\ UserRuns
    /\ s \notin Signed /\ Cardinality(Signed) < MaxSigned
    /\ callbacks' = [callbacks EXCEPT ![list] = Append(@, s)]
    /\ IF GoingOver(list) = {} THEN UNCHANGED fault ELSE fault' \in {"none", "iterator"}
    /\ UNCHANGED <<frames, members, held, work, looked, ops, history>>

SignupForBytesReadChange(s) == s.event = "BytesRead" /\ Enlist(s, "BytesRead")
SignupForFinished(s) == s.event = "Finished" /\ Enlist(s, "Finished")
SignupForStatusChange(s) == s.event = "StatusChange" /\ Enlist(s, "StatusChange")
SignupForPaused(s) == s.event = "Paused" /\ Enlist(s, "Paused")
SignupForResumed(s) == s.event = "Resumed" /\ Enlist(s, "Resumed")
SignupForCancelled(s) == s.event = "Cancelled" /\ Enlist(s, "Cancelled")
SignupForFailed(s) == s.event = "Failed" /\ Enlist(s, "Failed")

SignUp(s) ==
    \/ SignupForBytesReadChange(s) \/ SignupForFinished(s) \/ SignupForStatusChange(s)
    \/ SignupForPaused(s) \/ SignupForResumed(s) \/ SignupForCancelled(s) \/ SignupForFailed(s)

-----------------------------------------------------------------------------
(* Calls and their loops. *)

StepsOfAssignFirst(s) ==
    CASE s = "Resumed" -> <<"assign", "notify", "tell">>
      [] s \in {"Paused", "Done"} -> <<"assign", "notify", "close", "tell">>
      [] s \in {"Error", "Canceled"} -> <<"assign", "notify", "close", "remove", "tell">>
      [] OTHER -> <<"assign", "tell">>
StepsOfTellFirst(s) ==
    CASE s = "Resumed" -> <<"notify", "tell", "assign">>
      [] s \in {"Paused", "Done"} -> <<"notify", "close", "tell", "assign">>
      [] s \in {"Error", "Canceled"} -> <<"notify", "close", "remove", "tell", "assign">>
      [] OTHER -> <<"tell", "assign">>
StepsOfCancelLikePause(s) ==
    CASE s = "Resumed" -> <<"notify", "assign", "tell">>
      [] s \in {"Paused", "Canceled", "Done"} -> <<"notify", "close", "assign", "tell">>
      [] s = "Error" -> <<"notify", "close", "remove", "assign", "tell">>
      [] OTHER -> <<"assign", "tell">>
StepsOf(s) ==
    CASE s = "Resumed" -> <<"notify", "assign", "tell">>
      [] s \in {"Paused", "Done"} -> <<"notify", "close", "assign", "tell">>
      [] s \in {"Error", "Canceled"} -> <<"notify", "close", "remove", "assign", "tell">>
      [] OTHER -> <<"assign", "tell">>

\* A call that is at the first of the steps.  A loop keeps the end it found when
\* it began.
Frame(s, steps) ==
    [status |-> s, steps |-> steps, next |-> 1, running |-> NoOne,
     end |-> IF Head(steps) \in Loops THEN Len(callbacks[ListAt(Head(steps), s)]) ELSE 0]

\* What a call goes on with behind a step; it returns behind its last.
Return(stack) ==
    LET rest == Tail(Head(stack).steps)
    IN IF rest = <<>> THEN Tail(stack) ELSE <<Frame(Head(stack).status, rest)>> \o Tail(stack)

\* Who is signed up for e has a call coming.
Owe(e) == due' = [s \in SignUps |-> IF s \in Signed /\ s.event = e THEN due[s] + 1 ELSE due[s]]

\* The outermost setStatus under way, if there is one.
Sets == {k \in 1 .. Len(frames) : frames[k].status # "none"}
Outer == frames[CHOOSE k \in Sets : \A j \in Sets : j <= k]

SetStatus(s) ==
    /\ frames' = <<Frame(s, StepsOf(s))>> \o frames
    /\ paused' = CASE s = "Paused" -> TRUE [] s = "Resumed" -> FALSE [] OTHER -> paused
    /\ canceled' = (canceled \/ s = "Canceled")
    /\ IF s \in DOMAIN EventOf THEN Owe(EventOf[s]) ELSE UNCHANGED due
    /\ IF Sets = {} THEN outermost' = s /\ answered' = FALSE
       ELSE answered' = (answered \/ Head(Outer.steps) = "tell") /\ UNCHANGED outermost
    /\ UNCHANGED <<callbacks, status, bytesRead, file, exists, held, fault, times, last>>

Looping == frames # <<>> /\ Head(Head(frames).steps) \in Loops /\ Head(frames).running = NoOne
Top == Head(frames)
Callback == callbacks[ListAt(Head(Top.steps), Top.status)][Top.next]

\* What a callback is not run for: an empty function, an object that is gone.
Skipped(s) == s.by \in {"empty", "null"} \/ (s.by = "weak" /\ s \notin held)

Skip ==
    /\ Looping /\ Top.next <= Top.end
    /\ Skipped(Callback)
    /\ frames' = [frames EXCEPT ![1].next = @ + 1]
    /\ UNCHANGED <<callbacks, members, held, work, looked, ops, fault, history>>

Invoke ==
    /\ Looping /\ Top.next <= Top.end
    /\ ~Skipped(Callback)
    /\ IF Callback.by = "emptyUnchecked"
       THEN fault' = "bad_function_call" /\ UNCHANGED <<frames, times, last>>
       ELSE /\ frames' = [frames EXCEPT ![1].running = Callback]
            /\ times' = [times EXCEPT ![Callback] = @ + 1]
            /\ last' = [last EXCEPT ![Callback] = <<status, bytesRead>>]
            /\ UNCHANGED fault
    /\ UNCHANGED <<callbacks, members, held, work, looked, ops, due, outermost, answered>>

CallbackReturns ==
    /\ frames # <<>> /\ Top.running # NoOne
    /\ frames' = [frames EXCEPT ![1].running = NoOne, ![1].next = @ + 1]
    /\ UNCHANGED <<callbacks, members, held, work, looked, ops, fault, history>>

EndLoop ==
    /\ Looping /\ Top.next > Top.end
    /\ frames' = Return(frames)
    /\ UNCHANGED <<callbacks, members, held, work, looked, ops, fault, history>>

At(step) == frames # <<>> /\ Head(Top.steps) = step

Close ==
    /\ At("close")
    /\ file' = "none"
    /\ frames' = Return(frames)
    /\ UNCHANGED <<callbacks, status, paused, canceled, bytesRead, exists, held, work, looked, ops, fault, history>>

RemoveFile ==
    /\ At("remove")
    /\ exists' = FALSE
    /\ frames' = Return(frames)
    /\ UNCHANGED <<callbacks, status, paused, canceled, bytesRead, file, held, work, looked, ops, fault, history>>

Assign ==
    /\ At("assign")
    /\ status' = Top.status
    /\ Owe("StatusChange")
    /\ frames' = Return(frames)
    /\ UNCHANGED <<callbacks, paused, canceled, bytesRead, file, exists, held, work, looked, ops, fault, times, last, outermost, answered>>

Inside == Skip \/ Invoke \/ CallbackReturns \/ EndLoop \/ Close \/ RemoveFile \/ Assign

-----------------------------------------------------------------------------
(* The calls: by the user and from callbacks, and by the processing of the  *)
(* request, which looks at the flags before it receives anything.          *)

UserCall(s) ==
    /\ UserRuns
    /\ ops < MaxOps
    /\ ops' = ops + 1
    /\ SetStatus(s)
    /\ UNCHANGED <<work, looked>>

Cancel == UserCall("Canceled")
PauseProcessing == UserCall("Paused")
ContinueProcessing == UserCall("Resumed")

\* The owner of a weakly held object lets go of it; the callback that is running
\* keeps it until it returns.
LetGo(s) ==
    /\ s \in held \intersect Signed
    /\ held' = held \ {s}
    /\ UNCHANGED <<callbacks, frames, members, work, looked, ops, fault, history>>

Between == frames = <<>>
Interrupted == paused \/ canceled
ToStage(s) == SetStatus(s) /\ UNCHANGED ops

\* Each loop looks at the flags at the start of a turn, and is left behind a turn:
\* what the user does in between is seen in the next loop.
Look ==
    /\ Between /\ ~Interrupted
    /\ work \in {"Processed", "Writing", "Reading"} /\ ~looked
    /\ looked' = TRUE
    /\ UNCHANGED <<callbacks, frames, members, held, work, ops, fault, history>>

Proceed ==
    /\ Between
    /\ \E k \in 1 .. 3 :
          /\ work = <<"Waiting", "Processed", "Writing">>[k]
          /\ work' = <<"Processed", "Writing", "Reading">>[k]
    /\ work = "Waiting" \/ looked
    /\ looked' = FALSE
    /\ ToStage(work')

\* addResponseData, to a file that opens.
Receive ==
    /\ Between /\ ~Interrupted
    /\ work = "Reading" /\ looked
    /\ bytesRead < MaxPieces
    /\ bytesRead' = bytesRead + 1
    /\ file' = "open" /\ exists' = TRUE
    /\ frames' = <<Frame("none", <<"tellBytes">>)>>
    /\ Owe("BytesRead")
    /\ UNCHANGED <<callbacks, status, paused, canceled, held, work, looked, ops, fault, times, last, outermost, answered>>

\* Behind the last piece, or behind a head that is no more than a status.
Finish == Between /\ work = "Reading" /\ looked /\ work' = "over" /\ ToStage("Done") /\ UNCHANGED looked

\* An error, too, may come when a flag was raised since the loop looked, and the first
\* one, of the socket, before any loop.
GiveUp ==
    /\ Between
    /\ work # "over" /\ (~Interrupted \/ looked \/ work = "Waiting")
    /\ work' = "over"
    /\ ToStage("Error")
    /\ UNCHANGED looked

Processing == Look \/ Proceed \/ Receive \/ Finish \/ GiveUp
User == Cancel \/ PauseProcessing \/ ContinueProcessing \/ \E s \in SignUps : SignUp(s) \/ LetGo(s)

Over == (fault # "none" \/ (Between /\ (work = "over" \/ Interrupted))) /\ UNCHANGED vars
Next == (fault = "none" /\ (Inside \/ Processing \/ User)) \/ Over

Spec == Init /\ [][Next]_vars

-----------------------------------------------------------------------------
(* Properties *)

\* Who can still be told.
Listening(s) == s \in Signed /\ s.by \in {"function", "weak", "pointer"} /\ (s.by = "weak" => s \in held)

\* When no call is under way, everybody who signed up has been told of each event
\* since, once; also of the events that happened while another was being told, and
\* if others signed up or went away in between.
EveryoneIsTold ==
    Between /\ fault = "none" => \A s \in SignUps : Listening(s) => times[s] = due[s]

\* Whatever the callbacks called back, the last thing that a status callback and a
\* bytes-read callback could see is what the request says for itself, once no call is
\* under way.
NobodyIsBehind ==
    Between /\ fault = "none" =>
        \A s \in SignUps : Listening(s) /\ times[s] > 0 =>
            /\ s.event = "StatusChange" => last[s][1] = status
            /\ s.event = "BytesRead" => last[s][2] = bytesRead

\* m_status is assigned behind the callbacks of an event: a request that is canceled
\* or paused from such a callback has the status of the outer call in the end (it is
\* Done, and yet canceled).  Only from a status callback does the inner call win.
OuterStatusStays ==
    Between /\ fault = "none" => status = outermost \/ answered

\* Calls may nest in any way, in the middle of receiving too: once they have
\* returned, a canceled request has no output file and no open stream.
CanceledHasNoFile ==
    Between /\ fault = "none" /\ canceled => ~exists /\ file = "none"

=============================================================================
