---------------------------- MODULE RequestBase ----------------------------
(***************************************************************************)
(* The part of a request that every kind of request shares:                *)
(* source/base_request.cpp.  Two threads use it without a lock, the worker *)
(* that processes the request and the user who cancels, pauses or          *)
(* continues it.  setStatus is a call of several steps, so each thread has *)
(* a list of what its call still has to do; addResponseData is one too.    *)
(*                                                                         *)
(* Two threads that use m_output_file at once are a data race.  It is      *)
(* modelled where one of them finds the stream gone that it had tested:    *)
(* the program crashes or carries on without effect.                       *)
(***************************************************************************)
EXTENDS Naturals, Sequences

CONSTANTS
    Targets,        \* where requests may put the body, of "response", "file" and "unnamed"
    OpenMayFail,    \* the output file may be impossible to open
    MaxOps          \* bound: calls of cancel, pauseProcessing, continueProcessing

ASSUME RequestBaseAssumption ==
    Targets \subseteq {"response", "file", "unnamed"} /\ OpenMayFail \in BOOLEAN /\ MaxOps \in Nat

VARIABLES
    \* the members of the request
    target,             \* m_output_to_file and m_output_path, which may have been left empty
    paused, canceled,   \* m_paused, m_canceled
    error,              \* m_error is set
    status,             \* m_status
    file,               \* m_output_file: "none", "open", or "failed" when not is_open()
    bytesRead,          \* m_bytes_read
    \* what the user sees
    finished, failed,   \* how often the callbacks ran since processing last began
    exists, stored,     \* the output file is there; bytes in it, or in the response
    \* the calls in progress
    todo, setting,      \* per thread: steps its setStatus has left, and its argument
    adding, piece,      \* where addResponseData is, and the size of its argument
    ops,                \* calls the user made
    fault               \* why the program died, "none" while it has not

flags == <<paused, canceled>>
output == <<target, file, exists, stored, bytesRead>>
told == <<finished, failed>>
calls == <<todo, setting>>
intake == <<adding, piece>>
baseVars == <<flags, error, status, output, told, calls, intake, ops, fault>>

Threads == {"worker", "user"}
Status == {"Waiting", "Processed", "Error", "Writing", "Reading", "Paused", "Resumed", "Canceled", "Done"}

BaseInit ==
    /\ paused = FALSE /\ canceled = FALSE
    /\ error \in BOOLEAN            \* the constructor may have failed to resolve the URL, ...
    /\ status \in {"Waiting", "Error"} /\ (status = "Error" => error)     \* ... or refused it
    /\ target \in Targets
    /\ file = "none" /\ bytesRead = 0
    /\ exists \in BOOLEAN /\ (exists => target = "file")    \* an older file may be there
    /\ stored = IF exists THEN 1 ELSE 0
    /\ finished = 0 /\ failed = 0
    /\ todo = [t \in Threads |-> <<>>] /\ setting = [t \in Threads |-> "Waiting"]
    /\ adding = "no" /\ piece = 0
    /\ ops = 0
    /\ fault = "none"

-----------------------------------------------------------------------------
(* setStatus.  The flag of Paused, Resumed and Canceled is set at once; the *)
(* callbacks run before the file is closed and removed, and m_status is    *)
(* assigned last.                                                          *)

StepsOfKeepFile(s) ==
    CASE s = "Resumed" -> <<"notify", "assign">>
      [] s \in {"Paused", "Error", "Canceled", "Done"} -> <<"notify", "close", "reset", "assign">>
      [] OTHER -> <<"assign">>
StepsOf(s) ==
    CASE s = "Resumed" -> <<"notify", "assign">>
      [] s \in {"Paused", "Done"} -> <<"notify", "close", "reset", "assign">>
      [] s \in {"Error", "Canceled"} -> <<"notify", "close", "reset", "remove", "assign">>
      [] OTHER -> <<"assign">>

SetStatus(t, s) ==
    /\ todo' = [todo EXCEPT ![t] = StepsOf(s)]
    /\ setting' = [setting EXCEPT ![t] = s]
    /\ paused' = CASE s = "Paused" -> TRUE [] s = "Resumed" -> FALSE [] OTHER -> paused
    /\ canceled' = (canceled \/ s = "Canceled")

\* The error is set before the failed callbacks run, and nothing ever clears it.
SetError(t) ==
    /\ error' = TRUE
    /\ SetStatus(t, "Error")

At(t, step) == todo[t] # <<>> /\ Head(todo[t]) = step
Pop(t) == todo' = [todo EXCEPT ![t] = Tail(@)]

Notify(t) ==
    /\ At(t, "notify")
    /\ finished' = IF setting[t] = "Done" THEN finished + 1 ELSE finished
    /\ failed' = IF setting[t] = "Error" THEN failed + 1 ELSE failed
    /\ Pop(t)
    /\ UNCHANGED <<flags, error, status, output, setting, intake, ops, fault>>

\* The test of m_output_file; without a stream there is nothing to reset.
CloseUntested(t) ==
    /\ At(t, "close")
    /\ Pop(t)
    /\ UNCHANGED <<flags, error, status, output, told, setting, intake, ops, fault>>
Close(t) ==
    /\ At(t, "close")
    /\ todo' = [todo EXCEPT ![t] = IF file = "none" THEN Tail(Tail(@)) ELSE Tail(@)]
    /\ UNCHANGED <<flags, error, status, output, told, setting, intake, ops, fault>>

Reset(t) ==
    /\ At(t, "reset")
    /\ file' = "none"
    /\ IF file = "none" THEN fault' \in {"none", "crash"} ELSE UNCHANGED fault
    /\ Pop(t)
    /\ UNCHANGED <<flags, error, status, target, exists, stored, bytesRead, told, setting, intake, ops>>

Remove(t) ==
    /\ At(t, "remove")
    /\ exists' = FALSE
    /\ stored' = IF exists THEN 0 ELSE stored
    /\ Pop(t)
    /\ UNCHANGED <<flags, error, status, target, file, bytesRead, told, setting, intake, ops, fault>>

Assign(t) ==
    /\ At(t, "assign")
    /\ status' = setting[t]
    /\ Pop(t)
    /\ UNCHANGED <<flags, error, output, told, setting, intake, ops, fault>>

SetStatusStep(t) == Notify(t) \/ Close(t) \/ Reset(t) \/ Remove(t) \/ Assign(t)

-----------------------------------------------------------------------------
(* addResponseData, by the worker. *)

\* Entering the call: to memory, to a file, or to a file without a name.
AddResponseData(n) ==
    /\ piece' = n
    /\ IF target = "unnamed"
       THEN SetError("worker") /\ UNCHANGED adding
       ELSE adding' = (IF target = "file" THEN "open" ELSE "write") /\ UNCHANGED <<calls, flags, error>>

\* A stream that is not there is made, which truncates the file.
MakeFile ==
    /\ adding = "open"
    /\ file = "none"
    /\ adding' = "test"
    /\ \/ file' = "open" /\ exists' = TRUE /\ stored' = 0
       \/ OpenMayFail /\ file' = "failed" /\ UNCHANGED <<exists, stored>>
    /\ UNCHANGED <<flags, error, status, target, bytesRead, told, calls, piece, ops, fault>>

HaveFile ==
    /\ adding = "open"
    /\ file # "none"
    /\ adding' = "test"
    /\ UNCHANGED <<flags, error, status, output, told, calls, piece, ops, fault>>

\* A stream that did not open is opened once more, to append.
ReopenFile ==
    /\ adding = "test"
    /\ file = "failed"
    /\ \/ /\ file' = "open" /\ exists' = TRUE
          /\ adding' = "write"
          /\ UNCHANGED <<calls, flags, error>>
       \/ /\ SetError("worker")
          /\ adding' = "no"
          /\ UNCHANGED <<file, exists>>
    /\ UNCHANGED <<status, target, stored, bytesRead, told, piece, ops, fault>>

FileReady ==
    /\ adding = "test"
    /\ file = "open"
    /\ adding' = "write"
    /\ UNCHANGED <<flags, error, status, output, told, calls, piece, ops, fault>>

\* The other thread has reset the stream since it was made or found.
MissFile ==
    /\ adding = "test"
    /\ file = "none"
    /\ adding' = "write"
    /\ fault' \in {"none", "crash"}
    /\ UNCHANGED <<flags, error, status, output, told, calls, piece, ops>>

\* The other thread may have reset the stream since it was tested, or removed the
\* file, and then what is written is lost with it.
Write ==
    /\ adding = "write"
    /\ adding' = "account"
    /\ stored' = IF target = "file" /\ ~(exists /\ file = "open") THEN stored ELSE stored + piece
    /\ IF target = "file" /\ file = "none" THEN fault' \in {"none", "crash"} ELSE UNCHANGED fault
    /\ UNCHANGED <<flags, error, status, target, file, exists, bytesRead, told, calls, piece, ops>>

Account ==
    /\ adding = "account"
    /\ bytesRead' = bytesRead + piece
    /\ adding' = "no"
    /\ UNCHANGED <<flags, error, status, target, file, exists, stored, told, calls, piece, ops, fault>>

AddStep == MakeFile \/ HaveFile \/ ReopenFile \/ FileReady \/ MissFile \/ Write \/ Account

-----------------------------------------------------------------------------
(* The user: cancel, pauseProcessing, continueProcessing. *)

UserCall(s) ==
    /\ todo["user"] = <<>>
    /\ ops < MaxOps
    /\ ops' = ops + 1
    /\ SetStatus("user", s)
    /\ UNCHANGED <<error, status, output, told, intake, fault>>

Cancel == UserCall("Canceled")
PauseProcessing == UserCall("Paused")
ContinueProcessing == UserCall("Resumed")

UserActs == Cancel \/ PauseProcessing \/ ContinueProcessing \/ SetStatusStep("user")

\* The worker has returned from every call into the request.
Returned == todo["worker"] = <<>> /\ adding = "no"

\* A call of setStatus has some of its last steps left.
CallsTypeOK ==
    /\ paused \in BOOLEAN /\ canceled \in BOOLEAN
    /\ setting \in [Threads -> Status] /\ DOMAIN todo = Threads
    /\ \A t \in Threads : \E k \in 0 .. Len(StepsOf(setting[t])) :
          todo[t] = SubSeq(StepsOf(setting[t]), k + 1, Len(StepsOf(setting[t])))

BaseTypeOK ==
    /\ CallsTypeOK
    /\ error \in BOOLEAN /\ exists \in BOOLEAN
    /\ status \in Status
    /\ target \in Targets
    /\ file \in {"none", "open", "failed"}
    /\ bytesRead \in Nat /\ stored \in Nat /\ finished \in Nat /\ failed \in Nat /\ piece \in Nat
    /\ adding \in {"no", "open", "test", "write", "account"}
    /\ ops \in 0 .. MaxOps
    /\ fault \in {"none", "crash"}
=============================================================================
