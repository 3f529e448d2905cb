--------------------------- MODULE HandledRequests ---------------------------
(***************************************************************************)
(* The asynchronous handler together with the requests it is given: what   *)
(* becomes of a request between addRequest and the destructor, while its   *)
(* user may cancel, pause or continue it, and may give it again.           *)
(*                                                                         *)
(* Each step is one of AsyncRequestHandler with what it does to a request, *)
(* or leaves the handler alone.  A request is here what its callbacks tell *)
(* (RequestPromise) and the flags that outlive a processing; HttpRequest   *)
(* has what goes on within one.  It is an HTTP request, or a raw one that  *)
(* waits for a reply: one that has nothing to read ends in Done whatever   *)
(* error it has (RawRequest).                                              *)
(***************************************************************************)
EXTENDS AsyncRequestHandler

CONSTANTS
    Requests,       \* the requests
    RequestOf,      \* the request each call of addRequest passes
    Chunked,        \* those whose reply comes in chunks
    Multihomed,     \* those whose host has more than one address
    Unresolved,     \* those whose constructor may set an error (no address found, or a URL
                    \* that it refuses) before anybody can have signed up
    Kept,           \* those the user keeps a reference to
    MaxCalls        \* bound: calls of cancel, pauseProcessing, continueProcessing

ASSUME RequestsAssumption ==
    /\ RequestOf \in [Jobs \ EmptyJobs -> Requests]
    /\ Chunked \union Multihomed \union Unresolved \union Kept \subseteq Requests
    /\ MaxCalls \in Nat

VARIABLES
    failedOnce,     \* requests with m_error
    pausedNow,      \* requests with m_paused
    canceledOnce,   \* requests with m_canceled
    told,           \* what the callbacks of its request told since each job was given
    stale,          \* jobs whose request came to the handler with an error or a flag
    waits,          \* the coroutine being resumed waits for a chunk size: "no", "waits", "waited"
    calls           \* which calls the user made for each

flags == <<failedOnce, pausedNow, canceledOnce>>
requestVars == <<flags, told, stale, waits, calls>>
handledVars == <<vars, requestVars>>

HandledInit ==
    /\ Init
    /\ failedOnce \in SUBSET Unresolved
    /\ pausedNow = {} /\ canceledOnce = {}
    /\ told = [j \in Jobs \ EmptyJobs |-> {}]
    /\ stale = {}
    /\ waits = "no"
    /\ calls = [r \in Requests |-> {}]

Given(j) == add[j] # "idle"

\* The callbacks of some requests run: that counts for each job they were given with.
Tell(set, what) ==
    told' = [j \in Jobs \ EmptyJobs |->
                IF Given(j) /\ RequestOf[j] \in set THEN told[j] \union {what} ELSE told[j]]

-----------------------------------------------------------------------------
(* What a resume() does to the request of the coroutine. *)

Interrupted(r) == r \in pausedNow \union canceledOnce

\* The request gets its error; no coroutine clears it.
Fail(r) ==
    /\ failedOnce' = failedOnce \union {r}
    /\ Tell({r}, "failed")
    /\ UNCHANGED <<pausedNow, canceledOnce>>

\* The coroutine returns in silence: it is interrupted, or has an older error.
Leave(r) == (Interrupted(r) \/ r \in failedOnce) /\ UNCHANGED <<flags, told>>

Succeed(r) == r \notin failedOnce /\ Tell({r}, "finished") /\ UNCHANGED flags

\* An address that fails is an error too, and the next one is tried.
GoOn(r) == (r \in Multihomed /\ Fail(r)) \/ UNCHANGED <<flags, told>>

\* A chunk size that is not there yet is waited for within resume(), and the
\* worker with it.
Wait ==
    /\ worker = "for" /\ it # 0
    /\ waits = "no"
    /\ RequestOf[requests[it]] \in Chunked /\ resumes[requests[it]] > 0
    /\ waits' = "waits"
    /\ UNCHANGED <<vars, flags, told, stale, calls>>

\* The line is there, a flag is set, or the time is over.
WaitWithoutTimeout ==
    /\ waits = "waits"
    /\ waits' = IF Interrupted(RequestOf[requests[it]]) THEN "waited" ELSE "no"
    /\ UNCHANGED <<vars, flags, told, stale, calls>>
WaitIsOver ==
    /\ waits = "waits"
    /\ waits' = "waited"
    /\ UNCHANGED <<vars, flags, told, stale, calls>>

ResumeRequest ==
    /\ waits # "waits"
    /\ worker = "for" /\ it # 0
    /\ \/ ResumeMore /\ GoOn(RequestOf[requests[it]])
       \/ ResumeDone /\ LET r == RequestOf[requests[it]] IN Leave(r) \/ Fail(r) \/ Succeed(r)
       \/ ResumeThrow /\ UNCHANGED <<flags, told>>
    /\ waits' = "no"
    /\ UNCHANGED <<stale, calls>>

\* What the worker does between two calls of resume().
Walk == WhileCheck \/ Look \/ EndPass \/ Advance \/ AdvancePtr \/ Lock \/ Erase \/ ErasePtr

HandledWork == Wait \/ WaitIsOver \/ ResumeRequest \/ (Walk /\ UNCHANGED requestVars)

-----------------------------------------------------------------------------
(* The threads that add, the owner, and the user of the requests. *)

Others(j) == {k \in Jobs \ (EmptyJobs \union {j}) : RequestOf[k] = RequestOf[j]}

\* Who gives a request again lets its processing end first; a callback may do it.
MayGive(j) == j \in EmptyJobs \/ \A k \in Others(j) : add[k] \in {"idle", "refused"} \/ k \in finished

\* Nothing resets the error or the flags of a request that is given again, or that
\* its constructor left with an error.
Burdened(r) == r \in failedOnce \/ Interrupted(r)

Accept(j) ==
    /\ stale' = IF j \notin EmptyJobs /\ Burdened(RequestOf[j]) THEN stale \union {j} ELSE stale
    /\ UNCHANGED <<flags, told>>

Refuse(j) ==
    /\ IF j \in EmptyJobs THEN UNCHANGED <<flags, told>> ELSE Fail(RequestOf[j])
    /\ UNCHANGED stale

Give(j) ==
    /\ MayGive(j)
    /\ AddCheck(j)
    /\ IF working THEN Accept(j) ELSE Refuse(j)
    /\ UNCHANGED <<waits, calls>>

CancelListed ==
    /\ CancelAll
    /\ LET given == {RequestOf[j] : j \in Abandoned}
       IN canceledOnce' = canceledOnce \union given /\ Tell(given, "canceled")
    /\ UNCHANGED <<failedOnce, pausedNow, stale, waits, calls>>

HandledOwnerProceed == CancelListed \/ ((JoinInStop \/ JoinInDestructor) /\ UNCHANGED requestVars)

CallNames == {"cancel", "pause", "continue"}
Calls == Cardinality({c \in Requests \X CallNames : c[2] \in calls[c[1]]})
Call(r, name) ==
    /\ owner # "gone"
    /\ Calls < MaxCalls /\ name \notin calls[r]
    /\ calls' = [calls EXCEPT ![r] = @ \union {name}]
    /\ UNCHANGED <<vars, failedOnce, stale, waits>>

Cancel(r) ==
    /\ Call(r, "cancel")
    /\ canceledOnce' = canceledOnce \union {r}
    /\ Tell({r}, "canceled")
    /\ UNCHANGED pausedNow

PauseProcessing(r) ==
    /\ Call(r, "pause")
    /\ pausedNow' = pausedNow \union {r}
    /\ Tell({r}, "paused")
    /\ UNCHANGED canceledOnce

ContinueProcessing(r) ==
    /\ Call(r, "continue")
    /\ pausedNow' = pausedNow \ {r}
    /\ UNCHANGED <<canceledOnce, told>>

User(r) == Cancel(r) \/ PauseProcessing(r) \/ ContinueProcessing(r)

-----------------------------------------------------------------------------
HandledStep ==
    \/ HandledWork
    \/ \E j \in Jobs : Give(j) \/ (AddProceed(j) /\ UNCHANGED requestVars)
    \/ (Run \/ SetLimit \/ Stop \/ Destroy) /\ UNCHANGED requestVars
    \/ HandledOwnerProceed
    \/ \E r \in Kept : User(r)

HandledNext == (fault = "none" /\ HandledStep) \/ (Over /\ UNCHANGED requestVars)

\* The operating system schedules every thread that can run: the worker, a thread
\* inside addRequest, and the owner inside stop() or the destructor; and the clock
\* ends every wait for a chunk size.  Nobody has to call anything.
HandledFairness ==
    /\ WF_handledVars(fault = "none" /\ HandledWork)
    /\ \A j \in Jobs : WF_handledVars(fault = "none" /\ AddProceed(j) /\ UNCHANGED requestVars)
    /\ WF_handledVars(fault = "none" /\ HandledOwnerProceed)

HandledSpec == HandledInit /\ [][HandledNext]_handledVars
HandledFairSpec == HandledSpec /\ HandledFairness

-----------------------------------------------------------------------------
(* Properties *)

LetAlone(r) == calls[r] = {}

\* Each time a request is given, its processing tells what became of it, by the
\* time its coroutine has ended and at the latest in the destructor: the callbacks
\* run for an outcome, or for the pause that may let it leave in silence.  The
\* exception is a request that came with an error or a flag from before, of its
\* constructor, an earlier processing or its user: nothing resets those, and the
\* coroutine returns at the first of them it looks at and tells nobody.
AcceptedAreTold ==
    \A j \in Jobs \ EmptyJobs :
        add[j] = "accepted" /\ (j \in finished \/ (owner = "gone" /\ ~EmptyAdded)) =>
            told[j] # {} \/ j \in stale

\* The handler never takes a success back: a request that was given once, that its
\* user let alone and whose finished callbacks ran is neither failed nor canceled,
\* which would remove its file.
FinishedIsKept ==
    ~EmptyAdded =>
        \A j \in Jobs \ EmptyJobs :
            /\ LetAlone(RequestOf[j])
            /\ \A k \in Others(j) : ~Given(k)
            /\ "finished" \in told[j]
            => told[j] = {"finished"}

\* While the handler works, each request it accepted comes to tell its outcome or
\* its pause, although the worker stands still while it waits for a chunk size; but
\* for one that came with an error or a flag from before.
AcceptedIsTold ==
    \A j \in Jobs \ EmptyJobs :
        add[j] = "accepted" ~> told[j] # {} \/ j \in stale \/ ~working \/ fault # "none"

\* The range of every variable.
RequestTypes ==
    /\ failedOnce \subseteq Requests /\ pausedNow \subseteq Requests /\ canceledOnce \subseteq Requests
    /\ told \in [Jobs \ EmptyJobs -> SUBSET {"finished", "failed", "canceled", "paused"}]
    /\ stale \subseteq Jobs \ EmptyJobs
    /\ waits \in {"no", "waits", "waited"}
    /\ calls \in [Requests -> SUBSET CallNames]
HandledTypeOK == TypeOK /\ RequestTypes
=============================================================================
