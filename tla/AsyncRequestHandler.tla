------------------------ MODULE AsyncRequestHandler ------------------------
(***************************************************************************)
(* The asynchronous request handler of source/request_handler.cpp: one     *)
(* worker thread resumes the coroutines of all added requests in turn,     *)
(* while any number of threads add requests and the owner runs, stops and  *)
(* destroys the handler.                                                   *)
(*                                                                         *)
(* The handler keeps two lists that must stay in step: the coroutines      *)
(* (m_processed_requests) and the requests the coroutines run on           *)
(* (m_processed_requests_pointers), which keep those requests alive.       *)
(* Writers take m_processed_requests_lock; the worker walks both lists     *)
(* without it.  An action here is one access to what the threads share.    *)
(*                                                                         *)
(* A std::list iterator is modelled by the position of its element, 0      *)
(* being the end of the list.  That is sound because elements are only     *)
(* appended by adders and only erased by the worker, which holds the only  *)
(* iterators.                                                              *)
(***************************************************************************)
EXTENDS Naturals, Sequences, SequencesExt, FiniteSets

CONSTANTS
    Jobs,           \* the calls of addRequest, each made by a thread of its own
    EmptyJobs,      \* those that pass a default Request (std::monostate)
    ThrowingJobs,   \* those whose coroutine may let an exception out of resume()
    MinResumes,     \* how often resume() returns true at least ...
    MaxResumes,     \* ... and at most, before the coroutine is done
    MaxRuns,        \* bound: how often the owner calls run()
    CounterRange,   \* 256, the range of the uint8_t counter
    InitialLimit,   \* 10, m_max_processed_requests_count as declared
    Limits          \* what setMaxProcessedRequestsCount is called with

ASSUME JobsAssumption == EmptyJobs \subseteq Jobs /\ ThrowingJobs \subseteq Jobs \ EmptyJobs
ASSUME ResumesAssumption == MinResumes \in Nat /\ MaxResumes \in Nat /\ MinResumes <= MaxResumes
ASSUME CounterAssumption == CounterRange \in Nat \ {0} /\ InitialLimit \in 0 .. CounterRange - 1
                            /\ Limits \subseteq 0 .. CounterRange - 1
ASSUME RunsAssumption == MaxRuns \in Nat

VARIABLES
    \* what the threads share
    working,        \* m_working
    requests,       \* m_processed_requests, by the job each coroutine belongs to
    pointers,       \* m_processed_requests_pointers
    locked,         \* m_processed_requests_lock is held
    limit,          \* m_max_processed_requests_count
    \* the worker thread
    worker,         \* where it is; "none" when m_execution_thread is not joinable
    it, ptr,        \* active_requests_iterator, active_requests_pointer_iterator
    counter,        \* active_requests_counter
    \* the other threads
    add,            \* where each call of addRequest is, or how it ended
    owner,          \* where the thread that owns the handler is
    runs,           \* how often run() started the worker
    \* the coroutines and requests, as far as the handler affects them
    resumes,        \* how often each was resumed and had more to do
    finished,       \* jobs whose coroutine ran to its end
    canceled,       \* jobs the destructor gave the status Canceled
    fault           \* why the program died, "none" while it has not

shared == <<working, requests, pointers, locked, limit>>
thread == <<worker, it, ptr, counter>>
outcome == <<resumes, finished, canceled>>
vars == <<shared, thread, add, owner, runs, outcome, fault>>

WorkerPlaces == {"none", "while", "look", "for", "advance", "advancePtr", "lock", "erase", "erasePtr", "exited"}
AddPlaces == {"idle", "lock", "pushPtr", "pushReq", "accepted", "refused"}
OwnerPlaces == {"idle", "stopping", "destroying", "canceling", "gone"}
Faults == {"none", "exception", "join_not_joinable", "erase_at_end"}

TypeOK ==
    /\ working \in BOOLEAN /\ locked \in BOOLEAN
    /\ requests \in Seq(Jobs) /\ pointers \in Seq(Jobs)
    /\ limit \in 0 .. CounterRange - 1 /\ counter \in 0 .. CounterRange - 1
    /\ worker \in WorkerPlaces
    /\ it \in 0 .. Len(requests) /\ ptr \in 0 .. Len(pointers)
    /\ add \in [Jobs -> AddPlaces]
    /\ owner \in OwnerPlaces
    /\ runs \in 0 .. MaxRuns
    /\ resumes \in [Jobs -> 0 .. MaxResumes]
    /\ finished \subseteq Jobs /\ canceled \subseteq Jobs
    /\ fault \in Faults

Init ==
    /\ working = FALSE
    /\ requests = <<>> /\ pointers = <<>>
    /\ locked = FALSE
    /\ limit = InitialLimit
    /\ worker = "none" /\ it = 0 /\ ptr = 0 /\ counter = 0
    /\ add = [j \in Jobs |-> "idle"]
    /\ owner = "idle"
    /\ runs = 0
    /\ resumes = [j \in Jobs |-> 0]
    /\ finished = {} /\ canceled = {}
    /\ fault = "none"

-----------------------------------------------------------------------------
(* Iterators. *)

Begin(list) == IF list = <<>> THEN 0 ELSE 1

\* ++iterator; one past the last element is the end, and libstdc++ links the
\* end of a list to its first element.
AfterNoEnd(list, i) == i + 1
After(list, i) == IF i = 0 THEN Begin(list) ELSE IF i < Len(list) THEN i + 1 ELSE 0

\* What erase() returned, wrapped to begin() when it is the end.
EraseAndWrap(list, i) == IF i < Len(list) THEN i ELSE Begin(RemoveAt(list, i))

-----------------------------------------------------------------------------
(* addRequest, by the thread of job j.  The caller keeps the handler alive *)
(* during the call.                                                        *)

Alive == owner \in {"idle", "stopping"}

\* The unlocked test of m_working; a request that comes too early or too late
\* gets the error Async_network_request_handler_was_not_lunched.
AddCheck(j) ==
    /\ add[j] = "idle"
    /\ Alive
    /\ add' = [add EXCEPT ![j] = IF working THEN "lock" ELSE "refused"]
    /\ UNCHANGED <<shared, thread, owner, runs, outcome, fault>>

AddLockMissing(j) ==
    /\ add[j] = "lock"
    /\ add' = [add EXCEPT ![j] = "pushPtr"]
    /\ UNCHANGED <<shared, thread, owner, runs, outcome, fault>>

AddLock(j) ==
    /\ add[j] = "lock"
    /\ ~locked
    /\ locked' = TRUE
    /\ add' = [add EXCEPT ![j] = "pushPtr"]
    /\ UNCHANGED <<working, requests, pointers, limit, thread, owner, runs, outcome, fault>>

PushPointer(j) ==
    /\ add[j] = "pushPtr"
    /\ pointers' = Append(pointers, j)
    /\ add' = [add EXCEPT ![j] = "pushReq"]
    /\ UNCHANGED <<working, requests, locked, limit, thread, owner, runs, outcome, fault>>

\* A std::monostate is listed as a pointer but has no coroutine to list.
WithCoroutineInFront(list, j) == IF j \in EmptyJobs THEN list ELSE <<j>> \o list
WithCoroutine(list, j) == IF j \in EmptyJobs THEN list ELSE Append(list, j)

PushRequest(j) ==
    /\ add[j] = "pushReq"
    /\ requests' = WithCoroutine(requests, j)
    /\ locked' = FALSE
    /\ add' = [add EXCEPT ![j] = "accepted"]
    /\ UNCHANGED <<working, pointers, limit, thread, owner, runs, outcome, fault>>

AddProceed(j) == AddLock(j) \/ PushPointer(j) \/ PushRequest(j)

-----------------------------------------------------------------------------
(* The worker thread that run() starts. *)

\* The outer loop is the only place that looks at m_working.
WhileCheckUntilIdle ==
    /\ worker = "while"
    /\ worker' = IF working /\ requests # <<>> THEN "look" ELSE "exited"
    /\ UNCHANGED <<shared, it, ptr, counter, add, owner, runs, outcome, fault>>
WhileCheck ==
    /\ worker = "while"
    /\ worker' = IF working THEN "look" ELSE "exited"
    /\ UNCHANGED <<shared, it, ptr, counter, add, owner, runs, outcome, fault>>

\* The unlocked test for work: sleep and go round again, or start a pass.
Look ==
    /\ worker = "look"
    /\ IF requests = <<>>
       THEN worker' = "while" /\ UNCHANGED <<it, ptr>>
       ELSE worker' = "for" /\ it' = Begin(requests) /\ ptr' = Begin(pointers)
    /\ UNCHANGED <<shared, counter, add, owner, runs, outcome, fault>>

EndPass ==
    /\ worker = "for"
    /\ it = 0
    /\ worker' = "while"
    /\ UNCHANGED <<shared, it, ptr, counter, add, owner, runs, outcome, fault>>

OverloadedNever == FALSE
Overloaded == counter > limit

\* resume() returned true.  A worker that counted past the limit goes back to
\* the first request, without looking at m_working.
ResumeMoreKeepPtr ==
    /\ worker = "for"
    /\ it # 0
    /\ resumes[requests[it]] < MaxResumes
    /\ resumes' = [resumes EXCEPT ![requests[it]] = @ + 1]
    /\ IF Overloaded
       THEN worker' = "for" /\ it' = Begin(requests) /\ UNCHANGED ptr
       ELSE worker' = "advance" /\ UNCHANGED <<it, ptr>>
    /\ UNCHANGED <<shared, counter, add, owner, runs, finished, canceled, fault>>
ResumeMore ==
    /\ worker = "for"
    /\ it # 0
    /\ resumes[requests[it]] < MaxResumes
    /\ resumes' = [resumes EXCEPT ![requests[it]] = @ + 1]
    /\ IF Overloaded
       THEN worker' = "for" /\ it' = Begin(requests) /\ ptr' = Begin(pointers)
       ELSE worker' = "advance" /\ UNCHANGED <<it, ptr>>
    /\ UNCHANGED <<shared, counter, add, owner, runs, finished, canceled, fault>>

\* resume() returned false: the coroutine ran to its end.
ResumeDone ==
    /\ worker = "for"
    /\ it # 0
    /\ resumes[requests[it]] >= MinResumes
    /\ finished' = finished \union {requests[it]}
    /\ worker' = "lock"
    /\ UNCHANGED <<shared, it, ptr, counter, add, owner, runs, resumes, canceled, fault>>

\* Nothing catches what a coroutine throws: it leaves the thread's function.
ResumeThrow ==
    /\ worker = "for"
    /\ it # 0
    /\ requests[it] \in ThrowingJobs
    /\ fault' = "exception"
    /\ UNCHANGED <<shared, thread, add, owner, runs, outcome>>

Advance ==
    /\ worker = "advance"
    /\ it' = After(requests, it)
    /\ worker' = "advancePtr"
    /\ UNCHANGED <<shared, ptr, counter, add, owner, runs, outcome, fault>>

AdvancePtr ==
    /\ worker = "advancePtr"
    /\ ptr' = After(pointers, ptr)
    /\ counter' = (counter + 1) % CounterRange
    /\ worker' = "for"
    /\ UNCHANGED <<shared, it, add, owner, runs, outcome, fault>>

Lock ==
    /\ worker = "lock"
    /\ ~locked
    /\ locked' = TRUE
    /\ worker' = "erase"
    /\ UNCHANGED <<working, requests, pointers, limit, it, ptr, counter, add, owner, runs, outcome, fault>>

EraseForgotten ==
    /\ worker = "erase"
    /\ it' = After(requests, it)
    /\ worker' = "erasePtr"
    /\ UNCHANGED <<shared, ptr, counter, add, owner, runs, outcome, fault>>
Erase ==
    /\ worker = "erase"
    /\ requests' = RemoveAt(requests, it)
    /\ it' = EraseAndWrap(requests, it)
    /\ worker' = "erasePtr"
    /\ UNCHANGED <<working, pointers, locked, limit, ptr, counter, add, owner, runs, outcome, fault>>

\* The counter goes down by one and, at zero, wraps to the largest uint8_t.
ErasePtr ==
    /\ worker = "erasePtr"
    /\ IF ptr = 0
       THEN /\ fault' = "erase_at_end"
            /\ UNCHANGED <<pointers, locked, ptr, worker, counter>>
       ELSE /\ pointers' = RemoveAt(pointers, ptr)
            /\ ptr' = EraseAndWrap(pointers, ptr)
            /\ counter' = (counter + CounterRange - 1) % CounterRange
            /\ locked' = FALSE
            /\ worker' = "for"
            /\ UNCHANGED fault
    /\ UNCHANGED <<working, requests, limit, it, add, owner, runs, outcome>>

Resume == ResumeMore \/ ResumeDone \/ ResumeThrow
Work == WhileCheck \/ Look \/ EndPass \/ Resume \/ Advance \/ AdvancePtr \/ Lock \/ Erase \/ ErasePtr

-----------------------------------------------------------------------------
(* The thread that owns the handler: run, stop, the destructor.            *)

\* A run() while the worker works returns at once and changes nothing.
Run ==
    /\ owner = "idle"
    /\ ~working
    /\ runs < MaxRuns
    /\ working' = TRUE
    /\ worker' = "while" /\ counter' = 0
    /\ runs' = runs + 1
    /\ UNCHANGED <<requests, pointers, locked, limit, it, ptr, add, owner, outcome, fault>>

SetLimit ==
    /\ owner = "idle"
    /\ limit' \in Limits
    /\ UNCHANGED <<working, requests, pointers, locked, thread, add, owner, runs, outcome, fault>>

Stop ==
    /\ owner = "idle"
    /\ working' = FALSE
    /\ owner' = "stopping"
    /\ UNCHANGED <<requests, pointers, locked, limit, thread, add, runs, outcome, fault>>

\* The caller lets every addRequest return before it destroys the handler.
Destroy ==
    /\ owner = "idle"
    /\ \A j \in Jobs : add[j] \in {"idle", "accepted", "refused"}
    /\ working' = FALSE
    /\ owner' = "destroying"
    /\ UNCHANGED <<requests, pointers, locked, limit, thread, add, runs, outcome, fault>>

\* join() waits for the worker to exit; a thread that was never started, or was
\* joined before, is not joinable and makes join() throw, which nothing catches.
Join(from, to) ==
    /\ owner = from
    /\ \/ /\ worker = "exited"
          /\ worker' = "none"
          /\ owner' = to
          /\ UNCHANGED fault
       \/ /\ worker = "none"
          /\ fault' = "join_not_joinable"
          /\ UNCHANGED <<worker, owner>>
    /\ UNCHANGED <<shared, it, ptr, counter, add, runs, outcome>>

JoinInStop == Join("stopping", "idle")
JoinInDestructor == Join("destroying", "canceling")

\* The destructor cancels every request it finds listed, if a coroutine is left.
AbandonedHead == IF requests = <<>> THEN {} ELSE {Head(pointers)} \ EmptyJobs
Abandoned == IF requests = <<>> THEN {} ELSE ToSet(pointers) \ EmptyJobs

CancelAll ==
    /\ owner = "canceling"
    /\ canceled' = Abandoned
    /\ owner' = "gone"
    /\ UNCHANGED <<shared, thread, add, runs, resumes, finished, fault>>

OwnerProceed == JoinInStop \/ JoinInDestructor \/ CancelAll

-----------------------------------------------------------------------------
Step ==
    \/ Work
    \/ \E j \in Jobs : AddCheck(j) \/ AddProceed(j)
    \/ Run \/ SetLimit \/ Stop \/ Destroy
    \/ OwnerProceed

\* The program died, or the handler no longer exists.
Over == (fault # "none" \/ owner = "gone") /\ UNCHANGED vars

Next == (fault = "none" /\ Step) \/ Over

Spec == Init /\ [][Next]_vars

-----------------------------------------------------------------------------
(* Properties *)

\* An empty request entered the lists, and with it pointers and coroutines stop
\* matching one to one.
EmptyAdded == \E j \in EmptyJobs : add[j] \in {"pushReq", "accepted"}

\* Outside of a critical section the two lists name the same requests in the
\* same order, and where the worker is about to resume or to erase, its two
\* iterators stand on the same request.  Both lists are edited by two statements
\* each, in addRequest and after a finished resume().
PairedLists ==
    ~EmptyAdded =>
        /\ ~locked => requests = pointers
        /\ worker \in {"for", "lock", "erase"} /\ it # 0 => it = ptr

\* A listed coroutine's request is listed too, also in the middle of an edit:
\* the pointer is what keeps the object alive that the coroutine runs on.
NoDangling ==
    ~EmptyAdded => ToSet(requests) \subseteq ToSet(pointers)

\* A coroutine that ran to its end is never resumed again (that would be
\* undefined behaviour): the worker never stands on one when it resumes.
NeverResumesFinished ==
    worker = "for" /\ it # 0 => requests[it] \notin finished

\* The worker never erases at the end of the pointer list, which would be
\* undefined behaviour.
NeverErasesEnd == fault = "erase_at_end" => EmptyAdded

\* Whoever destroys the handler leaves no request in doubt: each accepted one
\* ran to its end or was canceled, and not both.
DestructorSettlesAll ==
    owner = "gone" /\ ~EmptyAdded =>
        \A j \in Jobs : add[j] = "accepted" => (j \in finished <=> j \notin canceled)

\* The limit does bound how many coroutines are started and not yet finished,
\* though by limit + 2: one may be resumed when the counter stands on the limit,
\* and one more before the worker notices that it is past it.  The counter is not
\* the number of started coroutines, and the bound is lost when it falls behind:
\* by a second run(), which sets it to zero, or by a coroutine that ends at its
\* first resume(), which counts down without having counted up.  A limit of 255
\* is none, for the counter is never greater.
Started == {j \in ToSet(requests) \ finished : resumes[j] > 0}
Counted == runs <= 1 /\ \A j \in finished : resumes[j] > 0
LimitBoundsStarted ==
    \A top \in 0 .. CounterRange - 2 :
        Counted /\ {InitialLimit} \union Limits \subseteq 0 .. top => Cardinality(Started) <= top + 2

\* stop() and the destructor return: the worker notices m_working although it
\* looks at it only between two passes.
OwnerReturns == owner \in {"stopping", "destroying"} ~> (owner \in {"idle", "gone"} \/ fault # "none")

\* A handler that was run can be stopped and then destroyed, as test/main.cpp
\* does at its end: the destructor of a handler that ran does not kill the program.
StoppedThenDestroyed == fault = "join_not_joinable" /\ owner = "destroying" => runs = 0
=============================================================================
