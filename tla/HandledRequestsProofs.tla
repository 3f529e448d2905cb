------------------------ MODULE HandledRequestsProofs ------------------------
(***************************************************************************)
(* The safety properties of AsyncRequestHandler, for every set of jobs,    *)
(* every number of runs and resumes and every counter range; and of the    *)
(* handler with its requests, for any number of requests and threads.      *)
(*                                                                         *)
(* None of them is inductive: each needs to know who holds the lock, and   *)
(* how far an edit of the two lists has got.  IInv says so part by part.   *)
(* How many coroutines are under way has an invariant of its own, Limited: *)
(* how the counter follows those that were started.                        *)
(*                                                                         *)
(* Whatever happens to the requests, the handler takes none but its own    *)
(* steps, so that all that is proved of it holds with them, too; and from  *)
(* that follows what the requests tell.                                    *)
(***************************************************************************)
EXTENDS HandledRequests, SequenceTheorems, FiniteSetTheorems, TLAPS

-----------------------------------------------------------------------------
(* The handler. *)

WorkerEdits == worker \in {"erase", "erasePtr"}
Adds(j) == add[j] \in {"pushPtr", "pushReq"}

\* There is a worker thread to join exactly while the handler is running, or was
\* told to stop and has not been joined yet: run() never replaces a live thread.
Joined ==
    /\ owner = "idle" => (working <=> worker # "none")
    /\ owner # "idle" => ~working

\* The lock is held exactly while one thread edits the lists.
Mutex ==
    /\ locked <=> WorkerEdits \/ \E j \in Jobs : Adds(j)
    /\ WorkerEdits => \A j \in Jobs : ~Adds(j)
    /\ \A i, j \in Jobs : Adds(i) /\ Adds(j) => i = j

\* Where the worker uses its iterator, it is not the end of the list.
OnElement == worker \in {"advance", "lock", "erase"} => it # 0

\* How the lists and the iterators match while no empty request came in: one
\* clause for each point between two statements that must go together.
Paired ==
    /\ worker # "erasePtr" /\ (\A j \in Jobs : add[j] # "pushReq") => requests = pointers
    /\ \A j \in Jobs : add[j] = "pushReq" => pointers = Append(requests, j)
    /\ worker = "for" /\ it # 0 => ptr = it
    /\ worker \in {"advance", "lock", "erase"} => ptr = it
    /\ worker = "advancePtr" => /\ ptr \in 1 .. Len(pointers)
                                /\ it # 0 => it = ptr + 1
    /\ worker = "erasePtr" => /\ ptr \in 1 .. Len(pointers)
                              /\ requests = RemoveAt(pointers, ptr)
                              /\ it = EraseAndWrap(pointers, ptr)

\* The listed coroutines are those of the accepted requests that did not finish,
\* each listed once; a finished one is listed only until it is erased.
Positions == 1 .. Len(requests)
FinishedAccepted == \A j \in finished : add[j] = "accepted"
EraseTarget == worker \in {"lock", "erase"} => requests[it] \in finished
UnfinishedListed ==
    \A j \in Jobs \ EmptyJobs : add[j] = "accepted" /\ j \notin finished => \E n \in Positions : requests[n] = j
ListedOnce == \A m, n \in Positions : requests[m] = requests[n] => m = n
ListedAccepted == \A n \in Positions : add[requests[n]] = "accepted" /\ requests[n] \notin EmptyJobs
ListedUnfinished == \A n \in Positions : requests[n] \in finished => worker \in {"lock", "erase"} /\ n = it

Listed ==
    /\ FinishedAccepted /\ EraseTarget /\ UnfinishedListed
    /\ ListedOnce /\ ListedAccepted /\ ListedUnfinished

\* Once the destructor runs nobody adds, and what it cancels is what is listed.
Ended ==
    /\ owner \in {"destroying", "canceling", "gone"} => \A j \in Jobs : add[j] \in {"idle", "accepted", "refused"}
    /\ owner \in {"canceling", "gone"} => worker = "none"
    /\ canceled = IF owner = "gone" THEN Abandoned ELSE {}

IInv == TypeOK /\ Joined /\ Mutex /\ OnElement /\ (~EmptyAdded => Paired) /\ Listed /\ Ended

-----------------------------------------------------------------------------
(* The list operators. *)

\* What erasing the element at position i leaves of a list.
LEMMA RemoveAtProperties ==
    ASSUME NEW S, NEW list \in Seq(S), NEW i \in 1 .. Len(list)
    PROVE  /\ RemoveAt(list, i) \in Seq(S)
           /\ Len(RemoveAt(list, i)) = Len(list) - 1
           /\ \A n \in 1 .. Len(list) - 1 :
                 RemoveAt(list, i)[n] = IF n < i THEN list[n] ELSE list[n + 1]
<1> DEFINE left == SubSeq(list, 1, i - 1)
           right == SubSeq(list, i + 1, Len(list))
<1>1. Len(list) \in Nat
  BY LenProperties
<1>2. left \in Seq(S) /\ Len(left) = i - 1 /\ \A n \in 1 .. i - 1 : left[n] = list[n]
  BY <1>1, SubSeqProperties, Z3
<1>3. /\ right \in Seq(S) /\ Len(right) = Len(list) - i
      /\ \A n \in 1 .. Len(list) - i : right[n] = list[n + i]
  BY <1>1, SubSeqProperties, Z3
<1> HIDE DEF left, right
<1>4. /\ left \o right \in Seq(S) /\ Len(left \o right) = Len(left) + Len(right)
      /\ \A n \in 1 .. Len(left) + Len(right) :
            (left \o right)[n] = IF n <= Len(left) THEN left[n] ELSE right[n - Len(left)]
  BY <1>2, <1>3, ConcatProperties
<1>5. Len(left) + Len(right) = Len(list) - 1
  BY <1>1, <1>2, <1>3
<1>6. ASSUME NEW n \in 1 .. Len(list) - 1
      PROVE  (left \o right)[n] = IF n < i THEN list[n] ELSE list[n + 1]
  <2>1. CASE n < i
    <3>1. n \in 1 .. i - 1 /\ n <= Len(left) /\ n \in 1 .. Len(left) + Len(right)
      BY <1>1, <1>2, <1>5, <2>1
    <3>2. (left \o right)[n] = left[n]
      BY <1>4, <3>1
    <3>3. left[n] = list[n]
      BY <1>2, <3>1
    <3> QED
      BY <2>1, <3>2, <3>3
  <2>2. CASE ~(n < i)
    <3>1. n - Len(left) \in 1 .. Len(list) - i /\ n - Len(left) + i = n + 1
      BY <1>1, <1>2, <2>2
    <3>2. (left \o right)[n] = right[n - Len(left)]
      BY <1>1, <1>2, <1>4, <1>5, <2>2
    <3>3. right[n - Len(left)] = list[n + 1]
      BY <1>3, <3>1
    <3> QED
      BY <2>2, <3>2, <3>3
  <2> QED
    BY <2>1, <2>2
<1>7. RemoveAt(list, i) = left \o right
  BY DEF RemoveAt, left, right
<1> QED
  BY <1>4, <1>5, <1>6, <1>7

\* The iterator operators stay within their list.
LEMMA IteratorBounds ==
    ASSUME NEW S, NEW list \in Seq(S)
    PROVE  /\ Begin(list) \in 0 .. Len(list)
           /\ \A i \in 0 .. Len(list) : After(list, i) \in 0 .. Len(list)
           /\ \A i \in 1 .. Len(list) :
                 EraseAndWrap(list, i) \in 0 .. Len(RemoveAt(list, i))
<1>1. Len(list) \in Nat /\ (list # <<>> => Len(list) > 0)
  BY EmptySeq, LenProperties
<1>2. ASSUME NEW i \in 1 .. Len(list)
      PROVE  EraseAndWrap(list, i) \in 0 .. Len(RemoveAt(list, i))
  <2>1. RemoveAt(list, i) \in Seq(S) /\ Len(RemoveAt(list, i)) = Len(list) - 1
    BY RemoveAtProperties
  <2>2. RemoveAt(list, i) # <<>> => Len(RemoveAt(list, i)) > 0
    BY <2>1, EmptySeq
  <2> QED
    BY <1>1, <2>1, <2>2 DEF EraseAndWrap, Begin
<1> QED
  BY <1>1, <1>2 DEF Begin, After

-----------------------------------------------------------------------------
(* Types. *)

\* One step keeps every variable in its type, and the iterator off the end
\* where the worker uses it.
LEMMA TypeStep ==
    ASSUME TypeOK, OnElement, [Next]_vars
    PROVE  TypeOK' /\ OnElement'
<1> USE CounterAssumption, ResumesAssumption, RunsAssumption DEF TypeOK, OnElement
<1>0. Len(requests) \in Nat /\ Len(pointers) \in Nat
  BY LenProperties
<1>1. ASSUME NEW j \in Jobs, AddCheck(j) PROVE TypeOK' /\ OnElement'
  BY <1>1 DEF AddCheck, AddPlaces, shared, thread, outcome
<1>2. ASSUME NEW j \in Jobs, AddLock(j) PROVE TypeOK' /\ OnElement'
  BY <1>2 DEF AddLock, AddPlaces, thread, outcome
<1>3. ASSUME NEW j \in Jobs, PushPointer(j) PROVE TypeOK' /\ OnElement'
  <2>1. pointers' \in Seq(Jobs) /\ Len(pointers') = Len(pointers) + 1
    BY <1>3, AppendProperties DEF PushPointer
  <2> QED
    BY <1>0, <1>3, <2>1 DEF PushPointer, AddPlaces, thread, outcome
<1>4. ASSUME NEW j \in Jobs, PushRequest(j) PROVE TypeOK' /\ OnElement'
  <2>1. requests' \in Seq(Jobs) /\ Len(requests') >= Len(requests)
    BY <1>0, <1>4, AppendProperties DEF PushRequest, WithCoroutine
  <2>2. Len(requests') \in Nat
    BY <2>1, LenProperties
  <2>3. it' \in 0 .. Len(requests')
    BY <1>0, <1>4, <2>1, <2>2 DEF PushRequest, thread
  <2> QED
    BY <1>0, <1>4, <2>1, <2>2, <2>3 DEF PushRequest, AddPlaces, thread, outcome
<1>5. CASE WhileCheck
  BY <1>5 DEF WhileCheck, WorkerPlaces, shared, outcome
<1>6. CASE Look
  BY <1>6, IteratorBounds DEF Look, WorkerPlaces, shared, outcome
<1>7. CASE EndPass
  BY <1>7 DEF EndPass, WorkerPlaces, shared, outcome
<1>8. CASE ResumeMore
  <2>1. requests[it] \in Jobs /\ resumes[requests[it]] + 1 \in 0 .. MaxResumes
    BY <1>0, <1>8, ElementOfSeq DEF ResumeMore
  <2>2. resumes' \in [Jobs -> 0 .. MaxResumes]
    BY <1>8, <2>1 DEF ResumeMore
  <2> QED
    BY <1>8, <2>2, IteratorBounds DEF ResumeMore, WorkerPlaces, shared
<1>9. CASE ResumeDone
  <2>1. requests[it] \in Jobs
    BY <1>0, <1>9, ElementOfSeq DEF ResumeDone
  <2> QED
    BY <1>9, <2>1 DEF ResumeDone, WorkerPlaces, shared
<1>10. CASE ResumeThrow
  BY <1>10 DEF ResumeThrow, Faults, shared, thread, outcome
<1>11. CASE Advance
  BY <1>11, IteratorBounds DEF Advance, WorkerPlaces, shared, outcome
<1>12. CASE AdvancePtr
  <2>1. (counter + 1) % CounterRange \in 0 .. CounterRange - 1
    OBVIOUS
  <2> QED
    BY <1>12, <2>1, IteratorBounds DEF AdvancePtr, WorkerPlaces, shared, outcome
<1>13. CASE Lock
  BY <1>13 DEF Lock, WorkerPlaces, outcome
<1>14. CASE Erase
  <2>1. it \in 1 .. Len(requests)
    BY <1>0, <1>14 DEF Erase
  <2>2. requests' \in Seq(Jobs) /\ it' \in 0 .. Len(requests')
    BY <1>14, <2>1, RemoveAtProperties, IteratorBounds DEF Erase
  <2> QED
    BY <1>14, <2>2 DEF Erase, WorkerPlaces, outcome
<1>15. CASE ErasePtr /\ ptr = 0
  BY <1>15 DEF ErasePtr, Faults, outcome
<1>16. CASE ErasePtr /\ ptr # 0
  <2>1. ptr \in 1 .. Len(pointers)
    BY <1>0, <1>16
  <2>2. pointers' \in Seq(Jobs) /\ ptr' \in 0 .. Len(pointers')
    BY <1>16, <2>1, RemoveAtProperties, IteratorBounds DEF ErasePtr
  <2>3. (counter + CounterRange - 1) % CounterRange \in 0 .. CounterRange - 1
    OBVIOUS
  <2> QED
    BY <1>16, <2>2, <2>3 DEF ErasePtr, WorkerPlaces, outcome
<1>17. CASE Run
  BY <1>17 DEF Run, WorkerPlaces, outcome
<1>18. CASE SetLimit
  BY <1>18 DEF SetLimit, thread, outcome
<1>19. CASE Stop \/ Destroy
  BY <1>19 DEF Stop, Destroy, OwnerPlaces, thread, outcome
<1>20. CASE JoinInStop \/ JoinInDestructor
  BY <1>20 DEF JoinInStop, JoinInDestructor, Join, WorkerPlaces, OwnerPlaces, Faults, shared, outcome
<1>21. CASE CancelAll
  <2>1. ToSet(pointers) \subseteq Jobs
    BY LenProperties, ElementOfSeq DEF ToSet
  <2> QED
    BY <1>21, <2>1 DEF CancelAll, Abandoned, OwnerPlaces, shared, thread
<1>22. CASE UNCHANGED vars
  BY <1>22 DEF vars, shared, thread, outcome
<1> QED
  BY <1>1, <1>2, <1>3, <1>4, <1>5, <1>6, <1>7, <1>8, <1>9, <1>10, <1>11, <1>12, <1>13, <1>14,
     <1>15, <1>16, <1>17, <1>18, <1>19, <1>20, <1>21, <1>22
  DEF Next, Step, Over, Work, Resume, AddProceed, OwnerProceed

-----------------------------------------------------------------------------
(* Who runs, and who holds the lock. *)

\* Only run() makes a worker, and only join() takes it away.
LEMMA JoinedStep ==
    ASSUME TypeOK, Joined, [Next]_vars
    PROVE  Joined'
<1> USE DEF TypeOK, Joined
<1>1. ASSUME NEW j \in Jobs, AddCheck(j) \/ AddProceed(j) PROVE Joined'
  BY <1>1 DEF AddCheck, AddProceed, AddLock, PushPointer, PushRequest, shared, thread
<1>2. CASE Work
  BY <1>2 DEF Work, WhileCheck, Look, EndPass, Resume, ResumeMore, ResumeDone, ResumeThrow, Advance, AdvancePtr,
              Lock, Erase, ErasePtr, shared, thread
<1>3. CASE Run \/ SetLimit \/ Stop \/ Destroy
  BY <1>3 DEF Run, SetLimit, Stop, Destroy, thread
<1>4. CASE OwnerProceed
  BY <1>4 DEF OwnerProceed, JoinInStop, JoinInDestructor, Join, CancelAll, shared, thread
<1>5. CASE UNCHANGED vars
  BY <1>5 DEF vars, shared, thread
<1> QED
  BY <1>1, <1>2, <1>3, <1>4, <1>5 DEF Next, Step, Over

\* At most one thread edits the lists, and the lock is held while it does.
LEMMA MutexStep ==
    ASSUME TypeOK, Joined, Mutex, [Next]_vars
    PROVE  Mutex'
<1> USE DEF TypeOK, Mutex, Adds, WorkerEdits
<1>1. ASSUME NEW j \in Jobs, AddCheck(j) PROVE Mutex'
  <2>1. \A k \in Jobs : Adds(k)' <=> Adds(k)
    BY <1>1 DEF AddCheck
  <2> QED
    BY <1>1, <2>1 DEF AddCheck, shared, thread
<1>2. ASSUME NEW j \in Jobs, AddLock(j) PROVE Mutex'
  <2>1. \A k \in Jobs : Adds(k)' <=> k = j
    BY <1>2 DEF AddLock
  <2> QED
    BY <1>2, <2>1 DEF AddLock, thread
<1>3. ASSUME NEW j \in Jobs, PushPointer(j) PROVE Mutex'
  <2>1. \A k \in Jobs : Adds(k)' <=> Adds(k)
    BY <1>3 DEF PushPointer
  <2> QED
    BY <1>3, <2>1 DEF PushPointer, thread
<1>4. ASSUME NEW j \in Jobs, PushRequest(j) PROVE Mutex'
  <2>1. Adds(j) /\ \A k \in Jobs : ~Adds(k)'
    BY <1>4 DEF PushRequest
  <2> QED
    BY <1>4, <2>1 DEF PushRequest, thread
<1>5. CASE Lock
  BY <1>5 DEF Lock
<1>6. CASE Erase
  BY <1>6 DEF Erase
<1>7. CASE ErasePtr
  BY <1>7 DEF ErasePtr
<1>8. CASE WhileCheck \/ Look \/ EndPass \/ Resume \/ Advance \/ AdvancePtr
  BY <1>8, SMTT(30) DEF WhileCheck, Look, EndPass, Resume, ResumeMore, ResumeDone, ResumeThrow, Advance, AdvancePtr,
              shared, thread
<1>9. CASE Run
  BY <1>9 DEF Run, Joined
<1>10. CASE SetLimit \/ Stop \/ Destroy \/ OwnerProceed
  BY <1>10 DEF SetLimit, Stop, Destroy, OwnerProceed, JoinInStop, JoinInDestructor, Join, CancelAll, shared, thread
<1>11. CASE UNCHANGED vars
  BY <1>11 DEF vars, shared, thread
<1> QED
  BY <1>1, <1>2, <1>3, <1>4, <1>5, <1>6, <1>7, <1>8, <1>9, <1>10, <1>11 DEF Next, Step, Over, Work, AddProceed

-----------------------------------------------------------------------------
(* The lists match. *)

\* An empty request that came in stays in.
LEMMA EmptyAddedStays ==
    ASSUME TypeOK, [Next]_vars, EmptyAdded
    PROVE  EmptyAdded'
<1> USE JobsAssumption DEF TypeOK, EmptyAdded
<1>1. ASSUME NEW j \in Jobs, AddCheck(j) \/ AddProceed(j) PROVE EmptyAdded'
  BY <1>1 DEF AddCheck, AddProceed, AddLock, PushPointer, PushRequest
<1>2. CASE UNCHANGED add
  BY <1>2
<1>3. CASE Work
  BY <1>2, <1>3 DEF Work, WhileCheck, Look, EndPass, Resume, ResumeMore, ResumeDone, ResumeThrow, Advance, AdvancePtr,
              Lock, Erase, ErasePtr
<1>4. CASE Run \/ SetLimit \/ Stop \/ Destroy \/ OwnerProceed
  BY <1>2, <1>4 DEF Run, SetLimit, Stop, Destroy, OwnerProceed, JoinInStop, JoinInDestructor, Join, CancelAll
<1>5. CASE UNCHANGED vars
  BY <1>2, <1>5 DEF vars
<1> QED
  BY <1>1, <1>3, <1>4, <1>5 DEF Next, Step, Over

\* One step keeps the lists and the iterators matched.
LEMMA PairedStep ==
    ASSUME TypeOK, Joined, Mutex, OnElement, Paired, ~EmptyAdded', [Next]_vars
    PROVE  Paired'
<1> USE DEF Paired, TypeOK
<1>0. Len(requests) \in Nat /\ Len(pointers) \in Nat
  BY LenProperties
<1>1. ASSUME NEW j \in Jobs, AddCheck(j) PROVE Paired'
  <2>1. \A k \in Jobs : add[k]' = "pushReq" <=> add[k] = "pushReq"
    BY <1>1 DEF AddCheck
  <2> QED
    BY <1>1, <2>1 DEF AddCheck, shared, thread
<1>2. ASSUME NEW j \in Jobs, AddLock(j) PROVE Paired'
  <2>1. \A k \in Jobs : add[k]' = "pushReq" <=> add[k] = "pushReq"
    BY <1>2 DEF AddLock
  <2> QED
    BY <1>2, <2>1 DEF AddLock, thread
<1>3. ASSUME NEW j \in Jobs, PushPointer(j) PROVE Paired'
  <2>1. ~WorkerEdits /\ \A k \in Jobs : add[k] # "pushReq"
    BY <1>3 DEF PushPointer, Mutex, Adds
  <2>2. requests = pointers
    BY <2>1 DEF WorkerEdits
  <2>3. pointers' = Append(requests, j) /\ requests' = requests /\ add'[j] = "pushReq"
        /\ \A k \in Jobs : add'[k] = "pushReq" => k = j
    BY <1>3, <2>1, <2>2 DEF PushPointer
  <2>4. Len(pointers') = Len(pointers) + 1
    BY <1>3, AppendProperties DEF PushPointer
  <2> QED
    BY <1>0, <1>3, <2>1, <2>3, <2>4 DEF PushPointer, WorkerEdits, thread
<1>4. ASSUME NEW j \in Jobs, PushRequest(j) PROVE Paired'
  <2>1. ~WorkerEdits /\ \A k \in Jobs : add'[k] # "pushReq"
    BY <1>4 DEF PushRequest, Mutex, Adds
  <2>2. j \notin EmptyJobs
    BY <1>4 DEF PushRequest, EmptyAdded
  <2>3. pointers = Append(requests, j)
    BY <1>4 DEF PushRequest
  <2>4. requests' = pointers'
    BY <1>4, <2>2, <2>3 DEF PushRequest, WithCoroutine
  <2> QED
    BY <1>4, <2>1, <2>4 DEF PushRequest, WorkerEdits, thread
<1>5. CASE WhileCheck \/ EndPass \/ ResumeDone \/ ResumeThrow
  BY <1>5 DEF WhileCheck, EndPass, ResumeDone, ResumeThrow, shared, thread
<1>6. CASE Look \/ ResumeMore
  <2>1. requests # <<>> => pointers # <<>>
    <3>1. CASE \A j \in Jobs : add[j] # "pushReq"
      BY <1>6, <3>1 DEF Look, ResumeMore
    <3>2. CASE \E j \in Jobs : add[j] = "pushReq"
      BY <3>2, AppendProperties, EmptySeq
    <3> QED
      BY <3>1, <3>2
  <2>2. worker = "for" /\ it # 0 => requests # <<>>
    BY <1>0, EmptySeq
  <2> QED
    BY <1>6, <2>1, <2>2 DEF Look, ResumeMore, Begin, shared
<1>7. CASE Advance
  <2>1. it \in 1 .. Len(requests) /\ ptr = it
    BY <1>0, <1>7 DEF Advance, OnElement
  <2> QED
    BY <1>0, <1>7, <2>1 DEF Advance, After, shared
<1>8. CASE AdvancePtr
  <2>1. Len(requests) <= Len(pointers)
    <3>1. CASE \A j \in Jobs : add[j] # "pushReq"
      BY <1>0, <1>8, <3>1 DEF AdvancePtr
    <3>2. CASE \E j \in Jobs : add[j] = "pushReq"
      BY <1>0, <3>2, AppendProperties
    <3> QED
      BY <3>1, <3>2
  <2>2. it # 0 => ptr' = it
    BY <1>0, <1>8, <2>1, SMTT(30) DEF AdvancePtr, After
  <2> QED
    BY <1>8, <2>2 DEF AdvancePtr, shared
<1>9. CASE Lock
  BY <1>9 DEF Lock
<1>10. CASE Erase
  <2>1. \A j \in Jobs : add[j] # "pushReq"
    BY <1>10 DEF Erase, Mutex, WorkerEdits, Adds
  <2>2. requests = pointers /\ ptr = it /\ it \in 1 .. Len(requests)
    BY <1>0, <1>10, <2>1 DEF Erase, OnElement
  <2> QED
    BY <1>10, <2>1, <2>2 DEF Erase
<1>11. CASE ErasePtr
  <2>1. \A j \in Jobs : add[j] # "pushReq"
    BY <1>11 DEF ErasePtr, Mutex, WorkerEdits, Adds
  <2>2. ptr # 0
    BY <1>0, <1>11 DEF ErasePtr
  <2>3. requests' = pointers' /\ ptr' = it'
    BY <1>11, <2>2 DEF ErasePtr
  <2> QED
    BY <1>11, <2>1, <2>2, <2>3 DEF ErasePtr
<1>12. CASE Run
  BY <1>12 DEF Run, Joined
<1>13. CASE SetLimit \/ Stop \/ Destroy
  BY <1>13 DEF SetLimit, Stop, Destroy, thread
<1>14. CASE OwnerProceed
  BY <1>14 DEF OwnerProceed, JoinInStop, JoinInDestructor, Join, CancelAll, shared, thread
<1>15. CASE UNCHANGED vars
  BY <1>15 DEF vars, shared, thread
<1> QED
  BY <1>1, <1>2, <1>3, <1>4, <1>5, <1>6, <1>7, <1>8, <1>9, <1>10, <1>11, <1>12, <1>13, <1>14, <1>15
  DEF Next, Step, Over, Work, Resume, AddProceed

-----------------------------------------------------------------------------
(* What the lists hold. *)

\* One step keeps the coroutine list to the accepted, unfinished requests.
LEMMA ListedStep ==
    ASSUME TypeOK, Joined, OnElement, Listed, [Next]_vars
    PROVE  Listed'
<1> USE DEF TypeOK
<1>0. Len(requests) \in Nat /\ \A n \in Positions : requests[n] \in Jobs
  BY LenProperties, ElementOfSeq DEF Positions
<1>1. FinishedAccepted /\ EraseTarget /\ UnfinishedListed /\ ListedOnce /\ ListedAccepted /\ ListedUnfinished
  BY DEF Listed
<1>2. ASSUME UNCHANGED <<requests, finished>>,
             \A k \in Jobs : add'[k] = "accepted" <=> add[k] = "accepted",
             worker' \in {"lock", "erase"} => worker \in {"lock", "erase"} /\ it' = it,
             worker \in {"lock", "erase"} => worker' \in {"lock", "erase"}
      PROVE  Listed'
  BY <1>0, <1>1, <1>2
  DEF Listed, Positions, FinishedAccepted, EraseTarget, UnfinishedListed, ListedOnce, ListedAccepted, ListedUnfinished
<1>3. ASSUME NEW j \in Jobs, AddCheck(j) \/ AddLock(j) \/ PushPointer(j) PROVE Listed'
  <2>1. \A k \in Jobs : add'[k] = "accepted" <=> add[k] = "accepted"
    BY <1>3 DEF AddCheck, AddLock, PushPointer
  <2>2. UNCHANGED <<requests, worker, it, finished>>
    BY <1>3 DEF AddCheck, AddLock, PushPointer, shared, thread, outcome
  <2> QED
    BY <1>2, <2>1, <2>2
<1>4. ASSUME NEW j \in Jobs, PushRequest(j) PROVE Listed'
  <2>1. add' = [add EXCEPT ![j] = "accepted"] /\ add[j] = "pushReq" /\ UNCHANGED <<worker, it, finished>>
    BY <1>4 DEF PushRequest, thread, outcome
  <2>2. j \notin finished
    BY <1>1, <2>1 DEF FinishedAccepted
  <2>3. \A n \in Positions : requests[n] # j
    BY <1>0, <1>1, <2>1 DEF ListedAccepted
  <2>4. FinishedAccepted'
    BY <1>1, <2>1 DEF FinishedAccepted
  <2>5. CASE j \in EmptyJobs
    <3>1. requests' = requests
      BY <1>4, <2>5 DEF PushRequest, WithCoroutine
    <3>2. EraseTarget' /\ ListedOnce' /\ ListedUnfinished'
      BY <1>1, <2>1, <3>1 DEF EraseTarget, ListedOnce, ListedUnfinished, Positions
    <3>3. ListedAccepted' /\ UnfinishedListed'
      BY <1>0, <1>1, <2>1, <2>3, <2>5, <3>1 DEF ListedAccepted, UnfinishedListed, Positions
    <3> QED
      BY <2>4, <3>2, <3>3 DEF Listed
  <2>6. CASE j \notin EmptyJobs
    <3>1. requests' = Append(requests, j)
      BY <1>4, <2>6 DEF PushRequest, WithCoroutine
    <3>2. /\ Len(requests') = Len(requests) + 1
          /\ \A n \in Positions : requests'[n] = requests[n]
          /\ requests'[Len(requests) + 1] = j
      BY <3>1, AppendProperties DEF Positions
    <3>3. Positions' = Positions \union {Len(requests) + 1} /\ Len(requests) + 1 \notin Positions
      BY <1>0, <3>2 DEF Positions
    <3>4. EraseTarget'
      <4>1. worker \in {"lock", "erase"} => it \in Positions
        BY <1>0 DEF OnElement, Positions
      <4> QED
        BY <1>1, <2>1, <3>2, <4>1 DEF EraseTarget
    <3>5. ListedOnce'
      <4> SUFFICES ASSUME NEW m \in Positions', NEW n \in Positions', requests'[m] = requests'[n]
                   PROVE  m = n
        BY DEF ListedOnce
      <4>1. CASE m \in Positions /\ n \in Positions
        BY <1>1, <3>2, <4>1 DEF ListedOnce
      <4>2. CASE m \notin Positions \/ n \notin Positions
        BY <2>3, <3>2, <3>3, <4>2
      <4> QED
        BY <4>1, <4>2
    <3>6. ListedAccepted'
      BY <1>0, <1>1, <2>1, <2>3, <2>6, <3>2, <3>3 DEF ListedAccepted
    <3>7. UnfinishedListed'
      BY <1>1, <2>1, <3>2, <3>3 DEF UnfinishedListed
    <3>8. ListedUnfinished'
      BY <1>1, <2>1, <2>2, <3>2, <3>3 DEF ListedUnfinished
    <3> QED
      BY <2>4, <3>4, <3>5, <3>6, <3>7, <3>8 DEF Listed
  <2> QED
    BY <2>5, <2>6
<1>5. CASE ResumeDone
  <2>1. /\ worker = "for" /\ worker' = "lock" /\ UNCHANGED <<requests, it, add>>
        /\ it \in Positions /\ finished' = finished \union {requests[it]}
    BY <1>0, <1>5 DEF ResumeDone, shared, Positions
  <2>2. FinishedAccepted' /\ EraseTarget' /\ UnfinishedListed'
    BY <1>1, <2>1 DEF FinishedAccepted, EraseTarget, UnfinishedListed, ListedAccepted, Positions
  <2>3. ListedOnce' /\ ListedAccepted' /\ ListedUnfinished'
    BY <1>1, <2>1 DEF ListedOnce, ListedAccepted, ListedUnfinished, Positions
  <2> QED
    BY <2>2, <2>3 DEF Listed
<1>6. CASE Lock
  BY <1>2, <1>6 DEF Lock, outcome
<1>7. CASE Erase
  <2>1. /\ worker = "erase" /\ worker' = "erasePtr" /\ UNCHANGED <<add, finished>>
        /\ requests' = RemoveAt(requests, it) /\ it \in Positions /\ requests[it] \in finished
    BY <1>0, <1>1, <1>7 DEF Erase, OnElement, EraseTarget, Positions, outcome
  <2>2. /\ Len(requests') = Len(requests) - 1
        /\ \A n \in 1 .. Len(requests) - 1 : requests'[n] = IF n < it THEN requests[n] ELSE requests[n + 1]
    BY <2>1, RemoveAtProperties DEF Positions
  <2> DEFINE old(n) == IF n < it THEN n ELSE n + 1
  <2>3. ASSUME NEW n \in Positions'
        PROVE  old(n) \in Positions /\ old(n) # it /\ requests'[n] = requests[old(n)]
    <3>1. n \in 1 .. Len(requests) - 1
      BY <2>2, <2>3 DEF Positions
    <3>2. old(n) \in Positions /\ old(n) # it
      BY <1>0, <2>1, <3>1 DEF Positions
    <3> QED
      BY <2>2, <3>1, <3>2
  <2>4. ASSUME NEW m \in Positions', NEW n \in Positions', old(m) = old(n)
        PROVE  m = n
    <3>1. m \in Int /\ n \in Int /\ it \in Int
      BY <1>0, <2>1, <2>2 DEF Positions
    <3> QED
      BY <2>4, <3>1
  <2>5. ASSUME NEW n \in Positions, n # it
        PROVE  \E m \in Positions' : old(m) = n
    <3>1. CASE n < it
      <4>1. n \in Positions' /\ old(n) = n
        BY <1>0, <2>1, <2>2, <3>1 DEF Positions
      <4> QED
        BY <4>1
    <3>2. CASE n > it
      <4>1. n - 1 \in Positions' /\ old(n - 1) = n
        BY <1>0, <2>1, <2>2, <3>2 DEF Positions
      <4> QED
        BY <4>1
    <3> QED
      BY <1>0, <2>1, <2>5, <3>1, <3>2 DEF Positions
  <2> HIDE DEF old
  <2>6. FinishedAccepted' /\ EraseTarget'
    BY <1>1, <2>1 DEF FinishedAccepted, EraseTarget
  <2>7. ListedOnce'
    <3> SUFFICES ASSUME NEW m \in Positions', NEW n \in Positions', requests'[m] = requests'[n]
                 PROVE  m = n
      BY DEF ListedOnce
    <3>1. old(m) = old(n)
      BY <1>1, <2>3 DEF ListedOnce
    <3> QED
      BY <2>4, <3>1
  <2>8. UnfinishedListed'
    <3> SUFFICES ASSUME NEW j \in Jobs \ EmptyJobs, add'[j] = "accepted", j \notin finished'
                 PROVE  \E m \in Positions' : requests'[m] = j
      BY DEF UnfinishedListed
    <3>1. PICK n \in Positions : requests[n] = j
      BY <1>1, <2>1 DEF UnfinishedListed
    <3>2. n # it
      BY <2>1, <3>1
    <3>3. PICK m \in Positions' : old(m) = n
      BY <2>5, <3>2
    <3> QED
      BY <2>3, <3>1, <3>3
  <2>9. ListedAccepted' /\ ListedUnfinished'
    BY <1>1, <2>1, <2>3 DEF ListedAccepted, ListedUnfinished
  <2> QED
    BY <2>6, <2>7, <2>8, <2>9 DEF Listed
<1>8. CASE WhileCheck \/ Look \/ EndPass \/ ResumeMore \/ ResumeThrow \/ Advance \/ AdvancePtr
  BY <1>2, <1>8 DEF WhileCheck, Look, EndPass, ResumeMore, ResumeThrow, Advance, AdvancePtr, shared, thread, outcome
<1>9. CASE ErasePtr
  BY <1>2, <1>9 DEF ErasePtr, outcome
<1>10. CASE Run
  BY <1>2, <1>10 DEF Run, Joined, outcome
<1>11. CASE SetLimit \/ Stop \/ Destroy
  BY <1>2, <1>11 DEF SetLimit, Stop, Destroy, thread, outcome
<1>12. CASE OwnerProceed
  BY <1>2, <1>12 DEF OwnerProceed, JoinInStop, JoinInDestructor, Join, CancelAll, shared, thread, outcome
<1>13. CASE UNCHANGED vars
  BY <1>2, <1>13 DEF vars, shared, thread, outcome
<1> QED
  BY <1>3, <1>4, <1>5, <1>6, <1>7, <1>8, <1>9, <1>10, <1>11, <1>12, <1>13
  DEF Next, Step, Over, Work, Resume, AddProceed

\* One step keeps what the destructor may count on, and what it did.
LEMMA EndedStep ==
    ASSUME TypeOK, Joined, Ended, [Next]_vars
    PROVE  Ended'
<1> USE DEF TypeOK, Ended, Abandoned
<1>1. ASSUME NEW j \in Jobs, AddCheck(j) PROVE Ended'
  <2>1. owner \notin {"destroying", "canceling", "gone"}
    BY <1>1 DEF AddCheck, Alive
  <2> QED
    BY <1>1, <2>1 DEF AddCheck, shared, thread, outcome
<1>2. ASSUME NEW j \in Jobs, AddProceed(j) PROVE Ended'
  <2>1. owner \notin {"destroying", "canceling", "gone"}
    BY <1>2 DEF AddProceed, AddLock, PushPointer, PushRequest
  <2> QED
    BY <1>2, <2>1 DEF AddProceed, AddLock, PushPointer, PushRequest, thread, outcome
<1>3. CASE Work
  <2>1. worker # "none" /\ worker' # "none" /\ UNCHANGED <<owner, add, canceled>>
    BY <1>3 DEF Work, WhileCheck, Look, EndPass, Resume, ResumeMore, ResumeDone, ResumeThrow, Advance, AdvancePtr,
                Lock, Erase, ErasePtr, thread, outcome
  <2> QED
    BY <2>1
<1>4. CASE Run \/ SetLimit \/ Stop \/ Destroy
  BY <1>4 DEF Run, SetLimit, Stop, Destroy, thread, outcome
<1>5. CASE JoinInStop \/ JoinInDestructor
  BY <1>5 DEF JoinInStop, JoinInDestructor, Join, shared, outcome
<1>6. CASE CancelAll
  BY <1>6 DEF CancelAll, shared, thread
<1>7. CASE UNCHANGED vars
  BY <1>7 DEF vars, shared, thread, outcome
<1> QED
  BY <1>1, <1>2, <1>3, <1>4, <1>5, <1>6, <1>7 DEF Next, Step, Over, OwnerProceed

-----------------------------------------------------------------------------
(* The theorems. *)

\* The inductive invariant holds in every reachable state.
THEOREM Invariance == Spec => []IInv
<1>1. Init => IInv
  <2> SUFFICES ASSUME Init PROVE IInv
    OBVIOUS
  <2>1. <<>> \in Seq(Jobs) /\ Len(<<>>) = 0
    BY EmptySeq
  <2>2. TypeOK
    <3>1. requests \in Seq(Jobs) /\ pointers \in Seq(Jobs) /\ Len(requests) = 0 /\ Len(pointers) = 0
      BY <2>1 DEF Init
    <3>2. it \in 0 .. Len(requests) /\ ptr \in 0 .. Len(pointers)
      BY <3>1 DEF Init
    <3>3. limit \in 0 .. CounterRange - 1 /\ counter \in 0 .. CounterRange - 1 /\ runs \in 0 .. MaxRuns
      BY CounterAssumption, RunsAssumption DEF Init
    <3>4. resumes \in [Jobs -> 0 .. MaxResumes]
      BY ResumesAssumption DEF Init
    <3> QED
      BY <3>1, <3>2, <3>3, <3>4 DEF Init, TypeOK, WorkerPlaces, AddPlaces, OwnerPlaces, Faults
  <2>3. Joined /\ Mutex /\ OnElement /\ Paired
    BY DEF Init, Joined, Mutex, WorkerEdits, Adds, OnElement, Paired
  <2>4. Listed
    <3>1. Positions = {}
      BY <2>1 DEF Init, Positions
    <3> QED
      BY <3>1 DEF Init, Listed, FinishedAccepted, EraseTarget, UnfinishedListed, ListedOnce, ListedAccepted,
                  ListedUnfinished
  <2>5. Ended
    BY DEF Init, Ended
  <2> QED
    BY <2>2, <2>3, <2>4, <2>5 DEF IInv
<1>2. IInv /\ [Next]_vars => IInv'
  <2> SUFFICES ASSUME IInv, [Next]_vars PROVE IInv'
    OBVIOUS
  <2>1. TypeOK' /\ OnElement'
    BY TypeStep DEF IInv
  <2>2. Joined'
    BY JoinedStep DEF IInv
  <2>3. Mutex'
    BY MutexStep DEF IInv
  <2>4. ~EmptyAdded' => Paired'
    BY EmptyAddedStays, PairedStep DEF IInv
  <2>5. Listed'
    BY ListedStep DEF IInv
  <2>6. Ended'
    BY EndedStep DEF IInv
  <2> QED
    BY <2>1, <2>2, <2>3, <2>4, <2>5, <2>6 DEF IInv
<1> QED
  BY <1>1, <1>2, PTL DEF Spec

\* Every variable keeps its type: among others the iterators never leave their
\* lists and the counter stays a uint8_t.
THEOREM TypeCorrectness == Spec => []TypeOK
<1>1. IInv => TypeOK
  BY DEF IInv
<1> QED
  BY <1>1, Invariance, PTL

\* The two lists name the same requests in the same order whenever nobody holds
\* the lock, and the worker's iterators stand on the same request where it
\* resumes or erases (run() and addRequest).
THEOREM ListsStayPaired == Spec => []PairedLists
<1>1. IInv => PairedLists
  BY DEF IInv, TypeOK, Mutex, Adds, WorkerEdits, OnElement, Paired, PairedLists
<1> QED
  BY <1>1, Invariance, PTL

\* A listed coroutine's request is kept alive, also between the two statements
\* of an edit.
THEOREM NoCoroutineDangles == Spec => []NoDangling
<1>1. IInv => NoDangling
  <2> SUFFICES ASSUME IInv, ~EmptyAdded PROVE ToSet(requests) \subseteq ToSet(pointers)
    BY DEF NoDangling
  <2>0. TypeOK /\ Mutex /\ Paired
    BY DEF IInv
  <2>1. DOMAIN requests = 1 .. Len(requests) /\ DOMAIN pointers = 1 .. Len(pointers)
        /\ Len(requests) \in Nat /\ Len(pointers) \in Nat
    BY <2>0, LenProperties DEF TypeOK
  <2>2. CASE worker # "erasePtr" /\ \A j \in Jobs : add[j] # "pushReq"
    BY <2>0, <2>2 DEF Paired
  <2>3. ASSUME NEW j \in Jobs, add[j] = "pushReq"
        PROVE  ToSet(requests) \subseteq ToSet(pointers)
    <3>1. pointers = Append(requests, j)
      BY <2>0, <2>3 DEF Paired
    <3>2. Len(pointers) = Len(requests) + 1 /\ \A n \in 1 .. Len(requests) : pointers[n] = requests[n]
      BY <2>0, <3>1, AppendProperties DEF TypeOK
    <3> QED
      BY <2>1, <3>2 DEF ToSet
  <2>4. CASE worker = "erasePtr"
    <3>1. requests = RemoveAt(pointers, ptr) /\ ptr \in 1 .. Len(pointers)
      BY <2>0, <2>4 DEF Paired
    <3>2. /\ Len(requests) = Len(pointers) - 1
          /\ \A n \in 1 .. Len(requests) : requests[n] = IF n < ptr THEN pointers[n] ELSE pointers[n + 1]
      BY <2>0, <3>1, RemoveAtProperties DEF TypeOK
    <3>3. \A n \in 1 .. Len(requests) : \E m \in 1 .. Len(pointers) : requests[n] = pointers[m]
      BY <2>1, <3>2
    <3> QED
      BY <2>1, <3>3 DEF ToSet
  <2> QED
    BY <2>2, <2>3, <2>4
<1> QED
  BY <1>1, Invariance, PTL

\* The worker never resumes a coroutine that ran to its end.
THEOREM NoResumeAfterTheEnd == Spec => []NeverResumesFinished
<1>1. IInv => NeverResumesFinished
  <2> SUFFICES ASSUME IInv, worker = "for", it # 0 PROVE requests[it] \notin finished
    BY DEF NeverResumesFinished
  <2>1. it \in 1 .. Len(requests)
    BY LenProperties DEF IInv, TypeOK
  <2> QED
    BY <2>1 DEF IInv, Listed, ListedUnfinished, Positions
<1> QED
  BY <1>1, Invariance, PTL

\* When the handler is gone, each accepted request ran to its end or was
\* canceled by the destructor, and not both.
THEOREM DestructorSettles == Spec => []DestructorSettlesAll
<1>1. IInv => DestructorSettlesAll
  <2> SUFFICES ASSUME IInv, owner = "gone", ~EmptyAdded, NEW j \in Jobs, add[j] = "accepted"
               PROVE  j \in finished <=> j \notin canceled
    BY DEF DestructorSettlesAll
  <2>1. worker = "none" /\ \A k \in Jobs : add[k] # "pushReq"
    BY DEF IInv, Ended
  <2>2. requests = pointers /\ canceled = IF requests = <<>> THEN {} ELSE ToSet(requests) \ EmptyJobs
    BY <2>1 DEF IInv, Paired, Ended, Abandoned
  <2>3. DOMAIN requests = 1 .. Len(requests) /\ (requests = <<>> => Len(requests) = 0)
    BY LenProperties, EmptySeq DEF IInv, TypeOK
  <2>4. j \notin EmptyJobs
    BY DEF EmptyAdded
  <2>5. j \in canceled <=> \E n \in 1 .. Len(requests) : requests[n] = j
    BY <2>2, <2>3, <2>4 DEF ToSet
  <2> QED
    BY <2>1, <2>4, <2>5 DEF IInv, Listed, ListedUnfinished, UnfinishedListed, Positions
<1> QED
  BY <1>1, Invariance, PTL

\* Without an empty request the worker never erases at the end of a list.
THEOREM NoEraseAtTheEnd == Spec => []NeverErasesEnd
<1>1. Init => NeverErasesEnd
  BY DEF Init, NeverErasesEnd
<1>2. IInv /\ NeverErasesEnd /\ [Next]_vars => NeverErasesEnd'
  <2> SUFFICES ASSUME IInv, NeverErasesEnd, [Next]_vars, ~EmptyAdded' PROVE fault' # "erase_at_end"
    BY DEF NeverErasesEnd
  <2>1. TypeOK /\ Paired /\ fault # "erase_at_end"
    BY EmptyAddedStays DEF IInv, NeverErasesEnd
  <2>2. CASE ErasePtr
    <3>1. Len(pointers) \in Nat
      BY <2>1, LenProperties DEF TypeOK
    <3>2. ptr # 0
      BY <2>1, <2>2, <3>1 DEF ErasePtr, Paired
    <3> QED
      BY <2>1, <2>2, <3>2 DEF ErasePtr
  <2>3. CASE ResumeThrow \/ OwnerProceed
    BY <2>1, <2>3 DEF ResumeThrow, OwnerProceed, JoinInStop, JoinInDestructor, Join, CancelAll
  <2>4. CASE UNCHANGED fault
    BY <2>1, <2>4
  <2>5. ASSUME NEW j \in Jobs, AddCheck(j) \/ AddProceed(j) PROVE UNCHANGED fault
    BY <2>5 DEF AddCheck, AddProceed, AddLock, PushPointer, PushRequest
  <2>6. ASSUME WhileCheck \/ Look \/ EndPass \/ ResumeMore \/ ResumeDone \/ Advance \/ AdvancePtr \/ Lock \/ Erase
        PROVE  UNCHANGED fault
    BY <2>6 DEF WhileCheck, Look, EndPass, ResumeMore, ResumeDone, Advance, AdvancePtr, Lock, Erase
  <2>7. ASSUME Run \/ SetLimit \/ Stop \/ Destroy PROVE UNCHANGED fault
    BY <2>7 DEF Run, SetLimit, Stop, Destroy
  <2>8. ASSUME UNCHANGED vars PROVE UNCHANGED fault
    BY <2>8 DEF vars
  <2> QED
    BY <2>2, <2>3, <2>4, <2>5, <2>6, <2>7, <2>8 DEF Next, Step, Over, Work, Resume
<1> QED
  BY <1>1, <1>2, Invariance, PTL DEF Spec

-----------------------------------------------------------------------------
(* The limit. *)

\* Nothing runs or is listed before the first run(), and a coroutine is not
\* resumed before its request is accepted.
Fresh ==
    /\ limit \in {InitialLimit} \union Limits
    /\ runs = 0 => requests = <<>> /\ ~working /\ \A j \in Jobs : add[j] \in {"idle", "refused"}
    /\ \A j \in Jobs : add[j] # "accepted" => resumes[j] = 0

\* The worker starts the listed coroutines from the front: p of them so far.
BegunUpTo(p) == \A n \in Positions : resumes[requests[n]] > 0 <=> n <= p

\* How the counter follows them under a limit of at most top: it is never more
\* than one behind, and not behind at all where the next coroutine could be
\* started.  Only when it was zero at an erase it wrapped far past the limit;
\* then the worker stays at the head of the list until it has come down.
Follows(top, p) ==
    /\ it <= p + 1
    /\ worker \in {"advance", "lock", "erase"} => it <= p
    /\ counter <= top + 1 \/ (p <= 1 /\ it <= 1)
    /\ worker \in {"advance", "advancePtr"} => counter <= top
    /\ p <= counter + 1
    /\ it >= 2 /\ worker \in {"for", "lock", "erase"} => p <= counter
    /\ worker = "erasePtr" => p <= counter /\ (it >= 2 => p < counter)

Within(top) == Counted /\ {InitialLimit} \union Limits \subseteq 0 .. top
Limited == \A top \in 0 .. CounterRange - 2 : Within(top) => \E p \in 0 .. Len(requests) : BegunUpTo(p) /\ Follows(top, p)

\* One step keeps what is said of fresh requests and of the limit in force.
LEMMA FreshStep ==
    ASSUME IInv, Fresh, [Next]_vars
    PROVE  Fresh'
<1> USE DEF Fresh
<1>0. TypeOK /\ Joined /\ Len(requests) \in Nat /\ (requests = <<>> => Len(requests) = 0)
  BY LenProperties, EmptySeq DEF IInv, TypeOK
<1>1. ASSUME NEW j \in Jobs, AddCheck(j) PROVE Fresh'
  BY <1>0, <1>1 DEF AddCheck, shared, thread, outcome, TypeOK
<1>2. ASSUME NEW j \in Jobs, AddProceed(j) PROVE Fresh'
  <2>1. runs # 0 /\ UNCHANGED <<runs, resumes, limit>>
    BY <1>2 DEF AddProceed, AddLock, PushPointer, PushRequest, thread, outcome
  <2>2. \A k \in Jobs : add'[k] # "accepted" => add[k] # "accepted"
    BY <1>0, <1>2 DEF AddProceed, AddLock, PushPointer, PushRequest, TypeOK
  <2> QED
    BY <2>1, <2>2
<1>3. CASE WhileCheck \/ Look \/ EndPass \/ ResumeDone \/ ResumeThrow \/ Advance \/ AdvancePtr
  BY <1>3 DEF WhileCheck, Look, EndPass, ResumeDone, ResumeThrow, Advance, AdvancePtr, shared, thread, outcome
<1>4. CASE ResumeMore
  <2>1. it \in Positions /\ requests[it] \in Jobs /\ add[requests[it]] = "accepted" /\ runs # 0
    BY <1>0, <1>4, ElementOfSeq DEF ResumeMore, Positions, IInv, TypeOK, Listed, ListedAccepted
  <2>2. \A k \in Jobs : k # requests[it] => resumes'[k] = resumes[k]
    BY <1>0, <1>4 DEF ResumeMore, TypeOK
  <2> QED
    BY <1>4, <2>1, <2>2 DEF ResumeMore, shared
<1>5. CASE Lock \/ ErasePtr
  BY <1>5 DEF Lock, ErasePtr, outcome
<1>6. CASE Erase
  <2>1. runs # 0
    BY <1>0, <1>6 DEF Erase, Joined, IInv, OnElement, TypeOK
  <2> QED
    BY <1>6, <2>1 DEF Erase, outcome
<1>7. CASE Run
  BY <1>0, <1>7 DEF Run, outcome, TypeOK
<1>8. CASE SetLimit \/ Stop \/ Destroy
  BY <1>8 DEF SetLimit, Stop, Destroy, thread, outcome
<1>9. CASE OwnerProceed
  BY <1>9 DEF OwnerProceed, JoinInStop, JoinInDestructor, Join, CancelAll, shared, thread, outcome
<1>10. CASE UNCHANGED vars
  BY <1>10 DEF vars, shared, thread, outcome
<1> QED
  BY <1>1, <1>2, <1>3, <1>4, <1>5, <1>6, <1>7, <1>8, <1>9, <1>10
  DEF Next, Step, Over, Work, Resume

\* What held of the counter before a step that leaves the list and the coroutines
\* alone holds of as many of them after it.
LEMMA SameBegun ==
    ASSUME TypeOK, NEW p \in 0 .. Len(requests), BegunUpTo(p), UNCHANGED <<requests, resumes>>
    PROVE  p \in 0 .. Len(requests') /\ BegunUpTo(p)'
BY DEF BegunUpTo, Positions

\* The coroutines that were started are the first p of the list, so they are no
\* more than p.
LEMMA FewStarted ==
    ASSUME TypeOK, NEW p \in 0 .. Len(requests), BegunUpTo(p)
    PROVE  Cardinality(Started) \in Nat /\ Cardinality(Started) <= p
<1> DEFINE first == [n \in 1 .. p |-> requests[n]]
           begun == {requests[n] : n \in 1 .. p}
<1>1. Len(requests) \in Nat /\ DOMAIN requests = Positions
  BY LenProperties DEF TypeOK, Positions
<1>2. first \in Surjection(1 .. p, begun)
  BY DEF Surjection
<1>3. IsFiniteSet(1 .. p) /\ Cardinality(1 .. p) = p
  BY <1>1, FS_Interval
<1>4. IsFiniteSet(begun) /\ Cardinality(begun) <= p
  BY <1>2, <1>3, FS_Surjection
<1>5. Started \subseteq begun
  <2> SUFFICES ASSUME NEW j \in Started PROVE j \in begun
    OBVIOUS
  <2>1. PICK n \in Positions : requests[n] = j
    BY <1>1 DEF Started, ToSet
  <2>2. n \in 1 .. p
    BY <1>1, <2>1 DEF Started, BegunUpTo, Positions
  <2> QED
    BY <2>1, <2>2
<1>6. IsFiniteSet(Started) /\ Cardinality(Started) <= Cardinality(begun)
  BY <1>4, <1>5, FS_Subset
<1>7. Cardinality(Started) \in Nat /\ Cardinality(begun) \in Nat
  BY <1>4, <1>6, FS_CardinalityType
<1> QED
  BY <1>1, <1>4, <1>6, <1>7

\* A counter that was behind stays behind: what lost the bound is not undone.
LEMMA CountedBefore ==
    ASSUME IInv, [Next]_vars, Counted'
    PROVE  Counted
<1> USE DEF Counted
<1>0. TypeOK
  BY DEF IInv
<1>1. runs' >= runs
  <2>1. CASE Run
    BY <1>0, <2>1 DEF Run, TypeOK
  <2>2. CASE UNCHANGED runs
    BY <1>0, <2>2 DEF TypeOK
  <2>3. ASSUME NEW j \in Jobs, AddCheck(j) \/ AddProceed(j) PROVE UNCHANGED runs
    BY <2>3 DEF AddCheck, AddProceed, AddLock, PushPointer, PushRequest
  <2>4. ASSUME Work PROVE UNCHANGED runs
    BY <2>4 DEF Work, WhileCheck, Look, EndPass, Resume, ResumeMore, ResumeDone, ResumeThrow, Advance, AdvancePtr,
                Lock, Erase, ErasePtr
  <2>5. ASSUME SetLimit \/ Stop \/ Destroy \/ OwnerProceed PROVE UNCHANGED runs
    BY <2>5 DEF SetLimit, Stop, Destroy, OwnerProceed, JoinInStop, JoinInDestructor, Join, CancelAll
  <2>6. ASSUME UNCHANGED vars PROVE UNCHANGED runs
    BY <2>6 DEF vars
  <2> QED
    BY <2>1, <2>2, <2>3, <2>4, <2>5, <2>6 DEF Next, Step, Over
<1>2. runs <= 1
  BY <1>0, <1>1, TypeStep DEF IInv, TypeOK
<1>3. CASE ResumeMore
  <2>1. requests[it] \notin finished
    BY <1>0, <1>3, LenProperties DEF ResumeMore, IInv, TypeOK, Listed, ListedUnfinished, Positions
  <2>2. \A j \in finished : resumes'[j] = resumes[j] /\ j \in finished'
    BY <1>0, <1>3, <2>1 DEF ResumeMore, TypeOK
  <2> QED
    BY <1>2, <2>2
<1>4. CASE ResumeDone
  BY <1>2, <1>4 DEF ResumeDone
<1>5. CASE UNCHANGED <<resumes, finished>>
  BY <1>2, <1>5
<1>6. ASSUME NEW j \in Jobs, AddCheck(j) \/ AddProceed(j) PROVE UNCHANGED <<resumes, finished>>
  BY <1>6 DEF AddCheck, AddProceed, AddLock, PushPointer, PushRequest, outcome
<1>7. ASSUME WhileCheck \/ Look \/ EndPass \/ ResumeThrow \/ Advance \/ AdvancePtr \/ Lock \/ Erase \/ ErasePtr
      PROVE  UNCHANGED <<resumes, finished>>
  BY <1>7 DEF WhileCheck, Look, EndPass, ResumeThrow, Advance, AdvancePtr, Lock, Erase, ErasePtr, outcome
<1>8. ASSUME Run \/ SetLimit \/ Stop \/ Destroy \/ OwnerProceed PROVE UNCHANGED <<resumes, finished>>
  BY <1>8 DEF Run, SetLimit, Stop, Destroy, OwnerProceed, JoinInStop, JoinInDestructor, Join, CancelAll, outcome
<1>9. ASSUME UNCHANGED vars PROVE UNCHANGED <<resumes, finished>>
  BY <1>9 DEF vars, outcome
<1> QED
  BY <1>3, <1>4, <1>5, <1>6, <1>7, <1>8, <1>9 DEF Next, Step, Over, Work, Resume

\* The worker resumes the coroutine it stands on: one that was begun, or the
\* first that was not.
LEMMA BegunByResume ==
    ASSUME IInv, ResumeMore, NEW p \in 0 .. Len(requests), BegunUpTo(p), it <= p + 1,
           NEW q, q = IF it <= p THEN p ELSE p + 1
    PROVE  q \in 0 .. Len(requests') /\ BegunUpTo(q)'
<1>1. /\ Len(requests) \in Nat /\ it \in Positions /\ UNCHANGED requests
      /\ \A n \in Positions : requests[n] \in Jobs
  BY LenProperties, ElementOfSeq DEF IInv, TypeOK, ResumeMore, shared, Positions
<1>2. q \in 0 .. Len(requests')
  BY <1>1 DEF Positions
<1>3. resumes \in [Jobs -> Nat] /\ resumes' = [resumes EXCEPT ![requests[it]] = @ + 1]
  BY ResumesAssumption DEF IInv, TypeOK, ResumeMore
<1>4. resumes'[requests[it]] > 0 /\ it <= q
  BY <1>1, <1>3 DEF Positions
<1>5. ASSUME NEW n \in Positions, n # it
      PROVE  resumes'[requests[n]] > 0 <=> n <= q
  <2>1. requests[n] # requests[it]
    BY <1>1, <1>5 DEF IInv, Listed, ListedOnce
  <2>2. resumes'[requests[n]] = resumes[requests[n]]
    BY <1>1, <1>3, <2>1
  <2>3. n <= q <=> n <= p
    BY <1>1, <1>5 DEF Positions
  <2> QED
    BY <2>2, <2>3 DEF BegunUpTo
<1>6. Positions' = Positions
  BY <1>1 DEF Positions
<1>7. BegunUpTo(q)'
  BY <1>1, <1>4, <1>5, <1>6 DEF BegunUpTo
<1> QED
  BY <1>2, <1>7

\* Erasing a begun coroutine leaves one less of them at the front.
LEMMA BegunByErase ==
    ASSUME IInv, Erase, NEW p \in 0 .. Len(requests), BegunUpTo(p), it <= p
    PROVE  p - 1 \in 0 .. Len(requests') /\ BegunUpTo(p - 1)'
<1>1. it \in 1 .. Len(requests) /\ Len(requests) \in Nat
  BY LenProperties DEF IInv, TypeOK, OnElement, Erase
<1>2. /\ Len(requests') = Len(requests) - 1
      /\ \A n \in 1 .. Len(requests) - 1 : requests'[n] = IF n < it THEN requests[n] ELSE requests[n + 1]
  BY <1>1, RemoveAtProperties DEF IInv, TypeOK, Erase
<1>3. UNCHANGED resumes
  BY DEF Erase, outcome
<1>4. p - 1 \in 0 .. Len(requests')
  BY <1>1, <1>2
<1>5. ASSUME NEW n \in 1 .. Len(requests) - 1
      PROVE  resumes[requests'[n]] > 0 <=> n <= p - 1
  <2>1. CASE n < it
    <3>1. n \in Positions /\ requests'[n] = requests[n] /\ n <= p /\ n <= p - 1
      BY <1>1, <1>2, <2>1 DEF Positions
    <3> QED
      BY <3>1 DEF BegunUpTo
  <2>2. CASE ~(n < it)
    <3>1. n + 1 \in Positions /\ requests'[n] = requests[n + 1] /\ (n + 1 <= p <=> n <= p - 1)
      BY <1>1, <1>2, <2>2 DEF Positions
    <3> QED
      BY <3>1 DEF BegunUpTo
  <2> QED
    BY <2>1, <2>2
<1>6. Positions' = 1 .. Len(requests) - 1
  BY <1>2 DEF Positions
<1>7. BegunUpTo(p - 1)'
  BY <1>3, <1>5, <1>6 DEF BegunUpTo
<1> QED
  BY <1>4, <1>7

\* A coroutine enters the list at its end, and is not begun.
LEMMA BegunByPush ==
    ASSUME IInv, Fresh, NEW j \in Jobs, PushRequest(j), NEW p \in 0 .. Len(requests), BegunUpTo(p)
    PROVE  p \in 0 .. Len(requests') /\ BegunUpTo(p)'
<1>1. Len(requests) \in Nat /\ UNCHANGED resumes /\ resumes[j] = 0
  BY LenProperties DEF IInv, TypeOK, Fresh, PushRequest, outcome
<1>2. CASE j \in EmptyJobs
  <2>1. UNCHANGED requests
    BY <1>2 DEF PushRequest, WithCoroutine
  <2> QED
    BY <1>1, <2>1, SameBegun DEF IInv
<1>3. CASE j \notin EmptyJobs
  <2>1. requests' = Append(requests, j)
    BY <1>3 DEF PushRequest, WithCoroutine
  <2>2. /\ Len(requests') = Len(requests) + 1
        /\ \A n \in Positions : requests'[n] = requests[n]
        /\ requests'[Len(requests) + 1] = j
    BY <2>1, AppendProperties DEF IInv, TypeOK, Positions
  <2>3. Positions' = Positions \union {Len(requests) + 1} /\ ~(Len(requests) + 1 <= p) /\ p \in 0 .. Len(requests')
    BY <1>1, <2>2 DEF Positions
  <2>4. ~(resumes'[requests'[Len(requests) + 1]] > 0)
    BY <1>1, <2>2
  <2> QED
    BY <1>1, <2>2, <2>3, <2>4 DEF BegunUpTo
<1> QED
  BY <1>2, <1>3

\* One step keeps the counter close to the coroutines that were begun.
LEMMA LimitedStep ==
    ASSUME IInv, Fresh, Limited, [Next]_vars
    PROVE  Limited'
<1> SUFFICES ASSUME NEW top \in 0 .. CounterRange - 2, Within(top)'
             PROVE  \E q \in 0 .. Len(requests') : BegunUpTo(q)' /\ Follows(top, q)'
  BY DEF Limited
<1> DEFINE Found == \E q \in 0 .. Len(requests') : BegunUpTo(q)' /\ Follows(top, q)'
<1>0. TypeOK /\ Within(top)
  BY CountedBefore DEF IInv, Within
<1>1. PICK p \in 0 .. Len(requests) : BegunUpTo(p) /\ Follows(top, p)
  BY <1>0 DEF Limited
<1>2. /\ p \in Nat /\ it \in Nat /\ counter \in 0 .. CounterRange - 1 /\ CounterRange \in Nat
      /\ top \in Nat /\ top <= CounterRange - 2 /\ limit \in Nat /\ limit <= top
      /\ Len(requests) \in Nat
  <2>1. CounterRange \in Nat /\ top \in Nat /\ top <= CounterRange - 2
    BY CounterAssumption
  <2>2. limit \in 0 .. top
    BY <1>0 DEF Fresh, Within
  <2>3. Len(requests) \in Nat
    BY <1>0, LenProperties DEF TypeOK
  <2> QED
    BY <1>0, <2>1, <2>2, <2>3 DEF TypeOK
<1>3. ASSUME UNCHANGED <<requests, resumes>>, Follows(top, p)'
      PROVE  Found
  BY <1>0, <1>1, <1>3, SameBegun
<1>4. ASSUME UNCHANGED <<it, counter, worker>> PROVE Follows(top, p)'
  BY <1>1, <1>4 DEF Follows
<1> HIDE DEF Found
<1> SUFFICES Found
  BY DEF Found
<1>5. ASSUME NEW j \in Jobs, AddCheck(j) \/ AddLock(j) \/ PushPointer(j) PROVE Found
  <2>1. UNCHANGED <<requests, resumes, it, counter, worker>>
    BY <1>5 DEF AddCheck, AddLock, PushPointer, shared, thread, outcome
  <2> QED
    BY <1>3, <1>4, <2>1
<1>6. ASSUME NEW j \in Jobs, PushRequest(j) PROVE Found
  <2>1. Follows(top, p)'
    BY <1>4, <1>6 DEF PushRequest, thread
  <2>2. p \in 0 .. Len(requests') /\ BegunUpTo(p)'
    BY <1>1, <1>6, BegunByPush
  <2> QED
    BY <2>1, <2>2 DEF Found
<1>7. CASE WhileCheck \/ Look \/ EndPass
  <2>1. UNCHANGED <<requests, resumes, counter>> /\ it' \in Nat /\ (it' = it \/ it' <= 1)
        /\ worker' \in {"look", "exited", "while", "for"} /\ (worker' = "for" => it' <= 1)
    BY <1>2, <1>7 DEF WhileCheck, Look, EndPass, Begin, shared, outcome
  <2>2. Follows(top, p)'
    BY <1>1, <1>2, <2>1 DEF Follows
  <2> QED
    BY <1>3, <2>1, <2>2
<1>8. CASE ResumeMore /\ Overloaded
  <2>1. worker = "for" /\ worker' = "for" /\ it' \in {0, 1} /\ it # 0 /\ UNCHANGED counter /\ counter > limit
    BY <1>8 DEF ResumeMore, Overloaded, Begin
  <2>2. PICK q : q = IF it <= p THEN p ELSE p + 1
    OBVIOUS
  <2>3. q \in 0 .. Len(requests') /\ BegunUpTo(q)'
    BY <1>1, <1>8, <2>2, BegunByResume DEF Follows
  <2>4. it <= p + 1 /\ (it >= 2 => p <= counter) /\ (counter <= top + 1 \/ (p <= 1 /\ it <= 1)) /\ p <= counter + 1
    BY <1>1, <2>1 DEF Follows
  <2>5. q \in Nat /\ q <= counter + 1 /\ (counter <= top + 1 \/ q <= 1)
    BY <1>2, <2>1, <2>2, <2>4
  <2>6. Follows(top, q)'
    BY <1>2, <2>1, <2>5 DEF Follows
  <2> QED
    BY <2>3, <2>6 DEF Found
<1>9. CASE ResumeMore /\ ~Overloaded
  <2>1. worker = "for" /\ worker' = "advance" /\ UNCHANGED it /\ it # 0 /\ UNCHANGED counter /\ counter <= limit
    BY <1>2, <1>9 DEF ResumeMore, Overloaded
  <2>2. PICK q : q = IF it <= p THEN p ELSE p + 1
    OBVIOUS
  <2>3. q \in 0 .. Len(requests') /\ BegunUpTo(q)'
    BY <1>1, <1>9, <2>2, BegunByResume DEF Follows
  <2>4. it <= p + 1 /\ (it >= 2 => p <= counter) /\ p <= counter + 1
    BY <1>1, <2>1 DEF Follows
  <2>5. q \in Nat /\ q <= counter + 1 /\ it <= q
    BY <1>2, <2>1, <2>2, <2>4
  <2>6. Follows(top, q)'
    BY <1>2, <2>1, <2>5 DEF Follows
  <2> QED
    BY <2>3, <2>6 DEF Found
<1>10. CASE ResumeDone
  <2>1. worker = "for" /\ worker' = "lock" /\ it # 0 /\ UNCHANGED <<requests, resumes, it, counter>>
        /\ requests[it] \in finished'
    BY <1>10 DEF ResumeDone, shared
  <2>2. it \in Positions /\ resumes[requests[it]] > 0
    BY <1>0, <1>2, <2>1 DEF Within, Counted, TypeOK, Positions
  <2>3. it <= p
    BY <1>1, <2>2 DEF BegunUpTo
  <2>4. Follows(top, p)'
    BY <1>1, <2>1, <2>3 DEF Follows
  <2> QED
    BY <1>3, <2>1, <2>4
<1>11. CASE ResumeThrow
  <2>1. UNCHANGED <<requests, resumes, it, counter, worker>>
    BY <1>11 DEF ResumeThrow, shared, thread, outcome
  <2> QED
    BY <1>3, <1>4, <2>1
<1>12. CASE Advance
  <2>1. worker = "advance" /\ worker' = "advancePtr" /\ UNCHANGED <<requests, resumes, counter>>
        /\ it' \in Nat /\ it' <= it + 1
    BY <1>2, <1>12 DEF Advance, After, Begin, shared, outcome
  <2>2. Follows(top, p)'
    BY <1>1, <1>2, <2>1 DEF Follows
  <2> QED
    BY <1>3, <2>1, <2>2
<1>13. CASE AdvancePtr
  <2>1. worker = "advancePtr" /\ worker' = "for" /\ UNCHANGED <<requests, resumes, it>> /\ counter <= top
    BY <1>1, <1>13 DEF AdvancePtr, Follows, shared, outcome
  <2>2. (counter + 1) % CounterRange = counter + 1
    BY <1>2, <2>1
  <2>3. counter' = counter + 1
    BY <1>13, <2>2 DEF AdvancePtr
  <2>4. Follows(top, p)'
    BY <1>1, <1>2, <2>1, <2>3 DEF Follows
  <2> QED
    BY <1>3, <2>1, <2>4
<1>14. CASE Lock
  <2>1. worker = "lock" /\ worker' = "erase" /\ UNCHANGED <<requests, resumes, it, counter>>
    BY <1>14 DEF Lock, outcome
  <2>2. Follows(top, p)'
    BY <1>1, <2>1 DEF Follows
  <2> QED
    BY <1>3, <2>1, <2>2
<1>15. CASE Erase
  <2>1. worker = "erase" /\ worker' = "erasePtr" /\ UNCHANGED counter /\ it' \in Nat /\ (it' = it \/ it' <= 1) /\ it # 0
    BY <1>0, <1>2, <1>15 DEF Erase, EraseAndWrap, Begin, IInv, OnElement
  <2>2. it <= p
    BY <1>1, <2>1 DEF Follows
  <2>3. p - 1 \in 0 .. Len(requests') /\ BegunUpTo(p - 1)'
    BY <1>1, <1>15, <2>2, BegunByErase
  <2>4. p <= counter + 1 /\ (it >= 2 => p <= counter) /\ (counter <= top + 1 \/ (p <= 1 /\ it <= 1))
    BY <1>1, <2>1 DEF Follows
  <2>5. Follows(top, p - 1)'
    BY <1>2, <2>1, <2>2, <2>4 DEF Follows
  <2> QED
    BY <2>3, <2>5 DEF Found
<1>16. CASE ErasePtr /\ ptr = 0
  <2>1. UNCHANGED <<requests, resumes, it, counter, worker>>
    BY <1>16 DEF ErasePtr, outcome
  <2> QED
    BY <1>3, <1>4, <2>1
<1>17. CASE ErasePtr /\ ptr # 0
  <2>1. worker = "erasePtr" /\ worker' = "for" /\ UNCHANGED <<requests, resumes, it>>
        /\ counter' = (counter + CounterRange - 1) % CounterRange
    BY <1>17 DEF ErasePtr, outcome
  <2>2. it <= p + 1 /\ p <= counter /\ (it >= 2 => p < counter) /\ (counter <= top + 1 \/ (p <= 1 /\ it <= 1))
    BY <1>1, <2>1 DEF Follows
  <2>3. CASE counter = 0
    <3>1. (counter + CounterRange - 1) % CounterRange = CounterRange - 1
      BY <1>2, <2>3
    <3>2. counter' = CounterRange - 1 /\ p = 0 /\ it <= 1
      BY <1>2, <2>1, <2>2, <2>3, <3>1
    <3>3. Follows(top, p)'
      BY <1>2, <2>1, <3>2 DEF Follows
    <3> QED
      BY <1>3, <2>1, <3>3
  <2>4. CASE counter # 0
    <3>1. (counter + CounterRange - 1) % CounterRange = counter - 1
      BY <1>2, <2>4
    <3>2. counter' = counter - 1
      BY <2>1, <3>1
    <3>3. Follows(top, p)'
      BY <1>2, <2>1, <2>2, <2>4, <3>2 DEF Follows
    <3> QED
      BY <1>3, <2>1, <3>3
  <2> QED
    BY <2>3, <2>4
<1>18. CASE Run
  <2>1. runs = 0
    BY <1>0, <1>18 DEF Run, Within, Counted, TypeOK
  <2>2. Len(requests) = 0
    BY <2>1, EmptySeq DEF Fresh
  <2>3. p = 0 /\ it = 0
    BY <1>0, <1>2, <2>2 DEF TypeOK
  <2>4. UNCHANGED <<requests, resumes, it>> /\ worker' = "while" /\ counter' = 0
    BY <1>18 DEF Run, outcome
  <2>5. Follows(top, p)'
    BY <1>2, <2>3, <2>4 DEF Follows
  <2> QED
    BY <1>3, <2>4, <2>5
<1>19. CASE SetLimit \/ Stop \/ Destroy
  <2>1. UNCHANGED <<requests, resumes, it, counter, worker>>
    BY <1>19 DEF SetLimit, Stop, Destroy, thread, outcome
  <2> QED
    BY <1>3, <1>4, <2>1
<1>20. CASE OwnerProceed
  <2>1. UNCHANGED <<requests, resumes, it, counter>> /\ (worker' = worker \/ worker' = "none")
    BY <1>20 DEF OwnerProceed, JoinInStop, JoinInDestructor, Join, CancelAll, shared, thread, outcome
  <2>2. Follows(top, p)'
    BY <1>1, <2>1 DEF Follows
  <2> QED
    BY <1>3, <2>1, <2>2
<1>21. CASE UNCHANGED vars
  <2>1. UNCHANGED <<requests, resumes, it, counter, worker>>
    BY <1>21 DEF vars, shared, thread, outcome
  <2> QED
    BY <1>3, <1>4, <2>1
<1> QED
  BY <1>5, <1>6, <1>7, <1>8, <1>9, <1>10, <1>11, <1>12, <1>13, <1>14, <1>15, <1>16, <1>17, <1>18, <1>19, <1>20, <1>21
  DEF Next, Step, Over, Work, Resume, AddProceed

\* In the first run, while every coroutine that ended had been resumed before, no
\* more coroutines are started and unfinished than two past the largest limit in
\* use (run, the comparison with m_max_processed_requests_count).
THEOREM LimitBounds == Spec => []LimitBoundsStarted
<1>1. Init => Fresh /\ Limited
  <2> SUFFICES ASSUME Init PROVE Fresh /\ Limited
    OBVIOUS
  <2>1. Fresh
    BY DEF Init, Fresh
  <2>2. Len(requests) = 0 /\ Positions = {}
    BY EmptySeq DEF Init, Positions
  <2>3. 0 \in 0 .. Len(requests) /\ BegunUpTo(0)
    BY <2>2 DEF BegunUpTo
  <2>4. ASSUME NEW top \in 0 .. CounterRange - 2 PROVE Follows(top, 0)
    BY CounterAssumption DEF Init, Follows
  <2> QED
    BY <2>1, <2>3, <2>4 DEF Limited
<1>2. IInv /\ Fresh /\ Limited /\ [Next]_vars => (Fresh /\ Limited)'
  BY FreshStep, LimitedStep
<1>3. IInv /\ Limited => LimitBoundsStarted
  <2> SUFFICES ASSUME IInv, Limited, NEW top \in 0 .. CounterRange - 2, Within(top)
               PROVE  Cardinality(Started) <= top + 2
    BY DEF LimitBoundsStarted, Within
  <2>1. PICK p \in 0 .. Len(requests) : BegunUpTo(p) /\ Follows(top, p)
    BY DEF Limited
  <2>2. Cardinality(Started) \in Nat /\ Cardinality(Started) <= p
    BY <2>1, FewStarted DEF IInv
  <2>3. p \in Nat /\ counter \in Nat /\ top \in Nat
    BY LenProperties, CounterAssumption DEF IInv, TypeOK
  <2>4. p <= top + 2
    BY <2>1, <2>3 DEF Follows
  <2> QED
    BY <2>2, <2>3, <2>4
<1> QED
  BY <1>1, <1>2, <1>3, Invariance, PTL DEF Spec

-----------------------------------------------------------------------------
(* The handler with its requests. *)

QuietOwner == Run \/ SetLimit \/ Stop \/ Destroy \/ JoinInStop \/ JoinInDestructor

\* What a step does, told apart by whose request it affects.
LEMMA HandledCases ==
    ASSUME [HandledNext]_handledVars
    PROVE  \/ UNCHANGED <<vars, flags, told, stale, calls>>
           \/ fault = "none" /\ ResumeRequest
           \/ fault = "none" /\ UNCHANGED requestVars /\ (Walk \/ QuietOwner \/ \E j \in Jobs : AddProceed(j))
           \/ fault = "none" /\ \E j \in Jobs : Give(j)
           \/ fault = "none" /\ CancelListed
           \/ fault = "none" /\ \E r \in Kept : User(r)
<1>1. CASE UNCHANGED handledVars
  BY <1>1 DEF handledVars, requestVars
<1>2. CASE Over /\ UNCHANGED requestVars
  BY <1>2 DEF Over, requestVars
<1>3. CASE fault = "none" /\ HandledWork
  <2>1. CASE Wait \/ WaitIsOver
    BY <2>1 DEF Wait, WaitIsOver
  <2> QED
    BY <1>3, <2>1 DEF HandledWork
<1>4. CASE fault = "none" /\ HandledStep
  BY <1>3, <1>4 DEF HandledStep, HandledOwnerProceed, QuietOwner
<1> QED
  BY <1>1, <1>2, <1>4 DEF HandledNext

\* Each step is one of the handler, or leaves it alone.
LEMMA HandlerStep ==
    ASSUME [HandledNext]_handledVars
    PROVE  [Next]_vars
<1>1. CASE fault = "none" /\ ResumeRequest
  BY <1>1 DEF ResumeRequest, Next, Step, Work, Resume
<1>2. CASE fault = "none" /\ (Walk \/ QuietOwner \/ \E j \in Jobs : AddProceed(j))
  BY <1>2 DEF Walk, QuietOwner, Next, Step, Work, OwnerProceed
<1>3. CASE fault = "none" /\ \E j \in Jobs : Give(j)
  BY <1>3 DEF Give, Next, Step
<1>4. CASE fault = "none" /\ CancelListed
  BY <1>4 DEF CancelListed, Next, Step, OwnerProceed
<1>5. CASE \E r \in Kept : User(r)
  BY <1>5 DEF User, Cancel, PauseProcessing, ContinueProcessing, Call
<1> QED
  BY <1>1, <1>2, <1>3, <1>4, <1>5, HandledCases

\* With its requests the handler does nothing that AsyncRequestHandler does not.
THEOREM HandlerIsItself == HandledSpec => Spec
<1>1. HandledInit => Init
  BY DEF HandledInit
<1>2. [HandledNext]_handledVars => [Next]_vars
  BY HandlerStep
<1> QED
  BY <1>1, <1>2, PTL DEF HandledSpec, Spec

-----------------------------------------------------------------------------
(* What the requests told. *)

\* Accepted, though perhaps not listed yet.
Taken(j) == add[j] \notin {"idle", "refused"}

\* Who was told of a failure or a cancel has it still; who has an error or a flag
\* was told of it since it was given, or came with it.
Flagged ==
    \A j \in Jobs \ EmptyJobs :
        /\ "failed" \in told[j] => RequestOf[j] \in failedOnce
        /\ "canceled" \in told[j] => "cancel" \in calls[RequestOf[j]] \/ owner = "gone"
        /\ "paused" \in told[j] => "pause" \in calls[RequestOf[j]]
        /\ Taken(j) /\ Burdened(RequestOf[j]) => told[j] # {} \/ j \in stale

\* A coroutine that ended has told, or its request came with an error or a flag.
FinishedTold ==
    \A j \in finished : j \in Jobs \ EmptyJobs /\ (told[j] # {} \/ j \in stale)

CanceledTold == ~EmptyAdded => \A j \in canceled : j \in Jobs \ EmptyJobs /\ "canceled" \in told[j]

GivenOnce(j) == LetAlone(RequestOf[j]) /\ \A k \in Others(j) : ~Given(k)

\* What FinishedIsKept needs to know more: a success is told where a coroutine ends.
KeptOnce ==
    ~EmptyAdded =>
        \A j \in Jobs \ EmptyJobs :
            GivenOnce(j) /\ "finished" \in told[j] => j \in finished /\ told[j] = {"finished"}

HInv == RequestTypes /\ Flagged /\ FinishedTold /\ CanceledTold /\ KeptOnce

\* A resume() affects the request of one coroutine, which was accepted and has not
\* ended.
LEMMA ResumeEffect ==
    ASSUME IInv, ResumeRequest
    PROVE  /\ UNCHANGED <<owner, add, canceled, stale, calls>>
           /\ owner # "gone"
           /\ waits' = "no"
           /\ \E k \in Jobs \ EmptyJobs :
                /\ add[k] = "accepted" /\ k \notin finished
                /\ \/ finished' = finished /\ (Fail(RequestOf[k]) \/ UNCHANGED <<flags, told>>)
                   \/ /\ finished' = finished \union {k}
                      /\ Leave(RequestOf[k]) \/ Fail(RequestOf[k]) \/ Succeed(RequestOf[k])
<1> DEFINE k == requests[it]
<1>1. worker = "for" /\ it # 0
  BY DEF ResumeRequest
<1>2. it \in Positions
  BY <1>1 DEF IInv, TypeOK, Positions
<1>3. k \in Jobs
  BY <1>2 DEF IInv, TypeOK, Positions
<1>4. add[k] = "accepted" /\ k \notin EmptyJobs /\ k \notin finished
  BY <1>1, <1>2 DEF IInv, Listed, ListedAccepted, ListedUnfinished
<1>5. owner # "gone"
  BY <1>1 DEF IInv, Ended
<1>6. UNCHANGED <<owner, add, canceled, stale, calls>> /\ waits' = "no"
  BY DEF ResumeRequest, ResumeMore, ResumeDone, ResumeThrow, outcome
<1>7. \/ finished' = finished /\ (Fail(RequestOf[k]) \/ UNCHANGED <<flags, told>>)
      \/ /\ finished' = finished \union {k}
         /\ Leave(RequestOf[k]) \/ Fail(RequestOf[k]) \/ Succeed(RequestOf[k])
  BY DEF ResumeRequest, ResumeMore, ResumeDone, ResumeThrow, outcome, GoOn
<1> QED
  BY <1>3, <1>4, <1>5, <1>6, <1>7

\* A step that affects no request keeps what the lists say of them.
LEMMA QuietEffect ==
    ASSUME IInv, Walk \/ QuietOwner \/ \E j \in Jobs : AddProceed(j)
    PROVE  /\ UNCHANGED <<finished, canceled>>
           /\ \A j \in Jobs : (add'[j] = "idle" <=> add[j] = "idle") /\ (add'[j] = "refused" <=> add[j] = "refused")
           /\ owner' = "gone" <=> owner = "gone"
<1> USE DEF IInv, TypeOK
<1>1. CASE Walk
  BY <1>1 DEF Walk, WhileCheck, Look, EndPass, Advance, AdvancePtr, Lock, Erase, ErasePtr, outcome
<1>2. CASE QuietOwner
  BY <1>2 DEF QuietOwner, Run, SetLimit, Stop, Destroy, JoinInStop, JoinInDestructor, Join, outcome
<1>3. ASSUME NEW j \in Jobs, AddProceed(j)
      PROVE  /\ UNCHANGED <<finished, canceled>>
             /\ \A i \in Jobs : (add'[i] = "idle" <=> add[i] = "idle") /\ (add'[i] = "refused" <=> add[i] = "refused")
             /\ owner' = "gone" <=> owner = "gone"
  BY <1>3 DEF AddProceed, AddLock, PushPointer, PushRequest, outcome
<1> QED
  BY <1>1, <1>2, <1>3

\* Giving a request to a handler that does not work is a failure of that request;
\* otherwise it is noted with what it comes.
LEMMA GiveEffect ==
    ASSUME IInv, NEW j \in Jobs, Give(j)
    PROVE  /\ UNCHANGED <<owner, finished, canceled, calls, waits>>
           /\ add[j] = "idle" /\ add'[j] # "idle"
           /\ \A k \in Jobs \ {j} : add'[k] = add[k]
           /\ \/ /\ UNCHANGED <<flags, told>>
                 /\ stale \subseteq stale' /\ stale' \subseteq stale \union ({j} \ EmptyJobs)
                 /\ j \notin EmptyJobs /\ add'[j] # "refused" /\ Burdened(RequestOf[j]) => j \in stale'
              \/ j \notin EmptyJobs /\ add'[j] = "refused" /\ stale' = stale /\ Fail(RequestOf[j])
<1>1. /\ UNCHANGED <<owner, finished, canceled, calls, waits>>
      /\ add[j] = "idle" /\ add' = [add EXCEPT ![j] = IF working THEN "lock" ELSE "refused"]
  BY DEF Give, AddCheck, outcome
<1>2. add \in [Jobs -> AddPlaces]
  BY DEF IInv, TypeOK
<1>3. CASE working
  <2>1. Accept(j)
    BY <1>3 DEF Give
  <2> QED
    BY <1>1, <1>2, <2>1 DEF Accept
<1>4. CASE ~working
  <2>1. Refuse(j) /\ add'[j] = "refused"
    BY <1>1, <1>2, <1>4 DEF Give
  <2> QED
    BY <1>1, <1>2, <2>1 DEF Refuse
<1> QED
  BY <1>3, <1>4

\* The destructor tells the requests that were accepted and did not end.
LEMMA CancelEffect ==
    ASSUME IInv, CancelListed
    PROVE  /\ UNCHANGED <<add, finished, calls, waits, stale, failedOnce, pausedNow>>
           /\ owner' = "gone"
           /\ canceled' \subseteq Jobs \ EmptyJobs
           /\ \E given \in SUBSET Requests :
                /\ given = {RequestOf[j] : j \in canceled'}
                /\ canceledOnce' = canceledOnce \union given
                /\ Tell(given, "canceled")
<1>1. canceled' = Abandoned /\ owner' = "gone" /\ UNCHANGED <<add, finished>>
  BY DEF CancelListed, CancelAll
<1>2. Abandoned \subseteq Jobs \ EmptyJobs
  BY DEF IInv, TypeOK, Abandoned, ToSet
<1>3. {RequestOf[j] : j \in Abandoned} \in SUBSET Requests
  BY <1>2, RequestsAssumption
<1> QED
  BY <1>1, <1>2, <1>3 DEF CancelListed

-----------------------------------------------------------------------------
(* Each part of the invariant, step by step. *)

\* The requests keep their types.
LEMMA RequestTypesStep ==
    ASSUME IInv, RequestTypes, [HandledNext]_handledVars
    PROVE  RequestTypes'
<1> USE DEF RequestTypes
<1>1. CASE UNCHANGED <<vars, flags, told, stale, calls>>
  <2>1. waits' \in {"no", "waits", "waited"}
    BY DEF HandledNext, HandledStep, HandledWork, Wait, WaitIsOver, ResumeRequest, handledVars, requestVars, Give, Over,
           HandledOwnerProceed, CancelListed, User, Cancel, PauseProcessing, ContinueProcessing, Call
  <2> QED
    BY <1>1, <2>1 DEF flags
<1>2. CASE ResumeRequest
  <2>1. PICK k \in Jobs \ EmptyJobs :
          UNCHANGED <<flags, told>> \/ Fail(RequestOf[k]) \/ Succeed(RequestOf[k])
    BY <1>2, ResumeEffect DEF Leave
  <2>2. RequestOf[k] \in Requests
    BY RequestsAssumption
  <2>3. waits' = "no" /\ UNCHANGED <<stale, calls>>
    BY <1>2, ResumeEffect
  <2> QED
    BY <2>1, <2>2, <2>3 DEF Fail, Succeed, Tell, flags
<1>3. CASE UNCHANGED requestVars
  BY <1>3 DEF requestVars, flags
<1>4. ASSUME NEW j \in Jobs, Give(j) PROVE RequestTypes'
  <2>1. /\ UNCHANGED <<calls, waits>> /\ stale' \subseteq Jobs \ EmptyJobs
        /\ UNCHANGED <<flags, told>> \/ (j \notin EmptyJobs /\ Fail(RequestOf[j]))
    BY <1>4, GiveEffect
  <2>2. j \notin EmptyJobs => RequestOf[j] \in Requests
    BY RequestsAssumption
  <2> QED
    BY <2>1, <2>2 DEF Fail, Tell, flags
<1>5. CASE CancelListed
  BY <1>5, CancelEffect DEF Tell
<1>6. ASSUME NEW r \in Kept, User(r) PROVE RequestTypes'
  <2>1. r \in Requests
    BY RequestsAssumption
  <2> QED
    BY <1>6, <2>1 DEF User, Cancel, PauseProcessing, ContinueProcessing, Call, Tell, CallNames
<1> QED
  BY <1>1, <1>2, <1>3, <1>4, <1>5, <1>6, HandledCases

\* What the user did to one request, and who was told.
LEMMA UserEffect ==
    ASSUME RequestTypes, NEW r \in Kept, User(r)
    PROVE  /\ r \in Requests /\ UNCHANGED <<vars, failedOnce, stale>>
           /\ \A s \in Requests : calls[s] \subseteq calls'[s]
           /\ LetAlone(r)' = FALSE
           /\ \/ Tell({r}, "canceled") /\ "cancel" \in calls'[r]
                 /\ canceledOnce' = canceledOnce \union {r} /\ pausedNow' = pausedNow
              \/ Tell({r}, "paused") /\ "pause" \in calls'[r]
                 /\ canceledOnce' = canceledOnce /\ pausedNow' = pausedNow \union {r}
              \/ told' = told /\ canceledOnce' = canceledOnce /\ pausedNow' = pausedNow \ {r}
<1>1. r \in Requests
  BY RequestsAssumption
<1>2. PICK name \in CallNames : Call(r, name)
  BY DEF User, Cancel, PauseProcessing, ContinueProcessing, CallNames
<1>3. /\ UNCHANGED <<vars, failedOnce, stale>>
      /\ calls' = [calls EXCEPT ![r] = @ \union {name}]
  BY <1>2 DEF Call
<1>4. (\A s \in Requests : calls[s] \subseteq calls'[s]) /\ LetAlone(r)' = FALSE
  BY <1>1, <1>3 DEF RequestTypes, LetAlone
<1>5. CASE Cancel(r)
  BY <1>1, <1>3, <1>4, <1>5 DEF Cancel, Call, RequestTypes
<1>6. CASE PauseProcessing(r)
  BY <1>1, <1>3, <1>4, <1>6 DEF PauseProcessing, Call, RequestTypes
<1>7. CASE ContinueProcessing(r)
  BY <1>1, <1>3, <1>4, <1>7 DEF ContinueProcessing
<1> QED
  BY <1>5, <1>6, <1>7 DEF User

\* Neither what was told, nor what came with a request, nor what the user called is
\* ever forgotten.
LEMMA NothingForgotten ==
    ASSUME IInv, RequestTypes, [HandledNext]_handledVars, NEW j \in Jobs \ EmptyJobs
    PROVE  told[j] \subseteq told'[j] /\ stale \subseteq stale' /\ calls[RequestOf[j]] \subseteq calls'[RequestOf[j]]
<1> USE DEF RequestTypes
<1>0. RequestOf[j] \in Requests
  BY RequestsAssumption
<1>1. CASE UNCHANGED <<vars, flags, told, stale, calls>> \/ UNCHANGED requestVars
  BY <1>1 DEF requestVars
<1>2. CASE ResumeRequest
  BY <1>2, ResumeEffect DEF Leave, Fail, Succeed, Tell
<1>3. CASE \E k \in Jobs : Give(k)
  BY <1>3, GiveEffect DEF Fail, Tell
<1>4. CASE CancelListed
  BY <1>4, CancelEffect DEF Tell
<1>5. ASSUME NEW s \in Kept, User(s)
      PROVE  told[j] \subseteq told'[j] /\ stale \subseteq stale' /\ calls[RequestOf[j]] \subseteq calls'[RequestOf[j]]
  <2>1. calls[RequestOf[j]] \subseteq calls'[RequestOf[j]] /\ stale' = stale
    BY <1>0, <1>5, UserEffect
  <2>2. Tell({s}, "canceled") \/ Tell({s}, "paused") \/ told' = told
    BY <1>5, UserEffect
  <2> QED
    BY <2>1, <2>2 DEF Tell
<1> QED
  BY <1>1, <1>2, <1>3, <1>4, <1>5, HandledCases

\* Who is taken and gets an error or a flag is told of it.
LEMMA FailFlagged ==
    ASSUME RequestTypes, Flagged, NEW r \in Requests, Fail(r), UNCHANGED <<owner, calls, stale>>,
           \A j \in Jobs \ EmptyJobs : add'[j] \notin {"idle", "refused"} => add[j] \notin {"idle", "refused"}
    PROVE  Flagged'
<1> SUFFICES ASSUME NEW j \in Jobs \ EmptyJobs
             PROVE  /\ "failed" \in told'[j] => RequestOf[j] \in failedOnce'
                    /\ "canceled" \in told'[j] => "cancel" \in calls'[RequestOf[j]] \/ owner' = "gone"
                    /\ "paused" \in told'[j] => "pause" \in calls'[RequestOf[j]]
                    /\ Taken(j)' /\ Burdened(RequestOf[j])' => told'[j] # {} \/ j \in stale'
  BY DEF Flagged, Taken, Burdened, Interrupted
<1>1. told'[j] = IF Given(j) /\ RequestOf[j] = r THEN told[j] \union {"failed"} ELSE told[j]
  BY DEF Fail, Tell
<1>2. failedOnce' = failedOnce \union {r} /\ UNCHANGED <<pausedNow, canceledOnce>>
  BY DEF Fail
<1>3. Taken(j)' => Taken(j) /\ Given(j)
  BY DEF Taken, Given
<1>4. Burdened(RequestOf[j])' => Burdened(RequestOf[j]) \/ RequestOf[j] = r
  BY <1>2 DEF Burdened, Interrupted
<1> QED
  BY <1>1, <1>2, <1>3, <1>4 DEF Flagged

\* A step that tells nobody and burdens nobody.
LEMMA QuietFlagged ==
    ASSUME Flagged, UNCHANGED <<flags, told, calls>>, stale \subseteq stale', owner = "gone" => owner' = "gone",
           \A j \in Jobs \ EmptyJobs :
               Taken(j)' => Taken(j) \/ (Burdened(RequestOf[j]) => j \in stale')
    PROVE  Flagged'
<1>1. \A r : Burdened(r)' <=> Burdened(r)
  BY DEF Burdened, Interrupted, flags
<1> QED
  BY <1>1 DEF Flagged, flags

\* The flags stay in step with what was told.
LEMMA FlaggedStep ==
    ASSUME IInv, RequestTypes, Flagged, [HandledNext]_handledVars
    PROVE  Flagged'
<1>1. CASE UNCHANGED <<vars, flags, told, stale, calls>>
  <2>1. \A j \in Jobs : Taken(j)' <=> Taken(j)
    BY <1>1 DEF vars, Taken
  <2> QED
    BY <1>1, <2>1, QuietFlagged DEF vars
<1>2. CASE ResumeRequest
  <2>1. PICK k \in Jobs \ EmptyJobs :
          UNCHANGED <<flags, told>> \/ Fail(RequestOf[k]) \/ Succeed(RequestOf[k])
    BY <1>2, ResumeEffect DEF Leave
  <2>2. UNCHANGED <<owner, calls, stale, add>> /\ RequestOf[k] \in Requests
    BY <1>2, ResumeEffect, RequestsAssumption
  <2>3. \A j \in Jobs : Taken(j)' <=> Taken(j)
    BY <2>2 DEF Taken
  <2>4. CASE UNCHANGED <<flags, told>>
    BY <2>2, <2>3, <2>4, QuietFlagged
  <2>5. CASE Fail(RequestOf[k])
    BY <2>2, <2>3, <2>5, FailFlagged
  <2>6. CASE Succeed(RequestOf[k])
    <3>1. \A r : Burdened(r)' <=> Burdened(r)
      BY <2>6 DEF Succeed, Burdened, Interrupted, flags
    <3> QED
      BY <2>2, <2>3, <2>6, <3>1 DEF Succeed, Tell, flags, Flagged, RequestTypes
  <2> QED
    BY <2>1, <2>4, <2>5, <2>6
<1>3. CASE UNCHANGED requestVars /\ (Walk \/ QuietOwner \/ \E j \in Jobs : AddProceed(j))
  <2>1. (owner' = "gone" <=> owner = "gone") /\ \A j \in Jobs : Taken(j)' <=> Taken(j)
    BY <1>3, QuietEffect DEF Taken
  <2> QED
    BY <1>3, <2>1, QuietFlagged DEF requestVars
<1>4. ASSUME NEW j \in Jobs, Give(j) PROVE Flagged'
  <2>1. UNCHANGED <<owner, calls>> /\ \A k \in Jobs \ {j} : add'[k] = add[k]
    BY <1>4, GiveEffect
  <2>2. CASE j \notin EmptyJobs /\ add'[j] = "refused" /\ stale' = stale /\ Fail(RequestOf[j])
    <3>1. RequestOf[j] \in Requests
      BY <2>2, RequestsAssumption
    <3>2. \A k \in Jobs \ EmptyJobs : add'[k] \notin {"idle", "refused"} => add[k] \notin {"idle", "refused"}
      BY <2>1, <2>2
    <3> QED
      BY <2>1, <2>2, <3>1, <3>2, FailFlagged
  <2>3. CASE /\ UNCHANGED <<flags, told>> /\ stale \subseteq stale'
             /\ j \notin EmptyJobs /\ add'[j] # "refused" /\ Burdened(RequestOf[j]) => j \in stale'
    <3>1. \A k \in Jobs \ EmptyJobs : Taken(k)' => Taken(k) \/ (Burdened(RequestOf[k]) => k \in stale')
      BY <2>1, <2>3 DEF Taken
    <3> QED
      BY <2>1, <2>3, <3>1, QuietFlagged
  <2> QED
    BY <1>4, <2>2, <2>3, GiveEffect
<1>5. CASE CancelListed
  <2>1. PICK given \in SUBSET Requests : canceledOnce' = canceledOnce \union given /\ Tell(given, "canceled")
    BY <1>5, CancelEffect
  <2>2. UNCHANGED <<add, calls, stale, failedOnce, pausedNow>> /\ owner' = "gone"
    BY <1>5, CancelEffect
  <2> SUFFICES ASSUME NEW j \in Jobs \ EmptyJobs
               PROVE  /\ "failed" \in told'[j] => RequestOf[j] \in failedOnce'
                      /\ "paused" \in told'[j] => "pause" \in calls'[RequestOf[j]]
                      /\ Taken(j)' /\ Burdened(RequestOf[j])' => told'[j] # {} \/ j \in stale'
    BY <2>2 DEF Flagged, Taken, Burdened, Interrupted
  <2>3. told'[j] = IF Given(j) /\ RequestOf[j] \in given THEN told[j] \union {"canceled"} ELSE told[j]
    BY <2>1 DEF Tell
  <2>4. Taken(j)' => Taken(j) /\ Given(j)
    BY <2>2 DEF Taken, Given
  <2>5. Burdened(RequestOf[j])' => Burdened(RequestOf[j]) \/ RequestOf[j] \in given
    BY <2>1, <2>2 DEF Burdened, Interrupted
  <2> QED
    BY <2>2, <2>3, <2>4, <2>5 DEF Flagged
<1>6. ASSUME NEW r \in Kept, User(r) PROVE Flagged'
  <2>1. /\ r \in Requests /\ UNCHANGED <<owner, add, failedOnce, stale>>
        /\ \A s \in Requests : calls[s] \subseteq calls'[s]
    BY <1>6, UserEffect DEF vars
  <2>2. \A j \in Jobs : (Taken(j)' <=> Taken(j)) /\ (Taken(j) => Given(j))
    BY <2>1 DEF Taken, Given
  <2> SUFFICES ASSUME NEW j \in Jobs \ EmptyJobs
               PROVE  /\ "failed" \in told'[j] => RequestOf[j] \in failedOnce'
                      /\ "canceled" \in told'[j] => "cancel" \in calls'[RequestOf[j]] \/ owner' = "gone"
                      /\ "paused" \in told'[j] => "pause" \in calls'[RequestOf[j]]
                      /\ Taken(j)' /\ Burdened(RequestOf[j])' => told'[j] # {} \/ j \in stale'
    BY DEF Flagged, Taken, Burdened, Interrupted
  <2>3. RequestOf[j] \in Requests
    BY RequestsAssumption
  <2>4. CASE /\ Tell({r}, "canceled") /\ "cancel" \in calls'[r]
             /\ canceledOnce' = canceledOnce \union {r} /\ pausedNow' = pausedNow
    <3>1. Burdened(RequestOf[j])' => Burdened(RequestOf[j]) \/ RequestOf[j] = r
      BY <2>1, <2>4 DEF Burdened, Interrupted
    <3> QED
      BY <2>1, <2>2, <2>3, <2>4, <3>1 DEF Tell, Flagged
  <2>5. CASE /\ Tell({r}, "paused") /\ "pause" \in calls'[r]
             /\ canceledOnce' = canceledOnce /\ pausedNow' = pausedNow \union {r}
    <3>1. Burdened(RequestOf[j])' => Burdened(RequestOf[j]) \/ RequestOf[j] = r
      BY <2>1, <2>5 DEF Burdened, Interrupted
    <3> QED
      BY <2>1, <2>2, <2>3, <2>5, <3>1 DEF Tell, Flagged
  <2>6. CASE told' = told /\ canceledOnce' = canceledOnce /\ pausedNow' = pausedNow \ {r}
    <3>1. Burdened(RequestOf[j])' => Burdened(RequestOf[j])
      BY <2>1, <2>6 DEF Burdened, Interrupted
    <3> QED
      BY <2>1, <2>2, <2>3, <2>6, <3>1 DEF Flagged
  <2> QED
    BY <1>6, <2>4, <2>5, <2>6, UserEffect
<1> QED
  BY <1>1, <1>2, <1>3, <1>4, <1>5, <1>6, HandledCases

\* Who ended has told, unless it came with an error or a flag: a coroutine that leaves
\* in silence has one, and who gets one later is told.
LEMMA FinishedToldStep ==
    ASSUME IInv, RequestTypes, Flagged, FinishedTold, [HandledNext]_handledVars
    PROVE  FinishedTold'
<1>1. ASSUME NEW j \in finished PROVE j \in Jobs \ EmptyJobs /\ (told'[j] # {} \/ j \in stale')
  <2>1. j \in Jobs \ EmptyJobs
    BY DEF FinishedTold
  <2> QED
    BY <2>1, NothingForgotten DEF FinishedTold
<1>2. CASE ResumeRequest
  <2>1. PICK k \in Jobs \ EmptyJobs :
          /\ add[k] = "accepted"
          /\ \/ finished' = finished
             \/ finished' = finished \union {k} /\ (Leave(RequestOf[k]) \/ Fail(RequestOf[k]) \/ Succeed(RequestOf[k]))
    BY <1>2, ResumeEffect
  <2>2. RequestOf[k] \in Requests /\ Taken(k) /\ Given(k)
    BY <2>1, RequestsAssumption DEF Taken, Given
  <2>3. CASE finished' = finished \union {k} /\ Leave(RequestOf[k])
    <3>1. told[k] # {} \/ k \in stale
      BY <2>2, <2>3 DEF Leave, Burdened, Flagged
    <3>2. told'[k] # {} \/ k \in stale'
      BY <3>1, NothingForgotten
    <3> QED
      BY <1>1, <2>3, <3>2 DEF FinishedTold
  <2>4. CASE finished' = finished \union {k} /\ (Fail(RequestOf[k]) \/ Succeed(RequestOf[k]))
    <3>1. told'[k] # {}
      BY <2>2, <2>4 DEF Fail, Succeed, Tell, RequestTypes
    <3> QED
      BY <1>1, <2>4, <3>1 DEF FinishedTold
  <2> QED
    BY <1>1, <2>1, <2>3, <2>4 DEF FinishedTold
<1>3. CASE finished' = finished
  BY <1>1, <1>3 DEF FinishedTold
<1>4. ResumeRequest \/ finished' = finished
  BY HandledCases, QuietEffect, GiveEffect, CancelEffect
     DEF vars, outcome, User, Cancel, PauseProcessing, ContinueProcessing, Call
<1> QED
  BY <1>2, <1>3, <1>4

\* Without an empty request, the destructor cancels what was accepted and has not ended.
LEMMA CanceledAccepted ==
    ASSUME IInv', ~EmptyAdded', UNCHANGED <<add, finished>>, owner' = "gone"
    PROVE  \A k \in canceled' : add[k] = "accepted" /\ k \notin finished
<1>1. worker' = "none" /\ canceled' = Abandoned'
  BY DEF IInv, Ended
<1>2. requests' = pointers'
  BY <1>1 DEF IInv, Ended, Paired
<1> SUFFICES ASSUME NEW k \in canceled' PROVE add'[k] = "accepted" /\ k \notin finished'
  OBVIOUS
<1>3. k \in ToSet(requests')
  BY <1>1, <1>2 DEF Abandoned
<1>4. PICK n \in Positions' : requests'[n] = k
  BY <1>3 DEF ToSet, Positions
<1> QED
  BY <1>1, <1>4 DEF IInv, Listed, ListedAccepted, ListedUnfinished

\* Who the destructor canceled was told.
LEMMA CanceledToldStep ==
    ASSUME IInv, IInv', RequestTypes, CanceledTold, [HandledNext]_handledVars
    PROVE  CanceledTold'
<1> SUFFICES ASSUME ~EmptyAdded', NEW j \in canceled'
             PROVE  j \in Jobs \ EmptyJobs /\ "canceled" \in told'[j]
  BY DEF CanceledTold
<1>1. CASE CancelListed
  <2>1. PICK given \in SUBSET Requests : given = {RequestOf[k] : k \in canceled'} /\ Tell(given, "canceled")
    BY <1>1, CancelEffect
  <2>2. UNCHANGED <<add, finished>> /\ owner' = "gone" /\ j \in Jobs \ EmptyJobs
    BY <1>1, CancelEffect
  <2>3. Given(j)
    BY <2>2, CanceledAccepted DEF Given
  <2> QED
    BY <2>1, <2>2, <2>3 DEF Tell, RequestTypes
<1>2. CASE canceled' = canceled
  <2>1. ~EmptyAdded
    BY HandlerStep, EmptyAddedStays DEF IInv
  <2> QED
    BY <1>2, <2>1, NothingForgotten DEF CanceledTold
<1>3. CancelListed \/ canceled' = canceled
  BY HandledCases, QuietEffect, GiveEffect, ResumeEffect
     DEF vars, outcome, User, Cancel, PauseProcessing, ContinueProcessing, Call
<1> QED
  BY <1>1, <1>2, <1>3

\* A request that was given once and let alone had so before.
LEMMA GivenOnceBefore ==
    ASSUME IInv, RequestTypes, [HandledNext]_handledVars, NEW j \in Jobs \ EmptyJobs, GivenOnce(j)'
    PROVE  GivenOnce(j)
<1>1. LetAlone(RequestOf[j])
  BY NothingForgotten DEF GivenOnce, LetAlone
<1>2. \A k \in Jobs : add[k] # "idle" => add'[k] # "idle"
  <2>1. CASE UNCHANGED vars
    BY <2>1 DEF vars
  <2>2. CASE \E i \in Jobs : Give(i)
    BY <2>2, GiveEffect
  <2> QED
    BY <2>1, <2>2, HandledCases, ResumeEffect, QuietEffect, CancelEffect
       DEF User, Cancel, PauseProcessing, ContinueProcessing, Call
<1> QED
  BY <1>1, <1>2 DEF GivenOnce, Others, Given

\* The job whose coroutine is resumed or canceled is the only one that a request
\* given once was given with.
LEMMA OnlyJob ==
    ASSUME NEW j \in Jobs \ EmptyJobs, NEW k \in Jobs \ EmptyJobs, GivenOnce(j), add[k] # "idle",
           RequestOf[k] = RequestOf[j]
    PROVE  k = j
<1> QED
  BY DEF GivenOnce, Others, Given

\* A success stays the only thing that was told: a coroutine succeeds once, of a
\* request without an error, and the destructor finds it neither before nor after.
LEMMA KeptOnceStep ==
    ASSUME IInv, IInv', RequestTypes, Flagged, KeptOnce, [HandledNext]_handledVars
    PROVE  KeptOnce'
<1> SUFFICES ASSUME ~EmptyAdded', NEW j \in Jobs \ EmptyJobs, GivenOnce(j)', "finished" \in told'[j]
             PROVE  j \in finished' /\ told'[j] = {"finished"}
  BY DEF KeptOnce, GivenOnce, LetAlone, Others, Given
<1> DEFINE r == RequestOf[j]
<1>1. r \in Requests
  BY RequestsAssumption
<1>2. ~EmptyAdded
  BY HandlerStep, EmptyAddedStays DEF IInv
<1>3. GivenOnce(j)
  BY GivenOnceBefore
<1>4. "finished" \in told[j] => j \in finished /\ told[j] = {"finished"}
  BY <1>2, <1>3 DEF KeptOnce
<1>5. CASE told'[j] = told[j] /\ finished \subseteq finished'
  BY <1>4, <1>5
<1>6. CASE ResumeRequest
  <2>1. PICK k \in Jobs \ EmptyJobs :
          /\ add[k] = "accepted" /\ k \notin finished /\ owner # "gone" /\ UNCHANGED add
          /\ \/ finished' = finished /\ (Fail(RequestOf[k]) \/ UNCHANGED <<flags, told>>)
             \/ /\ finished' = finished \union {k}
                /\ Leave(RequestOf[k]) \/ Fail(RequestOf[k]) \/ Succeed(RequestOf[k])
    BY <1>6, ResumeEffect
  <2>2. CASE RequestOf[k] # r
    <3>1. told'[j] = told[j]
      BY <2>1, <2>2 DEF Leave, Fail, Succeed, Tell
    <3> QED
      BY <1>5, <2>1, <3>1
  <2>3. CASE RequestOf[k] = r
    <3>1. k = j
      BY <1>3, <2>1, <2>3, OnlyJob
    <3>2. "finished" \notin told[j]
      BY <1>4, <2>1, <3>1
    <3>3. finished' = finished \union {j} /\ Succeed(r)
      BY <2>1, <2>3, <3>1, <3>2 DEF Leave, Fail, Tell, RequestTypes
    <3>4. "failed" \notin told[j]
      BY <3>3 DEF Succeed, Flagged
    <3>5. "canceled" \notin told[j] /\ "paused" \notin told[j]
      BY <1>3, <2>1 DEF GivenOnce, LetAlone, Flagged
    <3>6. told[j] = {}
      BY <3>2, <3>4, <3>5 DEF RequestTypes
    <3> QED
      BY <2>1, <3>1, <3>3, <3>6 DEF Succeed, Tell, Given
  <2> QED
    BY <2>2, <2>3
<1>7. ASSUME NEW k \in Jobs, Give(k) PROVE j \in finished' /\ told'[j] = {"finished"}
  <2>1. /\ finished' = finished /\ add[k] = "idle" /\ add'[k] # "idle"
        /\ UNCHANGED <<flags, told>> \/ (k \notin EmptyJobs /\ Fail(RequestOf[k]))
    BY <1>7, GiveEffect
  <2>2. CASE UNCHANGED told
    BY <1>4, <2>1, <2>2
  <2>3. CASE k \notin EmptyJobs /\ Fail(RequestOf[k]) /\ RequestOf[k] # r
    BY <1>4, <2>1, <2>3 DEF Fail, Tell
  <2>4. CASE k \notin EmptyJobs /\ Fail(RequestOf[k]) /\ RequestOf[k] = r
    <3>1. k = j
      BY <2>1, <2>4 DEF GivenOnce, Others, Given
    <3>2. told'[j] = told[j]
      BY <2>1, <2>4, <3>1 DEF Fail, Tell, Given
    <3> QED
      BY <1>4, <2>1, <3>2
  <2> QED
    BY <2>1, <2>2, <2>3, <2>4
<1>8. CASE CancelListed
  <2>1. PICK given \in SUBSET Requests : given = {RequestOf[k] : k \in canceled'} /\ Tell(given, "canceled")
    BY <1>8, CancelEffect
  <2>2. UNCHANGED <<add, finished>> /\ owner' = "gone" /\ canceled' \subseteq Jobs \ EmptyJobs
    BY <1>8, CancelEffect
  <2>3. \A k \in canceled' : add[k] = "accepted" /\ k \notin finished
    BY <2>2, CanceledAccepted
  <2>4. "finished" \in told[j]
    BY <2>1 DEF Tell, RequestTypes
  <2>5. r \notin given
    BY <1>3, <1>4, <2>1, <2>2, <2>3, <2>4, OnlyJob
  <2> QED
    BY <1>4, <2>1, <2>2, <2>4, <2>5 DEF Tell
<1>9. ASSUME NEW s \in Kept, User(s) PROVE told'[j] = told[j] /\ finished \subseteq finished'
  <2>1. s # r
    BY <1>9, UserEffect DEF GivenOnce, LetAlone
  <2> QED
    BY <1>9, <2>1, UserEffect DEF Tell, vars, outcome
<1> QED
  BY <1>5, <1>6, <1>7, <1>8, <1>9, HandledCases, QuietEffect DEF vars, outcome, requestVars

-----------------------------------------------------------------------------
(* The theorems. *)

\* The invariants of the handler and of its requests hold in every reachable state.
THEOREM HandledInvariance == HandledSpec => [](IInv /\ HInv)
<1>1. HandledSpec => []IInv
  BY HandlerIsItself, Invariance
<1>2. HandledInit => HInv
  <2> SUFFICES ASSUME HandledInit PROVE HInv
    OBVIOUS
  <2>1. RequestTypes
    BY RequestsAssumption DEF HandledInit, RequestTypes
  <2>2. Flagged /\ KeptOnce
    BY DEF HandledInit, Init, Flagged, KeptOnce, Taken
  <2>3. FinishedTold /\ CanceledTold
    BY DEF HandledInit, Init, FinishedTold, CanceledTold
  <2> QED
    BY <2>1, <2>2, <2>3 DEF HInv
<1>3. IInv /\ IInv' /\ HInv /\ [HandledNext]_handledVars => HInv'
  <2> SUFFICES ASSUME IInv, IInv', HInv, [HandledNext]_handledVars PROVE HInv'
    OBVIOUS
  <2>1. RequestTypes'
    BY RequestTypesStep DEF HInv
  <2>2. Flagged'
    BY FlaggedStep DEF HInv
  <2>3. FinishedTold'
    BY FinishedToldStep DEF HInv
  <2>4. CanceledTold'
    BY CanceledToldStep DEF HInv
  <2>5. KeptOnce'
    BY KeptOnceStep DEF HInv
  <2> QED
    BY <2>1, <2>2, <2>3, <2>4, <2>5 DEF HInv
<1> QED
  BY <1>1, <1>2, <1>3, PTL DEF HandledSpec

\* Every variable of the handler and of its requests keeps its type.
THEOREM HandledTypes == HandledSpec => []HandledTypeOK
<1>1. IInv /\ HInv => HandledTypeOK
  BY DEF IInv, HInv, HandledTypeOK
<1> QED
  BY <1>1, HandledInvariance, PTL

\* Each processing that ended, or that the destructor found, has told what became of it
\* since it was given, unless its request came with an error or a flag from before.
THEOREM ProcessingsTell == HandledSpec => []AcceptedAreTold
<1>1. HandledSpec => []DestructorSettlesAll
  BY HandlerIsItself, DestructorSettles
<1>2. IInv /\ HInv /\ DestructorSettlesAll => AcceptedAreTold
  <2> SUFFICES ASSUME IInv, HInv, DestructorSettlesAll, NEW j \in Jobs \ EmptyJobs, add[j] = "accepted",
                      j \in finished \/ (owner = "gone" /\ ~EmptyAdded)
               PROVE  told[j] # {} \/ j \in stale
    BY DEF AcceptedAreTold
  <2>1. CASE j \in finished
    BY <2>1 DEF HInv, FinishedTold
  <2>2. CASE j \notin finished
    <3>1. j \in canceled
      BY <2>2 DEF DestructorSettlesAll
    <3> QED
      BY <2>2, <3>1 DEF HInv, CanceledTold
  <2> QED
    BY <2>1, <2>2
<1> QED
  BY <1>1, <1>2, HandledInvariance, PTL

\* A success of a request that was given once and let alone is never followed by a
\* failure or a cancel.
THEOREM SuccessIsKept == HandledSpec => []FinishedIsKept
<1>1. HInv => FinishedIsKept
  BY DEF HInv, KeptOnce, GivenOnce, FinishedIsKept
<1> QED
  BY <1>1, HandledInvariance, PTL
==============================================================================
