------------------------- MODULE RequestBaseProofs -------------------------
(***************************************************************************)
(* What the calls into a request do, for the proofs about the requests     *)
(* that use them: they keep the types (BaseTypeOK); the stream is not gone *)
(* when the worker resets or writes it, unless the user calls (BaseSafe);  *)
(* the worker sets no status but its own (Callers); and data and the file  *)
(* it is in go together (FileSound).                                       *)
(*                                                                         *)
(* A call that has begun is told of by what is left of it: callbacks that  *)
(* are Pending, steps that are Ahead, data that is counted (Counting) and  *)
(* stored (Holding) once addResponseData is through.                       *)
(***************************************************************************)
EXTENDS RequestBase, SequenceTheorems, TLAPS

Steps == {"notify", "close", "reset", "remove", "assign"}

\* What setStatus(s) has left after its first k steps.
Rest(s, k) == SubSeq(StepsOf(s), k + 1, Len(StepsOf(s)))

\* A setStatus has at most five steps, and resets the stream right after the test.
LEMMA StepsProperties ==
  ASSUME NEW s \in Status
  PROVE  /\ StepsOf(s) \in Seq(Steps) /\ Len(StepsOf(s)) \in 1 .. 5
         /\ \A i \in 1 .. Len(StepsOf(s)) :
               /\ StepsOf(s)[i] = "reset" => i > 1 /\ StepsOf(s)[i - 1] = "close"
               /\ StepsOf(s)[i] = "close" => i + 1 < Len(StepsOf(s)) /\ StepsOf(s)[i + 1] = "reset"
               /\ StepsOf(s)[i] = "notify" => i = 1
               /\ StepsOf(s)[i] = "remove" => s \in {"Error", "Canceled"}
               /\ i = Len(StepsOf(s)) => StepsOf(s)[i] = "assign"
         /\ StepsOf(s)[1] = "notify" <=> s \in {"Resumed", "Paused", "Error", "Canceled", "Done"}
         /\ s \in {"Paused", "Error", "Canceled", "Done"} => Len(StepsOf(s)) >= 4 /\ StepsOf(s)[3] = "reset"
         /\ s \in {"Error", "Canceled"} => Len(StepsOf(s)) = 5 /\ StepsOf(s)[4] = "remove"
<1>1. CASE s = "Resumed"
  <2> DEFINE q == <<"notify", "assign">>
  <2>1. StepsOf(s) = q
    BY <1>1 DEF StepsOf
  <2>2. q \in Seq(Steps)  /\ Len(q) = 2
    BY DEF Steps
  <2>3. q[1] = "notify" /\ q[2] = "assign"
    OBVIOUS
  <2> HIDE DEF q
  <2>4. \A i \in 1 .. 2 :
          /\ q[i] = "reset" => i > 1 /\ q[i - 1] = "close"
          /\ q[i] = "close" => i + 1 < 2 /\ q[i + 1] = "reset"
          /\ q[i] = "notify" => i = 1
          /\ q[i] # "remove"
          /\ i = 2 => q[i] = "assign"
    BY <2>3
  <2>5. s \notin {"Paused", "Error", "Canceled", "Done"}
    BY <1>1
  <2>6. \A i \in 1 .. Len(StepsOf(s)) :
          /\ StepsOf(s)[i] = "reset" => i > 1 /\ StepsOf(s)[i - 1] = "close"
          /\ StepsOf(s)[i] = "close" => i + 1 < Len(StepsOf(s)) /\ StepsOf(s)[i + 1] = "reset"
          /\ StepsOf(s)[i] = "notify" => i = 1
          /\ StepsOf(s)[i] # "remove"
          /\ i = Len(StepsOf(s)) => StepsOf(s)[i] = "assign"
    BY <2>1, <2>2, <2>4
  <2> QED
    BY <1>1, <2>1, <2>2, <2>3, <2>5, <2>6
<1>2. CASE s \in {"Paused", "Done"}
  <2> DEFINE q == <<"notify", "close", "reset", "assign">>
  <2>1. StepsOf(s) = q
    BY <1>2 DEF StepsOf
  <2>2. q \in Seq(Steps)  /\ Len(q) = 4
    BY DEF Steps
  <2>3. q[1] = "notify" /\ q[2] = "close" /\ q[3] = "reset" /\ q[4] = "assign"
    OBVIOUS
  <2> HIDE DEF q
  <2>4. \A i \in 1 .. 4 :
          /\ q[i] = "reset" => i > 1 /\ q[i - 1] = "close"
          /\ q[i] = "close" => i + 1 < 4 /\ q[i + 1] = "reset"
          /\ q[i] = "notify" => i = 1
          /\ q[i] # "remove"
          /\ i = 4 => q[i] = "assign"
    BY <2>3
  <2> QED
    BY <1>2, <2>1, <2>2, <2>3, <2>4
<1>3. CASE s \in {"Error", "Canceled"}
  <2> DEFINE q == <<"notify", "close", "reset", "remove", "assign">>
  <2>1. StepsOf(s) = q
    BY <1>3 DEF StepsOf
  <2>2. q \in Seq(Steps)  /\ Len(q) = 5
    BY DEF Steps
  <2>3. q[1] = "notify" /\ q[2] = "close" /\ q[3] = "reset" /\ q[4] = "remove" /\ q[5] = "assign"
    OBVIOUS
  <2> HIDE DEF q
  <2>4. \A i \in 1 .. 5 :
          /\ q[i] = "reset" => i > 1 /\ q[i - 1] = "close"
          /\ q[i] = "close" => i + 1 < 5 /\ q[i + 1] = "reset"
          /\ q[i] = "notify" => i = 1
          /\ q[i] # "remove" \/ i = 4
          /\ i = 5 => q[i] = "assign"
    BY <2>3
  <2> QED
    BY <1>3, <2>1, <2>2, <2>3, <2>4
<1>4. CASE s \in {"Waiting", "Processed", "Writing", "Reading"}
  <2> DEFINE q == <<"assign">>
  <2>1. StepsOf(s) = q
    BY <1>4 DEF StepsOf
  <2>2. q \in Seq(Steps)  /\ Len(q) = 1
    BY DEF Steps
  <2>3. q[1] = "assign"
    OBVIOUS
  <2> HIDE DEF q
  <2>4. \A i \in 1 .. 1 :
          /\ q[i] = "reset" => i > 1 /\ q[i - 1] = "close"
          /\ q[i] = "close" => i + 1 < 1 /\ q[i + 1] = "reset"
          /\ q[i] = "notify" => i = 1
          /\ q[i] # "remove"
          /\ i = 1 => q[i] = "assign"
    BY <2>3
  <2> QED
    BY <1>4, <2>1, <2>2, <2>3, <2>4
<1> QED
  BY <1>1, <1>2, <1>3, <1>4 DEF Status

\* Taking off the first of the steps that are left leaves the later ones.
LEMMA RestProperties ==
  ASSUME NEW s \in Status, NEW k \in 0 .. Len(StepsOf(s))
  PROVE  /\ Rest(s, k) = <<>> <=> k = Len(StepsOf(s))
         /\ k < Len(StepsOf(s)) =>
               Head(Rest(s, k)) = StepsOf(s)[k + 1] /\ Tail(Rest(s, k)) = Rest(s, k + 1)
<1>1. StepsOf(s) \in Seq(Steps) /\ Len(StepsOf(s)) \in Nat
  BY StepsProperties
<1>2. ASSUME k < Len(StepsOf(s))
      PROVE  Head(Rest(s, k)) = StepsOf(s)[k + 1] /\ Tail(Rest(s, k)) = Rest(s, k + 1)
  <2>1. k + 1 \in 1 .. Len(StepsOf(s)) /\ Len(StepsOf(s)) \in k + 1 .. Len(StepsOf(s))
    BY <1>1, <1>2
  <2> QED
    BY <1>1, <2>1, HeadTailOfSubSeq DEF Rest
<1>3. Len(Rest(s, k)) = Len(StepsOf(s)) - k /\ Rest(s, k) \in Seq(Steps)
  BY <1>1, SubSeqProperties DEF Rest
<1> QED
  BY <1>1, <1>2, <1>3, EmptySeq

-----------------------------------------------------------------------------
(* The calls. *)

\* A thread still has to take this step.
Ahead(t, step) == \E i \in 1 .. Len(todo[t]) : todo[t][i] = step

\* The worker is about to run the callbacks for s.
Pending(s) == At("worker", "notify") /\ setting["worker"] = s

\* What is ahead after k steps are the later steps.
LEMMA AheadIsLater ==
  ASSUME NEW s \in Status, NEW k \in 0 .. Len(StepsOf(s)), NEW t, todo[t] = Rest(s, k), NEW step
  PROVE  Ahead(t, step) <=> \E j \in k + 1 .. Len(StepsOf(s)) : StepsOf(s)[j] = step
<1> DEFINE n == Len(StepsOf(s))
<1>1. StepsOf(s) \in Seq(Steps) /\ n \in Nat
  BY StepsProperties
<1>2. Len(todo[t]) = n - k /\ \A i \in 1 .. n - k : todo[t][i] = StepsOf(s)[k + i]
  BY <1>1, SubSeqProperties DEF Rest
<1>3. ASSUME NEW j \in k + 1 .. n, StepsOf(s)[j] = step PROVE \E i \in 1 .. n - k : StepsOf(s)[k + i] = step
  <2>1. j - k \in 1 .. n - k /\ k + (j - k) = j
    BY <1>1
  <2> QED
    BY <1>3, <2>1
<1>4. ASSUME NEW i \in 1 .. n - k PROVE k + i \in k + 1 .. n
  BY <1>1
<1> QED
  BY <1>2, <1>3, <1>4 DEF Ahead

\* A new setStatus has all of its steps left, and does not begin with the reset.
LEMMA SetStatusCalls ==
  ASSUME CallsTypeOK, NEW t \in Threads, NEW s \in Status, SetStatus(t, s)
  PROVE  /\ CallsTypeOK'
         /\ ~At(t, "reset")' /\ todo'[t] # <<>> /\ setting'[t] = s
         /\ At(t, "notify")' <=> s \in {"Resumed", "Paused", "Error", "Canceled", "Done"}
         /\ s \in {"Paused", "Error", "Canceled", "Done"} => Ahead(t, "reset")'
         /\ s \in {"Error", "Canceled"} => Ahead(t, "remove")'
         /\ \A u \in Threads \ {t} : todo'[u] = todo[u] /\ setting'[u] = setting[u]
<1>1. setting' = [setting EXCEPT ![t] = s] /\ todo' = [todo EXCEPT ![t] = StepsOf(s)]
  BY DEF SetStatus
<1>2. setting' \in [Threads -> Status] /\ DOMAIN todo' = Threads /\ setting'[t] = s /\ todo'[t] = StepsOf(s)
  BY <1>1 DEF CallsTypeOK
<1>3. StepsOf(s) \in Seq(Steps) /\ Len(StepsOf(s)) \in 1 .. 5 /\ StepsOf(s)[1] # "reset"
  BY StepsProperties
<1>4. todo'[t] = SubSeq(StepsOf(setting'[t]), 0 + 1, Len(StepsOf(setting'[t]))) /\ 0 \in 0 .. Len(StepsOf(setting'[t]))
  BY <1>2, <1>3, SubSeqFull
<1>5. \A u \in Threads \ {t} : todo'[u] = todo[u] /\ setting'[u] = setting[u]
  BY <1>1 DEF CallsTypeOK
<1>6. paused' \in BOOLEAN /\ canceled' \in BOOLEAN
  BY DEF SetStatus, CallsTypeOK
<1>7. CallsTypeOK'
  BY <1>2, <1>4, <1>5, <1>6 DEF CallsTypeOK
<1>8. todo'[t] # <<>> /\ Head(todo'[t]) = StepsOf(s)[1]
  BY <1>2, <1>3, EmptySeq
<1>9. s \in {"Paused", "Error", "Canceled", "Done"} => Ahead(t, "reset")'
  <2>1. s \in {"Paused", "Error", "Canceled", "Done"} => 3 \in 1 .. Len(StepsOf(s)) /\ StepsOf(s)[3] = "reset"
    BY <1>3, StepsProperties
  <2> QED
    BY <1>2, <2>1 DEF Ahead
<1>10. s \in {"Error", "Canceled"} => Ahead(t, "remove")'
  <2>1. s \in {"Error", "Canceled"} => 4 \in 1 .. Len(StepsOf(s)) /\ StepsOf(s)[4] = "remove"
    BY <1>3, StepsProperties
  <2> QED
    BY <1>2, <2>1 DEF Ahead
<1>11. At(t, "notify")' <=> s \in {"Resumed", "Paused", "Error", "Canceled", "Done"}
  BY <1>8, StepsProperties DEF At
<1> QED
  BY <1>2, <1>3, <1>5, <1>7, <1>8, <1>9, <1>10, <1>11 DEF At

\* What a thread has left is the Rest of its call after some steps.
LEMMA CallsLeft ==
  ASSUME CallsTypeOK, NEW t \in Threads, NEW step, At(t, step)
  PROVE  /\ setting[t] \in Status
         /\ \E k \in 0 .. Len(StepsOf(setting[t])) - 1 :
               todo[t] = Rest(setting[t], k) /\ StepsOf(setting[t])[k + 1] = step
<1>1. PICK k \in 0 .. Len(StepsOf(setting[t])) : todo[t] = Rest(setting[t], k)
  BY DEF CallsTypeOK, Rest
<1>2. setting[t] \in Status /\ todo[t] # <<>> /\ Head(todo[t]) = step /\ Len(StepsOf(setting[t])) \in Nat
  BY StepsProperties DEF CallsTypeOK, At
<1>3. k < Len(StepsOf(setting[t]))
  BY <1>1, <1>2, RestProperties
<1> QED
  BY <1>1, <1>2, <1>3, RestProperties

\* Going on by one step, or from the test past the reset, keeps the types; the
\* reset comes next only behind the test.
LEMMA PopCalls ==
  ASSUME CallsTypeOK, NEW t \in Threads, NEW step, At(t, step), UNCHANGED <<flags, setting>>,
         \/ todo' = [todo EXCEPT ![t] = Tail(@)]
         \/ step = "close" /\ todo' = [todo EXCEPT ![t] = Tail(Tail(@))]
  PROVE  /\ CallsTypeOK'
         /\ At(t, "reset")' => step = "close"
         /\ step = "close" /\ todo' = [todo EXCEPT ![t] = Tail(Tail(@))] => ~At(t, "reset")'
         /\ \A u \in Threads \ {t} : todo'[u] = todo[u]
<1> DEFINE s == setting[t]
           n == Len(StepsOf(s))
<1>1. PICK k \in 0 .. n - 1 : todo[t] = Rest(s, k) /\ StepsOf(s)[k + 1] = step
  BY CallsLeft
<1>2. s \in Status /\ n \in 1 .. 5
  BY CallsLeft, StepsProperties
<1>3. Tail(todo[t]) = Rest(s, k + 1)
  <2>1. k \in 0 .. n /\ k < n
    BY <1>1, <1>2
  <2>2. Tail(Rest(s, k)) = Rest(s, k + 1)
    BY <1>2, <2>1, RestProperties
  <2> QED
    BY <1>1, <2>2
<1>4. ASSUME NEW j \in 0 .. n, todo'[t] = Rest(s, j), DOMAIN todo' = Threads, \A u \in Threads \ {t} : todo'[u] = todo[u]
      PROVE  CallsTypeOK'
  <2>1. ASSUME NEW u \in Threads PROVE \E i \in 0 .. Len(StepsOf(setting[u])) : todo'[u] = Rest(setting[u], i)
    <3>1. CASE u = t
      BY <1>4, <3>1
    <3>2. CASE u # t
      BY <1>4, <3>2 DEF CallsTypeOK, Rest
    <3> QED
      BY <3>1, <3>2
  <2> QED
    BY <1>4, <2>1 DEF CallsTypeOK, Rest, flags
<1>5. DOMAIN todo' = Threads /\ \A u \in Threads \ {t} : todo'[u] = todo[u]
  BY DEF CallsTypeOK
<1>6. ASSUME todo' = [todo EXCEPT ![t] = Tail(@)]
      PROVE  CallsTypeOK' /\ (At(t, "reset")' => step = "close")
  <2>1. todo'[t] = Rest(s, k + 1) /\ k + 1 \in 0 .. n
    BY <1>2, <1>3, <1>6 DEF CallsTypeOK
  <2>2. CallsTypeOK'
    BY <1>4, <1>5, <2>1
  <2>3. ASSUME At(t, "reset")' PROVE step = "close"
    <3>1. k + 1 < n /\ StepsOf(s)[k + 2] = "reset"
      BY <1>2, <2>1, <2>3, RestProperties DEF At
    <3>2. k + 2 \in 1 .. n
      BY <1>2, <3>1
    <3>3. StepsOf(s)[k + 2 - 1] = "close"
      BY <1>2, <3>1, <3>2, StepsProperties
    <3> QED
      BY <1>1, <3>3
  <2> QED
    BY <2>2, <2>3
<1>7. ASSUME step = "close", todo' = [todo EXCEPT ![t] = Tail(Tail(@))]
      PROVE  CallsTypeOK' /\ ~At(t, "reset")'
  <2>1. k + 1 < n
    BY <1>1, <1>2, <1>7, StepsProperties
  <2>2. todo'[t] = Rest(s, k + 2) /\ k + 2 \in 0 .. n
    <3>1. Tail(Rest(s, k + 1)) = Rest(s, k + 2)
      BY <1>2, <2>1, RestProperties
    <3> QED
      BY <1>2, <1>3, <1>7, <2>1, <3>1, SMTT(30) DEF CallsTypeOK
  <2>3. CallsTypeOK'
    BY <1>4, <1>5, <2>2
  <2>4. ~At(t, "reset")'
    <3> SUFFICES ASSUME At(t, "reset")' PROVE FALSE
      OBVIOUS
    <3>1. k + 2 < n /\ StepsOf(s)[k + 3] = "reset"
      BY <1>2, <2>2, RestProperties DEF At
    <3>2. k + 3 \in 1 .. n
      BY <1>2, <3>1
    <3>3. StepsOf(s)[k + 2] = "close"
      BY <1>2, <3>1, <3>2, StepsProperties
    <3> QED
      BY <1>1, <1>2, <1>7, <3>1, <3>3, StepsProperties
  <2> QED
    BY <2>3, <2>4
<1> QED
  BY <1>5, <1>6, <1>7

\* A step of a setStatus runs the callbacks only once, and passes no reset or
\* removal of the file without effect; it is the assignment that returns.
LEMMA StepGoesOn ==
  ASSUME CallsTypeOK, NEW t \in Threads, SetStatusStep(t)
  PROVE  /\ todo[t] # <<>> /\ ~At(t, "notify")'
         /\ UNCHANGED setting /\ \A u \in Threads \ {t} : todo'[u] = todo[u]
         /\ todo'[t] = <<>> => Assign(t)
         /\ Ahead(t, "reset") => Ahead(t, "reset")' \/ file' = "none"
         /\ Ahead(t, "remove") => Ahead(t, "remove")' \/ Remove(t)
         /\ Notify(t) /\ setting[t] \in {"Error", "Canceled"} => Ahead(t, "remove")'
         /\ Remove(t) => setting[t] \in {"Error", "Canceled"}
<1> DEFINE s == setting[t]
           n == Len(StepsOf(s))
<1>1. PICK step \in Steps :
           /\ At(t, step)
           /\ \/ todo' = [todo EXCEPT ![t] = Tail(@)]
              \/ step = "close" /\ todo' = [todo EXCEPT ![t] = Tail(Tail(@))] /\ Close(t) /\ file = "none"
           /\ step = "notify" <=> Notify(t)
           /\ step = "reset" <=> Reset(t)
           /\ step = "remove" <=> Remove(t)
           /\ step = "assign" <=> Assign(t)
  <2> USE DEF Notify, Close, Reset, Remove, Assign, Pop, At, Steps
  <2>1. CASE Notify(t)
    BY <2>1
  <2>2. CASE Close(t)
    BY <2>2
  <2>3. CASE Reset(t)
    BY <2>3
  <2>4. CASE Remove(t)
    BY <2>4
  <2>5. CASE Assign(t)
    BY <2>5
  <2> QED
    BY <2>1, <2>2, <2>3, <2>4, <2>5 DEF SetStatusStep
<1>2. PICK k \in 0 .. n - 1 : todo[t] = Rest(s, k) /\ StepsOf(s)[k + 1] = step
  BY <1>1, CallsLeft
<1>3. s \in Status /\ n \in 1 .. 5 /\ DOMAIN todo = Threads
  BY <1>1, CallsLeft, StepsProperties DEF CallsTypeOK
<1>4. UNCHANGED setting /\ \A u \in Threads \ {t} : todo'[u] = todo[u]
  BY <1>1, <1>3 DEF SetStatusStep, Notify, Close, Reset, Remove, Assign
<1>5. PICK j \in 0 .. n : /\ todo'[t] = Rest(s, j)
                          /\ j = k + 1 \/ (j = k + 2 /\ step = "close" /\ file' = "none")
  <2>1. k < n /\ k \in 0 .. n /\ k + 1 \in 0 .. n
    BY <1>2, <1>3
  <2>2. Tail(todo[t]) = Rest(s, k + 1)
    BY <1>2, <1>3, <2>1, RestProperties
  <2>3. CASE todo' = [todo EXCEPT ![t] = Tail(@)]
    BY <1>3, <2>1, <2>2, <2>3
  <2>4. CASE step = "close" /\ todo' = [todo EXCEPT ![t] = Tail(Tail(@))] /\ Close(t) /\ file = "none"
    <3>1. k + 1 < n
      BY <1>2, <1>3, <2>4, StepsProperties
    <3>2. Tail(Rest(s, k + 1)) = Rest(s, k + 2) /\ k + 2 \in 0 .. n
      BY <1>3, <2>1, <3>1, RestProperties
    <3>3. todo'[t] = Rest(s, k + 2) /\ file' = "none"
      BY <1>3, <2>2, <2>4, <3>2 DEF Close, output
    <3> QED
      BY <3>2, <3>3, <2>4
  <2> QED
    BY <1>1, <2>3, <2>4
<1>6. ~At(t, "notify")'
  <2> SUFFICES ASSUME At(t, "notify")' PROVE FALSE
    OBVIOUS
  <2>1. j < n /\ StepsOf(s)[j + 1] = "notify"
    <3>1. Rest(s, j) = <<>> <=> j = n
      BY <1>3, <1>5, RestProperties
    <3>2. j < n
      BY <1>3, <1>5, <3>1 DEF At
    <3> QED
      BY <1>3, <1>5, <3>2, RestProperties DEF At
  <2>2. j + 1 \in 1 .. n /\ j + 1 > 1
    BY <1>2, <1>3, <1>5, <2>1
  <2> QED
    BY <1>3, <2>1, <2>2, StepsProperties
<1>7. todo'[t] = <<>> => Assign(t)
  <2> SUFFICES ASSUME todo'[t] = <<>> PROVE step = "assign"
    BY <1>1
  <2>1. j = n
    BY <1>3, <1>5, RestProperties
  <2>2. n \in 1 .. n /\ k + 1 \in 1 .. n
    BY <1>2, <1>3
  <2>3. CASE j = k + 1
    <3>1. k + 1 = n
      BY <2>1, <2>3
    <3> QED
      BY <1>2, <1>3, <2>2, <3>1, StepsProperties
  <2>4. CASE j = k + 2 /\ step = "close"
    <3>1. ~(k + 1 + 1 < n)
      BY <1>2, <1>3, <2>1, <2>4
    <3> QED
      BY <1>2, <1>3, <2>2, <2>4, <3>1, StepsProperties
  <2> QED
    BY <1>5, <2>3, <2>4
<1>8. \A x : Ahead(t, x) <=> \E i \in k + 1 .. n : StepsOf(s)[i] = x
  <2>1. k \in 0 .. n
    BY <1>2, <1>3
  <2> QED
    BY <1>2, <1>3, <2>1, AheadIsLater
<1>9. \A x : Ahead(t, x)' <=> \E i \in j + 1 .. n : StepsOf(s)[i] = x
  <2>1. Len(Rest(s, j)) = n - j /\ \A i \in 1 .. n - j : Rest(s, j)[i] = StepsOf(s)[j + i]
    BY <1>3, <1>5, StepsProperties, SubSeqProperties DEF Rest
  <2>2. ASSUME NEW i \in j + 1 .. n PROVE i - j \in 1 .. n - j /\ j + (i - j) = i
    BY <1>3, <1>5
  <2>3. ASSUME NEW i \in 1 .. n - j PROVE j + i \in j + 1 .. n
    BY <1>3, <1>5
  <2>4. ASSUME NEW x
        PROVE  Ahead(t, x)' <=> \E i \in 1 .. n - j : StepsOf(s)[j + i] = x
    BY <1>5, <2>1 DEF Ahead
  <2> QED
    BY <2>2, <2>3, <2>4
<1>10. ASSUME NEW x, Ahead(t, x), ~Ahead(t, x)' PROVE x = step \/ (x = "reset" /\ file' = "none")
  <2>1. PICK i \in k + 1 .. n : StepsOf(s)[i] = x
    BY <1>8, <1>10
  <2>2. i \notin j + 1 .. n
    BY <1>9, <1>10, <2>1
  <2>3. i = k + 1 \/ (i = k + 2 /\ step = "close" /\ file' = "none")
    BY <1>2, <1>3, <1>5, <2>2
  <2> QED
    BY <1>2, <1>3, <2>1, <2>3, StepsProperties
<1>11. Ahead(t, "reset") => Ahead(t, "reset")' \/ file' = "none"
  BY <1>1, <1>10 DEF Reset
<1>12. Ahead(t, "remove") => Ahead(t, "remove")' \/ Remove(t)
  BY <1>1, <1>10
<1>13. Notify(t) /\ s \in {"Error", "Canceled"} => Ahead(t, "remove")'
  <2> SUFFICES ASSUME Notify(t), s \in {"Error", "Canceled"} PROVE Ahead(t, "remove")'
    OBVIOUS
  <2>1. k = 0 /\ n = 5 /\ StepsOf(s)[4] = "remove"
    BY <1>1, <1>2, <1>3, StepsProperties
  <2>2. 4 \in k + 1 .. n
    BY <2>1
  <2>3. Ahead(t, "remove")
    BY <1>8, <2>1, <2>2
  <2> QED
    BY <1>1, <1>12, <2>3
<1>14. Remove(t) => s \in {"Error", "Canceled"}
  BY <1>1, <1>2, <1>3, StepsProperties
<1>15. todo[t] # <<>>
  BY <1>1 DEF At
<1> QED
  BY <1>4, <1>6, <1>7, <1>11, <1>12, <1>13, <1>14, <1>15

-----------------------------------------------------------------------------
(* The invariant of a request's base. *)

\* One call at a time is in progress in the worker; and as long as the user does
\* not call, the stream is there when the worker resets it or writes to it.
BaseSafe ==
    /\ todo["worker"] # <<>> => adding = "no"
    /\ ops = 0 =>
          /\ todo["user"] = <<>>
          /\ At("worker", "reset") => file # "none"
          /\ adding = "test" => file # "none"
          /\ adding = "write" /\ target = "file" => file = "open"
          /\ fault = "none"

\* What the threads call setStatus with: only the worker tells an outcome, and an
\* error is set before it is told.
WorkerStatus == {"Processed", "Writing", "Reading", "Done", "Error"}
Callers ==
    /\ setting["user"] \in {"Waiting", "Canceled", "Paused", "Resumed"}
    /\ setting["worker"] \in WorkerStatus \union {"Waiting"}
    /\ setting["worker"] = "Error" => error
    /\ ops = 0 => ~paused /\ ~canceled

\* Only a request to a file has one, and nothing is stored in a file that is not there.
FileSound ==
    /\ exists => target = "file"
    /\ target = "file" /\ ~exists => stored = 0
    /\ target # "file" => file = "none"
    /\ adding \in {"open", "test"} => target = "file"
    /\ ~OpenMayFail => file \in {"none", "open"}

BaseInv == BaseTypeOK /\ BaseSafe /\ Callers /\ FileSound

\* It holds at first.
LEMMA BaseInitInv == BaseInit => BaseInv
<1> SUFFICES ASSUME BaseInit PROVE BaseInv
  OBVIOUS
<1>1. BaseSafe
  BY DEF BaseInit, BaseSafe, At, Threads
<1>2. ASSUME NEW t \in Threads PROVE \E k \in 0 .. Len(StepsOf(setting[t])) : todo[t] = Rest(setting[t], k)
  <2>1. setting[t] = "Waiting" /\ todo[t] = <<>>
    BY DEF BaseInit
  <2>2. Len(StepsOf("Waiting")) \in 0 .. Len(StepsOf("Waiting"))
    BY StepsProperties DEF Status
  <2>3. Rest("Waiting", Len(StepsOf("Waiting"))) = <<>>
    BY <2>2, RestProperties DEF Status
  <2> QED
    BY <2>1, <2>2, <2>3
<1>3. setting \in [Threads -> Status] /\ DOMAIN todo = Threads
  BY DEF BaseInit, Status
<1>4. CallsTypeOK
  BY <1>2, <1>3 DEF CallsTypeOK, Rest, BaseInit
<1>5. ops \in 0 .. MaxOps /\ stored \in Nat
  BY RequestBaseAssumption DEF BaseInit
<1>6. BaseTypeOK
  BY <1>4, <1>5 DEF BaseTypeOK, BaseInit, Status
<1>7. Callers /\ FileSound
  BY DEF BaseInit, Callers, FileSound, Threads
<1> QED
  BY <1>1, <1>6, <1>7 DEF BaseInv

\* Whatever leaves the calls and the file alone preserves it, also if a response that
\* is not a file begins anew, or the user counts the callbacks anew.
LEMMA KeepInv ==
  ASSUME BaseInv, UNCHANGED <<flags, error, calls, intake, status, target, file, exists, bytesRead, ops, fault>>,
         stored' \in Nat, target = "file" => stored' = stored, finished' \in Nat, failed' \in Nat
  PROVE  BaseInv'
<1> USE DEF flags, calls, intake
<1>1. CallsTypeOK'
  BY DEF BaseInv, BaseTypeOK, CallsTypeOK
<1>2. BaseTypeOK'
  BY <1>1 DEF BaseInv, BaseTypeOK
<1>3. BaseSafe'
  BY DEF BaseInv, BaseSafe, At
<1>4. Callers' /\ FileSound'
  BY DEF BaseInv, Callers, FileSound
<1> QED
  BY <1>2, <1>3, <1>4 DEF BaseInv

\* The worker calls setStatus, alone or from setError.
LEMMA WorkerCallInv ==
  ASSUME BaseInv, Returned, NEW s \in WorkerStatus, SetStatus("worker", s), piece' \in Nat,
         error' = TRUE \/ (s # "Error" /\ UNCHANGED error),
         UNCHANGED <<status, output, told, ops, fault, adding>>
  PROVE  BaseInv'
<1>1. /\ CallsTypeOK' /\ ~At("worker", "reset")' /\ setting'["worker"] = s
      /\ todo'["user"] = todo["user"] /\ setting'["user"] = setting["user"]
  BY SetStatusCalls DEF BaseInv, BaseTypeOK, Threads, Status, WorkerStatus
<1>2. BaseTypeOK'
  BY <1>1 DEF BaseInv, BaseTypeOK, output, told
<1>3. BaseSafe'
  BY <1>1 DEF BaseInv, BaseSafe, Returned, output
<1>4. UNCHANGED flags
  BY DEF SetStatus, WorkerStatus, flags, BaseInv, BaseTypeOK, CallsTypeOK
<1>5. Callers' /\ FileSound'
  BY <1>1, <1>4 DEF BaseInv, Callers, FileSound, flags, output
<1> QED
  BY <1>2, <1>3, <1>5 DEF BaseInv

\* The worker adds a piece of data.
LEMMA AddResponseDataInv ==
  ASSUME BaseInv, Returned, NEW m \in Nat, AddResponseData(m), UNCHANGED <<status, output, told, ops, fault>>
  PROVE  BaseInv'
<1>1. CASE SetError("worker") /\ UNCHANGED adding
  BY <1>1, WorkerCallInv DEF AddResponseData, SetError, WorkerStatus
<1>2. CASE target # "unnamed" /\ adding' = (IF target = "file" THEN "open" ELSE "write") /\ UNCHANGED <<calls, flags, error>>
  <2>1. CallsTypeOK'
    BY <1>2 DEF BaseInv, BaseTypeOK, CallsTypeOK, calls, flags
  <2>2. BaseTypeOK'
    BY <1>2, <2>1 DEF BaseInv, BaseTypeOK, AddResponseData, output, told
  <2>3. BaseSafe'
    BY <1>2 DEF BaseInv, BaseSafe, Returned, At, calls, output
  <2>4. Callers' /\ FileSound'
    BY <1>2 DEF BaseInv, Callers, FileSound, calls, flags, output
  <2> QED
    BY <2>2, <2>3, <2>4 DEF BaseInv
<1> QED
  BY <1>1, <1>2 DEF AddResponseData

\* A step of addResponseData.
LEMMA AddStepInv ==
  ASSUME BaseInv, AddStep
  PROVE  BaseInv'
<1>1. adding # "no" /\ todo["worker"] = <<>> /\ UNCHANGED <<status, target, told, piece, ops>>
  BY DEF AddStep, MakeFile, HaveFile, ReopenFile, FileReady, MissFile, Write, Account, BaseInv, BaseSafe, intake, output
<1>2. CASE ReopenFile /\ SetError("worker")
  <2>1. /\ CallsTypeOK' /\ ~At("worker", "reset")' /\ setting'["worker"] = "Error"
        /\ todo'["user"] = todo["user"] /\ setting'["user"] = setting["user"]
    BY <1>2, SetStatusCalls DEF BaseInv, BaseTypeOK, Threads, SetError, Status
  <2>2. file' \in {"none", "open", "failed"} /\ exists' \in BOOLEAN /\ adding' \in {"no", "write"} /\ error' = TRUE
    BY <1>2 DEF ReopenFile, BaseInv, BaseTypeOK, SetError
  <2>3. BaseTypeOK'
    BY <1>1, <1>2, <2>1, <2>2 DEF BaseInv, BaseTypeOK, ReopenFile, told
  <2>4. ~(UNCHANGED calls) => adding' = "no"
    BY <1>2 DEF ReopenFile
  <2>5. BaseSafe'
    BY <1>1, <1>2, <2>1, <2>4 DEF BaseInv, BaseSafe, ReopenFile, calls
  <2>6. UNCHANGED flags
    BY <1>2 DEF SetError, SetStatus, flags, BaseInv, BaseTypeOK, CallsTypeOK
  <2>7. Callers'
    BY <1>1, <2>1, <2>2, <2>6 DEF BaseInv, Callers, flags, WorkerStatus
  <2>8. FileSound'
    <3>1. adding = "test" /\ target = "file" /\ file = "failed" /\ UNCHANGED <<target, stored>>
      BY <1>1, <1>2 DEF BaseInv, FileSound, ReopenFile
    <3>2. (exists' = TRUE \/ UNCHANGED exists) /\ OpenMayFail
      BY <1>2, <3>1, RequestBaseAssumption DEF BaseInv, FileSound, ReopenFile
    <3> QED
      BY <2>2, <3>1, <3>2 DEF BaseInv, FileSound
  <2> QED
    BY <2>3, <2>5, <2>7, <2>8 DEF BaseInv
<1>3. CASE UNCHANGED <<calls, flags, error>>
  <2>1. CallsTypeOK'
    BY <1>3 DEF BaseInv, BaseTypeOK, CallsTypeOK, calls, flags
  <2>2. /\ file' \in {"none", "open", "failed"} /\ exists' \in BOOLEAN /\ stored' \in Nat /\ bytesRead' \in Nat
        /\ adding' \in {"no", "open", "test", "write", "account"} /\ fault' \in {"none", "crash"}
    <3> USE DEF BaseInv, BaseTypeOK, output, intake
    <3>1. CASE MakeFile
      <4>1. adding' = "test" /\ UNCHANGED <<bytesRead, fault>>
        BY <3>1 DEF MakeFile
      <4>2. file' \in {"open", "failed"} /\ exists' \in BOOLEAN /\ stored' \in Nat
        <5>1. CASE file' = "open" /\ exists' = TRUE /\ stored' = 0
          BY <5>1
        <5>2. CASE file' = "failed" /\ UNCHANGED <<exists, stored>>
          BY <5>2
        <5> QED
          BY <3>1, <5>1, <5>2 DEF MakeFile
      <4> QED
        BY <4>1, <4>2
    <3>2. CASE ReopenFile
      BY <3>2 DEF ReopenFile
    <3>3. CASE FileReady
      BY <3>3 DEF FileReady
    <3>4. CASE Write
      BY <3>4 DEF Write
    <3>5. CASE Account
      BY <3>5 DEF Account
    <3>6. CASE HaveFile
      BY <3>6 DEF HaveFile, output
    <3>7. CASE MissFile
      BY <3>7 DEF MissFile, output
    <3> QED
      BY <3>1, <3>2, <3>3, <3>4, <3>5, <3>6, <3>7 DEF AddStep
  <2>3. BaseTypeOK'
    BY <1>1, <1>3, <2>1, <2>2 DEF BaseInv, BaseTypeOK, told
  <2>4. BaseSafe'
    <3> USE <1>1, <1>3 DEF BaseInv, BaseSafe, At, calls, output
    <3>1. CASE MakeFile
      BY <3>1 DEF MakeFile, intake
    <3>2. CASE ReopenFile
      BY <3>2 DEF ReopenFile
    <3>3. CASE FileReady
      BY <3>3 DEF FileReady
    <3>4. CASE Write
      BY <3>4 DEF Write
    <3>5. CASE Account
      BY <3>5 DEF Account
    <3>6. CASE HaveFile
      BY <3>6 DEF HaveFile, output
    <3>7. CASE MissFile
      BY <3>7 DEF MissFile, output
    <3> QED
      BY <3>1, <3>2, <3>3, <3>4, <3>5, <3>6, <3>7 DEF AddStep
  <2>5. Callers'
    BY <1>1, <1>3 DEF BaseInv, Callers, calls, flags
  <2>6. FileSound'
    <3> USE <1>1 DEF BaseInv, FileSound, output, intake
    <3>1. CASE MakeFile
      BY <3>1 DEF MakeFile
    <3>2. CASE ReopenFile
      BY <3>2 DEF ReopenFile
    <3>3. CASE FileReady
      BY <3>3 DEF FileReady
    <3>4. CASE Write
      BY <3>4 DEF Write
    <3>5. CASE Account
      BY <3>5 DEF Account
    <3>6. CASE HaveFile
      BY <3>6 DEF HaveFile, output
    <3>7. CASE MissFile
      BY <3>7 DEF MissFile, output
    <3> QED
      BY <3>1, <3>2, <3>3, <3>4, <3>5, <3>6, <3>7 DEF AddStep
  <2> QED
    BY <2>3, <2>4, <2>5, <2>6 DEF BaseInv
<1> QED
  BY <1>2, <1>3 DEF AddStep, MakeFile, HaveFile, ReopenFile, FileReady, MissFile, Write, Account, calls, flags

\* A step of setStatus, of either thread.
LEMMA SetStatusStepInv ==
  ASSUME BaseInv, NEW t \in Threads, SetStatusStep(t)
  PROVE  BaseInv'
<1>1. UNCHANGED <<flags, error, setting, target, bytesRead, intake, ops>>
  BY DEF SetStatusStep, Notify, Close, Reset, Remove, Assign, output
<1>2. PICK step : /\ At(t, step)
                  /\ \/ todo' = [todo EXCEPT ![t] = Tail(@)]
                     \/ step = "close" /\ todo' = [todo EXCEPT ![t] = Tail(Tail(@))]
  <2>1. CASE Close(t)
    BY <2>1 DEF Close
  <2>2. CASE Notify(t) \/ Reset(t) \/ Remove(t) \/ Assign(t)
    BY <2>2 DEF Notify, Reset, Remove, Assign, Pop
  <2> QED
    BY <2>1, <2>2 DEF SetStatusStep
<1>3. /\ CallsTypeOK'
      /\ At(t, "reset")' => step = "close"
      /\ step = "close" /\ todo' = [todo EXCEPT ![t] = Tail(Tail(@))] => ~At(t, "reset")'
      /\ \A u \in Threads \ {t} : todo'[u] = todo[u]
  BY <1>1, <1>2, PopCalls DEF BaseInv, BaseTypeOK
<1>4. /\ status' \in Status /\ file' \in {"none", "open", "failed"} /\ exists' \in BOOLEAN
      /\ stored' \in Nat /\ finished' \in Nat /\ failed' \in Nat /\ fault' \in {"none", "crash"}
  <2> USE DEF BaseInv, BaseTypeOK, CallsTypeOK, output, told
  <2>1. CASE Notify(t)
    BY <2>1 DEF Notify
  <2>2. CASE Close(t)
    BY <2>2 DEF Close
  <2>3. CASE Reset(t)
    BY <2>3 DEF Reset
  <2>4. CASE Remove(t)
    BY <2>4 DEF Remove
  <2>5. CASE Assign(t)
    BY <2>5 DEF Assign
  <2> QED
    BY <2>1, <2>2, <2>3, <2>4, <2>5 DEF SetStatusStep
<1>5. BaseTypeOK'
  BY <1>1, <1>3, <1>4 DEF BaseInv, BaseTypeOK, intake
<1>6. BaseSafe'
  <2>1. CASE t = "user"
    BY <1>1, <1>2, <1>3, <2>1 DEF BaseInv, BaseSafe, At, Threads, intake
  <2>2. CASE t = "worker"
    <3>1. adding = "no" /\ adding' = "no"
      BY <1>1, <1>2, <2>2 DEF BaseInv, BaseSafe, At, intake
    <3>2. ASSUME ops = 0 PROVE fault' = "none" /\ (At("worker", "reset")' => file' # "none")
      <4>1. CASE Close(t)
        <5>1. fault' = fault /\ file' = file
          BY <4>1 DEF Close, output
        <5>2. ASSUME At("worker", "reset")' PROVE file # "none"
          <6>1. step = "close"
            BY <1>2, <4>1 DEF Close, At
          <6> QED
            BY <1>3, <2>2, <4>1, <5>2, <6>1 DEF Close
        <5> QED
          BY <3>2, <5>1, <5>2 DEF BaseInv, BaseSafe
      <4>2. CASE Notify(t) \/ Reset(t) \/ Remove(t) \/ Assign(t)
        <5>1. ~At("worker", "reset")'
          BY <1>2, <1>3, <2>2, <4>2 DEF Notify, Reset, Remove, Assign, At
        <5>2. fault' = "none"
          BY <2>2, <3>2, <4>2 DEF Notify, Reset, Remove, Assign, BaseInv, BaseSafe
        <5> QED
          BY <5>1, <5>2
      <4> QED
        BY <4>1, <4>2 DEF SetStatusStep
    <3> QED
      BY <1>1, <1>3, <2>2, <3>1, <3>2 DEF BaseInv, BaseSafe, Threads
  <2> QED
    BY <2>1, <2>2 DEF Threads
<1>7. Callers'
  BY <1>1 DEF BaseInv, Callers, flags
<1>8. FileSound'
  <2> USE <1>1 DEF BaseInv, FileSound, output, intake
  <2>1. CASE Notify(t) \/ Close(t) \/ Assign(t)
    BY <2>1 DEF Notify, Close, Assign
  <2>2. CASE Reset(t)
    BY <2>2 DEF Reset
  <2>3. CASE Remove(t)
    BY <2>3 DEF Remove
  <2> QED
    BY <2>1, <2>2, <2>3 DEF SetStatusStep
<1> QED
  BY <1>5, <1>6, <1>7, <1>8 DEF BaseInv

\* The user's calls and their steps.
LEMMA UserActsInv ==
  ASSUME BaseInv, UserActs
  PROVE  BaseInv'
<1>1. CASE SetStatusStep("user")
  BY <1>1, SetStatusStepInv DEF Threads
<1>2. ASSUME NEW s \in {"Canceled", "Paused", "Resumed"}, UserCall(s) PROVE BaseInv'
  <2>1. /\ CallsTypeOK' /\ setting'["user"] = s
        /\ todo'["worker"] = todo["worker"] /\ setting'["worker"] = setting["worker"]
    BY <1>2, SetStatusCalls DEF UserCall, BaseInv, BaseTypeOK, Threads, Status
  <2>2. ops' \in 0 .. MaxOps /\ ops' # 0
    BY <1>2, RequestBaseAssumption DEF UserCall, BaseInv, BaseTypeOK
  <2>3. BaseTypeOK'
    BY <1>2, <2>1, <2>2 DEF UserCall, BaseInv, BaseTypeOK, output, told, intake
  <2>4. BaseSafe'
    BY <1>2, <2>1, <2>2 DEF UserCall, BaseInv, BaseSafe, intake
  <2>5. Callers' /\ FileSound'
    BY <1>2, <2>1, <2>2 DEF UserCall, BaseInv, Callers, FileSound, output, intake
  <2> QED
    BY <2>3, <2>4, <2>5 DEF BaseInv
<1> QED
  BY <1>1, <1>2 DEF UserActs, Cancel, PauseProcessing, ContinueProcessing

-----------------------------------------------------------------------------
(* What the calls leave to be told, to be reset and to be removed. *)

\* With no call under way there is nothing of the kind.
LEMMA NothingLeftBehind ==
  ASSUME Returned
  PROVE  \A x : ~Pending(x) /\ ~Ahead("worker", x)
  BY DEF Returned, Pending, At, Ahead

\* Who leaves the calls alone leaves that as it is.
LEMMA SameCalls ==
  ASSUME UNCHANGED calls
  PROVE  /\ \A x : (Pending(x)' <=> Pending(x)) /\ \A t : Ahead(t, x)' <=> Ahead(t, x)
         /\ todo' = todo
  BY DEF calls, Pending, At, Ahead

\* A call of the worker: the callbacks for its argument, and only those, are due.
LEMMA WorkerCallTells ==
  ASSUME BaseInv, NEW s \in WorkerStatus, SetStatus("worker", s)
  PROVE  /\ UNCHANGED flags /\ todo'["worker"] # <<>>
         /\ Pending("Done")' <=> s = "Done"
         /\ Pending("Error")' <=> s = "Error"
         /\ s \in {"Done", "Error"} => Ahead("worker", "reset")'
         /\ s = "Error" => Ahead("worker", "remove")'
         /\ todo'["user"] = todo["user"] /\ \A x : Ahead("user", x)' <=> Ahead("user", x)
<1>1. CallsTypeOK /\ "worker" \in Threads /\ s \in Status
  BY DEF BaseInv, BaseTypeOK, Threads, Status, WorkerStatus
<1>2. /\ todo'["worker"] # <<>> /\ setting'["worker"] = s
      /\ At("worker", "notify")' <=> s \in {"Resumed", "Paused", "Error", "Canceled", "Done"}
      /\ s \in {"Paused", "Error", "Canceled", "Done"} => Ahead("worker", "reset")'
      /\ s \in {"Error", "Canceled"} => Ahead("worker", "remove")'
      /\ todo'["user"] = todo["user"]
  BY <1>1, SetStatusCalls DEF Threads
<1>3. UNCHANGED flags
  BY <1>1 DEF SetStatus, WorkerStatus, flags, CallsTypeOK
<1>4. \A x : Ahead("user", x)' <=> Ahead("user", x)
  BY <1>2 DEF Ahead
<1> QED
  BY <1>2, <1>3, <1>4 DEF Pending

\* A step of the worker's call: what was pending is told.  Only a failure removes
\* the file.
LEMMA WorkerStepTells ==
  ASSUME BaseInv, SetStatusStep("worker")
  PROVE  /\ todo["worker"] # <<>> /\ ~Pending("Done")' /\ ~Pending("Error")'
         /\ finished' = IF Pending("Done") THEN finished + 1 ELSE finished
         /\ failed' = IF Pending("Error") THEN failed + 1 ELSE failed
         /\ Pending("Error") => Ahead("worker", "remove")'
         /\ Ahead("worker", "reset") => Ahead("worker", "reset")' \/ file' = "none"
         /\ Ahead("worker", "remove") => Ahead("worker", "remove")' \/ ~exists'
         /\ todo'["worker"] = <<>> => UNCHANGED <<told, fault>>
         /\ file' \in {file, "none"} /\ (exists' => exists) /\ stored' \in {0, stored}
         /\ ~error => UNCHANGED <<exists, stored>>
         /\ UNCHANGED <<flags, error, setting, target, bytesRead, intake, ops>>
         /\ todo'["user"] = todo["user"] /\ \A x : Ahead("user", x)' <=> Ahead("user", x)
<1>1. CallsTypeOK /\ "worker" \in Threads
  BY DEF BaseInv, BaseTypeOK, Threads
<1>2. /\ todo["worker"] # <<>> /\ ~At("worker", "notify")'
      /\ UNCHANGED setting /\ todo'["user"] = todo["user"]
      /\ todo'["worker"] = <<>> => Assign("worker")
      /\ Ahead("worker", "reset") => Ahead("worker", "reset")' \/ file' = "none"
      /\ Ahead("worker", "remove") => Ahead("worker", "remove")' \/ Remove("worker")
      /\ Notify("worker") /\ setting["worker"] \in {"Error", "Canceled"} => Ahead("worker", "remove")'
      /\ Remove("worker") => setting["worker"] \in {"Error", "Canceled"}
  BY <1>1, StepGoesOn DEF Threads
<1>3. Remove("worker") => error
  BY <1>2 DEF BaseInv, Callers, WorkerStatus
<1>4. Pending("Done") \/ Pending("Error") => Notify("worker")
  BY DEF Pending, SetStatusStep, Notify, Close, Reset, Remove, Assign, At
<1>5. /\ finished' = IF Pending("Done") THEN finished + 1 ELSE finished
      /\ failed' = IF Pending("Error") THEN failed + 1 ELSE failed
  <2>1. CASE Notify("worker")
    BY <2>1 DEF Notify, Pending
  <2>2. CASE Close("worker") \/ Reset("worker") \/ Remove("worker") \/ Assign("worker")
    BY <2>2 DEF Close, Reset, Remove, Assign, Pending, At, told
  <2> QED
    BY <2>1, <2>2 DEF SetStatusStep
<1>6. /\ file' \in {file, "none"} /\ (exists' => exists) /\ stored' \in {0, stored}
      /\ ~Remove("worker") => UNCHANGED <<exists, stored>>
      /\ Remove("worker") => ~exists'
      /\ UNCHANGED <<flags, error, target, bytesRead, intake, ops>>
  BY DEF SetStatusStep, Notify, Close, Reset, Remove, Assign, output
<1>7. todo'["worker"] = <<>> => UNCHANGED <<told, fault>>
  BY <1>2 DEF Assign
<1>8. \A x : Ahead("user", x)' <=> Ahead("user", x)
  BY <1>2 DEF Ahead
<1>9. Pending("Error") => Ahead("worker", "remove")'
  BY <1>2, <1>4 DEF Pending
<1> QED
  BY <1>2, <1>3, <1>5, <1>6, <1>7, <1>8, <1>9 DEF Pending

\* A step of the user's call tells no outcome.
LEMMA UserStepTells ==
  ASSUME BaseInv, SetStatusStep("user")
  PROVE  /\ ops # 0 /\ UNCHANGED <<told, flags, error, setting, target, bytesRead, intake, ops>>
         /\ todo'["worker"] = todo["worker"]
         /\ \A x : (Pending(x)' <=> Pending(x)) /\ (Ahead("worker", x)' <=> Ahead("worker", x))
         /\ Ahead("user", "remove") => Ahead("user", "remove")' \/ ~exists'
         /\ file' \in {file, "none"} /\ (exists' => exists) /\ stored' \in {0, stored}
<1>1. CallsTypeOK /\ "user" \in Threads
  BY DEF BaseInv, BaseTypeOK, Threads
<1>2. /\ todo["user"] # <<>>
      /\ UNCHANGED setting /\ todo'["worker"] = todo["worker"]
      /\ Ahead("user", "remove") => Ahead("user", "remove")' \/ Remove("user")
  BY <1>1, StepGoesOn DEF Threads
<1>3. ops # 0
  BY <1>2 DEF BaseInv, BaseSafe
<1>4. UNCHANGED told
  <2>1. setting["user"] \notin {"Done", "Error"}
    BY DEF BaseInv, Callers
  <2> QED
    BY <2>1 DEF SetStatusStep, Notify, Close, Reset, Remove, Assign, told
<1>5. /\ file' \in {file, "none"} /\ (exists' => exists) /\ stored' \in {0, stored}
      /\ Remove("user") => ~exists'
      /\ UNCHANGED <<flags, error, target, bytesRead, intake, ops>>
  BY DEF SetStatusStep, Notify, Close, Reset, Remove, Assign, output
<1>6. \A x : (Pending(x)' <=> Pending(x)) /\ (Ahead("worker", x)' <=> Ahead("worker", x))
  BY <1>2 DEF Ahead, Pending, At
<1> QED
  BY <1>2, <1>3, <1>4, <1>5, <1>6

\* A new call of the user.
LEMMA UserCallTells ==
  ASSUME BaseInv, NEW s \in {"Canceled", "Paused", "Resumed"}, UserCall(s)
  PROVE  /\ ops' # 0 /\ UNCHANGED <<error, status, output, told, intake, fault>>
         /\ todo'["worker"] = todo["worker"]
         /\ \A x : (Pending(x)' <=> Pending(x)) /\ (Ahead("worker", x)' <=> Ahead("worker", x))
         /\ \A x : ~Ahead("user", x)
         /\ canceled' => canceled \/ Ahead("user", "remove")'
<1>1. CallsTypeOK /\ "user" \in Threads /\ s \in Status /\ SetStatus("user", s) /\ ops \in Nat
  BY RequestBaseAssumption DEF BaseInv, BaseTypeOK, Threads, Status, UserCall
<1>2. /\ s = "Canceled" => Ahead("user", "remove")'
      /\ todo'["worker"] = todo["worker"] /\ setting'["worker"] = setting["worker"]
  BY <1>1, SetStatusCalls DEF Threads
<1>3. \A x : (Pending(x)' <=> Pending(x)) /\ (Ahead("worker", x)' <=> Ahead("worker", x))
  BY <1>2 DEF Ahead, Pending, At
<1>4. canceled' => canceled \/ s = "Canceled"
  BY <1>1 DEF SetStatus
<1>5. ops' # 0 /\ UNCHANGED <<error, status, output, told, intake, fault>>
  BY <1>1 DEF UserCall
<1>6. \A x : ~Ahead("user", x)
  BY DEF UserCall, Ahead
<1> QED
  BY <1>2, <1>3, <1>4, <1>5, <1>6

-----------------------------------------------------------------------------
(* What addResponseData does to what is stored. *)

\* What is stored, or will be when the call under way has written its piece: a
\* stream that has yet to be made empties the file.
Holding ==
    IF adding = "open" /\ file = "none" THEN piece
    ELSE IF adding \in {"open", "test", "write"} THEN stored + piece ELSE stored

\* What is counted, or will be when the call has.
Counting == bytesRead + (IF adding = "no" THEN 0 ELSE piece)

\* No more than the piece of the call under way, or of the last call.
OnePiece == IF adding \in {"open", "test", "write"} THEN stored = 0 ELSE stored <= piece

\* Adding goes on, or fails, which it tells.
LEMMA AddStepTells ==
  ASSUME BaseInv, AddStep
  PROVE  /\ adding # "no" /\ todo["worker"] = <<>>
         /\ UNCHANGED <<status, target, told, piece, ops>>
         /\ OnePiece => OnePiece'
         /\ \/ UNCHANGED <<calls, flags, error>>
            \/ SetError("worker") /\ adding' = "no" /\ UNCHANGED <<output, fault>>
<1>1. adding # "no" /\ todo["worker"] = <<>> /\ UNCHANGED <<status, target, told, piece, ops>>
  BY DEF AddStep, MakeFile, HaveFile, ReopenFile, FileReady, MissFile, Write, Account, BaseInv, BaseSafe, intake, output
<1>2. \/ UNCHANGED <<calls, flags, error>>
      \/ SetError("worker") /\ adding' = "no" /\ UNCHANGED <<output, fault>>
  BY DEF AddStep, MakeFile, HaveFile, ReopenFile, FileReady, MissFile, Write, Account, output
<1>3. OnePiece => OnePiece'
  <2> USE <1>1 DEF OnePiece
  <2>0. stored \in Nat /\ piece \in Nat
    BY DEF BaseInv, BaseTypeOK
  <2>1. CASE MakeFile
    BY <2>1 DEF MakeFile, intake
  <2>2. CASE ReopenFile
    BY <2>0, <2>2 DEF ReopenFile
  <2>3. CASE FileReady
    BY <2>3 DEF FileReady, output
  <2>4. CASE Write
    BY <2>0, <2>4 DEF Write
  <2>5. CASE Account
    BY <2>5 DEF Account
  <2>6. CASE HaveFile
    BY <2>6 DEF HaveFile, output
  <2>7. CASE MissFile
    BY <2>7 DEF MissFile, output
  <2> QED
    BY <2>1, <2>2, <2>3, <2>4, <2>5, <2>6, <2>7 DEF AddStep
<1> QED
  BY <1>1, <1>2, <1>3

\* Where files open and the user does not call it goes on, and neither changes what
\* is held nor loses the stream.
LEMMA AddStepHolds ==
  ASSUME BaseInv, AddStep, ops = 0, ~OpenMayFail, file = "open" => exists
  PROVE  /\ UNCHANGED <<calls, flags, error>>
         /\ Holding' = Holding /\ Counting' = Counting
         /\ file' = "open" => exists'
         /\ target = "file" /\ (file = "none" => adding = "open") => file' # "none"
<1> USE DEF Holding, Counting
<1>1. /\ stored \in Nat /\ piece \in Nat /\ bytesRead \in Nat
      /\ file \in {"none", "open"}
      /\ adding = "write" /\ target = "file" => file = "open"
      /\ adding \in {"open", "test"} => target = "file"
      /\ adding = "test" => file # "none"
      /\ target # "file" => file = "none"
  BY DEF BaseInv, BaseTypeOK, BaseSafe, FileSound
<1>2. CASE MakeFile
  BY <1>1, <1>2 DEF MakeFile, intake
<1>3. CASE ReopenFile
  BY <1>1, <1>3 DEF ReopenFile
<1>4. CASE FileReady
  BY <1>1, <1>4 DEF FileReady, output
<1>5. CASE Write
  BY <1>1, <1>5 DEF Write
<1>6. CASE Account
  BY <1>1, <1>6 DEF Account
<1>7. CASE HaveFile \/ MissFile
  BY <1>1, <1>7 DEF HaveFile, MissFile, output
<1> QED
  BY <1>2, <1>3, <1>4, <1>5, <1>6, <1>7 DEF AddStep
=============================================================================
