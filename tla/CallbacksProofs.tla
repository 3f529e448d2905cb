-------------------------- MODULE CallbacksProofs --------------------------
(***************************************************************************)
(* What holds of Callbacks for any sign-ups, any number of calls and any   *)
(* nesting of them.                                                        *)
(*                                                                         *)
(* The calls under way are counted from the outermost, so that a call      *)
(* keeps its depth when others come and go within it.  The invariant says  *)
(* of each what it has still to do: whom its loop has yet to tell, whether *)
(* it has yet to assign the status, and whether it has yet to remove the   *)
(* file.                                                                   *)
(***************************************************************************)
EXTENDS Callbacks, SequenceTheorems, FiniteSetTheorems, TLAPS

Statuses == {"Waiting", "Processed", "Writing", "Reading", "Done", "Error", "Canceled", "Paused", "Resumed"}
Settable == Statuses \union {"none"}

\* What a setStatus(s) may have before it, and a call of addResponseData.
ToTell == {<<"tell">>, <<"assign", "tell">>}
StepsLeft(s) ==
    CASE s = "none" -> {<<"tellBytes">>}
      [] s = "Resumed" -> ToTell \union {<<"notify", "assign", "tell">>}
      [] s \in {"Paused", "Done"} -> ToTell \union {<<"close", "assign", "tell">>, <<"notify", "close", "assign", "tell">>}
      [] s \in {"Error", "Canceled"} ->
            ToTell \union {<<"remove", "assign", "tell">>, <<"close", "remove", "assign", "tell">>,
                           <<"notify", "close", "remove", "assign", "tell">>}
      [] OTHER -> ToTell

Call == [status : Settable, steps : UNION {StepsLeft(s) : s \in Settable}, next : Nat,
         running : SignUps \union {NoOne}, end : Nat]

StepAt(c) == Head(c.steps)
ListOf(c, lists) == lists[ListAt(StepAt(c), c.status)]

\* A call goes over what its list held when its loop began; lists only grow.
CallOK(c, lists) ==
    /\ c.steps \in StepsLeft(c.status)
    /\ c.next # 0
    /\ c.running # NoOne => StepAt(c) \in Loops /\ c.next <= c.end /\ c.running = ListOf(c, lists)[c.next]
    /\ StepAt(c) \in Loops => c.end <= Len(ListOf(c, lists)) /\ c.next <= c.end + 1

\* Whom the loop of a call has still to come to.
Left(c) == (IF c.running = NoOne THEN c.next ELSE c.next + 1) .. c.end
Waits(s, c, lists) == StepAt(c) \in Loops /\ \E i \in Left(c) : ListOf(c, lists)[i] = s

\* Of the calls under way, the one at depth d; the outermost is at 1.
Deep(stack, d) == stack[Len(stack) + 1 - d]
PendingIn(s, stack, lists) == {d \in 1 .. Len(stack) : Waits(s, Deep(stack, d), lists)}

-----------------------------------------------------------------------------
(* The steps of a call. *)

\* The steps that a call can be at, and those behind them.
LEMMA Rests ==
    /\ Head(<<"tell">>) = "tell" /\ Tail(<<"tell">>) = <<>>
    /\ Head(<<"tellBytes">>) = "tellBytes" /\ Tail(<<"tellBytes">>) = <<>>
    /\ Head(<<"assign", "tell">>) = "assign" /\ Tail(<<"assign", "tell">>) = <<"tell">>
    /\ Head(<<"remove", "assign", "tell">>) = "remove" /\ Tail(<<"remove", "assign", "tell">>) = <<"assign", "tell">>
    /\ Head(<<"close", "assign", "tell">>) = "close" /\ Tail(<<"close", "assign", "tell">>) = <<"assign", "tell">>
    /\ Head(<<"notify", "assign", "tell">>) = "notify" /\ Tail(<<"notify", "assign", "tell">>) = <<"assign", "tell">>
OBVIOUS

LEMMA LongRests ==
    /\ Head(<<"close", "remove", "assign", "tell">>) = "close"
    /\ Tail(<<"close", "remove", "assign", "tell">>) = <<"remove", "assign", "tell">>
    /\ Head(<<"notify", "close", "assign", "tell">>) = "notify"
    /\ Tail(<<"notify", "close", "assign", "tell">>) = <<"close", "assign", "tell">>
    /\ Head(<<"notify", "close", "remove", "assign", "tell">>) = "notify"
    /\ Tail(<<"notify", "close", "remove", "assign", "tell">>) = <<"close", "remove", "assign", "tell">>
OBVIOUS

\* A call comes from one step to the next, and returns behind the last loop.
LEMMA StepsGoOn ==
    ASSUME NEW s \in Settable, NEW rest \in StepsLeft(s)
    PROVE  /\ Head(rest) \in {"notify", "close", "remove", "assign", "tell", "tellBytes"}
           /\ Head(rest) \in {"tell", "tellBytes"} => Tail(rest) = <<>>
           /\ Head(rest) \notin {"tell", "tellBytes"} => Tail(rest) # <<>> /\ Tail(rest) \in StepsLeft(s)
           /\ Head(rest) = "assign" => Head(Tail(rest)) = "tell"
           /\ Head(rest) \in {"notify", "close", "remove"} => Head(Tail(rest)) \in {"close", "remove", "assign"}
           /\ Head(rest) = "notify" => s \in {"Paused", "Resumed", "Error", "Canceled", "Done"}
           /\ s = "Canceled" /\ Head(rest) = "notify" => Head(Tail(rest)) = "close"
           /\ s = "Canceled" /\ Head(rest) = "close" => Head(Tail(rest)) = "remove"
           /\ s = "none" <=> Head(rest) = "tellBytes"
<1> USE DEF StepsLeft, ToTell
<1>1. <<"tell">> # <<>> /\ <<"assign", "tell">> # <<>> /\ <<"remove", "assign", "tell">> # <<>>
      /\ <<"close", "assign", "tell">> # <<>> /\ <<"close", "remove", "assign", "tell">> # <<>>
  OBVIOUS
<1>2. CASE s = "none"
  BY <1>2, Rests
<1>3. CASE s # "none" /\ rest = <<"tell">>
  BY <1>3, Rests
<1>4. CASE s # "none" /\ rest = <<"assign", "tell">>
  BY <1>1, <1>4, Rests
<1>5. CASE s = "Resumed" /\ rest = <<"notify", "assign", "tell">>
  BY <1>1, <1>5, Rests
<1>6. CASE s \in {"Paused", "Done"} /\ rest = <<"close", "assign", "tell">>
  BY <1>1, <1>6, Rests
<1>7. CASE s \in {"Paused", "Done"} /\ rest = <<"notify", "close", "assign", "tell">>
  BY <1>1, <1>7, Rests, LongRests
<1>8. CASE s \in {"Error", "Canceled"} /\ rest = <<"remove", "assign", "tell">>
  BY <1>1, <1>8, Rests
<1>9. CASE s \in {"Error", "Canceled"} /\ rest = <<"close", "remove", "assign", "tell">>
  BY <1>1, <1>9, Rests, LongRests
<1>10. CASE s \in {"Error", "Canceled"} /\ rest = <<"notify", "close", "remove", "assign", "tell">>
  BY <1>1, <1>10, Rests, LongRests
<1> QED
  BY <1>2, <1>3, <1>4, <1>5, <1>6, <1>7, <1>8, <1>9, <1>10 DEF Settable, Statuses

\* setStatus begins with its event, or assigns at once if the status has none.
LEMMA StepsBegin ==
    ASSUME NEW s \in Statuses
    PROVE  /\ StepsOf(s) \in StepsLeft(s)
           /\ s \in DOMAIN EventOf <=> s \in {"Paused", "Resumed", "Error", "Canceled", "Done"}
           /\ Head(StepsOf(s)) = IF s \in DOMAIN EventOf THEN "notify" ELSE "assign"
<1>1. s \in DOMAIN EventOf <=> s \in {"Paused", "Resumed", "Error", "Canceled", "Done"}
  BY DEF EventOf
<1>2. CASE s = "Resumed"
  BY <1>1, <1>2, Rests DEF StepsOf, StepsLeft
<1>3. CASE s \in {"Paused", "Done"}
  BY <1>1, <1>3, LongRests DEF StepsOf, StepsLeft
<1>4. CASE s \in {"Error", "Canceled"}
  BY <1>1, <1>4, LongRests DEF StepsOf, StepsLeft
<1>5. CASE s \in {"Waiting", "Processed", "Writing", "Reading"}
  BY <1>1, <1>5, Rests DEF StepsOf, StepsLeft, ToTell
<1> QED
  BY <1>1, <1>2, <1>3, <1>4, <1>5 DEF Statuses

\* Each loop goes over the list of one event.
LEMMA LoopsHaveLists ==
    ASSUME NEW s \in Settable, NEW step \in Loops,
           step = "notify" => s \in {"Paused", "Resumed", "Error", "Canceled", "Done"}
    PROVE  ListAt(step, s) \in Events
<1>1. CASE step = "notify"
  BY <1>1 DEF ListAt, EventOf, Events
<1>2. CASE step \in {"tell", "tellBytes"}
  BY <1>2 DEF ListAt, Events
<1> QED
  BY <1>1, <1>2 DEF Loops

-----------------------------------------------------------------------------
(* The stack of calls. *)

\* The stack is the call c with the calls of rest around it.
Atop(stack, c, rest) ==
    /\ stack \in Seq(Call) /\ rest \in Seq(Call) /\ c \in Call
    /\ Len(stack) = Len(rest) + 1
    /\ \A d \in 1 .. Len(rest) : Deep(stack, d) = Deep(rest, d)
    /\ Deep(stack, Len(stack)) = c

\* A call that begins is put in front of those under way.
LEMMA PushedAtop ==
    ASSUME NEW rest \in Seq(Call), NEW c \in Call
    PROVE  Atop(<<c>> \o rest, c, rest)
<1> DEFINE stack == <<c>> \o rest
<1>1. <<c>> \in Seq(Call) /\ Len(<<c>>) = 1 /\ <<c>>[1] = c
  OBVIOUS
<1>2. /\ stack \in Seq(Call) /\ Len(stack) = 1 + Len(rest)
      /\ \A i \in 1 .. 1 + Len(rest) : stack[i] = IF i <= 1 THEN <<c>>[i] ELSE rest[i - 1]
  BY <1>1, ConcatProperties
<1>3. Len(rest) \in Nat
  BY LenProperties
<1> HIDE DEF stack
<1>4. Deep(stack, Len(stack)) = c
  BY <1>1, <1>2, <1>3 DEF Deep
<1>5. ASSUME NEW d \in 1 .. Len(rest) PROVE Deep(stack, d) = Deep(rest, d)
  <2>1. Len(stack) + 1 - d \in 1 .. 1 + Len(rest) /\ Len(stack) + 1 - d > 1 /\ Len(stack) + 1 - d - 1 = Len(rest) + 1 - d
    BY <1>2, <1>3
  <2> QED
    BY <1>2, <2>1 DEF Deep
<1> QED
  BY <1>2, <1>3, <1>4, <1>5 DEF Atop, stack

\* The innermost call is in front of the others.
LEMMA HeadAtop ==
    ASSUME NEW stack \in Seq(Call), stack # <<>>
    PROVE  Atop(stack, Head(stack), Tail(stack)) /\ Head(stack) = stack[1] /\ Len(stack) \in Nat \ {0}
<1>1. /\ Head(stack) \in Call /\ Tail(stack) \in Seq(Call) /\ Len(Tail(stack)) = Len(stack) - 1
      /\ \A i \in 1 .. Len(Tail(stack)) : Tail(stack)[i] = stack[i + 1]
  BY HeadTailProperties
<1>2. Len(stack) \in Nat \ {0} /\ Head(stack) = stack[1]
  BY LenProperties, EmptySeq
<1>3. ASSUME NEW d \in 1 .. Len(Tail(stack)) PROVE Deep(stack, d) = Deep(Tail(stack), d)
  <2>1. Len(Tail(stack)) + 1 - d \in 1 .. Len(Tail(stack)) /\ Len(Tail(stack)) + 1 - d + 1 = Len(stack) + 1 - d
    BY <1>1, <1>2
  <2> QED
    BY <1>1, <2>1 DEF Deep
<1> QED
  BY <1>1, <1>2, <1>3 DEF Atop, Deep

\* The innermost call is changed in place.
LEMMA ChangedAtop ==
    ASSUME NEW stack \in Seq(Call), stack # <<>>, NEW c \in Call
    PROVE  Atop([stack EXCEPT ![1] = c], c, Tail(stack))
<1> DEFINE new == [stack EXCEPT ![1] = c]
<1>1. Atop(stack, Head(stack), Tail(stack)) /\ Len(stack) \in Nat \ {0}
  BY HeadAtop
<1>2. 1 \in 1 .. Len(stack)
  BY <1>1
<1>3. new \in Seq(Call) /\ Len(new) = Len(stack) /\ new[1] = c /\ \A i \in 1 .. Len(stack) : i # 1 => new[i] = stack[i]
  BY <1>2, ExceptSeq
<1> HIDE DEF new
<1>4. ASSUME NEW d \in 1 .. Len(Tail(stack)) PROVE Deep(new, d) = Deep(Tail(stack), d)
  <2>1. Len(stack) + 1 - d \in 1 .. Len(stack) /\ Len(stack) + 1 - d # 1
    BY <1>1 DEF Atop
  <2>2. Deep(new, d) = Deep(stack, d)
    BY <1>3, <2>1 DEF Deep
  <2> QED
    BY <1>1, <2>2 DEF Atop
<1> QED
  BY <1>1, <1>3, <1>4 DEF Atop, Deep, new

\* Another call more has at most one more to tell.
LEMMA CountAtop ==
    ASSUME NEW s, NEW lists, NEW stack, NEW c, NEW rest, Atop(stack, c, rest)
    PROVE  /\ PendingIn(s, stack, lists) = PendingIn(s, rest, lists) \union IF Waits(s, c, lists) THEN {Len(stack)} ELSE {}
           /\ Cardinality(PendingIn(s, rest, lists)) \in Nat
           /\ Cardinality(PendingIn(s, stack, lists)) =
                 Cardinality(PendingIn(s, rest, lists)) + IF Waits(s, c, lists) THEN 1 ELSE 0
<1> DEFINE before == PendingIn(s, rest, lists)
           after == PendingIn(s, stack, lists)
<1>1. Len(rest) \in Nat /\ 1 .. Len(stack) = 1 .. Len(rest) \union {Len(stack)} /\ Len(stack) \notin 1 .. Len(rest)
  BY LenProperties DEF Atop
<1>2. after = before \union IF Waits(s, c, lists) THEN {Len(stack)} ELSE {}
  BY <1>1 DEF PendingIn, Atop
<1>3. before \subseteq 1 .. Len(rest) /\ Len(stack) \notin before
  BY <1>1 DEF PendingIn
<1>4. IsFiniteSet(before)
  <2>1. IsFiniteSet(1 .. Len(rest))
    BY <1>1, FS_Interval
  <2> QED
    BY <1>3, <2>1, FS_Subset
<1>5. Cardinality(before) \in Nat
  BY <1>4, FS_CardinalityType
<1>6. Cardinality(before \union {Len(stack)}) = Cardinality(before) + 1
  BY <1>3, <1>4, FS_AddElement
<1> HIDE DEF before, after
<1>7. Cardinality(after) = Cardinality(before) + IF Waits(s, c, lists) THEN 1 ELSE 0
  <2>1. CASE Waits(s, c, lists)
    BY <1>2, <1>6, <2>1
  <2>2. CASE ~Waits(s, c, lists)
    BY <1>2, <1>5, <2>2
  <2> QED
    BY <2>1, <2>2
<1> QED
  BY <1>2, <1>5, <1>7 DEF before, after

-----------------------------------------------------------------------------
(* The invariant: types, lists and calls. *)

CTypes ==
    /\ callbacks \in [Events -> Seq(SignUps)]
    /\ frames \in Seq(Call)
    /\ status \in Statuses /\ outermost \in Statuses
    /\ bytesRead \in Nat
    /\ {canceled, exists, answered} \subseteq BOOLEAN
    /\ held \subseteq SignUps
    /\ due \in [SignUps -> Nat] /\ times \in [SignUps -> Nat]
    /\ last \in [SignUps -> Statuses \X Nat]

\* Everybody is in the list of the event signed up for, and once.
Enlisted ==
    \A e \in Events : \A i \in 1 .. Len(callbacks[e]) :
        /\ callbacks[e][i].event = e
        /\ \A k \in 1 .. Len(callbacks[e]) : callbacks[e][k] = callbacks[e][i] => k = i

\* Only the outermost call may be addResponseData.
CallsOK(stack, lists) ==
    \A d \in 1 .. Len(stack) : CallOK(Deep(stack, d), lists) /\ (Deep(stack, d).status = "none" => d = 1)
Calls == CallsOK(frames, callbacks)

Basics == CTypes /\ Enlisted /\ Calls

\* Whoever has signed up is in the list of that event.
LEMMA SignedIsListed ==
    ASSUME CTypes, Enlisted, NEW e \in Events, NEW s
    PROVE  s \in Signed /\ s.event = e <=> \E i \in 1 .. Len(callbacks[e]) : callbacks[e][i] = s
<1>1. \A f \in Events : DOMAIN callbacks[f] = 1 .. Len(callbacks[f])
  BY LenProperties DEF CTypes
<1>2. \A f \in Events : ToSet(callbacks[f]) = {callbacks[f][i] : i \in 1 .. Len(callbacks[f])}
  BY <1>1 DEF ToSet
<1>3. ASSUME s \in Signed, s.event = e PROVE \E i \in 1 .. Len(callbacks[e]) : callbacks[e][i] = s
  <2>1. PICK f \in Events : s \in ToSet(callbacks[f])
    BY <1>3 DEF Signed
  <2>2. PICK i \in 1 .. Len(callbacks[f]) : callbacks[f][i] = s
    BY <1>2, <2>1
  <2>3. f = e
    BY <1>3, <2>2 DEF Enlisted
  <2> QED
    BY <2>2, <2>3
<1>4. ASSUME NEW i \in 1 .. Len(callbacks[e]), callbacks[e][i] = s PROVE s \in Signed /\ s.event = e
  <2>1. s \in ToSet(callbacks[e])
    BY <1>2, <1>4
  <2>2. s \in Signed
    BY <2>1 DEF Signed
  <2> QED
    BY <1>4, <2>2 DEF Enlisted
<1> QED
  BY <1>3, <1>4

\* A call comes to a step: to a loop over all who are signed up then.
LEMMA FrameBegins ==
    ASSUME CTypes, Enlisted, NEW s \in Settable, NEW rest \in StepsLeft(s)
    PROVE  /\ Frame(s, rest) \in Call /\ CallOK(Frame(s, rest), callbacks)
           /\ Frame(s, rest).status = s /\ StepAt(Frame(s, rest)) = Head(rest)
           /\ \A x \in SignUps : Waits(x, Frame(s, rest), callbacks) <=>
                 Head(rest) \in Loops /\ x \in Signed /\ x.event = ListAt(Head(rest), s)
<1> DEFINE c == Frame(s, rest)
           list == callbacks[ListAt(Head(rest), s)]
<1>1. /\ c.status = s /\ c.steps = rest /\ c.next = 1 /\ c.running = NoOne
      /\ c.end = IF Head(rest) \in Loops THEN Len(list) ELSE 0
      /\ c = [status |-> s, steps |-> rest, next |-> 1, running |-> NoOne, end |-> c.end]
  BY DEF Frame
<1>2. Head(rest) \in Loops => ListAt(Head(rest), s) \in Events
  BY StepsGoOn, LoopsHaveLists DEF Loops
<1>3. Head(rest) \in Loops => list \in Seq(SignUps) /\ Len(list) \in Nat
  BY <1>2, LenProperties DEF CTypes
<1> HIDE DEF c
<1>4. c.end \in Nat
  BY <1>1, <1>3
<1>5. rest \in UNION {StepsLeft(x) : x \in Settable}
  OBVIOUS
<1>6. c \in Call
  BY <1>1, <1>4, <1>5 DEF Call
<1>7. CallOK(c, callbacks)
  BY <1>1, <1>3 DEF CallOK, ListOf, StepAt
<1>8. ASSUME NEW x \in SignUps
      PROVE  Waits(x, c, callbacks) <=> Head(rest) \in Loops /\ x \in Signed /\ x.event = ListAt(Head(rest), s)
  <2>1. Waits(x, c, callbacks) <=> Head(rest) \in Loops /\ \E i \in 1 .. Len(list) : list[i] = x
    BY <1>1 DEF Waits, Left, ListOf, StepAt
  <2> QED
    BY <1>2, <2>1, SignedIsListed
<1> QED
  BY <1>1, <1>6, <1>7, <1>8 DEF c, StepAt

\* The calls are in order if the innermost and the others are.
LEMMA CallsAtop ==
    ASSUME NEW stack, NEW c, NEW rest, NEW lists, Atop(stack, c, rest)
    PROVE  CallsOK(stack, lists) <=>
               CallsOK(rest, lists) /\ CallOK(c, lists) /\ (c.status = "none" => Len(stack) = 1)
<1>1. Len(rest) \in Nat /\ 1 .. Len(stack) = 1 .. Len(rest) \union {Len(stack)}
  BY LenProperties DEF Atop
<1> QED
  BY <1>1 DEF CallsOK, Atop

\* The innermost call, and the list it goes over.
LEMMA Innermost ==
    ASSUME Basics, frames # <<>>
    PROVE  /\ Top \in Call /\ CallOK(Top, callbacks) /\ Top.status \in Settable /\ Top.next \in Nat /\ Top.end \in Nat
           /\ Top.running \in SignUps \union {NoOne} /\ Top.steps \in StepsLeft(Top.status)
           /\ Top = frames[1] /\ Len(frames) \in Nat \ {0} /\ Tail(frames) \in Seq(Call)
           /\ Atop(frames, Top, Tail(frames)) /\ CallsOK(Tail(frames), callbacks)
           /\ Top.status = "none" => Len(frames) = 1
           /\ StepAt(Top) \in Loops =>
                 /\ ListAt(StepAt(Top), Top.status) \in Events
                 /\ ListOf(Top, callbacks) \in Seq(SignUps) /\ Len(ListOf(Top, callbacks)) \in Nat
<1>1. Atop(frames, Top, Tail(frames)) /\ Top = frames[1] /\ Len(frames) \in Nat \ {0}
  BY HeadAtop DEF Basics, CTypes, Top
<1>2. Top \in Call /\ Tail(frames) \in Seq(Call)
  BY <1>1 DEF Atop
<1>3. Top.status \in Settable /\ Top.next \in Nat /\ Top.end \in Nat /\ Top.running \in SignUps \union {NoOne}
  BY <1>2 DEF Call
<1>4. CallsOK(Tail(frames), callbacks) /\ CallOK(Top, callbacks) /\ (Top.status = "none" => Len(frames) = 1)
  BY <1>1, CallsAtop DEF Basics, Calls
<1>5. Top.steps \in StepsLeft(Top.status)
  BY <1>4 DEF CallOK
<1>6. StepAt(Top) \in Loops => ListAt(StepAt(Top), Top.status) \in Events
  BY <1>3, <1>5, StepsGoOn, LoopsHaveLists DEF StepAt, Loops
<1>7. StepAt(Top) \in Loops => ListOf(Top, callbacks) \in Seq(SignUps) /\ Len(ListOf(Top, callbacks)) \in Nat
  BY <1>6, LenProperties DEF Basics, CTypes, ListOf
<1> QED
  BY <1>1, <1>2, <1>3, <1>4, <1>5, <1>6, <1>7

-----------------------------------------------------------------------------
(* What each step does to the calls. *)

\* The callback that a loop is at is signed up, and it is the only one there.
LEMMA CallbackIsSigned ==
    ASSUME Basics, Looping, Top.next <= Top.end
    PROVE  /\ frames # <<>> /\ StepAt(Top) \in Loops /\ Top.running = NoOne
           /\ Callback = ListOf(Top, callbacks)[Top.next]
           /\ Callback \in SignUps /\ Callback # NoOne
           /\ Callback \in Signed /\ Callback.event = ListAt(StepAt(Top), Top.status)
           /\ Waits(Callback, Top, callbacks)
           /\ \A s : Waits(s, Top, callbacks) <=>
                 s = Callback \/ \E i \in Top.next + 1 .. Top.end : ListOf(Top, callbacks)[i] = s
           /\ ~\E i \in Top.next + 1 .. Top.end : ListOf(Top, callbacks)[i] = Callback
<1> DEFINE list == ListOf(Top, callbacks)
<1>1. frames # <<>> /\ StepAt(Top) \in Loops /\ Top.running = NoOne /\ Callback = list[Top.next]
  BY DEF Looping, Top, StepAt, Callback, ListOf
<1>2. /\ ListAt(StepAt(Top), Top.status) \in Events /\ list \in Seq(SignUps) /\ Len(list) \in Nat
      /\ Top.next \in Nat /\ Top.end \in Nat /\ Top.next # 0 /\ Top.end <= Len(list)
  BY <1>1, Innermost DEF CallOK
<1>3. Top.next \in 1 .. Len(list)
  BY <1>2
<1>4. Callback \in SignUps
  BY <1>1, <1>2, <1>3, ElementOfSeq
<1>5. Callback \in Signed /\ Callback.event = ListAt(StepAt(Top), Top.status)
  BY <1>1, <1>2, <1>3, SignedIsListed DEF Basics, ListOf
<1>6. NoOne.event = "none" /\ "none" \notin Events
  BY DEF NoOne, Events
<1>7. Callback # NoOne
  BY <1>2, <1>5, <1>6
<1>8. ASSUME NEW i \in Top.next + 1 .. Top.end PROVE list[i] # Callback
  <2>1. i \in 1 .. Len(list) /\ i # Top.next
    BY <1>2
  <2> QED
    BY <1>1, <1>2, <1>3, <2>1 DEF Basics, Enlisted, ListOf
<1>9. Left(Top) = {Top.next} \union (Top.next + 1 .. Top.end)
  BY <1>1, <1>2 DEF Left
<1>10. \A s : Waits(s, Top, callbacks) <=> s = Callback \/ \E i \in Top.next + 1 .. Top.end : list[i] = s
  BY <1>1, <1>9 DEF Waits
<1> QED
  BY <1>1, <1>4, <1>5, <1>7, <1>8, <1>10

\* The innermost call is the same but for where its loop is.
Moved(c) == c.status = Top.status /\ c.steps = Top.steps

\* A callback that is not run is passed over, and nobody else is.
LEMMA SkipDoes ==
    ASSUME Basics, Skip
    PROVE  \E c : /\ Atop(frames', c, Tail(frames)) /\ CallOK(c, callbacks) /\ Moved(c)
                  /\ \A s : s # Callback => (Waits(s, c, callbacks) <=> Waits(s, Top, callbacks))
<1> DEFINE c == [Top EXCEPT !.next = Top.next + 1]
<1>1. Looping /\ Top.next <= Top.end /\ frames' = [frames EXCEPT ![1].next = @ + 1]
  BY DEF Skip
<1>2. /\ frames # <<>> /\ StepAt(Top) \in Loops /\ Top.running = NoOne
      /\ \A s : Waits(s, Top, callbacks) <=>
            s = Callback \/ \E i \in Top.next + 1 .. Top.end : ListOf(Top, callbacks)[i] = s
  BY <1>1, CallbackIsSigned
<1>3. Top \in Call /\ CallOK(Top, callbacks) /\ Top = frames[1] /\ Top.next \in Nat /\ Top.end \in Nat
      /\ frames \in Seq(Call) /\ 1 \in DOMAIN frames
  BY <1>2, Innermost, LenProperties DEF Basics, CTypes
<1>4. frames' = [frames EXCEPT ![1] = c]
  BY <1>1, <1>3
<1>5. /\ c \in Call /\ c.status = Top.status /\ c.steps = Top.steps /\ c.running = NoOne /\ c.end = Top.end
      /\ c.next = Top.next + 1
  BY <1>2, <1>3, SMTT(30) DEF Call
<1> HIDE DEF c
<1>6. Atop(frames', c, Tail(frames))
  BY <1>2, <1>3, <1>4, <1>5, ChangedAtop
<1>7. StepAt(c) = StepAt(Top) /\ ListOf(c, callbacks) = ListOf(Top, callbacks) /\ Left(c) = Top.next + 1 .. Top.end
  BY <1>5 DEF StepAt, ListOf, Left
<1>8. CallOK(c, callbacks)
  BY <1>1, <1>3, <1>5, <1>7 DEF CallOK
<1>9. ASSUME NEW s, s # Callback PROVE Waits(s, c, callbacks) <=> Waits(s, Top, callbacks)
  BY <1>2, <1>7, <1>9 DEF Waits
<1> QED
  BY <1>5, <1>6, <1>8, <1>9 DEF Moved

\* A callback that is run has no more to wait for in that loop.
LEMMA InvokeDoes ==
    ASSUME Basics, Invoke, fault' = "none", fault = "none"
    PROVE  /\ Looping /\ Top.next <= Top.end /\ Callback.by # "emptyUnchecked" /\ ~Skipped(Callback)
           /\ times' = [times EXCEPT ![Callback] = @ + 1]
           /\ last' = [last EXCEPT ![Callback] = <<status, bytesRead>>]
           /\ \E c : /\ Atop(frames', c, Tail(frames)) /\ CallOK(c, callbacks) /\ Moved(c)
                     /\ \A s : Waits(s, c, callbacks) <=> Waits(s, Top, callbacks) /\ s # Callback
<1> DEFINE c == [Top EXCEPT !.running = Callback]
<1>1. Looping /\ Top.next <= Top.end /\ ~Skipped(Callback)
  BY DEF Invoke
<1>2. Callback.by # "emptyUnchecked"
  BY DEF Invoke
<1>3. /\ frames' = [frames EXCEPT ![1].running = Callback]
      /\ times' = [times EXCEPT ![Callback] = @ + 1]
      /\ last' = [last EXCEPT ![Callback] = <<status, bytesRead>>]
  BY <1>2 DEF Invoke
<1>4. /\ frames # <<>> /\ StepAt(Top) \in Loops /\ Callback \in SignUps /\ Callback # NoOne
      /\ Callback = ListOf(Top, callbacks)[Top.next]
      /\ \A s : Waits(s, Top, callbacks) <=>
            s = Callback \/ \E i \in Top.next + 1 .. Top.end : ListOf(Top, callbacks)[i] = s
      /\ ~\E i \in Top.next + 1 .. Top.end : ListOf(Top, callbacks)[i] = Callback
  BY <1>1, CallbackIsSigned
<1>5. Top \in Call /\ CallOK(Top, callbacks) /\ Top = frames[1] /\ Top.next \in Nat /\ Top.end \in Nat
      /\ frames \in Seq(Call) /\ 1 \in DOMAIN frames
  BY <1>4, Innermost, LenProperties DEF Basics, CTypes
<1>6. frames' = [frames EXCEPT ![1] = c]
  BY <1>3, <1>5
<1>7. /\ c \in Call /\ c.status = Top.status /\ c.steps = Top.steps /\ c.running = Callback /\ c.end = Top.end
      /\ c.next = Top.next
  BY <1>4, <1>5 DEF Call
<1> HIDE DEF c
<1>8. Atop(frames', c, Tail(frames))
  BY <1>4, <1>5, <1>6, <1>7, ChangedAtop
<1>9. StepAt(c) = StepAt(Top) /\ ListOf(c, callbacks) = ListOf(Top, callbacks) /\ Left(c) = Top.next + 1 .. Top.end
  BY <1>4, <1>7 DEF StepAt, ListOf, Left
<1>10. CallOK(c, callbacks)
  BY <1>1, <1>4, <1>5, <1>7, <1>9 DEF CallOK
<1>11. ASSUME NEW s PROVE Waits(s, c, callbacks) <=> Waits(s, Top, callbacks) /\ s # Callback
  BY <1>4, <1>9 DEF Waits
<1> QED
  BY <1>1, <1>2, <1>3, <1>7, <1>8, <1>10, <1>11 DEF Moved

\* A callback that returns leaves the loop with those it had left.
LEMMA CallbackReturnsDoes ==
    ASSUME Basics, CallbackReturns
    PROVE  /\ frames # <<>>
           /\ \E c : /\ Atop(frames', c, Tail(frames)) /\ CallOK(c, callbacks) /\ Moved(c)
                     /\ \A s : Waits(s, c, callbacks) <=> Waits(s, Top, callbacks)
<1> DEFINE c == [Top EXCEPT !.running = NoOne, !.next = Top.next + 1]
<1>1. frames # <<>> /\ Top.running # NoOne
      /\ frames' = [frames EXCEPT ![1].running = NoOne, ![1].next = @ + 1]
  BY DEF CallbackReturns
<1>2. Top \in Call /\ CallOK(Top, callbacks) /\ Top = frames[1] /\ Top.next \in Nat /\ Top.end \in Nat
      /\ frames \in Seq(Call) /\ 1 \in DOMAIN frames /\ frames # <<>>
  BY <1>1, Innermost, LenProperties DEF Basics, CTypes
<1>3. frames' = [frames EXCEPT ![1] = c]
  BY <1>1, <1>2 DEF Call
<1>4. /\ c \in Call /\ c.status = Top.status /\ c.steps = Top.steps /\ c.running = NoOne /\ c.end = Top.end
      /\ c.next = Top.next + 1
  <2> DEFINE b == [Top EXCEPT !.running = NoOne]
  <2>1. /\ b \in Call /\ b.status = Top.status /\ b.steps = Top.steps /\ b.running = NoOne /\ b.end = Top.end
        /\ b.next = Top.next
    BY <1>2 DEF Call
  <2>2. c = [b EXCEPT !.next = b.next + 1]
    BY <1>2, <2>1 DEF Call
  <2>3. b.next \in Nat /\ b.next + 1 \in Nat /\ b.next + 1 = Top.next + 1
    BY <1>2, <2>1
  <2> HIDE DEF b, c
  <2>4. c \in Call
    BY <2>1, <2>2, <2>3 DEF Call
  <2> QED
    BY <2>1, <2>2, <2>3 DEF Call
<1> HIDE DEF c
<1>5. Atop(frames', c, Tail(frames))
  BY <1>2, <1>3, <1>4, ChangedAtop
<1>6. StepAt(c) = StepAt(Top) /\ ListOf(c, callbacks) = ListOf(Top, callbacks) /\ Left(c) = Left(Top)
  BY <1>1, <1>4 DEF StepAt, ListOf, Left
<1>7. CallOK(c, callbacks)
  BY <1>1, <1>2, <1>4, <1>6 DEF CallOK
<1>8. ASSUME NEW s PROVE Waits(s, c, callbacks) <=> Waits(s, Top, callbacks)
  BY <1>6 DEF Waits
<1> QED
  BY <1>1, <1>4, <1>5, <1>7, <1>8 DEF Moved

\* Whoever is told from now on has signed up and is owed one call more.
Owes(c) ==
    \A x \in SignUps :
        /\ Waits(x, c, callbacks) => x \in Signed
        /\ due'[x] = due[x] + IF Waits(x, c, callbacks) THEN 1 ELSE 0

\* A call that is through with a step comes to the next, and behind its last loop
\* it is over; the loop of status callbacks is for all who are signed up then.
LEMMA ReturnDoes ==
    ASSUME Basics, frames # <<>>, frames' = Return(frames)
    PROVE  \/ StepAt(Top) \in {"tell", "tellBytes"} /\ frames' = Tail(frames)
           \/ /\ StepAt(Top) \notin {"tell", "tellBytes"}
              /\ \E c : /\ Atop(frames', c, Tail(frames)) /\ CallOK(c, callbacks)
                        /\ c.status = Top.status /\ StepAt(c) = Head(Tail(Top.steps))
                        /\ \A x \in SignUps : Waits(x, c, callbacks) <=>
                              StepAt(Top) = "assign" /\ x \in Signed /\ x.event = "StatusChange"
<1> DEFINE rest == Tail(Top.steps)
           c == Frame(Top.status, rest)
<1>1. Top.status \in Settable /\ Top.steps \in StepsLeft(Top.status) /\ Tail(frames) \in Seq(Call)
  BY Innermost
<1>2. frames' = IF rest = <<>> THEN Tail(frames) ELSE <<c>> \o Tail(frames)
  BY DEF Return, Top
<1>3. CASE StepAt(Top) \in {"tell", "tellBytes"}
  BY <1>1, <1>2, <1>3, StepsGoOn DEF StepAt
<1>4. CASE StepAt(Top) \notin {"tell", "tellBytes"}
  <2>1. /\ rest # <<>> /\ rest \in StepsLeft(Top.status)
        /\ StepAt(Top) = "assign" => Head(rest) = "tell"
        /\ StepAt(Top) # "assign" => Head(rest) \in {"close", "remove", "assign"}
    BY <1>1, <1>4, StepsGoOn DEF StepAt
  <2>2. /\ c \in Call /\ CallOK(c, callbacks) /\ c.status = Top.status /\ StepAt(c) = Head(rest)
        /\ \A x \in SignUps : Waits(x, c, callbacks) <=>
              Head(rest) \in Loops /\ x \in Signed /\ x.event = ListAt(Head(rest), Top.status)
    BY <1>1, <2>1, FrameBegins DEF Basics
  <2> HIDE DEF c, rest
  <2>3. Atop(frames', c, Tail(frames))
    BY <1>1, <1>2, <2>1, <2>2, PushedAtop
  <2>4. Head(rest) = "tell" => Head(rest) \in Loops /\ ListAt(Head(rest), Top.status) = "StatusChange"
    BY DEF Loops, ListAt
  <2>5. Head(rest) \in {"close", "remove", "assign"} => Head(rest) \notin Loops
    BY DEF Loops
  <2>6. \A x \in SignUps : Waits(x, c, callbacks) <=> StepAt(Top) = "assign" /\ x \in Signed /\ x.event = "StatusChange"
    BY <2>1, <2>2, <2>4, <2>5
  <2> QED
    BY <1>4, <2>2, <2>3, <2>6 DEF rest
<1> QED
  BY <1>3, <1>4

\* A step that returns leaves nobody to tell.
LEMMA NobodyLeft ==
    ASSUME Basics, EndLoop \/ Close \/ RemoveFile \/ Assign
    PROVE  frames # <<>> /\ frames' = Return(frames) /\ \A s : ~Waits(s, Top, callbacks)
<1>1. CASE EndLoop
  <2>1. frames # <<>> /\ frames' = Return(frames) /\ Top.running = NoOne /\ Top.next > Top.end
    BY <1>1 DEF EndLoop, Looping, Top
  <2>2. Left(Top) = {}
    BY <2>1, Innermost DEF Left
  <2> QED
    BY <2>1, <2>2 DEF Waits
<1>2. CASE Close \/ RemoveFile \/ Assign
  <2>1. frames # <<>> /\ frames' = Return(frames) /\ StepAt(Top) \in {"close", "remove", "assign"}
    BY <1>2 DEF Close, RemoveFile, Assign, At, StepAt
  <2> QED
    BY <2>1 DEF Waits, Loops
<1> QED
  BY <1>1, <1>2

\* setStatus begins within the calls under way, owing a call to all who signed up
\* for its event.
LEMMA SetStatusDoes ==
    ASSUME Basics, NEW s \in Statuses, SetStatus(s)
    PROVE  \E c : /\ Atop(frames', c, frames) /\ CallOK(c, callbacks) /\ Owes(c)
                  /\ c.status = s /\ StepAt(c) = Head(StepsOf(s))
<1> DEFINE c == Frame(s, StepsOf(s))
<1>1. /\ StepsOf(s) \in StepsLeft(s) /\ Head(StepsOf(s)) = IF s \in DOMAIN EventOf THEN "notify" ELSE "assign"
      /\ s \in Settable
  BY StepsBegin DEF Settable
<1>2. /\ c \in Call /\ CallOK(c, callbacks) /\ c.status = s /\ StepAt(c) = Head(StepsOf(s))
      /\ \A x \in SignUps : Waits(x, c, callbacks) <=>
            Head(StepsOf(s)) \in Loops /\ x \in Signed /\ x.event = ListAt(Head(StepsOf(s)), s)
  BY <1>1, FrameBegins DEF Basics
<1>3. frames' = <<c>> \o frames /\ due' = IF s \in DOMAIN EventOf
                                         THEN [x \in SignUps |-> IF x \in Signed /\ x.event = EventOf[s]
                                                                 THEN due[x] + 1 ELSE due[x]]
                                         ELSE due
  BY DEF SetStatus, Owe
<1> HIDE DEF c
<1>4. Atop(frames', c, frames)
  BY <1>2, <1>3, PushedAtop DEF Basics, CTypes
<1>5. "notify" \in Loops /\ "assign" \notin Loops /\ ListAt("notify", s) = EventOf[s]
  BY DEF Loops, ListAt
<1>6. \A x \in SignUps : due[x] \in Nat
  BY DEF Basics, CTypes
<1>7. CASE s \in DOMAIN EventOf
  <2>1. \A x \in SignUps : Waits(x, c, callbacks) <=> x \in Signed /\ x.event = EventOf[s]
    BY <1>1, <1>2, <1>5, <1>7
  <2>2. Owes(c)
    BY <1>3, <1>6, <1>7, <2>1 DEF Owes
  <2> QED
    BY <1>2, <1>4, <2>2
<1>8. CASE s \notin DOMAIN EventOf
  <2>1. \A x \in SignUps : ~Waits(x, c, callbacks)
    BY <1>1, <1>2, <1>5, <1>8
  <2>2. Owes(c)
    BY <1>3, <1>6, <1>8, <2>1 DEF Owes
  <2> QED
    BY <1>2, <1>4, <2>2
<1> QED
  BY <1>7, <1>8

\* So does addResponseData, when no other call is under way.
LEMMA ReceiveDoes ==
    ASSUME Basics, Receive
    PROVE  \E c : /\ Atop(frames', c, frames) /\ CallOK(c, callbacks) /\ Owes(c)
                  /\ c.status = "none" /\ StepAt(c) = "tellBytes"
                  /\ \A x \in SignUps : Waits(x, c, callbacks) <=> x \in Signed /\ x.event = "BytesRead"
<1> DEFINE c == Frame("none", <<"tellBytes">>)
<1>1. <<"tellBytes">> \in StepsLeft("none") /\ Head(<<"tellBytes">>) = "tellBytes" /\ "none" \in Settable
      /\ "tellBytes" \in Loops /\ ListAt("tellBytes", "none") = "BytesRead"
  BY Rests DEF StepsLeft, Settable, Loops, ListAt
<1>2. /\ c \in Call /\ CallOK(c, callbacks) /\ c.status = "none" /\ StepAt(c) = "tellBytes"
      /\ \A x \in SignUps : Waits(x, c, callbacks) <=> x \in Signed /\ x.event = "BytesRead"
  BY <1>1, FrameBegins DEF Basics
<1>3. /\ frames = <<>> /\ frames' = <<c>>
      /\ due' = [x \in SignUps |-> IF x \in Signed /\ x.event = "BytesRead" THEN due[x] + 1 ELSE due[x]]
  BY DEF Receive, Between, Owe
<1> HIDE DEF c
<1>4. frames' = <<c>> \o frames
  BY <1>2, <1>3
<1>5. Atop(frames', c, frames)
  BY <1>2, <1>4, PushedAtop DEF Basics, CTypes
<1>6. \A x \in SignUps : due[x] \in Nat
  BY DEF Basics, CTypes
<1>7. Owes(c)
  BY <1>2, <1>3, <1>6 DEF Owes
<1> QED
  BY <1>2, <1>5, <1>7

\* Assigning the status owes a call to all who signed up for a change.
LEMMA AssignDoes ==
    ASSUME Basics, Assign
    PROVE  /\ frames # <<>> /\ StepAt(Top) = "assign" /\ status' = Top.status
           /\ \E c : /\ Atop(frames', c, Tail(frames)) /\ CallOK(c, callbacks) /\ Owes(c)
                     /\ c.status = Top.status /\ StepAt(c) = "tell"
                     /\ \A x \in SignUps : Waits(x, c, callbacks) <=> x \in Signed /\ x.event = "StatusChange"
<1>1. /\ frames # <<>> /\ StepAt(Top) = "assign" /\ status' = Top.status /\ frames' = Return(frames)
      /\ due' = [x \in SignUps |-> IF x \in Signed /\ x.event = "StatusChange" THEN due[x] + 1 ELSE due[x]]
  BY DEF Assign, At, StepAt, Owe
<1>2. PICK c : /\ Atop(frames', c, Tail(frames)) /\ CallOK(c, callbacks)
               /\ c.status = Top.status /\ StepAt(c) = Head(Tail(Top.steps))
               /\ \A x \in SignUps : Waits(x, c, callbacks) <=> x \in Signed /\ x.event = "StatusChange"
  BY <1>1, ReturnDoes
<1>3. Top.status \in Settable /\ Top.steps \in StepsLeft(Top.status)
  BY <1>1, Innermost
<1>4. Head(Tail(Top.steps)) = "tell"
  BY <1>1, <1>3, StepsGoOn DEF StepAt
<1>5. \A x \in SignUps : due[x] \in Nat
  BY DEF Basics, CTypes
<1>6. Owes(c)
  BY <1>1, <1>2, <1>5 DEF Owes
<1> QED
  BY <1>1, <1>2, <1>4, <1>6

-----------------------------------------------------------------------------
(* Types, lists and calls are kept. *)

\* A sign-up makes its list longer, and no loop that is under way.
LEMMA SignUpDoes ==
    ASSUME Basics, NEW s \in SignUps, SignUp(s)
    PROVE  /\ s \notin Signed /\ Signed' = Signed \union {s}
           /\ callbacks' \in [Events -> Seq(SignUps)] /\ Enlisted'
           /\ \A c \in Call : CallOK(c, callbacks) =>
                 CallOK(c, callbacks') /\ \A x : Waits(x, c, callbacks') <=> Waits(x, c, callbacks)
           /\ UNCHANGED <<frames, members, held, work, history>>
<1> DEFINE e == s.event
<1>1. /\ e \in Events /\ s \notin Signed /\ callbacks' = [callbacks EXCEPT ![e] = Append(@, s)]
      /\ UNCHANGED <<frames, members, held, work, history>>
  BY CallbacksAssumption
  DEF SignUp, SignupForBytesReadChange, SignupForFinished, SignupForStatusChange, SignupForPaused, SignupForResumed,
      SignupForCancelled, SignupForFailed, Enlist
<1> HIDE DEF e
<1>2. callbacks \in [Events -> Seq(SignUps)] /\ \A f \in Events : Len(callbacks[f]) \in Nat
  BY LenProperties DEF Basics, CTypes
<1>3. /\ callbacks'[e] \in Seq(SignUps) /\ Len(callbacks'[e]) = Len(callbacks[e]) + 1
      /\ \A i \in 1 .. Len(callbacks[e]) : callbacks'[e][i] = callbacks[e][i]
      /\ callbacks'[e][Len(callbacks[e]) + 1] = s
  <2>1. callbacks'[e] = Append(callbacks[e], s)
    BY <1>1, <1>2
  <2> QED
    BY <1>1, <1>2, <2>1, AppendProperties
<1>4. \A f \in Events : f # e => callbacks'[f] = callbacks[f]
  BY <1>1, <1>2
<1>5. callbacks' \in [Events -> Seq(SignUps)]
  BY <1>1, <1>2, <1>3
<1>6. 1 .. Len(callbacks'[e]) = 1 .. Len(callbacks[e]) \union {Len(callbacks[e]) + 1}
  BY <1>1, <1>2, <1>3
<1>7. ToSet(callbacks'[e]) = ToSet(callbacks[e]) \union {s}
  <2>1. /\ ToSet(callbacks[e]) = {callbacks[e][i] : i \in 1 .. Len(callbacks[e])}
        /\ ToSet(callbacks'[e]) = {callbacks'[e][i] : i \in 1 .. Len(callbacks'[e])}
    BY <1>1, <1>2, <1>3, LenProperties DEF ToSet
  <2> QED
    BY <1>3, <1>6, <2>1, SMTT(30)
<1>8. Signed' = Signed \union {s}
  BY <1>1, <1>4, <1>7 DEF Signed
<1>9. Enlisted'
  <2> SUFFICES ASSUME NEW f \in Events, NEW i \in 1 .. Len(callbacks'[f])
               PROVE  /\ callbacks'[f][i].event = f
                      /\ \A k \in 1 .. Len(callbacks'[f]) : callbacks'[f][k] = callbacks'[f][i] => k = i
    BY DEF Enlisted
  <2>1. CASE f # e
    <3>1. callbacks'[f] = callbacks[f]
      BY <1>4, <2>1
    <3> QED
      BY <3>1 DEF Basics, Enlisted
  <2>2. CASE f = e
    <3>1. \A k \in 1 .. Len(callbacks[e]) : callbacks[e][k] # s
      <4>1. s \in Signed /\ s.event = e <=> \E k \in 1 .. Len(callbacks[e]) : callbacks[e][k] = s
        BY <1>1, SignedIsListed DEF Basics
      <4> QED
        BY <1>1, <4>1
    <3>2. s.event = e
      BY DEF e
    <3>3. /\ \A k \in 1 .. Len(callbacks[e]) : callbacks[e][k].event = e
          /\ \A k, n \in 1 .. Len(callbacks[e]) : callbacks[e][k] = callbacks[e][n] => k = n
      BY <1>1 DEF Basics, Enlisted
    <3> QED
      BY <1>3, <1>6, <2>2, <3>1, <3>2, <3>3
  <2> QED
    BY <2>1, <2>2
<1>10. ASSUME NEW c \in Call, CallOK(c, callbacks)
       PROVE  CallOK(c, callbacks') /\ \A x : Waits(x, c, callbacks') <=> Waits(x, c, callbacks)
  <2>1. c.status \in Settable /\ c.steps \in StepsLeft(c.status) /\ c.next \in Nat \ {0} /\ c.end \in Nat
    BY <1>10 DEF Call, CallOK
  <2>2. CASE StepAt(c) \notin Loops
    BY <1>10, <2>2 DEF CallOK, Waits
  <2>3. CASE StepAt(c) \in Loops
    <3> DEFINE f == ListAt(StepAt(c), c.status)
    <3>1. f \in Events
      BY <2>1, <2>3, StepsGoOn, LoopsHaveLists DEF StepAt, Loops
    <3>2. ListOf(c, callbacks) = callbacks[f] /\ ListOf(c, callbacks') = callbacks'[f]
      BY DEF ListOf
    <3> HIDE DEF f
    <3>3. Len(callbacks'[f]) >= Len(callbacks[f]) /\ \A i \in 1 .. Len(callbacks[f]) : callbacks'[f][i] = callbacks[f][i]
      BY <1>2, <1>3, <1>4, <3>1
    <3>4. c.end <= Len(callbacks[f]) /\ c.next <= c.end + 1
      BY <1>10, <2>3, <3>2 DEF CallOK
    <3>5. Len(callbacks[f]) \in Nat /\ Len(callbacks'[f]) \in Nat
      BY <1>2, <1>5, <3>1, LenProperties
    <3>6. \A i \in 1 .. c.end : callbacks'[f][i] = callbacks[f][i]
      BY <2>1, <3>3, <3>4, <3>5
    <3>7. CallOK(c, callbacks')
      BY <1>10, <2>1, <2>3, <3>2, <3>3, <3>4, <3>5, <3>6 DEF CallOK
    <3>8. Left(c) \subseteq 1 .. c.end
      BY <2>1 DEF Left
    <3> QED
      BY <2>3, <3>2, <3>6, <3>7, <3>8 DEF Waits
  <2> QED
    BY <2>2, <2>3
<1> QED
  BY <1>1, <1>5, <1>8, <1>9, <1>10

\* Every call that begins, goes on or ends leaves the stack in order.
LEMMA StackKept ==
    ASSUME Basics, UNCHANGED callbacks,
           \/ UNCHANGED frames
           \/ frames # <<>> /\ frames' = Tail(frames)
           \/ frames # <<>> /\ \E c : Atop(frames', c, Tail(frames)) /\ CallOK(c, callbacks) /\ c.status = Top.status
           \/ \E c : Atop(frames', c, frames) /\ CallOK(c, callbacks) /\ (c.status # "none" \/ frames = <<>>)
    PROVE  frames' \in Seq(Call) /\ Calls'
<1>1. CASE UNCHANGED frames
  BY <1>1 DEF Basics, CTypes, Calls
<1>2. CASE frames # <<>> /\ frames' = Tail(frames)
  BY <1>2, Innermost DEF Calls
<1>3. ASSUME frames # <<>>,
             NEW c, Atop(frames', c, Tail(frames)), CallOK(c, callbacks), c.status = Top.status
      PROVE  frames' \in Seq(Call) /\ Calls'
  <2>1. CallsOK(Tail(frames), callbacks) /\ (Top.status = "none" => Len(frames) = 1)
        /\ Len(frames) = Len(Tail(frames)) + 1
    BY <1>3, Innermost DEF Atop
  <2>2. frames' \in Seq(Call) /\ Len(frames') = Len(Tail(frames)) + 1
    BY <1>3 DEF Atop
  <2>3. CallsOK(frames', callbacks)
    BY <1>3, <2>1, <2>2, CallsAtop
  <2> QED
    BY <2>2, <2>3 DEF Calls
<1>4. ASSUME NEW c, Atop(frames', c, frames), CallOK(c, callbacks), c.status # "none" \/ frames = <<>>
      PROVE  frames' \in Seq(Call) /\ Calls'
  <2>1. frames' \in Seq(Call) /\ Len(frames') = Len(frames) + 1 /\ (frames = <<>> => Len(frames) = 0)
    BY <1>4, EmptySeq DEF Atop
  <2>2. CallsOK(frames, callbacks) /\ (c.status = "none" => Len(frames') = 1)
    BY <1>4, <2>1 DEF Basics, Calls
  <2>3. CallsOK(frames', callbacks)
    BY <1>4, <2>2, CallsAtop
  <2> QED
    BY <1>4, <2>1, <2>3 DEF Calls
<1> QED
  BY <1>1, <1>2, <1>3, <1>4

\* A step that changes neither the request nor its calls: at most an object went
\* away, or the program died.
Quiet == UNCHANGED <<callbacks, frames, members, history>> /\ held' \subseteq held

\* What a step may be.
LEMMA Steps ==
    ASSUME [Next]_vars, fault' = "none"
    PROVE  /\ fault = "none"
           /\ \/ Quiet
              \/ \E s \in SignUps : SignUp(s)
              \/ \E s \in Statuses : SetStatus(s)
              \/ Receive \/ Skip \/ Invoke \/ CallbackReturns \/ EndLoop \/ Close \/ RemoveFile \/ Assign
<1>1. CASE UNCHANGED vars
  BY <1>1 DEF vars, Quiet
<1>2. CASE Over
  BY <1>2 DEF Over, vars, Quiet
<1>3. CASE fault = "none" /\ Inside
  BY <1>3 DEF Inside
<1>4. CASE fault = "none" /\ Processing
  <2>1. CASE Look
    BY <1>4, <2>1 DEF Look, Quiet
  <2>2. CASE Proceed
    <3>1. SetStatus(work') /\ work' \in {"Processed", "Writing", "Reading"}
      BY <2>2 DEF Proceed, ToStage
    <3> QED
      BY <1>4, <3>1 DEF Statuses
  <2>3. CASE Finish \/ GiveUp
    BY <1>4, <2>3 DEF Finish, GiveUp, ToStage, Statuses
  <2> QED
    BY <1>4, <2>1, <2>2, <2>3 DEF Processing
<1>5. CASE fault = "none" /\ User
  <2>1. CASE Cancel \/ PauseProcessing \/ ContinueProcessing
    BY <1>5, <2>1 DEF Cancel, PauseProcessing, ContinueProcessing, UserCall, Statuses
  <2>2. CASE \E s \in SignUps : LetGo(s)
    BY <1>5, <2>2 DEF LetGo, Quiet
  <2> QED
    BY <1>5, <2>1, <2>2 DEF User
<1> QED
  BY <1>1, <1>2, <1>3, <1>4, <1>5 DEF Next

\* One step keeps the types, the lists and the calls in order.
LEMMA BasicsStep ==
    ASSUME Basics, [Next]_vars, fault' = "none"
    PROVE  Basics'
<1> DEFINE Records == /\ status' \in Statuses /\ outermost' \in Statuses /\ bytesRead' \in Nat
                      /\ {canceled', exists', answered'} \subseteq BOOLEAN /\ held' \subseteq SignUps
                      /\ due' \in [SignUps -> Nat] /\ times' \in [SignUps -> Nat]
                      /\ last' \in [SignUps -> Statuses \X Nat]
<1>1. ASSUME UNCHANGED callbacks PROVE callbacks' \in [Events -> Seq(SignUps)] /\ Enlisted'
  BY <1>1 DEF Basics, CTypes, Enlisted
<1>2. ASSUME callbacks' \in [Events -> Seq(SignUps)], Enlisted', frames' \in Seq(Call), Calls', Records
      PROVE  Basics'
  BY <1>2 DEF Basics, CTypes
<1>3. ASSUME UNCHANGED <<callbacks, status, outermost, bytesRead, canceled, exists, answered, due, times, last>>,
             held' \subseteq held
      PROVE  Records
  BY <1>3 DEF Basics, CTypes
<1> HIDE DEF Records
<1>4. CASE Quiet
  BY <1>1, <1>2, <1>3, <1>4, StackKept DEF Quiet, members, history
<1>5. ASSUME NEW s \in SignUps, SignUp(s) PROVE Basics'
  <2>1. /\ callbacks' \in [Events -> Seq(SignUps)] /\ Enlisted'
        /\ \A c \in Call : CallOK(c, callbacks) => CallOK(c, callbacks')
        /\ UNCHANGED <<frames, members, held, work, history>>
    BY <1>5, SignUpDoes
  <2>2. \A d \in 1 .. Len(frames) : Deep(frames, d) \in Call
    <3>1. Len(frames) \in Nat /\ \A d \in 1 .. Len(frames) : Len(frames) + 1 - d \in 1 .. Len(frames)
      BY LenProperties DEF Basics, CTypes
    <3> QED
      BY <3>1, ElementOfSeq DEF Deep, Basics, CTypes
  <2>3. frames' \in Seq(Call) /\ Calls'
    BY <2>1, <2>2 DEF Basics, CTypes, Calls, CallsOK
  <2>4. Records
    BY <2>1 DEF Records, Basics, CTypes, members, history
  <2> QED
    BY <1>2, <2>1, <2>3, <2>4
<1>6. ASSUME NEW s \in Statuses, SetStatus(s) PROVE Basics'
  <2>1. frames' \in Seq(Call) /\ Calls'
    <3>1. s # "none" /\ UNCHANGED callbacks
      BY <1>6 DEF Statuses, SetStatus
    <3> QED
      BY <1>6, <3>1, SetStatusDoes, StackKept
  <2>2. due' \in [SignUps -> Nat]
    <3>1. due \in [SignUps -> Nat]
      BY DEF Basics, CTypes
    <3>2. (\E e : Owe(e)) \/ UNCHANGED due
      BY <1>6 DEF SetStatus
    <3>3. ASSUME NEW e, Owe(e) PROVE due' \in [SignUps -> Nat]
      BY <3>1, <3>3 DEF Owe
    <3> QED
      BY <3>1, <3>2, <3>3
  <2>3. outermost' \in Statuses /\ {canceled', answered'} \subseteq BOOLEAN
    BY <1>6 DEF SetStatus, Basics, CTypes
  <2>4. UNCHANGED <<callbacks, status, bytesRead, exists, held, times, last>>
    BY <1>6 DEF SetStatus
  <2>5. Records
    BY <2>2, <2>3, <2>4 DEF Records, Basics, CTypes
  <2> QED
    BY <1>1, <1>2, <2>1, <2>4, <2>5
<1>7. CASE Receive
  <2>1. frames' \in Seq(Call) /\ Calls'
    BY <1>7, ReceiveDoes, StackKept DEF Receive, Between
  <2>2. due' \in [SignUps -> Nat]
    BY <1>7 DEF Receive, Owe, Basics, CTypes
  <2>3. bytesRead' \in Nat /\ exists' = TRUE
        /\ UNCHANGED <<callbacks, status, canceled, held, times, last, outermost, answered>>
    BY <1>7 DEF Receive, Basics, CTypes
  <2>4. Records
    BY <2>2, <2>3 DEF Records, Basics, CTypes
  <2> QED
    BY <1>1, <1>2, <2>1, <2>3, <2>4
<1>8. CASE Skip \/ CallbackReturns
  <2>1. frames # <<>>
    BY <1>8 DEF Skip, Looping, CallbackReturns
  <2>2. UNCHANGED <<callbacks, status, outermost, bytesRead, canceled, exists, answered, due, times, last, held>>
    BY <1>8 DEF Skip, CallbackReturns, members, history
  <2>3. frames' \in Seq(Call) /\ Calls'
    BY <1>8, <2>1, <2>2, SkipDoes, CallbackReturnsDoes, StackKept DEF Moved
  <2> QED
    BY <1>1, <1>2, <1>3, <2>2, <2>3
<1>9. CASE Invoke
  <2>1. fault = "none" /\ frames # <<>> /\ UNCHANGED <<callbacks, members, held, due, outermost, answered>>
    BY <1>9, Steps DEF Invoke, Looping
  <2>2. frames' \in Seq(Call) /\ Calls'
    BY <1>9, <2>1, InvokeDoes, StackKept DEF Moved
  <2>3. /\ Looping /\ Top.next <= Top.end
        /\ times' = [times EXCEPT ![Callback] = @ + 1]
        /\ last' = [last EXCEPT ![Callback] = <<status, bytesRead>>]
    BY <1>9, <2>1, InvokeDoes
  <2>4. Callback \in SignUps
    BY <2>3, CallbackIsSigned
  <2>5. times' \in [SignUps -> Nat]
    BY <2>3, <2>4 DEF Basics, CTypes
  <2>6. last' \in [SignUps -> Statuses \X Nat]
    BY <2>3, <2>4 DEF Basics, CTypes
  <2>7. Records
    BY <2>1, <2>5, <2>6 DEF Records, Basics, CTypes, members
  <2> QED
    BY <1>1, <1>2, <2>1, <2>2, <2>7
<1>10. CASE EndLoop \/ Close \/ RemoveFile \/ Assign
  <2>1. frames # <<>> /\ frames' = Return(frames)
    BY <1>10, NobodyLeft
  <2>2. UNCHANGED callbacks
    BY <1>10 DEF EndLoop, Close, RemoveFile, Assign
  <2>3. frames' \in Seq(Call) /\ Calls'
    BY <2>1, <2>2, ReturnDoes, StackKept
  <2>4. CASE EndLoop
    <3>1. UNCHANGED <<status, outermost, bytesRead, canceled, exists, answered, due, times, last, held>>
      BY <2>4 DEF EndLoop, members, history
    <3> QED
      BY <1>1, <1>2, <1>3, <2>2, <2>3, <3>1
  <2>5. CASE Close \/ RemoveFile
    <3>1. exists' \in BOOLEAN /\ UNCHANGED <<status, outermost, bytesRead, canceled, answered, due, times, last, held>>
      BY <2>5 DEF Close, RemoveFile, history, Basics, CTypes
    <3>2. Records
      BY <3>1 DEF Records, Basics, CTypes
    <3> QED
      BY <1>1, <1>2, <2>2, <2>3, <3>2
  <2>6. CASE Assign
    <3>1. due' \in [SignUps -> Nat]
      BY <2>6 DEF Assign, Owe, Basics, CTypes
    <3>2. status' = Top.status /\ UNCHANGED <<outermost, bytesRead, canceled, exists, answered, times, last, held>>
      BY <2>6 DEF Assign
    <3>3. Top.status \in Statuses
      <4>1. StepAt(Top) = "assign"
        BY <2>6 DEF Assign, At, StepAt
      <4>2. Top.status \in Settable /\ Top.steps \in StepsLeft(Top.status)
        BY <2>1, Innermost
      <4>3. Top.status # "none"
        BY <4>1, <4>2, StepsGoOn DEF StepAt
      <4> QED
        BY <4>2, <4>3 DEF Settable
    <3>4. Records
      BY <3>1, <3>2, <3>3 DEF Records, Basics, CTypes
    <3> QED
      BY <1>1, <1>2, <2>2, <2>3, <3>4
  <2> QED
    BY <1>10, <2>4, <2>5, <2>6
<1> QED
  BY <1>4, <1>5, <1>6, <1>7, <1>8, <1>9, <1>10, Steps

-----------------------------------------------------------------------------
(* Everyone is told. *)

PendingAt(s) == PendingIn(s, frames, callbacks)

\* Of the calls that are due to a listener, those that were not made are waited for
\* in the calls under way; nobody is owed anything before signing up.
Told == \A s \in SignUps : Listening(s) => times[s] + Cardinality(PendingAt(s)) = due[s]
Unsigned == \A s \in SignUps \ Signed : times[s] = 0 /\ due[s] = 0

\* Who was called and saw something else than there is to see is waited for.
UpToDate(s) ==
    /\ s.event = "StatusChange" => last[s][1] = status
    /\ s.event = "BytesRead" => last[s][2] = bytesRead
NotBehind == \A s \in SignUps : Listening(s) /\ times[s] > 0 /\ PendingAt(s) = {} => UpToDate(s)

Telling == Told /\ Unsigned /\ NotBehind

\* A loop waits for nobody who has not signed up.
LEMMA WaitingSigned ==
    ASSUME Basics, NEW s, s \notin Signed
    PROVE  PendingAt(s) = {}
<1> SUFFICES ASSUME NEW d \in 1 .. Len(frames), Waits(s, Deep(frames, d), callbacks)
             PROVE  FALSE
  BY DEF PendingAt, PendingIn
<1> DEFINE c == Deep(frames, d)
           e == ListAt(StepAt(c), c.status)
<1>1. Len(frames) \in Nat /\ Len(frames) + 1 - d \in 1 .. Len(frames)
  BY LenProperties DEF Basics, CTypes
<1>2. c \in Call
  BY <1>1, ElementOfSeq DEF Deep, Basics, CTypes
<1>3. CallOK(c, callbacks)
  BY DEF Basics, Calls, CallsOK
<1>4. c.status \in Settable /\ c.steps \in StepsLeft(c.status) /\ c.next \in Nat \ {0} /\ c.end \in Nat
  BY <1>2, <1>3 DEF Call, CallOK
<1> HIDE DEF c
<1>5. StepAt(c) \in Loops /\ e \in Events
  BY <1>4, StepsGoOn, LoopsHaveLists DEF StepAt, Loops, Waits, c
<1>6. PICK i \in Left(c) : callbacks[e][i] = s
  BY DEF Waits, ListOf, c
<1>7. c.end <= Len(callbacks[e]) /\ Len(callbacks[e]) \in Nat
  BY <1>3, <1>5, LenProperties DEF CallOK, ListOf, Basics, CTypes
<1>8. i \in 1 .. Len(callbacks[e])
  BY <1>4, <1>6, <1>7 DEF Left
<1> QED
  BY <1>5, <1>6, <1>8, SignedIsListed DEF Basics

\* What a change of the innermost call changes for those it waits for.
LEMMA TopChange ==
    ASSUME Basics, frames # <<>>, UNCHANGED callbacks, NEW c, Atop(frames', c, Tail(frames)), NEW s
    PROVE  /\ Cardinality(PendingAt(s)) \in Nat /\ Cardinality(PendingAt(s)') \in Nat
           /\ Cardinality(PendingAt(s)') + (IF Waits(s, Top, callbacks) THEN 1 ELSE 0)
                 = Cardinality(PendingAt(s)) + (IF Waits(s, c, callbacks) THEN 1 ELSE 0)
           /\ PendingAt(s) = {} <=> PendingIn(s, Tail(frames), callbacks) = {} /\ ~Waits(s, Top, callbacks)
           /\ PendingAt(s)' = {} <=> PendingIn(s, Tail(frames), callbacks) = {} /\ ~Waits(s, c, callbacks)
<1> DEFINE old == PendingIn(s, frames, callbacks)
           new == PendingIn(s, frames', callbacks)
           rest == PendingIn(s, Tail(frames), callbacks)
<1>1. Atop(frames, Top, Tail(frames))
  BY Innermost
<1>2. /\ old = rest \union IF Waits(s, Top, callbacks) THEN {Len(frames)} ELSE {}
      /\ Cardinality(rest) \in Nat
      /\ Cardinality(old) = Cardinality(rest) + IF Waits(s, Top, callbacks) THEN 1 ELSE 0
  BY <1>1, CountAtop
<1>3. /\ new = rest \union IF Waits(s, c, callbacks) THEN {Len(frames')} ELSE {}
      /\ Cardinality(new) = Cardinality(rest) + IF Waits(s, c, callbacks) THEN 1 ELSE 0
  BY CountAtop
<1>4. PendingAt(s) = old /\ PendingAt(s)' = new
  BY DEF PendingAt
<1> HIDE DEF old, new, rest
<1>5. Cardinality(old) \in Nat /\ Cardinality(new) \in Nat
  BY <1>2, <1>3
<1>6. Cardinality(new) + (IF Waits(s, Top, callbacks) THEN 1 ELSE 0)
        = Cardinality(old) + (IF Waits(s, c, callbacks) THEN 1 ELSE 0)
  BY <1>2, <1>3
<1>7. /\ old = {} <=> rest = {} /\ ~Waits(s, Top, callbacks)
      /\ new = {} <=> rest = {} /\ ~Waits(s, c, callbacks)
  BY <1>2, <1>3
<1> QED
  BY <1>4, <1>5, <1>6, <1>7 DEF rest

\* What another call changes for those it tells.
LEMMA PushChange ==
    ASSUME UNCHANGED callbacks, NEW c, Atop(frames', c, frames), NEW s
    PROVE  /\ Cardinality(PendingAt(s)) \in Nat
           /\ Cardinality(PendingAt(s)') = Cardinality(PendingAt(s)) + IF Waits(s, c, callbacks) THEN 1 ELSE 0
           /\ PendingAt(s)' = {} <=> PendingAt(s) = {} /\ ~Waits(s, c, callbacks)
<1> DEFINE old == PendingIn(s, frames, callbacks)
           new == PendingIn(s, frames', callbacks)
<1>1. /\ new = old \union IF Waits(s, c, callbacks) THEN {Len(frames')} ELSE {}
      /\ Cardinality(old) \in Nat
      /\ Cardinality(new) = Cardinality(old) + IF Waits(s, c, callbacks) THEN 1 ELSE 0
  BY CountAtop
<1>2. PendingAt(s) = old /\ PendingAt(s)' = new
  BY DEF PendingAt
<1> HIDE DEF old, new
<1>3. new = {} <=> old = {} /\ ~Waits(s, c, callbacks)
  BY <1>1
<1> QED
  BY <1>1, <1>2, <1>3

\* What the end of a call changes: nothing, when its loop is through.
LEMMA PopChange ==
    ASSUME Basics, frames # <<>>, UNCHANGED callbacks, frames' = Tail(frames), NEW s, ~Waits(s, Top, callbacks)
    PROVE  /\ Cardinality(PendingAt(s)') = Cardinality(PendingAt(s))
           /\ PendingAt(s)' = {} <=> PendingAt(s) = {}
<1>1. Atop(frames, Top, Tail(frames))
  BY Innermost
<1>2. PendingIn(s, frames, callbacks) = PendingIn(s, Tail(frames), callbacks)
  BY <1>1, CountAtop
<1> QED
  BY <1>2 DEF PendingAt

\* The list of a listener does not change with the calls.
LEMMA SameListeners ==
    ASSUME UNCHANGED callbacks, held' \subseteq held
    PROVE  Signed' = Signed /\ \A s : Listening(s)' => Listening(s)
BY DEF Signed, Listening

\* One step keeps what is owed and what is waited for together.
LEMMA TellingStep ==
    ASSUME Basics, Telling, [Next]_vars, fault' = "none"
    PROVE  Telling'
<1>0. Told /\ Unsigned /\ NotBehind
  BY DEF Telling
<1>1. \A s \in SignUps : times[s] \in Nat /\ due[s] \in Nat
  BY DEF Basics, CTypes
<1>2. CASE Quiet
  <2>1. UNCHANGED <<callbacks, frames, status, bytesRead, due, times, last>> /\ held' \subseteq held
    BY <1>2 DEF Quiet, members, history
  <2>2. Signed' = Signed /\ \A s : Listening(s)' => Listening(s)
    BY <2>1, SameListeners
  <2>3. \A s : PendingAt(s)' = PendingAt(s)
    BY <2>1 DEF PendingAt
  <2>4. Told'
    BY <1>0, <2>1, <2>2, <2>3 DEF Told
  <2>5. Unsigned'
    BY <1>0, <2>1, <2>2 DEF Unsigned
  <2>6. NotBehind'
    BY <1>0, <2>1, <2>2, <2>3 DEF NotBehind, UpToDate
  <2> QED
    BY <2>4, <2>5, <2>6 DEF Telling
<1>3. ASSUME NEW x \in SignUps, SignUp(x) PROVE Telling'
  <2>1. /\ x \notin Signed /\ Signed' = Signed \union {x}
        /\ \A c \in Call : CallOK(c, callbacks) => \A s : Waits(s, c, callbacks') <=> Waits(s, c, callbacks)
        /\ UNCHANGED <<frames, members, held, work, history>>
    BY <1>3, SignUpDoes
  <2>2. UNCHANGED <<frames, status, bytesRead, held, due, times, last>>
    BY <2>1 DEF members, history
  <2>3. \A d \in 1 .. Len(frames) : Deep(frames, d) \in Call /\ CallOK(Deep(frames, d), callbacks)
    <3>1. Len(frames) \in Nat /\ \A d \in 1 .. Len(frames) : Len(frames) + 1 - d \in 1 .. Len(frames)
      BY LenProperties DEF Basics, CTypes
    <3> QED
      BY <3>1, ElementOfSeq DEF Deep, Basics, CTypes, Calls, CallsOK
  <2>4. \A s : PendingAt(s)' = PendingAt(s)
    BY <2>1, <2>2, <2>3 DEF PendingAt, PendingIn
  <2>5. PendingAt(x) = {} /\ Cardinality(PendingAt(x)) = 0
    BY <2>1, WaitingSigned, FS_EmptySet
  <2>6. times[x] = 0 /\ due[x] = 0
    BY <1>0, <2>1 DEF Unsigned
  <2>7. \A s : s # x /\ Listening(s)' => Listening(s)
    BY <2>1, <2>2 DEF Listening
  <2>8. Told'
    BY <1>0, <2>2, <2>4, <2>5, <2>6, <2>7 DEF Told
  <2>9. Unsigned'
    BY <1>0, <2>1, <2>2 DEF Unsigned
  <2>10. NotBehind'
    BY <1>0, <2>2, <2>4, <2>6, <2>7 DEF NotBehind, UpToDate
  <2> QED
    BY <2>8, <2>9, <2>10 DEF Telling
<1>4. ASSUME NEW c, Owes(c), UNCHANGED <<callbacks, held, times, last>>,
             \A s \in SignUps :
                /\ Cardinality(PendingAt(s)) \in Nat
                /\ Cardinality(PendingAt(s)') = Cardinality(PendingAt(s)) + IF Waits(s, c, callbacks) THEN 1 ELSE 0
                /\ PendingAt(s)' = {} <=> PendingAt(s) = {} /\ ~Waits(s, c, callbacks),
             \A s \in SignUps : s \in Signed /\ ~Waits(s, c, callbacks) /\ UpToDate(s) => UpToDate(s)'
      PROVE  Telling'
  <2>1. Signed' = Signed /\ \A s : Listening(s)' => Listening(s)
    BY <1>4, SameListeners
  <2>2. \A s \in SignUps : Listening(s) => s \in Signed
    BY DEF Listening
  <2>3. Told'
    <3> SUFFICES ASSUME NEW s \in SignUps, Listening(s)'
                 PROVE  times'[s] + Cardinality(PendingAt(s)') = due'[s]
      BY DEF Told
    <3>1. times[s] + Cardinality(PendingAt(s)) = due[s]
      BY <1>0, <2>1 DEF Told
    <3>2. due'[s] = due[s] + IF Waits(s, c, callbacks) THEN 1 ELSE 0
      BY <1>4 DEF Owes
    <3>3. times'[s] = times[s]
      BY <1>4
    <3> QED
      BY <1>1, <1>4, <3>1, <3>2, <3>3
  <2>4. Unsigned'
    <3> SUFFICES ASSUME NEW s \in SignUps, s \notin Signed PROVE times'[s] = 0 /\ due'[s] = 0
      BY <2>1 DEF Unsigned
    <3>1. times[s] = 0 /\ due[s] = 0
      BY <1>0 DEF Unsigned
    <3>2. due'[s] = due[s]
      BY <1>1, <1>4 DEF Owes
    <3> QED
      BY <1>4, <3>1, <3>2
  <2>5. NotBehind'
    <3> SUFFICES ASSUME NEW s \in SignUps, Listening(s)', times'[s] > 0, PendingAt(s)' = {}
                 PROVE  UpToDate(s)'
      BY DEF NotBehind
    <3>1. Listening(s) /\ times[s] > 0 /\ PendingAt(s) = {} /\ ~Waits(s, c, callbacks)
      BY <1>4, <2>1
    <3>2. UpToDate(s)
      BY <1>0, <3>1 DEF NotBehind
    <3> QED
      BY <1>4, <2>2, <3>1, <3>2
  <2> QED
    BY <2>3, <2>4, <2>5 DEF Telling
<1>5. ASSUME UNCHANGED <<callbacks, status, bytesRead, held, due, times, last>>,
             \A s \in SignUps : Listening(s) =>
                /\ Cardinality(PendingAt(s)') = Cardinality(PendingAt(s))
                /\ PendingAt(s)' = {} <=> PendingAt(s) = {}
      PROVE  Telling'
  <2>1. Signed' = Signed /\ \A s : Listening(s)' => Listening(s)
    BY <1>5, SameListeners
  <2>2. Told'
    BY <1>0, <1>5, <2>1 DEF Told
  <2>3. Unsigned'
    BY <1>0, <1>5, <2>1 DEF Unsigned
  <2>4. NotBehind'
    BY <1>0, <1>5, <2>1 DEF NotBehind, UpToDate
  <2> QED
    BY <2>2, <2>3, <2>4 DEF Telling
<1>6. ASSUME NEW s \in Statuses, SetStatus(s) PROVE Telling'
  <2>1. PICK c : Atop(frames', c, frames) /\ Owes(c)
    BY <1>6, SetStatusDoes
  <2>2. UNCHANGED <<callbacks, status, bytesRead, held, times, last>>
    BY <1>6 DEF SetStatus
  <2>3. \A x \in SignUps : UpToDate(x) => UpToDate(x)'
    BY <2>2 DEF UpToDate
  <2> QED
    BY <1>4, <2>1, <2>2, <2>3, PushChange
<1>7. CASE Receive
  <2>1. PICK c : /\ Atop(frames', c, frames) /\ Owes(c)
                 /\ \A x \in SignUps : Waits(x, c, callbacks) <=> x \in Signed /\ x.event = "BytesRead"
    BY <1>7, ReceiveDoes
  <2>2. UNCHANGED <<callbacks, status, held, times, last>>
    BY <1>7 DEF Receive
  <2>3. \A x \in SignUps : x \in Signed /\ ~Waits(x, c, callbacks) /\ UpToDate(x) => UpToDate(x)'
    BY <2>1, <2>2 DEF UpToDate
  <2> QED
    BY <1>4, <2>1, <2>2, <2>3, PushChange
<1>8. CASE Assign
  <2>1. /\ frames # <<>>
        /\ \E c : /\ Atop(frames', c, Tail(frames)) /\ Owes(c)
                  /\ \A x \in SignUps : Waits(x, c, callbacks) <=> x \in Signed /\ x.event = "StatusChange"
    BY <1>8, AssignDoes
  <2>2. PICK c : /\ Atop(frames', c, Tail(frames)) /\ Owes(c)
                 /\ \A x \in SignUps : Waits(x, c, callbacks) <=> x \in Signed /\ x.event = "StatusChange"
    BY <2>1
  <2>3. UNCHANGED <<callbacks, bytesRead, held, times, last>>
    BY <1>8 DEF Assign
  <2>4. \A x \in SignUps : x \in Signed /\ ~Waits(x, c, callbacks) /\ UpToDate(x) => UpToDate(x)'
    BY <2>2, <2>3 DEF UpToDate
  <2>5. ASSUME NEW s \in SignUps
        PROVE  /\ Cardinality(PendingAt(s)) \in Nat
               /\ Cardinality(PendingAt(s)') = Cardinality(PendingAt(s)) + IF Waits(s, c, callbacks) THEN 1 ELSE 0
               /\ PendingAt(s)' = {} <=> PendingAt(s) = {} /\ ~Waits(s, c, callbacks)
    <3>1. ~Waits(s, Top, callbacks)
      BY <1>8, NobodyLeft
    <3>2. /\ Cardinality(PendingAt(s)) \in Nat /\ Cardinality(PendingAt(s)') \in Nat
          /\ Cardinality(PendingAt(s)') + (IF Waits(s, Top, callbacks) THEN 1 ELSE 0)
                = Cardinality(PendingAt(s)) + (IF Waits(s, c, callbacks) THEN 1 ELSE 0)
          /\ PendingAt(s) = {} <=> PendingIn(s, Tail(frames), callbacks) = {} /\ ~Waits(s, Top, callbacks)
          /\ PendingAt(s)' = {} <=> PendingIn(s, Tail(frames), callbacks) = {} /\ ~Waits(s, c, callbacks)
      BY <2>1, <2>2, <2>3, TopChange
    <3> QED
      BY <3>1, <3>2
  <2> QED
    BY <1>4, <2>2, <2>3, <2>4, <2>5
<1>9. ASSUME frames # <<>>, UNCHANGED callbacks, NEW c, Atop(frames', c, Tail(frames)),
             NEW s, Waits(s, c, callbacks) <=> Waits(s, Top, callbacks)
      PROVE  /\ Cardinality(PendingAt(s)') = Cardinality(PendingAt(s))
             /\ PendingAt(s)' = {} <=> PendingAt(s) = {}
  <2>1. /\ Cardinality(PendingAt(s)) \in Nat /\ Cardinality(PendingAt(s)') \in Nat
        /\ Cardinality(PendingAt(s)') + (IF Waits(s, Top, callbacks) THEN 1 ELSE 0)
              = Cardinality(PendingAt(s)) + (IF Waits(s, c, callbacks) THEN 1 ELSE 0)
        /\ PendingAt(s) = {} <=> PendingIn(s, Tail(frames), callbacks) = {} /\ ~Waits(s, Top, callbacks)
        /\ PendingAt(s)' = {} <=> PendingIn(s, Tail(frames), callbacks) = {} /\ ~Waits(s, c, callbacks)
    BY <1>9, TopChange
  <2> QED
    BY <1>9, <2>1
<1>10. CASE Skip \/ CallbackReturns
  <2>1. frames # <<>> /\ UNCHANGED <<callbacks, status, bytesRead, held, due, times, last>>
    BY <1>10 DEF Skip, Looping, CallbackReturns, members, history
  <2>2. Skip => ~Listening(Callback)
    BY DEF Skip, Skipped, Listening
  <2>3. \E c : /\ Atop(frames', c, Tail(frames))
               /\ \A s \in SignUps : Listening(s) => (Waits(s, c, callbacks) <=> Waits(s, Top, callbacks))
    BY <1>10, <2>2, SkipDoes, CallbackReturnsDoes
  <2> QED
    BY <1>5, <1>9, <2>1, <2>3
<1>11. CASE EndLoop \/ Close \/ RemoveFile
  <2>1. frames # <<>> /\ frames' = Return(frames) /\ \A s : ~Waits(s, Top, callbacks)
    BY <1>11, NobodyLeft
  <2>2. UNCHANGED <<callbacks, status, bytesRead, held, due, times, last>>
    BY <1>11 DEF EndLoop, Close, RemoveFile, members, history
  <2>3. StepAt(Top) # "assign"
    BY <1>11, <2>1 DEF EndLoop, Looping, Close, RemoveFile, At, StepAt, Top, Loops
  <2>4. ASSUME NEW s \in SignUps
        PROVE  /\ Cardinality(PendingAt(s)') = Cardinality(PendingAt(s))
               /\ PendingAt(s)' = {} <=> PendingAt(s) = {}
    <3>1. CASE frames' = Tail(frames)
      BY <2>1, <2>2, <3>1, PopChange
    <3>2. CASE \E c : Atop(frames', c, Tail(frames)) /\ ~Waits(s, c, callbacks)
      BY <1>9, <2>1, <2>2, <3>2
    <3> QED
      BY <2>1, <2>3, <3>1, <3>2, ReturnDoes
  <2> QED
    BY <1>5, <2>2, <2>4
<1>12. CASE Invoke
  <2>1. fault = "none" /\ frames # <<>> /\ UNCHANGED <<callbacks, status, bytesRead, held, due>>
    BY <1>12, Steps DEF Invoke, Looping, members
  <2>2. /\ Looping /\ Top.next <= Top.end
        /\ times' = [times EXCEPT ![Callback] = @ + 1]
        /\ last' = [last EXCEPT ![Callback] = <<status, bytesRead>>]
        /\ \E c : /\ Atop(frames', c, Tail(frames))
                  /\ \A s : Waits(s, c, callbacks) <=> Waits(s, Top, callbacks) /\ s # Callback
    BY <1>12, <2>1, InvokeDoes
  <2>3. Callback \in SignUps /\ Callback \in Signed /\ Waits(Callback, Top, callbacks)
    BY <2>2, CallbackIsSigned
  <2>4. PICK c : /\ Atop(frames', c, Tail(frames))
                 /\ \A s : Waits(s, c, callbacks) <=> Waits(s, Top, callbacks) /\ s # Callback
    BY <2>2
  <2>5. PICK x \in SignUps : x = Callback
    BY <2>3
  <2>6. Signed' = Signed /\ \A s : Listening(s)' => Listening(s)
    BY <2>1, SameListeners
  <2>7. /\ times' = [times EXCEPT ![x] = times[x] + 1] /\ last' = [last EXCEPT ![x] = <<status, bytesRead>>]
        /\ times \in [SignUps -> Nat] /\ last \in [SignUps -> Statuses \X Nat]
    BY <2>2, <2>5 DEF Basics, CTypes
  <2>8. ASSUME NEW s \in SignUps, s # x
        PROVE  /\ Cardinality(PendingAt(s)') = Cardinality(PendingAt(s))
               /\ PendingAt(s)' = {} <=> PendingAt(s) = {}
               /\ times'[s] = times[s] /\ last'[s] = last[s]
    <3>1. times'[s] = times[s] /\ last'[s] = last[s]
      BY <2>7, <2>8
    <3>2. Waits(s, c, callbacks) <=> Waits(s, Top, callbacks)
      BY <2>4, <2>5, <2>8
    <3> QED
      BY <1>9, <2>1, <2>4, <3>1, <3>2
  <2>9. /\ times'[x] = times[x] + 1 /\ last'[x] = <<status, bytesRead>> /\ x \in Signed
        /\ Cardinality(PendingAt(x)) \in Nat /\ Cardinality(PendingAt(x)') \in Nat
        /\ Cardinality(PendingAt(x)') + 1 = Cardinality(PendingAt(x))
    <3>1. times'[x] = times[x] + 1 /\ last'[x] = <<status, bytesRead>>
      BY <2>7
    <3>2. Waits(x, Top, callbacks) /\ ~Waits(x, c, callbacks) /\ x \in Signed
      BY <2>3, <2>4, <2>5
    <3>3. /\ Cardinality(PendingAt(x)) \in Nat /\ Cardinality(PendingAt(x)') \in Nat
          /\ Cardinality(PendingAt(x)') + (IF Waits(x, Top, callbacks) THEN 1 ELSE 0)
                = Cardinality(PendingAt(x)) + (IF Waits(x, c, callbacks) THEN 1 ELSE 0)
      BY <2>1, <2>4, TopChange
    <3> QED
      BY <3>1, <3>2, <3>3
  <2>10. Told'
    <3> SUFFICES ASSUME NEW s \in SignUps, Listening(s)'
                 PROVE  times'[s] + Cardinality(PendingAt(s)') = due'[s]
      BY DEF Told
    <3>1. times[s] + Cardinality(PendingAt(s)) = due[s] /\ due'[s] = due[s]
      BY <1>0, <2>1, <2>6 DEF Told
    <3>2. CASE s # x
      BY <2>8, <3>1, <3>2
    <3>3. CASE s = x
      BY <1>1, <2>9, <3>1, <3>3
    <3> QED
      BY <3>2, <3>3
  <2>11. Unsigned'
    BY <1>0, <2>1, <2>6, <2>8, <2>9 DEF Unsigned
  <2>12. NotBehind'
    <3> SUFFICES ASSUME NEW s \in SignUps, Listening(s)', times'[s] > 0, PendingAt(s)' = {}
                 PROVE  UpToDate(s)'
      BY DEF NotBehind
    <3>1. CASE s # x
      <4>1. UpToDate(s)
        BY <1>0, <2>6, <2>8, <3>1 DEF NotBehind
      <4> QED
        BY <2>1, <2>8, <3>1, <4>1 DEF UpToDate
    <3>2. CASE s = x
      BY <2>1, <2>9, <3>2 DEF UpToDate
    <3> QED
      BY <3>1, <3>2
  <2> QED
    BY <2>10, <2>11, <2>12 DEF Telling
<1> QED
  BY <1>2, <1>3, <1>6, <1>7, <1>8, <1>10, <1>11, <1>12, Steps

-----------------------------------------------------------------------------
(* The outer status stays. *)

\* Where in the stack the outermost setStatus is: within an addResponseData, if
\* there is one.
OuterDepth(stack) == IF stack # <<>> /\ Deep(stack, 1).status = "none" THEN 2 ELSE 1

\* Before the outermost setStatus tells, what others assign is overwritten; while
\* it tells, whoever sets the status answers it.
OuterOK(c, depth) ==
    /\ c.status = outermost
    /\ StepAt(c) = "tell" => (status = outermost \/ answered) /\ (Len(frames) > depth => answered)
OuterKept ==
    /\ Len(frames) < OuterDepth(frames) => status = outermost \/ answered
    /\ Len(frames) >= OuterDepth(frames) => OuterOK(Deep(frames, OuterDepth(frames)), OuterDepth(frames))

\* The outermost setStatus is the one the code's own bookkeeping finds.
LEMMA OuterIsDeep ==
    ASSUME Basics
    PROVE  /\ Sets = {} <=> Len(frames) < OuterDepth(frames)
           /\ Sets # {} => Outer = Deep(frames, OuterDepth(frames))
<1> DEFINE top == Len(frames) + 1 - OuterDepth(frames)
<1>1. Len(frames) \in Nat /\ (frames = <<>> <=> Len(frames) = 0) /\ OuterDepth(frames) \in {1, 2}
  BY LenProperties, EmptySeq DEF Basics, CTypes, OuterDepth
<1>2. \A d \in 1 .. Len(frames) : Deep(frames, d).status = "none" => d = 1
  BY DEF Basics, Calls, CallsOK
<1>3. \A k \in 1 .. Len(frames) : k \in Sets <=> Deep(frames, Len(frames) + 1 - k).status # "none"
  <2>1. \A k \in 1 .. Len(frames) : Len(frames) + 1 - (Len(frames) + 1 - k) = k
    BY <1>1
  <2> QED
    BY <2>1 DEF Sets, Deep
<1>4. ASSUME NEW k \in 1 .. Len(frames) PROVE k \in Sets <=> k <= top
  <2>1. Len(frames) + 1 - k \in 1 .. Len(frames)
    BY <1>1
  <2>2. frames # <<>>
    BY <1>1
  <2>3. CASE Len(frames) + 1 - k = 1
    BY <1>1, <1>3, <2>1, <2>2, <2>3 DEF OuterDepth
  <2>4. CASE Len(frames) + 1 - k # 1
    <3>1. k \in Sets
      BY <1>2, <1>3, <2>1, <2>4
    <3>2. k <= top
      BY <1>1, <2>1, <2>4
    <3> QED
      BY <3>1, <3>2
  <2> QED
    BY <2>3, <2>4
<1>5. Sets \subseteq 1 .. Len(frames)
  BY DEF Sets
<1>6. Sets = {} <=> Len(frames) < OuterDepth(frames)
  <2>1. CASE Len(frames) < OuterDepth(frames)
    BY <1>1, <1>4, <1>5, <2>1
  <2>2. CASE ~(Len(frames) < OuterDepth(frames))
    <3>1. top \in 1 .. Len(frames) /\ top <= top
      BY <1>1, <2>2
    <3> QED
      BY <1>4, <2>2, <3>1
  <2> QED
    BY <2>1, <2>2
<1>7. ASSUME Sets # {} PROVE Outer = Deep(frames, OuterDepth(frames))
  <2>1. top \in 1 .. Len(frames)
    BY <1>1, <1>6, <1>7
  <2>2. top \in Sets /\ \A j \in Sets : j <= top
    BY <1>1, <1>4, <1>5, <2>1
  <2>3. \A k \in Sets : (\A j \in Sets : j <= k) => k = top
    BY <1>1, <1>5, <2>1, <2>2
  <2>4. (CHOOSE k \in Sets : \A j \in Sets : j <= k) = top
    BY <2>2, <2>3
  <2> QED
    BY <2>4 DEF Outer, Deep
<1> QED
  BY <1>6, <1>7

\* A call that begins within others leaves the outermost where it is.
LEMMA OuterWithin ==
    ASSUME Basics, NEW c, Atop(frames', c, frames), frames # <<>>
    PROVE  /\ Len(frames') = Len(frames) + 1 /\ OuterDepth(frames') = OuterDepth(frames)
           /\ OuterDepth(frames) <= Len(frames) => Deep(frames', OuterDepth(frames)) = Deep(frames, OuterDepth(frames))
<1>1. Len(frames) \in Nat \ {0} /\ OuterDepth(frames) \in {1, 2}
  BY LenProperties, EmptySeq DEF Basics, CTypes, OuterDepth
<1>2. frames' # <<>> /\ Len(frames') = Len(frames) + 1
  BY <1>1, EmptySeq DEF Atop
<1>3. \A d \in 1 .. Len(frames) : Deep(frames', d) = Deep(frames, d)
  BY DEF Atop
<1>4. OuterDepth(frames') = OuterDepth(frames)
  BY <1>1, <1>2, <1>3 DEF OuterDepth
<1> QED
  BY <1>1, <1>2, <1>3, <1>4

\* So does a change of the innermost call that keeps its status.
LEMMA OuterBehind ==
    ASSUME Basics, frames # <<>>, NEW c, Atop(frames', c, Tail(frames)), c.status = Top.status
    PROVE  /\ Len(frames') = Len(frames) /\ OuterDepth(frames') = OuterDepth(frames)
           /\ \A d \in 1 .. Len(frames) - 1 : Deep(frames', d) = Deep(frames, d)
           /\ Deep(frames', Len(frames)) = c /\ Deep(frames, Len(frames)) = Top
           /\ Len(frames) \in Nat \ {0} /\ OuterDepth(frames) \in {1, 2}
<1>1. Atop(frames, Top, Tail(frames)) /\ Len(frames) \in Nat \ {0}
  BY Innermost
<1>2. Len(frames') = Len(frames) /\ Len(Tail(frames)) = Len(frames) - 1
  BY <1>1, LenProperties DEF Atop
<1>3. \A d \in 1 .. Len(frames) - 1 : Deep(frames', d) = Deep(frames, d)
  BY <1>1, <1>2 DEF Atop
<1>4. Deep(frames', Len(frames)) = c /\ Deep(frames, Len(frames)) = Top
  BY <1>1, <1>2 DEF Atop
<1>5. frames' # <<>>
  BY <1>1, <1>2, EmptySeq
<1>6. Deep(frames', 1).status = Deep(frames, 1).status
  BY <1>1, <1>3, <1>4
<1> QED
  BY <1>1, <1>2, <1>3, <1>4, <1>5, <1>6 DEF OuterDepth

\* And the end of a call that is not the outermost.
LEMMA OuterEnds ==
    ASSUME Basics, frames # <<>>, frames' = Tail(frames)
    PROVE  /\ Len(frames') = Len(frames) - 1 /\ Len(frames) \in Nat \ {0} /\ OuterDepth(frames) \in {1, 2}
           /\ Deep(frames, Len(frames)) = Top
           /\ Len(frames) > OuterDepth(frames) =>
                 /\ OuterDepth(frames') = OuterDepth(frames)
                 /\ Deep(frames', OuterDepth(frames)) = Deep(frames, OuterDepth(frames))
           /\ Len(frames) <= OuterDepth(frames) => Len(frames') < OuterDepth(frames')
<1>1. Atop(frames, Top, Tail(frames)) /\ Len(frames) \in Nat \ {0} /\ OuterDepth(frames) \in {1, 2}
  BY Innermost DEF OuterDepth
<1>2. Len(frames') = Len(frames) - 1 /\ Deep(frames, Len(frames)) = Top
      /\ \A d \in 1 .. Len(frames) - 1 : Deep(frames', d) = Deep(frames, d)
  BY <1>1, LenProperties DEF Atop
<1>3. Len(frames) = 1 <=> frames' = <<>>
  <2>1. Tail(frames) \in Seq(Call)
    BY <1>1 DEF Atop
  <2>2. Tail(frames) = <<>> <=> Len(Tail(frames)) = 0
    BY <2>1, EmptySeq
  <2>3. Len(frames) = 1 <=> Len(frames') = 0
    BY <1>1, <1>2
  <2> QED
    BY <2>2, <2>3
<1>4. CASE Len(frames) = 1
  <2>1. OuterDepth(frames') = 1 /\ Len(frames') = 0
    BY <1>2, <1>3, <1>4 DEF OuterDepth
  <2>2. ~(Len(frames) > OuterDepth(frames))
    BY <1>1, <1>4
  <2>3. Len(frames') < OuterDepth(frames')
    <3>1. 0 < 1
      OBVIOUS
    <3> QED
      BY <2>1, <3>1, Zenon
  <2> QED
    BY <1>1, <1>2, <2>2, <2>3
<1>5. CASE Len(frames) # 1
  <2>1. frames' # <<>> /\ 1 \in 1 .. Len(frames) - 1
    BY <1>1, <1>3, <1>5
  <2>2. Deep(frames', 1) = Deep(frames, 1)
    BY <1>2, <2>1
  <2>3. OuterDepth(frames') = OuterDepth(frames)
    BY <2>1, <2>2 DEF OuterDepth
  <2>4. Len(frames) > OuterDepth(frames) => OuterDepth(frames) \in 1 .. Len(frames) - 1
    BY <1>1
  <2>5. Len(frames) <= OuterDepth(frames) => Len(frames') < OuterDepth(frames')
    BY <1>1, <1>2, <2>3
  <2> QED
    BY <1>1, <1>2, <2>3, <2>4, <2>5
<1> QED
  BY <1>4, <1>5

\* One step keeps the outer status from being lost.
LEMMA OuterStep ==
    ASSUME Basics, OuterKept, [Next]_vars, fault' = "none"
    PROVE  OuterKept'
<1>0. /\ Len(frames) \in Nat /\ (frames = <<>> <=> Len(frames) = 0) /\ OuterDepth(frames) \in {1, 2}
      /\ frames = <<>> => OuterDepth(frames) = 1
  BY LenProperties, EmptySeq DEF Basics, CTypes, OuterDepth
<1>1. PICK depth \in {1, 2} : depth = OuterDepth(frames)
  BY <1>0
<1>2. /\ Len(frames) < depth => status = outermost \/ answered
      /\ Len(frames) >= depth => OuterOK(Deep(frames, depth), depth)
  BY <1>1 DEF OuterKept
<1>3. CASE UNCHANGED <<frames, status, outermost, answered>>
  BY <1>3 DEF OuterKept, OuterOK
<1>4. ASSUME NEW s \in Statuses, SetStatus(s) PROVE OuterKept'
  <2>1. PICK c : Atop(frames', c, frames) /\ c.status = s /\ StepAt(c) = Head(StepsOf(s))
    BY <1>4, SetStatusDoes
  <2>2. s # "none" /\ StepAt(c) # "tell"
    BY <2>1, StepsBegin DEF Statuses
  <2>3. Len(frames') = Len(frames) + 1 /\ Deep(frames', Len(frames) + 1) = c /\ frames' # <<>>
    BY <1>0, <2>1, EmptySeq DEF Atop
  <2>4. CASE Sets = {}
    <3>1. outermost' = s /\ Len(frames) < depth
      BY <1>1, <1>4, <2>4, OuterIsDeep DEF SetStatus
    <3>2. Len(frames) + 1 = OuterDepth(frames')
      <4>1. CASE frames = <<>>
        BY <1>0, <2>1, <2>2, <2>3, <4>1 DEF OuterDepth
      <4>2. CASE frames # <<>>
        <5>1. OuterDepth(frames') = depth
          BY <1>1, <2>1, <4>2, OuterWithin
        <5> QED
          BY <1>0, <3>1, <4>2, <5>1
      <4> QED
        BY <4>1, <4>2
    <3>3. OuterOK(c, Len(frames) + 1)'
      BY <2>1, <2>2, <3>1 DEF OuterOK
    <3>4. Len(frames') = OuterDepth(frames') /\ Deep(frames', OuterDepth(frames')) = c /\ Len(frames') \in Nat
      BY <1>0, <2>3, <3>2
    <3> QED
      BY <2>1, <2>2, <3>1, <3>4 DEF OuterKept, OuterOK
  <2>5. CASE Sets # {}
    <3>1. depth <= Len(frames) /\ Outer = Deep(frames, depth) /\ frames # <<>>
      BY <1>0, <1>1, <2>5, OuterIsDeep
    <3>2. OuterDepth(frames') = depth /\ Deep(frames', depth) = Deep(frames, depth)
      BY <1>1, <2>1, <3>1, OuterWithin
    <3>3. UNCHANGED <<status, outermost>> /\ answered' = (answered \/ StepAt(Outer) = "tell")
      BY <1>4, <2>5 DEF SetStatus, StepAt
    <3>4. Deep(frames, depth).status = outermost
      BY <1>0, <1>1, <1>2, <3>1 DEF OuterOK
    <3>5. StepAt(Deep(frames, depth)) = "tell" => answered'
      BY <3>1, <3>3
    <3>6. ~(Len(frames') < depth)
      BY <1>0, <1>1, <2>3, <3>1
    <3> QED
      BY <3>2, <3>3, <3>4, <3>5, <3>6 DEF OuterKept, OuterOK
  <2> QED
    BY <2>4, <2>5
<1>5. CASE Receive
  <2>1. PICK c : Atop(frames', c, frames) /\ c.status = "none"
    BY <1>5, ReceiveDoes
  <2>2. frames = <<>> /\ UNCHANGED <<status, outermost, answered>>
    BY <1>5 DEF Receive, Between
  <2>3. Len(frames') = 1 /\ Deep(frames', 1) = c /\ frames' # <<>>
    BY <1>0, <2>1, <2>2, EmptySeq DEF Atop
  <2>4. OuterDepth(frames') = 2
    BY <2>1, <2>3 DEF OuterDepth
  <2>5. status = outermost \/ answered
    BY <1>0, <1>1, <1>2, <2>2
  <2>6. ~(Len(frames') >= OuterDepth(frames'))
    <3>1. ~(1 >= 2)
      OBVIOUS
    <3> QED
      BY <2>3, <2>4, <3>1, Zenon
  <2> QED
    BY <2>2, <2>5, <2>6 DEF OuterKept
<1>6. ASSUME frames # <<>>, UNCHANGED <<outermost, answered>>,
             NEW c, Atop(frames', c, Tail(frames)), c.status = Top.status,
             Len(frames) # depth => UNCHANGED status \/ (Len(frames) > depth /\ StepAt(Top) = "assign"),
             Len(frames) = depth /\ StepAt(c) = "tell" =>
                \/ status' = c.status
                \/ StepAt(Top) = "tell" /\ UNCHANGED status
      PROVE  OuterKept'
  <2>1. /\ Len(frames') = Len(frames) /\ OuterDepth(frames') = depth
        /\ \A d \in 1 .. Len(frames) - 1 : Deep(frames', d) = Deep(frames, d)
        /\ Deep(frames', Len(frames)) = c /\ Deep(frames, Len(frames)) = Top
    BY <1>1, <1>6, OuterBehind
  <2>2. CASE Len(frames) < depth
    <3>1. status' = status
      BY <1>0, <1>1, <1>6, <2>2
    <3>2. status = outermost \/ answered
      BY <1>2, <2>2
    <3>3. ~(Len(frames') >= depth)
      BY <1>0, <1>1, <2>1, <2>2
    <3> QED
      BY <1>6, <2>1, <3>1, <3>2, <3>3 DEF OuterKept
  <2>3. CASE Len(frames) = depth
    <3>1. OuterOK(Top, depth)
      BY <1>0, <1>1, <1>2, <2>1, <2>3
    <3>2. c.status = outermost'
      BY <1>6, <3>1 DEF OuterOK
    <3>3. StepAt(c) = "tell" => status' = outermost' \/ answered'
      BY <1>6, <2>3, <3>1, <3>2 DEF OuterOK
    <3>4. Len(frames') = depth /\ Deep(frames', depth) = c /\ ~(Len(frames') < depth) /\ ~(Len(frames') > depth)
      BY <1>0, <1>1, <2>1, <2>3
    <3> QED
      BY <2>1, <3>2, <3>3, <3>4 DEF OuterKept, OuterOK
  <2>4. CASE Len(frames) > depth
    <3>1. OuterOK(Deep(frames, depth), depth)
      BY <1>0, <1>1, <1>2, <2>4
    <3>2. depth \in 1 .. Len(frames) - 1
      BY <1>0, <1>1, <2>4
    <3>3. Deep(frames', depth) = Deep(frames, depth) /\ ~(Len(frames') < depth)
      BY <1>0, <1>1, <2>1, <2>4, <3>2
    <3>4. Deep(frames, depth).status = outermost' /\ (StepAt(Deep(frames, depth)) = "tell" => answered')
      BY <1>6, <2>4, <3>1 DEF OuterOK
    <3> QED
      BY <2>1, <3>3, <3>4 DEF OuterKept, OuterOK
  <2> QED
    BY <1>0, <1>1, <2>2, <2>3, <2>4
<1>7. CASE Skip \/ CallbackReturns \/ Invoke
  <2>1. frames # <<>> /\ UNCHANGED <<status, outermost, answered>>
    BY <1>7 DEF Skip, CallbackReturns, Invoke, Looping, members, history
  <2>2. fault = "none"
    BY Steps
  <2>3. \E c : Atop(frames', c, Tail(frames)) /\ c.status = Top.status /\ c.steps = Top.steps
    BY <1>7, <2>2, SkipDoes, CallbackReturnsDoes, InvokeDoes DEF Moved
  <2>4. PICK c : Atop(frames', c, Tail(frames)) /\ c.status = Top.status /\ StepAt(c) = StepAt(Top)
    BY <2>3 DEF StepAt
  <2> QED
    BY <1>6, <2>1, <2>4
<1>8. CASE EndLoop \/ Close \/ RemoveFile
  <2>1. frames # <<>> /\ frames' = Return(frames) /\ UNCHANGED <<status, outermost, answered>>
    BY <1>8, NobodyLeft DEF EndLoop, Close, RemoveFile, members, history
  <2>2. StepAt(Top) # "assign"
    BY <1>8, <2>1 DEF EndLoop, Looping, Close, RemoveFile, At, StepAt, Top, Loops
  <2>3. Top.status \in Settable /\ Top.steps \in StepsLeft(Top.status)
    BY <2>1, Innermost
  <2>4. CASE StepAt(Top) \in {"tell", "tellBytes"} /\ frames' = Tail(frames)
    <3>1. /\ Len(frames') = Len(frames) - 1 /\ Deep(frames, Len(frames)) = Top
          /\ Len(frames) > depth =>
                OuterDepth(frames') = depth /\ Deep(frames', depth) = Deep(frames, depth)
          /\ Len(frames) <= depth => Len(frames') < OuterDepth(frames')
      BY <1>1, <2>1, <2>4, OuterEnds
    <3>2. CASE Len(frames) > depth
      <4>1. OuterOK(Deep(frames, depth), depth) /\ ~(Len(frames') < depth)
        BY <1>0, <1>1, <1>2, <3>1, <3>2
      <4>2. Deep(frames, depth).status = outermost' /\ (StepAt(Deep(frames, depth)) = "tell" => answered')
        BY <2>1, <3>2, <4>1 DEF OuterOK
      <4> QED
        BY <3>1, <3>2, <4>1, <4>2 DEF OuterKept, OuterOK
    <3>3. CASE Len(frames) = depth
      <4>1. OuterOK(Top, depth)
        BY <1>0, <1>1, <1>2, <3>1, <3>3
      <4>2. Top.status # "none"
        <5>1. 1 \in 1 .. Len(frames) /\ (depth # 1 => Len(frames) # 1)
          BY <1>0, <1>1, <2>1, <3>3
        <5>2. depth = 1 => Deep(frames, 1).status # "none"
          BY <1>1, <2>1 DEF OuterDepth
        <5> QED
          BY <1>1, <2>1, <3>1, <3>3, <5>1, <5>2, Innermost
      <4>3. StepAt(Top) = "tell"
        BY <2>3, <2>4, <4>2, StepsGoOn DEF StepAt
      <4>4. status' = outermost' \/ answered'
        BY <2>1, <4>1, <4>3 DEF OuterOK
      <4>5. Len(frames') < OuterDepth(frames')
        BY <1>0, <1>1, <3>1, <3>3
      <4>6. ~(Len(frames') >= OuterDepth(frames'))
        <5>1. Len(frames') \in Nat /\ OuterDepth(frames') \in {1, 2}
          BY <1>0, <2>1, <3>1 DEF OuterDepth
        <5> QED
          BY <4>5, <5>1
      <4> QED
        BY <4>4, <4>6 DEF OuterKept
    <3>4. CASE Len(frames) < depth
      <4>1. status = outermost \/ answered
        BY <1>2, <3>4
      <4>2. Len(frames') < OuterDepth(frames')
        BY <1>0, <1>1, <3>1, <3>4
      <4>3. ~(Len(frames') >= OuterDepth(frames'))
        <5>1. Len(frames') \in Nat /\ OuterDepth(frames') \in {1, 2}
          BY <1>0, <2>1, <3>1 DEF OuterDepth
        <5> QED
          BY <4>2, <5>1
      <4> QED
        BY <2>1, <4>1, <4>3 DEF OuterKept
    <3> QED
      BY <1>0, <1>1, <3>2, <3>3, <3>4
  <2>5. CASE StepAt(Top) \notin {"tell", "tellBytes"}
    <3>1. PICK c : Atop(frames', c, Tail(frames)) /\ c.status = Top.status /\ StepAt(c) = Head(Tail(Top.steps))
      BY <2>1, <2>5, ReturnDoes
    <3>2. StepAt(c) # "tell"
      BY <2>2, <2>3, <2>5, <3>1, StepsGoOn DEF StepAt
    <3> QED
      BY <1>6, <2>1, <3>1, <3>2
  <2> QED
    BY <2>1, <2>4, <2>5, ReturnDoes
<1>9. CASE Assign
  <2>1. /\ frames # <<>> /\ StepAt(Top) = "assign" /\ status' = Top.status
        /\ \E c : Atop(frames', c, Tail(frames)) /\ c.status = Top.status /\ StepAt(c) = "tell"
    BY <1>9, AssignDoes
  <2>2. PICK c : Atop(frames', c, Tail(frames)) /\ c.status = Top.status /\ StepAt(c) = "tell"
    BY <2>1
  <2>3. UNCHANGED <<outermost, answered>>
    BY <1>9 DEF Assign
  <2>4. ~(Len(frames) < depth)
    <3>1. Top.status # "none"
      BY <2>1, Innermost, StepsGoOn DEF StepAt
    <3>2. Deep(frames, Len(frames)) = Top
      BY <2>1, Innermost DEF Atop
    <3>3. Len(frames) = 1 => depth = 1
      BY <1>1, <3>1, <3>2 DEF OuterDepth
    <3>4. Len(frames) \in Nat /\ Len(frames) # 0
      BY <1>0, <2>1
    <3>5. CASE depth = 1
      BY <3>4, <3>5
    <3>6. CASE depth = 2
      BY <3>3, <3>4, <3>6
    <3> QED
      BY <1>1, <3>5, <3>6
  <2>5. Len(frames) # depth => Len(frames) > depth /\ StepAt(Top) = "assign"
    <3>1. Len(frames) \in Nat
      BY <1>0
    <3> QED
      BY <2>1, <2>4, <3>1
  <2>6. Len(frames) = depth /\ StepAt(c) = "tell" => status' = c.status
    BY <2>1, <2>2
  <2> QED
    BY <1>6, <2>1, <2>2, <2>3, <2>5, <2>6
<1>10. ASSUME Quiet \/ \E s \in SignUps : SignUp(s) PROVE UNCHANGED <<frames, status, outermost, answered>>
  <2>1. CASE Quiet
    BY <2>1 DEF Quiet, members, history
  <2>2. CASE \E s \in SignUps : SignUp(s)
    BY <2>2, SignUpDoes DEF members, history
  <2> QED
    BY <1>10, <2>1, <2>2
<1> QED
  BY <1>3, <1>4, <1>5, <1>7, <1>8, <1>9, <1>10, Steps

-----------------------------------------------------------------------------
(* The file of a canceled request. *)

\* A call that will yet close the file of a canceled request, and one that will yet
\* remove it.
WillClose(c) == c.status = "Canceled" /\ StepAt(c) \in {"notify", "close"}
WillRemove(c) == c.status = "Canceled" /\ StepAt(c) \in {"notify", "close", "remove"}

\* What is left of the file is still to go.
FileGoes ==
    canceled =>
        /\ file # "none" => \E d \in 1 .. Len(frames) : WillClose(Deep(frames, d))
        /\ exists => \E d \in 1 .. Len(frames) : WillRemove(Deep(frames, d))

\* A stack has such a call in the innermost one or in the others.
LEMMA WillAtop ==
    ASSUME NEW stack, NEW c, NEW rest, Atop(stack, c, rest)
    PROVE  /\ (\E d \in 1 .. Len(stack) : WillClose(Deep(stack, d))) <=>
                 WillClose(c) \/ \E d \in 1 .. Len(rest) : WillClose(Deep(rest, d))
           /\ (\E d \in 1 .. Len(stack) : WillRemove(Deep(stack, d))) <=>
                 WillRemove(c) \/ \E d \in 1 .. Len(rest) : WillRemove(Deep(rest, d))
<1>1. Len(rest) \in Nat /\ Len(stack) = Len(rest) + 1
  BY LenProperties DEF Atop
<1>2. /\ \A d \in 1 .. Len(stack) : d \in 1 .. Len(rest) \/ d = Len(stack)
      /\ Len(stack) \in 1 .. Len(stack)
      /\ \A d \in 1 .. Len(rest) : d \in 1 .. Len(stack)
  BY <1>1
<1>3. Deep(stack, Len(stack)) = c /\ \A d \in 1 .. Len(rest) : Deep(stack, d) = Deep(rest, d)
  BY DEF Atop
<1>4. (\E d \in 1 .. Len(stack) : WillClose(Deep(stack, d))) <=>
         WillClose(c) \/ \E d \in 1 .. Len(rest) : WillClose(Deep(rest, d))
  BY <1>2, <1>3
<1>5. (\E d \in 1 .. Len(stack) : WillRemove(Deep(stack, d))) <=>
         WillRemove(c) \/ \E d \in 1 .. Len(rest) : WillRemove(Deep(rest, d))
  BY <1>2, <1>3
<1> QED
  BY <1>4, <1>5

\* One step keeps the file going.
LEMMA FileStep ==
    ASSUME Basics, FileGoes, [Next]_vars, fault' = "none"
    PROVE  FileGoes'
<1>1. CASE UNCHANGED <<frames, canceled, file, exists>>
  BY <1>1 DEF FileGoes
<1>2. ASSUME NEW s \in Statuses, SetStatus(s) PROVE FileGoes'
  <2>1. PICK c : Atop(frames', c, frames) /\ c.status = s /\ StepAt(c) = Head(StepsOf(s))
    BY <1>2, SetStatusDoes
  <2>2. canceled' = (canceled \/ s = "Canceled") /\ UNCHANGED <<file, exists>>
    BY <1>2 DEF SetStatus
  <2>3. s = "Canceled" => WillClose(c) /\ WillRemove(c)
    BY <2>1, StepsBegin DEF WillClose, WillRemove
  <2>4. /\ (\E d \in 1 .. Len(frames') : WillClose(Deep(frames', d))) <=>
              WillClose(c) \/ \E d \in 1 .. Len(frames) : WillClose(Deep(frames, d))
        /\ (\E d \in 1 .. Len(frames') : WillRemove(Deep(frames', d))) <=>
              WillRemove(c) \/ \E d \in 1 .. Len(frames) : WillRemove(Deep(frames, d))
    BY <2>1, WillAtop
  <2>5. CASE s = "Canceled"
    BY <2>3, <2>4, <2>5 DEF FileGoes
  <2>6. CASE s # "Canceled"
    <3>1. canceled' = canceled
      BY <2>2, <2>6 DEF Basics, CTypes
    <3> QED
      BY <2>2, <2>4, <3>1 DEF FileGoes
  <2> QED
    BY <2>5, <2>6
<1>3. CASE Receive
  BY <1>3 DEF Receive, Interrupted, FileGoes
<1>4. ASSUME frames # <<>>, UNCHANGED canceled,
             NEW c, Atop(frames', c, Tail(frames)),
             file' = "none" \/ (UNCHANGED file /\ (WillClose(Top) => WillClose(c))),
             exists' = FALSE \/ (UNCHANGED exists /\ (WillRemove(Top) => WillRemove(c)))
      PROVE  FileGoes'
  <2>1. Atop(frames, Top, Tail(frames))
    BY <1>4, Innermost
  <2>2. /\ (\E d \in 1 .. Len(frames') : WillClose(Deep(frames', d))) <=>
              WillClose(c) \/ \E d \in 1 .. Len(Tail(frames)) : WillClose(Deep(Tail(frames), d))
        /\ (\E d \in 1 .. Len(frames') : WillRemove(Deep(frames', d))) <=>
              WillRemove(c) \/ \E d \in 1 .. Len(Tail(frames)) : WillRemove(Deep(Tail(frames), d))
    BY <1>4, WillAtop
  <2>3. /\ (\E d \in 1 .. Len(frames) : WillClose(Deep(frames, d))) <=>
              WillClose(Top) \/ \E d \in 1 .. Len(Tail(frames)) : WillClose(Deep(Tail(frames), d))
        /\ (\E d \in 1 .. Len(frames) : WillRemove(Deep(frames, d))) <=>
              WillRemove(Top) \/ \E d \in 1 .. Len(Tail(frames)) : WillRemove(Deep(Tail(frames), d))
    BY <2>1, WillAtop
  <2>4. canceled' /\ file' # "none" => \E d \in 1 .. Len(frames') : WillClose(Deep(frames', d))
    BY <1>4, <2>2, <2>3 DEF FileGoes
  <2>5. canceled' /\ exists' => \E d \in 1 .. Len(frames') : WillRemove(Deep(frames', d))
    BY <1>4, <2>2, <2>3 DEF FileGoes
  <2> QED
    BY <2>4, <2>5 DEF FileGoes
<1>5. CASE Skip \/ CallbackReturns \/ Invoke
  <2>1. frames # <<>> /\ UNCHANGED <<canceled, file, exists>>
    BY <1>5 DEF Skip, CallbackReturns, Invoke, Looping, members, history
  <2>2. fault = "none"
    BY Steps
  <2>3. \E c : Atop(frames', c, Tail(frames)) /\ c.status = Top.status /\ c.steps = Top.steps
    BY <1>5, <2>2, SkipDoes, CallbackReturnsDoes, InvokeDoes DEF Moved
  <2>4. PICK c : Atop(frames', c, Tail(frames)) /\ c.status = Top.status /\ c.steps = Top.steps
    BY <2>3
  <2>5. (WillClose(Top) => WillClose(c)) /\ (WillRemove(Top) => WillRemove(c))
    BY <2>4 DEF WillClose, WillRemove, StepAt
  <2> QED
    BY <1>4, <2>1, <2>4, <2>5
<1>6. CASE EndLoop \/ Close \/ RemoveFile \/ Assign
  <2>1. frames # <<>> /\ frames' = Return(frames) /\ UNCHANGED canceled
    BY <1>6, NobodyLeft DEF EndLoop, Close, RemoveFile, Assign, members, history
  <2>2. Top.status \in Settable /\ Top.steps \in StepsLeft(Top.status)
    BY <2>1, Innermost
  <2>3. /\ (UNCHANGED file /\ StepAt(Top) # "close") \/ file' = "none"
        /\ (UNCHANGED exists /\ StepAt(Top) # "remove") \/ exists' = FALSE
    <3>1. CASE EndLoop
      <4>1. UNCHANGED <<file, exists>> /\ StepAt(Top) \in Loops
        BY <3>1 DEF EndLoop, members, Looping, StepAt, Top
      <4> QED
        BY <4>1 DEF Loops
    <3>2. CASE Close
      BY <3>2 DEF Close, At, StepAt
    <3>3. CASE RemoveFile
      BY <3>3 DEF RemoveFile, At, StepAt
    <3>4. CASE Assign
      BY <3>4 DEF Assign, At, StepAt
    <3> QED
      BY <1>6, <3>1, <3>2, <3>3, <3>4
  <2>4. CASE StepAt(Top) \in {"tell", "tellBytes"} /\ frames' = Tail(frames)
    <3>1. ~WillClose(Top) /\ ~WillRemove(Top)
      BY <2>4 DEF WillClose, WillRemove
    <3>2. Atop(frames, Top, Tail(frames))
      BY <2>1, Innermost
    <3>3. /\ (\E d \in 1 .. Len(frames) : WillClose(Deep(frames, d))) <=>
                WillClose(Top) \/ \E d \in 1 .. Len(Tail(frames)) : WillClose(Deep(Tail(frames), d))
          /\ (\E d \in 1 .. Len(frames) : WillRemove(Deep(frames, d))) <=>
                WillRemove(Top) \/ \E d \in 1 .. Len(Tail(frames)) : WillRemove(Deep(Tail(frames), d))
      BY <3>2, WillAtop
    <3>4. canceled' /\ file' # "none" => \E d \in 1 .. Len(frames') : WillClose(Deep(frames', d))
      BY <2>1, <2>3, <2>4, <3>1, <3>3 DEF FileGoes
    <3>5. canceled' /\ exists' => \E d \in 1 .. Len(frames') : WillRemove(Deep(frames', d))
      BY <2>1, <2>3, <2>4, <3>1, <3>3 DEF FileGoes
    <3> QED
      BY <3>4, <3>5 DEF FileGoes
  <2>5. CASE StepAt(Top) \notin {"tell", "tellBytes"}
    <3>1. PICK c : Atop(frames', c, Tail(frames)) /\ c.status = Top.status /\ StepAt(c) = Head(Tail(Top.steps))
      BY <2>1, <2>5, ReturnDoes
    <3>2. file' = "none" \/ (UNCHANGED file /\ (WillClose(Top) => WillClose(c)))
      BY <2>2, <2>3, <3>1, StepsGoOn DEF WillClose, StepAt
    <3>3. exists' = FALSE \/ (UNCHANGED exists /\ (WillRemove(Top) => WillRemove(c)))
      BY <2>2, <2>3, <3>1, StepsGoOn DEF WillRemove, StepAt
    <3> QED
      BY <1>4, <2>1, <3>1, <3>2, <3>3
  <2> QED
    BY <2>1, <2>4, <2>5, ReturnDoes
<1>7. CASE Quiet
  BY <1>1, <1>7 DEF Quiet, members
<1>8. ASSUME NEW s \in SignUps, SignUp(s) PROVE FileGoes'
  BY <1>1, <1>8, SignUpDoes DEF members
<1> QED
  BY <1>2, <1>3, <1>5, <1>6, <1>7, <1>8, Steps

-----------------------------------------------------------------------------
(* The theorems. *)

\* A program that has not died.
IInv == fault = "none" => Basics /\ Telling /\ OuterKept /\ FileGoes

\* Before anybody signs up there are no calls, and nobody is owed any.
LEMMA InitInvariant ==
    ASSUME Init
    PROVE  IInv
<1>1. frames = <<>> /\ frames \in Seq(Call) /\ Len(frames) = 0
  BY EmptySeq DEF Init
<1>2. 1 .. Len(frames) = {}
  BY <1>1
<1>3. \A e \in Events : callbacks[e] = <<>> /\ callbacks[e] \in Seq(SignUps) /\ Len(callbacks[e]) = 0
  BY EmptySeq DEF Init
<1>4. \A e \in Events : 1 .. Len(callbacks[e]) = {}
  BY <1>3
<1>5. CTypes
  <2>1. callbacks \in [Events -> Seq(SignUps)]
    BY <1>3 DEF Init
  <2>2. last \in [SignUps -> Statuses \X Nat]
    BY DEF Init, Statuses
  <2> QED
    BY <1>1, <2>1, <2>2 DEF Init, CTypes, Statuses
<1>6. Enlisted
  BY <1>4 DEF Enlisted
<1>7. Calls
  BY <1>2 DEF Calls, CallsOK
<1>8. Telling
  <2>1. \A s \in SignUps : PendingAt(s) = {} /\ times[s] = 0 /\ due[s] = 0
    BY <1>2 DEF Init, PendingAt, PendingIn
  <2>2. Cardinality({}) = 0 /\ 0 + 0 = 0 /\ ~(0 > 0)
    BY FS_EmptySet
  <2>3. Told
    BY <2>1, <2>2 DEF Told
  <2>4. NotBehind
    BY <2>1, <2>2 DEF NotBehind
  <2> QED
    BY <2>1, <2>3, <2>4 DEF Telling, Unsigned
<1>9. OuterKept
  <2>1. OuterDepth(frames) = 1 /\ ~(0 >= 1)
    BY <1>1 DEF OuterDepth
  <2>2. status = outermost
    BY DEF Init
  <2>3. ~(Len(frames) >= OuterDepth(frames))
    BY <1>1, <2>1, Zenon
  <2> QED
    BY <2>2, <2>3 DEF OuterKept
<1>10. FileGoes
  BY DEF Init, FileGoes
<1> QED
  BY <1>5, <1>6, <1>7, <1>8, <1>9, <1>10 DEF IInv, Basics

\* The invariant holds of every run.
THEOREM Invariance == Spec => []IInv
<1>1. Init => IInv
  BY InitInvariant
<1>2. ASSUME IInv, [Next]_vars PROVE IInv'
  <2>1. CASE fault' = "none"
    <3>1. fault = "none"
      BY <1>2, <2>1, Steps
    <3>2. Basics /\ Telling /\ OuterKept /\ FileGoes
      BY <1>2, <3>1 DEF IInv
    <3>3. Basics' /\ Telling' /\ OuterKept' /\ FileGoes'
      BY <1>2, <2>1, <3>2, BasicsStep, TellingStep, OuterStep, FileStep
    <3> QED
      BY <3>3 DEF IInv
  <2>2. CASE fault' # "none"
    BY <2>2 DEF IInv
  <2> QED
    BY <2>1, <2>2
<1> QED
  BY <1>1, <1>2, PTL DEF Spec

\* Nothing is waited for where no call is under way.
LEMMA NothingPends ==
    ASSUME Between
    PROVE  Len(frames) = 0 /\ OuterDepth(frames) = 1 /\ \A s : PendingAt(s) = {}
<1>1. frames = <<>> /\ Len(frames) = 0
  BY DEF Between
<1>2. 1 .. Len(frames) = {}
  BY <1>1
<1> QED
  BY <1>1, <1>2 DEF OuterDepth, PendingAt, PendingIn

\* However calls nest, and whoever signs up or goes away within them: once they have
\* returned, every listener was told of each of its events since it signed up, once.
THEOREM ListenersAreTold == Spec => []EveryoneIsTold
<1>1. IInv => EveryoneIsTold
  <2> SUFFICES ASSUME IInv, Between, fault = "none", NEW s \in SignUps, Listening(s)
               PROVE  times[s] = due[s]
    BY DEF EveryoneIsTold
  <2>1. Cardinality(PendingAt(s)) = 0
    BY NothingPends, FS_EmptySet
  <2>2. times[s] + Cardinality(PendingAt(s)) = due[s]
    BY DEF IInv, Telling, Told
  <2>3. times[s] \in Nat
    BY DEF IInv, Basics, CTypes
  <2> QED
    BY <2>1, <2>2, <2>3
<1> QED
  BY <1>1, Invariance, PTL

\* What a status callback and a bytes-read callback saw last is what there is to see.
THEOREM ListenersAreUpToDate == Spec => []NobodyIsBehind
<1>1. IInv => NobodyIsBehind
  BY NothingPends DEF IInv, Telling, NotBehind, UpToDate, NobodyIsBehind
<1> QED
  BY <1>1, Invariance, PTL

\* The status that the outermost call sets is the one that stays, unless a status
\* callback of that call answers it.
THEOREM OuterStatus == Spec => []OuterStatusStays
<1>1. IInv => OuterStatusStays
  <2> SUFFICES ASSUME IInv, Between, fault = "none"
               PROVE  status = outermost \/ answered
    BY DEF OuterStatusStays
  <2>1. 0 < 1
    OBVIOUS
  <2>2. Len(frames) < OuterDepth(frames)
    BY <2>1, NothingPends, Zenon
  <2> QED
    BY <2>2 DEF IInv, OuterKept
<1> QED
  BY <1>1, Invariance, PTL

\* Once the calls have returned, a canceled request has no file and no open stream.
THEOREM CanceledFileIsGone == Spec => []CanceledHasNoFile
<1>1. IInv => CanceledHasNoFile
  <2> SUFFICES ASSUME IInv, Between, fault = "none", canceled
               PROVE  ~exists /\ file = "none"
    BY DEF CanceledHasNoFile
  <2>1. 1 .. Len(frames) = {}
    BY NothingPends
  <2> QED
    BY <2>1 DEF IInv, FileGoes
<1> QED
  BY <1>1, Invariance, PTL

=============================================================================
