------------------------ MODULE NameResolutionProofs ------------------------
(***************************************************************************)
(* What holds of the resolution of names for any number of servers, hosts  *)
(* and calls: alone, and together with the datagrams (DnsLookup), whose    *)
(* every step is one of the resolution.                                    *)
(***************************************************************************)
EXTENDS DnsLookup, TLAPS

\* The types of what the arguments below tell apart.
Types ==
    /\ resolved \in BOOLEAN /\ urlError \in BOOLEAN /\ lookupError \in BOOLEAN /\ made \in BOOLEAN
    /\ error \in BOOLEAN /\ troubled \in BOOLEAN /\ answered \in BOOLEAN
    /\ host \in Hosts /\ calls \in Nat

\* A Url that counts as resolved without an address, or that its request could not
\* resolve, has an error.
Told ==
    /\ resolved /\ addresses = NoHost => urlError
    /\ Constructed /\ ~resolved => urlError

\* As long as the user never called resolve, only the constructor looks up.
OwnLookup ==
    calls = 0 =>
        /\ ~made => ~resolved /\ pc = "idle"
        /\ Constructed => error \/ addresses = host

\* The lookup remembers whether it was in trouble.
Remembered ==
    pc \in {"ask", "return"} =>
        /\ lookupError = troubled
        /\ answer = "addresses" => answered

IInv == Types /\ Told /\ OwnLookup /\ Remembered

\* The invariant holds at first.
LEMMA InitIInv == Init => IInv
<1> SUFFICES ASSUME Init PROVE IInv
  OBVIOUS
<1> USE DEF Init
<1>1. Types
  BY DEF Types
<1>2. Told
  BY DEF Told, Constructed
<1>3. OwnLookup
  BY DEF OwnLookup, Constructed
<1>4. Remembered
  BY DEF Remembered
<1> QED
  BY <1>1, <1>2, <1>3, <1>4 DEF IInv

\* Each step of a lookup preserves the invariant.
LEMMA LookupIInv == IInv /\ Lookup => IInv'
<1> SUFFICES ASSUME IInv, Lookup PROVE IInv'
  OBVIOUS
<1> USE NameResolutionAssumption DEF IInv, Types, Told, OwnLookup, Remembered, Constructed, url, past
<1>1. CASE SkipServer
  BY <1>1 DEF SkipServer
<1>2. CASE SocketFails
  BY <1>2 DEF SocketFails, ToAsk
<1>3. CASE BadServer
  BY <1>3 DEF BadServer, ToAsk
<1>4. CASE ServerFails
  BY <1>4 DEF ServerFails, CanAsk, ToAsk
<1>5. CASE BadAnswer
  BY <1>5 DEF BadAnswer, CanAsk, ToAsk
<1>6. CASE GoodAnswer
  BY <1>6 DEF GoodAnswer, CanAsk, ToAsk
<1>7. CASE NobodyKnows
  BY <1>7 DEF NobodyKnows
<1>8. CASE Return
  BY <1>8 DEF Return
<1> QED
  BY <1>1, <1>2, <1>3, <1>4, <1>5, <1>6, <1>7, <1>8 DEF Lookup

\* Each step preserves the invariant.
LEMMA NextIInv == IInv /\ [Next]_vars => IInv'
<1> SUFFICES ASSUME IInv, [Next]_vars PROVE IInv'
  OBVIOUS
<1> USE DEF IInv, Types, Told, OwnLookup, Remembered, Constructed
<1>1. CASE Lookup
  BY <1>1, LookupIInv
<1>2. CASE Resolve
  <2>1. calls' \in Nat /\ calls' # 0
    BY <1>2 DEF Resolve
  <2>2. UNCHANGED <<resolved, urlError, made, error, addresses>> /\ host' \in Hosts /\ pc' = "ask"
    BY <1>2, NameResolutionAssumption DEF Resolve, BeginLookup
  <2>3. lookupError' = FALSE /\ troubled' = FALSE /\ answered' = FALSE /\ answer' = "none"
    BY <1>2 DEF Resolve, BeginLookup
  <2> QED
    BY <2>1, <2>2, <2>3
<1>3. CASE SetAuthority
  BY <1>3 DEF SetAuthority, lookup, past
<1>4. CASE MakeRequest
  BY <1>4, NameResolutionAssumption DEF MakeRequest, BeginLookup, lookup
<1>5. CASE UNCHANGED vars
  BY <1>5 DEF vars, url, lookup, past
<1> QED
  BY <1>1, <1>2, <1>3, <1>4, <1>5 DEF Next, Done

\* The invariant holds in every behaviour.
THEOREM Invariance == Spec => []IInv
  BY InitIInv, NextIInv, PTL DEF Spec

\* A request without an address for its host can be told from one with, for any
\* number of servers and of calls of resolve.
THEOREM NoAddressIsTold == Spec => []MissingAddressIsTold
<1>1. IInv => MissingAddressIsTold
  BY DEF IInv, Told, MissingAddressIsTold, Constructed
<1> QED
  BY <1>1, Invariance, PTL

\* A request that resolved its own Url has an error or its own host's addresses.
THEOREM OwnLookupSound == Spec => []OwnLookupIsSound
<1>1. IInv => OwnLookupIsSound
  BY DEF IInv, OwnLookup, OwnLookupIsSound
<1> QED
  BY <1>1, Invariance, PTL

\* A Url becomes resolved only behind an answer with addresses and without trouble.
LEMMA NoTroubleForgiven == IInv /\ [Next]_vars => [~resolved /\ resolved' => answered /\ ~troubled]_vars
<1> SUFFICES ASSUME IInv, [Next]_vars, ~resolved, resolved' PROVE answered /\ ~troubled
  OBVIOUS
<1>1. Return
  BY DEF Next, Lookup, SkipServer, SocketFails, BadServer, ServerFails, BadAnswer, GoodAnswer,
         NobodyKnows, Resolve, SetAuthority, MakeRequest, Done, vars, url
<1>2. pc = "return" /\ ~lookupError /\ answer = "addresses"
  BY <1>1 DEF Return
<1> QED
  BY <1>2 DEF IInv, Types, Remembered

\* No answer makes up for a server that could not be asked before.
THEOREM TroubleIsFinal == Spec => ResolvedWithoutTrouble
  BY NoTroubleForgiven, Invariance, PTL DEF Spec, ResolvedWithoutTrouble

\* The types hold for any number of servers, hosts and calls: no server is asked
\* past the last one of the list.
LEMMA InitTypes == Init => TypeOK
<1> SUFFICES ASSUME Init PROVE TypeOK
  OBVIOUS
<1>1. server \in 0 .. Servers /\ calls \in 0 .. MaxCalls
  BY NameResolutionAssumption DEF Init
<1>2. {resolved, urlError, lookupError, made, error, troubled, answered} \subseteq BOOLEAN
  BY DEF Init
<1> QED
  BY <1>1, <1>2 DEF Init, TypeOK

LEMMA NextTypes == TypeOK /\ [Next]_vars => TypeOK'
<1> SUFFICES ASSUME TypeOK, [Next]_vars PROVE TypeOK'
  OBVIOUS
<1> USE NameResolutionAssumption DEF TypeOK, url, past
<1>1. CASE SkipServer
  BY <1>1 DEF SkipServer
<1>2. CASE SocketFails
  BY <1>2 DEF SocketFails, ToAsk
<1>3. CASE BadServer
  BY <1>3 DEF BadServer, ToAsk
<1>4. CASE ServerFails
  BY <1>4 DEF ServerFails, CanAsk, ToAsk
<1>5. CASE BadAnswer
  BY <1>5 DEF BadAnswer, CanAsk, ToAsk
<1>6. CASE GoodAnswer
  BY <1>6 DEF GoodAnswer, CanAsk, ToAsk
<1>7. CASE NobodyKnows
  <2>1. UNCHANGED <<host, addresses, resolved, local, server, lookupError, answer, made, past>> /\ pc' = "idle"
    BY <1>7 DEF NobodyKnows
  <2>2. urlError' \in BOOLEAN /\ error' \in BOOLEAN
    BY <1>7 DEF NobodyKnows
  <2> QED
    BY <2>1, <2>2
<1>8. CASE Return
  <2>1. UNCHANGED <<host, local, server, lookupError, answer, made, past>> /\ pc' = "idle"
    BY <1>8 DEF Return
  <2>2. addresses' \in Hosts \union {NoHost} /\ resolved' \in BOOLEAN /\ urlError' \in BOOLEAN /\ error' \in BOOLEAN
    BY <1>8 DEF Return
  <2> QED
    BY <2>1, <2>2
<1>9. CASE Resolve
  <2>1. UNCHANGED <<addresses, resolved, urlError, made, error, local>> /\ host' \in Hosts /\ pc' = "ask"
    BY <1>9 DEF Resolve, BeginLookup
  <2>2. lookupError' = FALSE /\ troubled' = FALSE /\ answered' = FALSE /\ answer' = "none" /\ server' = 0
    BY <1>9 DEF Resolve, BeginLookup
  <2>3. calls' \in 0 .. MaxCalls /\ server' \in 0 .. Servers
    BY <1>9, <2>2 DEF Resolve
  <2>4. {resolved, urlError, lookupError, made, error, troubled, answered}' \subseteq BOOLEAN
    BY <2>1, <2>2
  <2> QED
    BY <2>1, <2>2, <2>3, <2>4
<1>10. CASE SetAuthority
  BY <1>10 DEF SetAuthority, lookup
<1>11. CASE MakeRequest
  <2>1. UNCHANGED <<addresses, resolved, urlError, error, calls, local>> /\ made' = TRUE /\ host' \in Hosts
    BY <1>11 DEF MakeRequest, BeginLookup, lookup
  <2>2. /\ lookupError' \in BOOLEAN /\ troubled' \in BOOLEAN /\ answered' \in BOOLEAN
        /\ answer' \in {answer, "none"} /\ pc' \in {pc, "ask"} /\ server' \in {server, 0}
    BY <1>11 DEF MakeRequest, BeginLookup, lookup
  <2> QED
    BY <2>1, <2>2
<1>12. CASE UNCHANGED vars
  BY <1>12 DEF vars, lookup
<1> QED
  BY <1>1, <1>2, <1>3, <1>4, <1>5, <1>6, <1>7, <1>8, <1>9, <1>10, <1>11, <1>12 DEF Next, Lookup, Done

\* Every variable keeps its type, and the index of the server to ask never leaves
\* the list of servers.
THEOREM LookupTypes == Spec => []TypeOK
  BY InitTypes, NextTypes, PTL DEF Spec

-----------------------------------------------------------------------------
(* The resolution with its datagrams. *)

\* Whatever a server answers, the resolution goes on by one of its own steps.
LEMMA LookupStepsResolve ==
    ASSUME [LookupNext]_allVars
    PROVE  [Next]_vars
<1>1. CASE LookupSteps
  <2>1. Answered => BadAnswer \/ GoodAnswer
    <3>1. \A parsed : Receive(parsed) => BadAnswer \/ GoodAnswer
      BY DEF Receive
    <3> QED
      BY <3>1 DEF Answered
  <2>2. TakeOver => Return
    BY DEF TakeOver
  <2> QED
    BY <1>1, <2>1, <2>2 DEF LookupSteps, NoAnswer, Next, Lookup
<1>2. CASE UserSteps
  BY <1>2 DEF UserSteps, Next
<1>3. CASE UNCHANGED allVars
  BY <1>3 DEF allVars
<1> QED
  BY <1>1, <1>2, <1>3 DEF LookupNext

\* The resolution with its datagrams takes only the steps of NameResolution: what is
\* proved of these holds of the two together.
THEOREM LookupIsResolution == LookupSpec => Init /\ [][Next]_vars
<1>1. LookupInit => Init
  BY DEF LookupInit
<1>2. [LookupNext]_allVars => [Next]_vars
  BY LookupStepsResolve
<1> QED
  BY <1>1, <1>2, PTL DEF LookupSpec

\* So the invariant holds with datagrams too, whatever the servers write in them.
LEMMA LookupInvariance == LookupSpec => []IInv
  BY LookupIsResolution, InitIInv, NextIInv, PTL

\* Types; a request without an address has an error, or its Url has; a request that
\* resolved its own Url has its own host's addresses or an error; no answer makes up
\* for a server that could not be asked.
THEOREM LookupSafety ==
    LookupSpec => []TypeOK /\ []MissingAddressIsTold /\ []OwnLookupIsSound /\ ResolvedWithoutTrouble
<1>1. LookupSpec => []TypeOK
  BY LookupIsResolution, InitTypes, NextTypes, PTL
<1>2. IInv => MissingAddressIsTold /\ OwnLookupIsSound
  BY DEF IInv, Told, OwnLookup, MissingAddressIsTold, OwnLookupIsSound, Constructed
<1>3. LookupSpec => ResolvedWithoutTrouble
  BY LookupIsResolution, LookupInvariance, NoTroubleForgiven, PTL DEF ResolvedWithoutTrouble
<1> QED
  BY <1>1, <1>2, <1>3, LookupInvariance, PTL

\* The response that a lookup has to hand over is for the host it looked up, and so
\* is what the Url took over before.
NamesTheHost(list, h) == list # <<>> /\ Head(list) = Text(h)
Carried ==
    /\ pc = "ask" => answer # "addresses"
    /\ pc = "return" /\ answer = "addresses" => response.ips # <<>> /\ NamesTheHost(response.aliases, host)
    /\ pc = "return" /\ answer # "addresses" /\ ~lookupError => response.ips = <<>>
    /\ addresses # NoHost => NamesTheHost(aliases, addresses)

\* A datagram shorter than a header is rejected.
LEMMA ShortDatagram == Response(Id, Id).error
  BY DnsLookupAssumption DEF Response, HeaderSize, Rejected, Nothing

\* An answer is an error, or has no address, or is for the host.
LEMMA AnsweredCarried ==
    ASSUME RepliesBeginWithHost, Types, Carried, Answered
    PROVE  Carried'
<1>1. ASSUME NEW parsed, Receive(parsed),
             ~parsed.error /\ parsed.ips # <<>> => NamesTheHost(parsed.aliases, host)
      PROVE  Carried'
  <2>1. response' = parsed /\ UNCHANGED <<host, addresses, ips, aliases, lookupError>> /\ pc = "ask"
    BY <1>1 DEF Receive, BadAnswer, GoodAnswer, CanAsk, ToAsk, urlLists, url
  <2>2. CASE parsed.error
    <3>1. pc' = "ask" /\ answer' = "bad"
      BY <1>1, <2>1, <2>2 DEF Receive, BadAnswer
    <3> QED
      BY <2>1, <3>1 DEF Carried
  <2>3. CASE ~parsed.error
    <3>1. pc' = "return" /\ answer' = IF parsed.ips = <<>> THEN "empty" ELSE "addresses"
      BY <1>1, <2>1, <2>3 DEF Receive, GoodAnswer
    <3> QED
      BY <1>1, <2>1, <2>3, <3>1 DEF Carried
  <2> QED
    BY <2>2, <2>3
<1>2. ASSUME NEW name \in Understands[host], NEW c \in Contents, Receive(Parsed[name, c]) PROVE Carried'
  BY <1>1, <1>2 DEF RepliesBeginWithHost, NamesTheHost, Types
<1>3. ASSUME Receive(Response(Id, Id)) PROVE Carried'
  BY <1>1, <1>3, ShortDatagram
<1> QED
  BY <1>2, <1>3 DEF Answered

\* Every step keeps names and addresses together.
LEMMA NextCarried ==
    ASSUME RepliesBeginWithHost, IInv, Carried, [LookupNext]_allVars
    PROVE  Carried'
<1>1. CASE NoAnswer
  BY <1>1 DEF NoAnswer, SkipServer, SocketFails, BadServer, ServerFails, ToAsk, CanAsk, url, messageVars, urlLists, Carried
<1>2. CASE Answered
  BY <1>2, AnsweredCarried DEF IInv
<1>3. CASE TakeOver
  <2>1. pc = "return" /\ pc' = "idle" /\ host \in Hosts /\ host # NoHost
    BY <1>3, NameResolutionAssumption DEF TakeOver, Return, IInv, Types
  <2>2. CASE lookupError
    BY <1>3, <2>1, <2>2 DEF TakeOver, Return, Carried
  <2>3. CASE ~lookupError /\ answer = "addresses"
    BY <1>3, <2>1, <2>3 DEF TakeOver, Return, Carried
  <2>4. CASE ~lookupError /\ answer # "addresses"
    BY <1>3, <2>1, <2>4 DEF TakeOver, Return, Carried
  <2> QED
    BY <2>2, <2>3, <2>4
<1>4. CASE NobodyKnows /\ Forget /\ UNCHANGED urlLists
  BY <1>4 DEF NobodyKnows, urlLists, Carried
<1>5. CASE UserSteps
  <2>1. UNCHANGED <<addresses, messageVars, urlLists>>
    BY <1>5 DEF UserSteps, Resolve, SetAuthority, MakeRequest, Done, vars, url
  <2>2. \/ pc' = "ask" /\ answer' = "none"
        \/ pc' \notin {"ask", "return"}
        \/ UNCHANGED vars
    BY <1>5 DEF UserSteps, Resolve, SetAuthority, MakeRequest, BeginLookup, Done, lookup
  <2> QED
    BY <2>1, <2>2 DEF vars, url, lookup, messageVars, urlLists, Carried
<1>6. CASE UNCHANGED allVars
  BY <1>6 DEF allVars, vars, url, lookup, messageVars, urlLists, Carried
<1> QED
  BY <1>1, <1>2, <1>3, <1>4, <1>5, <1>6 DEF LookupNext, LookupSteps

\* Where the parser finds the host in front of its addresses, a Url with addresses
\* has the name they are for as its first alias, however often it is resolved and
\* renamed, and whatever fails.
THEOREM FirstAliasIsOfAddresses ==
    ASSUME RepliesBeginWithHost
    PROVE  LookupSpec => []FirstAliasHasAddresses
<1>1. LookupInit => Carried
  BY DEF LookupInit, Init, Carried
<1>2. IInv /\ Carried /\ [LookupNext]_allVars => Carried'
  BY NextCarried
<1>3. Carried => FirstAliasHasAddresses
  BY DEF Carried, NamesTheHost, FirstAliasHasAddresses
<1> QED
  BY <1>1, <1>2, <1>3, LookupInvariance, PTL DEF LookupSpec
=============================================================================
