--------------------------- MODULE NameResolution ---------------------------
(***************************************************************************)
(* How a request comes to the addresses of its host: Url::resolve of       *)
(* source/url.cpp, which asks DnsRequest::processRequest of                *)
(* source/dns_request.cpp, and the constructor of RequestBase, which       *)
(* resolves a Url that is not resolved yet.  One thread, one Url, which the *)
(* user may resolve, and rename by setAuthority, before a request takes it. *)
(*                                                                         *)
(* The UDP socket is external: it cannot be made, cannot be bound, written *)
(* or read, or gives a datagram.  A lookup that waits for a datagram for   *)
(* ever is left out.                                                       *)
(***************************************************************************)
EXTENDS Naturals

CONSTANTS
    Hosts,      \* names the Url may have
    Bare,       \* a name without the "www." in front of it, for each name
    NoHost,     \* stands for the empty list of addresses
    Servers,    \* 13, the length of m_dns_servers
    MaxCalls    \* bound: calls of resolve by the user

ASSUME NameResolutionAssumption ==
    NoHost \notin Hosts /\ Hosts # {} /\ Bare \in [Hosts -> Hosts] /\ Servers \in Nat \ {0} /\ MaxCalls \in Nat

VARIABLES
    \* the Url
    host,           \* m_host
    addresses,      \* whose addresses m_host_ip holds
    resolved,       \* m_resolved
    urlError,       \* m_error
    \* the lookup, a DnsRequest
    pc,             \* where it is: "idle", "ask", "return"; or "threw"
    local,          \* m_dns_servers[0]: "empty", "ipv4" or "other", from resolv.conf
    server,         \* the index of the server to ask, from 0
    lookupError,    \* its m_error
    answer,         \* its m_response: "none", "bad", "empty" or "addresses"
    \* the request
    made,           \* the constructor was called, and owns the Url
    error,          \* its m_error, once the constructor returned
    \* what happened
    calls,          \* calls of resolve by the user
    troubled,       \* a server could not be asked in the last lookup, ...
    answered        \* ... and whether one of them gave addresses

url == <<host, addresses, resolved, urlError>>
lookup == <<pc, local, server, lookupError, answer>>
past == <<calls, troubled, answered>>
vars == <<url, lookup, made, error, past>>

Init ==
    /\ host \in Hosts
    /\ addresses = NoHost /\ resolved = FALSE /\ urlError = FALSE
    /\ pc = "idle" /\ local \in {"empty", "ipv4", "other"}
    /\ server = 0 /\ lookupError = FALSE /\ answer = "none"
    /\ made = FALSE /\ error = FALSE
    /\ calls = 0 /\ troubled = FALSE /\ answered = FALSE

TypeOK ==
    /\ host \in Hosts /\ addresses \in Hosts \union {NoHost}
    /\ {resolved, urlError, lookupError, made, error, troubled, answered} \subseteq BOOLEAN
    /\ pc \in {"idle", "ask", "return", "threw"}
    /\ local \in {"empty", "ipv4", "other"}
    /\ server \in 0 .. Servers
    /\ answer \in {"none", "bad", "empty", "addresses"}
    /\ calls \in 0 .. MaxCalls

-----------------------------------------------------------------------------
(* The lookup. *)

\* The host loses its "www.", for good; the local nameserver is read anew, the
\* request and its error are new.
BeginLookup ==
    /\ host' = Bare[host]
    /\ pc' = "ask" /\ server' = 0
    /\ lookupError' = FALSE /\ answer' = "none"
    /\ troubled' = FALSE /\ answered' = FALSE
    /\ UNCHANGED local

\* resolv.conf names no server.
SkipServer ==
    /\ pc = "ask" /\ server = 0 /\ local = "empty"
    /\ server' = 1
    /\ UNCHANGED <<url, pc, local, lookupError, answer, made, error, past>>

ToAskPastTheLast == pc = "ask" /\ (server = 0 => local # "empty")
ToAsk == pc = "ask" /\ server < Servers /\ (server = 0 => local # "empty")

SocketFails ==
    /\ ToAsk
    /\ lookupError' = TRUE /\ troubled' = TRUE
    /\ pc' = "return"
    /\ UNCHANGED <<url, local, server, answer, made, error, calls, answered>>

\* An address that is not IPv4 makes Ipv4's constructor throw a NetworkException,
\* which is no std::runtime_error and leaves resolve.
BadServer ==
    /\ ToAsk
    /\ server = 0 /\ local = "other"
    /\ pc' = "threw"
    /\ UNCHANGED <<url, local, server, lookupError, answer, made, error, past>>

CanAsk == ToAsk /\ (server = 0 => local = "ipv4")

ServerFailsForgiven ==
    /\ CanAsk
    /\ troubled' = TRUE
    /\ server' = server + 1
    /\ UNCHANGED <<url, pc, local, lookupError, answer, made, error, calls, answered>>
ServerFails ==
    /\ CanAsk
    /\ lookupError' = TRUE /\ troubled' = TRUE
    /\ server' = server + 1
    /\ UNCHANGED <<url, pc, local, answer, made, error, calls, answered>>

BadAnswer ==
    /\ CanAsk
    /\ answer' = "bad"
    /\ server' = server + 1
    /\ UNCHANGED <<url, pc, local, lookupError, made, error, past>>

GoodAnswer ==
    /\ CanAsk
    /\ answer' \in {"empty", "addresses"}
    /\ answered' = (answer' = "addresses")
    /\ pc' = "return"
    /\ UNCHANGED <<url, local, server, lookupError, made, error, calls, troubled>>

\* All servers were asked; the runtime_error is caught in resolve.
NobodyKnowsStartOver ==
    /\ pc = "ask" /\ server = Servers
    /\ server' = 0
    /\ UNCHANGED <<url, pc, local, lookupError, answer, made, error, past>>
NobodyKnows ==
    /\ pc = "ask" /\ server = Servers
    /\ urlError' = TRUE
    /\ pc' = "idle"
    /\ error' = made
    /\ UNCHANGED <<host, addresses, resolved, local, server, lookupError, answer, made, past>>

\* The rest of resolve, and of the constructor if that called it.  An answer
\* without addresses takes away the ones the Url had, but not m_resolved.
ReturnKeepingQuiet ==
    /\ pc = "return"
    /\ pc' = "idle"
    /\ IF lookupError
       THEN urlError' = TRUE /\ UNCHANGED <<addresses, resolved>>
       ELSE /\ addresses' = IF answer = "addresses" THEN host ELSE NoHost
            /\ resolved' = TRUE
            /\ UNCHANGED urlError
    /\ error' = (made /\ urlError')
    /\ UNCHANGED <<host, local, server, lookupError, answer, made, past>>
Return ==
    /\ pc = "return"
    /\ pc' = "idle"
    /\ IF lookupError
       THEN urlError' = TRUE /\ UNCHANGED <<addresses, resolved>>
       ELSE IF answer = "addresses"
       THEN addresses' = host /\ resolved' = TRUE /\ UNCHANGED urlError
       ELSE addresses' = NoHost /\ urlError' = TRUE /\ UNCHANGED resolved
    /\ error' = (made /\ urlError')
    /\ UNCHANGED <<host, local, server, lookupError, answer, made, past>>

Lookup == SkipServer \/ SocketFails \/ BadServer \/ ServerFails \/ BadAnswer \/ GoodAnswer \/ NobodyKnows \/ Return

-----------------------------------------------------------------------------
(* The user. *)

Resolve ==
    /\ pc = "idle" /\ ~made
    /\ calls < MaxCalls
    /\ calls' = calls + 1
    /\ BeginLookup
    /\ UNCHANGED <<addresses, resolved, urlError, made, error>>

\* setAuthority: the addresses and m_resolved stay as they are.
SetAuthority ==
    /\ pc = "idle" /\ ~made
    /\ host' \in Hosts
    /\ UNCHANGED <<addresses, resolved, urlError, lookup, made, error, past>>

\* The constructor of RequestBase; the error of a Url that is resolved is not
\* looked at.
MakeRequestUnresolved ==
    /\ pc = "idle" /\ ~made
    /\ made' = TRUE
    /\ UNCHANGED <<url, lookup, error, past>>
MakeRequest ==
    /\ pc = "idle" /\ ~made
    /\ made' = TRUE
    /\ IF resolved THEN UNCHANGED <<host, lookup, troubled, answered>> ELSE BeginLookup
    /\ UNCHANGED <<addresses, resolved, urlError, error, calls>>

Done == (pc = "threw" \/ (made /\ pc = "idle")) /\ UNCHANGED vars

Next == Lookup \/ Resolve \/ SetAuthority \/ MakeRequest \/ Done

\* resolve runs in one thread, which the operating system schedules.
Spec == Init /\ [][Next]_vars /\ WF_vars(Lookup)

-----------------------------------------------------------------------------
(* Properties *)

Constructed == made /\ pc = "idle"

\* A request without an address for its host can be told from one with: it has
\* an error, or at least its Url has one.  (A Url that was resolved before and
\* then got an empty answer makes a request with no error of its own.)
MissingAddressIsTold == Constructed /\ addresses = NoHost => error \/ urlError

\* A request that had to resolve its Url itself has an error or the addresses of
\* its own host, even if the host was renamed before.
OwnLookupIsSound == Constructed /\ calls = 0 => error \/ addresses = host

\* A Url gets resolved only by a lookup that asked every server it came to
\* without trouble: the answer of a later server does not make up for a server
\* that could not be asked.
ResolvedWithoutTrouble == [][~resolved /\ resolved' => answered /\ ~troubled]_vars

\* Each lookup comes to an end, after at most all of the servers.
LookupEnds == pc = "ask" ~> pc \in {"idle", "threw"}
=============================================================================
