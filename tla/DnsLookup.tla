------------------------------ MODULE DnsLookup ------------------------------
(***************************************************************************)
(* The resolution of names together with the datagrams it lives by:        *)
(* NameResolution, where an answer is a datagram that a server wrote for   *)
(* the query it was sent, and that DnsResponse parsed (DnsMessages); and   *)
(* with the addresses and aliases that the Url takes over.                 *)
(***************************************************************************)
EXTENDS NameResolution, DnsMessages

CONSTANTS
    Id,         \* the two octets of m_id
    Contents    \* what a server may answer: [id, code, chain, ips, rest], where chain
                \* is a sequence of names that lead from one to the next, and rest a
                \* sequence of types of records that follow the addresses

ASSUME DnsLookupAssumption ==
    Id \in Seq(0 .. 255) /\ Len(Id) = 2 /\ NoHost = <<>>

VARIABLES
    reply,      \* the last reply of a server, as the server meant it
    response,   \* m_response of the lookup, as DnsResponse parsed it
    ips,        \* m_host_ip of the Url
    aliases     \* m_aliases of the Url

messageVars == <<reply, response>>
urlLists == <<ips, aliases>>
allVars == <<vars, messageVars, urlLists>>

LookupInit ==
    /\ Init
    /\ reply = NoReply /\ response = Nothing
    /\ ips = <<>> /\ aliases = <<>>

-----------------------------------------------------------------------------
(* The server: it understands the query, and follows the chain of names. *)

Understands == [h \in Hosts |-> {name \in Hosts : Asks(Query(Id, Text(h)), name)}]

Owner(name, chain, k) == IF k = 0 THEN name ELSE chain[k]
Reply(name, c) ==
    LET last == Owner(name, c.chain, Len(c.chain))
    IN [id |-> c.id, code |-> c.code, question |-> name,
        records |-> [k \in 1 .. Len(c.chain) |-> [owner |-> Owner(name, c.chain, k - 1), type |-> 5, target |-> c.chain[k]]]
                 \o [k \in 1 .. Len(c.ips) |-> [owner |-> last, type |-> 1, target |-> c.ips[k]]]
                 \o [k \in 1 .. Len(c.rest) |-> [owner |-> name, type |-> c.rest[k], target |-> <<>>]]]

\* What DnsResponse makes of each reply.
Parsed == [name \in Hosts, c \in Contents |-> Response(Datagram(Reply(name, c)), Id)]

\* Of a reply to the query for a host, the parser makes an error, or a list of names
\* that begins with the host if there are addresses.
RepliesBeginWithHost ==
    \A h \in Hosts : \A name \in Understands[h], c \in Contents :
        ~Parsed[name, c].error /\ Parsed[name, c].ips # <<>> =>
            Parsed[name, c].aliases # <<>> /\ Head(Parsed[name, c].aliases) = Text(h)

\* A datagram arrives: one that is shorter than a header, or a reply.
Receive(parsed) ==
    /\ response' = parsed
    /\ IF response'.error
       THEN BadAnswer
       ELSE GoodAnswer /\ answer' = IF response'.ips = <<>> THEN "empty" ELSE "addresses"
    /\ UNCHANGED urlLists

Answered ==
    /\ CanAsk
    /\ \/ \E name \in Understands[host], c \in Contents : reply' = Reply(name, c) /\ Receive(Parsed[name, c])
       \/ reply' = NoReply /\ Receive(Response(Id, Id))

\* DnsRequest is gone, with its response.
Forget == reply' = NoReply /\ response' = Nothing

\* resolve moves the lists out of the response, unless there was an error; without
\* an address it leaves the aliases the Url had.
TakeOverAddressesOnly ==
    /\ Return
    /\ ips' = IF lookupError THEN ips ELSE response.ips
    /\ UNCHANGED aliases
    /\ Forget
TakeOver ==
    /\ Return
    /\ ips' = IF lookupError THEN ips ELSE response.ips
    /\ aliases' = IF lookupError \/ response.ips = <<>> THEN aliases ELSE response.aliases
    /\ Forget

NoAnswer ==
    /\ SkipServer \/ SocketFails \/ BadServer \/ ServerFails
    /\ UNCHANGED <<messageVars, urlLists>>

LookupSteps == NoAnswer \/ Answered \/ TakeOver \/ (NobodyKnows /\ Forget /\ UNCHANGED urlLists)

UserSteps == (Resolve \/ SetAuthority \/ MakeRequest \/ Done) /\ UNCHANGED <<messageVars, urlLists>>

LookupNext == LookupSteps \/ UserSteps

LookupSpec == LookupInit /\ [][LookupNext]_allVars /\ WF_allVars(LookupSteps)

-----------------------------------------------------------------------------
(* Properties *)

\* A server reads the name of the host, and no other, from the query.  Its reply is
\* understood by the parser exactly if it is a success, for this query, and has
\* address and alias records only; then the response has the addresses of the reply
\* in its order, and the names that lead to them, whatever is compressed.
ResponseDecodesReply ==
    /\ pc = "ask" => Understands[host] = {host}
    /\ reply # NoReply =>
        /\ response.error <=> ~Understood(reply, Id)
        /\ ~response.error =>
              /\ response.ips = Addresses(reply)
              /\ response.aliases = Names(reply)

\* The first alias of a Url with addresses is the name that has them, also if the
\* Url is renamed, resolved again and gets an empty answer or an error.
FirstAliasHasAddresses ==
    addresses # NoHost => aliases # <<>> /\ Head(aliases) = Text(addresses)

=============================================================================
