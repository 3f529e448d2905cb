----------------------------- MODULE MCDnsLookup -----------------------------
(* An instance of DnsLookup for TLC: labels of one or three letters. *)
EXTENDS DnsLookup

www == <<119, 119, 119>>
a == <<97>>
b == <<98>>
org == <<111, 114, 103>>

SomeHosts == {<<www, a, org>>, <<a, org>>, <<b, org>>}
BareHosts == [h \in SomeHosts |-> IF h[1] = www THEN Tail(h) ELSE h]
NoName == <<>>
OurId == <<7, 200>>

\* Aliases that share all, the end, or nothing of a name written before.
Shared == << <<b, a, org>> >>
Unrelated == << <<b, b>>, <<a, b>> >>
Back == << <<b, a, org>>, <<b, org>> >>
One == << <<192, 0, 2, 1>> >>
Two == << <<192, 0, 2, 1>>, <<0, 5, 0, 1>> >>

Content(id, code, chain, list, rest) == [id |-> id, code |-> code, chain |-> chain, ips |-> list, rest |-> rest]
SomeContents ==
    {Content(OurId, 0, chain, list, <<>>) : chain \in {<<>>, Shared, Unrelated, Back}, list \in {<<>>, Two}}
    \union {Content(OurId, 0, chain, One, rest) : chain \in {<<>>, Unrelated}, rest \in {<<2>>, <<28, 1>>}}
    \union {Content(OurId, code, <<>>, One, <<>>) : code \in {0, 3, 9}}
    \union {Content(<<200, 7>>, 0, Shared, One, <<>>)}

\* What the proofs about the aliases of a Url take for granted of these replies.
ASSUME SomeRepliesBegin == RepliesBeginWithHost
=============================================================================
