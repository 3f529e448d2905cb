----------------------------- MODULE DnsMessages -----------------------------
(***************************************************************************)
(* The datagrams of a DNS lookup: the query that the constructor of        *)
(* DnsRequest composes, and what the constructor of DnsResponse makes of   *)
(* the octets a server sends; and, for reference, how a server writes them. *)
(*                                                                         *)
(* A name is a sequence of labels, a label a sequence of octets.  Offsets  *)
(* count from 0, like the iterators of the code.  What a malformed datagram *)
(* makes the parser do (it never compares an offset with the end but at    *)
(* the start of a record) is left out, and so are pointers beyond 127,     *)
(* which it takes as negative.                                             *)
(***************************************************************************)
EXTENDS Integers, SequencesExt

Dot == 46
Pointer == 192      \* the octet that says that an offset follows
HeaderSize == 12
U16(n) == <<n \div 256, n % 256>>

\* "example.com" of <<"example", "com">>
Text(name) == FlattenSeq([k \in 1 .. Len(name) |-> IF k = 1 THEN name[k] ELSE <<Dot>> \o name[k]])

-----------------------------------------------------------------------------
(* The query. *)

\* The label before the end of s.data gets its length in front.
Measured(s) == [s.data EXCEPT ![Len(s.data) - s.size] = s.size]

Labels(host) ==
    LET Put(s, ch) == IF ch = Dot THEN [data |-> Append(Measured(s), 0), size |-> 0]
                       ELSE [data |-> Append(s.data, ch), size |-> s.size + 1]
    IN Measured(FoldLeft(Put, [data |-> <<0>>, size |-> 0], host))

\* Recursion desired, one question: an address on the internet.
Query(id, host) ==
    id \o <<1, 0>> \o U16(1) \o U16(0) \o U16(0) \o U16(0)
       \o Append(Labels(host), 0) \o U16(1) \o U16(1)

-----------------------------------------------------------------------------
(* The response. *)

Octet(data, i) == data[i + 1]
At16(data, i) == 256 * Octet(data, i) + Octet(data, i + 1)
Label(data, i) == SubSeq(data, i + 2, i + 1 + Octet(data, i))
Behind(data, i) == i + 1 + Octet(data, i)

\* static_cast<int8_t>
Signed(octet) == IF octet < 128 THEN octet ELSE octet - 256

Offsets(data) == 0 .. Len(data)
NameFromPointer(data, start) ==
    LET name[i \in Offsets(data)] ==
            IF Octet(data, i) = 0 THEN <<>>
            ELSE IF Octet(data, i) = Pointer THEN name[Signed(Octet(data, i + 1))]
            ELSE Label(data, i) \o (IF Octet(data, Behind(data, i)) = 0 THEN <<>> ELSE <<Dot>>) \o name[Behind(data, i)]
    IN name[Signed(start)]

\* The question is read, and not looked at.
BehindQuestion(data) ==
    LET behind[i \in Offsets(data)] == IF Octet(data, i) = 0 THEN i + 5 ELSE behind[Behind(data, i)]
    IN behind[HeaderSize]

\* The target of a CNAME record, and where it ended.
Alias(data, start, end) ==
    LET alias[i \in Offsets(data)] ==
            IF i = end THEN [name |-> <<>>, at |-> i]
            ELSE IF Octet(data, i) = Pointer
            THEN [alias[i + 2] EXCEPT !.name = NameFromPointer(data, Octet(data, i + 1)) \o @]
            ELSE IF Octet(data, Behind(data, i)) = 0
            THEN [name |-> Label(data, i), at |-> Behind(data, i) + 1]
            ELSE [alias[Behind(data, i)] EXCEPT !.name = Label(data, i) \o <<Dot>> \o @]
    IN alias[start]

\* The record at an offset: the name in front of it, if it is a pointer, its type,
\* its data, and where it ended.
RecordAt(data, i) ==
    LET owned == Octet(data, i) = Pointer
        at == IF owned THEN i + 2 ELSE i
        start == at + 10
        alias == Alias(data, start, start + At16(data, at + 8))
        type == At16(data, at)
    IN [owner |-> IF owned THEN NameFromPointer(data, Octet(data, i + 1)) ELSE <<>>,
        type |-> type,
        target |-> CASE type = 1 -> SubSeq(data, start + 1, start + 4) [] type = 5 -> alias.name [] OTHER -> <<>>,
        end |-> IF type = 5 THEN alias.at ELSE start + 4]

\* The records are read to the end of the datagram, whatever the header counts, or
\* to one that is neither an address nor an alias.
Supported(record) == record.type \in {1, 5}
Records(data) ==
    LET from[i \in Offsets(data)] ==
            IF i = Len(data) THEN <<>>
            ELSE <<RecordAt(data, i)>> \o (IF Supported(RecordAt(data, i)) THEN from[RecordAt(data, i).end] ELSE <<>>)
    IN from[BehindQuestion(data)]

WithAlias(aliases, name) ==
    IF name = <<>> \/ (aliases # <<>> /\ Last(aliases) = name) THEN aliases ELSE Append(aliases, name)

Take(r, record) ==
    LET owned == WithAlias(r.aliases, record.owner)
    IN [error |-> ~Supported(record),
        ips |-> IF record.type = 1 THEN Append(r.ips, record.target) ELSE r.ips,
        aliases |-> IF record.type = 5 /\ Last(owned) # record.target THEN Append(owned, record.target) ELSE owned]

Nothing == [error |-> FALSE, ips |-> <<>>, aliases |-> <<>>]
Rejected == [Nothing EXCEPT !.error = TRUE]

ResponseToAnyId(data, id) ==
    IF Len(data) < HeaderSize \/ At16(data, 2) % 16 # 0 THEN Rejected
    ELSE FoldLeft(Take, Nothing, Records(data))
Response(data, id) ==
    IF Len(data) < HeaderSize \/ SubSeq(data, 1, 2) # id \/ At16(data, 2) % 16 # 0 THEN Rejected
    ELSE FoldLeft(Take, Nothing, Records(data))

-----------------------------------------------------------------------------
(* The server, external.  Its reply has a question (a name), a return code, *)
(* an id, and records: [owner, type, target] where the target of an address *)
(* record is its four octets, and that of a CNAME record a name.            *)

NoReply == [question |-> <<>>]

\* A name as octets at an offset: as much of its end as was written before is a
\* pointer there.  seen has the offset of each name written so far.
Suffix(name, k) == SubSeq(name, k, Len(name))
Known(name, seen) == {k \in 1 .. Len(name) : Suffix(name, k) \in DOMAIN seen}
Cut(name, seen) == IF Known(name, seen) = {} THEN Len(name) + 1 ELSE Min(Known(name, seen))
LabelOctets(name, upTo) == FlattenSeq([k \in 1 .. upTo |-> <<Len(name[k])>> \o name[k]])
NameOctets(name, seen) ==
    LET cut == Cut(name, seen)
    IN LabelOctets(name, cut - 1) \o (IF cut > Len(name) THEN <<0>> ELSE <<Pointer, seen[Suffix(name, cut)]>>)

\* What is seen once a name was written at an offset.
Seen(name, offset, seen) ==
    LET fresh == {Suffix(name, k) : k \in 1 .. Cut(name, seen) - 1}
        At(suffix) == offset + Len(LabelOctets(name, Len(name) - Len(suffix)))
    IN [n \in DOMAIN seen \union fresh |-> IF n \in DOMAIN seen THEN seen[n] ELSE At(n)]

\* A question as the server reads it from a query.
Asks(query, name) ==
    SubSeq(query, HeaderSize + 1, Len(query)) = LabelOctets(name, Len(name)) \o <<0>> \o U16(1) \o U16(1)

Datagram(reply) ==
    LET none == [n \in {} |-> 0]
        first == [data |-> reply.id \o <<129, 128 + reply.code>> \o U16(1) \o U16(Len(reply.records)) \o U16(0) \o U16(0)
                             \o NameOctets(reply.question, none) \o U16(1) \o U16(1),
                  seen |-> Seen(reply.question, HeaderSize, none)]
        Write(s, record) ==
            LET head == s.data \o NameOctets(record.owner, s.seen) \o U16(record.type) \o U16(1) \o U16(0) \o U16(60)
                target == IF record.type = 5 THEN NameOctets(record.target, s.seen) ELSE record.target
            IN [data |-> head \o U16(Len(target)) \o target,
                seen |-> IF record.type = 5 THEN Seen(record.target, Len(head) + 2, s.seen) ELSE s.seen]
    IN FoldLeft(Write, first, reply.records).data

\* What a reply says, without its octets.
Addresses(reply) ==
    LET Address(record) == record.type = 1
        found == SelectSeq(reply.records, Address)
    IN [k \in 1 .. Len(found) |-> found[k].target]

\* The names in the order in which the records lead from one to the next.
Names(reply) ==
    LET Follow(names, record) ==
            LET owner == IF names # <<>> /\ Last(names) = Text(record.owner) THEN names ELSE Append(names, Text(record.owner))
            IN IF record.type = 5 THEN Append(owner, Text(record.target)) ELSE owner
    IN FoldLeft(Follow, <<>>, reply.records)

Understood(reply, id) ==
    /\ reply.id = id /\ reply.code = 0
    /\ \A k \in 1 .. Len(reply.records) : reply.records[k].type \in {1, 5}
=============================================================================
