--------------------------------- MODULE Urls ---------------------------------
(***************************************************************************)
(* Url of source/url.cpp as a value: what its constructor reads from a     *)
(* text, what its setters change, and the text that composeUrl writes; and  *)
(* Params (source/param.cpp), which reads the query.                       *)
(*                                                                         *)
(* A text is a sequence of characters; a word whose letters do not matter,  *)
(* and the name of a scheme, is one character.  The addresses of the host   *)
(* are in NameResolution.                                                  *)
(***************************************************************************)
EXTENDS Integers, SequencesExt

PutCharacter(pieces, ch, sep) == IF ch = sep THEN Append(pieces, <<>>) ELSE [pieces EXCEPT ![Len(pieces)] = Append(@, ch)]
Split(text, sep) == FoldLeft(LAMBDA pieces, ch : PutCharacter(pieces, ch, sep), << <<>> >>, text)
Join(pieces, sep) == FlattenSeq([k \in 1 .. Len(pieces) |-> IF k = 1 THEN pieces[k] ELSE <<sep>> \o pieces[k]])
Map(Op(_), s) == [k \in 1 .. Len(s) |-> Op(s[k])]

\* Params and Parameter: an "=" in a value is lost, and so is an "&" at the end.
Before(text, sep) == Head(Split(text, sep))
ParseParams(query) ==
    LET pieces == Split(query, "&")
        Parameter(piece) == [name |-> Before(piece, "="), value |-> FlattenSeq(Tail(Split(piece, "=")))]
    IN Map(Parameter, IF Last(pieces) = <<>> THEN Front(pieces) ELSE pieces)

-----------------------------------------------------------------------------
(* Ports: 16 bits, of which the first octet is the high one on the wire.   *)

DefaultPorts == [http |-> 80, https |-> 443, ftp |-> 20, ssh |-> 22, smtp |-> 25, imap |-> 143, pop |-> 995]
Known(scheme) == scheme \in {<<name>> : name \in DOMAIN DefaultPorts}
SwapBytes(port) == (port % 256) * 256 + port \div 256

\* The default port of the scheme, if it has one, whatever the port was.
WithDefaultPort(u) == IF Known(u.scheme) THEN [u EXCEPT !.port = SwapBytes(DefaultPorts[u.scheme[1]])] ELSE u

Digits == [k \in 0 .. 9 |-> <<"0", "1", "2", "3", "4", "5", "6", "7", "8", "9">>[k + 1]]
CharCode(ch) ==     \* of a character that is no digit, any
    CHOOSE code \in 0 .. 255 : (\E k \in 0 .. 9 : ch = Digits[k]) => \E k \in 0 .. 9 : ch = Digits[k] /\ code = 48 + k
\* std::to_string: a number is written without zeros in front.  The powers of ten are a
\* bound on it; five are enough for a port.
DecimalOf(n, powers) ==
    LET all == [k \in 1 .. Len(powers) |-> (n \div powers[k]) % 10]
        first == Min({k \in 1 .. Len(powers) : all[k] # 0} \union {Len(powers)})
    IN Map(LAMBDA k : Digits[k], SubSeq(all, first, Len(powers)))
Decimal(port) == DecimalOf(port, <<10000, 1000, 100, 10, 1>>)

-----------------------------------------------------------------------------
(* The constructor. *)

NewUrl == [scheme |-> <<>>, user |-> <<>>, password |-> <<>>, host |-> <<>>, port |-> 0,
           path |-> <<>>, params |-> <<>>, fragment |-> <<>>]

SchemeEnd == <<":", "/", "/">>
HasScheme(text) == \E k \in 1 .. Len(text) - 2 : SubSeq(text, k, k + 2) = SchemeEnd

\* The regular expression: "://", something, ":", an "@", something, "/".
Positions(text, ch) == {k \in 1 .. Len(text) : text[k] = ch}
HasUser(text) ==
    \E k \in 1 .. Len(text) - 2, colon \in Positions(text, ":"), at \in Positions(text, "@"), slash \in Positions(text, "/") :
        SubSeq(text, k, k + 2) = SchemeEnd /\ k + 3 < colon /\ colon < at /\ at + 1 < slash

\* Which character ends which part, and the part that follows.
Turns ==
    {[part |-> "user", at |-> ":", to |-> "password"], [part |-> "user", at |-> "@", to |-> "host"],
     [part |-> "password", at |-> "@", to |-> "host"],
     [part |-> "host", at |-> ":", to |-> "port"], [part |-> "host", at |-> "/", to |-> "path"],
     [part |-> "port", at |-> "/", to |-> "path"],
     [part |-> "path", at |-> "?", to |-> "query"]}

\* r is the part that is being read, the number of characters to skip, and what was
\* read so far.  A query takes all the rest, a fragment too; a port is the sum of its
\* characters, in 16 bits.
QueryPastFirst(rest) == ParseParams(Tail(rest))
Query(rest) == ParseParams(rest)
Turn(r, ch) == {t \in Turns : t.part = r.part /\ t.at = ch}
ReadPart(r, ch, rest) ==
    CASE r.part = "port" -> [r EXCEPT !.url.port = (@ + CharCode(ch)) % 65536]
      [] r.part = "query" -> [r EXCEPT !.part = IF ch = "#" THEN "fragment" ELSE "over", !.url.params = Query(rest)]
      [] r.part = "fragment" -> [r EXCEPT !.part = "over", !.url.fragment = rest]
      [] r.part = "over" -> r
      [] OTHER -> [r EXCEPT !.url[r.part] = Append(@, ch)]
ReadNext(text, r, k) ==
    IF r.skip > 0 THEN [r EXCEPT !.skip = @ - 1]
    ELSE CASE r.part = "scheme" /\ text[k] = ":" ->
                [r EXCEPT !.part = IF HasUser(text) THEN "user" ELSE "host", !.skip = 2]
           [] Turn(r, text[k]) # {} -> [r EXCEPT !.part = (CHOOSE t \in Turn(r, text[k]) : TRUE).to]
           [] OTHER -> ReadPart(r, text[k], SubSeq(text, k, Len(text)))
StartReading(text) == [part |-> IF HasScheme(text) THEN "scheme" ELSE "host", skip |-> 0, url |-> NewUrl]
ReadUrl(text) == FoldLeft(LAMBDA r, k : ReadNext(text, r, k), StartReading(text), [k \in 1 .. Len(text) |-> k]).url
Url(text) ==
    LET read == ReadUrl(text)
    IN WithDefaultPort([read EXCEPT !.path = IF @ = <<>> THEN <<"/">> ELSE @])

-----------------------------------------------------------------------------
(* Setters that the members do not already say, and composeUrl.            *)

SetSchemeKeepingPort(u, scheme) == [u EXCEPT !.scheme = scheme]
SetScheme(u, scheme) == WithDefaultPort([u EXCEPT !.scheme = scheme])

\* Parameters are not encoded.
QueryText(u) == Join(Map(LAMBDA p : p.name \o <<"=">> \o p.value, u.params), "&")

\* Of a Url with a name, and with a fragment without a character that has a code:
\* with such a character the loop at the end throws, or never ends.
ComposeUrl(u, includePort) ==
    LET If(test, text) == IF test THEN text ELSE <<>>
    IN If(u.scheme # <<>>, u.scheme \o <<":">>)
       \o <<"/", "/">>
       \o If(u.user # <<>>, u.user \o If(u.password # <<>>, <<":">> \o u.password) \o <<"@">>)
       \o u.host
       \o If(u.port # 0 /\ includePort, <<":">> \o Decimal(u.port))
       \o <<"/">> \o u.path
       \o If(u.params # <<>>, <<"?">> \o QueryText(u))
       \o If(u.fragment # <<>>, <<"#">> \o u.fragment)
=============================================================================
