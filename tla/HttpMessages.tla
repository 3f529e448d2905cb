---------------------------- MODULE HttpMessages ----------------------------
(***************************************************************************)
(* The text of an HTTP exchange: the Url that is read from a text (Urls)   *)
(* and changed by its setters, the request that is made of it, and that    *)
(* _prepareRequest of a GET, POST or PUT request (source/http_request.cpp) *)
(* composes when it is processed, maybe a second time, from what the user  *)
(* added by then, and the head of the reply that HttpResponse and Header   *)
(* parse; with a server that reads and writes as HTTP has it, for          *)
(* reference.  The code of a character in a URL is a character of its own. *)
(***************************************************************************)
EXTENDS Urls

CONSTANTS
    Written,        \* the URLs a user may write: [scheme, user, password, host, port,
                    \* path, query], texts, the path without the "/" in front of it
    Schemes,        \* what the user may set as scheme, ...
    Hosts,          \* ... as host, ...
    Ports,          \* ... as port, ...
    Paths,          \* ... and as path
    NewParams,      \* parameters the user may add, [name, value]
    NewHeaders,     \* headers the user may add, [name, value]
    Bodies,         \* bodies the user may set, texts
    Heads,          \* [version, status, spaces, headers] a server may answer, where
                    \* spaces is the number of spaces in front of a value
    MaxCalls,       \* bound: calls of the user that change the Url or add to the request
    MaxSent         \* bound: how often the request is processed

\* What the user writes is a URL: a part has none of the characters that end it, no "@"
\* is written but the one behind a user, who has a password, no "#", and there are a
\* scheme and a host.
Without(marks) == Seq(STRING \ marks)
ASSUME UrlsAreWritten ==
    \A w \in Written :
        /\ w.scheme \in Without({":", "@"}) /\ w.scheme # <<>>
        /\ w.user \in Without({":", "@"}) /\ w.password \in Without({"@"}) /\ (w.user = <<>> <=> w.password = <<>>)
        /\ w.host \in Without({":", "/", "@"}) /\ w.host # <<>>
        /\ w.port \in Seq({Digits[k] : k \in 0 .. 9}) /\ Len(w.port) <= 5
        /\ w.path \in Without({"?", "@"}) /\ w.query \in Without({"#", "@"})

\* So is what the user sets; and a path that is set is not empty.
ASSUME PartsAreWritten ==
    /\ Schemes \subseteq Without({":", "@"}) \ {<<>>}
    /\ Hosts \subseteq Without({":", "/", "@"}) \ {<<>>}
    /\ Ports \subseteq Nat
    /\ Paths \subseteq Without({"?", "@"}) \ {<<>>}
    /\ NewParams \subseteq [name : Without({"=", "&", "#", "@"}), value : Seq(STRING)]

\* What a server answers is a reply: a name ends before the first colon, a line
\* before its end, and the space in front of a value is none of it.
IsHead(h) ==
    /\ {h.version, h.status} \subseteq STRING \ {":", "\r", "\n"}
    /\ h.spaces \in Nat
    /\ h.headers \in Seq([name : Seq(STRING), value : Seq(STRING)])
    /\ \A k \in 1 .. Len(h.headers) :
        LET name == h.headers[k].name
            value == h.headers[k].value
        IN /\ \A j \in 1 .. Len(name) : name[j] \notin {":", "\r", "\n"}
           /\ \A j \in 1 .. Len(value) : value[j] \notin {"\r", "\n"}
           /\ value # <<>> => value[1] # " "
ASSUME HeadsAreReplies == \A h \in Heads : IsHead(h)

\* What encodeUrl writes for a character.
Encoded == {" ", "!", "@", "#", "$", "%", "&", "*", "(", ")", "+", "=", "[", "]", ":", ";", "'", ",", "/", "?"}
Code == [ch \in Encoded |->
    CASE ch = " " -> "%20" [] ch = "!" -> "%21" [] ch = "@" -> "%40" [] ch = "#" -> "%23"
      [] ch = "$" -> "%24" [] ch = "%" -> "%25" [] ch = "&" -> "%26" [] ch = "*" -> "%2A"
      [] ch = "(" -> "%28" [] ch = ")" -> "%29" [] ch = "+" -> "%2B" [] ch = "=" -> "%3D"
      [] ch = "[" -> "%5B" [] ch = "]" -> "%5D" [] ch = ":" -> "%3A" [] ch = ";" -> "%3B"
      [] ch = "'" -> "%27" [] ch = "," -> "%2C" [] ch = "/" -> "%2F" [] ch = "?" -> "%3F"]
Codes == {Code[ch] : ch \in DOMAIN Code}

\* No part has what ends it when it is sent, where the code leaves that to the user:
\* it encodes values only.  No code is in a value (a "%" in it has a code itself), and
\* the query of a URL does not end with "&", and has one "=" in each piece at most.
InLine == Without({"\n"})
InWord == Without({" ", "\n"})
InQuery == Without({" ", "\n", "?"})
InValue == Without({"\n"} \union Codes)
IsQueryText(q) ==
    /\ q \in InQuery
    /\ q # <<>> => Last(Split(q, "&")) # <<>>
    /\ \A k \in 1 .. Len(Split(q, "&")) : Len(Split(Split(q, "&")[k], "=")) <= 2
HeaderNames == STRING \ {"\n"}
ASSUME PartsTravel ==
    /\ \A w \in Written : w.host \in InLine /\ w.path \in InWord /\ IsQueryText(w.query)
    /\ Hosts \subseteq InLine /\ Paths \subseteq InWord
    /\ NewParams \subseteq [name : InQuery, value : InValue]
    /\ NewHeaders \subseteq [name : HeaderNames, value : InLine]
    /\ Bodies \subseteq InLine

VARIABLES
    url,            \* the Url; m_url once the request was made
    meant,          \* what the user means by it, in the form of Written, with the
                    \* parameters added, and whether the port was set since the scheme
    method,         \* which of the three classes the request is of
    made,           \* the constructor of the request was called
    error,          \* and gave it Invalid_url
    ssl,            \* m_ssl
    params,         \* m_params of the request
    headers,        \* m_headers
    body,           \* m_body
    composed,       \* m_request_composed
    data,           \* m_request_data
    given,          \* params, headers and body before it was composed
    calls, sent,    \* calls of the user, processings
    head,           \* the head of the reply, as the server meant it
    response        \* m_response

setup == <<url, meant>>
kind == <<method, made, error, ssl>>
request == <<params, headers, body, composed, data, given>>
reply == <<head, response>>
vars == <<setup, kind, request, calls, sent, reply>>

None == [version |-> "none", status |-> "none", headers |-> <<>>]

\* A URL as the rules have it.
UrlText(w) ==
    w.scheme \o SchemeEnd
    \o (IF w.user = <<>> THEN <<>> ELSE w.user \o <<":">> \o w.password \o <<"@">>)
    \o w.host
    \o (IF w.port = <<>> THEN <<>> ELSE <<":">> \o w.port)
    \o <<"/">> \o w.path
    \o (IF w.query = <<>> THEN <<>> ELSE <<"?">> \o w.query)

Init ==
    /\ \E w \in Written :
        /\ url = Url(UrlText(w))
        /\ meant = [scheme |-> w.scheme, user |-> w.user, password |-> w.password, host |-> w.host, port |-> w.port,
                    path |-> w.path, query |-> w.query, added |-> <<>>, portSet |-> FALSE]
    /\ method \in {"GET", "POST", "PUT"} /\ made = FALSE /\ error = FALSE /\ ssl = FALSE
    /\ params = <<>> /\ body = <<>> /\ headers = <<>>
    /\ composed = FALSE /\ data = <<>>
    /\ given = [params |-> <<>>, headers |-> <<>>, body |-> <<>>]
    /\ calls = 0 /\ sent = 0
    /\ head = None /\ response = None

-----------------------------------------------------------------------------
(* Conversions of the code. *)

\* Url.resolve() of the constructor: the name loses its "www.".
Www == <<"w", "w", "w", ".">>
Bare(text) == IF Len(text) >= 4 /\ SubSeq(text, 1, 4) = Www THEN SubSeq(text, 5, Len(text)) ELSE text

\* encodeUrl
EncodeUrl(text) == Map(LAMBDA ch : IF ch \in DOMAIN Code THEN Code[ch] ELSE ch, text)
Plain(text) == \A k \in 1 .. Len(text) : text[k] \notin DOMAIN Code

\* headerValue: of the first header with the name, as it is or capitalized.
Capitalized == [n \in {"content-type", "content-length", "transfer-encoding"} |->
    CASE n = "content-type" -> "Content-Type" [] n = "content-length" -> "Content-Length" [] n = "transfer-encoding" -> "Transfer-Encoding"]
HeaderValue(list, name) ==
    LET found == SelectSeq(list, LAMBDA h : h.name \in {name, Capitalized[name]})
    IN IF found = <<>> THEN <<>> ELSE Head(found).value

-----------------------------------------------------------------------------
(* _prepareRequest. *)

LineEnd == <<"\r", "\n">>
RootedPath == IF url.path = <<>> \/ url.path[1] # "/" THEN <<"/">> \o url.path ELSE url.path
RequestLine(target) == <<method, " ">> \o target \o <<" ", "HTTP/1.1">> \o LineEnd
HeaderLines(list) == FlattenSeq(Map(LAMBDA h : <<h.name, ":">> \o h.value \o LineEnd, list)) \o LineEnd

\* GET: the parameters of the request, then those of its URL; header values are
\* encoded.
GetParams == Join(Map(LAMBDA p : IF p.value = <<>> THEN p.name ELSE p.name \o <<"=">> \o EncodeUrl(p.value), params), "&")
GetQuery ==
    (IF params = <<>> THEN <<>> ELSE <<"?">> \o GetParams)
    \o (IF url.params = <<>> THEN <<>> ELSE (IF params = <<>> THEN <<"?">> ELSE <<"&">>) \o QueryText(url))
ComposeGet ==
    /\ data' = data \o RequestLine(RootedPath \o GetQuery)
                    \o HeaderLines(Map(LAMBDA h : [h EXCEPT !.value = EncodeUrl(@)], headers))
    /\ UNCHANGED <<headers, body>>

\* POST and PUT: the parameters make the body, unless there is one, in the way the
\* content type asks for; the query of the URL is left out.
FormValue(value) ==
    CASE HeaderValue(headers, "content-type") = <<"urlencoded">> -> EncodeUrl(value)
      [] HeaderValue(headers, "content-type") = <<"multipart">> -> <<>>
      [] OTHER -> value
Form == Join(Map(LAMBDA p : p.name \o <<"=">> \o FormValue(p.value), params), "&")
\* Bound: a length of up to ten digits.
LengthText(text) == DecimalOf(Len(text), <<1000000000, 100000000, 10000000, 1000000, 100000, 10000, 1000, 100, 10, 1>>)
ComposeForm ==
    /\ body' = IF body = <<>> THEN Form ELSE body
    /\ headers' = Append(headers, [name |-> "content-length", value |-> LengthText(body')])
    /\ data' = data \o RequestLine(RootedPath) \o HeaderLines(headers') \o body'

Compose == IF method = "GET" THEN ComposeGet ELSE ComposeForm

PrepareRequestAnew ==
    /\ Compose
    /\ given' = IF composed THEN given ELSE [params |-> params, headers |-> headers, body |-> body]
    /\ composed' = TRUE
    /\ UNCHANGED params
PrepareRequest ==
    IF composed THEN UNCHANGED request
    ELSE /\ Compose
         /\ given' = [params |-> params, headers |-> headers, body |-> body]
         /\ composed' = TRUE
         /\ UNCHANGED params

-----------------------------------------------------------------------------
(* The head of a reply. *)

\* Header: up to a line end.  s.line is what was read of one header, s.list the
\* headers before it.  A line feed without a carriage return, which may throw, is
\* left out.
Blank == [name |-> <<>>, value |-> <<>>, nameParsed |-> FALSE, inValue |-> FALSE, cr |-> FALSE]
Grow(line, ch) ==
    IF line.nameParsed
    THEN [line EXCEPT !.inValue = TRUE, !.value = Append(@, ch)]
    ELSE [line EXCEPT !.name = Append(@, ch)]
GrowSplittingAll(s, ch) ==
    CASE ch = ":" -> [s EXCEPT !.line.nameParsed = TRUE]
      [] ch = "\r" -> [s EXCEPT !.line.cr = TRUE]
      [] ch = " " /\ s.line.nameParsed /\ ~s.line.inValue -> s
      [] ch = "\n" /\ s.line.cr -> [line |-> Blank, list |-> Append(s.list, s.line)]
      [] OTHER -> [s EXCEPT !.line = Grow(@, ch)]
ReadCharacter(s, ch) ==
    CASE ch = ":" /\ ~s.line.nameParsed -> [s EXCEPT !.line.nameParsed = TRUE]
      [] ch = "\r" -> [s EXCEPT !.line.cr = TRUE]
      [] ch = " " /\ s.line.nameParsed /\ ~s.line.inValue -> s
      [] ch = "\n" /\ s.line.cr -> [line |-> Blank, list |-> Append(s.list, s.line)]
      [] OTHER -> [s EXCEPT !.line = Grow(@, ch)]

\* HttpHeaders, of the whole head: the status line is one of them.
HttpHeaders(text) ==
    LET read == FoldLeft(ReadCharacter, [line |-> Blank, list |-> <<>>], text)
    IN Map(LAMBDA l : [name |-> l.name, value |-> l.value], read.list)

\* HttpResponse: the version, a space, and the status, which is not initialized if
\* the version is another one.
HttpResponse(text) ==
    IF text[1] = "HTTP/1.1" THEN [status |-> text[3], headers |-> HttpHeaders(text)]
    ELSE [status |-> "uninitialized", headers |-> <<>>]

-----------------------------------------------------------------------------
(* The server, external. *)

Decode(text) == Map(LAMBDA ch : IF ch \in Codes THEN CHOOSE c \in DOMAIN Code : Code[c] = ch ELSE ch, text)
Fields(text) ==
    IF text = <<>> THEN <<>>
    ELSE Map(LAMBDA piece : [name |-> Before(piece, "="), value |-> Decode(Join(Tail(Split(piece, "=")), "="))], Split(text, "&"))

\* A request as the server reads it: lines up to an empty one, and the rest.
ReadRequest(text) ==
    LET lines == Split(text, "\n")
        empty == CHOOSE k \in 1 .. Len(lines) : lines[k] = <<"\r">> /\ \A j \in 1 .. k - 1 : lines[j] # <<"\r">>
        words == Split(Front(lines[1]), " ")
        target == Split(words[2], "?")
    IN [method |-> words[1][1],
        path |-> target[1],
        params |-> Fields(FlattenSeq(Tail(target))),
        headers |-> Map(LAMBDA line : [name |-> line[1], value |-> SubSeq(line, 3, Len(line) - 1)], SubSeq(lines, 2, empty - 1)),
        body |-> FlattenSeq(SubSeq(lines, empty + 1, Len(lines)))]

\* The head of a reply: white space in front of a value means nothing.
HeadText(h) ==
    <<h.version, " ", h.status, " ", "OK">> \o LineEnd
    \o FlattenSeq(Map(LAMBDA line : line.name \o <<":">> \o [k \in 1 .. h.spaces |-> " "] \o line.value \o LineEnd, h.headers))
    \o LineEnd

-----------------------------------------------------------------------------
(* The user, and the exchange. *)

\* A setter of the Url, with a value that it accepts.
Edit(u, m) ==
    /\ ~made
    /\ calls < MaxCalls /\ calls' = calls + 1
    /\ url' = u /\ meant' = m
    /\ UNCHANGED <<kind, request, sent, reply>>

SetUrlScheme == \E s \in Schemes : Edit(SetScheme(url, s), [meant EXCEPT !.scheme = s, !.portSet = @ /\ ~Known(s)])
SetAuthority ==
    \E h \in Hosts : Edit([url EXCEPT !.host = h, !.user = <<>>, !.password = <<>>],
                           [meant EXCEPT !.host = h, !.user = <<>>, !.password = <<>>])
SetPort == \E p \in Ports : Edit([url EXCEPT !.port = p], [meant EXCEPT !.portSet = TRUE])
SetPath == \E p \in Paths : Edit([url EXCEPT !.path = p], [meant EXCEPT !.path = p])
AddUrlParam == \E p \in NewParams : Edit([url EXCEPT !.params = Append(@, p)], [meant EXCEPT !.added = Append(@, p)])

EditUrl == SetUrlScheme \/ SetAuthority \/ SetPort \/ SetPath \/ AddUrlParam

\* The host is looked up first.  (A Url that its user had looked up is in NameResolution:
\* it lost its "www." then, or has a new host since, which keeps it.)
\* The ports are compared as the text of a number in network byte order, the one for
\* encryption as a number in that of the host.
ForHttp == url.scheme \in {<<"http">>, <<"https">>} \/ url.port \in {80, 443}
MakeRequest ==
    /\ ~made /\ made' = TRUE
    /\ error' = ~ForHttp
    /\ url' = [url EXCEPT !.host = Bare(@)]
    /\ headers' = IF ForHttp THEN <<[name |-> "host", value |-> url'.host]>> ELSE <<>>
    /\ ssl' = (ForHttp /\ SwapBytes(url.port) = 443)
    /\ UNCHANGED <<meant, method, params, body, composed, data, given, calls, sent, reply>>

\* What has no name is not added.
Add ==
    /\ made /\ calls < MaxCalls /\ calls' = calls + 1
    /\ \/ \E p \in NewParams : params' = (IF p.name = <<>> THEN params ELSE Append(params, p)) /\ UNCHANGED <<headers, body>>
       \/ \E h \in NewHeaders : headers' = (IF h.name = "" THEN headers ELSE Append(headers, h)) /\ UNCHANGED <<params, body>>
       \/ method # "GET" /\ body' \in Bodies /\ UNCHANGED <<params, headers>>
    /\ UNCHANGED <<setup, kind, composed, data, given, sent, reply>>

Send ==
    /\ made /\ sent < MaxSent /\ sent' = sent + 1
    /\ PrepareRequest
    /\ head' = None /\ response' = None
    /\ UNCHANGED <<setup, kind, calls>>

Receive ==
    /\ sent > 0 /\ head = None
    /\ head' \in Heads
    /\ response' = HttpResponse(HeadText(head'))
    /\ UNCHANGED <<setup, kind, request, calls, sent>>

Over == sent = MaxSent /\ calls = MaxCalls /\ head # None /\ UNCHANGED vars

Next == EditUrl \/ MakeRequest \/ Add \/ Send \/ Receive \/ Over

Spec == Init /\ [][Next]_vars

-----------------------------------------------------------------------------
(* Properties *)

Same(fields, list) == fields = Map(LAMBDA p : [name |-> p.name, value |-> p.value], list)
AllPlain(list) == \A k \in 1 .. Len(list) : Plain(list[k].value)

\* What the server reads is what the user had given when the request was first
\* processed, no matter what was added later and that it is sent again: the host of the
\* URL, though without a "www.", and its path; the parameters of a GET and then those
\* of its URL; the body of a POST or PUT, with its length, or the parameters in its
\* place; and the headers.
\* (Header values of a GET with a character that has a code arrive encoded;
\* parameters added to the Url are never encoded, those of a form only if the content
\* type says so, and they have no values if it is multipart.)
ServerReadsGivenRequest ==
    composed =>
        LET read == ReadRequest(data)
            type == HeaderValue(given.headers, "content-type")
        IN /\ read.method = method
           /\ read.path[1] = "/" /\ (read.path = meant.path \/ Tail(read.path) = meant.path)
           /\ ~error => given.headers[1] = [name |-> "host", value |-> Bare(meant.host)]
           /\ method = "GET" =>
                /\ AllPlain(meant.added) => Same(read.params, given.params \o Fields(meant.query) \o meant.added)
                /\ AllPlain(given.headers) => read.headers = given.headers
                /\ read.body = <<>>
           /\ method # "GET" =>
                /\ Front(read.headers) = given.headers
                /\ Last(read.headers) = [name |-> "content-length", value |-> LengthText(read.body)]
                /\ given.body # <<>> => read.body = given.body
                /\ given.body = <<>> /\ (type = <<"urlencoded">> \/ (type # <<"multipart">> /\ AllPlain(given.params))) =>
                      Same(Fields(read.body), given.params)

\* A request of a URL whose port was not set after its scheme is refused unless it is
\* for http or https, goes to the port of its scheme, in network byte order, and is
\* encrypted exactly if the scheme is https, whatever the user wrote and changed
\* before.  (A port that is written in the URL is never used then.)
EncryptedExactlyForHttps ==
    made /\ ~meant.portSet =>
        /\ error <=> meant.scheme \notin {<<"http">>, <<"https">>}
        /\ ~error => url.port = SwapBytes(DefaultPorts[meant.scheme[1]])
        /\ ssl <=> meant.scheme = <<"https">>

\* A Url reads the text it composes as itself, with or without the port.
\* (If it has a scheme, no fragment, and no user without a password: the text of such
\* a Url is read as another one.)
ComposedUrlReadsBack ==
    ~made /\ AllPlain(meant.added) =>
        \A includePort \in BOOLEAN :
            [Url(ComposeUrl(url, includePort)) EXCEPT !.port = url.port] = url

\* The response has the status and the headers of an HTTP/1.1 reply, in their order,
\* values with colons and spaces in them included, behind the status line.
ClientReadsReply ==
    head.version = "HTTP/1.1" =>
        /\ response.status = head.status
        /\ SubSeq(response.headers, 2, 1 + Len(head.headers)) = head.headers
=============================================================================
