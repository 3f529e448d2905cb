# A verification project for network-requests-handler

This directory holds TLA+ modules that model the library, TLC configurations that check them on
small instances, and proofs that the TLA+ proof system (tlapm) checks for all instances.
`PROJECT.json` lists the components, the runs, the source lines each definition stands for, the
hazards the properties are aimed at, and what was found. Paths below are relative to `src/`.

    tlasany M.tla                              parse a module
    tlc -workers 2 -config C.cfg MCxxx.tla     check one run (the table below)
    tlapm xxxProofs.tla                        check the proofs of a module

## 1. The system

A C++23 library for HTTP(S) and raw TCP requests.

| Component | State | Operations |
|---|---|---|
| Asynchronous handler, `source/request_handler.cpp` | two lists (coroutines, request pointers), a lock, `m_working`, a limit, a thread | `run`, `addRequest`, `setMaxProcessedRequestsCount`, `stop`, the destructor, the worker's loop |
| Thread handler, `source/thread_handler.cpp` | none | `handle_request`: `processRequest` in place, or in a detached thread |
| Request base, `source/base_request.cpp`, `base_request.hpp` | status, error, the flags paused and canceled, the output file, counters, seven lists of callbacks | `setStatus`, `setError`, `addResponseData`, the timeout check, `cancel`, `pauseProcessing`, `continueProcessing`, `signupFor...`, setters |
| HTTP request, `source/http_base_request.tpp` | the request's bytes, the response | `_asyncProcessRequest` (a coroutine), `processRequest` (its blocking twin) |
| Raw request, `source/raw_request.cpp` | the same | the same two |
| Request composition, `source/http_request.cpp` | the request's bytes | `_prepareRequest` of GET, POST, PUT |
| HTTP response, `source/http_response.cpp`, `source/header.cpp` | status, headers, body | its constructor parses the reply's head |
| Name resolution, `source/url.cpp`, `source/dns_request.cpp` | host, addresses, error, resolved; the list of DNS servers | `Url::resolve`, `DnsRequest::processRequest`, the constructor of a request |
| DNS response, `source/dns_response.cpp` | addresses, aliases, error | its constructor parses a datagram |
| Url and parameters, `source/url.cpp`, `source/param.cpp` | the parts of a URL | parsing, composing, checked setters |
| Utilities, IPv4, schemes, status codes, errors | none | conversions and tables |
| sockets, mutex, resumable coroutine, utility | (git submodules, not in the repository) | |

How they interact. A user makes a `Url`, has it resolved or leaves that to the constructor of the
request, signs callbacks up, and gives the request to the asynchronous handler or to
`handle_request`. The handler's one worker thread resumes all coroutines in turn. A coroutine opens
a socket, tries the addresses of the host, writes the request, reads the reply and passes the body
to `addResponseData`. Every change is told through `setStatus`, which runs the user's callbacks,
closes the output file and removes it after a failure. Meanwhile the user may call `cancel`,
`pauseProcessing` and `continueProcessing` from another thread; there is no lock in a request.

What is hard:
- **Two lists that must stay in step**, edited by two statements each, by threads that add and a
  worker that walks them without the lock.
- **A request shared by two threads without a lock**: flags, output file, status.
- **Early returns**: the coroutine has two dozen, and each must have told an outcome.
- **Errors that are never cleared**: a failed address, an earlier processing, an unresolved host.
- **Arrival in parts**: heads, chunk sizes, bodies and line ends come when they come, or never.
- **Callbacks, closing and removing in a fixed order**, which another call may cut into: that of
  another thread, or that of a callback, which may cancel the request that runs it, or sign another
  one up.
- **One worker for all requests**, which sleeps in place for the chunk size of one of them.
- **A Url in parts that depend on each other**: the port follows the scheme, whether a connection is
  encrypted follows the scheme, and what was written is taken apart by a table of separators.
- **A lookup over thirteen servers**, any of which may fail, answer badly or answer nothing.

The correctness of each part:
- handler: lists paired; no coroutine outlives its request; none is resumed after its end; every
  accepted request ends, or is canceled by the destructor; `stop` and the destructor return;
- requests: end; tell one outcome, and never take a failure back; a finished one holds its body; a
  failed or canceled one leaves no file; the program survives;
- handler and requests: who was accepted comes to tell an outcome; a success is not taken back;
- callbacks: all that signed up are told, once, and the last one to be told is not behind;
- messages: a server reads what the user gave; a Url reads back what it composes; https is encrypted;
- names: no address means an error; a lookup ends; a request has the addresses of its own host.

## 2. The modules

| Module | Models | Extends |
|---|---|---|
| `AsyncRequestHandler` | the handler, its worker, adders and owner | |
| `HandledRequests` | the handler composed with the requests it is given, and their users | `AsyncRequestHandler` |
| `RequestBase` | what all requests share, and the user's calls | |
| `Callbacks` | signing up, being told, and calling back from within a callback | |
| `HttpRequest` | the coroutine of an HTTP request, with its peer | `RequestBase` |
| `BlockingHttpRequest` | `processRequest` of an HTTP request | `HttpRequest` |
| `RawRequest` | both processings of a raw request | `RequestBase` |
| `RequestPromise` | abstract: what a request promises to who waits for it | |
| `NameResolution` | from a host name to addresses, up to the constructed request | |
| `DnsMessages` | the query's and the response's octets, and a server's way to write them | |
| `DnsLookup` | the resolution of names with its datagrams, composed | `NameResolution`, `DnsMessages` |
| `Urls` | no state: reading a Url from a text, its setters, `composeUrl`, `Params` | |
| `HttpMessages` | a Url and the request made of it, composing it, parsing heads, and a server that does the reverse | `Urls` |
| `MC...` | constants for TLC | the module named |
| `HandledRequestsProofs`, `CallbacksProofs` | theorems and proofs (section 5), the first one about the handler, too | the module named |
| `UrlsProofs` | lemmas about texts, and how a Url is read | `Urls` |
| `HttpMessagesProofs` | theorems about Urls, requests and replies | `HttpMessages`, `UrlsProofs` |
| `RequestBaseProofs` | lemmas about the calls into a request | `RequestBase` |
| `HttpRequestProofs`, `RawRequestProofs` | theorems about requests, the blocking twin included | `BlockingHttpRequest` and `RawRequest`, with `RequestBaseProofs` |
| `NameResolutionProofs` | theorems about the resolution, alone and with its datagrams | `DnsLookup` |

### AsyncRequestHandler

`requests` and `pointers` are the two lists, by the job (the call of `addRequest`) an element belongs
to. A `std::list` iterator is the position of its element, 0 being the end. This is sound because
elements are only appended by adders and only erased by the worker, which holds the only iterators.
`++` on the end gives the first element, as libstdc++'s circular list does. An action is one access
to shared state: `WhileCheck`, `Look`, `Resume`, `Lock`, `Erase`, `ErasePtr`, `Advance`, `AdvancePtr`
and `EndPass` are the worker's loop; `AddCheck`, `AddLock`, `PushPointer`, `PushRequest` are
`addRequest`; `Run`, `SetLimit`, `Stop`, `Destroy`, `JoinInStop`, `JoinInDestructor`, `CancelAll`
are the owner's. The statement in `Resume` that changes the `uint8_t` counter wraps, with
`CounterRange` for 256.

The unlocked reads of a list that another thread appends to are a data race. The list's accesses are
modelled as atomic, which is how they behave on the usual hardware with libstdc++; a torn list is out
of the model's vocabulary.

An empty `Request` (`std::monostate`) is pushed to the pointer list but has no coroutine. From then
on the lists are out of step: the properties about pairs say so (`~EmptyAdded`), and
`NeverErasesEnd` says when the worker erases at the end of a list.

### HandledRequests

Each step of `AsyncRequestHandler` with what it does to the request of the coroutine it resumes,
refuses or cancels. A request is here what its callbacks told (`told`, for each call of `addRequest`
what was told since it, so that an earlier processing covers nothing) and the flags that outlive a
processing (`failedOnce`, `pausedNow`, `canceledOnce`); `HttpRequest` has what goes on in between.
An `Unresolved` request may have its error from the constructor, before anybody could sign up for it.
`stale` are the calls that passed a request with an error or a flag from before: such a one is accepted,
and leaves at the first look at it in silence.
`ResumeRequest` lets a coroutine end with a success, a failure, or in silence because of a flag or of
an older error. `Multihomed` requests may fail over to their next address, which sets their error.
`Wait` is the loop in which the coroutine of a `Chunked` request sleeps for a chunk size without
`co_await`, and the worker in it; `WaitIsOver` is the line, a flag or the timeout. `Give` is
`addRequest` with the refusal by `working`; a request may be given again once its coroutine ended.

The requests are HTTP requests, or raw ones that have a reply to read: a raw request with nothing to
read ends in Done whatever error it has (`RawRequest`).

The destructor cancels only what it finds in the pointer list. What the model shows: a paused request
leaves the handler at its next turn and is neither resumed nor canceled any more, so that its pause is
all it ever tells; a request that came with an error may tell nothing at all (`AcceptedAreTold` excepts
exactly what is `stale`); and a request that failed over to another address and is then canceled
tells both.

### RequestBase

A call of `setStatus` sets a flag at once and then has steps left (`todo`, per thread): run the
callbacks, test the stream, reset it, remove the file, assign `m_status`. In this order, so callbacks
run *before* the file is closed and before the status can be read. `addResponseData` is a call of
several steps too (`adding`): make the stream unless there is one, ask it whether it is open, open it
once more, write, count. The user's calls interleave with all of these. A stream that is gone when a
thread uses it, having made or tested it, is a null pointer dereference: `fault` becomes "crash" or the
program carries on.

The setters only store what is a constant or an initial state here.

`target` stands for `outputToFile` and the path: memory, a file, or a file without a name. `exists`
and `stored` are the file on disk. A write that fails is not modelled; the code never looks.

### Callbacks

The seven lists, by event, and the calls under way as a stack of `frames`, since a callback may call
`cancel`, `pauseProcessing`, `continueProcessing` or a `signupFor...` of the request that runs it.
A sign-up has a way (`Ways`): a function, an empty one, a member function of an object that is held
weakly or pointed to. The loops go over the list to an end that was taken when they began (`next`,
`end`), and pass over an empty function and an object that is gone. Nobody is ever taken off a list; a
sign-up during the loop over its own list may leave that loop with an iterator to where the elements
were (the fault "iterator"). `due` and `times` count how often each is to be told and was; `last` is
what it could see.

Facts that the model states as the code has them: a request that is canceled from one of its
callbacks has the status of the outer call in the end, since `m_status` is assigned after the
callbacks (`OuterStatusStays`); an empty function that is signed up through the overload without
arguments throws when it is its turn, because only the wrapper around it is tested; and the overloads
that take an object by reference do not compile where they are used, so nobody signs up that way.

### HttpRequest and BlockingHttpRequest

`pc` is the place in the coroutine; an action is one turn of a loop, up to and with the call into the
request that it ends with. Between two actions the coroutine may be suspended, which changes nothing
else. The socket is external: an operation makes progress, would block, or fails (`Outcomes`), and a
peer may fall silent for good (`FallSilent`). `late` is the timeout, counted anew in each stage
(`Expire`); the check is asked after an operation that may have made progress, and a late connection
counts as failed although it stands.

`reply` is the kind of reply: `AllReplies` has one member for each way `HttpResponse` and the
dispatch on the headers can go. A reply that is not HTTP/1.1 leaves the response's status
uninitialized: it may be taken for Ok or not. `damaged` says what is wrong with the next line the
chunk reader takes: a line end that came late is still there ("crlf"), or the first part of a size
line was dropped ("torn"). What is left of a torn line may be no number, or another number than the
peer wrote (`SizesTaken`); from then on the two are out of step for good ("lost"). `announced` is what
the peer wrote, whatever the client took it for. `stale` says whether `m_error` was set before this
processing began.

`ProcessAgain` is the user who gives the request to the handler again, to resume or to retry it.
Nothing is reset: `m_error`, `m_canceled` and `m_bytes_read` keep their values. This has consequences
which the model shows: since a failed address leaves its error, and the error is looked at after the
reply's head, trying the next address can never lead to a finished request; a canceled request that
is processed again stops at once; `m_bytes_read` counts on.

The blocking twin has the same steps with a sleep for a suspension. It uses the actions of
`HttpRequest`; its own are `ConnectInPlace` (the next address gets a new socket), `ChooseBody` and
`DoneUnlessChunked` (it reads replies of any status).

### RawRequest

`processRequest` and the coroutine have the same steps. Nothing in the code gives a raw request bytes
to send, so the loop that writes is never entered. `stale` remembers whether `m_error` was set
before: such a request connects, reads one piece, takes the old error for a failure to store it, and
returns without a callback. A negative `setBytesToRead` is left out.

### RequestPromise

Processing; at some moment the request is told a success or a failure; then it is over. A failure is
for good, and it is told once: a processing that begins with an error (`stale`: the host was not found,
or an earlier processing failed) may end with no word, but not with a success. The promise is off, too,
when the user has canceled, paused or continued, and processing still ends. HttpRequest and
BlockingHttpRequest implement it under the mapping `Promise` of `HttpRequest` (property `KeepsPromise`,
safety and liveness), in which an outcome is one whose callbacks have run in this processing: an error
that nobody was told of is none.

### NameResolution

One Url which is resolved by the user or by the constructor of a request, and may be renamed by
`setAuthority` in between. `addresses` is the host whose addresses it holds. The lookup asks the
servers in turn; the first comes from `/etc/resolv.conf` and may be missing, or no IPv4 address
(`local`), in which case `Ipv4`'s constructor throws what nothing catches. A socket that cannot be
made ends the lookup, a failed one leaves its error and moves on, an answer is bad, empty or good.
`troubled` and `answered` are history.

Two facts that the properties have to leave room for: a resolved Url that gets an empty answer loses
its addresses and stays resolved, so its request has no error of its own (`MissingAddressIsTold`
says that the Url's error remains); and a Url that is renamed after it was resolved keeps the old
host's addresses, and a request is made for the new name with them (`OwnLookupIsSound` covers the
Urls that the constructor resolves). `resolve` also cuts a "www." off the host for good (`Bare`).

### DnsMessages and DnsLookup

`DnsMessages` has no variables. `Query` is the constructor of `DnsRequest`; `Response` is that of
`DnsResponse`, with the code's iterator as an offset from 0, its loops as recursive functions over the
offsets, and its three ways to read a name: `BehindQuestion`, `NameFromPointer`, `Alias`. For
reference there is a server which is written from the wire format and not from this code: `Asks`
reads a query, `Datagram` writes a reply and replaces as much of each name by a pointer as it can.

`DnsLookup` composes the two: the answer of a server in `NameResolution` is what `Response` makes of
a datagram that the server wrote for the query it read. It adds the last reply and response, and the
Url's addresses and aliases. The parser never compares its iterator with the end but at the start of
a record, and takes offsets from 128 on as negative: datagrams that are malformed, or long enough to
need such an offset, make it read outside of its buffer. They are left out, so that what is checked
is only that the datagrams it can read are read right.

### Urls and HttpMessages

A text is a sequence of characters, so that splitting, joining and encoding do what they do; a word
whose letters do not matter is one character, and so is the code of one of the 20 characters that
`encodeUrl` replaces (`Code`).
`Urls` has no variables: `Url` is the constructor, which goes through the text with a part that is
being read (`Turns` is which character ends which part), `WithDefaultPort` what the setters of the
scheme and the constructor do about the port, `ComposeUrl` is `composeUrl`.

In `HttpMessages` a user writes a URL, changes it by the setters, makes a request of it, adds to it,
and has it processed, maybe twice. `MakeRequest` is the constructor, which looks the host up first, and
that cuts a "www." off it (`Bare`): the Host header of a URL for `www.x` names `x`. `meant` is what the user means, in the form in which it was
written, and is the reference. `PrepareRequest` is `_prepareRequest` of the three classes, `Add` what
the user may add before and after, `HttpHeaders` and `ReadCharacter` the parser of a reply's head. The
server's `ReadRequest` and `HeadText` are the reference for those.

What the server gets is stated as it is: header values of a GET arrive encoded if they have such a
character, since `_prepareRequest` encodes them; a form's parameters are only encoded under
`application/x-www-form-urlencoded` and have no values under `multipart/form-data`; a POST or PUT
drops the URL's query; a header the user sets twice is sent twice. What is added after the first
processing is never sent. And of a Url: a port that is written in it is added up from its character
codes, and then replaced by the scheme's default; a port that is set in host order is accepted, and
443 set that way means port 47873; `user@host` without a password becomes the host; a Url with a
port and an "@" further behind is misread as one with a user; a "?" right behind the host is part of
the host; a fragment becomes part of the path or of the last parameter; a Url's parameters are never
encoded.

Left out: fragments with a character that has a code, on which the last loop of `composeUrl` throws
or never ends; `addHostIP` and `setFragment`; a user's own Content-Length; names of parameters with
special characters; a line feed without a carriage return.

## 3. The runs

| Run | Config | States | Checks |
|---|---|---|---|
| `handler_safety` | `AsyncRequestHandler_safety` | 4,224,343 | PairedLists, NoDangling, NeverResumesFinished, DestructorSettlesAll, NeverErasesEnd, LimitBoundsStarted |
| `handler_stop_then_destroy` | `AsyncRequestHandler_destroy` | violated | StoppedThenDestroyed |
| `handled` | `HandledRequests` | 176,998 | HandledTypeOK, AcceptedAreTold, FinishedIsKept, AcceptedIsTold, OwnerReturns |
| `callbacks` | `Callbacks` | 988,659 | EveryoneIsTold, NobodyIsBehind, OuterStatusStays, CanceledHasNoFile |
| `http_file` | `HttpRequest_file` | 525,697 | TypeOK, OutcomeToldOnce, FailedLeavesNoFile, CrashNeedsUser, CancelLeavesOnePiece |
| `http_live` | `HttpRequest_live` | 612,385 | FinishedHoldsBody, FailedNeverFinishes, KeepsPromise |
| `http_sizeless_reply` | `HttpRequest_sizeless` | violated | SizelessReplyFails |
| `http_wellformed_throw` | `HttpRequest_throws` | violated | WellFormedNeverThrows |
| `blocking` | `BlockingHttpRequest` | 578,034 | FinishedHoldsBody, KeepsPromise |
| `raw` | `RawRequest` | 52,485 | SilentEndIsStale, FinishedHoldsAll, HasResponseForData, Terminates |
| `names` | `DnsLookup` | 8,031 | TypeOK, MissingAddressIsTold, OwnLookupIsSound, ResponseDecodesReply, FirstAliasHasAddresses, ResolvedWithoutTrouble, LookupEnds |
| `messages` | `HttpMessages` | 55,762 | ServerReadsGivenRequest, EncryptedExactlyForHttps, ComposedUrlReadsBack, ClientReadsReply |

Each property also has a mutant in `PROJECT.json`: a plausible bug in one definition that makes TLC
report that property.

What they show:
- **handler_safety**: with five concurrent adders, one with an empty request, one coroutine that may
  throw, and the owner stopping or destroying at any moment, the lists stay paired, a coroutine's
  request is always kept alive, none is resumed after its end, and the destructor settles every
  accepted request. Only once an empty request came in can the worker erase at the end of the pointer
  list. No more than limit + 2 coroutines are under way, and that bound is reached: one may be resumed
  when the counter stands on the limit, and one more before the worker notices. `LimitBoundsStarted`
  says this of a handler that was run once, whose coroutines take two resumes at least, and a limit
  below 255. Otherwise the counter falls behind what it counts: a second `run` sets it to zero with the
  coroutines still listed, one that ends at its first resume counts down without having counted up, and
  it never passes a limit of 255.
- **handled**: two requests, one that comes without an address or with two and is given twice, one in
  chunks and in its user's hands. Each processing comes to tell how it ended, or that it was paused,
  unless its request came with an error or a flag or somebody stops the handler, although the worker
  goes back to the head of the list whenever the limit is passed and stands still for a chunk size; the
  destructor leaves nobody else in silence, and takes no success back; `stop` and the destructor
  return, since the wait has a timeout. The exception is real: a request whose host was not found is
  accepted, and its callbacks never run.
- **callbacks**: up to two of nine sign-ups (each event; each way, but for a null pointer, which is passed over as an
  empty function is), and two calls by the user or by
  the callbacks, at any depth. Whoever signed up is told of each event once, whoever else signed up or
  went away meanwhile; and what was told last is how the request is. What follows a fault (an
  iterator into a list that moved, an empty function that is called) is not spoken of: the model says
  when these happen, no property forbids them.
- **http_file**: two calls of the user at any moment. A cancel leaves no file, or one with the single
  piece that was being written; a failure leaves none; only a user's call can make the worker use a
  stream that is gone. A Content-Length of 0
  runs the finished callbacks twice, which `OutcomeToldOnce` states. Not stated as an error: a cancel
  that comes after the request finished removes the finished file.
- **http_live**, **blocking**: every processing ends, even when the peer falls silent, and has run the
  finished or the failed callbacks by then, unless it began with an old error or the user interfered; in
  a second processing too. A finished request holds what was received, and that is all that the peer
  wrote into its lengths, unless a chunk-size line came in parts and was taken for another number: then
  the body may be cut short, and the success is told all the same. This needs an output file that opens
  at once: a stream that opens at the second attempt appends to what the file held before.
- **raw**: an undisturbed raw request ends without a callback only because of an error it had before;
  data never comes before there is a response ("Should not happened").
- **names**: as in section 2; and an error of one server is final: a later server's answer does not
  make up for it (`ResolvedWithoutTrouble` states what the code does). Every query asks for the host, and
  every datagram in the model's reach is decoded to what the server meant, whatever it compressed; and
  the first alias of a Url is the name its addresses are for, through renaming and failed lookups.
- **messages**: a server reads what the user had given when the request was first processed, the second
  time too, but for the "www." of the host; the client reads all headers of a reply. Unless the user sets a port after the scheme,
  exactly the requests for https are encrypted, and go to its port. A Url is what is read from the
  text it composes, after any setters, if it has no fragment and no user without a password.

Three runs end in a violation, and state what a test, a description or a comment of the repository
says:
1. `StoppedThenDestroyed`: `test/main.cpp` calls `stop()` and lets the destructor run, which joins a
   thread that is not joinable; `std::system_error` leaves a noexcept destructor.
2. `SizelessReplyFails`: a reply with a Transfer-Encoding other than chunked and no Content-Length is
   reported as finished, with an empty body, although it is what `Http_response_size_error` describes.
3. `WellFormedNeverThrows`: when the line end behind a chunk comes late, the next chunk size is read
   from an empty line, and `std::stoll` throws out of the worker thread. A size line that comes in two
   parts loses the first: `std::stoll` throws, or takes what is left for another number, and of "10" a
   late "0" is taken for the end of the body.

### Bounds, and why they are enough

- *Five jobs* (`handler_safety`): two more than what it takes to have an element before, at and behind
  the worker's two iterators; with an empty request it takes three others for the pointer iterator to
  run ahead to its end, and three to reach the bound of the limit. The jobs that no constant tells
  apart are symmetric (`Alike`); the run has no liveness property. *Two resumes* give the first, a middle and the last. *Runs*: a second `run` needs no more
  than the first one's leftovers. *CounterRange 4*: it wraps both ways within a run; the lists are
  shorter than 256 but longer than the range. *Limits*: 1, lowered to 0; or 0.
- *Two requests, the first given twice, one call, one resume before the last* (`handled`): the other
  one is in front of or behind the request that waits or is paused; the second processing meets the
  error of the first, or of the constructor; a limit of 0 is passed by the second one that is resumed.
  The theorems hold for any number of requests and times.
- *Two sign-ups, two calls, one piece* (`callbacks`): one that goes away or calls back, and one behind
  it in the same list or in the list of the call that it makes.
- *Two addresses*: one to fail and one to try. *RequestSize 1, BodySize 2*: a body in one or two
  pieces, one or two chunks. *MaxOps 2*: a pause and what follows it, a cancel twice; 1 where the
  request is processed twice. *MaxStarts 2*: what an earlier processing leaves.
- *Sizes {0, 3}* for a raw request: nothing to read, or up to three pieces. *Servers 3*: the local one
  and two, for 13 that differ in nothing else. *MaxCalls 2*: resolved, and resolved again.
- *Datagrams*: no alias, one that ends like the host, two that share nothing with it, two of which the
  second ends like the host; no, one or two addresses; unsupported records behind them, alone or
  followed by another; return codes 0, 3 (a name in the enumeration of errors) and 9 (beyond it). Labels
  of one and three letters.
- *Messages*: four URLs written, of three schemes, with and without a user, a port, a path and a query;
  two calls, each a setter or an addition (two setters of one part, or of parts that depend on each
  other; two parameters, a header and a parameter, a body and a parameter), before, between and after
  two processings; values that are empty, plain, or have all separators in them; ports in both byte
  orders; reply heads with colons, spaces, empty values and repeated names. Numbers are written with up
  to five digits where they are ports, which have no more, and with up to ten where they are lengths
  (`LengthText`): bodies of ten gigabytes or more are left out, of the proofs too.
- The proofs of section 5 hold for all values of these constants, but for the hypotheses named there.

### Fairness

- Handler: weak fairness of the worker, of a thread inside `addRequest`, and of the owner inside
  `stop` or the destructor: the operating system runs every thread that can run. Nobody has to call.
- Handler and requests: the same, and the clock that ends a wait for a chunk size, since the code looks
  at the timeout in each turn of that loop.
- Requests: weak fairness of the worker (`handled` is why the handler keeps resuming a
  coroutine) and of `Expire`: the clock moves on. The peer owes nothing.
- Names: weak fairness of the lookup's thread. A read from a DNS server that never returns is left
  out; whether it can happen is up to the external socket.

## 4. Findings

The three violated runs are in `PROJECT.json` under "findings". Modelling also showed these, which
contradict no document:
- an error is never cleared (failing over to another address is in vain; a raw request with an old
  error ends in silence);
- while a chunk size is awaited the coroutine sleeps in the worker's thread without suspending, so
  that all requests of the handler wait, for the timeout at most;
- a paused request is dropped by the handler, and its user has to give it again;
- a request that is canceled from a callback has the status of the outer call in the end;
- setAuthority and an empty answer leave `m_resolved` set; every blocking request binds the same
  local port 23253;
- the ways in which a Url is misread, in section 2.

## 5. Proofs

Every theorem is for all values of the constants that the `ASSUME` of its module admits, and needs no
fairness. The properties are those that the runs check; none is inductive, and each module has an
invariant `IInv` (or `HInv`, `TInv`, `Composable`) which says what they leave out, with one lemma per action or kind of action.

### HandledRequestsProofs

Of the handler, for every set of jobs, number of runs and resumes, limit and counter range: `TypeCorrectness`,
`ListsStayPaired`, `NoCoroutineDangles`, `NoResumeAfterTheEnd`, `DestructorSettles`, `NoEraseAtTheEnd`,
`LimitBounds`.

"The lists are equal unless the lock is held" says nothing of how far an edit has got. `IInv` adds it part
by part:
- `Joined`: when there is a thread to join, so that `run` never replaces a live one;
- `Mutex`: the lock is held exactly while one thread edits;
- `OnElement`, `Paired`: one clause for each point between two statements that must go together
  (`requests = RemoveAt(pointers, ptr)` between the two erases, `pointers = Append(requests, j)`
  between the two pushes, `it` ahead of `ptr` between the two increments);
- `Listed`: what is listed is what was accepted and did not finish, once;
- `Ended`: nobody adds while the destructor runs, and what it cancels is what is listed.

`LimitBounds` rests on two more. The worker starts coroutines from the front of the list, so those that
are under way are its first p elements (`BegunUpTo`). `Follows` says how the counter follows p: it is
never more than one behind, and not behind where the next one could be started; if it wrapped at an
erase it is far past the limit, and the worker stays at the head until it has come down. The proof is
what showed under which conditions the bound holds (section 3, `handler_safety`).

`RemoveAtProperties` and `IteratorBounds` are the lemmas about the list operators.

Of the handler with its requests, for any requests, jobs and calls. `HandlerIsItself`: each step of the
composition is one of the handler or leaves it alone, so that all of the above holds of the two together.
On top of the handler's `IInv`, `HInv` has: a job whose coroutine has ended or was canceled has told
something since it was given, or its request came with an error or a flag (`FinishedTold`,
`CanceledTold`); a request that has an error or a flag has told that to each job under way, or brought it
along (`Flagged`); and a request given once and let alone has told one thing (`KeptOnce`). From these
follow `HandledTypes`, `ProcessingsTell` and `SuccessIsKept`. Requests that come with an error are among
those the theorems are about, and `ProcessingsTell` excepts them openly, since the code lets them end in
silence; of a request that is given again it speaks of each processing by itself.

### RequestBaseProofs

The lemmas about the calls into a request, which the proofs about HTTP and raw requests share. A call
in progress has some of the last steps of `StepsOf` left, which `RestProperties` takes apart. The
predicates that the request proofs are written with say what is left: callbacks are `Pending`, a step
is `Ahead`, a piece of data is counted (`Counting`) and stored (`Holding`) once `addResponseData` is
through, or is the only one in a file that will be removed (`OnePiece`). `BaseInv` is preserved by
every call and every step of one. Besides the types it says that the stream is there between the test and
the reset and when data is written, as long as the user does not call (`BaseSafe`); that the worker sets
no status of the user's and the user none of the worker's (`Callers`); and how the stream and the file
on disk go together (`FileSound`).

### HttpRequestProofs

For any number of addresses, pieces, calls and processings, any replies and targets. Each action of the
coroutine is one of eight kinds of `Turn`, by what it does to the request: it gives up, tries the next
address, tells how far it is, succeeds, adds data, reads the head, leaves, or walks on
(`CoroutineTurns`). The invariant is proved of turns, of the user's calls and of the
steps of calls. `processRequest` takes only such turns too (`ProcessTurns`), so that everything holds of the blocking
twin (`BlockingInvariance`, `BlockingSafety` and the rest of its theorems).

`IInv` is `BaseInv`, the types, and
- `Counted`: as long as the client takes the sizes that the peer wrote, what was announced and not read
  is what is left;
- `Unfailed`: with an error, the coroutine is at no place that decides about Done; this rests on the
  look at `m_error` after the reply's head and after each piece of data;
- `AddsWhileReading`: data is added from two places only;
- `OutcomesInv`: how often the two outcomes were told or are `Pending`, by the place of the coroutine
  (`ToldFinished`, `ToldFailed`); a success has no error and read everything (`SuccessIsSound`); an error
  is an old one or was told in this processing (`ErrorIsTold`); the end has a success or an error, or the
  user interfered (`EndIsTold`);
- `Files`: the file of a failed request is gone or about to be (`FailedFile`), that of a canceled one too,
  but for the piece that was under way (`CanceledFile`), and what an undisturbed request holds is what it
  received (`FileClosed`, `QuietBody`, `BodyStored`).

From it follow `RequestTypes`, `CrashTakesUser`, `OutcomesAreToldOnce`, `FailureLeavesNoFile`,
`CancelLeavesLittle` and `FinishedIsWhole`. The last needs files that open at once (`~OpenMayFail`, as in
the runs): a stream that opens at the second attempt appends to what the file held.
`FailureIsForGood` is an action property: once `m_error` is set the finished callbacks never run again.
`PromiseIsKept` is the safety half of the refinement that the runs check as `KeepsPromise`: the first
state is one of `RequestPromise` and every step is one of its steps or leaves its view alone
(`Promise!Safety`). So an undisturbed processing that began without an error never ends before its
callbacks have run, and that an error was assigned is not enough for it; the old error with which a
processing may end in silence is the promise's own exception. `FinishedIsWhole` has one, too: the
chunk-size line that came in parts (`damaged = "lost"`).

### RawRequestProofs

The same argument with the turns of a raw request, which goes on with an old error until it has read a
piece: the invariant is about requests that have read something or have nothing to read.
`RawRequestTypes`, `RawCrashTakesUser`, `SilenceIsStale`, `DataHasResponse`, and `RawFinishedIsWhole`
(`FinishedHoldsAll`, with files that open at once).

### CallbacksProofs

For any sign-ups, any number of calls and any nesting of them: `ListenersAreTold`, `ListenersAreUpToDate`,
`OuterStatus`, `CanceledFileIsGone`. The stack of calls has the innermost first, so a call's position
changes whenever another comes or goes within it. The invariant counts from the outermost instead
(`Deep`), where a call keeps its depth. As long as there was no fault it says
- `Basics`: the types, which list a sign-up is in, and what a call on the stack may look like;
- `Telling`: each sign-up was told as often as it was due, less the number of loops that have yet to come
  to it (`PendingAt`, a set of depths); and who was told last and is not up to date is in such a set;
- `OuterKept`: until the outermost `setStatus` has assigned its status, what others assign is overwritten;
  afterwards only a status callback of its own can have set another (`answered`);
- `FileGoes`: for a canceled request with an open stream, or a file, some call has yet to close, or to
  remove, it.

### NameResolutionProofs

`NoAddressIsTold`, `OwnLookupSound`, `TroubleIsFinal`, and the types (`LookupTypes`), for any number of
servers, hosts and calls, from `IInv`: a Url resolved without an address has an error (`Told`), who never
called `resolve` has an unresolved Url until the constructor (`OwnLookup`), and the lookup's error is
what happened in it (`Remembered`).

`LookupIsResolution`: with the datagrams, the servers that write them and the parser that reads them,
the lookup takes only steps of `NameResolution`, so all of this holds of the two together
(`LookupSafety`). `FirstAliasIsOfAddresses` is about the composition alone: the first alias of a Url is
the name its addresses are for, through any number of lookups, renamings and failures. It supposes
`RepliesBeginWithHost`: of a reply to the query for a host the parser makes an error, or no address, or
a list of names that begins with the host.

### UrlsProofs

What a text comes to is a fold over its characters (`FoldLeft`, `FlattenSeq`), which the library defines
by a recursive function on sets of numbers. Two lemmas make such a definition usable: `SetInduction`,
induction by the least counterexample, which the prover takes since it needs no operator as a parameter;
and `SubsetRecursion`, from which there is a function that does what the recursive definition says. From
these, `FoldWalks` and `FlattenWalk` give the values along a text, and the rest is about texts of any
length: a text is split exactly at its marks (`SplitThen`), what is joined is split again (`SplitJoin`),
parameters that are written as a query are read as themselves (`QueryReadsBack`). `Divides` says of a
text that it is some pieces, each with a separator behind it, whatever follows; it goes with
concatenation (`DividesThen`) and with flattening (`DividesFlat`), so that a request is lines.

`ReadingUrl` is the lemma about the constructor of Url: a text that has its parts where a URL has them
(`LaidUrl`), each without the characters that end it (`ReadableParts`), is read as these parts; of the
port, that it is a sum of digits (`Sums`). It follows the reader from part to part. The regular
expression finds a user exactly if there is one (`UserSeenOrMissed`), which is why no "@" may be anywhere
else.

### HttpMessagesProofs

The constants are supposed to be what they stand for: `UrlsAreWritten` (a part of a URL that is written
has none of the characters that end it), `PartsAreWritten` (so are those that are set), `HeadsAreReplies`
(names, values and lines of a reply end where they end), `PartsTravel` (what is sent has no line end in
it, and no space or "?" where the code does not encode one: hosts, paths, names and the query of a URL;
the query does not end with "&", and no piece of it has two "="). TLC checks that the instance meets
them. They stand for what the code asks of its user: it encodes values and checks nothing.

- `UrlReadsItself` (`ComposedUrlReadsBack`): from the text it composes a Url is read as itself, up to its
  port, with plain parameters. `Composable` is inductive: each part could be written (`ReadableUrl`), which
  every setter keeps as it touches no other part, and what is parsed or added has no mark of a query in it.
  `ComposeUrlIs` shows the text to be a `Layout`, which is read by `ReadingLayout`.
- `ClientReadsWhatIsSent` (`ClientReadsReply`): `Reads` says which state the parser of headers goes to by a
  text, and goes with concatenation (`ReadsThen`), so that the head of a reply is read piece by piece:
  name, colon, spaces, value, line end (`ReadsHeader`), any number of them (`ReadsHeaders`).
- `EncryptionFollowsScheme` (`EncryptedExactlyForHttps`): the invariant says what the user meant in terms
  of the Url (`Meant`) and that a port that was not set is that of the scheme in network byte order
  (`Encrypted`); `PortsOnTheWire` computes which of the swapped ports may be taken for that of http or
  https, and `WrittenIsRead` that no port that is written adds up to 80 or 443: five digits add up to at
  least 240 and at most 285, four to at most 228, and so on.

- `ServerReadsWhatIsGiven` (`ServerReadsGivenRequest`): the invariant `TInv` says that nothing is composed
  before the request was made, that the Url has the host (without a "www." once the request is made), the path and the parameters that are meant
  (`UrlKept`, which every setter keeps), that what was added can travel (`RequestType`), and that the first
  header is the host. The text is then followed from the outside to the inside. As lines: it is the first
  line, a line for each header, an empty one that no header is like, and the body (`LaidOut`,
  `RequestIsLaidOut`, `EmptyLineFound`). The first line as words, with the path and what is behind the "?"
  in the second (`FirstLineRead`). That as pieces (`JoinWrites`, `WritesBoth`), each of which is read as the
  name and the value it was made of (`FieldOfPair`), since no character of an encoded value is a mark and
  no two have the same code (`CodesAre`, `EncodedIsDecoded`). `GetParamsRead` puts the three lists of
  parameters behind each other, `FormFields` does the same for a form.

### Only model-checked

- All liveness: `AcceptedIsTold`, `OwnerReturns`, `Terminates`, `LookupEnds`, and that of `KeepsPromise`.
  The prover does no ENABLED.
- `ResponseDecodesReply`: names in a response are read by a function of the offset that jumps back and
  forth, as pointers say. That it comes to an end depends on what the server writes.
- For the same reason the supposition above, `RepliesBeginWithHost`. It is about constants; TLC evaluates it
  for the replies of `MCDnsLookup`, where it is `ASSUME`d.

## 6. Not modelled, and the plan

Modelled so far: the handler alone and with its requests, the requests, their callbacks, the resolution
of names, Urls, and the messages on the wire. In the order in which the rest is worth it:

1. *Proofs*: of the safety properties all are proved but `ResponseDecodesReply`, with the supposition
   `RepliesBeginWithHost`.
2. *Two blocking requests*: both bind local port 23253. What comes of it is decided by the socket, which
   is not in the repository.
3. *Urls*: `setFragment` and `addHostIP`, with the answer to what `composeUrl` should do for a fragment
   with a character to encode.

Not modelled, because the model would have to make the answer up: how often a read from a DNS server
may block (the external socket), a torn list under an unlocked read (the memory model), a write that
fails on a full disk (nobody looks at it).

Left out for good: sockets, TLS and the other submodules (not in the repository); tables of status
codes, header names and errors, and the text of IPv4 addresses (no state, no order);
`/etc/resolv.conf` (its result is a parameter); the setters of a request, whose
effect is a constant or an initial state; `decodeUrl`, which nothing calls; the test program, except for the way it ends.
