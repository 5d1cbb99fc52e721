# Verification of up2date-cpp

up2date-cpp is a C++ client of the Direct Device Integration (DDI) API of an
Eclipse hawkBit update server. This directory holds TLA+ models of it, TLC
configurations that check them on small instances, and proofs that TLAPS checks
for every value of the constants. Paths below are relative to the repository.

## 1. Inventory

### 1.1 Components

| component | state | operations | talks to |
|---|---|---|---|
| DDI client, `ddi/src/ddi_client_impl.cpp` | polling URI, headers, key pair, sleep times, flags `isRunning`, `pollRequested`, `ignoreSleep` | `run`, `stop`, `requestToPoll`, downloads, the setters of `AuthRestoreHandler` | hawkBit over the HTTP wrapper; the user's `EventHandler`, `AuthErrorHandler`, `ResponseDeliveryListener` |
| Client builder, `ddi/src/ddi_client_builder.cpp` | endpoint, timeout, headers, one authorization variant | setters, `build` | hands its state to a new client |
| Messages, `ddi/src/acions_impl.cpp`, `utils.cpp` | none (values) | parse the poll answer, the cancel action, the deployment with its chunks and artifacts | the client; an artifact calls back into the client to download |
| Responses, `ddi/src/response_impl.cpp`, `hawkbit_response.cpp` | fields of a builder, fields of a response | setters, `build`, enum to string | filled by the user, read by the client |
| URI parser, `modules/src/uriparse.cpp` | none (values) | `fromString`, `isEmpty`, getters | client, messages, provisioning |
| Provisioning, `dps/src`, `example/up2date_client`, `example/ritms_auth`, `example/ritms_ott` | endpoint, certificate, one-time token | `doProvisioning`, `exchange`; an `onAuthError` that provisions until it succeeds | DPS over the HTTP wrapper; the client through `AuthRestoreHandler` |
| HTTP wrapper, unix, `modules/src/unix/httpclient_impl.cpp` | a cpp-httplib client per request | `Get`, `Post`, `Put` | vendored cpp-httplib |
| cpp-httplib, `modules/src/unix/httplib.*` (vendored, patched) | socket, SSL context, buffers, the message that is read or written | connect, handshake, write a request, read an answer | sockets, OpenSSL |
| HTTP wrapper, Windows, `modules/src/win` | WinHTTP handles, a certificate store that outlives the process | the same three calls | WinHTTP, CryptoAPI |

A request goes down these layers and its answer comes up again: the client makes a
path of a URI and a document of a response (`Uri`, `Responses`), the wrapper makes a
request of it, which cpp-httplib turns into bytes on a connection (`HttpLibClient`,
`RequestWriter`); the bytes of the answer come through a stream (`SocketStream`,
`SslSocketStream`), become a status, headers and a body (`HttpReader`), and the body a
message (`Messages`), which decides what the client does next (`DDIClient`).

### 1.2 What is hard

* **Shared flags.** `stop()` and `requestToPoll()` are called from other threads
  (or from a callback) and write plain `bool`s that the polling thread reads at
  three places and writes at two.
* **State that changes in the middle of an operation.** A 401 on any request
  enters the user's `onAuthError()`, which may replace credentials and endpoint
  while the request, and the iteration around it, are under way. Downloads nest a
  second request, with its own 401, inside the callback of a deployment.
* **Failure.** Every request may fail in the library, be refused, or be taken in
  by hawkBit although the client sees an error. Which exceptions are caught, by
  whom, and what is left behind when one leaves `run()` decides whether feedback
  is lost silently.
* **Time.** The interval comes from the server, from a default, or is skipped by
  a flag of the response, and a requested poll must cut it short.
* **Boundaries.** Integer division of the interval, 32-bit arithmetic of
  `hh:mm:ss`, the empty URI, an answer without links.
* **Crashes.** Nothing of the client is kept on disk: between an installation and the
  feedback hawkBit takes in, a killed process forgets that it installed anything.
* **Ownership in C.** A request over WinHTTP makes some twenty calls, each of which may
  fail, and two labels release what a dozen pointers hold by then; the store of
  certificates is cleared by a loop that skips every second one.
* **Bytes.** Connections deliver and take bytes in pieces of any size, OpenSSL wants
  calls again, lines and chunks end within pieces, and a connection may end anywhere.

The properties that make each component correct follow from these; `PROJECT.json`
lists every hazard with its line and the properties that would show it going
wrong, and says which no property covers, and what of a hazard a property excepts.

### 1.3 What makes each component correct

* Client: a `stop()` ends the loop; a requested poll comes within a second; no
  poll comes too early; a retry repeats its request; the listener hears the
  truth; no feedback is lost without a word; one authorization scheme at a time.
* Client with hawkBit: an update is called finished only if it is installed, is closed in
  the end, and is not installed again without a failure in between.
* Builder: what it builds is a state the client may start from.
* Messages: the sleep time is the one the server wrote; a deployment comes to its handler
  whole or not at all; no document but one of the wrong types takes the process down.
* Responses: the document says the result set last, every detail and the first value of each
  key, also of a builder used again.
* URI parser: a request goes to the path its URI names.
* Provisioning: new credentials and new endpoint are set together; retries end,
  or go on for ever, as the caller was promised; the key pair printed is the good one.
* HTTP wrappers: the status before the body, the body in order, no success of a body that
  did not arrive or was refused; what was opened is closed, what was obtained is released
  once; a request ends.
* cpp-httplib: a stream gives the bytes of the connection, the reader the bytes of the
  body, the writer the bytes of the request.

## 2. Plan

| order | module | content | depends on |
|---|---|---|---|
| 1 | `Credentials` | the authorization state and its setters, as operators | |
| 2 | `DDIClient` | the polling client, its environment, its fairness | `Credentials` |
| 3 | `DDIClientProperties`, `DDIClientDocs` | what it guarantees; what the headers say and the code does not do | `DDIClient` |
| 4 | `DDIClientProofs` | proofs of the safety properties | `DDIClientProperties` |
| 5 | `ClientBuilder` | the builder; what it builds is an initial state of `DDIClient` | `Credentials`, `DDIClient` |
| 6 | `UP2DateClient`, `UP2DateClientProofs` | the example program: a refinement of `DDIClient`, proved | `DDIClient`, `DDIClientProofs` |
| 7 | `UpdateLifecycle` | abstract: the life of updates between device and hawkBit | |
| 8 | `UpdateDelivery`, `UpdateDeliveryProofs` | client, hawkBit, device and crashes; refines `UpdateLifecycle`, proved | `DDIClient`, `UpdateLifecycle` |
| 9 | `HttpRequest` | abstract: a request as its caller sees it | |
| 10 | `HttpLibClient`, `HttpLibClientProofs` | the unix wrapper over cpp-httplib; refines `HttpRequest`, proved | `HttpRequest` |
| 11 | `WinHttp`, `WinHttpProofs` | the Windows wrapper; refines `HttpRequest`, proved | `HttpRequest` |
| 12 | `ByteStream` | abstract: a Stream of cpp-httplib | |
| 13 | `SocketStream`, `SslSocketStream`, `StreamProofs` | both streams; refine `ByteStream`, proved | `ByteStream` |
| 14 | `HttpReader`, with proofs in `StreamProofs` | how an answer is read from a Stream | `ByteStream` |
| 15 | `Messages`, `AnswersProofs` | the three documents of hawkBit; proofs about them | |
| 16 | `NamedValues`, `Uri`, `Responses`, `RequestWriter`, `ServerName` | what a request is made of, how it is written, whom it is written to | |
| 17 | `Onboarding` | `ritms_ott` and `ritms_auth` | |
| 18 | `RequestsProofs` | proofs about the modules of 5, 16 and 17 | `ClientBuilder`, `Uri`, `Responses`, `RequestWriter`, `ServerName`, `Onboarding` |

Left for later: the fields of the builder that section 6 names.

## 3. The modules

### 3.1 `Credentials`

The Authorization entries of the multimap `defaultHeaders`, in order, and the
key pair. `SetTLS` erases the entries; `SetDeviceToken` and `SetGatewayToken`
insert one more and unset the pair. Headers of other names do not change after
`build()` and are left out. Operators marked *mutant* here and elsewhere are
plausible bugs that no specification uses; replacing the operator after them by
one must break the property `PROJECT.json` names.

### 3.2 `DDIClient`

`pc` says where the polling thread is; each value is a point at which another
actor can be noticed:

| pc | code |
|---|---|
| `idle` | outside `run()` |
| `begin` | before `isRunning = true` (line 73) |
| `loopTest` | `while (isRunning)` (75) |
| `doPoll` | the test passed, `doPoll()` not begun (76-77) |
| `wait` | in an HTTP exchange of `wrappedRequest()` (326-335) |
| `restore` | in the user's `onAuthError()` (69, 343) |
| `callback` | in a callback of the user's `EventHandler` (140, 191, 229, 271) |
| `pollDone` | `doPoll()` returned (80-81) |
| `sleepTest`, `asleep` | the condition of the sleep loop (84-86), `sleep_for` (87) |

`call` names the exchange or callback: `poll`, `configData`, `cancelAction`,
`deploymentBase`, the two feedbacks, `download`, and `startup` before the first
poll. A request records the URI its host comes from (`reqUri`, by value), the URI
its path comes from (named by the caller's lambda) and the credentials it carries.

Actors: the polling thread; another thread (`Stop`, `RequestToPoll`, enabled in
every state); user code (`Run`, the callbacks' results, `Restore...` for what
`onAuthError()` may do); and hawkBit with the HTTP library (`Answer`), which gives
any answer to any request, and for a feedback records whether hawkBit took it in.

Choices that matter:

* an exception is a move of `pc`: to `idle` if nothing catches it, with
  `isRunning` left as it is, or into the deployment callback if it left a
  download (the callback may then go on, or throw);
* `run()` may be called again after it ended;
* the request to an empty URI always fails in the library;
* a race on the plain `bool`s is modelled as atomic reads and writes: the loop
  bodies call functions the compiler cannot see into, so each read reads memory;
* history variables (`first`, `stopAt`, `pollsAfterStop`, `slept`, `waited`,
  `skipAsked`, `processed`, `notified`) are read by no step of the code.

Assumed of user code, as the headers ask: the `AuthRestoreHandler` and the action
objects are not kept after the callback; the listener does not throw; a
`ConfigResponse` is never null (it would be dereferenced); one thread runs `run()`.
Assumed of hawkBit: an answer other than 200 to a feedback means the feedback was
not taken in. No answer at all may mean either.

### 3.3 `DDIClientProperties`, `DDIClientDocs`

| property | says |
|---|---|
| `StopEndsPolling` | after `stop()` in the loop at most one more poll begins |
| `StopTerminates` | and `run()` returns (or throws) |
| `PollRequestServed` | a poll requested during the sleep waits for at most one more second of it |
| `NoEarlyPoll` | within a `run()`, polls are the whole seconds of the interval apart, unless this iteration's response or another thread asked otherwise |
| `SkippedSleepIsSkipped` | a response with `setIgnoreSleep()` is followed by a poll without sleep |
| `DeliveryReportedTruthfully` | success is told only of a feedback hawkBit took in, error only of one it did not; none is taken in twice |
| `NoSilentFeedbackLoss` | the loop goes on after a feedback only if it arrived or the listener was told |
| `RetryRepeatsRequest` | a retry goes to the host and path of the first attempt with the credentials set by then (every request but the poll) |
| `OneAuthorizationScheme` | never a key pair and a token together |
| `IterationEnds` | no iteration lasts for ever, not even with a server that refuses everything |

`DDIClientDocs` states four sentences of the public headers that the code does
not keep; each has a run that finds the counterexample, and an entry under
`findings` in `PROJECT.json`:

| run | sentence | what happens |
|---|---|---|
| `Docs_stop` | `stop()` exits safely | a `stop()` before line 73, e.g. during the start-up `onAuthError()`, is overwritten |
| `Docs_undelivered` | `onError()` is called if the response is not delivered | not for an error of the HTTP library, nor for a second 401 |
| `Docs_authtype` | setting one auth type removes the other | a token stays when another token is set |
| `Docs_pollretry` | the same request is retried | the retry of a poll mixes the old host with the new path |

Four smaller divergences are in the model and have no run of their own: the part of the
interval beyond whole seconds is not slept (`Wake`, `ddi_client_impl.cpp:85`; `NoEarlyPoll`
states the whole seconds); the `setIgnoreSleep()` of a configuration response without
data is never read (`ConfigReturn`, `ddi_client_impl.cpp:142`), although
`hawkbit_response.hpp:140` promises the next action without a wait. And two of the rules
that `verify_host()` quotes (`httplib.cpp:5756-5768`) are not those of the code: `f*.com`
matches `foo.com`, but a star at the end of a component stands for nothing
(`ComponentMatches`, line 5868), so that such a server is refused; and a dNSName that is
present must be used as the identity, but the common name is tried behind any that did not
match (`LookAtCommonName`, line 5775), so that a server may be accepted on it. Both are
written out as the exceptions of `ServerHasTheName`.

### 3.4 `ClientBuilder`

One action per setter and `Build`. `BuiltClientIsInitial` instantiates `DDIClient`
with the built object and asks that it is a state the client may start from, after any
sequence of calls, setters after a `build()` included. Left out: `setEventHandler` and
`notVerifyServerCertificate`, whose fields no modelled step reads.

### 3.5 `UP2DateClient`

The program `example/up2date_client`. It EXTENDS `DDIClient` and replaces what that
module leaves open: `onAuthError()` is `DPSInfoReloadHandler`, and the callbacks are
`Handler` of `basic_handler.hpp` (every response asks to skip the sleep and has a
listener; a failed download leaves the callback, and with it `main()`). `step` is the
line of the handler's loop while `pc = "restore"`:

| step | code of `up2date_client/main.cpp` |
|---|---|
| `provisioning` | in `doProvisioning()` (24): one POST to the DPS, which fails in any of three ways or returns a key pair and an endpoint |
| `setTLS`, `setEndpoint` | 28, 30; parsing of the endpoint may throw, after the key pair was set |
| `returning` | 32 |
| `sleeping` | the catch block (34-36) |

Nobody holds the client, so `stop()` and `requestToPoll()` are absent, and `run()` is
called once. The DPS is external; it may hand out any pair at any time.

| property | says |
|---|---|
| `ImplementsDDIClient` | every step is one of `DDIClient` or a stutter: the handler does only what `AuthRestoreHandler` allows |
| `OneProvisioningPerRequest` | a request carries the key pair, and a poll goes to the endpoint, of one answer of the DPS, although they are set one after the other and the second may fail |
| `AuthorizationIsRestored` | when the DPS provisions usable data again and again, `onAuthError()` returns |

### 3.6 `UpdateLifecycle`, `UpdateDelivery`

`UpdateLifecycle` is what a device and hawkBit promise, without saying how they talk: the
device takes on only what hawkBit holds open, hawkBit records as finished only what is
installed, what is closed stays closed. `UpdateDelivery` EXTENDS `DDIClient` and gives
each of its steps a meaning for updates: hawkBit answers a poll with the action that is
open (`Offers`) and changes its status by the feedback it takes in (`Recorded`); the
handler installs in its callback and responds (`InstallUpdate`, `Respond`); the operator
assigns and cancels; `Crash` kills the process at any step and starts it with a new
client (`Restarted`), nothing kept but what is installed. The device is working
(`Working`) from the start of the deployment callback to its end, downloads included.

| property | says |
|---|---|
| `ImplementsLifecycle` | the refinement, with lost feedback, 401s in the middle of an update, crashes |
| `ReinstalledOnlyAfterFailure` | an update is installed again only after a crash, an exception, a refused feedback or a response that left it open |
| `EveryUpdateIsClosed` | liveness: whatever is assigned is closed in the end |

hawkBit is external, modelled by the DDI API as the client uses it: one action at a time,
offered at every poll until a feedback closes it. The handler reports success only of
what is installed.

### 3.7 `HttpRequest`, `HttpLibClient`, `WinHttp`

`HttpRequest` is a request as the caller of `httpclient::Client` sees it: `ShowStatus`,
then `HandOver` piece by piece, then `Return`; `Tear` is an end of the connection that
the framing cannot tell from the end of the body. Both wrappers use its helpers `Show`,
`Hand`, `End`, which have no guard of order, so that the order is theirs to keep.

`downloadTo()` writes to an `ofstream` and asks `bad()` after each piece, but it does not
flush: the stream may keep the end of the body in its buffer (`buffered`), and the
destructor, which runs when `downloadTo()` returns or throws, writes as much of it as it
can and reports nothing. So `Hand` and `End` choose how much of what was taken in
(`TakenIn`) is in the file and how much is not (`Stores`), and a download may succeed with
`buffered` pieces that are in no file.

`HttpLibClient` is a `httpclient::Client` on unix from constructor to destructor; `stage`
is where `send()` is: `construct`, `resolve`, `connect` (one `TryAddress` per address),
`tls`, `write`, `head`, `body`, `chunkEnd`, `closing`, `epilogue`, `destroy`. `error` is
the `Error` by reference through all of it, `socket` and `descriptors` what is open.
`toHttpLibResult()` reads a `Response` whenever there is no error: `GiveUpUnexplained` is
where `send()` gives up without setting one, and the process dies.

`WinHttp` has one step per call of CryptoAPI and WinHTTP; `ptr` says of every pointer and
handle whether it is null, held or released and not reset, and the labels `clean:` and
`clear:` release what is not null. `store` outlives requests; `ClearTurn` is a turn of
the loop that deletes a duplicate of the certificate and then advances.

| property | says |
|---|---|
| `KeepsTheOrder` | both wrappers refine `HttpRequest` |
| `EveryRequestEnds` | liveness: and end it |
| `DownloadIsWhole` | of a download that succeeds, the receiver has all of the body, or the stream of the file took all of it in; excepted are a torn body and a file that never opened, and what of the stream's buffer its destructor cannot write is not counted |
| `ConnectionsAreClosed` | unix: descriptors are closed and the library's assertions hold, also when a callback throws |
| `OnlyKnownCrashes` | unix: the process dies only before the request is sent, and only of an endpoint that does not parse asked with a key pair, a key that is not that of its certificate, or an OpenSSL that makes no SSL object |
| `ErrorIsOfThisConnection` | unix: a later address that connects does not keep an earlier one's error |
| `ReleasedOnce`, `NothingLeaks` | Windows: what is obtained is released, once, but for the calls the first names, and for callbacks that throw |
| `StoreIsBounded`, `SentWithItsChain` | Windows: the store stays below twice the longest chain, and holds the whole chain when a request is sent |

### 3.8 `ByteStream`, `SocketStream`, `SslSocketStream`, `HttpReader`

`ByteStream` is a Stream as its readers use it: `read(size)` gives the next bytes, at
least one and at most `size`, or the end, or an error. `SocketStream` reads through its
buffer, `SslSocketStream` loops while OpenSSL wants more. `HttpReader` reads an answer
from any `ByteStream`: line by line into the fixed buffer and the one that grows, then
the body by length, by chunks or to the end. A server's message is a record
(`Bytes` writes it out), of which any prefix arrives; the text of a status line, header
or chunk size is one symbol. Which of these texts there are, and what `strtoull()` and
`strtoul()` make of them, are the constants `ContentLengths` and `ChunkLength`.

Both properties speak of a `Sound` answer: one that keeps to HTTP and to what this client can
read. It may still have something else than CRLF behind a chunk, as long as this shows in
the two bytes that stand there: behind CRLF and more, the reader takes what is no size for
one, and the answer is not sound.

| property | says |
|---|---|
| `ByteSpec` | both streams refine `ByteStream` |
| `ReadReturns` | liveness: a `read()` over OpenSSL returns however the records trickle in |
| `BodyIsWhole` | the receiver gets the bytes of the body, in order, and nothing else; a delimited body read with success is whole, but for the three ends it names |
| `SoundAnswersAreRead` | no sound answer that arrives is refused, but one with a trailer, and that only behind its whole body: after the last chunk the reader takes nothing but an empty line (`httplib.cpp:1480-1484`) |

### 3.9 `Messages`

A document is what the code asks of it: for every member, whether it is there and of the
type it is taken for. The checks are made in the order of the code, so that the first to
fail decides whether the answer is refused, a number cannot be read, or rapidjson asserts.
The poll answer sets `interval` in 32-bit arithmetic (in two words, since TLC's integers
are as wide); the deployment is read chunk by chunk, artifact by artifact.

| property | says |
|---|---|
| `SleepsAsAsked` | the interval is the one asked for, wherever an int of milliseconds can hold it |
| `DeploymentIsComplete` | the handler gets all chunks and artifacts in order, with the preferred link, if and only if the whole document is sound |
| `AbortsOnlyOnWrongTypes` | a member that is left out never aborts the process; a wrong type, a link without href and 2 GiB do |

### 3.10 `Uri`, `Responses`, `RequestWriter`, `ServerName`

`Uri` takes a text apart as `uri_regex` does, group by group, and makes the paths the
client asks for. In a bracket of a POSIX expression a backslash stands for itself, so it
ends a scheme and an authority. `Responses` has both builders with every setter and
`build()`, and the document made of what is built. `RequestWriter` adds the headers the
library adds, writes the head and then the body, each through `write_data()`, over a
socket that takes a part or an OpenSSL that wants the call again (it is assumed never to
return 0 for a write). `ServerName` is `verify_host()`: the alternative names one by one,
then the common name. For a host given as an address the code also compares with bytes
that were never set; there the model allows any outcome. What is right is said apart from
the code, by the rules quoted above `verify_host()`: `Spells` lets a star stand for any
part of a component or none of it, `IdentityCovers` asks the alternative names if there
are any and the common name otherwise. `NamedValues` is what two of them
need to say what is given under a name: the arguments of the calls of one setter, the
values of one header.

| property | says |
|---|---|
| `RequestsGoWhereTheyShould` | put together again, host and path of a request are its URI, and a feedback is one segment below its action |
| `DocumentSaysWhatWasSet` | the document says the result and the listener set last before `build()`, every detail in order, of each key the value added first (`addData()` inserts), and nothing set later |
| `ServerReadsWhatWasAsked` | what a server takes for a request is the one asked for, whole; and it is there if it counts as written |
| `ServerHasTheName` | a server is accepted only if its identity covers the host's name, wherever that stands, and refused only if it does not; excepted are a common name that counts beside alternative names, and a star in a fragment of a component, which the code does not take for one |

### 3.11 `Onboarding`

`ritms_ott` exchanges the one-time token for a certificate, `ritms_auth` provisions with
it in a loop of `RetryAttempts` and prints the key pair. Either may be run again. The
services are external: they may take a request in and lose the answer, which spends the
token, or issues a key pair that only the next one replaces.
`PrintedKeyPairIsCurrent`: a `ritms_auth` that succeeds has printed the key pair that is
good, even after lost answers.

## 4. Runs, bounds, fairness

| run | instance | shows |
|---|---|---|
| `DDIClient_polling` | one endpoint, no credentials, intervals none/2000 ms from the server, 0/1500 ms by default | all safety properties of loop, sleep and feedback, and the two liveness properties under `FairSpec` |
| `DDIClient_auth` | two endpoints, one token, one key pair, no sleep, at most 2 Authorization headers | the retry and the setters |
| `UP2DateClient` | two endpoints and two key pairs (so that answers can be mixed up), the builder's 30 s and 2 s from the server | the example program |
| `UpdateDelivery` | two updates, one endpoint, one crash, no sleep | the refinement of the lifecycle, and reinstallation |
| `UpdateClosure` | one update, one crash | every update is closed |
| `HttpWrappers` | bodies of 0 to 2 pieces, 2 addresses, chains of 1 to 3 certificates | both wrappers, one platform at a time |
| `Answers` | see below | streams, reader and messages, one layer at a time |
| `Requests` | see below | builder, URI, responses, writer, server name and onboarding, one at a time |
| `Docs_...` | as the first two | the findings |

The parts of `HttpWrappers`, `Answers` and `Requests` share no variable that one of them
changes under another, so each run is the disjoint sum of its parts (`platform`, `layer`,
`side`): it has the states of all of them, not of their product.

Why the bounds are enough.

* The client. 2000 ms is the shortest interval in which a poll request can be seen a
  second too late; 1500 ms has a remainder, 0 skips the loop altogether, -1 falls back to
  the default. One link suffices because the properties compare URIs only for equality,
  and the polling endpoints differ from it. Two endpoints let `onAuthError()` move; two
  headers (`MaxHeaders`) show the entry that nobody erased. `pollsAfterStop` is capped at
  2, above every bound that is stated on it. Credentials and sleep do not meet in the code
  except through `onAuthError()`, which touches neither flags nor sleep; each run keeps the
  other aspect at its smallest.
* Updates. Two updates show one closed while the other is offered; a second crash does
  nothing the first does not, since nothing of the client survives it. `MCNext` keeps
  what has no bearing on updates at its smallest (it says what); the proofs of section 5
  need none of these bounds. `UpdateClosure` leaves out configuration data, whose
  priority over updates is listed as a hazard, and the `AuthErrorHandler`.
* Wrappers. One piece can be refused with another to come; one address fails and another
  connects. Chains of one, two and three certificates, two of which share one, take the
  clearing loop through stores of odd and even size and find what is there already. On
  Windows, requests with a key pair keep to one receiver and one piece, and requests
  without one, which do not touch the store, to an empty store (`Bounded`).
* Answers. Intervals around 0, around the 596 hours an int of milliseconds holds, where it
  wraps, and with negative fields; up to two chunks of two artifacts, the chunks only
  behind a header that lets the code come to them. Messages with every kind of header that
  decides the framing, bodies that look like the lines around them, what may follow a
  chunk, and of each message every prefix. `FixedSize` 4, `MaxHeader` 8, `ReceiveSize` 2,
  `BuffSize` 2, `MaxRecord` 2 and `MaxRetries` 2 stand for 2048, 8192, 4096, 4096, 16 KiB
  and 1000: a line passes the first, a header the second, a body the third.
* Requests. Every text of up to 4 characters, and of up to 5 behind `a://a`, over the
  characters the expression tells apart and one other; 3 calls of a builder
  (`MaxCalls`); a head whose lines are one byte each and a body that looks like the end of
  a head, with or without headers of the caller that the library would add (never a
  Content-Length, which the program does not set); `WriteRetries` 2 for 1000,
  `RetryAttempts` 3 for 5, 3 runs of the two programs; certificate names of two words,
  stars, stars before and behind a character, and empty words among them, for hosts of up
  to three.

Fairness.

* `Fairness` of `DDIClient`. The operating system schedules the polling thread; the
  library answers or times out; `onAuthError()` returns or throws: weak fairness. A
  deployment callback ends although it may download again and again: strong fairness of
  the callbacks' ends, since each download leaves the callback. Nothing is assumed of
  `run()`, `stop()` and `requestToPoll()`, nor of what the server answers.
* `UPFairness` adds the one assumption no code can give: asked again and again, the DPS
  returns usable data again and again. `AuthorizationIsRestored` shows that then the loop
  gets to it.
* `UDFairness`. Whoever started the program calls `run()` again when it ended, as a
  service manager does, and does not call `stop()` at every single start; what is asked
  again and again is answered well again and again; a handler asked again and again
  closes the update again and again. Strong fairness, since a crash or an exception
  disables each of these and only comes back to it.
* The wrappers: every wait is bounded by a timeout of the library or of WinHTTP, so weak
  fairness of the request's steps. `SslSpec`: each turn of the loop in `read()` is bounded
  by the read timeout.

`UP2DateClient` may stop (an exception ends the program), and so do the parts of `Answers`
and `Requests` (a document is read, a request is written): these runs do not check
deadlock.

## 5. Proofs

The proofs hold for all values of the constants that satisfy the named assumptions, so
for any number of links, endpoints, updates and crashes, addresses, certificates and
chains, chunks and artifacts, any calls of the builders, any text of a URI, and any size of
bodies, buffers, records and reads.

The assumptions say what the constants are. Some are about what a component is given:

* `RequestsAssumption` of `RequestWriter`: no caller gives a Content-Length of its own,
  and none a body with a GET. `Get` of the wrapper takes no body; the headers handed to it
  are Authorization and what was given to `addHeader()`, which in the programs
  here is only X-Apig-AppCode. A user who adds a Content-Length is outside the theorem.
* `ArtifactsAssumption` of `Messages`: one thing at most is wrong with an artifact beside
  its links and its href. Each check of the code looks at one of these alone.
* `AnswersAssumption` of `HttpReader`: an answer has a status that is not 100 (one with 100
  before it is `continues`), any headers, body, chunks and trailer; a chunk has at least one
  byte, since one without is the end of a body, and a size that can be written. It does not
  say that an answer is sound. `SymbolsAssumption`: the texts of lengths and sizes are not
  the other symbols, and 0 is a size. `ReaderSizesAssumption`: the fixed buffer of a line
  holds at least a byte and is smaller than the longest header (2048 and 8192).
* `TextsAssumption` of `Uri` and `NamesAssumption` of `ServerName`: texts and names are
  sequences of characters, a host is a name or an address. They restrict nothing.

`DDIClientProofs` proves type correctness and all the safety properties of 3.3.
`NextActions` lists the actions once; each invariant has a lemma `Next...` with one step
per action.

| theorem | inductive invariant and why it is needed |
|---|---|
| `TypeCorrect` | `TypeOK` itself |
| `StopEndsPollingHolds` | `StopInv`: after a stop in the loop `isRunning` stays false, so the loop test, the only way to a poll, fails; the one poll left is that of a test already passed |
| `PollRequestServedHolds` | `PollInv`: a thread asleep has not slept since the request yet |
| `RetryRepeatsRequestHolds` | `RetryInv`: while a request is in `retryHandler()`, its path is the one the lambda will name again |
| `DeliveryReportedTruthfullyHolds`, `NoSilentFeedbackLossHolds` | `DeliveryInv`: nothing is taken in or told before the feedback is sent, and what each answer says of it |
| `OneAuthorizationSchemeHolds` | itself |
| `NoEarlyPollHolds`, `SkippedSleepIsSkippedHolds` | `SleepInv`: which of the three reasons holds when the loop goes on, and that `ignoreSleep` and the response agree |

`UP2DateClientProofs` adds, from `BadEndpointAssumption` besides:

| theorem | argument |
|---|---|
| `UPTypeCorrect` | types of the handler's variables (proved; no run checks them) |
| `ProgramImplementsDDIClient` | `UPStepInv` (a payload that is being set came from the DPS) makes the handler's two setters steps `RestoreTLS` and `RestoreEndpoint` |
| `ProgramInheritsSafety` | from it and the theorems on the client, without another proof |
| `OneProvisioningPerRequestHolds` | `InstalledInv`: which half of the payload is set at each `step`, and that outside `onAuthError()` both are |

`UpdateDeliveryProofs`:

| theorem | argument |
|---|---|
| `ClientTypeCorrect`, `UDTypeCorrect` | types; `Restarted` leads to an initial state of the client (`RestartedIsInit`) |
| `DeliveryImplementsLifecycle` | `DeliveryState`: from the answer of a poll to the end of the iteration the client follows one update (`OfferInv`), which is open (`FollowInv`), and its feedback is about that update and tells only of success what is installed (`ReportInv`). The implication from a step of hawkBit to a step of the lifecycle needs all three |
| `FinishedUpdatesAreInstalled` | an invariant of `UpdateLifecycle`, carried over by the refinement |
| `GuaranteesSurviveCrashes` | every step of `UpdateDelivery` is one of the client, or a restart that leads to an initial state; so the invariants of `DDIClientProofs` hold across crashes |
| `ReinstalledOnlyAfterFailureHolds` | `ReinstallInv`: at most one update is open, and while nothing has gone wrong an installed update that is still open is in hand (`InHand`): in its callback, in a download of it, or in the feedback that will close it. The end of each of these closes it or counts as a failure |

`HttpLibClientProofs`:

| theorem | argument |
|---|---|
| `UnixKeepsTheOrder`, `UnixDownloadsAreWhole` | `StageInv`: what each stage says of status, pieces and the kept error. `send()` returns success only from a stage in which the status was shown, no piece was refused, and the body has ended; a step of a stage before that shows nothing to the caller. `TakenIn` grows with every piece that is not refused, however much of it the stream still buffers |
| `ConnectionsAreClosedHolds` | `SocketInv`: the open descriptors are that of the socket and those that were forgotten, and SSL is only on an open socket |
| `OnlyKnownCrashesHolds`, `ErrorIsOfThisConnectionHolds` | `LibInv`, their conjunction: while connected, no error of an earlier address is kept, so that none is at the end but that of this connection; and the steps before the request is written, the only ones that end in a crash, do so with a cause of `KnownToKill` (`EndedEarly`) |

`WinHttpProofs`:

| theorem | argument |
|---|---|
| `StoreIsBoundedHolds` | `StoreInv`: in the clearing loop the length of the store and the place in it are bounded together, since a turn deletes one certificate and passes one; after it, what is left and what is added |
| `SentWithItsChainHolds` | `ChainInv`: the certificates of the chain that are behind `pos` are in the store, and adding one takes none away, so all are there when the loop ends |
| `WindowsKeepsTheOrder`, `WindowsDownloadsAreWhole` | `OrderInv`: before the status nothing was handed over; at the labels no failed call means that the whole body went through the receiver |
| `ReleasedOnceHolds`, `NothingLeaksHolds` | `PtrInv`: which pointer may be held at which step (`MayHold`), and which may be released and not reset (`MayDangle`); a call obtains only what is not held |
| `WinTypeCorrect` | types (proved; no run checks them) |

`StreamProofs`:

| theorem | argument |
|---|---|
| `SocketImplementsByteStream` | `BufferHoldsTheLast`: the buffer holds the bytes received last, and `off` of them are taken, so what comes out of it follows what was taken |
| `SslImplementsByteStream` | what is taken is a part of the records that were opened, and these a part of what was sent |
| `BodyIsWholeHolds`, `SoundAnswersAreReadHolds` | `ReaderInv`, below; a reader that failed has met what `HasFailed` lists, the trailer among it |

`ReaderInv` says how what is left of the connection hangs together with where the reader is.

* `LineInv`: the line in the two buffers is what was taken last, and has no LF in it; the
  growing buffer is used only when the fixed one is full. So what the server means to send
  from the beginning of the line on (`Rest`) changes only when a line or a piece is complete.
* `Stands`: what `Rest` is in each phase, which inverts `Bytes` step by step: the headers
  or chunks from the k-th on, or what is left of a chunk and then what follows it; and that
  `out` and the part of the body in `Rest` are the body. Or the connection broke off within
  a line (`Torn`), which the reader may have taken for a whole one: then nothing more comes.
* `Splits(r, x, y)` is what a line is to the reader: x is the first line of r and y what
  comes after it. `StatusSplits`, `HeaderSplits`, `ChunkSplits`, `ChunkEndSplits` and
  `LastSplits` give the first line of each `Rest`; `ReadLine` says once for all of them that
  a byte leads on in the line, completes it, finds it torn, or fails.
* `FlattenFrom` is the lemma on `FlattenSeq` this rests on: all sequences from the k-th on
  are the next one and all behind it, for any number of them (by the least element, as in
  `RequestsProofs`).

`RequestsProofs`. Induction on the length of a text or a body is not available as a
rule; where it is needed, the least element of the set of numbers that fail is shown not to
exist (`LeastOf`, `Induction`).

| theorem | argument |
|---|---|
| `BuiltClientIsInitialHolds` | `BuilderInv`: one authorization variant at most is chosen, and what it needs is there once it is |
| `RequestsGoWhereTheyShouldHolds` | `UriInv`: what is asked for is `FromString` of the text. The groups of the expression, put together again with what stands between them, are the text, because each ends at the first character that it cannot contain |
| `DocumentSaysWhatWasSetHolds` | `ResponsesInv`: a builder holds the last argument given under each name and all details, up to now; what is built holds those up to `build()` |
| `ServerReadsWhatWasAskedHolds` | `WriterInv`: whatever was written in parts, flushed and tried again, what has left is a prefix of head and body. The lines of a head are not empty (`HeaderLinesAreHeaders`) and carry what was asked (`RequestOfCall`), so that the first empty line a server finds is the end of the head (`FirstEmptyLine`), whatever the body looks like |
| `PrintedKeyPairIsCurrentHolds` | `OnboardingInv`: a program that has a key pair asks for no other, so it is the last that was issued |
| `ServerHasTheNameHolds` | `SplitGivesTheWords`: what `Split` passes on are the words of the name, in order and without one left out (`CutInv`, from dot to dot). So a match at equal indices and one that keeps the order and leaves no word out are the same, because a map of `1..n` onto `1..m` that climbs is the identity (`OneByOne`); `ServerInv` says which names the loop has passed. The code's rule for a component (`Fits`) is an instance of the quoted one (`FitsSpells`); where no star stands in a fragment, the quoted one is the code's (`SpellsFits`, by `OneByOne` again: what is spelled without a star is the same word) |

`AnswersProofs`, over the same rule of the least element:

| theorem | argument |
|---|---|
| `SleepsAsAskedHolds` | `Int32`, `Plus32` and `Times32` are exact whenever the result fits (`Int32Exact`), and each product and sum in `Seconds` does if the last one does (`IntervalIsAsked`) |
| `DeploymentIsCompleteHolds` | `MessagesInv`: the chunks and artifacts that were read are sound, and their links are those of `chunks` in order; the outcome of a list of checks is that of the first that fails (`FirstOfIs`), and none fails exactly if the part is sound (`ParseHeaderIs`, `ParseChunkIs`, `ParseArtifactIs`) |
| `AbortsOnlyOnWrongTypesHolds` | the same lemmas: a check that asserts is one of a type, of an href or of a size |

Only model-checked: liveness (`StopTerminates`, `IterationEnds`, `AuthorizationIsRestored`,
`EveryUpdateIsClosed`, `EveryRequestEnds`, `ReadReturns`), since the prover does not handle
fairness. Every invariant and every action property a passing run checks has its theorem.

The findings are counterexamples of TLC.

## 6. Not modelled

* Of cpp-httplib: the server, keep-alive, redirects, proxies, authentication, compression,
  multipart bodies and `stop()`: third-party code that a client which makes one request
  and is destroyed never reaches. Percent-decoding of header values: no header that is
  read has any. Of OpenSSL and WinHTTP: what they do inside a call.
* Memory. `WinHttpReadData()` (`win_http.c:150`) is asked for up to `dwSize` bytes, the size
  of the status code, into a buffer made for the `dwReqSize` that were available just before,
  which may be fewer; `formatFeedbackPath()` reads in front of an empty path (the model lets
  it find anything). Sizes of buffers and what lies beside them have no counterpart in the
  model, except where a loop depends on them.
* rapidjson: a parser that accepts or refuses, and asserts on a member of a wrong type.
* `setEventHandler` and `notVerifyServerCertificate` of the builder: fields no modelled
  step reads. Whether a client verifies its server is a choice in `HttpLibClient`
  (`Verifications`), as far as `newHttpClient()` leaves one.
* What a handler downloads and installs: data.
* `AuthRestoreHandler` used after `onAuthError()` returned, artifacts kept beyond their
  callback, downloads from other threads, two threads in `run()`: ruled out by the headers
  (`ddi/include/ddi/hawkbit_actions.hpp`), data races otherwise.
* `standalone_client`: a client with the same `Handler`; one of the behaviours `DDIClient`
  allows its callbacks.
