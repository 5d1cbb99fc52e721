----------------------------- MODULE HttpLibClient -----------------------------
(***************************************************************************)
(* The unix wrapper: httpclient::Client over the vendored cpp-httplib, as  *)
(* the DDI client uses it.  newHttpClient() makes a client per request, so *)
(* its socket is never reused, keep-alive, redirects, proxies and stop()   *)
(* stay off, and only one thread has the client.                           *)
(*                                                                         *)
(* External: name resolution, sockets, OpenSSL, the server.  A chunk of a  *)
(* chunked body is one piece; a host has at most MaxAddresses addresses.   *)
(***************************************************************************)
EXTENDS HttpRequest

CONSTANT MaxAddresses

VARIABLES stage,        \* where the request is
          scheme,       \* of the endpoint
          keypair,      \* the keypair given to the Client
          ctx,          \* SSLClient::ctx_, "absent" in a plain client
          addresses,    \* addresses of the host not tried yet
          socket,       \* ClientImpl::socket_
          descriptors,  \* descriptors that are open
          lost,         \* history: those that create_socket() forgot
          framing,      \* how the body of the answer is delimited
          error,        \* the Error of the Result, or "thrown" on the way out
          asserted,     \* history: did every assertion of httplib.cpp hold?
          noSsl         \* history: did SSL_new() fail?

lib == << stage, scheme, keypair, ctx, addresses, socket, descriptors, lost, framing, error, asserted, noSsl >>

\* A keypair may be no PEM at all, or the key may not be that of the certificate.
Keypairs == {"none", "good", "notPEM", "mismatched"}
\* Of the endpoint.  "unsupported": any other, or a port that is no int; "unmatched": an
\* authority with a user, a scheme in capitals and all else the regular expression refuses.
Schemes == {"http", "https", "unsupported", "unmatched"}
Framings == {"length", "chunked", "close", "encoded"}

NoSocket == [open |-> FALSE, ssl |-> FALSE]

\* A ClientImpl as it is declared: no socket, and keep-alive, redirects and proxies off.
LibInit ==
  /\ HRInit
  /\ stage = "idle" /\ scheme = "http" /\ keypair = "none" /\ ctx = "absent"
  /\ addresses = 0 /\ socket = NoSocket /\ descriptors = 0 /\ lost = 0
  /\ framing = "none" /\ error = "Success" /\ asserted = TRUE /\ noSsl = FALSE

\* send() returned, or its result is known: the Client is destroyed next.
Fail(e, next) == error' = e /\ stage' = next

\* toHttpLibResult() reads the Response of every result without an error, and there is none
\* when send() gave up without setting one: the process dies, with all it holds.
CrashWithoutResponse ==    \* mutant: the Response is read before the error
  stage' = "idle" /\ result' = "crashed" /\ descriptors' = 0 /\ lost' = 0

GiveUpUnexplained ==
  IF error' # "Success"
    THEN stage' = "destroy" /\ UNCHANGED << result, descriptors, lost >>
    ELSE stage' = "idle" /\ result' = "crashed" /\ descriptors' = 0 /\ lost' = 0

--------------------------------------------------------------------------------
LibAsk ==
  /\ stage = "idle" /\ Ask
  /\ stage' = "construct"
  /\ scheme' \in Schemes /\ keypair' \in Keypairs
  /\ ctx' = "absent" /\ addresses' = 0 /\ socket' = NoSocket
  /\ descriptors' = 0 /\ lost' = 0 /\ framing' \in Framings
  /\ error' = "Success" /\ asserted' = TRUE /\ noSsl' = FALSE

\* The constructor of SSLClient: a keypair that is no PEM makes a client without a
\* certificate, one that does not match a client without a context.
ContextOf(s, k) ==
  CASE s # "https" -> "absent" [] s = "https" /\ k = "mismatched" -> "null" [] OTHER -> "valid"

\* That of Client: a keypair goes with https alone.  An unmatched endpoint becomes the name of
\* a host, or, with a keypair, leaves the Client without one, and its first request dies of it.
Refuses == scheme = "unsupported" \/ (keypair # "none" /\ scheme = "http")

Construct ==
  /\ stage = "construct"
  /\ UNCHANGED << scheme, keypair, addresses, socket, descriptors, lost, framing, asserted, noSsl, error >>
  /\ UNCHANGED << sink, length, torn, status, handed, written, buffered >>
  /\ \/ Refuses /\ stage' = "idle" /\ result' = "thrown" /\ UNCHANGED ctx
     \/ /\ scheme = "unmatched" /\ keypair # "none"
        /\ stage' = "idle" /\ result' = "crashed" /\ UNCHANGED ctx
     \/ /\ ~Refuses /\ (scheme = "unmatched" => keypair = "none")
        /\ stage' = "resolve" /\ ctx' = ContextOf(scheme, keypair)
        /\ UNCHANGED result

\* getaddrinfo(), unless the client is not valid; no host has the name of an endpoint.
Resolve ==
  /\ stage = "resolve"
  /\ UNCHANGED << scheme, keypair, ctx, socket, framing, asserted, noSsl >>
  /\ UNCHANGED << sink, length, torn, status, handed, written, buffered >>
  /\ \/ /\ ctx # "null" /\ scheme # "unmatched"
        /\ stage' = "connect" /\ addresses' \in 1..MaxAddresses
        /\ UNCHANGED << result, descriptors, lost, error >>
     \/ /\ error' = IF ctx = "null" THEN error ELSE "Connection"
        /\ GiveUpUnexplained /\ UNCHANGED addresses

ErrorIsKept == error               \* mutant: the error of an earlier address stays
ErrorWhenConnected == "Success"

\* connect() does not wait: the connection is there, is refused, or is in progress; then the
\* socket is ready in time, is ready with an error, or the connection timeout runs out.
Askings == {"there", "refused", "inProgress"}
Waits == {"ready", "readyWithError", "timedOut"}
Connects(asking, wait) == asking = "there" \/ (asking = "inProgress" /\ wait = "ready")

\* send(), behind create_and_connect_socket().
StageWhenConnected == IF scheme = "https" THEN "tls" ELSE "write"

\* One address after the other: no descriptor to be had, one that cannot be made
\* close-on-exec, one that does not connect, and one that does.
TryAddress ==
  /\ stage = "connect" /\ addresses > 0
  /\ addresses' = addresses - 1
  /\ UNCHANGED << scheme, keypair, ctx, framing, asserted, noSsl, http >>
  /\ \/ UNCHANGED << stage, socket, descriptors, lost, error >>
     \/ /\ descriptors' = descriptors + 1 /\ lost' = lost + 1
        /\ UNCHANGED << stage, socket, error >>
     \/ \E asking \in Askings, wait \in Waits :
          IF Connects(asking, wait)
            THEN /\ socket' = [open |-> TRUE, ssl |-> FALSE] /\ descriptors' = descriptors + 1
                 /\ error' = ErrorWhenConnected /\ stage' = StageWhenConnected
                 /\ UNCHANGED lost
            ELSE error' = "Connection" /\ UNCHANGED << stage, socket, descriptors, lost >>

Unreachable ==
  /\ stage = "connect" /\ addresses = 0
  /\ Fail("Connection", "destroy")
  /\ UNCHANGED << scheme, keypair, ctx, addresses, socket, descriptors, lost, framing, asserted, noSsl, http >>

--------------------------------------------------------------------------------
\* shutdown_ssl() and close_socket(), which asserts that no SSL is left on the socket.
ShutdownSsl(s) == [s EXCEPT !.ssl = FALSE]

CloseSocket(s) ==
  /\ asserted' = (asserted /\ ~s.ssl)
  /\ socket' = NoSocket
  /\ descriptors' = IF s.open THEN descriptors - 1 ELSE descriptors

\* newHttpClient() sets the verification of clients without a keypair, the others verify.
Verifications == IF keypair = "none" THEN BOOLEAN ELSE {TRUE}

\* The handshake does not wait either: the socket is waited for, both ways, until it is done.
Handshakes == {"done", "failed", "timedOut"}

\* The first callback of ssl_new(); the server's certificate may be none, not verify, or be
\* that of another host.
SslConnect(verifies, handshake, genuine) ==
  CASE handshake # "done"                              -> "SSLConnection"
    [] handshake = "done" /\ verifies /\ ~genuine      -> "SSLServerVerification"
    [] handshake = "done" /\ (verifies => genuine)     -> "there"

\* SSLClient::initialize_ssl(): ssl_new() frees its SSL again if the callback fails; no SSL at
\* all sets no error.
InitializeSsl ==
  /\ stage = "tls"
  /\ UNCHANGED << scheme, keypair, ctx, addresses, framing >>
  /\ UNCHANGED << sink, length, torn, status, handed, written, buffered >>
  /\ \/ \E verifies \in Verifications, handshake \in Handshakes, genuine \in BOOLEAN :
          LET ssl == SslConnect(verifies, handshake, genuine)
          IN IF ssl = "there"
               THEN /\ stage' = "write" /\ socket' = [socket EXCEPT !.ssl = TRUE]
                    /\ UNCHANGED << descriptors, lost, error, asserted, noSsl, result >>
               ELSE /\ error' = ssl /\ CloseSocket(socket)
                    /\ stage' = "destroy" /\ UNCHANGED << lost, noSsl, result >>
     \/ /\ noSsl' = TRUE /\ UNCHANGED error
        /\ GiveUpUnexplained
        /\ asserted' = asserted /\ socket' = NoSocket

\* write_request(): an empty path is refused before anything is written.
WriteRequest ==
  /\ stage = "write"
  /\ \/ stage' = "head" /\ UNCHANGED error
     \/ \E e \in {"Connection", "Write"} : Fail(e, "epilogue")
  /\ UNCHANGED << scheme, keypair, ctx, addresses, socket, descriptors, lost, framing, asserted, noSsl, http >>

\* Status line and headers, then the response handler.  A 204 has no body, and is not shown
\* to the handler.  An exception leaves send() without its epilogue.
ReadHead ==
  /\ stage = "head"
  /\ UNCHANGED << scheme, keypair, ctx, addresses, socket, descriptors, lost, framing, asserted, noSsl >>
  /\ \/ Fail("Read", "epilogue") /\ UNCHANGED http
     \/ \E s \in Statuses :
          /\ Show(s) /\ UNCHANGED result
          /\ CASE s = "204"       -> stage' = "closing" /\ UNCHANGED error
               [] StatusAccepted' -> stage' = "body" /\ UNCHANGED error
               [] OTHER           -> Fail("thrown", "destroy")

(***************************************************************************)
(* The body.  A body with a length ends there; a chunked one with a chunk  *)
(* of no length, or after a chunk that something else than CRLF follows; a *)
(* body without both where the connection ends.  An encoding the build     *)
(* does not know fails.                                                    *)
(***************************************************************************)
ReceivePiece ==
  /\ stage = "body" /\ framing # "encoded"
  /\ Hand
  /\ IF Refused' THEN Fail("Canceled", "epilogue")
                 ELSE /\ stage' = IF framing = "chunked" THEN "chunkEnd" ELSE "body"
                      /\ UNCHANGED error
  /\ UNCHANGED << scheme, keypair, ctx, addresses, socket, descriptors, lost, framing, asserted, noSsl >>

ReceiverThrows ==
  /\ stage = "body" /\ framing # "encoded" /\ sink = "receiver" /\ handed < length
  /\ Fail("thrown", "destroy")
  /\ UNCHANGED << scheme, keypair, ctx, addresses, socket, descriptors, lost, framing, asserted, noSsl, http >>

ChunkEnd ==
  /\ stage = "chunkEnd"
  /\ \/ stage' = "body" /\ UNCHANGED << error, http >>
     \/ stage' = "closing" /\ Tear /\ UNCHANGED error
     \/ Fail("Read", "epilogue") /\ UNCHANGED http
  /\ UNCHANGED << scheme, keypair, ctx, addresses, socket, descriptors, lost, framing, asserted, noSsl >>

\* Does the end of the connection end the body?
BodyMayEnd == framing = "close"

BodyEnd ==
  /\ stage = "body"
  /\ \/ /\ handed = length /\ framing # "encoded"
        /\ stage' = "closing" /\ UNCHANGED << error, http >>
     \/ BodyMayEnd /\ stage' = "closing" /\ Tear /\ UNCHANGED error
     \/ Fail("Read", "epilogue") /\ UNCHANGED http
  /\ UNCHANGED << scheme, keypair, ctx, addresses, socket, descriptors, lost, framing, asserted, noSsl >>

--------------------------------------------------------------------------------
\* The server may ask to close the connection: process_request() does it before send() does.
CloseAsAsked ==
  /\ stage = "closing"
  /\ stage' = "epilogue"
  /\ \/ CloseSocket(ShutdownSsl(socket))
     \/ UNCHANGED << socket, descriptors, asserted >>
  /\ UNCHANGED << scheme, keypair, ctx, addresses, lost, framing, noSsl, error, http >>

\* The end of send(): without keep-alive the connection is closed in any case.
Epilogue ==
  /\ stage = "epilogue"
  /\ stage' = "destroy"
  /\ CloseSocket(ShutdownSsl(socket))
  /\ UNCHANGED << scheme, keypair, ctx, addresses, lost, framing, noSsl, error, http >>

\* ~SSLClient() frees the context and shuts SSL down, then ~ClientImpl() closes the socket.
DestroyWithoutSsl == socket    \* mutant: SSL is left to the destructor of the base class
DestroySsl == ShutdownSsl(socket)

Destroy ==
  /\ stage = "destroy"
  /\ stage' = "idle"
  /\ ctx' = IF ctx = "valid" THEN "freed" ELSE ctx
  /\ CloseSocket(DestroySsl)
  /\ End(CASE error \in {"Success", "Canceled", "thrown"} -> error [] OTHER -> "error")
  /\ UNCHANGED << scheme, keypair, addresses, lost, framing, noSsl, error >>

LibStep ==
  \/ Construct \/ Resolve \/ TryAddress \/ Unreachable \/ InitializeSsl
  \/ WriteRequest \/ ReadHead \/ ReceivePiece \/ ReceiverThrows \/ ChunkEnd \/ BodyEnd
  \/ CloseAsAsked \/ Epilogue \/ Destroy

LibNext == LibAsk \/ LibStep
libVars == << http, lib >>

\* Every wait is bounded by a timeout.
LibSpec == LibInit /\ [][LibNext]_libVars /\ WF_libVars(LibStep)

--------------------------------------------------------------------------------
\* However a request ends, exceptions of its callbacks included, the descriptors it opened
\* are closed, but for those create_socket() forgets when it cannot make them close-on-exec,
\* and the library's assertions hold: SSL is always down before its socket is closed.
ConnectionsAreClosed ==
  /\ asserted
  /\ stage = "idle" => descriptors = lost

\* What the process dies of: an endpoint the library does not understand, asked for with a
\* keypair; a key that is not that of the certificate; an OpenSSL that makes no SSL.
KnownToKill ==
  \/ scheme = "unmatched" /\ keypair # "none"
  \/ scheme = "https" /\ keypair = "mismatched" /\ ctx = "null"
  \/ scheme = "https" /\ noSsl

\* Every request is answered by a result or an exception, however many addresses failed and
\* whatever the certificates are; the process dies only before the request is sent, and only
\* of the three causes that are known to kill it.
OnlyKnownCrashes == result = "crashed" => status = "none" /\ handed = 0 /\ KnownToKill

\* A connection that came about at a later address does not bear the error of an earlier one.
ErrorIsOfThisConnection ==
  stage \in {"tls", "write", "head", "body", "chunkEnd", "closing"} => error = "Success"

================================================================================
