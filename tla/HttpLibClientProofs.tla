-------------------------- MODULE HttpLibClientProofs --------------------------
(***************************************************************************)
(* The unix wrapper for bodies of any length and hosts of any number of    *)
(* addresses: the caller sees a request in order, connections are closed,  *)
(* and the process dies only where it is known to.                         *)
(***************************************************************************)
EXTENDS HttpLibClient, TLAPS

USE PiecesAssumption
USE DEF http, lib, libVars

Stages ==
  {"idle", "construct", "resolve", "connect", "tls", "write", "head", "body", "chunkEnd",
   "closing", "epilogue", "destroy"}

BeforeRequest == {"construct", "resolve", "connect", "tls", "write", "head"}
Connected == {"tls", "write", "head", "body", "chunkEnd", "closing"}

Errors ==
  {"Success", "Connection", "SSLConnection", "SSLServerVerification", "Write", "Read", "Canceled", "thrown"}

NoneRefused == TakenIn = handed \/ sink = "unopened"
BodyEnded == handed = length \/ torn \/ status = "204"

(***************************************************************************)
(* The connection: a descriptor that is open is that of the socket, or one *)
(* of those that are forgotten; only a connected socket bears SSL.         *)
(***************************************************************************)
SocketInv ==
  /\ socket \in [open : BOOLEAN, ssl : BOOLEAN]
  /\ lost \in Nat
  /\ descriptors = IF socket.open /\ stage # "idle" THEN lost + 1 ELSE lost
  /\ stage \in {"construct", "resolve", "connect"} => socket = NoSocket
  /\ stage = "tls" => socket = [open |-> TRUE, ssl |-> FALSE]
  /\ asserted = TRUE

\* What a stage says of the request, and of the error that send() has kept.
StageInv ==
  /\ stage \in Stages /\ error \in Errors
  /\ result = "pending" <=> stage # "idle"
  /\ stage \in BeforeRequest => status = "none" /\ handed = 0 /\ written = 0
  /\ stage \in Connected \cup {"construct", "resolve"} => error = "Success"
  /\ stage = "resolve" => ctx = ContextOf(scheme, keypair)
  /\ stage = "tls" => scheme = "https"
  /\ noSsl \in BOOLEAN
  /\ stage \in {"body", "chunkEnd"} => status # "none" /\ NoneRefused
  /\ stage \in {"closing", "epilogue", "destroy"} /\ error = "Success" =>
       status # "none" /\ NoneRefused /\ BodyEnded
  /\ result = "Success" => NoneRefused /\ BodyEnded

LibInv == HRTypeOK /\ SocketInv /\ StageInv /\ OnlyKnownCrashes

\* At the start there is no socket, no request, and no error.
LEMMA LibInitInv == LibInit => LibInv
<1> SUFFICES ASSUME LibInit PROVE LibInv
  OBVIOUS
<1>1. HRTypeOK
  <2>1. torn \in BOOLEAN
    BY Zenon DEF LibInit, HRInit
  <2> QED
    BY <2>1 DEF LibInit, HRInit, HRTypeOK, Sinks, Results
<1>2. SocketInv
  BY DEF LibInit, SocketInv, NoSocket
<1>3. StageInv
  BY DEF LibInit, HRInit, StageInv, Stages, Errors, BeforeRequest, Connected
<1>4. OnlyKnownCrashes
  BY DEF LibInit, HRInit, OnlyKnownCrashes
<1> QED
  BY <1>1, <1>2, <1>3, <1>4 DEF LibInv

\* Steps that leave the request of the caller as it is keep its type.
LEMMA SameHttp == ASSUME LibInv, UNCHANGED http PROVE HRTypeOK'
  BY DEF LibInv, HRTypeOK

\* What a sink has taken in stays where it is, or goes on from the buffer into the file.
LEMMA StoresType ==
  ASSUME HRTypeOK, NEW m \in Nat, NEW n \in 0..m, Stores(n), UNCHANGED sink
  PROVE  /\ written' \in 0..m /\ buffered' \in 0..(m - written')
         /\ buffered' # 0 => sink' = "file"
         /\ TakenIn' = n
<1>1. PICK kept \in 0..n : /\ kept # 0 => sink = "file"
                           /\ written' = n - kept /\ buffered' = kept
  BY DEF Stores
<1> QED
  BY <1>1 DEF TakenIn

LEMMA NothingStored == ASSUME HRTypeOK, UNCHANGED << written, buffered >> PROVE Stores(TakenIn)
<1>1. /\ buffered \in 0..TakenIn
      /\ buffered # 0 => sink = "file"
      /\ written <= TakenIn - buffered /\ written' = TakenIn - buffered
      /\ buffered' = buffered
  BY DEF HRTypeOK, TakenIn
<1> QED
  BY <1>1, Zenon DEF Stores

\* A request that was asked for is at its beginning.
LEMMA AskInv == ASSUME LibInv, LibAsk PROVE LibInv' /\ HRNext
<1>1. HRTypeOK'
  <2>1. torn' \in BOOLEAN
    BY Zenon DEF LibAsk, Ask
  <2> QED
    BY <2>1 DEF LibAsk, Ask, HRTypeOK
<1>2. SocketInv'
  BY DEF LibAsk, SocketInv, NoSocket
<1>3. StageInv'
  BY DEF LibAsk, Ask, StageInv, Stages, Errors, BeforeRequest, Connected
<1>4. OnlyKnownCrashes'
  BY DEF LibAsk, Ask, OnlyKnownCrashes
<1> QED
  BY <1>1, <1>2, <1>3, <1>4 DEF LibInv, LibAsk, HRNext

\* A process that dies, or a constructor that throws, ends the request before its status.
LEMMA EndedEarly ==
  ASSUME LibInv, NEW r \in {"thrown", "crashed"}, stage \in {"construct", "resolve", "tls"},
         result' = r, stage' = "idle", UNCHANGED << scheme, keypair >>,
         UNCHANGED << sink, length, torn, status, handed, written, buffered >>,
         error' \in Errors, SocketInv',
         noSsl' \in BOOLEAN, r = "crashed" => KnownToKill'
  PROVE  LibInv' /\ HRNext
<1>1. result = "pending" /\ status = "none" /\ handed = 0 /\ written = 0
  BY DEF LibInv, StageInv, BeforeRequest
<1>2. Return(r) /\ r \in Results
  BY <1>1, NothingStored DEF Return, End, Results, LibInv
<1>3. HRTypeOK'
  BY DEF LibInv, HRTypeOK, Results
<1>4. StageInv'
  BY DEF StageInv, Stages, BeforeRequest, Connected
<1>5. OnlyKnownCrashes'
  BY <1>1 DEF OnlyKnownCrashes
<1> QED
  BY <1>2, <1>3, <1>4, <1>5 DEF LibInv, HRNext

LEMMA ConstructInv == ASSUME LibInv, Construct PROVE LibInv' /\ [HRNext]_http
<1>1. /\ stage = "construct" /\ error = "Success"
      /\ UNCHANGED << scheme, keypair, addresses, socket, descriptors, lost, framing, asserted, noSsl, error >>
      /\ UNCHANGED << sink, length, torn, status, handed, written, buffered >>
  BY DEF Construct, LibInv, StageInv, Connected
<1>3. CASE Refuses /\ stage' = "idle" /\ result' = "thrown"
  BY <1>1, <1>3, EndedEarly DEF LibInv, SocketInv, StageInv, NoSocket, Errors
<1>4. CASE scheme = "unmatched" /\ keypair # "none" /\ stage' = "idle" /\ result' = "crashed"
  BY <1>1, <1>4, EndedEarly DEF LibInv, SocketInv, StageInv, NoSocket, Errors, KnownToKill
<1>5. CASE stage' = "resolve" /\ ctx' = ContextOf(scheme, keypair) /\ UNCHANGED result
  <2>1. SocketInv'
    BY <1>1, <1>5 DEF LibInv, SocketInv
  <2>2. StageInv'
    BY <1>1, <1>5 DEF LibInv, StageInv, Stages, Errors, BeforeRequest, Connected, ContextOf,
       NoneRefused, BodyEnded
  <2>3. OnlyKnownCrashes'
    BY <1>1, <1>5 DEF LibInv, StageInv, OnlyKnownCrashes
  <2> QED
    BY <1>1, <1>5, <2>1, <2>2, <2>3, SameHttp DEF LibInv
<1> QED
  BY <1>3, <1>4, <1>5 DEF Construct

LEMMA ResolveInv == ASSUME LibInv, Resolve PROVE LibInv' /\ [HRNext]_http
<1>1. /\ stage = "resolve" /\ error = "Success" /\ ctx = ContextOf(scheme, keypair)
      /\ UNCHANGED << scheme, keypair, ctx, socket, framing, asserted, noSsl >>
      /\ UNCHANGED << sink, length, torn, status, handed, written, buffered >>
  BY DEF Resolve, LibInv, StageInv, Connected
<1>2. CASE stage' = "connect" /\ UNCHANGED << result, descriptors, lost, error >>
  <2>1. SocketInv' /\ StageInv' /\ OnlyKnownCrashes'
    BY <1>1, <1>2 DEF LibInv, SocketInv, StageInv, OnlyKnownCrashes, Stages, BeforeRequest, Connected,
       NoneRefused, BodyEnded
  <2> QED
    BY <1>1, <1>2, <2>1, SameHttp DEF LibInv
<1>3. CASE error' = (IF ctx = "null" THEN error ELSE "Connection") /\ GiveUpUnexplained
  <2>1. CASE ctx = "null"
    <3>1. /\ scheme = "https" /\ keypair = "mismatched" /\ stage' = "idle" /\ result' = "crashed"
          /\ descriptors' = 0 /\ lost' = 0
      BY <1>1, <1>3, <2>1 DEF ContextOf, GiveUpUnexplained
    <3>2. SocketInv'
      BY <1>1, <3>1 DEF LibInv, SocketInv
    <3> QED
      BY <1>1, <1>3, <2>1, <3>1, <3>2, EndedEarly DEF Errors, KnownToKill, LibInv, StageInv
  <2>2. CASE ctx # "null"
    <3>1. stage' = "destroy" /\ error' = "Connection" /\ UNCHANGED << result, descriptors, lost >>
      BY <1>3, <2>2 DEF GiveUpUnexplained
    <3>2. SocketInv' /\ StageInv' /\ OnlyKnownCrashes'
      BY <1>1, <3>1 DEF LibInv, SocketInv, StageInv, OnlyKnownCrashes, Stages, BeforeRequest,
         Connected, Errors, NoSocket, NoneRefused, BodyEnded
    <3> QED
      BY <1>1, <3>1, <3>2, SameHttp DEF LibInv
  <2> QED
    BY <2>1, <2>2
<1> QED
  BY <1>2, <1>3 DEF Resolve

LEMMA TryAddressInv == ASSUME LibInv, TryAddress \/ Unreachable PROVE LibInv' /\ [HRNext]_http
<1>1. /\ stage = "connect" /\ UNCHANGED http /\ UNCHANGED << scheme, keypair, ctx, asserted, noSsl >>
      /\ socket = NoSocket
  BY DEF TryAddress, Unreachable, LibInv, SocketInv
<1>2. SocketInv' /\ stage' \in {"connect", "tls", "write", "destroy"} /\ error' \in Errors
      /\ (stage' \in {"tls", "write"} => error' = "Success")
      /\ (stage' = "destroy" => error' = "Connection")
      /\ (stage' = "tls" => scheme = "https")
  <2>1. CASE Unreachable
    BY <1>1, <2>1 DEF Unreachable, Fail, LibInv, SocketInv, Errors, NoSocket
  <2>2. CASE UNCHANGED << stage, socket, descriptors, lost, error >>
    BY <1>1, <2>2 DEF LibInv, SocketInv, StageInv
  <2>3. CASE descriptors' = descriptors + 1 /\ lost' = lost + 1 /\ UNCHANGED << stage, socket, error >>
    BY <1>1, <2>3 DEF LibInv, SocketInv, StageInv, NoSocket
  <2>4. CASE /\ socket' = [open |-> TRUE, ssl |-> FALSE] /\ descriptors' = descriptors + 1
             /\ error' = ErrorWhenConnected /\ stage' = StageWhenConnected
             /\ UNCHANGED lost
    BY <1>1, <2>4 DEF LibInv, SocketInv, NoSocket, ErrorWhenConnected, StageWhenConnected, Errors
  <2>5. CASE error' = "Connection" /\ UNCHANGED << stage, socket, descriptors, lost >>
    BY <1>1, <2>5 DEF LibInv, SocketInv, Errors
  <2> QED
    BY <2>1, <2>2, <2>3, <2>4, <2>5 DEF TryAddress
<1>3. StageInv' /\ OnlyKnownCrashes'
  BY <1>1, <1>2 DEF LibInv, StageInv, OnlyKnownCrashes, Stages, BeforeRequest, Connected,
     NoneRefused, BodyEnded
<1> QED
  BY <1>1, <1>2, <1>3, SameHttp DEF LibInv

LEMMA InitializeSslInv == ASSUME LibInv, InitializeSsl PROVE LibInv' /\ [HRNext]_http
<1>1. /\ stage = "tls" /\ error = "Success" /\ scheme = "https"
      /\ socket = [open |-> TRUE, ssl |-> FALSE] /\ descriptors = lost + 1 /\ lost \in Nat /\ asserted = TRUE
      /\ UNCHANGED << scheme, keypair, ctx, addresses, framing >>
      /\ UNCHANGED << sink, length, torn, status, handed, written, buffered >>
  BY DEF InitializeSsl, LibInv, StageInv, SocketInv, Connected
<1>2. CASE /\ stage' = "write" /\ socket' = [socket EXCEPT !.ssl = TRUE]
           /\ UNCHANGED << descriptors, lost, error, asserted, noSsl, result >>
  <2>1. SocketInv'
    BY <1>1, <1>2 DEF LibInv, SocketInv
  <2>2. StageInv' /\ OnlyKnownCrashes'
    BY <1>1, <1>2 DEF LibInv, StageInv, OnlyKnownCrashes, Stages, BeforeRequest, Connected,
       NoneRefused, BodyEnded
  <2> QED
    BY <1>1, <1>2, <2>1, <2>2, SameHttp DEF LibInv
<1>3. CASE /\ error' \in {"SSLConnection", "SSLServerVerification"} /\ CloseSocket(socket)
           /\ stage' = "destroy" /\ UNCHANGED << lost, noSsl, result >>
  <2>1. SocketInv'
    <3>1. socket.ssl = FALSE /\ socket.open = TRUE
      BY <1>1
    <3>2. asserted' = TRUE
      BY <1>1, <1>3, <3>1, Zenon DEF CloseSocket
    <3>3. socket' = NoSocket /\ descriptors' = descriptors - 1
      BY <1>3, <3>1 DEF CloseSocket
    <3> QED
      BY <1>1, <1>3, <3>2, <3>3 DEF SocketInv, NoSocket
  <2>2. StageInv' /\ OnlyKnownCrashes'
    BY <1>1, <1>3 DEF LibInv, StageInv, OnlyKnownCrashes, Stages, BeforeRequest, Connected, Errors,
       NoneRefused, BodyEnded
  <2> QED
    BY <1>1, <1>3, <2>1, <2>2, SameHttp DEF LibInv
<1>4. CASE noSsl' = TRUE /\ UNCHANGED error /\ GiveUpUnexplained /\ asserted' = asserted /\ socket' = NoSocket
  <2>1. stage' = "idle" /\ result' = "crashed" /\ descriptors' = 0 /\ lost' = 0
    BY <1>1, <1>4 DEF GiveUpUnexplained
  <2>2. SocketInv'
    BY <1>1, <1>4, <2>1 DEF SocketInv, NoSocket
  <2> QED
    BY <1>1, <1>4, <2>1, <2>2, EndedEarly DEF Errors, KnownToKill
<1>5. ASSUME NEW verifies \in Verifications, NEW handshake \in Handshakes, NEW genuine \in BOOLEAN
      PROVE  SslConnect(verifies, handshake, genuine) \in {"there", "SSLConnection", "SSLServerVerification"}
  BY DEF SslConnect, Verifications
<1> QED
  BY <1>2, <1>3, <1>4, <1>5 DEF InitializeSsl

(***************************************************************************)
(* The exchange over a connection that is there: the caller's variables    *)
(* change in one step of HttpRequest or not at all.                        *)
(***************************************************************************)
LEMMA ExchangeInv ==
  ASSUME LibInv, WriteRequest \/ ReadHead \/ ReceivePiece \/ ReceiverThrows \/ ChunkEnd \/ BodyEnd
  PROVE  LibInv' /\ [HRNext]_http
<1>1. /\ stage \in {"write", "head", "body", "chunkEnd"} /\ result = "pending" /\ error = "Success"
      /\ UNCHANGED << scheme, keypair, ctx, addresses, socket, descriptors, lost, framing, asserted, noSsl >>
  BY DEF WriteRequest, ReadHead, ReceivePiece, ReceiverThrows, ChunkEnd, BodyEnd, LibInv, StageInv,
     Connected
<1>2. /\ stage' \in {"head", "body", "chunkEnd", "closing", "epilogue", "destroy"} /\ result' = "pending"
  BY <1>1, Zenon DEF WriteRequest, ReadHead, ReceivePiece, ReceiverThrows, ChunkEnd, BodyEnd, Fail, Hand,
     Tear, Show
<1>3. SocketInv'
  BY <1>1, <1>2 DEF LibInv, SocketInv
<1>4. OnlyKnownCrashes'
  BY <1>2 DEF OnlyKnownCrashes
<1>5. HRTypeOK' /\ StageInv' /\ [HRNext]_http
  <2> USE DEF StageInv, Stages, Errors, BeforeRequest, Connected, NoneRefused, BodyEnded, Fail
  <2>1. CASE WriteRequest
    BY <1>1, <1>2, <2>1, SameHttp DEF WriteRequest, LibInv
  <2>2. CASE ReadHead
    <3>1. CASE Fail("Read", "epilogue") /\ UNCHANGED http
      BY <1>1, <2>2, <3>1, SameHttp DEF ReadHead, LibInv
    <3>2. ASSUME NEW s \in Statuses, Show(s), UNCHANGED result,
                 CASE s = "204"       -> stage' = "closing" /\ UNCHANGED error
                   [] StatusAccepted' -> stage' = "body" /\ UNCHANGED error
                   [] OTHER           -> Fail("thrown", "destroy")
          PROVE  HRTypeOK' /\ StageInv' /\ [HRNext]_http
      <4>1. status = "none" /\ handed = 0 /\ written = 0 /\ s # "none"
        BY <2>2 DEF ReadHead, LibInv, Statuses
      <4>2. ShowStatus(s)
        BY <1>1, <3>2, <4>1 DEF ShowStatus
      <4>3. HRTypeOK'
        BY <3>2 DEF LibInv, HRTypeOK, Show
      <4>4. \/ s = "204" /\ stage' = "closing" /\ error' = error
            \/ stage' = "body" /\ error' = error
            \/ stage' = "destroy" /\ error' = "thrown"
        BY <3>2
      <4>5. StageInv'
        BY <1>1, <1>2, <3>2, <4>1, <4>4 DEF LibInv, Show, HRTypeOK, TakenIn
      <4> QED
        BY <4>2, <4>3, <4>5 DEF HRNext
    <3> QED
      BY <2>2, <3>1, <3>2 DEF ReadHead
  <2>3. CASE ReceivePiece
    <3>1. stage = "body" /\ status # "none" /\ NoneRefused /\ Hand
      BY <2>3 DEF ReceivePiece, LibInv
    <3>2. HandOver
      BY <1>1, <3>1 DEF HandOver
    <3>a. /\ handed \in Nat /\ TakenIn \in 0..handed /\ handed' = handed + 1 /\ UNCHANGED sink
          /\ Stores(TakenIn + 1) \/ Stores(TakenIn)
      BY <3>1 DEF Hand, LibInv, HRTypeOK, TakenIn
    <3>b. /\ written' \in 0..handed' /\ buffered' \in 0..(handed' - written')
          /\ (buffered' # 0 => sink' = "file") /\ TakenIn' \in {TakenIn, TakenIn + 1}
      BY <3>a, StoresType DEF LibInv
    <3>3. HRTypeOK' /\ status' # "none"
      <4>1. /\ sink' \in Sinks /\ length' \in 0..MaxPieces /\ status' \in Statuses \cup {"none"}
            /\ torn' \in BOOLEAN /\ result' \in Results \cup {"pending"}
        BY <3>1, Zenon DEF Hand, LibInv, HRTypeOK
      <4>2. handed' \in 0..length' /\ status' # "none"
        BY <3>1 DEF Hand, LibInv, HRTypeOK
      <4> QED
        BY <4>1, <4>2, <3>b, Zenon DEF HRTypeOK
    <3>4. \/ stage' = "epilogue" /\ error' = "Canceled"
          \/ stage' \in {"body", "chunkEnd"} /\ error' = error /\ NoneRefused'
      BY <2>3, <3>a, <3>b DEF ReceivePiece, Refused
    <3>5. StageInv'
      BY <1>1, <1>2, <3>3, <3>4 DEF LibInv
    <3> QED
      BY <3>2, <3>3, <3>5 DEF HRNext
  <2>4. CASE ReceiverThrows
    BY <1>1, <2>4, SameHttp DEF ReceiverThrows, LibInv
  <2>5. CASE (ChunkEnd \/ BodyEnd) /\ Tear
    <3>1. HRTypeOK'
      BY <2>5 DEF Tear, LibInv, HRTypeOK
    <3>2. stage' = "closing" \/ (stage' = "epilogue" /\ error' = "Read") \/ stage' = "body"
      BY <2>5 DEF ChunkEnd, BodyEnd
    <3>3. status # "none" /\ NoneRefused
      BY <2>5 DEF ChunkEnd, BodyEnd, LibInv
    <3>4. StageInv'
      BY <1>1, <1>2, <2>5, <3>2, <3>3 DEF Tear, ChunkEnd, BodyEnd, TakenIn, LibInv
    <3> QED
      BY <2>5, <3>1, <3>4 DEF HRNext
  <2>6. CASE (ChunkEnd \/ BodyEnd) /\ UNCHANGED http
    <3>1. status # "none" /\ NoneRefused /\ handed <= length
      BY <2>6 DEF ChunkEnd, BodyEnd, LibInv, HRTypeOK
    <3>2. StageInv'
      BY <1>1, <1>2, <2>6, <3>1 DEF ChunkEnd, BodyEnd, Tear, TakenIn, LibInv
    <3> QED
      BY <2>6, <3>2, SameHttp
  <2> QED
    BY <2>1, <2>2, <2>3, <2>4, <2>5, <2>6 DEF ChunkEnd, BodyEnd
<1> QED
  BY <1>3, <1>4, <1>5 DEF LibInv

\* The end of send() and the destructors: SSL first, then the socket.
LEMMA CloseInv == ASSUME LibInv, CloseAsAsked \/ Epilogue \/ Destroy PROVE LibInv' /\ [HRNext]_http
<1>1. /\ stage \in {"closing", "epilogue", "destroy"} /\ result = "pending"
      /\ UNCHANGED << scheme, keypair, lost, framing, error, noSsl >>
      /\ UNCHANGED << sink, length, torn, status, handed >>
      /\ stage' \in {"epilogue", "destroy", "idle"}
  BY DEF CloseAsAsked, Epilogue, Destroy, LibInv, StageInv, End
<1>2. SocketInv'
  <2>1. CASE CloseSocket(ShutdownSsl(socket))
    <3> DEFINE down == ShutdownSsl(socket)
    <3>1. down.ssl = FALSE /\ down.open = socket.open
      BY DEF ShutdownSsl, LibInv, SocketInv
    <3>2. asserted = TRUE /\ CloseSocket(down)
      BY <2>1 DEF LibInv, SocketInv
    <3> HIDE DEF down
    <3>3. asserted' = TRUE
      BY <3>1, <3>2, Zenon DEF CloseSocket
    <3>4. socket' = NoSocket /\ descriptors' = IF socket.open THEN descriptors - 1 ELSE descriptors
      BY <3>1, <3>2 DEF CloseSocket
    <3> QED
      BY <1>1, <3>3, <3>4 DEF NoSocket, LibInv, SocketInv
  <2>2. CASE stage' = "epilogue" /\ UNCHANGED << socket, descriptors, asserted >>
    BY <1>1, <2>2 DEF LibInv, SocketInv
  <2> QED
    BY <2>1, <2>2 DEF CloseAsAsked, Epilogue, Destroy, DestroySsl
<1>3. CASE CloseAsAsked \/ Epilogue
  <2>1. UNCHANGED http /\ stage' \in {"epilogue", "destroy"}
    BY <1>3 DEF CloseAsAsked, Epilogue
  <2>2. StageInv' /\ OnlyKnownCrashes'
    BY <1>1, <2>1 DEF LibInv, StageInv, OnlyKnownCrashes, Stages, BeforeRequest, Connected,
       NoneRefused, BodyEnded, TakenIn
  <2> QED
    BY <1>2, <2>1, <2>2, SameHttp DEF LibInv
<1>4. CASE Destroy
  <2> DEFINE r == CASE error \in {"Success", "Canceled", "thrown"} -> error [] OTHER -> "error"
  <2>1. r \in Results /\ r # "crashed" /\ (r = "Success" <=> error = "Success")
    BY DEF Results
  <2>2. result' = r /\ stage' = "idle" /\ stage = "destroy"
    BY <1>4 DEF Destroy, End
  <2> HIDE DEF r
  <2>3. error = "Success" => status # "none" /\ NoneRefused /\ BodyEnded
    BY <2>2 DEF LibInv, StageInv
  <2>4. Return(r)
    BY <1>1, <1>4, <2>1, <2>2, <2>3 DEF Destroy, Return, End, NoneRefused, BodyEnded
  <2>a. Stores(TakenIn) /\ TakenIn \in 0..handed /\ handed \in Nat /\ HRTypeOK
    BY <1>4 DEF Destroy, End, LibInv, HRTypeOK, TakenIn
  <2>b. /\ written' \in 0..handed' /\ buffered' \in 0..(handed' - written')
        /\ (buffered' # 0 => sink' = "file") /\ TakenIn' = TakenIn
    BY <1>1, <2>a, StoresType
  <2>5. HRTypeOK'
    BY <1>1, <2>1, <2>2, <2>b DEF LibInv, HRTypeOK
  <2>6. StageInv'
    BY <1>1, <2>1, <2>2, <2>3, <2>b DEF LibInv, StageInv, Stages, BeforeRequest, Connected, NoneRefused,
       BodyEnded, Results
  <2>7. OnlyKnownCrashes'
    BY <2>1, <2>2 DEF OnlyKnownCrashes
  <2> QED
    BY <1>2, <2>1, <2>4, <2>5, <2>6, <2>7 DEF LibInv, HRNext
<1> QED
  BY <1>3, <1>4

LEMMA LibNextInv == LibInv /\ [LibNext]_libVars => LibInv' /\ [HRNext]_http
<1>1. ASSUME LibInv, UNCHANGED libVars PROVE LibInv'
  BY <1>1, SameHttp DEF LibInv, SocketInv, StageInv, OnlyKnownCrashes, NoneRefused, BodyEnded, TakenIn,
     KnownToKill
<1>2. UNCHANGED libVars => UNCHANGED http
  OBVIOUS
<1> QED
  BY <1>1, <1>2, AskInv, ConstructInv, ResolveInv, TryAddressInv, InitializeSslInv, ExchangeInv,
     CloseInv DEF LibNext, LibStep

--------------------------------------------------------------------------------
\* However a request ends, its connection is closed, behind SSL that is down.
THEOREM ConnectionsAreClosedHolds == LibSpec => []ConnectionsAreClosed
<1>1. LibInv => ConnectionsAreClosed
  BY DEF LibInv, SocketInv, ConnectionsAreClosed
<1> QED
  BY <1>1, LibInitInv, LibNextInv, PTL DEF LibSpec

\* The process dies only before the request is sent, and only of what is known to kill it.
THEOREM OnlyKnownCrashesHolds == LibSpec => []OnlyKnownCrashes
<1>1. LibInv => OnlyKnownCrashes
  BY DEF LibInv
<1> QED
  BY <1>1, LibInitInv, LibNextInv, PTL DEF LibSpec

\* However many addresses failed before, a connection that is there bears no error.
THEOREM ErrorIsOfThisConnectionHolds == LibSpec => []ErrorIsOfThisConnection
<1>1. LibInv => ErrorIsOfThisConnection
  BY DEF LibInv, StageInv, ErrorIsOfThisConnection, Connected
<1> QED
  BY <1>1, LibInitInv, LibNextInv, PTL DEF LibSpec

\* The unix wrapper implements the interface of a request.
THEOREM UnixKeepsTheOrder == LibSpec => KeepsTheOrder
<1>1. LibInit => HRInit
  BY DEF LibInit
<1> QED
  BY <1>1, LibInitInv, LibNextInv, PTL DEF LibSpec, KeepsTheOrder, HRSpec

\* A download that returns without an exception has given all of the body to the receiver, or
\* to the stream of its file, torn bodies and unopened files apart.
THEOREM UnixDownloadsAreWhole == LibSpec => []DownloadIsWhole
<1>1. LibInv => DownloadIsWhole
  BY DEF LibInv, HRTypeOK, StageInv, DownloadIsWhole, NoneRefused, BodyEnded, TakenIn
<1> QED
  BY <1>1, LibInitInv, LibNextInv, PTL DEF LibSpec

================================================================================
