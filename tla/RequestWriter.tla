---------------------------- MODULE RequestWriter ----------------------------
(***************************************************************************)
(* How a request leaves the unix wrapper: the headers cpp-httplib adds to  *)
(* those of the caller, the head in one buffer and the body in another,    *)
(* and write_data(), which goes on behind what the connection took.        *)
(*                                                                         *)
(* A line of the head is one byte here.  External: send(), which takes any *)
(* part of what it is given, and SSL_write(), which takes all of it or     *)
(* wants to be called again with the same, a part of it being sent.        *)
(***************************************************************************)
EXTENDS Integers, SequencesExt, NamedValues

CONSTANTS AskedRequests,  \* the requests of the wrapper's caller
          WriteRetries    \* 1000 in the code

ASSUME WriteRetriesAssumption == WriteRetries \in Nat

VARIABLES asking,   \* the call that is being sent
          part,     \* the part of the request that is written
          data,     \* its bytes
          offset,   \* write_data() has written so many of them
          flushed,  \* OpenSSL has sent so many of those of an SSL_write() it wants again
          tries,    \* calls of SSL_write() left for those bytes
          arrived,  \* bytes that have left, in the order they leave
          ended     \* how the writing ended

writerVars == << asking, part, data, offset, flushed, tries, arrived, ended >>

\* A multimap of headers has its names in this order, and one name for all ways to write it.
\* A call gives the method, the path, the headers by name, the body and its type, and goes
\* over a scheme to a port.
Names == << "Accept", "Authorization", "Connection", "Content-Length", "Content-Type", "Host",
            "User-Agent" >>

\* No caller gives a length of its own, and none a body with a GET.
ASSUME RequestsAssumption ==
  \A c \in AskedRequests :
    /\ c.method \in {"GET", "POST", "PUT"} /\ c.scheme \in {"http", "https"}
    /\ c.path \in Seq(STRING) /\ c.type \in STRING
    /\ c.headers \in [{Names[i] : i \in DOMAIN Names} -> Seq(STRING)]
    /\ c.headers["Content-Length"] = << >>
    /\ c.body \in Seq(Seq(STRING)) /\ (c.method = "GET" => c.body = << >>)

Add(hs, name, value) == [hs EXCEPT ![name] = Append(@, value)]
AddMissing(hs, name, value) == IF hs[name] = << >> THEN Add(hs, name, value) ELSE hs

\* Get(), with a receiver or without; Post() and Put(), which add the type of the body,
\* whatever the caller's headers say of it.
Get(c) == [method |-> "GET", path |-> c.path, headers |-> c.headers, body |-> << >>]
Sent(method, c) ==
  [method |-> method, path |-> c.path, headers |-> Add(c.headers, "Content-Type", c.type), body |-> c.body]
Post(c) == Sent("POST", c)
Put(c) == Sent("PUT", c)

\* The wrapper asks the library for the same.
RequestOf(c) ==
  CASE c.method = "GET" -> Get(c) [] c.method = "POST" -> Post(c) [] c.method = "PUT" -> Put(c)

DefaultPort(c) == IF c.scheme = "https" THEN 443 ELSE 80
Host(c) == IF c.port = DefaultPort(c) THEN "host" ELSE "host:port"

Delimited(r, hs) ==
  CASE r.body # << >>                      -> AddMissing(hs, "Content-Length", Len(r.body))
    [] r.body = << >> /\ r.method = "GET" -> hs
    [] OTHER                               -> Add(hs, "Content-Length", 0)

Headers(r, c) ==
  Delimited(r, AddMissing(AddMissing(AddMissing(AddMissing(r.headers,
    "Connection", "close"), "Host", Host(c)), "Accept", "*/*"), "User-Agent", "cpp-httplib"))

\* encode_url(): a character that may not be in a request line becomes its code.
Unsafe == {" ", "+", ",", ";", "high"}
Encoded(path) == [i \in DOMAIN path |-> IF path[i] \in Unsafe THEN << "%", path[i] >> ELSE << path[i] >>]

EmptyLine == << >>

HeaderLines(hs) ==
  FlattenSeq([n \in DOMAIN Names |-> [i \in DOMAIN hs[Names[n]] |-> << Names[n], hs[Names[n]][i] >>]])

RequestHead(c) ==
  LET r == RequestOf(c)
  IN << << r.method, Encoded(r.path) >> >> \o HeaderLines(Headers(r, c)) \o << EmptyLine >>

--------------------------------------------------------------------------------
WriterInit ==
  /\ asking \in AskedRequests
  /\ part = "head" /\ data = RequestHead(asking) /\ offset = 0
  /\ flushed = 0 /\ tries = WriteRetries + 1 /\ arrived = << >> /\ ended = "no"

Writing == ended = "no" /\ offset < Len(data)

\* A write() below zero ends write_data(), and with it the request: the connection fails, or
\* takes nothing before the write timeout.
WriteFails ==
  /\ ended' = "Write"
  /\ UNCHANGED << asking, part, data, offset, flushed, tries, arrived >>

NotWritable == Writing /\ WriteFails

OffsetOfPart(n) == n          \* mutant: the size of the last part is taken for the offset
OffsetAfterPart(n) == offset + n

\* The bytes from the offset, but for those that went before.
Leave(n) == arrived' = arrived \o SubSeq(data, offset + flushed + 1, offset + n)

\* SocketStream::write()
WriteSocket ==
  /\ Writing /\ asking.scheme = "http"
  /\ \/ /\ \E n \in 1..(Len(data) - offset) : Leave(n) /\ offset' = OffsetAfterPart(n)
        /\ UNCHANGED << asking, part, data, flushed, tries, ended >>
     \/ WriteFails

\* SSLSocketStream::write(): a record that could not be sent whole is asked for again.
WriteSsl ==
  /\ Writing /\ asking.scheme = "https"
  /\ \/ /\ tries > 0
        /\ Leave(Len(data) - offset) /\ offset' = OffsetAfterPart(Len(data) - offset)
        /\ flushed' = 0 /\ tries' = WriteRetries + 1
        /\ UNCHANGED << asking, part, data, ended >>
     \/ /\ tries > 0
        /\ \E n \in flushed..(Len(data) - offset - 1) : Leave(n) /\ flushed' = n
        /\ tries' = tries - 1
        /\ UNCHANGED << asking, part, data, offset, ended >>
     \/ WriteFails

\* The head is written: the body, if there is one.
WriteBody ==
  /\ ended = "no" /\ offset >= Len(data) /\ part = "head" /\ RequestOf(asking).body # << >>
  /\ part' = "body" /\ data' = RequestOf(asking).body /\ offset' = 0
  /\ UNCHANGED << asking, flushed, tries, arrived, ended >>

Written ==
  /\ ended' = "Success"
  /\ UNCHANGED << asking, part, data, offset, flushed, tries, arrived >>

BodyWritten == ended = "no" /\ offset >= Len(data) /\ part = "body" /\ Written

\* A request without a body has no content provider either: of the 0 bytes it is to provide
\* none is written.
NothingToProvide ==
  ended = "no" /\ offset >= Len(data) /\ part = "head" /\ RequestOf(asking).body = << >> /\ Written

WriterNext ==
  \/ NotWritable \/ WriteSocket \/ WriteSsl
  \/ WriteBody \/ BodyWritten \/ NothingToProvide
WriterSpec == WriterInit /\ [][WriterNext]_writerVars

--------------------------------------------------------------------------------
\* What a server makes of the bytes that arrived: a head up to the first empty line, and as
\* much of a body as it announces.
HeadEnd == SelectInSeq(arrived, LAMBDA line : line = EmptyLine)
Values(name) == Named(SubSeq(arrived, 2, HeadEnd - 1), name)
Announced == IF Values("Content-Length") = << >> THEN 0 ELSE Values("Content-Length")[1]
Complete == HeadEnd > 0 /\ Len(arrived) - HeadEnd >= Announced
Decoded(path) == [i \in DOMAIN path |-> path[i][Len(path[i])]]

\* Whatever parts the connection takes a request in, and however often OpenSSL wants a write
\* again: what the server takes for a request is the one the caller asked for, with its
\* headers and all of its body, and nothing behind it; a request that counts as written is there.
ServerReadsWhatWasAsked ==
  /\ Complete =>
       /\ arrived[1][1] = asking.method /\ Decoded(arrived[1][2]) = asking.path
       /\ SubSeq(arrived, HeadEnd + 1, Len(arrived)) = asking.body
       /\ Len(Values("Content-Length")) <= 1
       /\ \A n \in DOMAIN asking.headers : IsPrefix(asking.headers[n], Values(n))
  /\ ended = "Success" => Complete

================================================================================
