------------------------------- MODULE MCAnswers -------------------------------
(***************************************************************************)
(* Instances of what becomes of an answer on its way up: the bytes of a    *)
(* connection, plain or over OpenSSL, the HTTP message that is read from   *)
(* a connection, and the document that is in it.  One layer at a time; the *)
(* reader takes any Stream, and both streams are shown to be one.          *)
(***************************************************************************)
EXTENDS Messages, HttpReader, SocketStream, SslSocketStream

VARIABLE layer

\* Around zero, around the 596 hours an int of milliseconds can hold, and around where it wraps.
T(h, m, s) == [h |-> h, m |-> m, s |-> s]
MCTimes ==
  {T(0, 0, 0), T(0, 5, 0), T(0, 0, 1), T(596, 31, 23), T(596, 31, 24), T(1193, 2, 48), T(9999, 59, 59),
   T(0, -1, 0), T(1, -59, -61)}

Artifact(is, links, href) == [is |-> is, links |-> links, href |-> href]
MCArtifacts ==
  {Artifact("there", {"download", "download-http"}, "uri"), Artifact("there", {"download-http"}, "uri"),
   Artifact("there", {}, "uri"), Artifact("over2GiB", {"download"}, "uri"),
   Artifact("missing", {"download"}, "absent"), Artifact("wrongHash", {"download"}, "notUri")}

\* A body in one piece, with headers that delimit it, two that do, or none; a body in chunks,
\* with what may follow them; and bodies that look like the lines around them.
Plain(hs, body) ==
  [continues |-> FALSE, status |-> "200", headers |-> hs, lineEnd |-> CRLF,
   body |-> body, chunks |-> << >>, after |-> CRLF, trailer |-> << >>]
InChunks(hs, cs) == [Plain(hs, FlattenSeq(cs)) EXCEPT !.chunks = cs]

Whole ==
  {Plain(<< "length3" >>, << "x", "y", "x" >>), Plain(<< "long", "length2" >>, CRLF),
   Plain(<< "length2", "length3" >>, << "x", "y" >>), Plain(<< "length3", "gzip" >>, << "x", "y", "x" >>),
   Plain(<< "lengthText" >>, << "x" >>), Plain(<< "length1", "tooLong" >>, << "x" >>),
   Plain(<< "other", "otherEncoding" >>, << "x", "y" >>), Plain(<< >>, << "x", LF, "y" >>)}
Pieces ==
  {InChunks(hs, cs) : hs \in {<< "chunked" >>, << "length2", "chunked" >>, << "otherEncoding", "chunked" >>},
                      cs \in {<< << "x", "y" >>, << "size0" >> >>, << << CR, LF >>, << "x", "y", "x" >> >>}}
MCMessages ==
  Whole \cup Pieces
    \cup {[m EXCEPT !.after = e] : m \in Pieces, e \in {<< "x" >> \o CRLF, << >>}}
    \cup {[m EXCEPT !.trailer = << "other" >> \o CRLF] : m \in Pieces}
    \cup {[m EXCEPT !.continues = TRUE] : m \in Whole}
    \cup {[m EXCEPT !.lineEnd = << LF >>] : m \in Whole}
    \cup {[Plain(<< "length0" >>, << >>) EXCEPT !.status = s] : s \in {"204", "401"}}

MCContentLengths == [length0 |-> 0, length1 |-> 1, length2 |-> 2, length3 |-> 3]
MCChunkLength == [size0 |-> 0, size1 |-> 1, size2 |-> 2, size3 |-> 3]
MCByte ==
  {CR, LF, "x", "y", "other"} \cup DOMAIN MCChunkLength \cup HeaderTexts \cup Statuses
MCSizes == 1..3

\* The streams carry one of the messages, whole or broken off.
OneMessage == layer = "document" => message = Plain(<< >>, << "x", LF, "y" >>) /\ sent = << >>
FewMessages == layer \in {"socket", "ssl"} => message \in {Plain(<< >>, << "x", LF, "y" >>)}

MCInit ==
  /\ Init /\ ReaderInit /\ SocketInit /\ SslInit
  /\ layer \in {"document", "reader", "socket", "ssl"}
  /\ OneMessage /\ FewMessages

documentVars == << phase, answer, interval, document, chunk, artifact, chunks, outcome >>
readerOnly == << message, reading, fixed, grown, status, headers, left, out, refused >>
socketOnly == << received, buffer, off >>
sslOnly == << opened, asked, retries >>

OnDocument == layer = "document" /\ UNCHANGED << byteVars, readerOnly, socketOnly, sslOnly, layer >>
OnReader == layer = "reader" /\ UNCHANGED << documentVars, socketOnly, sslOnly, layer >>
OnSocket == layer = "socket" /\ UNCHANGED << documentVars, readerOnly, sslOnly, layer >>
OnSsl == layer = "ssl" /\ UNCHANGED << documentVars, readerOnly, socketOnly, layer >>

MCNext ==
  \/ OnDocument /\ Next
  \/ OnReader /\ ReaderNext
  \/ OnSocket /\ SocketNext
  \/ OnSsl /\ SslNext
mcVars == << documentVars, byteVars, readerOnly, socketOnly, sslOnly, layer >>

MCSpec == MCInit /\ [][MCNext]_mcVars /\ WF_mcVars(OnSsl /\ SslRetry)

================================================================================
