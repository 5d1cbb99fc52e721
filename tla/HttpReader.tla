------------------------------- MODULE HttpReader -------------------------------
(***************************************************************************)
(* How httplib.cpp reads an answer from a Stream: the status line, the     *)
(* headers, and the body as they delimit it.  Lines are read byte by byte  *)
(* into a buffer of fixed size, or one that grows; data is read in pieces. *)
(*                                                                         *)
(* What the code compares as a whole is one symbol here: the text of a     *)
(* status line, of a header, of a chunk size.  Other bytes are "x", "y"    *)
(* and whatever of these symbols the data of a body may contain.           *)
(***************************************************************************)
EXTENDS ByteStream, SequencesExt

CONSTANTS Answers,         \* what servers mean to send
          ContentLengths,  \* the headers Content-Length with a number, and the number
          ChunkLength,     \* the texts of the size of a chunk, and the size
          FixedSize,       \* size of the buffer of a stream_line_reader
          MaxHeader,       \* CPPHTTPLIB_HEADER_MAX_LENGTH
          ReceiveSize      \* CPPHTTPLIB_RECV_BUFSIZ

VARIABLES message,   \* the answer the server means to send
          reading,   \* which function reads, and where in it
          fixed,     \* fixed_buffer_ of the line reader
          grown,     \* glowable_buffer_
          status,    \* res.status
          headers,   \* res.headers, in the order of their arrival
          left,      \* len - r of read_content_with_length()
          out,       \* what the receiver was given
          refused    \* and that it did not take it

readerVars == << byteVars, message, reading, fixed, grown, status, headers, left, out, refused >>

CR == "\r"
LF == "\n"
CRLF == << CR, LF >>

\* What strtoull() makes of a Content-Length: a text that is no number counts as 0.
LengthOf ==
  [h \in DOMAIN ContentLengths \cup {"lengthText"} |-> IF h = "lengthText" THEN 0 ELSE ContentLengths[h]]
TransferEncodings == {"chunked", "otherEncoding"}
HeaderTexts == DOMAIN LengthOf \cup TransferEncodings \cup {"gzip", "other"}
Statuses == {"100", "200", "204", "401"}

(***************************************************************************)
(* What a server sends: [continues, status, headers, lineEnd, body, chunks, *)
(* after, trailer]; chunks is how the body is cut, after what follows each  *)
(* chunk, lineEnd what follows a header.                                    *)
(***************************************************************************)
StatusLine(s) == << s >> \o CRLF
HeaderText(h) ==
  CASE h = "long"    -> [i \in 1..FixedSize - 1 |-> "other"]   \* fills the buffer of fixed size
    [] h = "tooLong" -> [i \in 1..MaxHeader |-> "other"]
    [] OTHER         -> << h >>
HeaderLine(a, h) == HeaderText(h) \o a.lineEnd
SizeLine(n) == << CHOOSE size \in DOMAIN ChunkLength : ChunkLength[size] = n >> \o CRLF
EncodedChunk(a, c) == SizeLine(Len(c)) \o c \o a.after
EncodedBody(a) ==
  IF a.chunks = << >> THEN a.body
  ELSE FlattenSeq([i \in 1..Len(a.chunks) |-> EncodedChunk(a, a.chunks[i])]) \o SizeLine(0) \o a.trailer \o CRLF

Bytes(a) ==
  (IF a.continues THEN StatusLine("100") \o CRLF ELSE << >>)
    \o StatusLine(a.status)
    \o FlattenSeq([i \in 1..Len(a.headers) |-> HeaderLine(a, a.headers[i])])
    \o CRLF \o EncodedBody(a)

\* The sizes of the code are far apart; an answer 100 is one that another follows; and a
\* chunk of no bytes is the end.
ASSUME ReaderSizesAssumption ==
  /\ FixedSize \in Nat /\ MaxHeader \in Nat /\ ReceiveSize \in Nat
  /\ 1 < FixedSize /\ FixedSize < MaxHeader
ASSUME SymbolsAssumption ==
  /\ \A h \in DOMAIN ContentLengths : ContentLengths[h] \in Nat
  /\ \A size \in DOMAIN ChunkLength : ChunkLength[size] \in Nat
  /\ \E size \in DOMAIN ChunkLength : ChunkLength[size] = 0
  /\ DOMAIN ContentLengths \cap ({CR, LF, "lengthText", "gzip", "other", "long", "tooLong"} \cup TransferEncodings) = {}
  /\ DOMAIN ChunkLength \cap {CR, LF} = {}
ASSUME AnswersAssumption ==
  /\ {CR, LF} \cup Statuses \cup HeaderTexts \cup DOMAIN ChunkLength \subseteq Byte
  /\ Answers \subseteq
       [continues : BOOLEAN, status : Statuses \ {"100"}, headers : Seq(HeaderTexts \cup {"long", "tooLong"}),
        lineEnd : Seq(Byte), body : Seq(Byte), chunks : Seq(Seq(Byte)), after : Seq(Byte), trailer : Seq(Byte)]
  /\ \A a \in Answers : \A i \in DOMAIN a.chunks :
       Len(a.chunks[i]) > 0 /\ \E size \in DOMAIN ChunkLength : ChunkLength[size] = Len(a.chunks[i])

LinePhases == {"statusLine", "continueEnd", "headers", "chunkSize", "chunkEnd", "lastEnd"}
DataPhases == {"length", "chunk", "untilEnd"}

--------------------------------------------------------------------------------
ReaderInit ==
  /\ message \in Answers
  /\ \E n \in 0..Len(Bytes(message)) : sent = SubSeq(Bytes(message), 1, n)
  /\ taken = 0 /\ got = << >> /\ returned = "bytes"
  /\ reading = "statusLine" /\ fixed = << >> /\ grown = << >>
  /\ status = "none" /\ headers = << >> /\ left = 0 /\ out = << >> /\ refused = FALSE

\* stream_line_reader::append() and ptr()
GrownWithoutFixed(c) == IF Len(fixed) < FixedSize - 1 THEN grown ELSE Append(grown, c)   \* mutant
GrownBy(c) ==
  IF Len(fixed) < FixedSize - 1 THEN grown
  ELSE Append(IF grown = << >> THEN fixed ELSE grown, c)
FixedBy(c) == IF Len(fixed) < FixedSize - 1 THEN Append(fixed, c) ELSE fixed

LineWith(c) == IF GrownBy(c) = << >> THEN FixedBy(c) ELSE GrownBy(c)
Line == IF grown = << >> THEN fixed ELSE grown

Becomes(p) == reading' = p /\ UNCHANGED << status, headers, left >>

\* read_response_line(): an answer 100 is skipped with the line after it.
TakeStatusLine(line) ==
  IF Len(line) = 3 /\ line[1] \in Statuses /\ Tail(line) = CRLF
    THEN /\ status' = line[1]
         /\ reading' = IF line[1] = "100" THEN "continueEnd" ELSE "headers"
         /\ UNCHANGED << headers, left >>
    ELSE Becomes("failed")

FirstIn(kind) == SelectInSeq(headers, LAMBDA h : h \in kind)
Value(kind) == headers[FirstIn(kind)]
Has(kind) == FirstIn(kind) # 0

Chunked == Has(TransferEncodings) /\ Value(TransferEncodings) = "chunked"

\* process_request() and read_content(): which of its functions reads the body, if any.
BodyPhase ==
  IF status = "204" THEN "done"
  ELSE IF Has({"gzip"}) THEN "failed"
  ELSE IF Chunked THEN "chunkSize"
  ELSE IF Has(DOMAIN LengthOf) THEN "length"
  ELSE "untilEnd"

StartBody(p) ==
  IF p = "length"
    THEN /\ left' = LengthOf[Value(DOMAIN LengthOf)]
         /\ reading' = IF left' = 0 THEN "done" ELSE "length"
    ELSE reading' = p /\ UNCHANGED left

\* read_headers(): a line that does not end in CRLF is skipped, and so is one that is no header.
TakeHeader(line) ==
  /\ UNCHANGED status
  /\ IF ~IsSuffix(CRLF, line)
       THEN UNCHANGED << reading, headers, left >>
       ELSE IF line = CRLF THEN StartBody(BodyPhase) /\ UNCHANGED headers
            ELSE IF Len(line) > MaxHeader THEN reading' = "failed" /\ UNCHANGED << headers, left >>
            ELSE /\ headers' = IF line[1] \in HeaderTexts THEN Append(headers, line[1]) ELSE headers
                 /\ UNCHANGED << reading, left >>

\* read_content_chunked(): what follows the size in its line is not looked at.
TakeChunkSize(line) ==
  /\ UNCHANGED << status, headers >>
  /\ IF line[1] \notin DOMAIN ChunkLength
       THEN reading' = "failed" /\ UNCHANGED left
       ELSE /\ left' = ChunkLength[line[1]]
            /\ reading' = IF left' = 0 THEN "lastEnd" ELSE "chunk"

TakeLine(line) ==
  \/ reading = "statusLine"  /\ TakeStatusLine(line)
  \/ reading = "continueEnd" /\ Becomes("statusLine")
  \/ reading = "headers"     /\ TakeHeader(line)
  \/ reading = "chunkSize"   /\ TakeChunkSize(line)
  \/ reading = "chunkEnd"    /\ Becomes(IF line = CRLF THEN "chunkSize" ELSE "done")
  \/ reading = "lastEnd"     /\ Becomes(IF line = CRLF THEN "done" ELSE "failed")

\* stream_line_reader::getline(), one byte: a line ends with LF, or with the connection.
ReadLineByte ==
  /\ reading \in LinePhases
  /\ ByteRead(1)
  /\ IF returned' = "bytes" /\ got' # << LF >>
       THEN /\ fixed' = FixedBy(got'[1]) /\ grown' = GrownBy(got'[1])
            /\ UNCHANGED << reading, status, headers, left >>
       ELSE /\ fixed' = << >> /\ grown' = << >>
            /\ IF returned' = "bytes" THEN TakeLine(LineWith(LF))
               ELSE IF returned' = "end" /\ Line # << >> THEN TakeLine(Line)
               ELSE Becomes("failed")
  /\ UNCHANGED << message, out, refused >>

(***************************************************************************)
(* The data of a body: read_content_with_length(), for a chunk too, and    *)
(* read_content_without_length().                                          *)
(***************************************************************************)
AskForAll == ReceiveSize      \* mutant: more is asked for than the body has
AskFor == IF reading # "untilEnd" /\ left < ReceiveSize THEN left ELSE ReceiveSize

ReadData ==
  /\ reading \in DataPhases
  /\ ByteRead(AskFor)
  /\ CASE returned' = "bytes" ->
            /\ out' = out \o got'
            /\ refused' \in BOOLEAN
            /\ left' = IF reading = "untilEnd" THEN left ELSE left - Len(got')
            /\ reading' = CASE refused' -> "failed"
                          [] ~refused' /\ reading = "length" /\ left' = 0 -> "done"
                          [] ~refused' /\ reading = "chunk" /\ left' = 0 -> "chunkEnd"
                          [] OTHER -> reading
       [] returned' = "end" /\ reading = "untilEnd" -> reading' = "done" /\ UNCHANGED << left, out, refused >>
       [] OTHER -> reading' = "failed" /\ UNCHANGED << left, out, refused >>
  /\ UNCHANGED << message, fixed, grown, status, headers >>

ReaderNext == ReadLineByte \/ ReadData
ReaderSpec == ReaderInit /\ [][ReaderNext]_readerVars

--------------------------------------------------------------------------------
\* An answer that keeps to HTTP and to what the client can read; the length, if there is one and
\* the body does not come in chunks, is that of the body; and what follows a chunk is CRLF,
\* or shows at once that it is not.
Sound(a) ==
  /\ a.lineEnd = CRLF
  /\ \A i \in DOMAIN a.headers :
       a.headers[i] \notin {"gzip", "tooLong", "otherEncoding"}
  /\ IF a.chunks = << >>
       THEN \A i \in DOMAIN a.headers :
              /\ a.headers[i] # "chunked"
              /\ a.headers[i] \in DOMAIN LengthOf => LengthOf[a.headers[i]] = Len(a.body)
       ELSE FlattenSeq(a.chunks) = a.body /\ "chunked" \in ToSet(a.headers)
  /\ a.after = CRLF \/ ~IsPrefix(CRLF, a.after)
  /\ a.status = "204" => a.body = << >> /\ a.chunks = << >>

\* The end of the body shows in the answer itself, not in the end of the connection.
Delimited(a) ==
  IF a.chunks = << >> THEN a.status = "204" \/ \E i \in DOMAIN a.headers : a.headers[i] \in DOMAIN LengthOf
  ELSE a.after = CRLF

\* The connection broke between the CR and the LF that follow a chunk.
BrokenAfterCR == message.chunks # << >> /\ sent # Bytes(message) /\ sent[Len(sent)] = CR

\* Of a sound answer the receiver gets the bytes of the body, in their order and nothing else,
\* wherever the pieces, the lines and the connection end; and a delimited one that is read with
\* success has been read whole.  Three ends of a torn body pass for success: the end of the
\* connection if it delimits the body, a chunk that is not followed by CRLF, and a connection
\* that breaks within that CRLF.
BodyIsWhole ==
  Sound(message) =>
    /\ IsPrefix(out, message.body)
    /\ reading = "done" /\ Delimited(message) /\ ~BrokenAfterCR => out = message.body

\* No sound answer is refused, but those with a trailer behind the last chunk: there the reader
\* wants an empty line, and gives up a body it has handed over whole.  Any other that fails, or
\* fails earlier, met a connection that broke, an error, or a receiver that did not take a piece.
SoundAnswersAreRead ==
  reading = "failed" /\ Sound(message) =>
    \/ refused \/ returned = "error" \/ sent # Bytes(message)
    \/ message.trailer # << >> /\ out = message.body

================================================================================
