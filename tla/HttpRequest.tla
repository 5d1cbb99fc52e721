------------------------------ MODULE HttpRequest ------------------------------
(***************************************************************************)
(* What a request of httpclient::Client looks like to its caller, on       *)
(* either platform: the status arrives before the body, the body arrives   *)
(* piece by piece and in order, a receiver that refuses a piece gets no    *)
(* other, and one result ends the request.  Its action HRNext is the       *)
(* abstract specification of both wrappers, HttpLibClient and WinHttp.     *)
(*                                                                         *)
(* A body is a number of pieces, at most MaxPieces.                        *)
(***************************************************************************)
EXTENDS Naturals

CONSTANT MaxPieces

ASSUME PiecesAssumption == MaxPieces \in Nat

VARIABLES sink,      \* where the body goes
          length,    \* pieces of the body the server means to send
          torn,      \* the connection ended where the framing of the body cannot show it
          status,    \* what the caller was told of the status line
          handed,    \* pieces handed to the receiver
          written,   \* pieces that are where sink says
          buffered,  \* pieces behind them that only the buffer of the file's stream holds
          result     \* how the request ended

http == << sink, length, torn, status, handed, written, buffered, result >>

\* "string": a body the client keeps.  "file" and "unopened": downloadTo() a path that can,
\* or cannot, be opened.  "receiver": downloadWithReceiver().
Sinks == {"string", "file", "unopened", "receiver"}

\* The 204 is a status without a body.
Statuses == {"200", "204", "401", "other"}

\* "thrown": an exception of a callback.  "crashed": the process dies.
Results == {"Success", "Canceled", "error", "thrown", "crashed"}

HRTypeOK ==
  /\ sink \in Sinks /\ length \in 0..MaxPieces /\ torn \in BOOLEAN
  /\ status \in Statuses \cup {"none"}
  /\ handed \in 0..length /\ written \in 0..handed
  /\ buffered \in 0..(handed - written) /\ (buffered # 0 => sink = "file")
  /\ result \in Results \cup {"pending"}

HRInit ==
  /\ sink = "string" /\ length = 0 /\ torn = FALSE
  /\ status = "none" /\ handed = 0 /\ written = 0 /\ buffered = 0 /\ result = "error"

Ask ==
  /\ result # "pending"
  /\ result' = "pending"
  /\ sink' \in Sinks /\ length' \in 0..MaxPieces
  /\ torn' = FALSE /\ status' = "none" /\ handed' = 0 /\ written' = 0 /\ buffered' = 0

(***************************************************************************)
(* What a wrapper does to the caller: it shows the status, hands a piece   *)
(* to the receiver, and ends the request.  The caller may only see it when *)
(* the order of a request allows, in ShowStatus, HandOver and Return.      *)
(***************************************************************************)
Show(s) == status' = s /\ UNCHANGED << sink, length, torn, handed, written, buffered >>

\* The callbacks of a download: a status that is not 200 makes the first throw; the second
\* writes, and only a write that fails makes it refuse: a file that was never opened takes
\* everything.
StatusAccepted == sink = "string" \/ status = "200"

\* Pieces the sink has taken in.  An ofstream may keep the last of them in its buffer.
TakenIn == written + buffered

Stores(n) ==
  \E kept \in 0..n :
    /\ kept # 0 => sink = "file"
    /\ written <= n - kept /\ written' = n - kept
    /\ buffered' = kept

NeverRefused == FALSE    \* mutant: the receiver does not say that a write failed
Refused == TakenIn < handed /\ sink # "unopened"

Hand ==
  /\ handed < length
  /\ handed' = handed + 1
  /\ \/ sink # "unopened" /\ Stores(TakenIn + 1)
     \/ sink # "string" /\ Stores(TakenIn)
  /\ UNCHANGED << sink, length, torn, status, result >>

\* The connection ends early and nothing in the body's framing tells.
Tear ==
  /\ result = "pending" /\ handed < length
  /\ torn' = TRUE
  /\ UNCHANGED << sink, length, status, handed, written, buffered, result >>

\* The request ends, and with it downloadTo(): the destructor of the stream writes what it
\* can of the buffer, and tells nobody of the rest.
End(r) == result' = r /\ Stores(TakenIn) /\ UNCHANGED << sink, length, torn, status, handed >>

ShowStatus(s) ==
  /\ result = "pending" /\ status = "none"
  /\ Show(s) /\ result' \in {"pending", "thrown"}

HandOver ==
  /\ result = "pending" /\ status # "none"
  /\ TakenIn = handed \/ sink = "unopened"
  /\ Hand

Return(r) ==
  /\ result = "pending"
  /\ End(r)
  /\ r = "Success" =>
       /\ status # "none"
       /\ TakenIn = handed \/ sink = "unopened"
       /\ handed = length \/ torn \/ status = "204"

HRNext ==
  \/ Ask \/ HandOver \/ Tear
  \/ \E s \in Statuses : ShowStatus(s)
  \/ \E r \in Results : Return(r)

HRSpec == HRInit /\ [][HRNext]_http

\* Refinement, of both wrappers: no status twice, no piece out of turn, none after a refusal,
\* no success of a request whose body did not arrive or was refused.
KeepsTheOrder == HRSpec

\* A downloadWithReceiver() that returns without an exception has put all of the body where it
\* belongs, and a downloadTo() all of it into the stream of its file.  Whether the end of the
\* body gets from the stream's buffer into the file nobody asks: the file is flushed in its
\* destructor, which cannot fail.  Two more ends pass for success: a torn body, and a file that
\* was never opened, which keeps nothing (ofstream sets failbit, the code asks bad()).
DownloadIsWhole ==
  result = "Success" /\ status = "200" /\ sink # "unopened" /\ ~torn =>
    /\ TakenIn = length
    /\ sink # "file" => written = length

\* A request that was started ends.
EveryRequestEnds == result = "pending" ~> result # "pending"

================================================================================
