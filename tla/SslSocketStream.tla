---------------------------- MODULE SslSocketStream ----------------------------
(***************************************************************************)
(* SSLSocketStream::read(): a connection over OpenSSL.  SSL_read() may     *)
(* have bytes at hand, may need a record that is not there yet, and is     *)
(* then called again, at most MaxRetries times.                            *)
(*                                                                         *)
(* External: OpenSSL and the records of the server, of at most MaxRecord   *)
(* bytes.  A socket that is readable may still lack the rest of a record;  *)
(* the SO_RCVTIMEO of create_client_socket() ends the wait for it.         *)
(***************************************************************************)
EXTENDS ByteStream

CONSTANTS MaxRecord, MaxRetries

ASSUME SslAssumption == MaxRecord \in Nat \ {0} /\ MaxRetries \in Nat

VARIABLES opened,   \* bytes of the records OpenSSL has decrypted
          asked,    \* size of the read() that is in its loop, 0 if none is
          retries   \* n of that loop

sslVars == << byteVars, opened, asked, retries >>

SslInit == ByteInit /\ opened = 0 /\ asked = 0 /\ retries = 0

\* SSL_pending(): bytes of the record that is open.
Pending == opened - taken

Fewer(m, n) == IF m < n THEN m ELSE n

\* SSL_read() that returns what it has of the open record, or of the next.
SslGives(size) ==
  IF Pending > 0
    THEN Return(SubSeq(sent, taken + 1, taken + Fewer(size, Pending))) /\ UNCHANGED opened
    ELSE \E n \in 1..MaxRecord :
           /\ opened + n <= Len(sent) /\ opened' = opened + n
           /\ Return(SubSeq(sent, taken + 1, taken + Fewer(size, n)))

SslEnds == taken = Len(sent) /\ ReturnEnd /\ UNCHANGED opened
SslFails == ReturnError /\ UNCHANGED opened

SslRead(size) ==
  /\ asked = 0
  /\ \/ (SslGives(size) \/ SslEnds) /\ UNCHANGED << asked, retries >>
     \/ Pending = 0 /\ SslFails /\ UNCHANGED << asked, retries >>
     \/ /\ Pending = 0                    \* SSL_ERROR_WANT_READ
        /\ asked' = size /\ retries' = MaxRetries
        /\ UNCHANGED << byteVars, opened >>

RetriesUnsigned ==     \* mutant: n has no sign, and wraps before it is compared
  IF retries = 1 THEN MaxRetries ELSE retries - 1
RetriesLeft == retries - 1

\* The loop: select() times out, or SSL_read() gives an answer, fails, or wants more.
SslRetry ==
  /\ asked # 0
  /\ IF retries = 0
       THEN SslFails /\ asked' = 0 /\ UNCHANGED retries
       ELSE /\ retries' = RetriesLeft
            /\ \/ (SslGives(asked) \/ SslEnds \/ SslFails) /\ asked' = 0
               \/ UNCHANGED << byteVars, opened, asked >>

SslNext == (\E size \in Sizes : SslRead(size)) \/ SslRetry

\* Every turn of the loop is bounded by the read timeout.
SslSpec == SslInit /\ [][SslNext]_sslVars /\ WF_sslVars(SslRetry)

--------------------------------------------------------------------------------
\* A read() over OpenSSL returns, however the records trickle in: the loop counts its turns.
ReadReturns == asked # 0 ~> asked = 0

================================================================================
