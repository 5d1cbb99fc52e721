------------------------------- MODULE WinHttp -------------------------------
(***************************************************************************)
(* The Windows wrapper: httpclient::Client over WinHTTP.  A client with a  *)
(* keypair first clears the certificate store of the user, imports its key *)
(* and adds its certificates to the store, which outlives the request and  *)
(* the process; then it sends the request.  Every call of an API obtains   *)
(* or fails, and the labels clear: and clean: release what was obtained.   *)
(*                                                                         *)
(* External: CryptoAPI, WinHTTP, the server; a LocalAlloc() never fails.   *)
(* A keypair is its certificates, the client's own first.                  *)
(***************************************************************************)
EXTENDS HttpRequest, Sequences, SequencesExt

CONSTANTS Chains,     \* the certificates of the keypairs the program uses
          MaxChain    \* the longest has that many

Certificates == UNION {Range(c) : c \in Chains}

ASSUME ChainsAssumption ==
  /\ MaxChain \in Nat \ {0}
  /\ \A c \in Chains : c \in Seq(Certificates) /\ Len(c) \in 1..MaxChain

VARIABLES step,        \* the call that is next
          address,     \* scheme and port of the endpoint
          verify,      \* serverVerify
          chain,       \* certificates of the keypair, << >> without one
          pos,         \* certificates of the chain that are behind pos
          store,       \* certificates in the store "RTS_Store"
          cursor,      \* place in it of pCertContext, 0 for NULL
          ptr,         \* pointers and handles of the two functions
          failedAt,    \* history: the call that failed
          leaked,      \* history: what no pointer leads to any more
          misreleased  \* history: what was released though it was not held

win == << step, address, verify, chain, pos, store, cursor, ptr, failedAt, leaked, misreleased >>

FreedAtClean == {"lpwHostAddress", "lpwMethod", "lpwPath", "lpwHeaders", "hRequest", "hConnect", "hSession"}
FreedWithoutChainContext == {"pbDecryptedData", "pbKeyBlob", "ctx_", "hKey", "hProv", "hMemStore"}   \* mutant
FreedAtClear == {"pbDecryptedData", "pbKeyBlob", "ctx_", "ctx__", "hKey", "hProv", "hMemStore"}

Pointers == {"pbDecryptedData", "pbKeyBlob", "ctx_", "ctx__", "hKey", "hProv", "hMemStore",
             "lpwHostAddress", "lpwMethod", "lpwPath", "lpwHeaders", "hRequest", "hConnect", "hSession"}

\* The calls that do nothing but succeed, and obtain, or fail.
KeypairCalls == {"OpenStore", "CertSize", "CertDecode", "CertContext", "NewKeys", "KeySize", "KeyDecode",
                 "BlobSize", "BlobDecode", "ImportKey", "SetKeyInfo", "ChainSize", "ChainDecode", "ChainContext"}
RequestCalls == {"Open", "Connect", "OpenRequest", "SetClientCert", "SetFlags", "Send", "Receive"}

WinTypeOK ==
  /\ HRTypeOK
  /\ step \in KeypairCalls \cup RequestCalls \cup
       {"idle", "ClearTurn", "AcquireKeys", "DeleteKeys", "ChainAdd", "LeafAdd",
        "QueryHeaders", "ReadData", "clean", "clear"}
  /\ address \in {"http", "https", "https:port"} /\ verify \in BOOLEAN
  /\ chain \in Chains \cup {<< >>} /\ pos \in 0..MaxChain
  /\ store \in Seq(Certificates) /\ cursor \in 0..Len(store)
  /\ ptr \in [Pointers -> {"null", "held", "released"}]
  /\ leaked \subseteq Pointers /\ misreleased \subseteq Pointers

WinInit ==
  /\ HRInit
  /\ step = "idle" /\ address = "http" /\ verify = TRUE /\ chain = << >> /\ pos = 0
  /\ store = << >> /\ cursor = 0 /\ ptr = [p \in Pointers |-> "null"]
  /\ failedAt = "none" /\ leaked = {} /\ misreleased = {}

--------------------------------------------------------------------------------
\* Buffers a call is preceded by the allocation of, and one that is freed before.
AllocatedBefore(s) ==
  CASE s \in {"CertDecode", "KeyDecode", "ChainDecode"} -> {"pbDecryptedData"}
    [] s = "BlobDecode"  -> {"pbKeyBlob"}
    [] s = "Connect"     -> {"lpwHostAddress"}
    [] s = "OpenRequest" -> {"lpwMethod", "lpwPath"}
    [] s = "Send"        -> {"lpwHeaders"}
    [] OTHER             -> {}

FreedBeforeKeySize == {"KeySize", "ChainSize"}    \* mutant: the key is freed as the chain is
FreedBefore == {"KeyDecode", "ChainSize"}

\* What a call that succeeds returns.
ObtainedBy(s) ==
  CASE s = "OpenStore"    -> {"hMemStore"}
    [] s = "CertContext"  -> {"ctx_"}
    [] s = "NewKeys"      -> {"hProv"}
    [] s = "ImportKey"    -> {"hKey"}
    [] s = "ChainContext" -> {"ctx__"}
    [] s = "Open"         -> {"hSession"}
    [] s = "Connect"      -> {"hConnect"}
    [] s = "OpenRequest"  -> {"hRequest"}
    [] OTHER              -> {}

\* extractDataFromHost(): an address with a port is not taken for https.
IsHttps == address = "https"

\* The chain loop of do_http_request_mtls_().
ChainLoop == IF pos + 1 < Len(chain) THEN "ChainSize" ELSE "LeafAdd"

After(s) ==
  CASE s = "OpenStore"     -> "ClearTurn"
    [] s = "CertSize"      -> "CertDecode"
    [] s = "CertDecode"    -> "CertContext"
    [] s = "CertContext"   -> "AcquireKeys"
    [] s = "NewKeys"       -> "KeySize"
    [] s = "KeySize"       -> "KeyDecode"
    [] s = "KeyDecode"     -> "BlobSize"
    [] s = "BlobSize"      -> "BlobDecode"
    [] s = "BlobDecode"    -> "ImportKey"
    [] s = "ImportKey"     -> "SetKeyInfo"
    [] s = "SetKeyInfo"    -> ChainLoop
    [] s = "ChainSize"     -> "ChainDecode"
    [] s = "ChainDecode"   -> "ChainContext"
    [] s = "ChainContext"  -> "ChainAdd"
    [] s = "Open"          -> "Connect"
    [] s = "Connect"       -> "OpenRequest"
    [] s = "OpenRequest"   -> IF IsHttps THEN "SetClientCert" ELSE IF verify THEN "Send" ELSE "SetFlags"
    [] s = "SetClientCert" -> IF verify THEN "Send" ELSE "SetFlags"
    [] s = "SetFlags"      -> "Send"
    [] s = "Send"          -> "Receive"
    [] s = "Receive"       -> "QueryHeaders"

\* Where a failure leads: HANDLE_ERROR, or goto clean.
SendAgain(s) == IF s = "Receive" THEN "Send" ELSE "clear"    \* mutant: no answer, another try
Cleanup(s) == IF s \in RequestCalls \cup {"QueryHeaders", "ReadData"} THEN "clean" ELSE "clear"

Fails(s) == step' = Cleanup(s) /\ failedAt' = s

\* Pointers, with those in released freed and those in got holding something new.
Holding(released, got) ==
  [p \in Pointers |-> IF p \in got THEN "held" ELSE IF p \in released THEN "released" ELSE ptr[p]]

--------------------------------------------------------------------------------
\* Post() and Put() are like Get(): the body is read into a string.
Calls == {"Get", "Post", "Put", "GetWithReceiver"}
KeepsBody(call) == call \in {"Get", "Post", "Put"}

\* The client and its first call.  A Client without a keypair goes straight to the request.
WinAsk ==
  /\ step = "idle" /\ Ask
  /\ \E call \in Calls : KeepsBody(call) <=> sink' = "string"
  /\ address' \in {"http", "https", "https:port"} /\ verify' \in BOOLEAN
  /\ chain' \in Chains \cup {<< >>}
  /\ step' = IF chain' = << >> THEN "Open" ELSE "OpenStore"
  /\ pos' = 0 /\ cursor' = 0 /\ failedAt' = "none"
  /\ ptr' = [p \in Pointers |-> "null"] /\ leaked' = {} /\ misreleased' = {}
  /\ UNCHANGED store

Call ==
  /\ step \in KeypairCalls \cup RequestCalls
  /\ LET freed == IF step \in FreedBefore THEN {"pbDecryptedData"} ELSE {}
         taken == AllocatedBefore(step)
     IN \/ /\ ptr' = Holding(freed, taken \cup ObtainedBy(step))
           /\ leaked' = leaked \cup {p \in (taken \ freed) \cup ObtainedBy(step) : ptr[p] = "held"}
           /\ step' = After(step) /\ UNCHANGED failedAt
        \/ /\ ptr' = Holding(freed, taken)
           /\ leaked' = leaked \cup {p \in taken \ freed : ptr[p] = "held"}
           /\ Fails(step)
  \* the first condition of the clear loop
  /\ cursor' = IF step' = "ClearTurn" /\ store # << >> THEN 1 ELSE 0
  /\ UNCHANGED << address, verify, chain, pos, store, misreleased, http >>

\* CertEnumCertificatesInStore(): the certificate after the one at place c, the first after NULL.
Enum(s, c) == IF c < Len(s) THEN c + 1 ELSE 0

DeletedAt(s, c) == RemoveAt(s, c)

StopsAtOnce(s, c) == 0     \* mutant: one certificate is deleted, not one in two
NextTurn(s, c) == Enum(s, Enum(s, c - 1))

\* The loop that clears the store advances in its condition and in its body: it deletes every
\* second certificate, and starts anew when the body's advance ends at NULL.
ClearTurn ==
  /\ step = "ClearTurn"
  /\ \/ cursor = 0 /\ step' = "CertSize" /\ UNCHANGED << store, cursor, failedAt >>
     \/ /\ cursor # 0
        /\ \/ /\ store' = DeletedAt(store, cursor)
              /\ cursor' = NextTurn(DeletedAt(store, cursor), cursor)
              /\ UNCHANGED << step, failedAt >>
           \/ Fails(step) /\ UNCHANGED << store, cursor >>
  /\ UNCHANGED << address, verify, chain, pos, ptr, leaked, misreleased, http >>

\* CryptAcquireContext(): no keys of that name yet, keys of an earlier request, a failure.
AcquireKeys ==
  /\ step = "AcquireKeys"
  /\ \/ step' = "NewKeys" /\ UNCHANGED << ptr, failedAt >>
     \/ step' = "DeleteKeys" /\ ptr' = Holding({"hProv"}, {}) /\ UNCHANGED failedAt
     \/ Fails(step) /\ UNCHANGED ptr
  /\ UNCHANGED << address, verify, chain, pos, store, cursor, leaked, misreleased, http >>

\* CRYPT_DELETEKEYSET leaves an undefined value in hProv.
DeleteKeys ==
  /\ step = "DeleteKeys"
  /\ \E value \in {"null", "released"} : ptr' = [ptr EXCEPT !["hProv"] = value]
  /\ \/ step' = "NewKeys" /\ UNCHANGED failedAt
     \/ Fails(step)
  /\ UNCHANGED << address, verify, chain, pos, store, cursor, leaked, misreleased, http >>

\* CertAddCertificateContextToStore() with CERT_STORE_ADD_REPLACE_EXISTING.
AddedLast(s, c) == << c >>    \* mutant: the store holds one certificate
Added(s, c) == IF c \in Range(s) THEN s ELSE Append(s, c)

ChainAdd ==
  /\ step = "ChainAdd"
  /\ \/ /\ pos' = pos + 1
        /\ store' = Added(store, chain[pos + 2])
        /\ ptr' = [ptr EXCEPT !["ctx__"] = "null"]
        /\ step' = IF pos' + 1 < Len(chain) THEN "ChainSize" ELSE "LeafAdd"
        /\ UNCHANGED failedAt
     \/ Fails(step) /\ UNCHANGED << pos, store, ptr >>
  /\ UNCHANGED << address, verify, chain, cursor, leaked, misreleased, http >>

LeafAdd ==
  /\ step = "LeafAdd"
  /\ \/ store' = Added(store, chain[1]) /\ step' = "Open" /\ UNCHANGED failedAt
     \/ Fails(step) /\ UNCHANGED store
  /\ UNCHANGED << address, verify, chain, pos, cursor, ptr, leaked, misreleased, http >>

--------------------------------------------------------------------------------
\* An exception of a callback leaves both functions without their labels.
Unwound ==
  /\ step' = "idle" /\ End("thrown")
  /\ leaked' = leaked \cup {p \in Pointers : ptr[p] = "held"}
  /\ ptr' = [p \in Pointers |-> "null"]

\* The status and its handler: every status is shown, the 204 too.
QueryHeaders ==
  /\ step = "QueryHeaders"
  /\ \/ Fails(step) /\ UNCHANGED << ptr, leaked, http >>
     \/ \E s \in Statuses :
          /\ Show(s)
          /\ IF StatusAccepted'
               THEN step' = "ReadData" /\ result' = result /\ UNCHANGED << ptr, leaked >>
               ELSE /\ step' = "idle" /\ result' = "thrown"
                    /\ leaked' = leaked \cup {p \in Pointers : ptr[p] = "held"}
                    /\ ptr' = [p \in Pointers |-> "null"]
          /\ UNCHANGED failedAt
  /\ UNCHANGED << address, verify, chain, pos, store, cursor, misreleased >>

\* The read loop: data until none is available.
ReadData ==
  /\ step = "ReadData"
  /\ \/ /\ Hand
        /\ IF Refused' THEN Fails(step) ELSE UNCHANGED << step, failedAt >>
        /\ UNCHANGED << ptr, leaked >>
     \/ sink = "receiver" /\ handed < length /\ Unwound /\ UNCHANGED failedAt
     \/ /\ handed = length \/ status = "204"
        /\ step' = "clean" /\ UNCHANGED << ptr, leaked, failedAt, http >>
     \/ Tear /\ step' = "clean" /\ UNCHANGED << ptr, leaked, failedAt >>
     \/ Fails(step) /\ UNCHANGED << ptr, leaked, http >>
  /\ UNCHANGED << address, verify, chain, pos, store, cursor, misreleased >>

\* The labels.  What is released a second time counts; what is held and not released leaks.
Release(freed) ==
  /\ misreleased' = misreleased \cup {p \in freed : ptr[p] = "released"}
  /\ ptr' = [p \in Pointers |-> IF p \in freed THEN "null" ELSE ptr[p]]

AlwaysSuccess == End("Success")   \* mutant: the code of the request is dropped
WinReturn == End(IF failedAt = "none" THEN "Success" ELSE "error")

Clean ==
  /\ step = "clean"
  /\ Release(FreedAtClean)
  /\ IF chain = << >>
       THEN step' = "idle" /\ WinReturn
       ELSE step' = "clear" /\ UNCHANGED http
  /\ leaked' = leaked \cup {p \in FreedAtClean : ptr'[p] = "held"}
  /\ UNCHANGED << address, verify, chain, pos, store, cursor, failedAt >>

Clear ==
  /\ step = "clear"
  /\ Release(FreedAtClear)
  /\ step' = "idle" /\ WinReturn
  /\ leaked' = leaked \cup {p \in Pointers : ptr'[p] = "held"}
  /\ cursor' = 0
  /\ UNCHANGED << address, verify, chain, pos, store, failedAt >>

WinStep ==
  \/ Call \/ ClearTurn \/ AcquireKeys \/ DeleteKeys \/ ChainAdd \/ LeafAdd
  \/ QueryHeaders \/ ReadData \/ Clean \/ Clear

WinNext == WinAsk \/ WinStep
winVars == << http, win >>

\* Every call of WinHTTP returns, at the latest with its timeout.
WinSpec == WinInit /\ [][WinNext]_winVars /\ WF_winVars(WinStep)

--------------------------------------------------------------------------------
\* Whatever call of a request fails, no handle, context or buffer is released twice, but at
\* three calls: ChainSize, after the buffer was freed (it is freed again at clear:), and
\* DeleteKeys and NewKeys, after hProv was released or left undefined.
ReleasedOnce ==
  misreleased # {} =>
    \/ misreleased = {"pbDecryptedData"} /\ failedAt = "ChainSize"
    \/ misreleased = {"hProv"} /\ failedAt \in {"DeleteKeys", "NewKeys"}

\* And everything a request obtained is released when it returns, unless a callback throws.
NothingLeaks == result # "thrown" => leaked = {}

\* The store does not grow without end though its clearing leaves every second certificate:
\* it never holds twice the certificates of the longest chain.
StoreIsBounded == Len(store) < 2 * MaxChain

\* A request over a keypair is sent with all of its certificates in the store.
SentWithItsChain == step \in {"Send", "Receive", "QueryHeaders", "ReadData"} => Range(chain) \subseteq Range(store)

================================================================================
