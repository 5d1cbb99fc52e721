---------------------------- MODULE WinHttpProofs ----------------------------
(***************************************************************************)
(* The Windows wrapper for keypairs of any number of certificates: the     *)
(* store stays bounded, the caller sees a request in order, and nothing is *)
(* released twice or lost but at the known calls.                          *)
(***************************************************************************)
EXTENDS WinHttp, SequenceTheorems, TLAPS

USE ChainsAssumption, PiecesAssumption
USE DEF http, win, winVars

(***************************************************************************)
(* The certificate store.  A turn of the clear loop deletes one            *)
(* certificate and passes over one, so length and cursor keep their sum,   *)
(* and half of what the last request left is left again; the certificates  *)
(* of the chain are added to that.                                         *)
(***************************************************************************)
Preparing ==
  {"CertSize", "CertDecode", "CertContext", "AcquireKeys", "DeleteKeys", "NewKeys", "KeySize",
   "KeyDecode", "BlobSize", "BlobDecode", "ImportKey", "SetKeyInfo",
   "ChainSize", "ChainDecode", "ChainContext", "ChainAdd", "LeafAdd"}

InChainLoop == {"ChainSize", "ChainDecode", "ChainContext", "ChainAdd"}

StoreInv ==
  /\ chain \in Chains \cup {<< >>} /\ pos \in 0..MaxChain
  /\ store \in Seq(Certificates) /\ cursor \in 0..Len(store)
  /\ Len(store) < 2 * MaxChain
  /\ step \in Preparing \cup {"OpenStore", "ClearTurn"} => chain \in Chains /\ pos < Len(chain)
  /\ step = "ClearTurn" =>
       IF cursor = 0 THEN Len(store) < MaxChain ELSE Len(store) + cursor <= 2 * MaxChain
  /\ step \in Preparing => Len(store) < MaxChain + pos
  /\ step \in InChainLoop => pos + 1 < Len(chain)

\* Removing an element of a sequence shortens it by one.
LEMMA RemoveAtLength ==
  ASSUME NEW S, NEW s \in Seq(S), NEW i \in 1..Len(s)
  PROVE  RemoveAt(s, i) \in Seq(S) /\ Len(RemoveAt(s, i)) = Len(s) - 1
<1>1. SubSeq(s, 1, i - 1) \in Seq(S) /\ Len(SubSeq(s, 1, i - 1)) = i - 1
  OBVIOUS
<1>2. SubSeq(s, i + 1, Len(s)) \in Seq(S) /\ Len(SubSeq(s, i + 1, Len(s))) = Len(s) - i
  OBVIOUS
<1>3. \A a, b \in Seq(S) : a \o b \in Seq(S) /\ Len(a \o b) = Len(a) + Len(b)
  OBVIOUS
<1>4. /\ RemoveAt(s, i) \in Seq(S)
      /\ Len(RemoveAt(s, i)) = Len(SubSeq(s, 1, i - 1)) + Len(SubSeq(s, i + 1, Len(s)))
  BY <1>1, <1>2, <1>3, Zenon DEF RemoveAt
<1>5. Len(RemoveAt(s, i)) = (i - 1) + (Len(s) - i)
  BY <1>1, <1>2, <1>4, Zenon
<1>6. (i - 1) + (Len(s) - i) = Len(s) - 1
  OBVIOUS
<1> QED
  BY <1>4, <1>5, <1>6, Zenon

\* Adding a certificate makes the store at most one longer.
LEMMA AddedLength ==
  ASSUME NEW S, NEW s \in Seq(S), NEW c \in S
  PROVE  Added(s, c) \in Seq(S) /\ Len(s) <= Len(Added(s, c)) /\ Len(Added(s, c)) <= Len(s) + 1
  BY DEF Added

\* The next place of the clear loop: one past the last, or NULL, or the start anew.
LEMMA NextTurnPlace ==
  ASSUME NEW S, NEW s \in Seq(S), NEW c \in 1..(Len(s) + 1)
  PROVE  LET n == NextTurn(s, c) IN
         /\ n \in 0..Len(s)
         /\ n = 0 => s = << >> \/ c = Len(s)
         /\ n # 0 => n = c + 1 \/ (n = 1 /\ c = Len(s) + 1)
<1>1. CASE c = Len(s) + 1
  BY <1>1 DEF NextTurn, Enum
<1>2. CASE c <= Len(s)
  BY <1>2 DEF NextTurn, Enum
<1> QED
  BY <1>1, <1>2

LEMMA WinInitStore == WinInit => StoreInv
  BY DEF WinInit, HRInit, StoreInv, Preparing, InChainLoop

LEMMA ClearTurnStore == StoreInv /\ ClearTurn => StoreInv'
<1> SUFFICES ASSUME StoreInv, ClearTurn PROVE StoreInv'
  OBVIOUS
<1>1. CASE cursor = 0 /\ step' = "CertSize" /\ UNCHANGED << store, cursor, failedAt >>
  BY <1>1 DEF StoreInv, ClearTurn, Preparing, InChainLoop
<1>2. CASE cursor # 0 /\ Fails(step) /\ UNCHANGED << store, cursor >>
  BY <1>2 DEF StoreInv, ClearTurn, Fails, Cleanup, RequestCalls, Preparing, InChainLoop
<1>3. CASE /\ cursor # 0
           /\ store' = DeletedAt(store, cursor)
           /\ cursor' = NextTurn(DeletedAt(store, cursor), cursor)
           /\ UNCHANGED << step, failedAt >>
  <2>1. cursor \in 1..Len(store) /\ Len(store) + cursor <= 2 * MaxChain /\ step = "ClearTurn"
    BY <1>3 DEF StoreInv, ClearTurn
  <2>2. store' \in Seq(Certificates) /\ Len(store') = Len(store) - 1
    BY <1>3, <2>1, RemoveAtLength DEF StoreInv, DeletedAt
  <2>3. cursor' = NextTurn(store', cursor) /\ cursor \in 1..(Len(store') + 1)
    BY <1>3, <2>1, <2>2 DEF StoreInv
  <2>4. /\ cursor' \in 0..Len(store')
        /\ cursor' = 0 => store' = << >> \/ cursor = Len(store')
        /\ cursor' # 0 => cursor' = cursor + 1 \/ (cursor' = 1 /\ cursor = Len(store') + 1)
    BY <2>2, <2>3, NextTurnPlace
  <2>5. IF cursor' = 0 THEN Len(store') < MaxChain ELSE Len(store') + cursor' <= 2 * MaxChain
    BY <2>1, <2>2, <2>4 DEF StoreInv
  <2> QED
    BY <1>3, <2>1, <2>2, <2>4, <2>5 DEF StoreInv, ClearTurn, Preparing, InChainLoop
<1> QED
  BY <1>1, <1>2, <1>3 DEF ClearTurn

LEMMA CallStore == StoreInv /\ Call => StoreInv'
<1> SUFFICES ASSUME StoreInv, Call PROVE StoreInv'
  OBVIOUS
<1>1. UNCHANGED << chain, pos, store >>
  BY DEF Call
<1>2. step' = After(step) \/ step' = Cleanup(step)
  BY DEF Call, Fails
<1>3. /\ step' \in Preparing => step \in Preparing /\ step' # "CertSize"
      /\ step' = "ClearTurn" => step = "OpenStore"
      /\ step' # "OpenStore"
      /\ step' \in InChainLoop => step \in InChainLoop \/ pos + 1 < Len(chain)
  BY <1>2 DEF Call, After, Cleanup, ChainLoop, Preparing, InChainLoop, KeypairCalls, RequestCalls
<1>4. cursor' = IF step' = "ClearTurn" /\ store # << >> THEN 1 ELSE 0
  BY DEF Call
<1>5. store = << >> \/ Len(store) >= 1
  BY DEF StoreInv
<1> QED
  BY <1>1, <1>3, <1>4, <1>5 DEF StoreInv, Preparing

LEMMA NextStore == StoreInv /\ [WinNext]_winVars => StoreInv'
<1> SUFFICES ASSUME StoreInv, [WinNext]_winVars PROVE StoreInv'
  OBVIOUS
<1> USE DEF StoreInv, Preparing, InChainLoop
<1>1. CASE WinAsk
  BY <1>1 DEF WinAsk, Ask
<1>2. CASE Call
  BY <1>2, CallStore
<1>3. CASE ClearTurn
  BY <1>3, ClearTurnStore
<1>4. CASE AcquireKeys
  BY <1>4 DEF AcquireKeys, Fails, Cleanup, RequestCalls
<1>5. CASE DeleteKeys
  BY <1>5 DEF DeleteKeys, Fails, Cleanup, RequestCalls
<1>6. CASE ChainAdd
  <2>1. CASE pos' = pos + 1 /\ store' = Added(store, chain[pos + 2])
             /\ step' = IF pos' + 1 < Len(chain) THEN "ChainSize" ELSE "LeafAdd"
    <3>1. chain[pos + 2] \in Certificates /\ Len(chain) <= MaxChain
      BY <1>6 DEF ChainAdd
    <3>2. store' \in Seq(Certificates) /\ Len(store) <= Len(store') /\ Len(store') <= Len(store) + 1
      BY <2>1, <3>1, AddedLength
    <3> QED
      BY <1>6, <2>1, <3>1, <3>2 DEF ChainAdd
  <2>2. CASE Fails(step) /\ UNCHANGED << pos, store, ptr >>
    BY <1>6, <2>2 DEF ChainAdd, Fails, Cleanup, RequestCalls
  <2> QED
    BY <1>6, <2>1, <2>2 DEF ChainAdd
<1>7. CASE LeafAdd
  <2>1. CASE store' = Added(store, chain[1]) /\ step' = "Open"
    <3>1. chain[1] \in Certificates /\ Len(chain) <= MaxChain
      BY <1>7 DEF LeafAdd
    <3>2. store' \in Seq(Certificates) /\ Len(store) <= Len(store') /\ Len(store') <= Len(store) + 1
      BY <2>1, <3>1, AddedLength
    <3> QED
      BY <1>7, <2>1, <3>1, <3>2 DEF LeafAdd
  <2>2. CASE Fails(step) /\ UNCHANGED store
    BY <1>7, <2>2 DEF LeafAdd, Fails, Cleanup, RequestCalls
  <2> QED
    BY <1>7, <2>1, <2>2 DEF LeafAdd
<1>8. CASE QueryHeaders
  BY <1>8 DEF QueryHeaders, Fails, Cleanup
<1>9. CASE ReadData
  BY <1>9 DEF ReadData, Fails, Cleanup, Unwound
<1>10. CASE Clean
  BY <1>10 DEF Clean
<1>11. CASE Clear
  BY <1>11 DEF Clear
<1>12. CASE UNCHANGED winVars
  BY <1>12
<1> QED
  BY <1>1, <1>2, <1>3, <1>4, <1>5, <1>6, <1>7, <1>8, <1>9, <1>10, <1>11, <1>12 DEF WinNext, WinStep

\* However long the chains are, the store never holds twice as many certificates.
THEOREM StoreIsBoundedHolds == WinSpec => []StoreIsBounded
<1>1. StoreInv => StoreIsBounded
  BY DEF StoreInv, StoreIsBounded
<1> QED
  BY <1>1, WinInitStore, NextStore, PTL DEF WinSpec

(***************************************************************************)
(* The certificates of the chain.  Those behind pos are in the store, and  *)
(* adding one takes none away; the last to be added is the client's own.   *)
(***************************************************************************)
BeforeChain == Preparing \ (InChainLoop \cup {"LeafAdd"})
Requesting == RequestCalls \cup {"QueryHeaders", "ReadData"}

ChainInv ==
  /\ StoreInv
  /\ step \in BeforeChain \cup {"OpenStore", "ClearTurn"} => pos = 0
  /\ step \in InChainLoop \cup {"LeafAdd"} => \A i \in 2..(pos + 1) : chain[i] \in Range(store)
  /\ step = "LeafAdd" => pos + 1 = Len(chain)
  /\ step \in Requesting => \A i \in 1..Len(chain) : chain[i] \in Range(store)

\* Adding a certificate adds it, and keeps those that were there.
LEMMA AddedRange ==
  ASSUME NEW S, NEW s \in Seq(S), NEW c \in S
  PROVE  c \in Range(Added(s, c)) /\ \A d \in Range(s) : d \in Range(Added(s, c))
<1>1. CASE c \in Range(s)
  BY <1>1 DEF Added
<1>2. CASE c \notin Range(s)
  <2>1. /\ DOMAIN Append(s, c) = 1..(Len(s) + 1) /\ DOMAIN s = 1..Len(s)
        /\ Append(s, c)[Len(s) + 1] = c
        /\ \A i \in 1..Len(s) : Append(s, c)[i] = s[i]
    OBVIOUS
  <2>2. Len(s) + 1 \in DOMAIN Append(s, c) /\ \A i \in DOMAIN s : i \in DOMAIN Append(s, c)
    BY <2>1
  <2> QED
    BY <1>2, <2>1, <2>2 DEF Added, Range
<1> QED
  BY <1>1, <1>2

LEMMA NextChain == ChainInv /\ [WinNext]_winVars => ChainInv'
<1> SUFFICES ASSUME ChainInv, [WinNext]_winVars PROVE ChainInv'
  OBVIOUS
<1>0. StoreInv /\ StoreInv'
  BY NextStore DEF ChainInv
<1> USE DEF ChainInv, Preparing, InChainLoop, BeforeChain, Requesting, RequestCalls
<1>1. CASE WinAsk
  <2>1. chain' = << >> => Len(chain') = 0
    BY <1>1
  <2> QED
    BY <1>0, <1>1, <2>1 DEF WinAsk
<1>2. CASE Call
  <2>1. UNCHANGED << chain, pos, store >> /\ step \in KeypairCalls \cup RequestCalls
    BY <1>2 DEF Call
  <2>2. step' = After(step) \/ step' = Cleanup(step)
    BY <1>2 DEF Call, Fails
  <2>3. /\ step' \in BeforeChain \cup {"OpenStore", "ClearTurn"} => step \in BeforeChain \cup {"OpenStore"}
        /\ step' \in {"ChainDecode", "ChainContext", "ChainAdd"} => step \in InChainLoop
        /\ step' \in {"ChainSize", "LeafAdd"} => step = "SetKeyInfo" /\ step' = ChainLoop
        /\ step' \in Requesting => step \in Requesting
    BY <2>1, <2>2 DEF After, Cleanup, ChainLoop, KeypairCalls
  <2>4. step = "SetKeyInfo" => pos = 0 /\ Len(chain) \in Nat /\ pos < Len(chain)
    BY <1>0 DEF StoreInv
  <2>5. step' = "LeafAdd" => pos + 1 = Len(chain)
    <3> SUFFICES ASSUME step' = "LeafAdd" PROVE pos + 1 = Len(chain)
      OBVIOUS
    <3>1. pos = 0 /\ Len(chain) \in Nat /\ pos < Len(chain) /\ ~(pos + 1 < Len(chain))
      BY <2>3, <2>4 DEF ChainLoop
    <3>2. \A m, n \in Nat : m < n /\ ~(m + 1 < n) => m + 1 = n
      OBVIOUS
    <3>3. pos \in Nat
      BY <3>1
    <3> QED
      BY <3>1, <3>2, <3>3, Zenon
  <2>6. ASSUME step' \in InChainLoop \cup {"LeafAdd"}
        PROVE  \A i \in 2..(pos + 1) : chain[i] \in Range(store)
    BY <2>3, <2>4, <2>6
  <2> QED
    BY <1>0, <2>1, <2>3, <2>5, <2>6
<1>3. CASE ClearTurn
  BY <1>0, <1>3 DEF ClearTurn, Fails, Cleanup
<1>4. CASE AcquireKeys \/ DeleteKeys
  BY <1>0, <1>4 DEF AcquireKeys, DeleteKeys, Fails, Cleanup
<1>5. CASE ChainAdd
  <2>1. CASE Fails(step) /\ UNCHANGED << pos, store, ptr >>
    BY <1>0, <1>5, <2>1 DEF ChainAdd, Fails, Cleanup
  <2>2. CASE pos' = pos + 1 /\ store' = Added(store, chain[pos + 2])
             /\ step' = IF pos' + 1 < Len(chain) THEN "ChainSize" ELSE "LeafAdd"
    <3>1. /\ store \in Seq(Certificates) /\ chain[pos + 2] \in Certificates /\ UNCHANGED chain
          /\ pos \in Nat /\ Len(chain) \in Nat /\ pos + 1 < Len(chain)
      BY <1>0, <1>5 DEF ChainAdd, StoreInv
    <3>2. \A i \in 2..(pos' + 1) : i \in 2..(pos + 1) \/ i = pos + 2
      BY <2>2, <3>1
    <3>3. \A i \in 2..(pos' + 1) : chain'[i] \in Range(store')
      <4>1. \A i \in 2..(pos + 1) : chain[i] \in Range(store)
        BY <1>5 DEF ChainAdd
      <4>2. /\ chain[pos + 2] \in Range(store')
            /\ \A c \in Range(store) : c \in Range(store')
        BY <2>2, <3>1, AddedRange
      <4> QED
        BY <3>1, <3>2, <4>1, <4>2
    <3>4. step' = "LeafAdd" => pos' + 1 = Len(chain')
      BY <2>2, <3>1
    <3> QED
      BY <1>0, <2>2, <3>3, <3>4
  <2> QED
    BY <1>5, <2>1, <2>2 DEF ChainAdd
<1>6. CASE LeafAdd
  <2>1. CASE Fails(step) /\ UNCHANGED store
    BY <1>0, <1>6, <2>1 DEF LeafAdd, Fails, Cleanup
  <2>2. CASE store' = Added(store, chain[1]) /\ step' = "Open"
    <3>1. /\ store \in Seq(Certificates) /\ chain[1] \in Certificates /\ UNCHANGED chain
          /\ Len(chain) \in Nat /\ pos + 1 = Len(chain)
      BY <1>0, <1>6 DEF LeafAdd, StoreInv
    <3>2. \A i \in 1..Len(chain) : i = 1 \/ i \in 2..(pos + 1)
      BY <3>1
    <3>3. \A i \in 1..Len(chain') : chain'[i] \in Range(store')
      BY <1>6, <2>2, <3>1, <3>2, AddedRange DEF LeafAdd
    <3> QED
      BY <1>0, <2>2, <3>3
  <2> QED
    BY <1>6, <2>1, <2>2 DEF LeafAdd
<1>7. CASE QueryHeaders \/ ReadData
  BY <1>0, <1>7 DEF QueryHeaders, ReadData, Fails, Cleanup, Unwound
<1>8. CASE Clean \/ Clear
  BY <1>0, <1>8 DEF Clean, Clear
<1>9. CASE UNCHANGED winVars
  BY <1>0, <1>9
<1> QED
  BY <1>1, <1>2, <1>3, <1>4, <1>5, <1>6, <1>7, <1>8, <1>9 DEF WinNext, WinStep

\* A request with a keypair leaves only when all of its certificates are in the store, though
\* the store was cleared by half and holds what earlier requests left.
THEOREM SentWithItsChainHolds == WinSpec => []SentWithItsChain
<1>1. WinInit => ChainInv
  <2>1. WinInit => step = "idle"
    BY DEF WinInit
  <2> QED
    BY <2>1, WinInitStore DEF ChainInv, Preparing, InChainLoop, BeforeChain, Requesting, RequestCalls
<1>2. ChainInv => SentWithItsChain
  <2> SUFFICES ASSUME ChainInv, step \in {"Send", "Receive", "QueryHeaders", "ReadData"}
               PROVE  Range(chain) \subseteq Range(store)
    BY DEF SentWithItsChain
  <2>1. DOMAIN chain = 1..Len(chain)
    BY DEF ChainInv, StoreInv
  <2> QED
    BY <2>1 DEF ChainInv, Requesting, RequestCalls, Range
<1> QED
  BY <1>1, <1>2, NextChain, PTL DEF WinSpec

(***************************************************************************)
(* The order of a request.  A code that is zero at the end of the          *)
(* functions means that no call failed, and that is so only after the      *)
(* whole body went through the receiver.                                   *)
(***************************************************************************)
BeforeStatus ==
  KeypairCalls \cup RequestCalls \cup
    {"ClearTurn", "AcquireKeys", "DeleteKeys", "ChainAdd", "LeafAdd", "QueryHeaders"}

NoneRefused == TakenIn = handed \/ sink = "unopened"
BodyEnded == handed = length \/ torn \/ status = "204"

OrderInv ==
  /\ HRTypeOK
  /\ result = "pending" <=> step # "idle"
  /\ step \in BeforeStatus => status = "none" /\ failedAt = "none" /\ written = 0 /\ handed = 0
  /\ step = "ReadData" => failedAt = "none" /\ status # "none" /\ NoneRefused
  /\ step \in {"clean", "clear"} /\ failedAt = "none" => status # "none" /\ NoneRefused /\ BodyEnded
  /\ result = "Success" => NoneRefused /\ BodyEnded

LEMMA WinInitOrder == WinInit => OrderInv
<1> SUFFICES ASSUME WinInit PROVE OrderInv
  OBVIOUS
<1>1. torn \in BOOLEAN
  BY Zenon DEF WinInit, HRInit
<1>2. HRTypeOK
  BY <1>1 DEF WinInit, HRInit, HRTypeOK, Sinks, Results
<1> QED
  BY <1>2 DEF WinInit, HRInit, OrderInv, BeforeStatus, KeypairCalls, RequestCalls

\* What a sink has taken in stays where it is, or goes on from the buffer into the file.
LEMMA StoresType ==
  ASSUME HRTypeOK, NEW m \in Nat, NEW n \in 0..m, Stores(n), UNCHANGED sink
  PROVE  /\ written' \in 0..m /\ buffered' \in 0..(m - written')
         /\ buffered' # 0 => sink' = "file"
         /\ TakenIn' = n
<1>1. PICK kept \in 0..n : /\ kept # 0 => sink = "file"
                           /\ written' = n - kept /\ buffered' = kept
  BY DEF Stores
<1> QED
  BY <1>1 DEF TakenIn

LEMMA EndType ==
  ASSUME HRTypeOK, NEW r \in Results, End(r) PROVE HRTypeOK' /\ TakenIn' = TakenIn
<1>1. Stores(TakenIn) /\ TakenIn \in 0..handed /\ handed \in Nat /\ UNCHANGED sink
  BY DEF End, HRTypeOK, TakenIn
<1>2. /\ written' \in 0..handed /\ buffered' \in 0..(handed - written')
      /\ buffered' # 0 => sink' = "file"
      /\ TakenIn' = TakenIn
  BY <1>1, StoresType
<1> QED
  BY <1>2 DEF End, HRTypeOK

\* A failing call, or one before the status, leaves the request of the caller as it is.
LEMMA FailsOrder ==
  ASSUME OrderInv, step \in BeforeStatus \cup {"ReadData"}, UNCHANGED http, Fails(step)
  PROVE  OrderInv'
  BY DEF OrderInv, Fails, Cleanup, BeforeStatus, KeypairCalls, RequestCalls, HRTypeOK, NoneRefused,
         BodyEnded, TakenIn

LEMMA SilentOrder ==
  ASSUME OrderInv, step \in BeforeStatus, step' \in BeforeStatus, UNCHANGED http, UNCHANGED failedAt
  PROVE  OrderInv'
  BY DEF OrderInv, BeforeStatus, KeypairCalls, RequestCalls, HRTypeOK, NoneRefused, BodyEnded, TakenIn

LEMMA ReturnOrder ==
  ASSUME OrderInv, step \in {"clean", "clear"}, step' = "idle", WinReturn, UNCHANGED failedAt
  PROVE  OrderInv' /\ HRNext
<1> DEFINE r == IF failedAt = "none" THEN "Success" ELSE "error"
<1>1. r \in Results /\ End(r)
  BY DEF WinReturn, Results
<1>2. Return(r)
  BY <1>1 DEF Return, OrderInv, NoneRefused, BodyEnded
<1>3. HRTypeOK' /\ TakenIn' = TakenIn
  BY <1>1, EndType DEF OrderInv
<1>4. result' = r /\ UNCHANGED << sink, length, torn, status, handed >>
  BY <1>1 DEF End
<1>5. OrderInv'
  BY <1>3, <1>4 DEF OrderInv, BeforeStatus, KeypairCalls, RequestCalls, NoneRefused, BodyEnded
<1> QED
  BY <1>1, <1>2, <1>5 DEF HRNext

LEMMA NextOrder == OrderInv /\ [WinNext]_winVars => OrderInv' /\ [HRNext]_http
<1> SUFFICES ASSUME OrderInv, [WinNext]_winVars PROVE OrderInv' /\ [HRNext]_http
  OBVIOUS
<1>1. CASE WinAsk
  <2>a. torn' \in BOOLEAN
    BY <1>1, Zenon DEF WinAsk, Ask
  <2>0. HRTypeOK'
    BY <1>1, <2>a DEF WinAsk, Ask, HRTypeOK
  <2>1. OrderInv'
    BY <1>1, <2>0 DEF WinAsk, Ask, OrderInv, BeforeStatus, KeypairCalls, RequestCalls
  <2> QED
    BY <1>1, <2>1 DEF WinAsk, HRNext
<1>2. CASE Call
  <2>1. step \in BeforeStatus /\ UNCHANGED http
    BY <1>2 DEF Call, BeforeStatus
  <2>2. CASE step' = After(step) /\ UNCHANGED failedAt
    <3>1. step' \in BeforeStatus
      BY <1>2, <2>2 DEF Call, After, ChainLoop, BeforeStatus, KeypairCalls, RequestCalls
    <3> QED
      BY <2>1, <2>2, <3>1, SilentOrder
  <2>3. CASE Fails(step)
    BY <2>1, <2>3, FailsOrder DEF BeforeStatus, KeypairCalls, RequestCalls
  <2> QED
    BY <1>2, <2>1, <2>2, <2>3 DEF Call
<1>3. CASE ClearTurn \/ AcquireKeys \/ DeleteKeys \/ ChainAdd \/ LeafAdd
  <2>1. step \in BeforeStatus /\ step \notin {"idle", "clean", "clear"} /\ UNCHANGED http
    BY <1>3 DEF ClearTurn, AcquireKeys, DeleteKeys, ChainAdd, LeafAdd, BeforeStatus
  <2>2. Fails(step) \/ (step' \in BeforeStatus /\ UNCHANGED failedAt)
    BY <1>3 DEF ClearTurn, AcquireKeys, DeleteKeys, ChainAdd, LeafAdd, BeforeStatus, KeypairCalls,
       RequestCalls
  <2>3. CASE Fails(step)
    BY <2>1, <2>3, FailsOrder
  <2>4. CASE step' \in BeforeStatus /\ UNCHANGED failedAt
    BY <2>1, <2>4, SilentOrder
  <2> QED
    BY <2>1, <2>2, <2>3, <2>4
<1>4. CASE QueryHeaders
  <2>1. CASE Fails(step) /\ UNCHANGED http
    BY <1>4, <2>1, FailsOrder DEF QueryHeaders, BeforeStatus
  <2>2. CASE \E st \in Statuses :
               /\ Show(st) /\ UNCHANGED failedAt
               /\ \/ step' = "ReadData" /\ result' = result
                  \/ step' = "idle" /\ result' = "thrown"
    <3>1. PICK st \in Statuses : /\ Show(st) /\ UNCHANGED failedAt
                                 /\ \/ step' = "ReadData" /\ result' = result
                                    \/ step' = "idle" /\ result' = "thrown"
      BY <2>2
    <3>2. ShowStatus(st)
      BY <1>4, <3>1 DEF QueryHeaders, ShowStatus, OrderInv, BeforeStatus
    <3>3. OrderInv'
      BY <1>4, <3>1 DEF QueryHeaders, Show, OrderInv, BeforeStatus, KeypairCalls, RequestCalls,
         HRTypeOK, Statuses, Results, NoneRefused, BodyEnded, TakenIn
    <3> QED
      BY <3>2, <3>3 DEF HRNext
  <2> QED
    BY <1>4, <2>1, <2>2 DEF QueryHeaders
<1>5. CASE ReadData
  <2>0. step = "ReadData" /\ failedAt = "none" /\ status # "none" /\ NoneRefused /\ result = "pending"
    BY <1>5 DEF ReadData, OrderInv
  <2>1. CASE Hand /\ (IF Refused' THEN Fails(step) ELSE UNCHANGED << step, failedAt >>)
    <3>1. HandOver
      BY <2>0, <2>1 DEF HandOver, NoneRefused
    <3>a. /\ handed \in Nat /\ TakenIn \in 0..handed /\ handed' = handed + 1 /\ UNCHANGED sink
          /\ Stores(TakenIn + 1) \/ Stores(TakenIn)
      BY <2>1 DEF Hand, OrderInv, HRTypeOK, TakenIn
    <3>b. /\ written' \in 0..handed' /\ buffered' \in 0..(handed' - written')
          /\ (buffered' # 0 => sink' = "file") /\ TakenIn' \in {TakenIn, TakenIn + 1}
      BY <3>a, StoresType DEF OrderInv
    <3>2. HRTypeOK' /\ (Refused' \/ NoneRefused')
      <4>1. /\ sink' \in Sinks /\ length' \in 0..MaxPieces /\ status' \in Statuses \cup {"none"}
            /\ torn' \in BOOLEAN /\ result' \in Results \cup {"pending"}
        BY <2>1, Zenon DEF Hand, OrderInv, HRTypeOK
      <4>2. handed' \in 0..length'
        BY <2>1 DEF Hand, OrderInv, HRTypeOK
      <4>3. HRTypeOK'
        BY <4>1, <4>2, <3>b, Zenon DEF HRTypeOK
      <4> QED
        BY <3>a, <3>b, <4>3 DEF Refused, NoneRefused
    <3>3. OrderInv'
      BY <2>0, <2>1, <3>2 DEF OrderInv, Hand, Fails, Cleanup, BeforeStatus, KeypairCalls,
         RequestCalls, NoneRefused
    <3> QED
      BY <3>1, <3>3 DEF HRNext
  <2>2. CASE Unwound /\ UNCHANGED failedAt
    <3>1. Return("thrown")
      BY <2>0, <2>2 DEF Unwound, Return
    <3>2. HRTypeOK' /\ result' = "thrown"
      BY <2>2, EndType DEF Unwound, End, OrderInv, Results
    <3>3. OrderInv'
      BY <2>0, <2>2, <3>2 DEF Unwound, OrderInv, BeforeStatus, KeypairCalls, RequestCalls
    <3> QED
      BY <3>1, <3>3 DEF HRNext, Results
  <2>3. CASE (handed = length \/ status = "204") /\ step' = "clean" /\ UNCHANGED << failedAt, http >>
    BY <2>0, <2>3 DEF OrderInv, BeforeStatus, KeypairCalls, RequestCalls, HRTypeOK, NoneRefused,
       BodyEnded, TakenIn
  <2>4. CASE Tear /\ step' = "clean" /\ UNCHANGED failedAt
    <3>1. OrderInv'
      BY <2>0, <2>4 DEF Tear, OrderInv, BeforeStatus, KeypairCalls, RequestCalls, HRTypeOK,
         NoneRefused, BodyEnded, TakenIn
    <3> QED
      BY <2>4, <3>1 DEF HRNext
  <2>5. CASE Fails(step) /\ UNCHANGED http
    BY <2>0, <2>5, FailsOrder DEF BeforeStatus
  <2> QED
    BY <1>5, <2>1, <2>2, <2>3, <2>4, <2>5 DEF ReadData
<1>6. CASE Clean
  <2>1. CASE step' = "idle" /\ WinReturn
    BY <1>6, <2>1, ReturnOrder DEF Clean
  <2>2. CASE step' = "clear" /\ UNCHANGED http
    BY <1>6, <2>2 DEF Clean, OrderInv, BeforeStatus, KeypairCalls, RequestCalls, HRTypeOK,
       NoneRefused, BodyEnded, TakenIn
  <2> QED
    BY <1>6, <2>1, <2>2 DEF Clean
<1>7. CASE Clear
  BY <1>7, ReturnOrder DEF Clear
<1>8. CASE UNCHANGED winVars
  BY <1>8 DEF OrderInv, BeforeStatus, HRTypeOK, NoneRefused, BodyEnded, TakenIn
<1> QED
  BY <1>1, <1>2, <1>3, <1>4, <1>5, <1>6, <1>7, <1>8 DEF WinNext, WinStep

\* The windows wrapper implements the interface of a request: what the caller is shown and
\* handed, and how the request ends, has the order HttpRequest asks for.
THEOREM WindowsKeepsTheOrder == WinSpec => KeepsTheOrder
<1>1. WinInit => HRInit
  BY DEF WinInit
<1> QED
  BY <1>1, WinInitOrder, NextOrder, PTL DEF WinSpec, KeepsTheOrder, HRSpec

\* A download that returns without an exception has given all of the body to the receiver, or
\* to the stream of its file, torn bodies and unopened files apart.
THEOREM WindowsDownloadsAreWhole == WinSpec => []DownloadIsWhole
<1>1. OrderInv => DownloadIsWhole
  BY DEF OrderInv, DownloadIsWhole, HRTypeOK, NoneRefused, BodyEnded, TakenIn
<1> QED
  BY <1>1, WinInitOrder, NextOrder, PTL DEF WinSpec

(***************************************************************************)
(* The pointers.  What a call obtains or allocates is not held before it,  *)
(* and what is freed and not yet taken again is one of two pointers.       *)
(***************************************************************************)
Steps ==
  KeypairCalls \cup RequestCalls \cup
    {"idle", "ClearTurn", "AcquireKeys", "DeleteKeys", "ChainAdd", "LeafAdd",
     "QueryHeaders", "ReadData", "clean", "clear"}

BeforeCertContext == {"OpenStore", "ClearTurn", "CertSize", "CertDecode", "CertContext"}
BeforeNewKeys == BeforeCertContext \cup {"AcquireKeys", "DeleteKeys", "NewKeys"}
BeforeKeyBlob == BeforeNewKeys \cup {"KeySize", "KeyDecode", "BlobSize", "BlobDecode"}
AfterSend == {"Receive", "QueryHeaders", "ReadData", "clean"}
AfterOpenRequest == AfterSend \cup {"SetClientCert", "SetFlags", "Send"}

\* May pointer p be held at step s?
MayHold(p, s) ==
  /\ p = "hMemStore"       => s # "OpenStore"
  /\ p = "pbDecryptedData" => s \notin {"OpenStore", "ClearTurn", "CertSize", "CertDecode", "ChainDecode"}
  /\ p = "ctx_"            => s \notin BeforeCertContext
  /\ p = "hProv"           => s \notin BeforeNewKeys
  /\ p = "pbKeyBlob"       => s \notin BeforeKeyBlob
  /\ p = "hKey"            => s \notin BeforeKeyBlob \cup {"ImportKey"}
  /\ p = "ctx__"           => s \in {"ChainAdd", "clear", "idle"}
  /\ p = "hSession"        => s \in AfterOpenRequest \cup {"OpenRequest", "Connect"}
  /\ p \in {"hConnect", "lpwHostAddress"} => s \in AfterOpenRequest \cup {"OpenRequest"}
  /\ p \in {"hRequest", "lpwMethod", "lpwPath"} => s \in AfterOpenRequest
  /\ p = "lpwHeaders"      => s \in AfterSend

\* May it be freed and left as it is, with failure f?
MayDangle(p, s, f) ==
  \/ /\ p = "pbDecryptedData"
     /\ s = "ChainDecode" \/ (s = "clear" /\ f = "ChainSize")
  \/ /\ p = "hProv"
     /\ s \in {"DeleteKeys", "NewKeys"} \/ (s = "clear" /\ f \in {"DeleteKeys", "NewKeys"})

PtrType == ptr \in [Pointers -> {"null", "held", "released"}] /\ step \in Steps

PtrInv ==
  /\ PtrType
  /\ \A p \in Pointers : /\ ptr[p] = "held" => MayHold(p, step)
                         /\ ptr[p] = "released" => MayDangle(p, step, failedAt)
  /\ leaked \subseteq Pointers /\ misreleased \subseteq Pointers
  /\ step # "idle" => leaked = {} /\ misreleased = {}
  /\ NothingLeaks /\ ReleasedOnce

LEMMA WinInitPtr == WinInit => PtrInv
  BY DEF WinInit, HRInit, PtrInv, PtrType, Steps, NothingLeaks, ReleasedOnce

\* Where the calls lead, seen from the sets of steps above.
LEMMA AfterCall ==
  ASSUME NEW s \in KeypairCalls \cup RequestCalls
  PROVE  /\ After(s) \in BeforeCertContext \cup {"OpenStore"} => s \in BeforeCertContext /\ After(s) # "OpenStore"
         /\ After(s) \in BeforeNewKeys => s \in BeforeNewKeys
         /\ After(s) \in BeforeKeyBlob \cup {"ImportKey"} => s \in BeforeKeyBlob
         /\ After(s) \in {"ClearTurn", "CertSize", "CertDecode"} => s \in {"OpenStore", "CertSize"}
         /\ After(s) = "ChainDecode" => s = "ChainSize"
         /\ s \in AfterOpenRequest \cup {"OpenRequest"} => After(s) \in AfterOpenRequest
         /\ s \in {"Send", "Receive"} => After(s) \in AfterSend
         /\ s = "Connect" => After(s) = "OpenRequest"
<1> USE DEF KeypairCalls, RequestCalls, After, ChainLoop
<1>1. /\ After(s) \in BeforeCertContext \cup {"OpenStore"} => s \in BeforeCertContext /\ After(s) # "OpenStore"
  BY DEF BeforeCertContext
<1>2. After(s) \in BeforeNewKeys => s \in BeforeNewKeys
  BY DEF BeforeNewKeys, BeforeCertContext
<1>3. After(s) \in BeforeKeyBlob \cup {"ImportKey"} => s \in BeforeKeyBlob
  BY DEF BeforeKeyBlob, BeforeNewKeys, BeforeCertContext
<1>4. /\ After(s) \in {"ClearTurn", "CertSize", "CertDecode"} => s \in {"OpenStore", "CertSize"}
      /\ After(s) = "ChainDecode" => s = "ChainSize"
  OBVIOUS
<1>5. s \in AfterOpenRequest \cup {"OpenRequest"} => After(s) \in AfterOpenRequest
  BY DEF AfterOpenRequest, AfterSend
<1>6. /\ s \in {"Send", "Receive"} => After(s) \in AfterSend
      /\ s = "Connect" => After(s) = "OpenRequest"
  BY DEF AfterSend
<1> QED
  BY <1>1, <1>2, <1>3, <1>4, <1>5, <1>6

\* Which call gives which pointer its value.
LEMMA TakenBy ==
  ASSUME NEW s \in KeypairCalls \cup RequestCalls, NEW p \in AllocatedBefore(s) \cup ObtainedBy(s)
  PROVE  /\ p = "hMemStore"       => s = "OpenStore"
         /\ p = "pbDecryptedData" => s \in {"CertDecode", "KeyDecode", "ChainDecode"}
         /\ p = "ctx_"            => s = "CertContext"
         /\ p = "hProv"           => s = "NewKeys"
         /\ p = "pbKeyBlob"       => s = "BlobDecode"
         /\ p = "hKey"            => s = "ImportKey"
         /\ p = "ctx__"           => s = "ChainContext"
         /\ p = "hSession"        => s = "Open"
         /\ p \in {"hConnect", "lpwHostAddress"} => s = "Connect"
         /\ p \in {"hRequest", "lpwMethod", "lpwPath"} => s = "OpenRequest"
         /\ p = "lpwHeaders"      => s = "Send"
  BY DEF KeypairCalls, RequestCalls, AllocatedBefore, ObtainedBy

LEMMA CallPtr == PtrInv /\ Call => PtrInv'
<1> SUFFICES ASSUME PtrInv, Call PROVE PtrInv'
  OBVIOUS
<1> DEFINE freed == IF step \in FreedBefore THEN {"pbDecryptedData"} ELSE {}
           taken == AllocatedBefore(step)
<1> USE DEF KeypairCalls, RequestCalls
<1>1. step \in KeypairCalls \cup RequestCalls /\ step # "idle" /\ leaked = {} /\ misreleased' = {}
  BY DEF Call, PtrInv
<1>2. freed \subseteq Pointers /\ taken \subseteq Pointers /\ ObtainedBy(step) \subseteq Pointers
  BY <1>1 DEF FreedBefore, AllocatedBefore, ObtainedBy, Pointers
<1>3. {p \in (taken \ freed) \cup ObtainedBy(step) : ptr[p] = "held"} = {}
  <2> SUFFICES ASSUME NEW p \in (taken \ freed) \cup ObtainedBy(step), ptr[p] = "held" PROVE FALSE
    OBVIOUS
  <2>1. p \in Pointers /\ MayHold(p, step)
    BY <1>2 DEF PtrInv
  <2> QED
    BY <1>1, <2>1 DEF FreedBefore, AllocatedBefore, ObtainedBy, MayHold, BeforeCertContext,
       BeforeNewKeys, BeforeKeyBlob, AfterSend, AfterOpenRequest
<1>4. leaked' = {}
  BY <1>1, <1>3 DEF Call
<1>5. step' \in Steps /\ step' # "idle"
  BY <1>1 DEF Call, After, ChainLoop, Fails, Cleanup, Steps
<1>5a. \/ /\ ptr' = Holding(freed, taken \cup ObtainedBy(step))
          /\ step' = After(step) /\ failedAt' = failedAt
       \/ ptr' = Holding(freed, taken) /\ Fails(step)
  BY DEF Call
<1>6. ptr' \in [Pointers -> {"null", "held", "released"}]
  BY DEF Call, Holding, PtrInv, PtrType
<1>7. ASSUME NEW p \in Pointers
      PROVE  /\ ptr'[p] = "held" => MayHold(p, step')
             /\ ptr'[p] = "released" => MayDangle(p, step', failedAt')
  <2>0. /\ ptr[p] = "held" => MayHold(p, step)
        /\ ptr[p] = "released" => MayDangle(p, step, failedAt)
    BY DEF PtrInv
  <2>1. CASE ptr' = Holding(freed, taken \cup ObtainedBy(step)) /\ step' = After(step) /\ failedAt' = failedAt
    <3>1. ptr'[p] = IF p \in taken \cup ObtainedBy(step) THEN "held"
                    ELSE IF p \in freed THEN "released" ELSE ptr[p]
      BY <2>1 DEF Holding
    <3>2. CASE p \in taken \cup ObtainedBy(step)
      <4>1. step' = After(step) /\ ptr'[p] = "held" /\ MayHold(p, After(step))
        BY <1>1, <2>1, <3>1, <3>2, TakenBy DEF After, ChainLoop, MayHold, BeforeCertContext, BeforeNewKeys,
           BeforeKeyBlob, AfterSend, AfterOpenRequest
      <4> QED
        BY <4>1
    <3>3. CASE p \notin taken \cup ObtainedBy(step)
      <4>1. ASSUME ptr'[p] = "held" PROVE MayHold(p, After(step))
        <5>1. ptr[p] = "held" /\ p \notin freed
          BY <3>1, <3>3, <4>1
        <5>2. MayHold(p, step)
          BY <2>0, <5>1
        <5>3. p = "pbDecryptedData" => step \notin {"OpenStore", "CertSize", "ChainSize"}
          BY <5>1, <5>2 DEF MayHold, FreedBefore
        <5>4. /\ After(step) # "OpenStore"
              /\ After(step) \in BeforeCertContext => step \in BeforeCertContext
              /\ After(step) \in BeforeNewKeys => step \in BeforeNewKeys
              /\ After(step) \in BeforeKeyBlob \cup {"ImportKey"} => step \in BeforeKeyBlob
          BY <1>1, AfterCall
        <5>5. /\ step \in AfterOpenRequest \cup {"OpenRequest"} => After(step) \in AfterOpenRequest
              /\ step \in AfterSend => After(step) \in AfterSend
              /\ step = "Connect" => After(step) = "OpenRequest"
              /\ step \notin {"ChainAdd", "clear", "idle"}
          BY <1>1, AfterCall DEF AfterSend
        <5>6. p = "pbDecryptedData" =>
                After(step) \notin {"OpenStore", "ClearTurn", "CertSize", "CertDecode", "ChainDecode"}
          BY <1>1, <5>3, AfterCall
        <5> QED
          BY <5>2, <5>4, <5>5, <5>6 DEF MayHold
      <4>2. ASSUME ptr'[p] = "released" PROVE MayDangle(p, After(step), failedAt)
        <5>1. CASE p \in freed
          <6>1. p = "pbDecryptedData" /\ step = "ChainSize"
            BY <3>3, <5>1 DEF FreedBefore, AllocatedBefore
          <6> QED
            BY <6>1 DEF After, MayDangle
        <5>2. CASE p \notin freed
          <6>1. MayDangle(p, step, failedAt)
            BY <2>0, <3>1, <3>3, <4>2, <5>2
          <6>2. step # "ChainDecode" \/ p # "pbDecryptedData"
            BY <3>3 DEF AllocatedBefore
          <6>3. step # "NewKeys" \/ p # "hProv"
            BY <3>3 DEF ObtainedBy
          <6>4. step \notin {"clear", "DeleteKeys"}
            BY <1>1
          <6> QED
            BY <6>1, <6>2, <6>3, <6>4 DEF MayDangle
        <5> QED
          BY <5>1, <5>2
      <4>3. step' = After(step) /\ failedAt' = failedAt
        BY <2>1
      <4> QED
        BY <4>1, <4>2, <4>3
    <3> QED
      BY <3>2, <3>3
  <2>2. CASE ptr' = Holding(freed, taken) /\ Fails(step)
    <3>1. ptr'[p] = IF p \in taken THEN "held" ELSE IF p \in freed THEN "released" ELSE ptr[p]
      BY <2>2 DEF Holding
    <3> QED
      BY <1>1, <2>0, <2>2, <3>1 DEF Fails, Cleanup, FreedBefore, AllocatedBefore, MayHold,
         MayDangle, BeforeCertContext, BeforeNewKeys, BeforeKeyBlob, AfterSend, AfterOpenRequest
  <2> QED
    BY <1>5a, <2>1, <2>2
<1> QED
  BY <1>1, <1>4, <1>5, <1>6, <1>7 DEF PtrInv, PtrType, NothingLeaks, ReleasedOnce

\* The calls of the keypair that do more than obtain.
LEMMA KeypairPtr ==
  PtrInv /\ (ClearTurn \/ AcquireKeys \/ DeleteKeys \/ ChainAdd \/ LeafAdd) => PtrInv'
<1> SUFFICES ASSUME PtrInv, ClearTurn \/ AcquireKeys \/ DeleteKeys \/ ChainAdd \/ LeafAdd PROVE PtrInv'
  OBVIOUS
<1> USE DEF Fails, Cleanup, RequestCalls, MayHold, MayDangle, BeforeCertContext, BeforeNewKeys,
        BeforeKeyBlob, AfterSend, AfterOpenRequest
<1>1. CASE ClearTurn
  <2>1. /\ PtrType' /\ UNCHANGED << leaked, misreleased, ptr >>
        /\ step = "ClearTurn" /\ step' \in {"ClearTurn", "CertSize", "clear"}
    BY <1>1 DEF ClearTurn, PtrInv, PtrType, Steps, KeypairCalls
  <2> QED
    BY <2>1 DEF PtrInv, NothingLeaks, ReleasedOnce
<1>2. CASE AcquireKeys
  <2>1. /\ UNCHANGED << leaked, misreleased >>
        /\ step = "AcquireKeys" /\ step' \in {"NewKeys", "DeleteKeys", "clear"}
        /\ ptr' = ptr \/ (step' = "DeleteKeys" /\ ptr' = Holding({"hProv"}, {}))
    BY <1>2 DEF AcquireKeys
  <2>2. PtrType'
    BY <2>1 DEF PtrInv, PtrType, Steps, KeypairCalls, Holding
  <2>3. \A p \in Pointers : ptr'[p] = ptr[p] \/ (p = "hProv" /\ step' = "DeleteKeys" /\ ptr'[p] = "released")
    BY <2>1 DEF Holding
  <2> QED
    BY <2>1, <2>2, <2>3 DEF PtrInv, NothingLeaks, ReleasedOnce
<1>3. CASE DeleteKeys
  <2>1. /\ UNCHANGED << leaked, misreleased >>
        /\ step = "DeleteKeys"
        /\ step' = "NewKeys" \/ (step' = "clear" /\ failedAt' = "DeleteKeys")
        /\ ptr' = [ptr EXCEPT !["hProv"] = "null"] \/ ptr' = [ptr EXCEPT !["hProv"] = "released"]
    BY <1>3 DEF DeleteKeys
  <2>2. PtrType'
    BY <2>1 DEF PtrInv, PtrType, Steps, KeypairCalls
  <2>3. \A p \in Pointers : ptr'[p] = ptr[p] \/ (p = "hProv" /\ ptr'[p] \in {"null", "released"})
    BY <2>1 DEF PtrInv, PtrType
  <2> QED
    BY <2>1, <2>2, <2>3 DEF PtrInv, NothingLeaks, ReleasedOnce
<1>4. CASE ChainAdd
  <2>1. /\ UNCHANGED << leaked, misreleased >> /\ step = "ChainAdd"
        /\ \/ step' \in {"ChainSize", "LeafAdd"} /\ ptr' = [ptr EXCEPT !["ctx__"] = "null"]
           \/ step' = "clear" /\ ptr' = ptr
    BY <1>4 DEF ChainAdd
  <2>2. PtrType'
    BY <2>1 DEF PtrInv, PtrType, Steps, KeypairCalls
  <2>3. \A p \in Pointers : \/ ptr'[p] = ptr[p] /\ (p = "ctx__" => step' = "clear")
                           \/ ptr'[p] = "null"
    BY <2>1 DEF PtrInv, PtrType
  <2> QED
    BY <2>1, <2>2, <2>3 DEF PtrInv, NothingLeaks, ReleasedOnce
<1>5. CASE LeafAdd
  <2>1. /\ UNCHANGED << leaked, misreleased, ptr >>
        /\ step = "LeafAdd" /\ step' \in {"Open", "clear"}
    BY <1>5 DEF LeafAdd
  <2>2. PtrType'
    BY <2>1 DEF PtrInv, PtrType, Steps
  <2> QED
    BY <2>1, <2>2 DEF PtrInv, NothingLeaks, ReleasedOnce
<1> QED
  BY <1>1, <1>2, <1>3, <1>4, <1>5

\* The answer: its callbacks either go on to the labels, or leave everything behind.
LEMMA AnswerPtr == PtrInv /\ (QueryHeaders \/ ReadData) => PtrInv'
<1> SUFFICES ASSUME PtrInv, QueryHeaders \/ ReadData PROVE PtrInv'
  OBVIOUS
<1>1. step \in {"QueryHeaders", "ReadData"} /\ misreleased' = {} /\ leaked = {}
  BY DEF QueryHeaders, ReadData, PtrInv
<1>2. CASE step' \in {"ReadData", "clean"} /\ UNCHANGED << ptr, leaked >>
  <2>1. PtrType'
    BY <1>2 DEF PtrInv, PtrType, Steps
  <2> QED
    BY <1>1, <1>2, <2>1 DEF PtrInv, NothingLeaks, ReleasedOnce, MayHold, MayDangle, BeforeCertContext,
       BeforeNewKeys, BeforeKeyBlob, AfterSend, AfterOpenRequest
<1>3. CASE /\ step' = "idle" /\ result' = "thrown"
           /\ leaked' = leaked \cup {p \in Pointers : ptr[p] = "held"}
           /\ ptr' = [p \in Pointers |-> "null"]
  <2>1. PtrType'
    BY <1>3 DEF PtrType, Steps
  <2> QED
    BY <1>1, <1>3, <2>1 DEF PtrInv, NothingLeaks, ReleasedOnce
<1>4. CASE QueryHeaders
  BY <1>2, <1>3, <1>4 DEF QueryHeaders, Fails, Cleanup
<1>5. CASE ReadData
  BY <1>2, <1>3, <1>5 DEF ReadData, Fails, Cleanup, Unwound, End
<1> QED
  BY <1>4, <1>5

LEMMA CleanPtr == PtrInv /\ Clean => PtrInv'
<1> SUFFICES ASSUME PtrInv, Clean PROVE PtrInv'
  OBVIOUS
<1>1. step = "clean" /\ step' \in {"idle", "clear"} /\ leaked = {} /\ misreleased = {}
  BY DEF Clean, PtrInv
<1>2. ptr' = [p \in Pointers |-> IF p \in FreedAtClean THEN "null" ELSE ptr[p]]
  BY DEF Clean, Release
<1>3. \A p \in Pointers : ptr[p] # "released"
  BY <1>1 DEF PtrInv, MayDangle
<1>4. FreedAtClean \subseteq Pointers
  BY DEF FreedAtClean, Pointers
<1>5. misreleased' = {} /\ leaked' = {}
  BY <1>1, <1>2, <1>3, <1>4 DEF Clean, Release
<1>6. PtrType'
  BY <1>1, <1>2 DEF PtrInv, PtrType, Steps
<1>7. ASSUME NEW p \in Pointers
      PROVE  ptr'[p] # "released" /\ (ptr'[p] = "held" => MayHold(p, step'))
  BY <1>1, <1>2, <1>3 DEF PtrInv, MayHold, FreedAtClean, BeforeCertContext, BeforeNewKeys,
     BeforeKeyBlob, AfterSend, AfterOpenRequest
<1> QED
  BY <1>5, <1>6, <1>7 DEF PtrInv, NothingLeaks, ReleasedOnce

LEMMA ClearPtr == PtrInv /\ Clear => PtrInv'
<1> SUFFICES ASSUME PtrInv, Clear PROVE PtrInv'
  OBVIOUS
<1>1. step = "clear" /\ step' = "idle" /\ leaked = {} /\ misreleased = {} /\ failedAt' = failedAt
  BY DEF Clear, PtrInv
<1>2. ptr' = [p \in Pointers |-> IF p \in FreedAtClear THEN "null" ELSE ptr[p]]
  BY DEF Clear, Release
<1>3. \A p \in Pointers : ptr[p] = "released" => MayDangle(p, "clear", failedAt)
  BY <1>1 DEF PtrInv
<1>4. \A p \in Pointers : ptr'[p] = "null"
  <2> SUFFICES ASSUME NEW p \in Pointers, p \notin FreedAtClear PROVE ptr[p] = "null"
    BY <1>2
  <2>1. ~ MayHold(p, "clear") /\ ~ MayDangle(p, "clear", failedAt)
    BY DEF Pointers, FreedAtClear, MayHold, MayDangle, AfterSend, AfterOpenRequest
  <2> QED
    BY <1>1, <2>1 DEF PtrInv, PtrType
<1>5. leaked' = {}
  BY <1>1, <1>4 DEF Clear
<1>6. misreleased' = {p \in FreedAtClear : ptr[p] = "released"}
  BY <1>1 DEF Clear, Release
<1>7. FreedAtClear \subseteq Pointers
  BY DEF FreedAtClear, Pointers
<1>8. ReleasedOnce'
  BY <1>1, <1>3, <1>6, <1>7 DEF ReleasedOnce, MayDangle
<1>9. PtrType'
  BY <1>1, <1>2 DEF PtrInv, PtrType, Steps
<1> QED
  BY <1>1, <1>4, <1>5, <1>6, <1>7, <1>8, <1>9 DEF PtrInv, NothingLeaks

LEMMA NextPtr == PtrInv /\ [WinNext]_winVars => PtrInv'
<1>1. PtrInv /\ WinAsk => PtrInv'
  BY DEF WinAsk, PtrInv, PtrType, Steps, KeypairCalls, RequestCalls, NothingLeaks, ReleasedOnce
<1>2. PtrInv /\ UNCHANGED winVars => PtrInv'
  BY DEF PtrInv, PtrType, NothingLeaks, ReleasedOnce
<1> QED
  BY <1>1, <1>2, CallPtr, KeypairPtr, AnswerPtr, CleanPtr, ClearPtr DEF WinNext, WinStep

\* Whatever call fails, only the freed buffer of the chain loop and the provider handle of the
\* deleted keys are released a second time.
THEOREM ReleasedOnceHolds == WinSpec => []ReleasedOnce
<1>1. PtrInv => ReleasedOnce
  BY DEF PtrInv
<1> QED
  BY <1>1, WinInitPtr, NextPtr, PTL DEF WinSpec

\* A request that returns without an exception of a callback has released all it obtained.
THEOREM NothingLeaksHolds == WinSpec => []NothingLeaks
<1>1. PtrInv => NothingLeaks
  BY DEF PtrInv
<1> QED
  BY <1>1, WinInitPtr, NextPtr, PTL DEF WinSpec

\* The endpoint: its address and the wish to verify the server stay what Ask made them.
EndpointInv == address \in {"http", "https", "https:port"} /\ verify \in BOOLEAN

LEMMA NextEndpoint == EndpointInv /\ [WinNext]_winVars => EndpointInv'
<1>1. ASSUME EndpointInv, WinAsk PROVE EndpointInv'
  BY <1>1, Zenon DEF EndpointInv, WinAsk
<1>2. ASSUME EndpointInv, UNCHANGED << address, verify >> PROVE EndpointInv'
  BY <1>2, Zenon DEF EndpointInv
<1>3. WinStep \/ UNCHANGED winVars => UNCHANGED << address, verify >>
  BY DEF WinStep, Call, ClearTurn, AcquireKeys, DeleteKeys, ChainAdd, LeafAdd, QueryHeaders,
     ReadData, Clean, Clear
<1> QED
  BY <1>1, <1>2, <1>3 DEF WinNext

\* Every variable of the wrapper keeps its type; the cursor stays inside the store.
THEOREM WinTypeCorrect == WinSpec => []WinTypeOK
<1>1. WinInit => EndpointInv
  BY Zenon DEF WinInit, EndpointInv
<1>2. StoreInv /\ OrderInv /\ PtrInv /\ EndpointInv => WinTypeOK
  <2> SUFFICES ASSUME StoreInv, OrderInv, PtrInv, EndpointInv PROVE WinTypeOK
    OBVIOUS
  <2>1. chain \in Chains \cup {<< >>} /\ pos \in 0..MaxChain /\ store \in Seq(Certificates)
          /\ cursor \in 0..Len(store)
    BY DEF StoreInv
  <2>2. HRTypeOK
    BY DEF OrderInv
  <2>3. PtrType /\ leaked \subseteq Pointers /\ misreleased \subseteq Pointers
    BY DEF PtrInv
  <2> QED
    BY <2>1, <2>2, <2>3, Zenon DEF WinTypeOK, PtrType, Steps, EndpointInv
<1> QED
  BY <1>1, <1>2, WinInitStore, NextStore, WinInitOrder, NextOrder, WinInitPtr, NextPtr, NextEndpoint,
     PTL DEF WinSpec

================================================================================
