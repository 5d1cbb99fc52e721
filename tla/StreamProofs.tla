------------------------------ MODULE StreamProofs ------------------------------
(***************************************************************************)
(* SocketStream and SslSocketStream implement ByteStream, for buffers,     *)
(* records and reads of every size; and what HttpReader makes of a sound   *)
(* answer that comes through a stream, for every answer and buffer.        *)
(***************************************************************************)
EXTENDS SocketStream, SslSocketStream, HttpReader, WellFoundedInduction, SequenceTheorems, TLAPS

(***************************************************************************)
(* A plain connection.  What is in the buffer and not yet taken is what    *)
(* was received last.                                                      *)
(***************************************************************************)
BufferHoldsTheLast ==
  /\ off \in 0..Len(buffer)
  /\ taken + Len(buffer) = received + off
  /\ Len(buffer) <= received
  /\ \A i \in 1..Len(buffer) : buffer[i] = sent[received - Len(buffer) + i]

SocketInv ==
  /\ sent \in Seq(Byte) /\ buffer \in Seq(Byte)
  /\ received \in 0..Len(sent) /\ taken \in Nat
  /\ BufferHoldsTheLast

\* A part of a sequence, element by element.
LEMMA PartOf ==
  ASSUME NEW S, NEW s \in Seq(S), NEW m \in Nat, NEW n \in Nat, m <= n, n <= Len(s)
  PROVE  /\ SubSeq(s, m + 1, n) \in Seq(S)
         /\ Len(SubSeq(s, m + 1, n)) = n - m
         /\ \A i \in 1..(n - m) : SubSeq(s, m + 1, n)[i] = s[m + i]
<1>1. \A i \in 1..(n - m) : s[m + i] \in S
  OBVIOUS
<1>2. SubSeq(s, m + 1, n) = [i \in 1..(n - m) |-> s[m + i]]
  OBVIOUS
<1> QED
  BY <1>1, <1>2

\* Equal parts of two sequences are the same sequence.
LEMMA SameParts ==
  ASSUME NEW S, NEW s \in Seq(S), NEW t \in Seq(S), NEW k \in Nat, NEW m \in Nat, NEW n \in Nat,
         k + n <= Len(s), m + n <= Len(t),
         \A i \in 1..n : s[k + i] = t[m + i]
  PROVE  SubSeq(s, k + 1, k + n) = SubSeq(t, m + 1, m + n)
<1>1. SubSeq(s, k + 1, k + n) = [i \in 1..n |-> s[k + i]]
  OBVIOUS
<1>2. SubSeq(t, m + 1, m + n) = [i \in 1..n |-> t[m + i]]
  OBVIOUS
<1> QED
  BY <1>1, <1>2

\* The invariant holds at the start.
LEMMA SocketStarts == SocketInit => SocketInv
<1> SUFFICES ASSUME SocketInit PROVE SocketInv
  OBVIOUS
<1>1. buffer = << >> /\ off = 0 /\ received = 0 /\ taken = 0 /\ sent \in Seq(Byte)
  BY DEF SocketInit, ByteInit
<1>2. Len(buffer) = 0 /\ 1..Len(buffer) = {} /\ buffer \in Seq(Byte)
  BY <1>1
<1>3. BufferHoldsTheLast
  <2>1. off \in 0..Len(buffer) /\ taken + Len(buffer) = received + off /\ Len(buffer) <= received
    <3>1. off = 0 /\ received = 0 /\ taken = 0 /\ Len(buffer) = 0
      BY <1>1, <1>2
    <3> QED
      BY <3>1
  <2>2. \A i \in 1..Len(buffer) : buffer[i] = sent[received - Len(buffer) + i]
    BY <1>2
  <2> QED
    BY <2>1, <2>2 DEF BufferHoldsTheLast
<1>4. Len(sent) \in Nat
  BY <1>1
<1> QED
  BY <1>1, <1>2, <1>3, <1>4 DEF SocketInv

\* Each branch of read() returns the next bytes, and keeps the invariant.
LEMMA FromBufferReads ==
  ASSUME SocketInv, NEW size \in Sizes, FromBuffer(size)
  PROVE  SocketInv' /\ ByteRead(size)
<1> DEFINE n == Least(size, Len(buffer) - off)
<1>1. /\ sent \in Seq(Byte) /\ buffer \in Seq(Byte) /\ size \in Nat /\ size > 0
      /\ received \in Nat /\ received <= Len(sent) /\ taken \in Nat /\ off \in Nat
      /\ Len(buffer) \in Nat /\ Len(sent) \in Nat /\ off < Len(buffer) /\ Len(buffer) <= received
      /\ taken + Len(buffer) = received + off
  BY SizesAssumption DEF SocketInv, BufferHoldsTheLast, FromBuffer
<1>2. n \in 1..size /\ off + n <= Len(buffer) /\ taken + n <= Len(sent) /\ n \in Nat
  <2>1. CASE size < Len(buffer) - off
    BY <1>1, <2>1 DEF Least
  <2>2. CASE ~(size < Len(buffer) - off)
    BY <1>1, <2>2 DEF Least
  <2> QED
    BY <2>1, <2>2
<1> HIDE DEF n
<1>3. \A i \in 1..n : buffer[off + i] = sent[taken + i]
  <2> SUFFICES ASSUME NEW i \in 1..n PROVE buffer[off + i] = sent[taken + i]
    OBVIOUS
  <2>1. off + i \in 1..Len(buffer)
    BY <1>1, <1>2
  <2>2. buffer[off + i] = sent[received - Len(buffer) + (off + i)]
    BY <2>1 DEF SocketInv, BufferHoldsTheLast
  <2>3. received - Len(buffer) + (off + i) = taken + i
    <3>1. /\ received \in Nat /\ Len(buffer) \in Nat /\ off \in Nat /\ taken \in Nat /\ i \in Nat
          /\ taken + Len(buffer) = received + off
      BY <1>1, <1>2
    <3> QED
      BY <3>1
  <2> QED
    BY <2>2, <2>3
<1>4. SubSeq(buffer, off + 1, off + n) = SubSeq(sent, taken + 1, taken + n)
  <2>1. /\ buffer \in Seq(Byte) /\ sent \in Seq(Byte) /\ off \in Nat /\ taken \in Nat /\ n \in Nat
        /\ off + n <= Len(buffer) /\ taken + n <= Len(sent)
    BY <1>1, <1>2
  <2>2. SubSeq(buffer, off + 1, off + n) = [i \in 1..n |-> buffer[off + i]]
    BY <2>1
  <2>3. SubSeq(sent, taken + 1, taken + n) = [i \in 1..n |-> sent[taken + i]]
    BY <2>1
  <2> QED
    BY <2>2, <2>3, <1>3
<1>5. Len(SubSeq(sent, taken + 1, taken + n)) = n
  BY <1>1, <1>2
<1>6. Return(SubSeq(sent, taken + 1, taken + n)) /\ taken' = taken + n
  BY <1>4, <1>5 DEF FromBuffer, Return, n
<1>7. ByteRead(size)
  BY <1>2, <1>6 DEF ByteRead
<1>8. off' = off + n /\ UNCHANGED << received, buffer, sent >>
  BY DEF FromBuffer, OffAfter, Return, n
<1>9. SocketInv'
  <2>1. off' \in 0..Len(buffer') /\ taken' + Len(buffer') = received' + off'
    <3>1. off' = off + n /\ taken' = taken + n /\ received' = received /\ Len(buffer') = Len(buffer)
      BY <1>6, <1>8
    <3>2. off + n \in 0..Len(buffer) /\ (taken + n) + Len(buffer) = received + (off + n)
      BY <1>1, <1>2
    <3> QED
      BY ONLY <3>1, <3>2
  <2>2. \A i \in 1..Len(buffer') : buffer'[i] = sent'[received' - Len(buffer') + i]
    BY <1>8 DEF SocketInv, BufferHoldsTheLast
  <2>3. BufferHoldsTheLast'
    BY <1>1, <1>8, <2>1, <2>2 DEF BufferHoldsTheLast
  <2>4. taken' \in Nat
    BY <1>1, <1>2, <1>6
  <2> QED
    BY <1>1, <1>8, <2>3, <2>4 DEF SocketInv
<1> QED
  BY <1>7, <1>9

LEMMA NotReadableReads ==
  ASSUME SocketInv, NEW size \in Sizes, NotReadable
  PROVE  SocketInv' /\ ByteRead(size)
<1>1. ReturnError /\ UNCHANGED << received, buffer, off >>
  BY DEF NotReadable
<1>2. UNCHANGED << sent, taken, received, buffer, off >>
  BY <1>1 DEF ReturnError
<1>3. SocketInv'
  BY <1>2 DEF SocketInv, BufferHoldsTheLast
<1> QED
  BY <1>1, <1>3 DEF ByteRead

\* A buffer that is emptied holds the last bytes again.
LEMMA EmptyBuffer ==
  SocketInv /\ buffer' = << >> /\ off' = 0 /\ sent' = sent /\ taken' = received' /\ received' \in 0..Len(sent)
    => SocketInv'
<1>1. ASSUME SocketInv, buffer' = << >>, off' = 0, sent' = sent, taken' = received', received' \in 0..Len(sent)
      PROVE  SocketInv'
  <2>1. sent \in Seq(Byte) /\ Len(sent) \in Nat
    BY <1>1 DEF SocketInv
  <2>2. buffer' \in Seq(Byte) /\ Len(buffer') = 0 /\ 1..Len(buffer') = {}
    BY <1>1
  <2>3. taken' = received' /\ received' \in Nat /\ off' = 0 /\ Len(buffer') = 0
    BY <1>1, <2>1, <2>2
  <2>4. off' \in 0..Len(buffer') /\ taken' + Len(buffer') = received' + off' /\ Len(buffer') <= received'
    BY <2>3
  <2>5. \A i \in 1..Len(buffer') : buffer'[i] = sent'[received' - Len(buffer') + i]
    BY <2>2
  <2>6. BufferHoldsTheLast'
    BY <2>4, <2>5 DEF BufferHoldsTheLast
  <2>7. sent' = sent
    BY <1>1
  <2> QED
    BY <1>1, <2>1, <2>2, <2>3, <2>6, <2>7 DEF SocketInv
<1> QED
  BY <1>1

LEMMA ReceiveReads ==
  ASSUME SocketInv, NEW size \in Sizes, Receive(size)
  PROVE  SocketInv' /\ ByteRead(size)
<1>1. /\ sent \in Seq(Byte) /\ size \in Nat /\ size > 0 /\ Len(sent) \in Nat
      /\ received \in Nat /\ received <= Len(sent) /\ taken = received
  BY SizesAssumption DEF SocketInv, BufferHoldsTheLast, Receive
<1>2. CASE received = Len(sent) /\ ReturnEnd /\ buffer' = << >> /\ off' = 0 /\ UNCHANGED received
  <2>1. UNCHANGED << sent, taken >>
    BY <1>2 DEF ReturnEnd
  <2> QED
    BY <1>1, <1>2, <2>1, EmptyBuffer DEF ByteRead
<1>3. CASE ReturnError /\ buffer' = << >> /\ off' = 0 /\ UNCHANGED received
  <2>1. UNCHANGED << sent, taken >>
    BY <1>3 DEF ReturnError
  <2> QED
    BY <1>1, <1>3, <2>1, EmptyBuffer DEF ByteRead
<1>4. ASSUME NEW n \in 1..(IF size < BuffSize THEN BuffSize ELSE size),
             received + n <= Len(sent), received' = received + n,
             IF n <= size
               THEN Return(SubSeq(sent, received + 1, received + n)) /\ buffer' = << >> /\ off' = 0
               ELSE /\ Return(SubSeq(SubSeq(sent, received + 1, received + n), 1, size))
                    /\ buffer' = SubSeq(sent, received + 1, received + n) /\ off' = size
      PROVE  SocketInv' /\ ByteRead(size)
  <2> DEFINE bytes == SubSeq(sent, received + 1, received + n)
  <2>1. n \in Nat /\ n > 0
    BY <1>1, BuffSizeAssumption
  <2>2. /\ bytes \in Seq(Byte) /\ Len(bytes) = n
        /\ \A i \in 1..n : bytes[i] = sent[received + i]
    <3>1. received + n \in Nat /\ received <= received + n /\ (received + n) - received = n
      BY <1>1, <2>1
    <3> QED
      BY <1>1, <1>4, <3>1, PartOf
  <2>3. CASE n <= size
    <3>1. Return(bytes) /\ buffer' = << >> /\ off' = 0
      BY <1>4, <2>3
    <3>2. taken' = taken + n /\ sent' = sent
      BY <3>1, <2>2 DEF Return
    <3>3. ByteRead(size)
      <4>1. n \in 1..size /\ taken + n <= Len(sent) /\ taken = received
        BY <1>1, <1>4, <2>1, <2>3
      <4>2. Return(SubSeq(sent, taken + 1, taken + n))
        BY <3>1, <4>1
      <4> QED
        BY <4>1, <4>2 DEF ByteRead
    <3>4. taken' = received' /\ received' \in 0..Len(sent)
      BY <1>1, <1>4, <2>1, <3>2
    <3> QED
      BY <3>1, <3>2, <3>3, <3>4, EmptyBuffer
  <2>4. CASE n > size
    <3> HIDE DEF bytes
    <3>1. Return(SubSeq(bytes, 1, size)) /\ buffer' = bytes /\ off' = size
      BY <1>1, <1>4, <2>1, <2>4 DEF bytes
    <3>2. SubSeq(bytes, 0 + 1, 0 + size) = SubSeq(sent, received + 1, received + size)
      BY <1>1, <1>4, <2>1, <2>2, <2>4, SameParts
    <3>3. SubSeq(bytes, 1, size) = SubSeq(sent, taken + 1, taken + size)
      BY <1>1, <3>2
    <3>4. Len(SubSeq(bytes, 1, size)) = size
      BY <1>1, <2>2, <2>4
    <3>5. taken' = taken + size /\ sent' = sent
      BY <3>1, <3>4 DEF Return
    <3>6. ByteRead(size)
      <4>1. size \in 1..size /\ taken + size <= Len(sent)
        BY <1>1, <1>4, <2>1, <2>4
      <4>2. Return(SubSeq(sent, taken + 1, taken + size))
        BY <3>1, <3>3
      <4> QED
        BY <4>1, <4>2 DEF ByteRead
    <3>7. BufferHoldsTheLast'
      <4>1. Len(buffer') = n /\ received' = received + n
        BY <1>4, <2>2, <3>1
      <4>2. received' - Len(buffer') = received /\ Len(buffer') <= received'
        BY <1>1, <2>1, <4>1
      <4>3. \A i \in 1..Len(buffer') : buffer'[i] = sent'[received' - Len(buffer') + i]
        BY <2>2, <3>1, <3>5, <4>2, <4>1
      <4>4. off' \in 0..Len(buffer') /\ taken' + Len(buffer') = received' + off' /\ Len(buffer') <= received'
        BY <1>1, <2>1, <2>4, <3>1, <3>5, <4>2, <4>1
      <4> QED
        BY <4>3, <4>4 DEF BufferHoldsTheLast
    <3>8. SocketInv'
      BY <1>1, <1>4, <2>1, <2>2, <3>1, <3>5, <3>7 DEF SocketInv
    <3> QED
      BY <3>6, <3>8
  <2> QED
    BY <1>1, <2>1, <2>3, <2>4
<1> QED
  BY <1>2, <1>3, <1>4 DEF Receive

LEMMA SocketSteps == SocketInv /\ [SocketNext]_socketVars => SocketInv' /\ [ByteNext]_byteVars
<1> SUFFICES ASSUME SocketInv, [SocketNext]_socketVars PROVE SocketInv' /\ [ByteNext]_byteVars
  OBVIOUS
<1>1. ASSUME NEW size \in Sizes, FromBuffer(size) PROVE SocketInv' /\ [ByteNext]_byteVars
  BY <1>1, FromBufferReads DEF ByteNext
<1>2. ASSUME NEW size \in Sizes, NotReadable PROVE SocketInv' /\ [ByteNext]_byteVars
  BY <1>2, NotReadableReads DEF ByteNext
<1>3. ASSUME NEW size \in Sizes, Receive(size) PROVE SocketInv' /\ [ByteNext]_byteVars
  BY <1>3, ReceiveReads DEF ByteNext
<1>4. CASE UNCHANGED socketVars
  BY <1>4 DEF socketVars, byteVars, SocketInv, BufferHoldsTheLast
<1> QED
  BY <1>1, <1>2, <1>3, <1>4 DEF SocketNext

\* A plain connection is a Stream: through whatever buffer, read() returns the bytes the server
\* sent, each once and in order.
THEOREM SocketImplementsByteStream == SocketSpec => ByteSpec
<1>1. SocketInit => ByteInit
  BY DEF SocketInit
<1> QED
  BY <1>1, SocketStarts, SocketSteps, PTL DEF SocketSpec, ByteSpec

(***************************************************************************)
(* A connection over OpenSSL.  What is taken has been decrypted.           *)
(***************************************************************************)
SslInv ==
  /\ sent \in Seq(Byte) /\ taken \in Nat /\ opened \in Nat
  /\ taken <= opened /\ opened <= Len(sent)
  /\ asked \in Sizes \cup {0}

\* SSL_read() gives the next bytes.
LEMMA SslGivesReads ==
  ASSUME SslInv, NEW size \in Sizes, SslGives(size)
  PROVE  /\ sent' \in Seq(Byte) /\ taken' \in Nat /\ opened' \in Nat
         /\ taken' <= opened' /\ opened' <= Len(sent')
         /\ ByteRead(size)
<1>1. /\ sent \in Seq(Byte) /\ taken \in Nat /\ opened \in Nat /\ Len(sent) \in Nat
      /\ taken <= opened /\ opened <= Len(sent) /\ size \in Nat /\ size > 0
  BY SizesAssumption DEF SslInv
<1>2. ASSUME NEW n \in Nat, n > 0, n <= size, taken + n <= Len(sent),
             Return(SubSeq(sent, taken + 1, taken + n))
      PROVE  taken' = taken + n /\ sent' = sent /\ ByteRead(size)
  <2>1. Len(SubSeq(sent, taken + 1, taken + n)) = n
    BY <1>1, <1>2
  <2> QED
    BY <1>1, <1>2, <2>1 DEF Return, ByteRead
<1>3. CASE Pending > 0
  <2>1. /\ Fewer(size, Pending) \in Nat /\ Fewer(size, Pending) > 0 /\ Fewer(size, Pending) <= size
        /\ taken + Fewer(size, Pending) <= opened
    BY <1>1, <1>3 DEF Pending, Fewer
  <2>2. Return(SubSeq(sent, taken + 1, taken + Fewer(size, Pending))) /\ opened' = opened
    BY <1>3 DEF SslGives
  <2>3. taken + Fewer(size, Pending) <= Len(sent)
    BY <1>1, <2>1
  <2>4. taken' = taken + Fewer(size, Pending) /\ sent' = sent /\ ByteRead(size)
    BY <1>2, <2>1, <2>2, <2>3
  <2> QED
    BY <1>1, <2>1, <2>2, <2>4
<1>4. CASE ~(Pending > 0)
  <2>1. taken = opened
    BY <1>1, <1>4 DEF Pending
  <2>2. PICK n \in 1..MaxRecord :
          /\ opened + n <= Len(sent) /\ opened' = opened + n
          /\ Return(SubSeq(sent, taken + 1, taken + Fewer(size, n)))
    BY <1>4 DEF SslGives
  <2>3. n \in Nat /\ n > 0
    BY <2>2, SslAssumption
  <2>4. Fewer(size, n) \in Nat /\ Fewer(size, n) > 0 /\ Fewer(size, n) <= size /\ Fewer(size, n) <= n
    BY <1>1, <2>3 DEF Fewer
  <2>5. taken + Fewer(size, n) <= opened + n /\ taken + Fewer(size, n) <= Len(sent)
    BY <1>1, <2>1, <2>2, <2>3, <2>4
  <2>6. taken' = taken + Fewer(size, n) /\ sent' = sent /\ ByteRead(size)
    BY <1>2, <2>2, <2>4, <2>5
  <2> QED
    BY <1>1, <2>2, <2>3, <2>4, <2>5, <2>6
<1> QED
  BY <1>3, <1>4

\* The ends a read() has besides.
LEMMA SslStopsReads ==
  ASSUME SslInv, NEW size \in Sizes, SslEnds \/ SslFails
  PROVE  UNCHANGED << sent, taken, opened >> /\ ByteRead(size)
<1>1. CASE SslEnds
  BY <1>1 DEF SslEnds, ReturnEnd, ByteRead
<1>2. CASE SslFails
  BY <1>2 DEF SslFails, ReturnError, ByteRead
<1> QED
  BY <1>1, <1>2

LEMMA SslSteps == SslInv /\ [SslNext]_sslVars => SslInv' /\ [ByteNext]_byteVars
<1> SUFFICES ASSUME SslInv, [SslNext]_sslVars PROVE SslInv' /\ [ByteNext]_byteVars
  OBVIOUS
<1>1. ASSUME NEW size \in Sizes, SslGives(size) \/ SslEnds \/ SslFails, asked' \in Sizes \cup {0}
      PROVE  SslInv' /\ [ByteNext]_byteVars
  <2>1. CASE SslGives(size)
    BY <1>1, <2>1, SslGivesReads DEF SslInv, ByteNext
  <2>2. CASE SslEnds \/ SslFails
    <3>1. UNCHANGED << sent, taken, opened >> /\ ByteRead(size)
      BY <2>2, SslStopsReads
    <3> QED
      BY <1>1, <3>1 DEF SslInv, ByteNext
  <2> QED
    BY <1>1, <2>1, <2>2
<1>2. ASSUME UNCHANGED << byteVars, opened >>, asked' \in Sizes \cup {0}
      PROVE  SslInv' /\ [ByteNext]_byteVars
  BY <1>2 DEF byteVars, SslInv
<1>3. ASSUME NEW size \in Sizes, SslRead(size)
      PROVE  SslInv' /\ [ByteNext]_byteVars
  <2>1. CASE (SslGives(size) \/ SslEnds \/ SslFails) /\ UNCHANGED asked
    BY <1>1, <2>1 DEF SslInv
  <2>2. CASE asked' = size /\ UNCHANGED << byteVars, opened >>
    BY <1>2, <2>2
  <2> QED
    BY <1>3, <2>1, <2>2 DEF SslRead
<1>4. CASE SslRetry
  <2>1. asked \in Sizes /\ asked' \in {asked, 0}
    BY <1>4 DEF SslRetry, SslInv
  <2>2. asked' \in Sizes \cup {0}
    BY <2>1
  <2>3. (SslGives(asked) \/ SslEnds \/ SslFails) \/ UNCHANGED << byteVars, opened >>
    BY <1>4 DEF SslRetry
  <2> QED
    BY <1>1, <1>2, <2>1, <2>2, <2>3
<1>5. CASE UNCHANGED sslVars
  BY <1>5, <1>2 DEF sslVars, SslInv
<1> QED
  BY <1>3, <1>4, <1>5 DEF SslNext

\* A connection over OpenSSL is a Stream: however the bytes come in records, read() returns them
\* each once and in order.
THEOREM SslImplementsByteStream == SslSpec => ByteSpec
<1>1. SslInit => SslInv /\ ByteInit
  <2> SUFFICES ASSUME SslInit PROVE SslInv /\ ByteInit
    OBVIOUS
  <2>1. sent \in Seq(Byte) /\ taken = 0 /\ opened = 0 /\ asked = 0 /\ ByteInit
    BY DEF SslInit, ByteInit
  <2>2. Len(sent) \in Nat
    BY <2>1
  <2> QED
    BY <2>1, <2>2 DEF SslInv
<1> QED
  BY <1>1, SslSteps, PTL DEF SslSpec, ByteSpec

--------------------------------------------------------------------------------
(***************************************************************************)
(* Sequences, for what is read from a connection: induction, sequences put *)
(* one behind the other, and what stays from an element on.                *)
(***************************************************************************)
LEMMA LeastOf == ASSUME NEW T, T \subseteq Nat, T # {} PROVE \E m \in T : \A k \in T : m <= k
<1>1. IsWellFoundedOn(OpToRel(<, Nat), Nat)
  BY NatLessThanWellFounded
<1>2. PICK m \in T : \A k \in T : ~(<< k, m >> \in OpToRel(<, Nat))
  BY <1>1, WFMin
<1>3. \A k \in T : ~(k < m)
  BY <1>2, Zenon DEF OpToRel
<1> QED
  BY <1>3

\* A set of numbers with 0 and the successor of each is all numbers.
LEMMA Induction ==
  ASSUME NEW P, P \subseteq Nat, 0 \in P, \A n \in P : n + 1 \in P PROVE P = Nat
<1> SUFFICES ASSUME P # Nat PROVE FALSE
  OBVIOUS
<1>1. PICK m \in Nat \ P : \A k \in Nat \ P : m <= k
  BY LeastOf
<1>2. m # 0 /\ m - 1 \in Nat /\ m - 1 \in P
  BY <1>1
<1> QED
  BY <1>1, <1>2

From(s, k) == SubSeq(s, k + 1, Len(s))

LEMMA FromIs ==
  ASSUME NEW S, NEW s \in Seq(S), NEW k \in 0..Len(s)
  PROVE  /\ From(s, k) \in Seq(S) /\ Len(From(s, k)) = Len(s) - k
         /\ \A i \in 1..(Len(s) - k) : From(s, k)[i] = s[k + i]
<1>1. k \in Nat /\ Len(s) \in Nat /\ k <= Len(s)
  OBVIOUS
<1> QED
  BY <1>1, PartOf DEF From

LEMMA FromStart == ASSUME NEW S, NEW s \in Seq(S) PROVE From(s, 0) = s
  BY FromIs, SeqEqual

\* Element by element.
LEMMA FromEqual ==
  ASSUME NEW S, NEW s \in Seq(S), NEW k \in 0..Len(s), NEW t \in Seq(S), Len(t) = Len(s) - k,
         \A i \in 1..Len(t) : t[i] = s[k + i]
  PROVE  From(s, k) = t
<1>1. PICK u : u = From(s, k)
  OBVIOUS
<1>2. u \in Seq(S) /\ Len(u) = Len(s) - k /\ \A i \in 1..(Len(s) - k) : u[i] = s[k + i]
  BY <1>1, FromIs
<1>3. Len(u) = Len(t) /\ \A i \in 1..Len(u) : u[i] = t[i]
  BY <1>2
<1>4. u = t
  BY <1>2, <1>3, SeqEqual
<1> QED
  BY <1>1, <1>4

\* What stays of what stays.
LEMMA FromFrom ==
  ASSUME NEW S, NEW s \in Seq(S), NEW k \in 0..Len(s), NEW n \in 0..(Len(s) - k)
  PROVE  From(From(s, k), n) = From(s, k + n)
<1>1. PICK u : u = From(s, k)
  OBVIOUS
<1>2. u \in Seq(S) /\ Len(u) = Len(s) - k /\ \A i \in 1..(Len(s) - k) : u[i] = s[k + i]
  BY <1>1, FromIs
<1>3. PICK m : m = k + n
  OBVIOUS
<1>4. PICK t : t = From(s, m)
  OBVIOUS
<1>5. m \in 0..Len(s)
  BY <1>3
<1>6. t \in Seq(S) /\ Len(t) = Len(s) - m /\ \A i \in 1..(Len(s) - m) : t[i] = s[m + i]
  BY <1>4, <1>5, FromIs
<1>7. n \in 0..Len(u) /\ Len(t) = Len(u) - n
  BY <1>2, <1>3, <1>6
<1>8. \A i \in 1..Len(t) : t[i] = u[n + i]
  BY <1>2, <1>3, <1>6
<1>9. From(u, n) = t
  BY <1>2, <1>6, <1>7, <1>8, FromEqual
<1> QED
  BY <1>1, <1>3, <1>4, <1>9

NextFlat(seqs, g, i) == IF i = 1 THEN seqs[i] ELSE g[i - 1] \o seqs[i]
FlatUpTo(seqs, m, g) == g = [i \in 1..m |-> NextFlat(seqs, g, i)]

\* The sums FlattenSeq() goes through: they exist, the last one is its result, and each is
\* the one before it and the next sequence.
LEMMA FlatUpToExists ==
  ASSUME NEW seqs, NEW m \in Nat PROVE \E g : FlatUpTo(seqs, m, g)
<1> DEFINE P == {k \in Nat : \E g : FlatUpTo(seqs, k, g)}
<1>1. 0 \in P
  <2> DEFINE g == [i \in 1..0 |-> seqs[i]]
  <2>1. FlatUpTo(seqs, 0, g)
    BY DEF FlatUpTo
  <2> QED
    BY <2>1
<1>2. ASSUME NEW k \in P PROVE k + 1 \in P
  <2>1. PICK g : FlatUpTo(seqs, k, g)
    OBVIOUS
  <2> DEFINE h == [i \in 1..(k + 1) |-> NextFlat(seqs, g, i)]
  <2> k \in Nat
    OBVIOUS
  <2>2. \A i \in 1..k : g[i] = NextFlat(seqs, g, i)
    BY <2>1 DEF FlatUpTo
  <2>3. \A i \in 1..k : h[i] = g[i]
    BY <2>2
  <2> HIDE DEF h
  <2>4. \A i \in 1..(k + 1) : NextFlat(seqs, g, i) = NextFlat(seqs, h, i)
    BY <2>3 DEF NextFlat
  <2>5. FlatUpTo(seqs, k + 1, h)
    BY <2>4 DEF FlatUpTo, h
  <2> QED
    BY <2>5
<1>3. P = Nat
  BY <1>1, <1>2, Induction
<1> QED
  BY <1>3

LEMMA FlatIsLast ==
  ASSUME NEW seqs, Len(seqs) \in Nat, Len(seqs) # 0
  PROVE \E g : FlatUpTo(seqs, Len(seqs), g) /\ FlattenSeq(seqs) = g[Len(seqs)]
<1> DEFINE g == CHOOSE g : FlatUpTo(seqs, Len(seqs), g)
<1>1. FlattenSeq(seqs) = g[Len(seqs)]
  BY DEF FlattenSeq, FlatUpTo, NextFlat
<1>2. \E f : FlatUpTo(seqs, Len(seqs), f)
  BY FlatUpToExists
<1>3. FlatUpTo(seqs, Len(seqs), g)
  BY <1>2, Zenon
<1> QED
  BY <1>1, <1>3

LEMMA FlatUpToIs ==
  ASSUME NEW S, NEW s \in Seq(Seq(S)), NEW m \in Nat, m <= Len(s), NEW g, FlatUpTo(s, m, g)
  PROVE  \A i \in 1..m : g[i] \in Seq(S) /\ g[i] = NextFlat(s, g, i)
<1>1. \A i \in 1..m : g[i] = NextFlat(s, g, i)
  BY DEF FlatUpTo
<1>2. \A i \in 1..m : s[i] \in Seq(S)
  OBVIOUS
<1> DEFINE P == {k \in Nat : \A i \in 1..m : i <= k => g[i] \in Seq(S)}
<1>3. 0 \in P
  OBVIOUS
<1>4. ASSUME NEW k \in P PROVE k + 1 \in P
  <2>1. k \in Nat /\ \A i \in 1..m : i <= k => g[i] \in Seq(S)
    OBVIOUS
  <2>2. ASSUME NEW i \in 1..m, i <= k + 1 PROVE g[i] \in Seq(S)
    <3>1. CASE i = 1
      BY <1>1, <1>2, <3>1 DEF NextFlat
    <3>2. CASE i # 1
      <4>1. i - 1 \in 1..m /\ i - 1 <= k
        BY <2>1, <2>2, <3>2
      <4>2. g[i - 1] \in Seq(S) /\ s[i] \in Seq(S)
        BY <1>2, <2>1, <4>1
      <4>3. g[i] = g[i - 1] \o s[i]
        BY <1>1, <3>2 DEF NextFlat
      <4> QED
        BY <4>2, <4>3
    <3> QED
      BY <3>1, <3>2
  <2> QED
    BY <2>1, <2>2
<1>5. P = Nat
  BY <1>3, <1>4, Induction
<1>6. m \in P
  BY <1>5
<1>7. \A i \in 1..m : i <= m => g[i] \in Seq(S)
  BY <1>6
<1> QED
  BY <1>1, <1>7

Associates(x, y, z) == (x \o y) \o z = x \o (y \o z)

LEMMA ConcatAssociates == ASSUME NEW S PROVE \A x, y, z \in Seq(S) : Associates(x, y, z)
  BY ConcatAssociative DEF Associates

InStep(s, m, g, h) == \A i \in 1..m : g[i + 1] = s[1] \o h[i]

\* Where two sums of sequences run in step, one is the first sequence and the other.
LEMMA FlatInStep ==
  ASSUME NEW S, NEW s \in Seq(Seq(S)), NEW m \in Nat, m < Len(s), NEW g, FlatUpTo(s, m + 1, g),
         NEW t \in Seq(Seq(S)), m <= Len(t), NEW h, FlatUpTo(t, m, h),
         \A i \in 1..m : t[i] = s[i + 1]
  PROVE  InStep(s, m, g, h)
<1>1. \A i \in 1..(m + 1) : g[i] \in Seq(S) /\ g[i] = NextFlat(s, g, i)
  <2>1. m + 1 \in Nat /\ m + 1 <= Len(s)
    OBVIOUS
  <2> QED
    BY <2>1, FlatUpToIs
<1>2. \A i \in 1..m : h[i] \in Seq(S) /\ h[i] = NextFlat(t, h, i)
  BY FlatUpToIs
<1> DEFINE P == {k \in Nat : \A i \in 1..m : i <= k => g[i + 1] = s[1] \o h[i]}
<1>3. 0 \in P
  <2>1. \A i \in 1..m : ~(i <= 0)
    OBVIOUS
  <2> QED
    BY <2>1, Zenon
<1>4. ASSUME NEW k \in P PROVE k + 1 \in P
  <2>1. k \in Nat /\ \A i \in 1..m : i <= k => g[i + 1] = s[1] \o h[i]
    OBVIOUS
  <2>2. ASSUME NEW i \in 1..m, i <= k + 1 PROVE g[i + 1] = s[1] \o h[i]
    <3>0. i + 1 \in 1..(m + 1) /\ i + 1 # 1 /\ (i + 1) - 1 = i
      OBVIOUS
    <3>1. g[i + 1] = g[i] \o s[i + 1]
      BY <1>1, <3>0 DEF NextFlat
    <3>2. CASE i = 1
      <4>1. g[1] = s[1]
        BY <1>1 DEF NextFlat
      <4>2. h[1] = s[2]
        BY <1>2, <3>2 DEF NextFlat
      <4> QED
        BY <3>1, <3>2, <4>1, <4>2
    <3>3. CASE i # 1
      <4>1. i - 1 \in 1..m /\ i - 1 <= k /\ (i - 1) + 1 = i
        BY <2>1, <2>2, <3>3
      <4>2. g[i] = s[1] \o h[i - 1]
        BY <2>1, <4>1
      <4>3. h[i] = h[i - 1] \o t[i] /\ t[i] = s[i + 1]
        BY <1>2, <3>3 DEF NextFlat
      <4>4. s[1] \in Seq(S) /\ h[i - 1] \in Seq(S) /\ t[i] \in Seq(S)
        <5>1. h[i - 1] \in Seq(S)
          BY <1>2, <4>1
        <5>2. 1 \in 1..Len(s) /\ i \in 1..Len(t)
          OBVIOUS
        <5>3. s[1] \in Seq(S) /\ t[i] \in Seq(S)
          BY <5>2
        <5> QED
          BY <5>1, <5>3
      <4>5. Associates(s[1], h[i - 1], t[i])
        BY <4>4, ConcatAssociates, Zenon
      <4> QED
        BY <3>1, <4>2, <4>3, <4>5 DEF Associates
    <3> QED
      BY <3>2, <3>3
  <2>3. k + 1 \in Nat
    BY <2>1
  <2> QED
    BY <2>2, <2>3, Zenon
<1>5. P = Nat
  BY <1>3, <1>4, Induction
<1>6. m \in P
  BY <1>5
<1>7. \A i \in 1..m : i <= m => g[i + 1] = s[1] \o h[i]
  BY <1>6, Zenon
<1>8. \A i \in 1..m : i <= m
  OBVIOUS
<1> QED
  BY <1>7, <1>8, Zenon DEF InStep

\* All of them is the first, and all the others behind it.
LEMMA FlattenFirst ==
  ASSUME NEW S, NEW s \in Seq(Seq(S)), s # << >>
  PROVE  /\ FlattenSeq(s) = s[1] \o FlattenSeq(From(s, 1))
         /\ FlattenSeq(s) \in Seq(S) /\ FlattenSeq(From(s, 1)) \in Seq(S) /\ s[1] \in Seq(S)
<1>1. PICK m \in Nat : Len(s) = m + 1
  <2>1. Len(s) - 1 \in Nat /\ Len(s) = (Len(s) - 1) + 1
    OBVIOUS
  <2> QED
    BY <2>1
<1>2. PICK t : t = From(s, 1)
  OBVIOUS
<1>3. t \in Seq(Seq(S)) /\ Len(t) = m /\ \A i \in 1..m : t[i] = s[i + 1]
  <2>1. 1 \in 0..Len(s) /\ Len(s) - 1 = m
    BY <1>1
  <2>2. t \in Seq(Seq(S)) /\ Len(t) = Len(s) - 1 /\ \A i \in 1..(Len(s) - 1) : t[i] = s[1 + i]
    BY <1>2, <2>1, FromIs
  <2>3. \A i \in 1..m : 1 + i = i + 1
    OBVIOUS
  <2> QED
    BY <2>1, <2>2, <2>3, Zenon
<1>4. PICK g : FlatUpTo(s, m + 1, g) /\ FlattenSeq(s) = g[m + 1]
  BY <1>1, FlatIsLast
<1>5. \A i \in 1..(m + 1) : g[i] \in Seq(S) /\ g[i] = NextFlat(s, g, i)
  <2>1. m + 1 \in Nat /\ m + 1 <= Len(s)
    BY <1>1
  <2> QED
    BY <1>4, <2>1, FlatUpToIs
<1>6. s[1] \in Seq(S) /\ g[m + 1] \in Seq(S)
  BY <1>1, <1>5
<1>7. CASE m = 0
  <2>1. FlattenSeq(t) = << >>
    BY <1>3, <1>7 DEF FlattenSeq
  <2>2. FlattenSeq(s) = s[1]
    BY <1>4, <1>5, <1>7 DEF NextFlat
  <2>3. s[1] \o << >> = s[1]
    BY <1>6, ConcatEmptySeq
  <2>4. << >> \in Seq(S)
    OBVIOUS
  <2> QED
    BY <1>2, <1>6, <2>1, <2>2, <2>3, <2>4, Zenon
<1>8. CASE m # 0
  <2>1. PICK h : FlatUpTo(t, m, h) /\ FlattenSeq(t) = h[m]
    BY <1>3, <1>8, FlatIsLast
  <2>2. m <= Len(t) /\ m < Len(s) /\ m \in 1..m
    BY <1>1, <1>3, <1>8
  <2>3. \A i \in 1..m : h[i] \in Seq(S)
    BY <1>3, <2>1, <2>2, FlatUpToIs, Zenon
  <2>4. InStep(s, m, g, h)
    <3>1. s \in Seq(Seq(S)) /\ m \in Nat /\ m < Len(s) /\ FlatUpTo(s, m + 1, g)
      BY <1>4, <2>2
    <3>2. t \in Seq(Seq(S)) /\ m <= Len(t) /\ FlatUpTo(t, m, h) /\ \A i \in 1..m : t[i] = s[i + 1]
      BY <1>3, <2>1, <2>2
    <3> QED
      BY <3>1, <3>2, FlatInStep, Zenon
  <2>5. FlattenSeq(s) = s[1] \o FlattenSeq(t) /\ FlattenSeq(t) \in Seq(S)
    BY <1>4, <2>1, <2>2, <2>3, <2>4 DEF InStep
  <2> QED
    BY <1>2, <1>4, <1>6, <2>5, Zenon
<1> QED
  BY <1>7, <1>8

\* The first of those that are left, and the others.
LEMMA FlattenFrom ==
  ASSUME NEW S, NEW s \in Seq(Seq(S)), NEW k \in 0..Len(s)
  PROVE  /\ FlattenSeq(From(s, k)) \in Seq(S)
         /\ k = Len(s) => FlattenSeq(From(s, k)) = << >>
         /\ k # Len(s) => /\ s[k + 1] \in Seq(S)
                          /\ FlattenSeq(From(s, k)) = s[k + 1] \o FlattenSeq(From(s, k + 1))
<1>1. /\ From(s, k) \in Seq(Seq(S)) /\ Len(From(s, k)) = Len(s) - k
      /\ \A i \in 1..(Len(s) - k) : From(s, k)[i] = s[k + i]
  BY FromIs
<1>2. CASE k = Len(s)
  <2>1. From(s, k) = << >>
    BY <1>1, <1>2
  <2>2. FlattenSeq(<< >>) = << >>
    BY DEF FlattenSeq
  <2>3. << >> \in Seq(S)
    OBVIOUS
  <2> QED
    BY <1>2, <2>1, <2>2, <2>3, Zenon
<1>3. CASE k # Len(s)
  <2>1. Len(From(s, k)) # 0 /\ From(s, k)[1] = s[k + 1] /\ 1 \in 0..(Len(s) - k)
    BY <1>1, <1>3
  <2>2. From(From(s, k), 1) = From(s, k + 1)
    BY <2>1, FromFrom
  <2>3. PICK t \in Seq(Seq(S)) : t = From(s, k)
    BY <1>1
  <2>4. t # << >> /\ t[1] = s[k + 1] /\ From(t, 1) = From(s, k + 1)
    BY <2>1, <2>2, <2>3
  <2> HIDE <2>1, <2>2
  <2>5. /\ FlattenSeq(t) = t[1] \o FlattenSeq(From(t, 1))
        /\ FlattenSeq(t) \in Seq(S) /\ t[1] \in Seq(S)
    BY <2>4, FlattenFirst
  <2> QED
    BY <1>3, <2>3, <2>4, <2>5
<1> QED
  BY <1>2, <1>3

--------------------------------------------------------------------------------
(***************************************************************************)
(* How the reader reads lines: what has come of a line is what was taken   *)
(* last, and has no LF in it.                                              *)
(***************************************************************************)
NoLF(line) == \A i \in 1..Len(line) : line[i] # LF
WithLF(line) == Append(line, LF)

\* The first line of r, without its LF, is x, and y comes after it.
Splits(r, x, y) == x \in Seq(Byte) /\ y \in Seq(Byte) /\ NoLF(x) /\ r = x \o (<< LF >> \o y)

InLine(bytes, n, line) ==
  /\ n \in 0..Len(bytes) /\ line \in Seq(Byte) /\ Len(line) <= n /\ NoLF(line)
  /\ \A i \in 1..Len(line) : line[i] = bytes[n - Len(line) + i]

\* The connection as far as it has come, and the line; after the line comes data or nothing.
LineInv ==
  /\ message \in Answers /\ sent \in Seq(Byte)
  /\ \E n \in 0..Len(Bytes(message)) : sent = SubSeq(Bytes(message), 1, n)
  /\ taken <= Len(sent) /\ InLine(Bytes(message), taken, Line)
  /\ fixed \in Seq(Byte) /\ grown \in Seq(Byte) /\ Len(fixed) <= FixedSize - 1
  /\ grown # << >> => Len(fixed) = FixedSize - 1
  /\ reading \in LinePhases \/ reading \in DataPhases \cup {"done", "failed"}
  /\ reading \notin LinePhases => fixed = << >> /\ grown = << >>
  /\ headers \in Seq(HeaderTexts) /\ left \in Nat

\* What the server means to send from the beginning of the line on.
Rest == From(Bytes(message), taken - Len(Line))
Torn == sent # Bytes(message) /\ taken = Len(sent) /\ Line = << >>

LEMMA SymbolsAreBytes ==
  /\ CR \in Byte /\ LF \in Byte /\ CR # LF /\ CRLF \in Seq(Byte)
  /\ CRLF = << CR, LF >> /\ CRLF = WithLF(<< CR >>) /\ NoLF(<< CR >>)
  BY AnswersAssumption DEF CR, LF, CRLF, WithLF, NoLF

LEMMA LineStarts ==
  ASSUME NEW b \in Seq(Byte), NEW n \in 0..Len(b) PROVE InLine(b, n, << >>)
  BY DEF InLine, NoLF

\* A byte that is no LF is one more of the line.
LEMMA LineGrows ==
  ASSUME NEW b \in Seq(Byte), NEW n, NEW l, InLine(b, n, l), n + 1 <= Len(b), b[n + 1] # LF
  PROVE  InLine(b, n + 1, Append(l, b[n + 1]))
<1>1. /\ n \in Nat /\ l \in Seq(Byte) /\ Len(l) <= n /\ NoLF(l)
      /\ \A i \in 1..Len(l) : l[i] = b[n - Len(l) + i]
  BY DEF InLine
<1>2. n + 1 \in 1..Len(b) /\ n + 1 \in 0..Len(b)
  BY <1>1
<1>3. PICK c \in Byte : c = b[n + 1]
  BY <1>2
<1>4. PICK m : m = Append(l, c)
  OBVIOUS
<1>5. /\ m \in Seq(Byte) /\ Len(m) = Len(l) + 1 /\ m[Len(l) + 1] = c
      /\ \A i \in 1..Len(l) : m[i] = l[i]
  BY <1>1, <1>4, AppendProperties
<1>6. Len(m) <= n + 1
  BY <1>1, <1>5
<1>7. ASSUME NEW i \in 1..Len(m) PROVE m[i] # LF /\ m[i] = b[(n + 1) - Len(m) + i]
  <2>1. CASE i = Len(l) + 1
    BY <1>1, <1>3, <1>5, <2>1
  <2>2. CASE i # Len(l) + 1
    <3>1. i \in 1..Len(l) /\ (n + 1) - Len(m) + i = n - Len(l) + i
      BY <1>1, <1>5, <2>2
    <3> QED
      BY <1>1, <1>5, <3>1 DEF NoLF
  <2> QED
    BY <2>1, <2>2
<1>8. InLine(b, n + 1, m)
  BY <1>2, <1>5, <1>6, <1>7 DEF InLine, NoLF
<1> QED
  BY <1>3, <1>4, <1>8

\* From the beginning of the line on comes the line, and then what is not yet taken.
LEMMA LineFirst ==
  ASSUME NEW b \in Seq(Byte), NEW n, NEW l, InLine(b, n, l), NEW r, r = From(b, n - Len(l))
  PROVE  /\ r \in Seq(Byte) /\ Len(r) = Len(b) - n + Len(l)
         /\ \A i \in 1..Len(l) : r[i] = l[i]
         /\ \A i \in 1..(Len(b) - n) : r[Len(l) + i] = b[n + i]
<1>1. /\ n \in Nat /\ n <= Len(b) /\ Len(b) \in Nat /\ Len(l) \in Nat /\ Len(l) <= n
      /\ \A i \in 1..Len(l) : l[i] = b[n - Len(l) + i]
  BY DEF InLine
<1>2. PICK k : k = n - Len(l)
  OBVIOUS
<1>3. k \in 0..Len(b) /\ Len(b) - k = Len(b) - n + Len(l)
  BY <1>1, <1>2
<1>4. /\ r \in Seq(Byte) /\ Len(r) = Len(b) - k
      /\ \A i \in 1..(Len(b) - k) : r[i] = b[k + i]
  BY <1>2, <1>3, FromIs
<1>5. \A i \in 1..Len(l) : r[i] = l[i]
  BY <1>1, <1>2, <1>3, <1>4
<1>6. \A i \in 1..(Len(b) - n) : r[Len(l) + i] = b[n + i]
  BY <1>1, <1>2, <1>3, <1>4
<1> QED
  BY <1>3, <1>4, <1>5, <1>6

\* If the next byte is LF, the line is the first of what is left.
LEMMA LineEnds ==
  ASSUME NEW b \in Seq(Byte), NEW n, NEW l, InLine(b, n, l),
         NEW x, NEW y, Splits(From(b, n - Len(l)), x, y)
  PROVE  /\ n < Len(b) /\ Len(l) <= Len(x) /\ \A i \in 1..Len(l) : l[i] = x[i]
         /\ b[n + 1] = LF => l = x /\ From(b, n + 1) = y
<1>0. /\ n \in Nat /\ n <= Len(b) /\ Len(b) \in Nat /\ l \in Seq(Byte) /\ NoLF(l)
  BY DEF InLine
<1> x \in Seq(Byte) /\ y \in Seq(Byte) /\ NoLF(x) /\ From(b, n - Len(l)) = x \o (<< LF >> \o y)
  BY DEF Splits
<1>1. PICK r : r = From(b, n - Len(l))
  OBVIOUS
<1>2. /\ Len(r) = Len(b) - n + Len(l)
      /\ \A i \in 1..Len(l) : r[i] = l[i]
      /\ \A i \in 1..(Len(b) - n) : r[Len(l) + i] = b[n + i]
  BY <1>1, LineFirst
<1>3. PICK z : z = << LF >> \o y
  OBVIOUS
<1>4. z \in Seq(Byte) /\ Len(z) = 1 + Len(y) /\ z[1] = LF /\ \A i \in 1..Len(y) : z[1 + i] = y[i]
  <2>1. << LF >> \in Seq(Byte)
    BY SymbolsAreBytes
  <2> QED
    BY <1>3, <2>1
<1>5. r = x \o z
  BY <1>1, <1>3
<1>6. /\ Len(r) = Len(x) + Len(z) /\ \A i \in 1..Len(x) : r[i] = x[i]
      /\ \A i \in 1..Len(z) : r[Len(x) + i] = z[i]
  BY <1>5
<1>7. Len(r) = Len(x) + 1 + Len(y) /\ r[Len(x) + 1] = LF /\ \A i \in 1..Len(y) : r[Len(x) + 1 + i] = y[i]
  <2>1. 1 \in 1..Len(z) /\ \A i \in 1..Len(y) : 1 + i \in 1..Len(z)
    BY <1>4
  <2>2. \A i \in 1..Len(y) : Len(x) + (1 + i) = Len(x) + 1 + i
    OBVIOUS
  <2>3. r[Len(x) + 1] = LF
    BY <1>4, <1>6, <2>1
  <2>4. \A i \in 1..Len(y) : r[Len(x) + (1 + i)] = y[i]
    BY <1>4, <1>6, <2>1, Zenon
  <2>5. Len(r) = Len(x) + 1 + Len(y)
    BY <1>4, <1>6
  <2> QED
    BY <2>2, <2>3, <2>4, <2>5
<1>8. Len(l) <= Len(x)
  <2> SUFFICES ASSUME Len(l) > Len(x) PROVE FALSE
    BY <1>0
  <2>1. Len(x) + 1 \in 1..Len(l)
    BY <1>0
  <2> QED
    BY <1>0, <1>2, <1>7, <2>1 DEF NoLF
<1>9. n < Len(b) /\ \A i \in 1..Len(l) : l[i] = x[i]
  <2>1. \A i \in 1..Len(l) : i \in 1..Len(x)
    BY <1>0, <1>8
  <2>2. \A i \in 1..Len(l) : l[i] = x[i]
    BY <1>2, <1>6, <2>1, Zenon
  <2>3. n < Len(b)
    BY <1>0, <1>2, <1>7, <1>8
  <2> QED
    BY <2>2, <2>3
<1>10. ASSUME b[n + 1] = LF PROVE l = x /\ From(b, n + 1) = y
  <2>1. r[Len(l) + 1] = LF
    <3>1. 1 \in 1..(Len(b) - n)
      BY <1>0, <1>9
    <3> QED
      BY <1>2, <1>10, <3>1
  <2>2. Len(l) = Len(x)
    <3> SUFFICES ASSUME Len(l) < Len(x) PROVE FALSE
      BY <1>0, <1>8
    <3>1. Len(l) + 1 \in 1..Len(x)
      BY <1>0
    <3> QED
      BY <1>6, <2>1, <3>1 DEF NoLF
  <2>3. l = x
    BY <1>0, <1>9, <2>2, SeqEqual
  <2>4. n + 1 \in 0..Len(b) /\ Len(y) = Len(b) - (n + 1)
    BY <1>0, <1>2, <1>7, <1>9, <2>2
  <2>5. \A i \in 1..Len(y) : y[i] = b[(n + 1) + i]
    <3> SUFFICES ASSUME NEW i \in 1..Len(y) PROVE y[i] = b[(n + 1) + i]
      OBVIOUS
    <3>1. y[i] = r[Len(x) + 1 + i]
      BY <1>7
    <3>2. 1 + i \in 1..(Len(b) - n) /\ Len(l) + (1 + i) = Len(x) + 1 + i /\ n + (1 + i) = (n + 1) + i
      BY <1>0, <1>9, <2>2, <2>4
    <3> QED
      BY <1>2, <3>1, <3>2
  <2>6. PICK k : k = n + 1
    OBVIOUS
  <2>7. k \in 0..Len(b) /\ Len(y) = Len(b) - k /\ \A i \in 1..Len(y) : y[i] = b[k + i]
    BY <2>4, <2>5, <2>6
  <2>8. From(b, k) = y
    BY <2>7, FromEqual
  <2> QED
    BY <2>3, <2>6, <2>8
<1> QED
  BY <1>8, <1>9, <1>10

\* The buffers of the line reader hold the line, and one byte more of it.
LEMMA BuffersHold ==
  ASSUME LineInv, NEW c \in Byte
  PROVE  /\ LineWith(c) = Append(Line, c)
         /\ FixedBy(c) \in Seq(Byte) /\ GrownBy(c) \in Seq(Byte) /\ Len(FixedBy(c)) <= FixedSize - 1
         /\ GrownBy(c) # << >> => Len(FixedBy(c)) = FixedSize - 1
<1>1. /\ fixed \in Seq(Byte) /\ grown \in Seq(Byte) /\ Len(fixed) <= FixedSize - 1
      /\ grown # << >> => Len(fixed) = FixedSize - 1
  BY DEF LineInv
<1>2. FixedSize \in Nat /\ 1 < FixedSize
  BY ReaderSizesAssumption
<1>3. CASE Len(fixed) < FixedSize - 1
  <2>1. GrownBy(c) = << >> /\ FixedBy(c) = Append(fixed, c) /\ Line = fixed
    BY <1>1, <1>3 DEF GrownBy, FixedBy, Line
  <2>2. Append(fixed, c) \in Seq(Byte) /\ Len(Append(fixed, c)) = Len(fixed) + 1 /\ << >> \in Seq(Byte)
    BY <1>1
  <2>3. Len(Append(fixed, c)) <= FixedSize - 1
    BY <1>1, <1>2, <1>3, <2>2
  <2> QED
    BY <2>1, <2>2, <2>3 DEF LineWith
<1>4. CASE ~(Len(fixed) < FixedSize - 1)
  <2>1. Len(fixed) = FixedSize - 1
    BY <1>1, <1>2, <1>4
  <2>2. GrownBy(c) = Append(Line, c) /\ FixedBy(c) = fixed
    BY <1>4 DEF GrownBy, FixedBy, Line
  <2>3. Line \in Seq(Byte)
    BY <1>1 DEF Line
  <2>4. PICK l, m : l = Line /\ m = Append(Line, c)
    OBVIOUS
  <2>5. m \in Seq(Byte) /\ m # << >>
    BY <2>3, <2>4
  <2>6. GrownBy(c) = m /\ FixedBy(c) = fixed
    BY <2>2, <2>4
  <2>7. LineWith(c) = m
    BY <2>5, <2>6 DEF LineWith
  <2> QED
    BY <1>1, <2>1, <2>4, <2>5, <2>6, <2>7
<1> QED
  BY <1>3, <1>4

\* What is found in the headers is one of them.
LEMMA ValueIs ==
  ASSUME Len(headers) \in Nat, NEW kind
  PROVE  /\ Has(kind) <=> \E i \in 1..Len(headers) : headers[i] \in kind
         /\ Has(kind) => Value(kind) \in kind /\ \E i \in 1..Len(headers) : Value(kind) = headers[i]
<1> DEFINE I == {i \in 1..Len(headers) : headers[i] \in kind}
           n == IF I # {} THEN Min(I) ELSE 0
<1>1. FirstIn(kind) = n
  BY DEF FirstIn, SelectInSeq
<1>2. CASE I = {}
  <2>1. n = 0
    BY <1>2
  <2> HIDE DEF n
  <2>2. ~Has(kind)
    BY <1>1, <2>1 DEF Has
  <2>3. ~\E i \in 1..Len(headers) : headers[i] \in kind
    BY <1>2, Zenon
  <2> QED
    BY <2>2, <2>3
<1>3. CASE I # {}
  <2>1. I \subseteq Nat
    OBVIOUS
  <2>2. PICK m \in I : \A k \in I : m <= k
    BY <1>3, <2>1, LeastOf
  <2>3. Min(I) \in I
    BY <2>2, Zenon DEF Min
  <2>4. n \in I
    BY <1>3, <2>3, Zenon
  <2>5. n \in 1..Len(headers) /\ headers[n] \in kind
    BY <2>4, Zenon
  <2> HIDE DEF n, I
  <2>6. n # 0
    BY <2>5
  <2> QED
    BY <1>1, <2>5, <2>6 DEF Has, Value
<1> QED
  BY <1>2, <1>3, Zenon

LEMMA LengthsAreNat == \A h \in DOMAIN LengthOf : LengthOf[h] \in Nat
  BY SymbolsAssumption DEF LengthOf

\* Whatever a line says, it leaves headers, length and phase what they are.
LEMMA TakeLineTypes ==
  ASSUME headers \in Seq(HeaderTexts), left \in Nat, NEW line, TakeLine(line)
  PROVE  /\ headers' \in Seq(HeaderTexts) /\ left' \in Nat
         /\ reading' \in LinePhases \/ reading' \in DataPhases \cup {"done", "failed"}
<1> USE DEF LinePhases, DataPhases
<1>1. CASE reading = "statusLine" /\ TakeStatusLine(line)
  BY <1>1 DEF TakeStatusLine, Becomes
<1>2. CASE reading = "continueEnd" /\ Becomes("statusLine")
  BY <1>2 DEF Becomes
<1>3. CASE reading = "headers" /\ TakeHeader(line)
  <2>1. CASE UNCHANGED << reading, headers, left >>
    BY <1>3, <2>1
  <2>2. CASE StartBody(BodyPhase) /\ UNCHANGED headers
    <3>1. BodyPhase \in {"done", "failed", "chunkSize", "length", "untilEnd"}
      BY DEF BodyPhase
    <3>2. BodyPhase = "length" => LengthOf[Value(DOMAIN LengthOf)] \in Nat
      <4>1. BodyPhase = "length" => Has(DOMAIN LengthOf)
        BY DEF BodyPhase
      <4>2. Len(headers) \in Nat
        OBVIOUS
      <4> QED
        BY <4>1, <4>2, ValueIs, LengthsAreNat, Zenon
    <3> QED
      BY <2>2, <3>1, <3>2 DEF StartBody
  <2>3. CASE reading' = "failed" /\ UNCHANGED << headers, left >>
    BY <2>3
  <2>4. CASE /\ headers' = IF line[1] \in HeaderTexts THEN Append(headers, line[1]) ELSE headers
             /\ UNCHANGED << reading, left >>
    BY <1>3, <2>4
  <2> QED
    BY <1>3, <2>1, <2>2, <2>3, <2>4 DEF TakeHeader
<1>4. CASE reading = "chunkSize" /\ TakeChunkSize(line)
  <2>1. \A size \in DOMAIN ChunkLength : ChunkLength[size] \in Nat
    BY SymbolsAssumption
  <2> QED
    BY <1>4, <2>1 DEF TakeChunkSize
<1>5. CASE reading = "chunkEnd" /\ Becomes(IF line = CRLF THEN "chunkSize" ELSE "done")
  BY <1>5 DEF Becomes
<1>6. CASE reading = "lastEnd" /\ Becomes(IF line = CRLF THEN "done" ELSE "failed")
  BY <1>6 DEF Becomes
<1> QED
  BY <1>1, <1>2, <1>3, <1>4, <1>5, <1>6 DEF TakeLine

\* The bytes of an answer.
LEMMA PrefixOf ==
  ASSUME NEW b \in Seq(Byte), NEW n \in 0..Len(b), NEW s, s = SubSeq(b, 1, n)
  PROVE  s \in Seq(Byte) /\ Len(s) = n /\ (\A i \in 1..n : s[i] = b[i]) /\ (n = Len(b) => s = b)
<1>1. 0 \in Nat /\ n \in Nat /\ 0 <= n /\ n <= Len(b) /\ SubSeq(b, 0 + 1, n) = s
  OBVIOUS
<1>2. s \in Seq(Byte) /\ Len(s) = n - 0 /\ \A i \in 1..(n - 0) : s[i] = b[0 + i]
  BY <1>1, PartOf
<1>3. Len(s) = n /\ \A i \in 1..n : s[i] = b[i]
  BY <1>2
<1>4. n = Len(b) => s = b
  BY <1>2, <1>3, SeqEqual
<1> QED
  BY <1>2, <1>3, <1>4

\* While the server means to send more, its connection has not ended, or it is torn.
LEMMA ReadOne ==
  ASSUME LineInv, Bytes(message) \in Seq(Byte), NEW size, size \in Nat, ByteRead(size)
  PROVE  LET b == Bytes(message) IN
         /\ sent' = sent /\ taken \in Nat
         /\ \/ /\ returned' = "bytes" /\ Len(got') \in 1..size /\ got' \in Seq(Byte)
               /\ taken' = taken + Len(got') /\ taken' <= Len(sent) /\ taken' <= Len(b)
               /\ \A i \in 1..Len(got') : got'[i] = b[taken + i]
            \/ returned' = "end" /\ taken' = taken /\ taken = Len(sent)
               /\ (taken < Len(b) => sent # b)
            \/ returned' = "error" /\ taken' = taken
<1>1. PICK b : b = Bytes(message)
  OBVIOUS
<1>2. PICK n \in 0..Len(b) : sent = SubSeq(b, 1, n)
  BY <1>1 DEF LineInv
<1>3. b \in Seq(Byte) /\ taken \in Nat /\ taken <= Len(sent)
  BY <1>1 DEF LineInv, InLine
<1>4. sent \in Seq(Byte) /\ Len(sent) = n /\ \A i \in 1..n : sent[i] = b[i]
  BY <1>2, <1>3, PrefixOf
<1>5. ASSUME NEW k \in 1..size, taken + k <= Len(sent), Return(SubSeq(sent, taken + 1, taken + k))
      PROVE  /\ sent' = sent /\ returned' = "bytes" /\ Len(got') \in 1..size /\ got' \in Seq(Byte)
             /\ taken' = taken + Len(got') /\ taken' <= Len(sent) /\ taken' <= Len(b)
             /\ \A i \in 1..Len(got') : got'[i] = b[taken + i]
  <2>1. PICK m : m = taken + k
    OBVIOUS
  <2>2. m \in Nat /\ taken <= m /\ m <= Len(sent) /\ k = m - taken /\ k \in Nat
    BY <1>3, <1>5, <2>1
  <2>3. PICK g : g = SubSeq(sent, taken + 1, m)
    OBVIOUS
  <2>4. g \in Seq(Byte) /\ Len(g) = m - taken /\ \A i \in 1..(m - taken) : g[i] = sent[taken + i]
    BY <1>3, <1>4, <2>2, <2>3, PartOf
  <2>5. Return(g)
    BY <1>5, <2>1, <2>3
  <2>6. sent' = sent /\ returned' = "bytes" /\ got' = g /\ taken' = taken + Len(g)
    BY <2>5 DEF Return
  <2>7. \A i \in 1..k : g[i] = b[taken + i]
    <3> SUFFICES ASSUME NEW i \in 1..k PROVE g[i] = b[taken + i]
      OBVIOUS
    <3>1. taken + i \in 1..n /\ g[i] = sent[taken + i]
      BY <1>3, <1>4, <2>2, <2>4
    <3> QED
      BY <1>4, <3>1
  <2>8. Len(g) = k /\ m <= Len(b)
    BY <1>2, <1>4, <2>2, <2>4
  <2> QED
    BY <2>1, <2>2, <2>4, <2>6, <2>7, <2>8
<1>6. CASE taken = Len(sent) /\ ReturnEnd
  BY <1>1, <1>3, <1>6 DEF ReturnEnd
<1>7. CASE ReturnError
  BY <1>1, <1>3, <1>7 DEF ReturnError
<1> QED
  BY <1>1, <1>3, <1>5, <1>6, <1>7 DEF ByteRead

\* What one byte of a line comes to, while the server means to send the line x and then y.
GoesOn == UNCHANGED << reading, status, headers, left, out, refused, message >>
ReadsLine(x, y) == TakeLine(WithLF(x)) /\ Line' = << >> /\ Rest' = y /\ UNCHANGED << message, out, refused >>
ReadsTornLine(x) ==
  /\ Line # << >> /\ Len(Line) <= Len(x) /\ \A i \in 1..Len(Line) : Line[i] = x[i]
  /\ Line \in Seq(Byte) /\ NoLF(Line) /\ sent[Len(sent)] = Line[Len(Line)]
  /\ TakeLine(Line) /\ Torn' /\ sent' = sent /\ UNCHANGED << message, out, refused >>
BreaksOff ==
  /\ Becomes("failed") /\ (returned' = "error" \/ sent' # Bytes(message'))
  /\ UNCHANGED << message, out, refused >>

\* After a line or a piece, a new line begins where the connection stands.
LEMMA LineInvNew ==
  ASSUME LineInv, Bytes(message) \in Seq(Byte), UNCHANGED << message, sent >>,
         taken' \in Nat, taken' <= Len(sent), taken' <= Len(Bytes(message)),
         fixed' = << >>, grown' = << >>,
         reading' \in LinePhases \/ reading' \in DataPhases \cup {"done", "failed"},
         headers' \in Seq(HeaderTexts), left' \in Nat
  PROVE  LineInv' /\ Line' = << >> /\ Rest' = From(Bytes(message), taken')
<1>1. Line' = << >>
  BY DEF Line
<1>2. << >> \in Seq(Byte) /\ Len(<< >>) = 0 /\ FixedSize - 1 >= 0
  BY ReaderSizesAssumption
<1>3. PICK b, n : b = Bytes(message) /\ n = taken'
  OBVIOUS
<1>4. b \in Seq(Byte) /\ n \in 0..Len(b)
  BY <1>3
<1>5. InLine(b, n, << >>)
  BY <1>4, LineStarts
<1>6. InLine(Bytes(message), taken, Line)'
  BY <1>1, <1>3, <1>5
<1>7. (\E k \in 0..Len(Bytes(message)) : sent = SubSeq(Bytes(message), 1, k))'
  BY DEF LineInv
<1>8. LineInv'
  BY <1>2, <1>6, <1>7 DEF LineInv
<1>9. n - Len(<< >>) = n
  BY <1>2, <1>4
<1> QED
  BY <1>1, <1>3, <1>8, <1>9 DEF Rest

\* One byte of a line: the line goes on, is complete, is torn, or none comes.
LEMMA ReadLine ==
  ASSUME LineInv, Bytes(message) \in Seq(Byte), ReadLineByte,
         NEW x, NEW y, Splits(Rest, x, y)
  PROVE  LineInv' /\ ((GoesOn /\ Rest' = Rest) \/ ReadsLine(x, y) \/ ReadsTornLine(x) \/ BreaksOff)
<1>1. PICK b, n, l : b = Bytes(message) /\ n = taken /\ l = Line
  OBVIOUS
<1>2. InLine(b, n, l) /\ b \in Seq(Byte) /\ Splits(From(b, n - Len(l)), x, y)
  BY <1>1 DEF LineInv, Rest
<1>3. /\ n < Len(b) /\ Len(l) <= Len(x) /\ \A i \in 1..Len(l) : l[i] = x[i]
      /\ b[n + 1] = LF => l = x /\ From(b, n + 1) = y
  BY <1>2, LineEnds
<1>4. n \in Nat /\ l \in Seq(Byte) /\ NoLF(l) /\ Len(l) <= n /\ Len(l) \in Nat
      /\ \A i \in 1..Len(l) : l[i] = b[n - Len(l) + i]
  BY <1>2 DEF InLine
<1>5. reading \in LinePhases /\ ByteRead(1) /\ UNCHANGED << message, out, refused >>
  BY DEF ReadLineByte
<1>6. /\ sent' = sent
      /\ \/ /\ returned' = "bytes" /\ Len(got') \in 1..1 /\ got' \in Seq(Byte)
            /\ taken' = n + Len(got') /\ taken' <= Len(sent) /\ taken' <= Len(b)
            /\ \A i \in 1..Len(got') : got'[i] = b[n + i]
         \/ returned' = "end" /\ taken' = n /\ n = Len(sent) /\ sent # b
         \/ returned' = "error" /\ taken' = n
  BY <1>1, <1>3, <1>5, ReadOne
<1>7. n <= Len(sent) /\ headers \in Seq(HeaderTexts) /\ left \in Nat
  BY <1>1 DEF LineInv
<1>8. CASE returned' = "bytes"
  <2>1. PICK g, m : g = got' /\ m = taken'
    OBVIOUS
  <2>2. /\ Len(g) \in 1..1 /\ g \in Seq(Byte) /\ m = n + Len(g) /\ m <= Len(sent) /\ m <= Len(b)
        /\ \A i \in 1..Len(g) : g[i] = b[n + i]
    BY <1>6, <1>8, <2>1, Zenon
  <2>3. Len(g) = 1 /\ g[1] = b[n + 1] /\ g[1] \in Byte /\ g = << g[1] >>
    BY <2>2
  <2>4. m = n + 1 /\ m \in Nat
    BY <1>4, <2>2, <2>3
  <2>5. PICK c : c = g[1]
    OBVIOUS
  <2>6. /\ taken' = n + 1 /\ n + 1 <= Len(sent) /\ n + 1 <= Len(b) /\ n + 1 \in Nat
        /\ c = b[n + 1] /\ c \in Byte /\ got' = << c >>
    BY <2>1, <2>2, <2>3, <2>4, <2>5
  <2> HIDE <2>1, <2>2, <2>3, <2>4, <2>5
  <2>7. CASE c = LF
    <3>1. fixed' = << >> /\ grown' = << >> /\ TakeLine(LineWith(LF))
      BY <1>8, <2>6, <2>7 DEF ReadLineByte
    <3>2. LineWith(LF) = WithLF(x)
      BY <1>1, <1>3, <2>6, <2>7, SymbolsAreBytes, BuffersHold DEF WithLF
    <3>3. /\ headers' \in Seq(HeaderTexts) /\ left' \in Nat
          /\ reading' \in LinePhases \/ reading' \in DataPhases \cup {"done", "failed"}
      BY <1>7, <3>1, TakeLineTypes
    <3>4. taken' \in Nat /\ taken' <= Len(sent) /\ taken' <= Len(Bytes(message))
      BY <1>1, <2>6
    <3>5. LineInv' /\ Line' = << >> /\ Rest' = From(Bytes(message), taken')
      BY <1>5, <1>6, <3>1, <3>3, <3>4, LineInvNew
    <3>6. Rest' = y
      BY <1>1, <1>3, <2>6, <2>7, <3>5
    <3> QED
      BY <1>5, <3>1, <3>2, <3>5, <3>6 DEF ReadsLine
  <2>8. CASE c # LF
    <3>1. fixed' = FixedBy(c) /\ grown' = GrownBy(c) /\ GoesOn
      <4>1. got' # << LF >> /\ got'[1] = c
        BY <2>6, <2>8
      <4> QED
        BY <1>5, <1>8, <4>1 DEF ReadLineByte, GoesOn
    <3>2. /\ LineWith(c) = Append(l, c)
          /\ FixedBy(c) \in Seq(Byte) /\ GrownBy(c) \in Seq(Byte) /\ Len(FixedBy(c)) <= FixedSize - 1
          /\ GrownBy(c) # << >> => Len(FixedBy(c)) = FixedSize - 1
      <4>1. Append(Line, c) = Append(l, c)
        BY <1>1
      <4> QED
        BY <2>6, <4>1, BuffersHold, Zenon
    <3>3. Line' = Append(l, c)
      BY <3>1, <3>2 DEF Line, LineWith
    <3>4. InLine(b, n + 1, Append(l, c))
      BY <1>2, <2>6, <2>8, LineGrows
    <3>5. InLine(Bytes(message), taken, Line)'
      BY <1>1, <1>5, <2>6, <3>3, <3>4
    <3>6. (\E k \in 0..Len(Bytes(message)) : sent = SubSeq(Bytes(message), 1, k))'
      BY <1>5, <1>6 DEF LineInv
    <3>7. LineInv'
      BY <1>5, <1>6, <2>6, <3>1, <3>2, <3>5, <3>6 DEF LineInv, GoesOn
    <3>8. Len(Append(l, c)) = Len(l) + 1
      BY <1>4
    <3>9. (n + 1) - Len(Append(l, c)) = n - Len(l)
      BY <1>4, <3>8
    <3>10. Rest' = Rest
      BY <1>1, <1>5, <2>6, <3>3, <3>9 DEF Rest
    <3> QED
      BY <3>1, <3>7, <3>10
  <2> QED
    BY <2>7, <2>8
<1>9. CASE returned' # "bytes"
  <2>1. fixed' = << >> /\ grown' = << >>
    BY <1>9 DEF ReadLineByte
  <2>2. taken' \in Nat /\ taken' <= Len(sent) /\ taken' <= Len(Bytes(message)) /\ taken' = n
    BY <1>1, <1>3, <1>4, <1>6, <1>7, <1>9
  <2>3. CASE returned' = "end" /\ Line # << >>
    <3>1. TakeLine(Line)
      BY <2>3 DEF ReadLineByte
    <3>2. /\ headers' \in Seq(HeaderTexts) /\ left' \in Nat
          /\ reading' \in LinePhases \/ reading' \in DataPhases \cup {"done", "failed"}
      BY <1>7, <3>1, TakeLineTypes
    <3>3. LineInv' /\ Line' = << >>
      BY <1>5, <1>6, <2>1, <2>2, <3>2, LineInvNew
    <3>4. Torn'
      BY <1>1, <1>5, <1>6, <2>2, <2>3, <3>3 DEF Torn
    <3>5. sent[Len(sent)] = l[Len(l)]
      <4>1. Len(l) \in 1..Len(l) /\ n - Len(l) + Len(l) = n /\ n \in 1..Len(sent) /\ n = Len(sent)
        BY <1>1, <1>4, <1>6, <2>3
      <4>2. PICK k \in 0..Len(b) : sent = SubSeq(b, 1, k)
        BY <1>1 DEF LineInv
      <4>3. Len(sent) = k /\ \A i \in 1..k : sent[i] = b[i]
        BY <1>2, <4>2, PrefixOf
      <4>4. sent[n] = b[n]
        BY <4>1, <4>3
      <4>5. l[Len(l)] = b[n]
        BY <1>4, <4>1
      <4> QED
        BY <4>1, <4>4, <4>5
    <3> QED
      BY <1>1, <1>3, <1>4, <1>5, <1>6, <2>3, <3>1, <3>3, <3>4, <3>5 DEF ReadsTornLine
  <2>4. CASE ~(returned' = "end" /\ Line # << >>)
    <3>1. Becomes("failed")
      BY <1>9, <2>4 DEF ReadLineByte
    <3>2. LineInv'
      BY <1>5, <1>6, <1>7, <2>1, <2>2, <3>1, LineInvNew DEF Becomes
    <3>3. returned' = "error" \/ sent' # Bytes(message')
      BY <1>1, <1>5, <1>6, <1>9
    <3> QED
      BY <1>5, <3>1, <3>2, <3>3 DEF BreaksOff
  <2> QED
    BY <2>3, <2>4
<1> QED
  BY <1>8, <1>9

--------------------------------------------------------------------------------
(***************************************************************************)
(* What is left of an answer, from a header or a chunk on, and its first   *)
(* line.                                                                   *)
(***************************************************************************)
HeaderLines(a) == [i \in 1..Len(a.headers) |-> HeaderLine(a, a.headers[i])]
ChunkLines(a) == [i \in 1..Len(a.chunks) |-> EncodedChunk(a, a.chunks[i])]
HeadersFrom(a, k) == FlattenSeq(From(HeaderLines(a), k)) \o (CRLF \o EncodedBody(a))
LastChunk(a) == SizeLine(0) \o (a.trailer \o CRLF)
ChunksFrom(a, k) == FlattenSeq(From(ChunkLines(a), k)) \o LastChunk(a)
BodyFrom(a, k) == FlattenSeq(From(a.chunks, k))
AnswerOf(a) == StatusLine(a.status) \o HeadersFrom(a, 0)

\* How a header that is read shows among the headers.
Seen(h) == IF h \in {"long", "tooLong"} THEN "other" ELSE h

Size(n) == CHOOSE size \in DOMAIN ChunkLength : ChunkLength[size] = n

LEMMA AnswerTypes ==
  ASSUME NEW a \in Answers
  PROVE  /\ a.continues \in BOOLEAN /\ a.status \in Statuses \ {"100"} /\ a.lineEnd \in Seq(Byte)
         /\ a.headers \in Seq(HeaderTexts \cup {"long", "tooLong"})
         /\ a.body \in Seq(Byte) /\ a.chunks \in Seq(Seq(Byte))
         /\ a.after \in Seq(Byte) /\ a.trailer \in Seq(Byte)
         /\ \A i \in 1..Len(a.chunks) : a.chunks[i] \in Seq(Byte) /\ Len(a.chunks[i]) > 0
<1>1. a \in [continues : BOOLEAN, status : Statuses \ {"100"}, headers : Seq(HeaderTexts \cup {"long", "tooLong"}),
             lineEnd : Seq(Byte), body : Seq(Byte), chunks : Seq(Seq(Byte)), after : Seq(Byte), trailer : Seq(Byte)]
  BY AnswersAssumption
<1>2. \A i \in DOMAIN a.chunks : Len(a.chunks[i]) > 0
  BY AnswersAssumption
<1>3. a.chunks \in Seq(Seq(Byte))
  BY <1>1
<1>4. DOMAIN a.chunks = 1..Len(a.chunks) /\ \A i \in 1..Len(a.chunks) : a.chunks[i] \in Seq(Byte)
  BY <1>3
<1> QED
  BY <1>1, <1>2, <1>4

LEMMA TextsAreBytes ==
  /\ \A s \in Statuses : s \in Byte /\ s # LF
  /\ \A h \in HeaderTexts : h \in Byte /\ h # LF /\ h # CR /\ h # "long" /\ h # "tooLong"
  /\ "other" \in HeaderTexts
<1>1. Statuses \subseteq Byte /\ HeaderTexts \subseteq Byte
  BY AnswersAssumption
<1>2. \A s \in Statuses : s # LF
  BY DEF Statuses, LF
<1>3. \A h \in DOMAIN ContentLengths : h # LF /\ h # CR /\ h # "long" /\ h # "tooLong"
  BY SymbolsAssumption
<1>4. \A h \in HeaderTexts : h \in DOMAIN ContentLengths \cup {"lengthText", "gzip", "other"} \cup TransferEncodings
  BY DEF HeaderTexts, LengthOf
<1>5. \A h \in {"lengthText", "gzip", "other"} \cup TransferEncodings : h # LF /\ h # CR /\ h # "long" /\ h # "tooLong"
  BY DEF TransferEncodings, LF, CR
<1>6. "other" \in HeaderTexts
  BY DEF HeaderTexts
<1> QED
  BY <1>1, <1>2, <1>3, <1>4, <1>5, <1>6

\* The text of a size, and its line.
LEMMA SizeIs ==
  ASSUME NEW n, \E size \in DOMAIN ChunkLength : ChunkLength[size] = n
  PROVE  /\ Size(n) \in DOMAIN ChunkLength /\ ChunkLength[Size(n)] = n
         /\ Size(n) \in Byte /\ Size(n) # LF /\ Size(n) # CR
         /\ SizeLine(n) = << Size(n) >> \o CRLF
<1>1. Size(n) \in DOMAIN ChunkLength /\ ChunkLength[Size(n)] = n
  BY Zenon DEF Size
<1>2. DOMAIN ChunkLength \subseteq Byte
  BY AnswersAssumption
<1>3. \A size \in DOMAIN ChunkLength : size # LF /\ size # CR
  BY SymbolsAssumption
<1>4. SizeLine(n) = << Size(n) >> \o CRLF
  BY Zenon DEF SizeLine, Size
<1> QED
  BY <1>1, <1>2, <1>3, <1>4

LEMMA SizesAre ==
  /\ \E size \in DOMAIN ChunkLength : ChunkLength[size] = 0
  /\ \A a \in Answers : \A i \in 1..Len(a.chunks) :
       \E size \in DOMAIN ChunkLength : ChunkLength[size] = Len(a.chunks[i])
<1>1. \A a \in Answers : \A i \in DOMAIN a.chunks :
        \E size \in DOMAIN ChunkLength : ChunkLength[size] = Len(a.chunks[i])
  BY AnswersAssumption
<1>2. \A a \in Answers : DOMAIN a.chunks = 1..Len(a.chunks)
  BY AnswerTypes
<1> QED
  BY <1>1, <1>2, SymbolsAssumption

\* A line that ends in CRLF.
LEMMA TextSplits ==
  ASSUME NEW t \in Seq(Byte), NoLF(t), NEW z \in Seq(Byte)
  PROVE  /\ t \o CRLF \in Seq(Byte) /\ (t \o CRLF) \o z \in Seq(Byte)
         /\ Splits((t \o CRLF) \o z, Append(t, CR), z)
         /\ WithLF(Append(t, CR)) = t \o CRLF
<1>1. CR \in Byte /\ LF \in Byte /\ CR # LF /\ CRLF = << CR, LF >>
  BY SymbolsAreBytes
<1>2. PICK c, l \in Byte : c = CR /\ l = LF
  BY <1>1
<1>3. PICK x : x = Append(t, c)
  OBVIOUS
<1>4. x \in Seq(Byte) /\ Len(x) = Len(t) + 1 /\ x[Len(t) + 1] = c /\ \A i \in 1..Len(t) : x[i] = t[i]
  BY <1>3, AppendProperties
<1>5. NoLF(x)
  <2> SUFFICES ASSUME NEW i \in 1..Len(x) PROVE x[i] # LF
    BY DEF NoLF
  <2>1. CASE i = Len(t) + 1
    BY <1>1, <1>2, <1>4, <2>1
  <2>2. CASE i # Len(t) + 1
    BY <1>4, <2>2 DEF NoLF
  <2> QED
    BY <2>1, <2>2
<1>6. PICK u : u = t \o << c, l >>
  OBVIOUS
<1>7. u \in Seq(Byte) /\ u = Append(x, l) /\ u = x \o << l >>
  BY <1>3, <1>6
<1>8. (x \o << l >>) \o z = x \o (<< l >> \o z)
  BY <1>4
<1>9. u \o z \in Seq(Byte) /\ Splits(u \o z, x, z)
  BY <1>2, <1>4, <1>5, <1>7, <1>8 DEF Splits
<1>10. t \o CRLF = u
  BY <1>1, <1>2, <1>6
<1> QED
  BY <1>2, <1>3, <1>7, <1>9, <1>10 DEF WithLF

LEMMA HeaderTextIs ==
  ASSUME NEW h \in HeaderTexts \cup {"long", "tooLong"}
  PROVE  /\ HeaderText(h) \in Seq(Byte) /\ NoLF(HeaderText(h))
         /\ Len(HeaderText(h)) > 0 /\ HeaderText(h)[1] = Seen(h)
         /\ h # "tooLong" => Len(HeaderText(h)) <= FixedSize - 1
<1>1. FixedSize \in Nat /\ MaxHeader \in Nat /\ 1 < FixedSize /\ FixedSize < MaxHeader
  BY ReaderSizesAssumption
<1>2. "other" \in Byte /\ "other" # LF
  BY TextsAreBytes
<1>3. CASE h = "long"
  <2>1. HeaderText(h) = [i \in 1..FixedSize - 1 |-> "other"]
    BY <1>3 DEF HeaderText
  <2>2. FixedSize - 1 \in Nat /\ FixedSize - 1 > 0
    BY <1>1
  <2>3. HeaderText(h) \in Seq(Byte) /\ Len(HeaderText(h)) = FixedSize - 1
    BY <1>2, <2>1, <2>2
  <2> QED
    BY <1>2, <1>3, <2>1, <2>2, <2>3 DEF NoLF, Seen
<1>4. CASE h = "tooLong"
  <2>1. HeaderText(h) = [i \in 1..MaxHeader |-> "other"]
    BY <1>4 DEF HeaderText
  <2>2. HeaderText(h) \in Seq(Byte) /\ Len(HeaderText(h)) = MaxHeader
    BY <1>1, <1>2, <2>1
  <2> QED
    BY <1>1, <1>2, <1>4, <2>1, <2>2 DEF NoLF, Seen
<1>5. CASE h \in HeaderTexts
  <2>1. h \in Byte /\ h # LF /\ h # "long" /\ h # "tooLong"
    BY <1>5, TextsAreBytes
  <2>2. HeaderText(h) = << h >>
    BY <2>1 DEF HeaderText
  <2> QED
    BY <1>1, <2>1, <2>2 DEF NoLF, Seen
<1> QED
  BY <1>3, <1>4, <1>5

Joins(x, y) == x \o y \in Seq(Byte)

LEMMA JoinsAndAssociates ==
  /\ \A x, y \in Seq(Byte) : Joins(x, y)
  /\ \A x, y, z \in Seq(Byte) : Associates(x, y, z)
  BY ConcatAssociates DEF Joins

\* The lines of headers and chunks are sequences of bytes, one for each.
LEMMA LinesAre ==
  ASSUME NEW a \in Answers
  PROVE  /\ HeaderLines(a) \in Seq(Seq(Byte)) /\ Len(HeaderLines(a)) = Len(a.headers)
         /\ \A i \in 1..Len(a.headers) : HeaderLines(a)[i] = HeaderLine(a, a.headers[i])
         /\ ChunkLines(a) \in Seq(Seq(Byte)) /\ Len(ChunkLines(a)) = Len(a.chunks)
         /\ \A i \in 1..Len(a.chunks) : ChunkLines(a)[i] = EncodedChunk(a, a.chunks[i])
<1>1. PICK m, n : m = Len(a.headers) /\ n = Len(a.chunks)
  OBVIOUS
<1>2. m \in Nat /\ n \in Nat
  BY <1>1, AnswerTypes
<1>3. ASSUME NEW i \in 1..m PROVE HeaderLine(a, a.headers[i]) \in Seq(Byte)
  <2>1. a.headers[i] \in HeaderTexts \cup {"long", "tooLong"}
    BY <1>1, AnswerTypes
  <2>2. HeaderText(a.headers[i]) \in Seq(Byte) /\ a.lineEnd \in Seq(Byte)
    BY <2>1, HeaderTextIs, AnswerTypes
  <2> QED
    BY <2>2, JoinsAndAssociates DEF HeaderLine, Joins
<1>4. ASSUME NEW i \in 1..n PROVE EncodedChunk(a, a.chunks[i]) \in Seq(Byte)
  <2>1. a.chunks[i] \in Seq(Byte) /\ a.after \in Seq(Byte)
    BY <1>1, AnswerTypes
  <2>2. PICK c : c = a.chunks[i]
    OBVIOUS
  <2>3. SizeLine(Len(c)) = << Size(Len(c)) >> \o CRLF /\ Size(Len(c)) \in Byte
    BY <1>1, <2>2, SizesAre, SizeIs
  <2>4. SizeLine(Len(c)) \in Seq(Byte)
    BY <2>3, SymbolsAreBytes
  <2>5. Joins(SizeLine(Len(c)), c) /\ c \in Seq(Byte)
    BY <2>1, <2>2, <2>4, JoinsAndAssociates
  <2>6. Joins(SizeLine(Len(c)) \o c, a.after)
    BY <2>1, <2>5, JoinsAndAssociates DEF Joins
  <2> QED
    BY <2>2, <2>6 DEF EncodedChunk, Joins
<1>5. HeaderLines(a) = [i \in 1..m |-> HeaderLine(a, a.headers[i])]
  BY <1>1 DEF HeaderLines
<1>6. ChunkLines(a) = [i \in 1..n |-> EncodedChunk(a, a.chunks[i])]
  BY <1>1 DEF ChunkLines
<1>7. HeaderLines(a) \in Seq(Seq(Byte)) /\ Len(HeaderLines(a)) = m
  BY <1>2, <1>3, <1>5
<1>8. ChunkLines(a) \in Seq(Seq(Byte)) /\ Len(ChunkLines(a)) = n
  BY <1>2, <1>4, <1>6
<1> QED
  BY <1>1, <1>5, <1>6, <1>7, <1>8

LEMMA Pair == ASSUME NEW S, NEW x \in S, NEW y \in S PROVE Append(<< x >>, y) = << x, y >>
<1>1. PICK s, t : s = Append(<< x >>, y) /\ t = << x, y >>
  OBVIOUS
<1>2. << x >> \in Seq(S) /\ Len(<< x >>) = 1
  OBVIOUS
<1>3. s \in Seq(S) /\ Len(s) = 2 /\ s[1] = x /\ s[2] = y
  BY <1>1, <1>2
<1>4. t \in Seq(S) /\ Len(t) = 2 /\ t[1] = x /\ t[2] = y
  BY <1>1
<1>5. \A i \in 1..Len(s) : s[i] = t[i]
  BY <1>3, <1>4
<1> QED
  BY <1>1, <1>3, <1>4, <1>5, SeqEqual

\* The end of a body in chunks begins with the line of size 0.
LEMMA LastChunkIs ==
  ASSUME NEW a \in Answers
  PROVE  /\ LastChunk(a) \in Seq(Byte) /\ a.trailer \o CRLF \in Seq(Byte)
         /\ \E size \in DOMAIN ChunkLength :
              ChunkLength[size] = 0 /\ Splits(LastChunk(a), << size, CR >>, a.trailer \o CRLF)
         /\ LastChunk(a)[1] \in DOMAIN ChunkLength /\ Len(LastChunk(a)) > 0
         /\ SizeLine(0) \in Seq(Byte)
<1>1. PICK size : size = Size(0)
  OBVIOUS
<1>2. /\ size \in DOMAIN ChunkLength /\ ChunkLength[size] = 0 /\ size \in Byte /\ size # LF
      /\ SizeLine(0) = << size >> \o CRLF
  BY <1>1, SizesAre, SizeIs
<1>3. PICK z : z = a.trailer \o CRLF
  OBVIOUS
<1>4. z \in Seq(Byte)
  BY <1>3, AnswerTypes, SymbolsAreBytes
<1>5. << size >> \in Seq(Byte) /\ NoLF(<< size >>) /\ Append(<< size >>, CR) = << size, CR >>
  <2>1. NoLF(<< size >>) /\ << size >> \in Seq(Byte)
    BY <1>2 DEF NoLF
  <2>2. \A c \in Byte : Append(<< size >>, c) = << size, c >>
    BY <1>2, Pair
  <2> QED
    BY <2>1, <2>2, SymbolsAreBytes, Zenon
<1>6. /\ << size >> \o CRLF \in Seq(Byte) /\ (<< size >> \o CRLF) \o z \in Seq(Byte)
      /\ Splits((<< size >> \o CRLF) \o z, << size, CR >>, z)
  <2>1. PICK t : t = << size >>
    OBVIOUS
  <2>2. t \o CRLF \in Seq(Byte) /\ (t \o CRLF) \o z \in Seq(Byte) /\ Splits((t \o CRLF) \o z, Append(t, CR), z)
    BY <1>4, <1>5, <2>1, TextSplits
  <2> QED
    BY <1>5, <2>1, <2>2
<1>7. LastChunk(a) = (<< size >> \o CRLF) \o z
  BY <1>2, <1>3 DEF LastChunk
<1>8. Len(LastChunk(a)) > 0 /\ LastChunk(a)[1] = size
  <2>1. CRLF \in Seq(Byte)
    BY SymbolsAreBytes
  <2>2. PICK t : t = << size >> \o CRLF
    OBVIOUS
  <2>3. t \in Seq(Byte) /\ Len(t) > 0 /\ t[1] = size
    BY <1>2, <2>1, <2>2
  <2>4. Len(t \o z) > 0 /\ (t \o z)[1] = size
    BY <1>4, <2>3
  <2> QED
    BY <1>7, <2>2, <2>4
<1> QED
  BY <1>2, <1>3, <1>4, <1>6, <1>7, <1>8

\* From a chunk on, and what of the body is in it.
LEMMA ChunksFromIs ==
  ASSUME NEW a \in Answers, NEW k \in 0..Len(a.chunks)
  PROVE  /\ ChunksFrom(a, k) \in Seq(Byte) /\ BodyFrom(a, k) \in Seq(Byte)
         /\ k = Len(a.chunks) => ChunksFrom(a, k) = LastChunk(a) /\ BodyFrom(a, k) = << >>
         /\ k # Len(a.chunks) => /\ ChunksFrom(a, k) = EncodedChunk(a, a.chunks[k + 1]) \o ChunksFrom(a, k + 1)
                                 /\ BodyFrom(a, k) = a.chunks[k + 1] \o BodyFrom(a, k + 1)
                                 /\ EncodedChunk(a, a.chunks[k + 1]) \in Seq(Byte)
<1>1. PICK s, n : s = ChunkLines(a) /\ n = Len(a.chunks)
  OBVIOUS
<1>2. /\ s \in Seq(Seq(Byte)) /\ Len(s) = n /\ n \in Nat /\ k \in 0..n
      /\ \A i \in 1..n : s[i] = EncodedChunk(a, a.chunks[i])
  BY <1>1, LinesAre, AnswerTypes
<1>3. a.chunks \in Seq(Seq(Byte))
  BY AnswerTypes
<1>4. LastChunk(a) \in Seq(Byte)
  BY LastChunkIs
<1>5. /\ FlattenSeq(From(s, k)) \in Seq(Byte)
      /\ k = n => FlattenSeq(From(s, k)) = << >>
      /\ k # n => s[k + 1] \in Seq(Byte) /\ FlattenSeq(From(s, k)) = s[k + 1] \o FlattenSeq(From(s, k + 1))
  BY <1>2, FlattenFrom
<1>6. /\ FlattenSeq(From(a.chunks, k)) \in Seq(Byte)
      /\ k = n => FlattenSeq(From(a.chunks, k)) = << >>
      /\ k # n => FlattenSeq(From(a.chunks, k)) = a.chunks[k + 1] \o FlattenSeq(From(a.chunks, k + 1))
  BY <1>1, <1>2, <1>3, FlattenFrom
<1>7. ChunksFrom(a, k) \in Seq(Byte) /\ BodyFrom(a, k) \in Seq(Byte)
  BY <1>1, <1>4, <1>5, <1>6, JoinsAndAssociates DEF ChunksFrom, BodyFrom, Joins
<1>8. CASE k = n
  <2>1. << >> \o LastChunk(a) = LastChunk(a)
    BY <1>4, ConcatEmptySeq
  <2>2. ChunksFrom(a, k) = LastChunk(a) /\ BodyFrom(a, k) = << >>
    BY <1>1, <1>5, <1>6, <1>8, <2>1 DEF ChunksFrom, BodyFrom
  <2> QED
    BY <1>1, <1>7, <1>8, <2>2
<1>9. CASE k # n
  <2>1. k + 1 \in 0..Len(s) /\ k + 1 \in 1..n
    BY <1>2, <1>9
  <2>2. FlattenSeq(From(s, k + 1)) \in Seq(Byte)
    BY <1>2, <2>1, FlattenFrom, Zenon
  <2>3. Associates(s[k + 1], FlattenSeq(From(s, k + 1)), LastChunk(a))
    BY <1>4, <1>5, <1>9, <2>2, JoinsAndAssociates, Zenon
  <2>4. s[k + 1] = EncodedChunk(a, a.chunks[k + 1])
    BY <1>2, <2>1
  <2>5. ChunksFrom(a, k) = EncodedChunk(a, a.chunks[k + 1]) \o ChunksFrom(a, k + 1)
    BY <1>1, <1>5, <1>9, <2>3, <2>4 DEF ChunksFrom, Associates
  <2>6. BodyFrom(a, k) = a.chunks[k + 1] \o BodyFrom(a, k + 1)
    BY <1>6, <1>9 DEF BodyFrom
  <2> QED
    BY <1>1, <1>5, <1>7, <1>9, <2>4, <2>5, <2>6
<1> QED
  BY <1>8, <1>9

LEMMA EncodedBodyIs ==
  ASSUME NEW a \in Answers
  PROVE  /\ EncodedBody(a) \in Seq(Byte)
         /\ EncodedBody(a) = IF a.chunks = << >> THEN a.body ELSE ChunksFrom(a, 0)
<1>1. CASE a.chunks = << >>
  BY <1>1, AnswerTypes DEF EncodedBody
<1>2. CASE a.chunks # << >>
  <2>1. PICK f, s, t : f = FlattenSeq(ChunkLines(a)) /\ s = SizeLine(0) /\ t = a.trailer
    OBVIOUS
  <2>2. EncodedBody(a) = ((f \o s) \o t) \o CRLF
    BY <1>2, <2>1 DEF EncodedBody, ChunkLines
  <2>3. ChunkLines(a) \in Seq(Seq(Byte)) /\ From(ChunkLines(a), 0) = ChunkLines(a)
    BY LinesAre, FromStart
  <2>4. 0 \in 0..Len(ChunkLines(a))
    BY <2>3
  <2>5. f \in Seq(Byte)
    BY <2>1, <2>3, <2>4, FlattenFrom
  <2>6. s \in Seq(Byte) /\ t \in Seq(Byte) /\ CRLF \in Seq(Byte)
    BY <2>1, LastChunkIs, AnswerTypes, SymbolsAreBytes
  <2>7. Joins(f, s) /\ Joins(s, t) /\ Joins(t, CRLF)
    BY <2>5, <2>6, JoinsAndAssociates, Zenon
  <2>8. Associates(f \o s, t, CRLF) /\ Associates(f, s, t \o CRLF)
    BY <2>5, <2>6, <2>7, JoinsAndAssociates, Zenon DEF Joins
  <2>9. ((f \o s) \o t) \o CRLF = f \o (s \o (t \o CRLF))
    BY <2>8 DEF Associates
  <2>10. ChunksFrom(a, 0) = f \o (s \o (t \o CRLF))
    BY <2>1, <2>3 DEF ChunksFrom, LastChunk
  <2>11. 0 \in 0..Len(a.chunks)
    BY AnswerTypes
  <2>12. ChunksFrom(a, 0) \in Seq(Byte)
    BY <2>11, ChunksFromIs
  <2> QED
    BY <1>2, <2>2, <2>9, <2>10, <2>12
<1> QED
  BY <1>1, <1>2

\* From a header on.
LEMMA HeadersFromIs ==
  ASSUME NEW a \in Answers, NEW k \in 0..Len(a.headers)
  PROVE  /\ HeadersFrom(a, k) \in Seq(Byte)
         /\ k = Len(a.headers) => HeadersFrom(a, k) = CRLF \o EncodedBody(a)
         /\ k # Len(a.headers) =>
              HeadersFrom(a, k) = HeaderLine(a, a.headers[k + 1]) \o HeadersFrom(a, k + 1)
<1>1. PICK s, n : s = HeaderLines(a) /\ n = Len(a.headers)
  OBVIOUS
<1>2. /\ s \in Seq(Seq(Byte)) /\ Len(s) = n /\ n \in Nat /\ k \in 0..n
      /\ \A i \in 1..n : s[i] = HeaderLine(a, a.headers[i])
  BY <1>1, LinesAre, AnswerTypes
<1>3. PICK z : z = CRLF \o EncodedBody(a)
  OBVIOUS
<1>4. z \in Seq(Byte)
  BY <1>3, EncodedBodyIs, SymbolsAreBytes, JoinsAndAssociates DEF Joins
<1>5. /\ FlattenSeq(From(s, k)) \in Seq(Byte)
      /\ k = n => FlattenSeq(From(s, k)) = << >>
      /\ k # n => s[k + 1] \in Seq(Byte) /\ FlattenSeq(From(s, k)) = s[k + 1] \o FlattenSeq(From(s, k + 1))
  BY <1>2, FlattenFrom
<1>6. HeadersFrom(a, k) \in Seq(Byte)
  BY <1>1, <1>3, <1>4, <1>5, JoinsAndAssociates DEF HeadersFrom, Joins
<1>7. CASE k = n
  <2>1. << >> \o z = z
    BY <1>4, ConcatEmptySeq
  <2>2. HeadersFrom(a, k) = z
    BY <1>1, <1>3, <1>5, <1>7, <2>1 DEF HeadersFrom
  <2> QED
    BY <1>1, <1>3, <1>6, <1>7, <2>2
<1>8. CASE k # n
  <2>1. k + 1 \in 0..Len(s) /\ k + 1 \in 1..n
    BY <1>2, <1>8
  <2>2. FlattenSeq(From(s, k + 1)) \in Seq(Byte)
    BY <1>2, <2>1, FlattenFrom, Zenon
  <2>3. Associates(s[k + 1], FlattenSeq(From(s, k + 1)), z)
    BY <1>4, <1>5, <1>8, <2>2, JoinsAndAssociates, Zenon
  <2>4. s[k + 1] = HeaderLine(a, a.headers[k + 1])
    BY <1>2, <2>1
  <2>5. HeadersFrom(a, k) = HeaderLine(a, a.headers[k + 1]) \o HeadersFrom(a, k + 1)
    BY <1>1, <1>3, <1>5, <1>8, <2>3, <2>4 DEF HeadersFrom, Associates
  <2> QED
    BY <1>1, <1>6, <1>8, <2>5
<1> QED
  BY <1>7, <1>8

\* All that a server sends, from its beginning.
LEMMA BytesAre ==
  ASSUME NEW a \in Answers
  PROVE  /\ AnswerOf(a) \in Seq(Byte) /\ Bytes(a) \in Seq(Byte)
         /\ StatusLine("100") \in Seq(Byte) /\ StatusLine(a.status) \in Seq(Byte)
         /\ CRLF \o AnswerOf(a) \in Seq(Byte)
         /\ Bytes(a) = IF a.continues THEN StatusLine("100") \o (CRLF \o AnswerOf(a)) ELSE AnswerOf(a)
<1>1. PICK f, s, e : f = FlattenSeq(HeaderLines(a)) /\ s = StatusLine(a.status) /\ e = EncodedBody(a)
  OBVIOUS
<1>2. \A t \in Statuses : StatusLine(t) \in Seq(Byte)
  BY TextsAreBytes, SymbolsAreBytes DEF StatusLine
<1>3. "100" \in Statuses
  BY DEF Statuses
<1>4. PICK p : p = StatusLine("100")
  OBVIOUS
<1>5. p \in Seq(Byte) /\ s \in Seq(Byte) /\ CRLF \in Seq(Byte) /\ e \in Seq(Byte) /\ << >> \in Seq(Byte)
  BY <1>1, <1>2, <1>3, <1>4, AnswerTypes, SymbolsAreBytes, EncodedBodyIs
<1>6. HeaderLines(a) \in Seq(Seq(Byte)) /\ From(HeaderLines(a), 0) = HeaderLines(a)
  BY LinesAre, FromStart
<1>7. 0 \in 0..Len(HeaderLines(a))
  BY <1>6
<1>8. f \in Seq(Byte)
  BY <1>1, <1>6, <1>7, FlattenFrom
<1>9. PICK w, h, q : w = CRLF \o e /\ h = f \o w /\ q = s \o h
  OBVIOUS
<1>10. Joins(CRLF, e)
  BY <1>5, JoinsAndAssociates, Zenon
<1>11. w \in Seq(Byte)
  BY <1>9, <1>10 DEF Joins
<1>12. Joins(f, w)
  BY <1>8, <1>11, JoinsAndAssociates, Zenon
<1>13. h \in Seq(Byte)
  BY <1>9, <1>12 DEF Joins
<1>14. Joins(s, h)
  BY <1>5, <1>13, JoinsAndAssociates, Zenon
<1>15. q \in Seq(Byte)
  BY <1>9, <1>14 DEF Joins
<1>16. AnswerOf(a) = q
  BY <1>1, <1>6, <1>9 DEF AnswerOf, HeadersFrom
<1>17. PICK r \in Seq(Byte) : /\ r = IF a.continues THEN p \o CRLF ELSE << >>
                              /\ Bytes(a) = (((r \o s) \o f) \o CRLF) \o e
  <2>1. Bytes(a) = ((((IF a.continues THEN p \o CRLF ELSE << >>) \o s) \o f) \o CRLF) \o e
    BY <1>1, <1>4 DEF Bytes, HeaderLines
  <2>2. p \o CRLF \in Seq(Byte)
    BY <1>5, JoinsAndAssociates DEF Joins
  <2> QED
    BY <1>5, <2>1, <2>2
<1>18. Joins(r, s) /\ Joins(s, f)
  BY <1>5, <1>8, JoinsAndAssociates, Zenon
<1>19. Joins(r \o s, f)
  BY <1>8, <1>18, JoinsAndAssociates, Zenon DEF Joins
<1>20. Associates((r \o s) \o f, CRLF, e) /\ Associates(r \o s, f, w) /\ Associates(r, s, h)
  BY <1>5, <1>8, <1>11, <1>13, <1>18, <1>19, JoinsAndAssociates, Zenon DEF Joins
<1>21. Bytes(a) = r \o q
  BY <1>9, <1>17, <1>20 DEF Associates
<1>22. CASE a.continues
  <2>1. Associates(p, CRLF, q) /\ Joins(CRLF, q)
    BY <1>5, <1>15, JoinsAndAssociates, Zenon
  <2>2. CRLF \o q \in Seq(Byte)
    BY <2>1 DEF Joins
  <2>3. Joins(p, CRLF \o q)
    BY <1>5, <2>2, JoinsAndAssociates, Zenon
  <2>4. Bytes(a) = p \o (CRLF \o q)
    BY <1>17, <1>21, <1>22, <2>1 DEF Associates
  <2> QED
    BY <1>1, <1>4, <1>5, <1>15, <1>16, <1>22, <2>2, <2>3, <2>4 DEF Joins
<1>23. CASE ~a.continues
  <2>1. << >> \o q = q
    BY <1>15, ConcatEmptySeq
  <2>2. Bytes(a) = q
    BY <1>17, <1>21, <1>23, <2>1
  <2>3. Joins(CRLF, q)
    BY <1>5, <1>15, JoinsAndAssociates, Zenon
  <2> QED
    BY <1>1, <1>4, <1>5, <1>15, <1>16, <1>23, <2>2, <2>3 DEF Joins
<1> QED
  BY <1>22, <1>23

\* Where the first line ends, and that there is one if there is a LF.
LEMMA SplitsWhere ==
  ASSUME NEW r, NEW x, NEW y, Splits(r, x, y)
  PROVE  /\ r \in Seq(Byte) /\ Len(x) + 1 \in 1..Len(r) /\ r[Len(x) + 1] = LF
         /\ \A i \in 1..Len(x) : r[i] = x[i]
<1>1. x \in Seq(Byte) /\ y \in Seq(Byte) /\ r = x \o (<< LF >> \o y)
  BY DEF Splits
<1>2. PICK z : z = << LF >> \o y
  OBVIOUS
<1>3. z \in Seq(Byte) /\ Len(z) = 1 + Len(y) /\ z[1] = LF
  <2>1. << LF >> \in Seq(Byte)
    BY SymbolsAreBytes
  <2> QED
    BY <1>1, <1>2, <2>1
<1>4. r = x \o z
  BY <1>1, <1>2
<1> QED
  BY <1>1, <1>3, <1>4

LEMMA HasLine ==
  ASSUME NEW r \in Seq(Byte), NEW i \in 1..Len(r), r[i] = LF PROVE \E x, y : Splits(r, x, y)
<1> DEFINE T == {k \in Nat : k + 1 <= Len(r) /\ r[k + 1] = LF}
<1>1. i - 1 \in Nat /\ (i - 1) + 1 = i /\ i <= Len(r)
  OBVIOUS
<1>2. i - 1 \in T
  BY <1>1
<1>3. PICK m \in T : \A k \in T : m <= k
  <2>1. T \subseteq Nat /\ T # {}
    BY <1>2
  <2> QED
    BY <2>1, LeastOf
<1>4. m \in Nat /\ m + 1 <= Len(r) /\ r[m + 1] = LF
  BY <1>3
<1>5. ASSUME NEW j \in 1..m PROVE r[j] # LF
  <2> SUFFICES ASSUME r[j] = LF PROVE FALSE
    OBVIOUS
  <2>1. j - 1 \in Nat /\ (j - 1) + 1 = j /\ j <= Len(r) /\ ~(m <= j - 1)
    BY <1>4
  <2>2. j - 1 \in T
    BY <2>1
  <2> QED
    BY <1>3, <2>1, <2>2
<1> HIDE DEF T
<1>6. PICK x, y : x = SubSeq(r, 1, m) /\ y = From(r, m + 1)
  OBVIOUS
<1>7. x \in Seq(Byte) /\ Len(x) = m /\ \A j \in 1..m : x[j] = r[j]
  <2>1. m \in 0..Len(r)
    BY <1>4
  <2> QED
    BY <1>6, <2>1, PrefixOf
<1>8. y \in Seq(Byte) /\ Len(y) = Len(r) - (m + 1) /\ \A j \in 1..(Len(r) - (m + 1)) : y[j] = r[m + 1 + j]
  <2>1. PICK n : n = m + 1
    OBVIOUS
  <2>2. n \in 0..Len(r)
    BY <1>4, <2>1
  <2>3. y \in Seq(Byte) /\ Len(y) = Len(r) - n /\ \A j \in 1..(Len(r) - n) : y[j] = r[n + j]
    BY <1>6, <2>1, <2>2, FromIs
  <2> QED
    BY <2>1, <2>3
<1>9. NoLF(x)
  BY <1>5, <1>7 DEF NoLF
<1>10. PICK l \in Byte : l = LF
  BY SymbolsAreBytes
<1>11. PICK z : z = << l >> \o y
  OBVIOUS
<1>12. z \in Seq(Byte) /\ Len(z) = 1 + Len(y) /\ z[1] = LF /\ \A j \in 1..Len(y) : z[1 + j] = y[j]
  <2>1. z \in Seq(Byte) /\ Len(z) = 1 + Len(y) /\ z[1] = l
    BY <1>8, <1>11
  <2>2. \A j \in 1..Len(y) : z[1 + j] = y[j]
    BY <1>8, <1>11
  <2> QED
    BY <1>10, <2>1, <2>2
<1>13. PICK s : s = x \o z
  OBVIOUS
<1>14. /\ s \in Seq(Byte) /\ Len(s) = m + Len(z) /\ \A j \in 1..m : s[j] = x[j]
       /\ \A j \in 1..Len(z) : s[m + j] = z[j]
  <2>1. x \in Seq(Byte) /\ z \in Seq(Byte)
    BY <1>7, <1>12
  <2>2. /\ s \in Seq(Byte) /\ Len(s) = Len(x) + Len(z) /\ \A j \in 1..Len(x) : s[j] = x[j]
        /\ \A j \in 1..Len(z) : s[Len(x) + j] = z[j]
    BY <1>13, <2>1
  <2> QED
    BY <1>7, <2>2
<1>15. Len(s) = Len(r)
  BY <1>4, <1>8, <1>12, <1>14
<1>16. ASSUME NEW j \in 1..Len(r) PROVE r[j] = s[j]
  <2>1. CASE j <= m
    BY <1>4, <1>7, <1>14, <2>1
  <2>2. CASE j = m + 1
    <3>1. 1 \in 1..Len(z)
      BY <1>8, <1>12
    <3> QED
      BY <1>4, <1>12, <1>14, <2>2, <3>1
  <2>3. CASE j > m + 1
    <3>1. PICK k : k = j - (m + 1)
      OBVIOUS
    <3>2. k \in 1..Len(y) /\ 1 + k \in 1..Len(z) /\ m + (1 + k) = j /\ m + 1 + k = j /\ k \in 1..(Len(r) - (m + 1))
      BY <1>4, <1>8, <1>12, <2>3, <3>1
    <3>3. s[m + (1 + k)] = z[1 + k] /\ z[1 + k] = y[k] /\ y[k] = r[m + 1 + k]
      BY <1>8, <1>12, <1>14, <3>2, Zenon
    <3> QED
      BY <3>2, <3>3
  <2> QED
    BY <1>4, <2>1, <2>2, <2>3
<1>17. r = s
  BY <1>14, <1>15, <1>16, SeqEqual
<1> QED
  BY <1>7, <1>8, <1>9, <1>10, <1>11, <1>13, <1>17 DEF Splits

\* The first line of what follows an answer 100, of an answer, of its headers and its chunks.
LEMMA NothingSplits ==
  ASSUME NEW z \in Seq(Byte) PROVE Splits(CRLF \o z, << CR >>, z) /\ CRLF \o z \in Seq(Byte)
<1>1. PICK t : t = << >>
  OBVIOUS
<1>2. t \in Seq(Byte) /\ NoLF(t)
  BY <1>1 DEF NoLF
<1>3. Splits((t \o CRLF) \o z, Append(t, CR), z) /\ (t \o CRLF) \o z \in Seq(Byte)
  BY <1>2, TextSplits
<1>4. t \o CRLF = CRLF /\ Append(t, CR) = << CR >>
  BY <1>1, SymbolsAreBytes, ConcatEmptySeq
<1> QED
  BY <1>3, <1>4

LEMMA StatusSplits ==
  ASSUME NEW s \in Statuses, NEW z \in Seq(Byte)
  PROVE  Splits(StatusLine(s) \o z, << s, CR >>, z)
<1>1. PICK t : t = << s >>
  OBVIOUS
<1>2. t \in Seq(Byte) /\ NoLF(t)
  BY <1>1, TextsAreBytes DEF NoLF
<1>3. Splits((t \o CRLF) \o z, Append(t, CR), z)
  BY <1>2, TextSplits
<1>4. Append(<< s >>, CR) = << s, CR >>
  BY TextsAreBytes, SymbolsAreBytes, Pair
<1> QED
  BY <1>1, <1>3, <1>4 DEF StatusLine

LEMMA HeaderSplits ==
  ASSUME NEW a \in Answers, a.lineEnd = CRLF, NEW k \in 0..Len(a.headers)
  PROVE  /\ k = Len(a.headers) => Splits(HeadersFrom(a, k), << CR >>, EncodedBody(a))
         /\ k # Len(a.headers) =>
              LET t == HeaderText(a.headers[k + 1]) IN
              /\ Splits(HeadersFrom(a, k), Append(t, CR), HeadersFrom(a, k + 1))
              /\ WithLF(Append(t, CR)) = t \o CRLF
<1>1. CASE k = Len(a.headers)
  BY <1>1, HeadersFromIs, EncodedBodyIs, NothingSplits
<1>2. CASE k # Len(a.headers)
  <2>1. PICK n, z : n = k + 1 /\ z = HeadersFrom(a, n)
    OBVIOUS
  <2>2. n \in 0..Len(a.headers) /\ n \in 1..Len(a.headers)
    BY <1>2, <2>1, AnswerTypes
  <2>3. z \in Seq(Byte)
    BY <2>1, <2>2, HeadersFromIs
  <2>4. PICK t : t = HeaderText(a.headers[n])
    OBVIOUS
  <2>5. a.headers[n] \in HeaderTexts \cup {"long", "tooLong"}
    BY <2>2, AnswerTypes
  <2>6. t \in Seq(Byte) /\ NoLF(t)
    BY <2>4, <2>5, HeaderTextIs
  <2>7. Splits((t \o CRLF) \o z, Append(t, CR), z) /\ WithLF(Append(t, CR)) = t \o CRLF
    BY <2>3, <2>6, TextSplits
  <2>8. HeadersFrom(a, k) = (t \o CRLF) \o z
    BY <1>2, <2>1, <2>4, HeadersFromIs DEF HeaderLine
  <2> QED
    BY <1>2, <2>1, <2>4, <2>7, <2>8
<1> QED
  BY <1>1, <1>2

LEMMA ChunkSplits ==
  ASSUME NEW a \in Answers, NEW k \in 0..Len(a.chunks)
  PROVE  \E size, y :
           /\ size \in DOMAIN ChunkLength
           /\ Splits(ChunksFrom(a, k), << size, CR >>, y)
           /\ k = Len(a.chunks) => ChunkLength[size] = 0 /\ y = a.trailer \o CRLF
           /\ k # Len(a.chunks) => /\ ChunkLength[size] = Len(a.chunks[k + 1])
                                   /\ y = a.chunks[k + 1] \o (a.after \o ChunksFrom(a, k + 1))
<1>1. CASE k = Len(a.chunks)
  BY <1>1, ChunksFromIs, LastChunkIs
<1>2. CASE k # Len(a.chunks)
  <2>1. PICK n, z, c : n = k + 1 /\ z = ChunksFrom(a, n) /\ c = a.chunks[n]
    OBVIOUS
  <2>2. n \in 0..Len(a.chunks) /\ n \in 1..Len(a.chunks)
    BY <1>2, <2>1, AnswerTypes
  <2>3. z \in Seq(Byte) /\ c \in Seq(Byte) /\ a.after \in Seq(Byte)
    BY <2>1, <2>2, ChunksFromIs, AnswerTypes
  <2>4. PICK size : size = Size(Len(c))
    OBVIOUS
  <2>5. /\ size \in DOMAIN ChunkLength /\ ChunkLength[size] = Len(c) /\ size \in Byte /\ size # LF
        /\ SizeLine(Len(c)) = << size >> \o CRLF
    BY <2>1, <2>2, <2>4, SizesAre, SizeIs
  <2>6. PICK t : t = << size >>
    OBVIOUS
  <2>7. t \in Seq(Byte) /\ NoLF(t) /\ Append(t, CR) = << size, CR >>
    BY <2>5, <2>6, SymbolsAreBytes, Pair DEF NoLF
  <2>8. PICK y : y = c \o (a.after \o z)
    OBVIOUS
  <2>9. Joins(a.after, z) /\ Joins(c, a.after)
    BY <2>3, JoinsAndAssociates, Zenon
  <2>10. y \in Seq(Byte)
    BY <2>3, <2>8, <2>9, JoinsAndAssociates DEF Joins
  <2>11. t \o CRLF \in Seq(Byte) /\ Splits((t \o CRLF) \o y, Append(t, CR), y)
    BY <2>7, <2>10, TextSplits
  <2>12. Joins(t \o CRLF, c)
    BY <2>3, <2>11, JoinsAndAssociates, Zenon
  <2>13. Associates((t \o CRLF) \o c, a.after, z) /\ Associates(t \o CRLF, c, a.after \o z)
    BY <2>3, <2>9, <2>11, <2>12, JoinsAndAssociates, Zenon DEF Joins
  <2>14. ChunksFrom(a, k) = (((t \o CRLF) \o c) \o a.after) \o z
    BY <1>2, <2>1, <2>5, <2>6, ChunksFromIs DEF EncodedChunk
  <2>15. ChunksFrom(a, k) = (t \o CRLF) \o y
    BY <2>8, <2>13, <2>14 DEF Associates
  <2> QED
    BY <1>2, <2>1, <2>5, <2>7, <2>8, <2>11, <2>15
<1> QED
  BY <1>1, <1>2

\* What follows a chunk is CRLF, or its line is another.
LEMMA ChunkEndSplits ==
  ASSUME NEW a \in Answers, a.after = CRLF \/ ~IsPrefix(CRLF, a.after), NEW k \in 0..Len(a.chunks)
  PROVE  \E x, y : /\ Splits(a.after \o ChunksFrom(a, k), x, y)
                   /\ a.after = CRLF => x = << CR >> /\ y = ChunksFrom(a, k)
                   /\ a.after # CRLF => WithLF(x) # CRLF
<1>1. PICK z, e : z = ChunksFrom(a, k) /\ e = a.after
  OBVIOUS
<1>2. z \in Seq(Byte) /\ e \in Seq(Byte)
  BY <1>1, ChunksFromIs, AnswerTypes
<1>3. CASE e = CRLF
  BY <1>1, <1>2, <1>3, NothingSplits
<1>4. CASE e # CRLF
  <2>1. PICK size, y : size \in DOMAIN ChunkLength /\ Splits(z, << size, CR >>, y)
    BY <1>1, ChunkSplits
  <2>2. Len(z) >= 3 /\ z[3] = LF /\ z[1] = size
    <3>1. Len(<< size, CR >>) = 2 /\ << size, CR >>[1] = size
      OBVIOUS
    <3>2. PICK x : x = << size, CR >>
      OBVIOUS
    <3>3. Len(x) = 2 /\ x[1] = size
      BY <3>1, <3>2
    <3>4. Splits(z, x, y)
      BY <2>1, <3>2
    <3>5. Len(x) + 1 \in 1..Len(z) /\ z[Len(x) + 1] = LF /\ \A i \in 1..Len(x) : z[i] = x[i]
      BY <3>4, SplitsWhere
    <3>6. Len(x) + 1 = 3 /\ 1 \in 1..Len(x) /\ Len(z) \in Nat
      BY <1>2, <3>3
    <3>7. z[3] = LF /\ z[1] = size /\ 3 \in 1..Len(z)
      BY <3>3, <3>5, <3>6
    <3> QED
      BY <1>2, <3>7
  <2>3. size # LF /\ size # CR
    BY <2>1, SymbolsAssumption
  <2>4. PICK r : r = e \o z
    OBVIOUS
  <2>5. /\ r \in Seq(Byte) /\ Len(r) = Len(e) + Len(z) /\ \A i \in 1..Len(e) : r[i] = e[i]
        /\ \A i \in 1..Len(z) : r[Len(e) + i] = z[i]
    BY <1>2, <2>4
  <2>6. PICK j : j = Len(e) + 3
    OBVIOUS
  <2>7. j \in 1..Len(r) /\ r[j] = LF
    <3>1. 3 \in 1..Len(z)
      BY <1>2, <2>2
    <3> QED
      BY <1>2, <2>2, <2>5, <2>6, <3>1
  <2>8. PICK x, w : Splits(r, x, w)
    BY <2>5, <2>7, HasLine
  <2>9. ASSUME WithLF(x) = CRLF PROVE FALSE
    <3>1. x \in Seq(Byte) /\ LF \in Byte /\ CR # LF
      BY <2>8, SymbolsAreBytes DEF Splits
    <3>2. Len(Append(x, LF)) = Len(x) + 1 /\ \A i \in 1..Len(x) : Append(x, LF)[i] = x[i]
      BY <3>1, AppendProperties
    <3>3. Append(x, LF) = << CR, LF >>
      BY <2>9, SymbolsAreBytes DEF WithLF
    <3>4. Len(x) = 1
      <4>1. PICK p, n : p = << CR, LF >> /\ n = Len(x)
        OBVIOUS
      <4>2. Len(p) = 2 /\ n \in Nat
        BY <3>1, <4>1
      <4>3. Len(p) = n + 1
        BY <3>2, <3>3, <4>1
      <4> QED
        BY <4>1, <4>2, <4>3
    <3>5. x[1] = CR
      BY <3>2, <3>3, <3>4
    <3>6. r[2] = LF /\ r[1] = CR
      <4>1. r[Len(x) + 1] = LF /\ \A i \in 1..Len(x) : r[i] = x[i]
        BY <2>8, SplitsWhere
      <4> QED
        BY <3>4, <3>5, <4>1
    <3>7. CASE Len(e) = 0
      <4>1. 1 \in 1..Len(z)
        BY <1>2, <2>2
      <4> QED
        BY <2>2, <2>3, <2>5, <3>6, <3>7, <4>1
    <3>8. CASE Len(e) = 1
      <4>1. 1 \in 1..Len(z)
        BY <1>2, <2>2
      <4> QED
        BY <2>2, <2>3, <2>5, <3>6, <3>8, <4>1
    <3>9. CASE Len(e) >= 2
      <4>1. e[1] = CR /\ e[2] = LF
        BY <2>5, <3>6, <3>9
      <4>2. PICK c, l \in Byte : c = CR /\ l = LF
        BY SymbolsAreBytes
      <4>3. PICK p : p = << c, l >>
        OBVIOUS
      <4>4. p \in Seq(Byte) /\ Len(p) = 2 /\ p[1] = c /\ p[2] = l
        BY <4>3
      <4>5. SubSeq(p, 1, 2) = SubSeq(e, 1, 2)
        BY <1>2, <3>9, <4>1, <4>2, <4>4
      <4>6. IsPrefix(p, e)
        BY <3>9, <4>4, <4>5 DEF IsPrefix
      <4>7. p = CRLF
        BY <4>2, <4>3, SymbolsAreBytes
      <4> QED
        BY <1>1, <1>4, <4>6, <4>7
    <3>10. Len(e) = 0 \/ Len(e) = 1 \/ Len(e) >= 2
      <4>1. Len(e) \in Nat /\ \A n \in Nat : n = 0 \/ n = 1 \/ n >= 2
        BY <1>2
      <4> QED
        BY <4>1, Zenon
    <3> QED
      BY <3>7, <3>8, <3>9, <3>10, Zenon
  <2> QED
    BY <1>1, <1>4, <2>4, <2>8, <2>9
<1> QED
  BY <1>3, <1>4

\* The line that ends a body in chunks.
LEMMA LastSplits ==
  ASSUME NEW a \in Answers
  PROVE  \E x, y : Splits(a.trailer \o CRLF, x, y) /\ (a.trailer = << >> => x = << CR >>)
<1>1. CRLF \in Seq(Byte) /\ a.trailer \in Seq(Byte) /\ LF \in Byte /\ CR \in Byte /\ CRLF = << CR, LF >>
  BY SymbolsAreBytes, AnswerTypes
<1>2. CASE a.trailer = << >>
  <2>1. PICK z : z = << >>
    OBVIOUS
  <2>2. Splits(CRLF \o z, << CR >>, z)
    <3>1. z \in Seq(Byte)
      BY <2>1
    <3> QED
      BY <3>1, NothingSplits
  <2>3. CRLF \o z = CRLF /\ << >> \o CRLF = CRLF
    BY <1>1, <2>1, ConcatEmptySeq
  <2> QED
    BY <1>2, <2>2, <2>3
<1>3. CASE a.trailer # << >>
  <2>1. PICK t, r : t = a.trailer /\ r = t \o CRLF
    OBVIOUS
  <2>2. Len(CRLF) = 2 /\ CRLF[2] = LF
    BY <1>1
  <2>3. r \in Seq(Byte) /\ Len(r) = Len(t) + 2 /\ r[Len(t) + 2] = LF
    BY <1>1, <2>1, <2>2
  <2>4. PICK j : j = Len(t) + 2
    OBVIOUS
  <2>5. j \in 1..Len(r) /\ r[j] = LF
    BY <1>1, <2>1, <2>3, <2>4
  <2>6. \E x, y : Splits(r, x, y)
    BY <2>3, <2>5, HasLine
  <2> QED
    BY <1>3, <2>1, <2>6
<1> QED
  BY <1>2, <1>3

\* The end of a line: a line without LF does not end in CRLF.
LEMMA EndsInCRLF ==
  /\ \A t \in Seq(Byte) : IsSuffix(CRLF, t \o CRLF)
  /\ \A line \in Seq(Byte) : NoLF(line) => ~IsSuffix(CRLF, line) /\ line # CRLF
<1>1. CRLF \in Seq(Byte) /\ LF \in Byte /\ CR \in Byte /\ CRLF = << CR, LF >> /\ CR # LF
  BY SymbolsAreBytes
<1>2. Len(CRLF) = 2 /\ CRLF[1] = CR /\ CRLF[2] = LF
  BY <1>1
<1>3. PICK p : p = Reverse(CRLF)
  OBVIOUS
<1>4. p \in Seq(Byte) /\ Len(p) = 2 /\ p[1] = LF /\ p[2] = CR
  BY <1>1, <1>2, <1>3 DEF Reverse
<1>5. ASSUME NEW t \in Seq(Byte) PROVE Len(Reverse(t)) = Len(t) /\ Reverse(t) \in Seq(Byte)
                                      /\ \A i \in 1..Len(t) : Reverse(t)[i] = t[(Len(t) - i) + 1]
  BY DEF Reverse
<1>6. ASSUME NEW t \in Seq(Byte) PROVE IsSuffix(CRLF, t \o CRLF)
  <2>1. PICK s : s = t \o CRLF
    OBVIOUS
  <2>2. s \in Seq(Byte) /\ Len(s) = Len(t) + 2 /\ s[Len(t) + 1] = CR /\ s[Len(t) + 2] = LF
    BY <1>1, <1>2, <2>1
  <2>3. PICK q : q = Reverse(s)
    OBVIOUS
  <2>4. q \in Seq(Byte) /\ Len(q) = Len(s) /\ \A i \in 1..Len(s) : q[i] = s[(Len(s) - i) + 1]
    BY <1>5, <2>2, <2>3
  <2>5. /\ 1 \in 1..Len(s) /\ 2 \in 1..Len(s)
        /\ (Len(s) - 1) + 1 = Len(t) + 2 /\ (Len(s) - 2) + 1 = Len(t) + 1 /\ Len(s) >= 2
    BY <2>2
  <2>6. q[1] = LF /\ q[2] = CR
    BY <2>2, <2>4, <2>5
  <2>7. SubSeq(p, 1, 2) = SubSeq(q, 1, 2)
    BY <1>4, <2>4, <2>5, <2>6
  <2> QED
    BY <1>3, <1>4, <2>1, <2>3, <2>4, <2>5, <2>7 DEF IsSuffix, IsPrefix
<1>7. ASSUME NEW s \in Seq(Byte), NoLF(s), IsSuffix(CRLF, s) PROVE FALSE
  <2>1. PICK q : q = Reverse(s)
    OBVIOUS
  <2>2. q \in Seq(Byte) /\ Len(q) = Len(s) /\ \A i \in 1..Len(s) : q[i] = s[(Len(s) - i) + 1]
    BY <1>5, <2>1
  <2>3. 2 <= Len(s) /\ SubSeq(p, 1, 2) = SubSeq(q, 1, 2)
    BY <1>3, <1>4, <1>7, <2>1, <2>2 DEF IsSuffix, IsPrefix
  <2>4. q[1] = LF
    BY <1>4, <2>2, <2>3
  <2>5. 1 \in 1..Len(s) /\ (Len(s) - 1) + 1 = Len(s) /\ Len(s) \in 1..Len(s)
    BY <2>3
  <2> QED
    BY <1>7, <2>2, <2>4, <2>5 DEF NoLF
<1>8. ASSUME NoLF(CRLF) PROVE FALSE
  BY <1>2, <1>8 DEF NoLF
<1> QED
  BY <1>6, <1>7, <1>8

Follow(s, x, y) ==
  /\ s \in Seq(Byte) /\ Len(s) = Len(x) + Len(y) /\ \A i \in 1..Len(x) : s[i] = x[i]
  /\ \A i \in 1..Len(y) : s[Len(x) + i] = y[i]

\* Two sequences, one behind the other, element by element.
LEMMA ConcatFollows == \A x, y \in Seq(Byte) : Follow(x \o y, x, y)
  BY DEF Follow

Runs(d, r, g, w) == d \o r = g \o w
IsRest(e, d, r, g, w) == e \in Seq(Byte) /\ d = g \o e /\ w = e \o r /\ Len(e) = Len(d) - Len(g)

\* A piece that is no longer than the part it is taken from leaves the rest of that part.
LEMMA PieceOfPart ==
  ASSUME NEW d \in Seq(Byte), NEW r \in Seq(Byte), NEW g \in Seq(Byte), NEW w \in Seq(Byte),
         Runs(d, r, g, w), Len(g) <= Len(d)
  PROVE  \E e : IsRest(e, d, r, g, w)
<1>0. d \o r = g \o w
  BY DEF Runs
<1>1. PICK n, s : n = Len(g) /\ s = d \o r
  OBVIOUS
<1>2. n \in Nat /\ n \in 0..Len(d) /\ Len(d) \in Nat /\ Len(w) \in Nat /\ Len(r) \in Nat
  BY <1>1
<1>3. /\ Len(s) = Len(d) + Len(r) /\ \A i \in 1..Len(d) : s[i] = d[i]
      /\ \A i \in 1..Len(r) : s[Len(d) + i] = r[i]
  <2>1. Follow(s, d, r)
    BY <1>1, ConcatFollows
  <2> QED
    BY <2>1, Zenon DEF Follow
<1>4. /\ Len(s) = n + Len(w) /\ \A i \in 1..n : s[i] = g[i]
      /\ \A i \in 1..Len(w) : s[n + i] = w[i]
  <2>1. Follow(s, g, w)
    BY <1>0, <1>1, ConcatFollows
  <2> QED
    BY <1>1, <2>1, Zenon DEF Follow
<1>5. PICK e : e = From(d, n)
  OBVIOUS
<1>6. e \in Seq(Byte) /\ Len(e) = Len(d) - n /\ \A i \in 1..(Len(d) - n) : e[i] = d[n + i]
  BY <1>2, <1>5, FromIs
<1>7. PICK u : u = g \o e
  OBVIOUS
<1>8. /\ u \in Seq(Byte) /\ Len(u) = n + Len(e) /\ \A i \in 1..n : u[i] = g[i]
      /\ \A i \in 1..Len(e) : u[n + i] = e[i]
  <2>1. Follow(u, g, e)
    BY <1>6, <1>7, ConcatFollows
  <2> QED
    BY <1>1, <2>1, Zenon DEF Follow
<1>9. Len(u) = Len(d)
  BY <1>2, <1>6, <1>8
<1>10. ASSUME NEW i \in 1..Len(d) PROVE d[i] = u[i]
  <2>1. CASE i <= n
    BY <1>2, <1>3, <1>4, <1>8, <2>1
  <2>2. CASE i > n
    <3>1. PICK j : j = i - n
      OBVIOUS
    <3>2. j \in 1..Len(e) /\ j \in 1..(Len(d) - n) /\ n + j = i
      BY <1>2, <1>6, <2>2, <3>1
    <3> QED
      BY <1>6, <1>8, <3>2
  <2> QED
    BY <1>2, <2>1, <2>2
<1>11. d = u
  BY <1>8, <1>9, <1>10, SeqEqual
<1>12. Associates(g, e, r)
  BY <1>6, JoinsAndAssociates, Zenon
<1>13. g \o w = g \o (e \o r)
  BY <1>0, <1>1, <1>7, <1>11, <1>12 DEF Associates
<1>14. e \o r \in Seq(Byte)
  BY <1>6
<1>15. w = e \o r
  BY <1>13, <1>14, ConcatSimplifications
<1> QED
  BY <1>1, <1>6, <1>7, <1>11, <1>15 DEF IsRest

--------------------------------------------------------------------------------
(***************************************************************************)
(* Where the reader stands in a sound answer: what is left of it, and of   *)
(* its body; or the connection has broken off in a line, and nothing more  *)
(* comes.                                                                  *)
(***************************************************************************)
NothingOut == headers = << >> /\ out = << >>
InStatusLine ==
  /\ NothingOut
  /\ \/ Rest = AnswerOf(message)
     \/ message.continues /\ Rest = StatusLine("100") \o (CRLF \o AnswerOf(message))
InContinue == NothingOut /\ Rest = CRLF \o AnswerOf(message)
InHeaders ==
  /\ out = << >> /\ status = message.status
  /\ \E k \in 0..Len(message.headers) :
       headers = [i \in 1..k |-> Seen(message.headers[i])] /\ Rest = HeadersFrom(message, k)
InLength == left > 0 /\ message.chunks = << >> /\ Len(Rest) = left /\ message.body = out \o Rest
InUntilEnd == message.body = out \o Rest /\ ~Delimited(message)
InChunkSize ==
  /\ message.chunks # << >>
  /\ \E k \in 0..Len(message.chunks) :
       Rest = ChunksFrom(message, k) /\ message.body = out \o BodyFrom(message, k)
InChunk ==
  /\ message.chunks # << >> /\ left > 0
  /\ \E k \in 0..Len(message.chunks), d \in Seq(Byte) :
       /\ Len(d) = left /\ Rest = d \o (message.after \o ChunksFrom(message, k))
       /\ message.body = out \o (d \o BodyFrom(message, k))
InChunkEnd ==
  /\ message.chunks # << >>
  /\ \E k \in 0..Len(message.chunks) :
       Rest = message.after \o ChunksFrom(message, k) /\ message.body = out \o BodyFrom(message, k)
InLastEnd == message.chunks # << >> /\ Rest = message.trailer \o CRLF /\ message.body = out
IsDone == Delimited(message) /\ ~BrokenAfterCR => out = message.body
HasFailed ==
  \/ refused \/ returned = "error" \/ sent # Bytes(message)
  \/ message.trailer # << >> /\ out = message.body

Stands ==
  \/ Torn /\ reading \in {"statusLine", "headers", "chunk", "lastEnd"}
  \/ reading = "statusLine" /\ InStatusLine
  \/ reading = "continueEnd" /\ InContinue
  \/ reading = "headers" /\ InHeaders
  \/ reading = "length" /\ InLength
  \/ reading = "untilEnd" /\ InUntilEnd
  \/ reading = "chunkSize" /\ InChunkSize
  \/ reading = "chunk" /\ InChunk
  \/ reading = "chunkEnd" /\ InChunkEnd
  \/ reading = "lastEnd" /\ InLastEnd
  \/ reading = "done" /\ IsDone
  \/ reading = "failed" /\ HasFailed

Received == out \in Seq(Byte) /\ IsPrefix(out, message.body)
ReaderInv == Sound(message) => LineInv /\ Received /\ Stands

\* Half a line, and a line that breaks off.
LEMMA HalfALine ==
  ASSUME GoesOn, Rest' = Rest
  PROVE  /\ InStatusLine => InStatusLine'
         /\ InContinue => InContinue'
         /\ InHeaders => InHeaders'
         /\ InChunkSize => InChunkSize'
         /\ InChunkEnd => InChunkEnd'
         /\ InLastEnd => InLastEnd'
<1> USE DEF GoesOn
<1>1. InStatusLine => InStatusLine'
  BY DEF InStatusLine, NothingOut
<1>2. InContinue => InContinue'
  BY DEF InContinue, NothingOut
<1>3. InHeaders => InHeaders'
  BY DEF InHeaders
<1>4. InChunkSize => InChunkSize'
  BY DEF InChunkSize
<1>5. InChunkEnd => InChunkEnd'
  BY DEF InChunkEnd
<1>6. InLastEnd => InLastEnd'
  BY DEF InLastEnd
<1> QED
  BY <1>1, <1>2, <1>3, <1>4, <1>5, <1>6

LEMMA BrokenOff == ASSUME BreaksOff PROVE Stands' /\ UNCHANGED << message, out >>
  BY DEF BreaksOff, Becomes, Stands, HasFailed

LEMMA TornFails ==
  ASSUME Torn', reading' = "failed" PROVE Stands'
  BY DEF Torn, Stands, HasFailed

LEMMA Triple == ASSUME NEW S, NEW x \in S, NEW y \in S, NEW z \in S PROVE Append(<< x, y >>, z) = << x, y, z >>
<1>1. PICK s, t : s = Append(<< x, y >>, z) /\ t = << x, y, z >>
  OBVIOUS
<1>2. << x, y >> \in Seq(S) /\ Len(<< x, y >>) = 2
  OBVIOUS
<1>3. s \in Seq(S) /\ Len(s) = 3 /\ s[1] = x /\ s[2] = y /\ s[3] = z
  BY <1>1, <1>2
<1>4. t \in Seq(S) /\ Len(t) = 3 /\ t[1] = x /\ t[2] = y /\ t[3] = z
  BY <1>1
<1>5. \A i \in 1..Len(s) : s[i] = t[i]
  BY <1>3, <1>4
<1> QED
  BY <1>1, <1>3, <1>4, <1>5, SeqEqual

--------------------------------------------------------------------------------
(***************************************************************************)
(* The steps, phase by phase.  In a line: it goes on, is complete, is torn *)
(* or breaks off.                                                          *)
(***************************************************************************)
LEMMA StatusLineStep ==
  ASSUME LineInv, reading = "statusLine", InStatusLine, ReadLineByte
  PROVE  LineInv' /\ Stands' /\ UNCHANGED << message, out >>
<1>1. message \in Answers
  BY DEF LineInv
<1>2. PICK s, y : /\ s \in Statuses /\ Splits(Rest, << s, CR >>, y)
                  /\ \/ s = message.status /\ s # "100" /\ y = HeadersFrom(message, 0)
                     \/ s = "100" /\ y = CRLF \o AnswerOf(message)
  <2>1. CASE Rest = AnswerOf(message)
    <3>1. message.status \in Statuses /\ message.status # "100" /\ 0 \in 0..Len(message.headers)
      BY <1>1, AnswerTypes
    <3>2. HeadersFrom(message, 0) \in Seq(Byte)
      BY <1>1, <3>1, HeadersFromIs
    <3>3. Splits(Rest, << message.status, CR >>, HeadersFrom(message, 0))
      BY <2>1, <3>1, <3>2, StatusSplits DEF AnswerOf
    <3> QED
      BY <3>1, <3>3
  <2>2. CASE Rest = StatusLine("100") \o (CRLF \o AnswerOf(message))
    <3>1. "100" \in Statuses
      BY DEF Statuses
    <3>2. CRLF \o AnswerOf(message) \in Seq(Byte)
      BY <1>1, BytesAre
    <3>3. Splits(Rest, << "100", CR >>, CRLF \o AnswerOf(message))
      BY <2>2, <3>1, <3>2, StatusSplits
    <3> QED
      BY <3>1, <3>3
  <2> QED
    BY <2>1, <2>2 DEF InStatusLine
<1>3. PICK x : x = << s, CR >>
  OBVIOUS
<1>4. /\ LineInv'
      /\ (GoesOn /\ Rest' = Rest) \/ ReadsLine(x, y) \/ ReadsTornLine(x) \/ BreaksOff
  BY <1>1, <1>2, <1>3, BytesAre, ReadLine
<1>5. CASE GoesOn /\ Rest' = Rest
  BY <1>4, <1>5, HalfALine DEF GoesOn, Stands
<1>6. CASE ReadsLine(x, y)
  <2>1. WithLF(x) = << s, CR, LF >>
    BY <1>2, <1>3, TextsAreBytes, SymbolsAreBytes, Triple DEF WithLF
  <2>2. PICK line : line = << s, CR, LF >>
    OBVIOUS
  <2>3. Len(line) = 3 /\ line[1] = s /\ Tail(line) = CRLF
    BY <2>2, SymbolsAreBytes
  <2>4. TakeLine(line) /\ Rest' = y /\ UNCHANGED << message, out >>
    BY <1>6, <2>1, <2>2 DEF ReadsLine
  <2>5. TakeStatusLine(line)
    BY <2>4 DEF TakeLine
  <2>6. /\ status' = s /\ headers' = headers
        /\ reading' = IF s = "100" THEN "continueEnd" ELSE "headers"
    BY <1>2, <2>3, <2>5 DEF TakeStatusLine
  <2>7. headers = << >> /\ out = << >>
    BY DEF InStatusLine, NothingOut
  <2>8. CASE s = "100"
    <3>1. y = CRLF \o AnswerOf(message)
      BY <1>1, <1>2, <2>8
    <3> QED
      BY <1>4, <2>4, <2>6, <2>7, <2>8, <3>1 DEF Stands, InContinue, NothingOut
  <2>9. CASE s # "100"
    <3>1. s = message.status /\ y = HeadersFrom(message, 0)
      BY <1>2, <2>9
    <3>2. << >> = [i \in 1..0 |-> Seen(message.headers[i])] /\ 0 \in 0..Len(message.headers)
      BY <1>1, AnswerTypes
    <3>3. InHeaders'
      BY <2>4, <2>6, <2>7, <3>1, <3>2 DEF InHeaders
    <3> QED
      BY <1>4, <2>4, <2>6, <2>9, <3>3 DEF Stands
  <2> QED
    BY <2>8, <2>9
<1>7. CASE ReadsTornLine(x)
  <2>1. TakeLine(Line) /\ Torn' /\ UNCHANGED << message, out >> /\ Line \in Seq(Byte) /\ NoLF(Line)
    BY <1>7 DEF ReadsTornLine
  <2>2. PICK line : line = Line
    OBVIOUS
  <2>3. ~(Len(line) = 3 /\ Tail(line) = CRLF)
    <3> SUFFICES ASSUME Len(line) = 3, Tail(line) = CRLF PROVE FALSE
      OBVIOUS
    <3>1. line \in Seq(Byte) /\ NoLF(line)
      BY <2>1, <2>2
    <3>2. Tail(line)[2] = line[3]
      BY <3>1
    <3>3. CRLF[2] = LF
      BY SymbolsAreBytes
    <3>4. 3 \in 1..Len(line)
      OBVIOUS
    <3> QED
      BY <3>1, <3>2, <3>3, <3>4 DEF NoLF
  <2>4. TakeStatusLine(line)
    BY <2>1, <2>2 DEF TakeLine
  <2>5. reading' = "failed"
    BY <2>3, <2>4 DEF TakeStatusLine, Becomes
  <2> QED
    BY <1>4, <2>1, <2>5, TornFails
<1>8. CASE BreaksOff
  BY <1>4, <1>8, BrokenOff
<1> QED
  BY <1>4, <1>5, <1>6, <1>7, <1>8

LEMMA ContinueStep ==
  ASSUME LineInv, reading = "continueEnd", InContinue, ReadLineByte
  PROVE  LineInv' /\ Stands' /\ UNCHANGED << message, out >>
<1>1. message \in Answers
  BY DEF LineInv
<1>2. PICK x, y : Splits(Rest, x, y) /\ y = AnswerOf(message)
  BY <1>1, BytesAre, NothingSplits DEF InContinue
<1>3. /\ LineInv'
      /\ (GoesOn /\ Rest' = Rest) \/ ReadsLine(x, y) \/ ReadsTornLine(x) \/ BreaksOff
  BY <1>1, <1>2, BytesAre, ReadLine
<1>4. CASE GoesOn /\ Rest' = Rest
  BY <1>3, <1>4, HalfALine DEF GoesOn, Stands
<1>5. CASE ReadsLine(x, y)
  <2>1. Becomes("statusLine") /\ Rest' = y /\ UNCHANGED << message, out >>
    BY <1>5 DEF ReadsLine, TakeLine
  <2>2. InStatusLine'
    BY <1>2, <2>1 DEF InContinue, InStatusLine, NothingOut, Becomes
  <2> QED
    BY <1>3, <2>1, <2>2 DEF Stands, Becomes
<1>6. CASE ReadsTornLine(x)
  <2>1. Becomes("statusLine") /\ Torn' /\ UNCHANGED << message, out >>
    BY <1>6 DEF ReadsTornLine, TakeLine
  <2> QED
    BY <1>3, <2>1 DEF Stands, Becomes
<1>7. CASE BreaksOff
  BY <1>3, <1>7, BrokenOff
<1> QED
  BY <1>3, <1>4, <1>5, <1>6, <1>7

LEMMA NothingElse == ASSUME NEW s \in Seq(Byte) PROVE << >> \o s = s /\ s \o << >> = s
  BY ConcatEmptySeq

\* What the headers of a sound answer make the client read of its body.
LEMMA BodyStarts ==
  ASSUME message \in Answers, Sound(message), out = << >>, status = message.status,
         headers = [i \in 1..Len(message.headers) |-> Seen(message.headers[i])],
         StartBody(BodyPhase), Rest' = EncodedBody(message), UNCHANGED << message, out >>
  PROVE  Stands'
<1> DEFINE a == message
           hs == message.headers
<1>1. /\ hs \in Seq(HeaderTexts \cup {"long", "tooLong"}) /\ Len(hs) \in Nat
      /\ a.body \in Seq(Byte) /\ a.chunks \in Seq(Seq(Byte))
  BY AnswerTypes
<1>2. Len(headers) = Len(hs) /\ Len(headers) \in Nat /\ \A i \in 1..Len(hs) : headers[i] = Seen(hs[i])
  BY <1>1
<1>3. DOMAIN hs = 1..Len(hs)
  BY <1>1
<1>4. \A i \in 1..Len(hs) : hs[i] \notin {"gzip", "tooLong", "otherEncoding"}
  BY <1>3 DEF Sound
<1>5. ASSUME NEW kind, "other" \notin kind
      PROVE  /\ Has(kind) <=> \E i \in 1..Len(hs) : headers[i] \in kind
             /\ Has(kind) => Value(kind) \in kind /\ \E i \in 1..Len(hs) : Value(kind) = headers[i]
             /\ \A i \in 1..Len(hs) : headers[i] \in kind => headers[i] = hs[i]
  <2>1. /\ Has(kind) <=> \E i \in 1..Len(headers) : headers[i] \in kind
        /\ Has(kind) => Value(kind) \in kind /\ \E i \in 1..Len(headers) : Value(kind) = headers[i]
    BY <1>2, ValueIs
  <2>2. \A i \in 1..Len(hs) : headers[i] \in kind => headers[i] = hs[i]
    BY <1>2, <1>5 DEF Seen
  <2> QED
    BY <1>2, <2>1, <2>2
<1>6. ~Has({"gzip"})
  <2>1. "other" \notin {"gzip"}
    OBVIOUS
  <2> QED
    BY <1>4, <1>5, <2>1
<1>7. "other" \notin TransferEncodings /\ "other" \notin DOMAIN LengthOf
  <2>1. DOMAIN LengthOf = DOMAIN ContentLengths \cup {"lengthText"}
    BY DEF LengthOf
  <2>2. "other" \notin DOMAIN ContentLengths
    BY SymbolsAssumption
  <2> QED
    BY <2>1, <2>2 DEF TransferEncodings
<1>8. CASE status = "204"
  <2>1. reading' = "done" /\ message.body = << >>
    BY <1>8 DEF StartBody, BodyPhase, Sound
  <2> QED
    BY <2>1 DEF Stands, IsDone
<1>9. CASE status # "204" /\ a.chunks # << >>
  <2>1. "chunked" \in ToSet(hs) /\ FlattenSeq(a.chunks) = a.body
    BY <1>9 DEF Sound
  <2>2. PICK i \in 1..Len(hs) : hs[i] = "chunked"
    BY <1>3, <2>1 DEF ToSet
  <2>3. headers[i] = "chunked"
    BY <1>2, <2>2 DEF Seen
  <2>4. Has(TransferEncodings)
    BY <1>5, <1>7, <2>3 DEF TransferEncodings
  <2>5. Value(TransferEncodings) \in TransferEncodings /\ \E j \in 1..Len(hs) : Value(TransferEncodings) = hs[j]
    BY <1>5, <1>7, <2>4
  <2>6. Chunked
    BY <1>4, <2>4, <2>5 DEF Chunked, TransferEncodings
  <2>7. reading' = "chunkSize"
    BY <1>6, <1>9, <2>6 DEF StartBody, BodyPhase
  <2>8. Rest' = ChunksFrom(a, 0) /\ 0 \in 0..Len(a.chunks)
    BY <1>1, <1>9, EncodedBodyIs
  <2>9. BodyFrom(a, 0) = a.body
    BY <1>1, <2>1, FromStart DEF BodyFrom
  <2>10. out \o BodyFrom(a, 0) = a.body
    BY <1>1, <2>9, NothingElse
  <2>11. InChunkSize'
    BY <1>9, <2>8, <2>10 DEF InChunkSize
  <2> QED
    BY <2>7, <2>11 DEF Stands
<1>10. CASE status # "204" /\ a.chunks = << >>
  <2>1. \A i \in 1..Len(hs) : hs[i] # "chunked" /\ (hs[i] \in DOMAIN LengthOf => LengthOf[hs[i]] = Len(a.body))
    BY <1>3, <1>10 DEF Sound
  <2>2. ~Has(TransferEncodings)
    BY <1>4, <1>5, <1>7, <2>1 DEF TransferEncodings
  <2>3. BodyPhase = IF Has(DOMAIN LengthOf) THEN "length" ELSE "untilEnd"
    BY <1>6, <1>10, <2>2 DEF BodyPhase, Chunked
  <2>4. Rest' = a.body /\ out \o a.body = a.body
    BY <1>1, <1>10, EncodedBodyIs, NothingElse
  <2>5. CASE Has(DOMAIN LengthOf)
    <3>1. Value(DOMAIN LengthOf) \in DOMAIN LengthOf /\ \E i \in 1..Len(hs) : Value(DOMAIN LengthOf) = hs[i]
      BY <1>5, <1>7, <2>5
    <3>2. LengthOf[Value(DOMAIN LengthOf)] = Len(a.body)
      BY <2>1, <3>1
    <3>3. left' = Len(a.body) /\ reading' = IF left' = 0 THEN "done" ELSE "length"
      BY <2>3, <2>5, <3>2 DEF StartBody
    <3>4. CASE Len(a.body) = 0
      <4>1. a.body = << >>
        BY <1>1, <3>4
      <4> QED
        BY <3>3, <3>4, <4>1 DEF Stands, IsDone
    <3>5. CASE Len(a.body) # 0
      <4>1. Len(a.body) > 0
        BY <1>1, <3>5
      <4>2. InLength'
        BY <1>10, <2>4, <3>3, <4>1 DEF InLength
      <4> QED
        BY <3>3, <3>5, <4>2 DEF Stands
    <3> QED
      BY <3>4, <3>5
  <2>6. CASE ~Has(DOMAIN LengthOf)
    <3>1. reading' = "untilEnd"
      BY <2>3, <2>6 DEF StartBody
    <3>2. ~\E i \in 1..Len(hs) : hs[i] \in DOMAIN LengthOf
      <4> SUFFICES ASSUME NEW i \in 1..Len(hs), hs[i] \in DOMAIN LengthOf PROVE FALSE
        OBVIOUS
      <4>1. hs[i] # "long" /\ hs[i] # "tooLong"
        BY TextsAreBytes DEF HeaderTexts
      <4>2. headers[i] = hs[i]
        BY <1>2, <4>1 DEF Seen
      <4> QED
        BY <1>5, <1>7, <2>6, <4>2
    <3>3. ~Delimited(a)
      BY <1>3, <1>10, <3>2 DEF Delimited
    <3>4. InUntilEnd'
      BY <2>4, <3>3 DEF InUntilEnd
    <3> QED
      BY <3>1, <3>4 DEF Stands
  <2> QED
    BY <2>5, <2>6
<1> QED
  BY <1>8, <1>9, <1>10

LEMMA HeadersStep ==
  ASSUME LineInv, Sound(message), reading = "headers", InHeaders, ReadLineByte
  PROVE  LineInv' /\ Stands' /\ UNCHANGED << message, out >>
<1>1. message \in Answers /\ message.lineEnd = CRLF
  BY DEF LineInv, Sound
<1>2. PICK k \in 0..Len(message.headers) :
        headers = [i \in 1..k |-> Seen(message.headers[i])] /\ Rest = HeadersFrom(message, k)
  BY DEF InHeaders
<1>3. out = << >> /\ status = message.status
  BY DEF InHeaders
<1>4. \A x, y : Splits(Rest, x, y) =>
        LineInv' /\ ((GoesOn /\ Rest' = Rest) \/ ReadsLine(x, y) \/ ReadsTornLine(x) \/ BreaksOff)
  BY <1>1, BytesAre, ReadLine
<1>5. ASSUME NEW x, ReadsTornLine(x), LineInv' PROVE Stands' /\ UNCHANGED << message, out >>
  <2>1. TakeLine(Line) /\ Torn' /\ UNCHANGED << message, out >> /\ ~IsSuffix(CRLF, Line)
    BY <1>5, EndsInCRLF DEF ReadsTornLine
  <2>2. PICK line : line = Line
    OBVIOUS
  <2>3. TakeHeader(line)
    BY <2>1, <2>2 DEF TakeLine
  <2>4. reading' = "headers"
    BY <2>1, <2>2, <2>3 DEF TakeHeader
  <2> QED
    BY <2>1, <2>4 DEF Stands
<1>6. ASSUME GoesOn, Rest' = Rest PROVE Stands' /\ UNCHANGED << message, out >>
  BY <1>6, HalfALine DEF GoesOn, Stands
<1>7. ASSUME BreaksOff PROVE Stands' /\ UNCHANGED << message, out >>
  BY <1>7, BrokenOff
<1>8. CASE k = Len(message.headers)
  <2>1. PICK x, y : x = << CR >> /\ y = EncodedBody(message)
    OBVIOUS
  <2>2. Splits(Rest, x, y)
    BY <1>1, <1>2, <1>8, <2>1, HeaderSplits
  <2>3. ASSUME ReadsLine(x, y) PROVE Stands' /\ UNCHANGED << message, out >>
    <3>1. TakeLine(CRLF) /\ Rest' = y /\ UNCHANGED << message, out >>
      BY <2>1, <2>3, SymbolsAreBytes DEF ReadsLine
    <3>2. TakeHeader(CRLF)
      BY <3>1 DEF TakeLine
    <3>3. IsSuffix(CRLF, CRLF)
      <4>1. PICK e : e = << >>
        OBVIOUS
      <4>2. e \in Seq(Byte) /\ e \o CRLF = CRLF
        BY <4>1, SymbolsAreBytes, NothingElse
      <4> QED
        BY <4>2, EndsInCRLF
    <3>4. StartBody(BodyPhase)
      BY <3>2, <3>3 DEF TakeHeader
    <3>5. Stands'
      BY <1>1, <1>2, <1>3, <1>8, <2>1, <3>1, <3>4, BodyStarts
    <3> QED
      BY <3>1, <3>5
  <2> QED
    BY <1>4, <1>5, <1>6, <1>7, <2>2, <2>3
<1>9. CASE k # Len(message.headers)
  <2>1. PICK n, h, t : n = k + 1 /\ h = message.headers[n] /\ t = HeaderText(h)
    OBVIOUS
  <2>2. n \in 1..Len(message.headers) /\ n \in 0..Len(message.headers) /\ k \in Nat
    BY <1>1, <1>9, <2>1, AnswerTypes
  <2>3. h \in HeaderTexts \cup {"long", "tooLong"} /\ h # "tooLong"
    <3>1. message.headers \in Seq(HeaderTexts \cup {"long", "tooLong"})
      BY <1>1, AnswerTypes
    <3>2. n \in DOMAIN message.headers /\ h \in HeaderTexts \cup {"long", "tooLong"}
      BY <2>1, <2>2, <3>1
    <3> QED
      BY <2>1, <3>2 DEF Sound
  <2>4. t \in Seq(Byte) /\ NoLF(t) /\ Len(t) > 0 /\ t[1] = Seen(h) /\ Len(t) <= FixedSize - 1
    BY <2>1, <2>3, HeaderTextIs
  <2>5. PICK x, y : x = Append(t, CR) /\ y = HeadersFrom(message, n)
    OBVIOUS
  <2>6. Splits(Rest, x, y) /\ WithLF(x) = t \o CRLF
    BY <1>1, <1>2, <1>9, <2>1, <2>5, HeaderSplits
  <2>7. ASSUME ReadsLine(x, y) PROVE Stands' /\ UNCHANGED << message, out >>
    <3>1. PICK line : line = t \o CRLF
      OBVIOUS
    <3>2. TakeLine(line) /\ Rest' = y /\ UNCHANGED << message, out >>
      BY <2>6, <2>7, <3>1 DEF ReadsLine
    <3>3. TakeHeader(line)
      BY <3>2 DEF TakeLine
    <3>4. IsSuffix(CRLF, line)
      BY <2>4, <3>1, EndsInCRLF
    <3>5. line \in Seq(Byte) /\ Len(line) = Len(t) + 2 /\ line[1] = Seen(h)
      <4>1. CRLF \in Seq(Byte) /\ Len(CRLF) = 2
        BY SymbolsAreBytes
      <4>2. Follow(line, t, CRLF)
        BY <2>4, <3>1, <4>1, ConcatFollows
      <4>3. 1 \in 1..Len(t)
        BY <2>4
      <4> QED
        BY <2>4, <4>1, <4>2, <4>3 DEF Follow
    <3>6. line # CRLF /\ ~(Len(line) > MaxHeader)
      <4>1. Len(CRLF) = 2 /\ Len(line) # 2
        BY <2>4, <3>5, SymbolsAreBytes
      <4>2. ~(Len(line) > MaxHeader)
        BY <2>4, <3>5, ReaderSizesAssumption
      <4> QED
        BY <4>1, <4>2
    <3>7. Seen(h) \in HeaderTexts
      BY <2>3, TextsAreBytes DEF Seen
    <3>8. headers' = Append(headers, Seen(h)) /\ UNCHANGED << reading, left, status >>
      BY <3>3, <3>4, <3>5, <3>6, <3>7 DEF TakeHeader
    <3>9. Append(headers, Seen(h)) = [i \in 1..n |-> Seen(message.headers[i])]
      <4>1. \A i \in 1..k : Seen(message.headers[i]) \in HeaderTexts
        <5> SUFFICES ASSUME NEW i \in 1..k PROVE Seen(message.headers[i]) \in HeaderTexts
          OBVIOUS
        <5>1. i \in 1..Len(message.headers)
          BY <2>1, <2>2
        <5>2. message.headers[i] \in HeaderTexts \cup {"long", "tooLong"}
          BY <1>1, <5>1, AnswerTypes
        <5> QED
          BY <5>2, TextsAreBytes DEF Seen
      <4>2. PICK s, u : s = Append(headers, Seen(h)) /\ u = [i \in 1..n |-> Seen(message.headers[i])]
        OBVIOUS
      <4>3. headers \in Seq(HeaderTexts) /\ Len(headers) = k
        BY <1>2, <2>2, <4>1
      <4>4. /\ s \in Seq(HeaderTexts) /\ Len(s) = k + 1 /\ s[k + 1] = Seen(h)
            /\ \A i \in 1..k : s[i] = headers[i]
        BY <3>7, <4>2, <4>3, AppendProperties
      <4>5. \A i \in 1..n : u[i] \in HeaderTexts
        BY <2>1, <2>2, <3>7, <4>1, <4>2
      <4>6. u \in Seq(HeaderTexts) /\ Len(u) = n
        BY <2>1, <2>2, <4>2, <4>5
      <4>7. \A i \in 1..Len(s) : s[i] = u[i]
        BY <1>2, <2>1, <2>2, <4>2, <4>4
      <4>8. s = u
        BY <2>1, <4>4, <4>6, <4>7, SeqEqual
      <4> QED
        BY <4>2, <4>8
    <3>10. InHeaders'
      BY <1>3, <2>2, <2>5, <3>2, <3>8, <3>9 DEF InHeaders
    <3> QED
      BY <3>2, <3>8, <3>10 DEF Stands
  <2> QED
    BY <1>4, <1>5, <1>6, <1>7, <2>6, <2>7
<1> QED
  BY <1>8, <1>9

LEMMA ChunkSizeStep ==
  ASSUME LineInv, reading = "chunkSize", InChunkSize, ReadLineByte
  PROVE  LineInv' /\ Stands' /\ UNCHANGED << message, out >>
<1>1. message \in Answers /\ message.chunks # << >>
  BY DEF LineInv, InChunkSize
<1>2. PICK k \in 0..Len(message.chunks) :
        Rest = ChunksFrom(message, k) /\ message.body = out \o BodyFrom(message, k)
  BY DEF InChunkSize
<1>3. PICK size, y :
        /\ size \in DOMAIN ChunkLength
        /\ Splits(Rest, << size, CR >>, y)
        /\ k = Len(message.chunks) => ChunkLength[size] = 0 /\ y = message.trailer \o CRLF
        /\ k # Len(message.chunks) => /\ ChunkLength[size] = Len(message.chunks[k + 1])
                                      /\ y = message.chunks[k + 1] \o (message.after \o ChunksFrom(message, k + 1))
  BY <1>1, <1>2, ChunkSplits
<1>4. PICK x : x = << size, CR >>
  OBVIOUS
<1>5. /\ LineInv'
      /\ (GoesOn /\ Rest' = Rest) \/ ReadsLine(x, y) \/ ReadsTornLine(x) \/ BreaksOff
  BY <1>1, <1>3, <1>4, BytesAre, ReadLine
<1>6. size \in Byte /\ size # LF
  BY <1>3, AnswersAssumption, SymbolsAssumption
<1>7. CASE GoesOn /\ Rest' = Rest
  BY <1>5, <1>7, HalfALine DEF GoesOn, Stands
<1>8. CASE ReadsLine(x, y)
  <2>1. WithLF(x) = << size, CR, LF >>
    BY <1>4, <1>6, SymbolsAreBytes, Triple DEF WithLF
  <2>2. PICK line : line = << size, CR, LF >>
    OBVIOUS
  <2>3. TakeLine(line) /\ Rest' = y /\ UNCHANGED << message, out >> /\ line[1] = size
    BY <1>8, <2>1, <2>2 DEF ReadsLine
  <2>4. TakeChunkSize(line)
    BY <2>3 DEF TakeLine
  <2>5. left' = ChunkLength[size] /\ reading' = IF left' = 0 THEN "lastEnd" ELSE "chunk"
    BY <1>3, <2>3, <2>4 DEF TakeChunkSize
  <2>6. CASE k = Len(message.chunks)
    <3>1. BodyFrom(message, k) = << >> /\ message.body \in Seq(Byte) /\ BodyFrom(message, k) \in Seq(Byte)
      BY <1>1, <2>6, ChunksFromIs, AnswerTypes
    <3>2. message.body = out
      <4>1. out \o << >> = out
        OBVIOUS
      <4> QED
        BY <1>2, <3>1, <4>1
    <3>3. InLastEnd'
      BY <1>1, <1>3, <2>3, <2>6, <3>2 DEF InLastEnd
    <3> QED
      BY <1>3, <1>5, <2>3, <2>5, <2>6, <3>3 DEF Stands
  <2>7. CASE k # Len(message.chunks)
    <3>1. k + 1 \in 1..Len(message.chunks) /\ k + 1 \in 0..Len(message.chunks)
      BY <1>1, <2>7, AnswerTypes
    <3>2. PICK d, n : d = message.chunks[k + 1] /\ n = k + 1
      OBVIOUS
    <3>3. d \in Seq(Byte) /\ Len(d) > 0
      BY <1>1, <3>1, <3>2, AnswerTypes
    <3>4. BodyFrom(message, k) = d \o BodyFrom(message, n)
      BY <1>1, <2>7, <3>2, ChunksFromIs
    <3>5. left' = Len(d) /\ Rest' = d \o (message.after \o ChunksFrom(message, n))
      BY <1>3, <2>3, <2>5, <2>7, <3>2
    <3>6. InChunk'
      BY <1>1, <1>2, <2>3, <3>1, <3>2, <3>3, <3>4, <3>5 DEF InChunk
    <3> QED
      BY <1>5, <2>3, <2>5, <3>3, <3>5, <3>6 DEF Stands
  <2> QED
    BY <2>6, <2>7
<1>9. CASE ReadsTornLine(x)
  <2>1. /\ TakeLine(Line) /\ Torn' /\ UNCHANGED << message, out >>
        /\ Line # << >> /\ Line \in Seq(Byte) /\ Len(Line) <= Len(x) /\ \A i \in 1..Len(Line) : Line[i] = x[i]
    BY <1>9 DEF ReadsTornLine
  <2>2. PICK line : line = Line
    OBVIOUS
  <2>3. 1 \in 1..Len(line)
    BY <2>1, <2>2
  <2>4. line[1] = size
    BY <1>4, <2>1, <2>2, <2>3
  <2>5. TakeChunkSize(line)
    BY <2>1, <2>2 DEF TakeLine
  <2>6. reading' \in {"lastEnd", "chunk"}
    BY <1>3, <2>4, <2>5 DEF TakeChunkSize
  <2> QED
    BY <1>5, <2>1, <2>6 DEF Stands
<1>10. CASE BreaksOff
  BY <1>5, <1>10, BrokenOff
<1> QED
  BY <1>5, <1>7, <1>8, <1>9, <1>10

LEMMA ChunkEndStep ==
  ASSUME LineInv, Sound(message), reading = "chunkEnd", InChunkEnd, ReadLineByte
  PROVE  LineInv' /\ Stands' /\ UNCHANGED << message, out >>
<1>1. message \in Answers /\ message.chunks # << >> /\ (message.after = CRLF \/ ~IsPrefix(CRLF, message.after))
  BY DEF LineInv, InChunkEnd, Sound
<1>2. PICK k \in 0..Len(message.chunks) :
        Rest = message.after \o ChunksFrom(message, k) /\ message.body = out \o BodyFrom(message, k)
  BY DEF InChunkEnd
<1>3. PICK x, y : /\ Splits(Rest, x, y)
                  /\ message.after = CRLF => x = << CR >> /\ y = ChunksFrom(message, k)
                  /\ message.after # CRLF => WithLF(x) # CRLF
  BY <1>1, <1>2, ChunkEndSplits
<1>4. /\ LineInv'
      /\ (GoesOn /\ Rest' = Rest) \/ ReadsLine(x, y) \/ ReadsTornLine(x) \/ BreaksOff
  BY <1>1, <1>3, BytesAre, ReadLine
<1>5. Delimited(message) => message.after = CRLF
  BY <1>1 DEF Delimited
<1>6. CASE GoesOn /\ Rest' = Rest
  BY <1>4, <1>6, HalfALine DEF GoesOn, Stands
<1>7. CASE ReadsLine(x, y)
  <2>1. /\ Becomes(IF WithLF(x) = CRLF THEN "chunkSize" ELSE "done")
        /\ Rest' = y /\ UNCHANGED << message, out >>
    BY <1>7 DEF ReadsLine, TakeLine
  <2>2. CASE message.after = CRLF
    <3>1. reading' = "chunkSize"
      BY <1>3, <2>1, <2>2, SymbolsAreBytes DEF Becomes
    <3>2. InChunkSize'
      BY <1>1, <1>2, <1>3, <2>1, <2>2 DEF InChunkSize
    <3> QED
      BY <1>4, <2>1, <3>1, <3>2 DEF Stands
  <2>3. CASE message.after # CRLF
    <3>1. reading' = "done" /\ ~Delimited(message)
      BY <1>3, <1>5, <2>1, <2>3 DEF Becomes
    <3> QED
      BY <1>4, <2>1, <3>1 DEF Stands, IsDone
  <2> QED
    BY <2>2, <2>3
<1>8. CASE ReadsTornLine(x)
  <2>1. /\ TakeLine(Line) /\ Torn' /\ UNCHANGED << message, out >> /\ sent' = sent
        /\ Line # << >> /\ Line \in Seq(Byte) /\ NoLF(Line) /\ sent[Len(sent)] = Line[Len(Line)]
        /\ Len(Line) <= Len(x) /\ \A i \in 1..Len(Line) : Line[i] = x[i]
    BY <1>8 DEF ReadsTornLine
  <2>2. reading' = "done"
    BY <2>1, EndsInCRLF DEF TakeLine, Becomes
  <2>3. ASSUME Delimited(message) PROVE BrokenAfterCR'
    <3>1. x = << CR >>
      BY <1>3, <1>5, <2>3
    <3>2. Len(Line) = 1 /\ Line[1] = CR
      BY <2>1, <3>1
    <3>3. sent'[Len(sent')] = CR
      BY <2>1, <3>2
    <3> QED
      BY <1>1, <2>1, <3>3 DEF BrokenAfterCR, Torn
  <2>4. IsDone'
    BY <2>1, <2>3 DEF IsDone
  <2> QED
    BY <1>4, <2>1, <2>2, <2>4 DEF Stands
<1>9. CASE BreaksOff
  BY <1>4, <1>9, BrokenOff
<1> QED
  BY <1>4, <1>6, <1>7, <1>8, <1>9

LEMMA LastEndStep ==
  ASSUME LineInv, reading = "lastEnd", InLastEnd, ReadLineByte
  PROVE  LineInv' /\ Stands' /\ UNCHANGED << message, out >>
<1>1. message \in Answers /\ message.chunks # << >> /\ Rest = message.trailer \o CRLF /\ message.body = out
  BY DEF LineInv, InLastEnd
<1>2. PICK x, y : Splits(Rest, x, y) /\ (message.trailer = << >> => x = << CR >>)
  BY <1>1, LastSplits
<1>3. /\ LineInv'
      /\ (GoesOn /\ Rest' = Rest) \/ ReadsLine(x, y) \/ ReadsTornLine(x) \/ BreaksOff
  BY <1>1, <1>2, BytesAre, ReadLine
<1>4. CASE GoesOn /\ Rest' = Rest
  BY <1>3, <1>4, HalfALine DEF GoesOn, Stands
<1>5. CASE ReadsLine(x, y)
  <2>1. Becomes(IF WithLF(x) = CRLF THEN "done" ELSE "failed") /\ UNCHANGED << message, out >>
    BY <1>5 DEF ReadsLine, TakeLine
  <2>2. message.trailer = << >> => WithLF(x) = CRLF
    BY <1>2, SymbolsAreBytes
  <2> QED
    BY <1>1, <1>3, <2>1, <2>2 DEF Becomes, Stands, IsDone, HasFailed
<1>6. CASE ReadsTornLine(x)
  <2>1. TakeLine(Line) /\ Torn' /\ UNCHANGED << message, out >> /\ Line # CRLF
    BY <1>6, EndsInCRLF DEF ReadsTornLine
  <2>2. reading' = "failed"
    BY <2>1 DEF TakeLine, Becomes
  <2> QED
    BY <1>3, <2>1, <2>2, TornFails
<1>7. CASE BreaksOff
  BY <1>3, <1>7, BrokenOff
<1> QED
  BY <1>3, <1>4, <1>5, <1>6, <1>7

\* Nothing more comes from a connection that broke off.
LEMMA TornLineStep ==
  ASSUME LineInv, Torn, ReadLineByte
  PROVE  LineInv' /\ Stands' /\ UNCHANGED << message, out >>
<1>1. message \in Answers /\ Bytes(message) \in Seq(Byte)
  BY BytesAre DEF LineInv
<1>2. PICK one : one = 1
  OBVIOUS
<1>3. ByteRead(one) /\ one \in Nat
  BY <1>2 DEF ReadLineByte
<1>4. /\ sent' = sent /\ taken \in Nat /\ taken' = taken /\ returned' # "bytes"
      /\ taken <= Len(sent)
  <2>1. /\ sent' = sent /\ taken \in Nat
        /\ \/ /\ returned' = "bytes" /\ Len(got') \in 1..one
              /\ taken' = taken + Len(got') /\ taken' <= Len(sent)
           \/ returned' = "end" /\ taken' = taken
           \/ returned' = "error" /\ taken' = taken
    BY <1>1, <1>3, ReadOne
  <2> QED
    BY <1>2, <2>1 DEF Torn
<1>5. fixed' = << >> /\ grown' = << >> /\ Becomes("failed") /\ UNCHANGED << message, out, refused >>
  BY <1>4 DEF ReadLineByte, Torn
<1>6. taken <= Len(Bytes(message)) /\ headers \in Seq(HeaderTexts) /\ left \in Nat
  BY DEF LineInv, InLine
<1>7. LineInv'
  BY <1>1, <1>4, <1>5, <1>6, LineInvNew DEF Becomes
<1>8. HasFailed'
  BY <1>4, <1>5 DEF HasFailed, Torn
<1> QED
  BY <1>5, <1>7, <1>8 DEF Becomes, Stands

IsAhead(o, g, w, body) == body = o \o (g \o w)
IsGiven(o, g, w, body) == o \o g \in Seq(Byte) /\ body = (o \o g) \o w /\ IsPrefix(o \o g, body)

\* What is given on from the body makes what was given longer, and stays a prefix of it.
LEMMA GivenOn ==
  ASSUME NEW o \in Seq(Byte), NEW g \in Seq(Byte), NEW w \in Seq(Byte), NEW body, IsAhead(o, g, w, body)
  PROVE  IsGiven(o, g, w, body)
<1>1. o \o g \in Seq(Byte)
  OBVIOUS
<1>2. Associates(o, g, w)
  BY JoinsAndAssociates, Zenon
<1>3. PICK p : p = o \o g
  OBVIOUS
<1>4. p \in Seq(Byte) /\ body = p \o w
  BY <1>1, <1>2, <1>3 DEF Associates, IsAhead
<1>5. Follow(body, p, w)
  BY <1>4, ConcatFollows
<1>6. body \in Seq(Byte) /\ Len(p) <= Len(body) /\ Len(p) \in 0..Len(p) /\ Len(p) \in 0..Len(body) /\ Len(p) \in Nat
  BY <1>4, <1>5 DEF Follow
<1>7. PICK q, u : q = SubSeq(p, 1, Len(p)) /\ u = SubSeq(body, 1, Len(p))
  OBVIOUS
<1>8. q \in Seq(Byte) /\ Len(q) = Len(p) /\ \A i \in 1..Len(p) : q[i] = p[i]
  BY <1>4, <1>6, <1>7, PrefixOf
<1>9. u \in Seq(Byte) /\ Len(u) = Len(p) /\ \A i \in 1..Len(p) : u[i] = body[i]
  BY <1>6, <1>7, PrefixOf
<1>10. \A i \in 1..Len(p) : body[i] = p[i]
  BY <1>5 DEF Follow
<1>11. q = u
  BY <1>8, <1>9, <1>10, SeqEqual
<1>12. IsPrefix(p, body)
  BY <1>6, <1>7, <1>11 DEF IsPrefix
<1> QED
  BY <1>1, <1>3, <1>4, <1>12 DEF IsGiven

\* What a read of data takes: the next bytes of what the server means to send.
TakesPiece(g, w) ==
  /\ returned' = "bytes" /\ got' = g /\ g \in Seq(Byte) /\ Len(g) \in 1..AskFor /\ Rest = g \o w /\ Rest' = w
FindsEnd == returned' = "end" /\ (Rest # << >> => sent' # Bytes(message'))
FindsError == returned' = "error"

LEMMA AskForIs ==
  ASSUME left \in Nat PROVE AskFor \in Nat /\ (reading # "untilEnd" => AskFor <= left)
  BY ReaderSizesAssumption DEF AskFor

\* A read of data leaves no line behind.
LEMMA DataStaysLine ==
  ASSUME LineInv, ReadData
  PROVE  /\ LineInv' /\ message' = message /\ sent' = sent /\ Line = << >>
         /\ Rest = From(Bytes(message), taken) /\ Rest' = From(Bytes(message), taken')
<1>1. message \in Answers /\ Bytes(message) \in Seq(Byte) /\ headers \in Seq(HeaderTexts) /\ left \in Nat
  BY BytesAre DEF LineInv
<1>2. PICK ask : ask = AskFor
  OBVIOUS
<1>3. ask \in Nat /\ (reading # "untilEnd" => ask <= left)
  BY <1>1, <1>2, AskForIs
<1>4. ByteRead(ask)
  BY <1>2 DEF ReadData
<1>5. /\ sent' = sent /\ taken \in Nat
      /\ \/ /\ returned' = "bytes" /\ Len(got') \in 1..ask
            /\ taken' = taken + Len(got') /\ taken' <= Len(sent) /\ taken' <= Len(Bytes(message))
         \/ returned' = "end" /\ taken' = taken
         \/ returned' = "error" /\ taken' = taken
  BY <1>1, <1>3, <1>4, ReadOne
<1>6. taken <= Len(sent) /\ taken <= Len(Bytes(message)) /\ taken \in 0..Len(Bytes(message))
  BY DEF LineInv, InLine
<1>7. taken' \in Nat /\ taken' <= Len(sent) /\ taken' <= Len(Bytes(message))
  BY <1>5, <1>6
<1>8. reading \in DataPhases /\ fixed = << >> /\ grown = << >>
  BY DEF LineInv, ReadData, LinePhases, DataPhases
<1>9. fixed' = << >> /\ grown' = << >> /\ message' = message /\ headers' = headers
  BY <1>8 DEF ReadData
<1>10. left' \in Nat
  <2>1. CASE returned' = "bytes"
    <3>1. left' = IF reading = "untilEnd" THEN left ELSE left - Len(got')
      BY <2>1 DEF ReadData
    <3>2. Len(got') \in Nat /\ (reading # "untilEnd" => Len(got') <= left)
      BY <1>1, <1>3, <1>5, <2>1
    <3> QED
      BY <1>1, <3>1, <3>2
  <2>2. CASE returned' # "bytes"
    <3>1. left' = left
      BY <2>2 DEF ReadData
    <3> QED
      BY <1>1, <3>1
  <2> QED
    BY <2>1, <2>2
<1>11. reading' \in DataPhases \cup {"done", "failed", "chunkEnd"}
  BY <1>8 DEF ReadData, DataPhases
<1>12. reading' \in LinePhases \/ reading' \in DataPhases \cup {"done", "failed"}
  BY <1>11 DEF LinePhases
<1>13. LineInv' /\ Rest' = From(Bytes(message), taken')
  BY <1>1, <1>5, <1>7, <1>9, <1>10, <1>12, LineInvNew
<1>14. Line = << >>
  BY <1>8 DEF Line
<1>15. taken - Len(Line) = taken
  BY <1>5, <1>14
<1> QED
  BY <1>5, <1>9, <1>13, <1>14, <1>15 DEF Rest

\* It takes a piece of what is left, or the connection has ended, or failed.
LEMMA ReadPiece ==
  ASSUME LineInv, ReadData
  PROVE  Rest' \in Seq(Byte) /\ ((\E g : TakesPiece(g, Rest')) \/ FindsEnd \/ FindsError)
<1>1. message \in Answers /\ Bytes(message) \in Seq(Byte) /\ left \in Nat
  BY BytesAre DEF LineInv
<1>2. PICK ask, b, n : ask = AskFor /\ b = Bytes(message) /\ n = taken
  OBVIOUS
<1>3. ask \in Nat /\ b \in Seq(Byte)
  BY <1>1, <1>2, AskForIs
<1>4. ByteRead(ask)
  BY <1>2 DEF ReadData
<1>5. n \in 0..Len(b)
  BY <1>2 DEF LineInv, InLine
<1>6. /\ sent' = sent /\ message' = message /\ Rest = From(b, n) /\ Rest' = From(b, taken')
  BY <1>2, DataStaysLine
<1>7. \/ /\ returned' = "bytes" /\ Len(got') \in 1..ask /\ got' \in Seq(Byte)
         /\ taken' = n + Len(got') /\ taken' <= Len(sent) /\ taken' <= Len(b)
         /\ \A i \in 1..Len(got') : got'[i] = b[n + i]
      \/ returned' = "end" /\ taken' = n /\ n = Len(sent) /\ (n < Len(b) => sent # b)
      \/ returned' = "error" /\ taken' = n
  BY <1>1, <1>2, <1>3, <1>4, ReadOne
<1>8. PICK r : r = From(b, n)
  OBVIOUS
<1>9. r \in Seq(Byte) /\ Len(r) = Len(b) - n /\ \A i \in 1..(Len(b) - n) : r[i] = b[n + i]
  BY <1>3, <1>5, <1>8, FromIs
<1>10. CASE /\ returned' = "bytes" /\ Len(got') \in 1..ask /\ got' \in Seq(Byte)
            /\ taken' = n + Len(got') /\ taken' <= Len(sent) /\ taken' <= Len(b)
            /\ \A i \in 1..Len(got') : got'[i] = b[n + i]
  <2>1. PICK g, m : g = got' /\ m = Len(got')
    OBVIOUS
  <2>2. g \in Seq(Byte) /\ m = Len(g) /\ m \in Nat /\ n + m \in 0..Len(b) /\ n \in Nat /\ m \in 0..(Len(b) - n)
    BY <1>3, <1>5, <1>10, <2>1
  <2>3. PICK w : w = From(b, n + m)
    OBVIOUS
  <2>4. w \in Seq(Byte) /\ Len(w) = Len(b) - (n + m) /\ \A i \in 1..(Len(b) - (n + m)) : w[i] = b[(n + m) + i]
    BY <1>3, <2>2, <2>3, FromIs
  <2>5. PICK s : s = g \o w
    OBVIOUS
  <2>6. Follow(s, g, w)
    BY <2>2, <2>4, <2>5, ConcatFollows
  <2>7. /\ s \in Seq(Byte) /\ Len(s) = m + Len(w) /\ \A i \in 1..m : s[i] = g[i]
        /\ \A i \in 1..Len(w) : s[m + i] = w[i]
    BY <2>2, <2>6 DEF Follow
  <2>8. Len(s) = Len(r)
    BY <1>3, <1>5, <1>9, <2>2, <2>4, <2>7
  <2>9. ASSUME NEW i \in 1..Len(r) PROVE r[i] = s[i]
    <3>1. CASE i <= m
      <4>1. i \in 1..m /\ i \in 1..(Len(b) - n)
        BY <1>9, <2>2, <3>1
      <4> QED
        BY <1>9, <1>10, <2>1, <2>7, <4>1
    <3>2. CASE i > m
      <4>1. PICK j : j = i - m
        OBVIOUS
      <4>2. j \in 1..Len(w) /\ j \in 1..(Len(b) - (n + m)) /\ m + j = i /\ (n + m) + j = n + i /\ i \in 1..(Len(b) - n)
        BY <1>3, <1>9, <2>2, <2>4, <3>2, <4>1
      <4> QED
        BY <1>9, <2>4, <2>7, <4>2
    <3> QED
      BY <2>2, <3>1, <3>2
  <2>10. r = s
    BY <1>9, <2>7, <2>8, <2>9, SeqEqual
  <2>11. Rest = g \o w /\ Rest' = w
    BY <1>6, <1>8, <1>10, <2>1, <2>3, <2>5, <2>10
  <2> QED
    BY <1>2, <1>10, <2>1, <2>2, <2>4, <2>11 DEF TakesPiece
<1>11. CASE returned' = "end" /\ taken' = n /\ n = Len(sent) /\ (n < Len(b) => sent # b)
  <2>1. Rest' = r /\ Rest = r
    BY <1>6, <1>8, <1>11
  <2>2. r # << >> => n < Len(b)
    BY <1>3, <1>5, <1>9
  <2> QED
    BY <1>2, <1>6, <1>9, <1>11, <2>1, <2>2 DEF FindsEnd
<1>12. CASE returned' = "error" /\ taken' = n
  BY <1>6, <1>8, <1>9, <1>12 DEF FindsError
<1> QED
  BY <1>7, <1>10, <1>11, <1>12

\* What becomes of a piece, and of a read without one.
LEMMA GivesPiece ==
  ASSUME ReadData, out \in Seq(Byte), message' = message, NEW g, NEW w, TakesPiece(g, w), w \in Seq(Byte),
         NEW e \in Seq(Byte), message.body = out \o (g \o e)
  PROVE  /\ out' = out \o g /\ Received' /\ message'.body = out' \o e
         /\ refused' \in BOOLEAN /\ Len(g) \in Nat
         /\ left' = IF reading = "untilEnd" THEN left ELSE left - Len(g)
         /\ reading' = IF refused' THEN "failed"
                       ELSE IF reading = "length" /\ left' = 0 THEN "done"
                       ELSE IF reading = "chunk" /\ left' = 0 THEN "chunkEnd" ELSE reading
<1>1. returned' = "bytes" /\ got' = g /\ g \in Seq(Byte)
  BY DEF TakesPiece
<1>2. /\ out' = out \o g /\ refused' \in BOOLEAN
      /\ left' = IF reading = "untilEnd" THEN left ELSE left - Len(g)
      /\ reading' = CASE refused' -> "failed"
                      [] ~refused' /\ reading = "length" /\ left' = 0 -> "done"
                      [] ~refused' /\ reading = "chunk" /\ left' = 0 -> "chunkEnd"
                      [] OTHER -> reading
  BY <1>1 DEF ReadData
<1>3. out \o g \in Seq(Byte) /\ message.body = (out \o g) \o e /\ IsPrefix(out \o g, message.body)
  <2>1. PICK o, body : o = out /\ body = message.body
    OBVIOUS
  <2>2. o \in Seq(Byte) /\ IsAhead(o, g, e, body)
    BY <2>1 DEF IsAhead
  <2>3. IsGiven(o, g, e, body)
    BY <1>1, <2>2, GivenOn, Zenon
  <2> QED
    BY <2>1, <2>3 DEF IsGiven
<1>4. reading' = IF refused' THEN "failed"
                 ELSE IF reading = "length" /\ left' = 0 THEN "done"
                 ELSE IF reading = "chunk" /\ left' = 0 THEN "chunkEnd" ELSE reading
  BY <1>2
<1>5. message'.body = out' \o e /\ Received'
  BY <1>2, <1>3 DEF Received
<1> QED
  BY <1>1, <1>2, <1>4, <1>5

LEMMA NoPiece ==
  ASSUME ReadData, Received, message' = message, FindsEnd \/ FindsError
  PROVE  /\ Received' /\ UNCHANGED << out, left >>
         /\ reading' = IF FindsEnd /\ reading = "untilEnd" THEN "done" ELSE "failed"
  BY DEF ReadData, Received, FindsEnd, FindsError

LEMMA RefusedFails ==
  ASSUME reading' = "failed", refused' \/ FindsError \/ (FindsEnd /\ Rest # << >>) PROVE Stands'
  BY DEF Stands, HasFailed, FindsError, FindsEnd

\* The same for the phases in which data is read.
LEMMA LengthStep ==
  ASSUME LineInv, Received, reading = "length", InLength, ReadData
  PROVE  LineInv' /\ Received' /\ Stands'
<1>1. LineInv' /\ message' = message /\ left \in Nat
  BY DataStaysLine DEF LineInv
<1>2. Rest' \in Seq(Byte) /\ ((\E g : TakesPiece(g, Rest')) \/ FindsEnd \/ FindsError)
  BY ReadPiece
<1>3. ASSUME NEW g, TakesPiece(g, Rest') PROVE Received' /\ Stands'
  <2>1. PICK w : w = Rest'
    OBVIOUS
  <2>2. w \in Seq(Byte) /\ TakesPiece(g, w) /\ g \in Seq(Byte) /\ Rest = g \o w
    BY <1>2, <1>3, <2>1 DEF TakesPiece
  <2>3. message.body = out \o (g \o w) /\ out \in Seq(Byte)
    BY <2>2 DEF InLength, Received
  <2>4. /\ Received' /\ message'.body = out' \o w /\ left' = left - Len(g)
        /\ reading' = IF refused' THEN "failed" ELSE IF left' = 0 THEN "done" ELSE "length"
    BY <1>1, <2>2, <2>3, GivesPiece
  <2>5. Len(w) = left' /\ left' \in Nat /\ out' \in Seq(Byte)
    <3>1. Len(g \o w) = Len(g) + Len(w) /\ Len(g) \in Nat /\ Len(w) \in Nat
      BY <2>2
    <3>2. Len(g \o w) = left
      BY <2>2 DEF InLength
    <3> QED
      BY <2>4, <3>1, <3>2 DEF Received
  <2>6. CASE refused'
    BY <2>4, <2>6, RefusedFails
  <2>7. CASE ~refused' /\ left' = 0
    <3>1. w = << >>
      BY <2>2, <2>5, <2>7
    <3>2. out' \o w = out'
      BY <2>5, <3>1, NothingElse
    <3> QED
      BY <2>4, <2>7, <3>2 DEF Stands, IsDone
  <2>8. CASE ~refused' /\ left' # 0
    <3>1. left' > 0
      BY <2>5, <2>8
    <3>2. InLength'
      BY <1>1, <2>1, <2>4, <2>5, <3>1 DEF InLength
    <3> QED
      BY <2>4, <2>8, <3>2 DEF Stands
  <2> QED
    BY <2>4, <2>6, <2>7, <2>8
<1>4. CASE FindsEnd \/ FindsError
  <2>1. Received' /\ reading' = "failed"
    BY <1>1, <1>4, NoPiece
  <2>2. Rest # << >>
    BY DEF InLength
  <2> QED
    BY <1>1, <1>4, <2>1, <2>2, RefusedFails
<1> QED
  BY <1>1, <1>2, <1>3, <1>4

LEMMA UntilEndStep ==
  ASSUME LineInv, Received, reading = "untilEnd", InUntilEnd, ReadData
  PROVE  LineInv' /\ Received' /\ Stands'
<1>1. LineInv' /\ message' = message
  BY DataStaysLine
<1>2. Rest' \in Seq(Byte) /\ ((\E g : TakesPiece(g, Rest')) \/ FindsEnd \/ FindsError)
  BY ReadPiece
<1>3. ASSUME NEW g, TakesPiece(g, Rest') PROVE Received' /\ Stands'
  <2>1. PICK w : w = Rest'
    OBVIOUS
  <2>2. w \in Seq(Byte) /\ TakesPiece(g, w) /\ Rest = g \o w
    BY <1>2, <1>3, <2>1 DEF TakesPiece
  <2>3. message.body = out \o (g \o w) /\ out \in Seq(Byte)
    BY <2>2 DEF InUntilEnd, Received
  <2>4. Received' /\ message'.body = out' \o w /\ reading' = IF refused' THEN "failed" ELSE "untilEnd"
    BY <1>1, <2>2, <2>3, GivesPiece
  <2>5. CASE refused'
    BY <2>4, <2>5, RefusedFails
  <2>6. CASE ~refused'
    <3>1. InUntilEnd'
      BY <1>1, <2>1, <2>4 DEF InUntilEnd
    <3> QED
      BY <2>4, <2>6, <3>1 DEF Stands
  <2> QED
    BY <2>4, <2>5, <2>6
<1>4. CASE FindsEnd \/ FindsError
  <2>1. Received' /\ reading' = IF FindsEnd THEN "done" ELSE "failed"
    BY <1>1, <1>4, NoPiece
  <2>2. CASE FindsEnd
    BY <1>1, <2>1, <2>2 DEF InUntilEnd, Stands, IsDone
  <2>3. CASE ~FindsEnd
    BY <1>1, <1>4, <2>1, <2>3, RefusedFails
  <2> QED
    BY <2>1, <2>2, <2>3
<1> QED
  BY <1>1, <1>2, <1>3, <1>4

LEMMA ChunkStep ==
  ASSUME LineInv, Received, reading = "chunk", InChunk, ReadData
  PROVE  LineInv' /\ Received' /\ Stands'
<1>1. LineInv' /\ message' = message /\ message \in Answers /\ left \in Nat
  BY DataStaysLine DEF LineInv
<1>2. Rest' \in Seq(Byte) /\ ((\E g : TakesPiece(g, Rest')) \/ FindsEnd \/ FindsError)
  BY ReadPiece
<1>3. PICK k \in 0..Len(message.chunks), d \in Seq(Byte) :
        /\ Len(d) = left /\ Rest = d \o (message.after \o ChunksFrom(message, k))
        /\ message.body = out \o (d \o BodyFrom(message, k))
  BY DEF InChunk
<1>4. PICK r, f : r = message.after \o ChunksFrom(message, k) /\ f = BodyFrom(message, k)
  OBVIOUS
<1>5. r \in Seq(Byte) /\ f \in Seq(Byte) /\ message.chunks # << >> /\ left > 0
  <2>1. ChunksFrom(message, k) \in Seq(Byte) /\ message.after \in Seq(Byte) /\ f \in Seq(Byte)
    BY <1>1, <1>4, ChunksFromIs, AnswerTypes
  <2> QED
    BY <1>4, <2>1 DEF InChunk
<1>6. ASSUME NEW g, TakesPiece(g, Rest') PROVE Received' /\ Stands'
  <2>1. PICK w : w = Rest'
    OBVIOUS
  <2>2. /\ w \in Seq(Byte) /\ TakesPiece(g, w) /\ g \in Seq(Byte) /\ Rest = g \o w
        /\ Len(g) \in 1..AskFor
    BY <1>2, <1>6, <2>1 DEF TakesPiece
  <2>3. Len(g) <= Len(d)
    BY <1>1, <1>3, <2>2, AskForIs
  <2>4. d \o r = g \o w
    BY <1>3, <1>4, <2>2
  <2>5. PICK e \in Seq(Byte) : d = g \o e /\ w = e \o r /\ Len(e) = Len(d) - Len(g)
    <3>1. d \in Seq(Byte) /\ r \in Seq(Byte) /\ g \in Seq(Byte) /\ w \in Seq(Byte)
      BY <1>5, <2>2
    <3>2. Runs(d, r, g, w)
      BY <2>4 DEF Runs
    <3>3. PICK e : IsRest(e, d, r, g, w)
      BY <2>3, <3>1, <3>2, PieceOfPart, Zenon
    <3> QED
      BY <3>3 DEF IsRest
  <2>6. e \o f \in Seq(Byte) /\ out \in Seq(Byte)
    BY <1>5 DEF Received
  <2>7. message.body = out \o (g \o (e \o f))
    <3>1. Associates(g, e, f)
      BY <1>5, <2>2, JoinsAndAssociates, Zenon
    <3>2. d \o f = g \o (e \o f)
      BY <2>5, <3>1 DEF Associates
    <3> QED
      BY <1>3, <1>4, <3>2
  <2>8. /\ Received' /\ message'.body = out' \o (e \o f) /\ left' = left - Len(g)
        /\ reading' = IF refused' THEN "failed" ELSE IF left' = 0 THEN "chunkEnd" ELSE "chunk"
    <3>1. PICK v : v = e \o f
      OBVIOUS
    <3>2. v \in Seq(Byte) /\ message.body = out \o (g \o v)
      BY <2>6, <2>7, <3>1
    <3>3. /\ Received' /\ message'.body = out' \o v /\ left' = left - Len(g)
          /\ reading' = IF refused' THEN "failed" ELSE IF left' = 0 THEN "chunkEnd" ELSE "chunk"
      BY <1>1, <2>2, <2>6, <3>2, GivesPiece
    <3> QED
      BY <3>1, <3>3
  <2>9. left' = Len(e) /\ left' \in Nat
    BY <1>3, <2>5, <2>8
  <2>10. CASE refused'
    BY <2>8, <2>10, RefusedFails
  <2>11. CASE ~refused' /\ left' = 0
    <3>1. e = << >>
      BY <2>5, <2>9, <2>11
    <3>2. e \o r = r /\ e \o f = f
      BY <1>5, <3>1, NothingElse
    <3>3. InChunkEnd'
      BY <1>1, <1>3, <1>4, <1>5, <2>1, <2>5, <2>8, <3>2 DEF InChunkEnd
    <3> QED
      BY <2>8, <2>11, <3>3 DEF Stands
  <2>12. CASE ~refused' /\ left' # 0
    <3>1. left' > 0
      BY <2>9, <2>12
    <3>2. InChunk'
      BY <1>1, <1>3, <1>4, <1>5, <2>1, <2>5, <2>8, <2>9, <3>1 DEF InChunk
    <3> QED
      BY <2>8, <2>12, <3>2 DEF Stands
  <2> QED
    BY <2>8, <2>10, <2>11, <2>12
<1>7. CASE FindsEnd \/ FindsError
  <2>1. Received' /\ reading' = "failed"
    BY <1>1, <1>7, NoPiece
  <2>2. Rest # << >>
    <3>1. Len(d \o r) = Len(d) + Len(r) /\ Len(d) \in Nat /\ Len(r) \in Nat
      BY <1>5
    <3>2. Len(Rest) > 0
      BY <1>3, <1>4, <1>5, <3>1
    <3> QED
      BY <3>2
  <2> QED
    BY <1>1, <1>7, <2>1, <2>2, RefusedFails
<1> QED
  BY <1>1, <1>2, <1>6, <1>7

\* Nothing more of a chunk comes, either.
LEMMA TornDataStep ==
  ASSUME LineInv, Received, Torn, reading = "chunk", ReadData
  PROVE  LineInv' /\ Received' /\ Stands'
<1>1. /\ LineInv' /\ message' = message /\ sent' = sent /\ left \in Nat
      /\ message \in Answers /\ Bytes(message) \in Seq(Byte)
  BY DataStaysLine, BytesAre DEF LineInv
<1>2. PICK ask : ask = AskFor
  OBVIOUS
<1>3. ask \in Nat /\ ByteRead(ask)
  BY <1>1, <1>2, AskForIs DEF ReadData
<1>4. /\ taken \in Nat
      /\ \/ returned' = "bytes" /\ Len(got') \in 1..ask /\ taken' = taken + Len(got') /\ taken' <= Len(sent)
         \/ returned' = "end"
         \/ returned' = "error"
  BY <1>1, <1>3, ReadOne
<1>5. returned' \in {"end", "error"}
  BY <1>4 DEF Torn
<1>6. FindsEnd \/ FindsError
  BY <1>1, <1>5 DEF FindsEnd, FindsError, Torn
<1>7. Received' /\ reading' = "failed"
  BY <1>1, <1>6, NoPiece
<1>8. HasFailed'
  BY <1>1 DEF HasFailed, Torn
<1> QED
  BY <1>1, <1>7, <1>8 DEF Stands

LEMMA ReaderInitially == ReaderInit => ReaderInv
<1> SUFFICES ASSUME ReaderInit PROVE LineInv /\ Received /\ Stands
  BY DEF ReaderInv
<1>1. message \in Answers /\ message.body \in Seq(Byte)
  BY AnswerTypes DEF ReaderInit
<1>2. PICK b : b = Bytes(message)
  OBVIOUS
<1>3. b \in Seq(Byte) /\ Len(b) \in Nat
  BY <1>1, <1>2, BytesAre
<1>4. PICK n \in 0..Len(b) : sent = SubSeq(b, 1, n)
  BY <1>2 DEF ReaderInit
<1>5. sent \in Seq(Byte) /\ Len(sent) = n
  BY <1>3, <1>4, PrefixOf
<1>6. Line = << >> /\ taken = 0 /\ fixed = << >> /\ grown = << >> /\ taken - Len(Line) = 0
  <2>1. taken = 0 /\ fixed = << >> /\ grown = << >>
    BY DEF ReaderInit
  <2>2. Line = << >>
    BY <2>1 DEF Line
  <2>3. PICK e : e = << >>
    OBVIOUS
  <2>4. Line = e /\ Len(e) = 0
    BY <2>2, <2>3
  <2>5. taken - Len(Line) = 0
    BY <2>1, <2>4
  <2> QED
    BY <2>1, <2>2, <2>5
<1>7. InLine(b, 0, << >>)
  BY <1>3, LineStarts
<1>8. LineInv
  <2>1. << >> \in Seq(Byte) /\ << >> \in Seq(HeaderTexts) /\ Len(<< >>) <= FixedSize - 1 /\ 0 <= Len(sent) /\ 0 \in Nat
    BY <1>5, ReaderSizesAssumption
  <2>2. reading = "statusLine" /\ headers = << >> /\ left = 0
    BY DEF ReaderInit
  <2>3. reading \in LinePhases
    BY <2>2 DEF LinePhases
  <2>4. InLine(Bytes(message), taken, Line)
    BY <1>2, <1>6, <1>7
  <2> QED
    BY <1>1, <1>2, <1>4, <1>5, <1>6, <2>1, <2>2, <2>3, <2>4 DEF LineInv
<1>9. Rest = Bytes(message)
  BY <1>2, <1>3, <1>6, FromStart DEF Rest
<1>10. Received
  <2>1. PICK e, f : e = << >> /\ f = message.body
    OBVIOUS
  <2>2. e \in Seq(Byte) /\ f \in Seq(Byte) /\ e \o e = e /\ e \o f = f
    BY <1>1, <2>1, NothingElse
  <2>3. IsAhead(e, e, f, f)
    BY <2>2 DEF IsAhead
  <2>4. IsGiven(e, e, f, f)
    BY <2>2, <2>3, GivenOn, Zenon
  <2>5. out = e
    BY <2>1 DEF ReaderInit
  <2> QED
    BY <2>1, <2>2, <2>4, <2>5 DEF IsGiven, Received
<1>11. Stands
  <2>1. reading = "statusLine" /\ NothingOut
    BY DEF ReaderInit, NothingOut
  <2>2. InStatusLine
    BY <1>1, <1>9, <2>1, BytesAre DEF InStatusLine
  <2> QED
    BY <2>1, <2>2 DEF Stands
<1> QED
  BY <1>8, <1>10, <1>11

LEMMA ReaderStep == ReaderInv /\ [ReaderNext]_readerVars => ReaderInv'
<1> SUFFICES ASSUME ReaderInv, [ReaderNext]_readerVars, Sound(message') PROVE LineInv' /\ Received' /\ Stands'
  BY DEF ReaderInv
<1>1. message' = message
  BY DEF ReaderNext, ReadLineByte, ReadData, readerVars
<1>2. Sound(message) /\ LineInv /\ Received /\ Stands
  BY <1>1 DEF ReaderInv
<1>3. ASSUME ReadLineByte PROVE LineInv' /\ Received' /\ Stands'
  <2>1. reading \in LinePhases
    BY <1>3 DEF ReadLineByte
  <2>2. SUFFICES LineInv' /\ Stands' /\ UNCHANGED << message, out >>
    BY <1>2 DEF Received
  <2>3. CASE Torn
    BY <1>2, <1>3, <2>3, TornLineStep
  <2>4. CASE reading = "statusLine" /\ InStatusLine
    BY <1>2, <1>3, <2>4, StatusLineStep
  <2>5. CASE reading = "continueEnd" /\ InContinue
    BY <1>2, <1>3, <2>5, ContinueStep
  <2>6. CASE reading = "headers" /\ InHeaders
    BY <1>2, <1>3, <2>6, HeadersStep
  <2>7. CASE reading = "chunkSize" /\ InChunkSize
    BY <1>2, <1>3, <2>7, ChunkSizeStep
  <2>8. CASE reading = "chunkEnd" /\ InChunkEnd
    BY <1>2, <1>3, <2>8, ChunkEndStep
  <2>9. CASE reading = "lastEnd" /\ InLastEnd
    BY <1>2, <1>3, <2>9, LastEndStep
  <2> QED
    BY <1>2, <2>1, <2>3, <2>4, <2>5, <2>6, <2>7, <2>8, <2>9 DEF Stands, LinePhases
<1>4. ASSUME ReadData PROVE LineInv' /\ Received' /\ Stands'
  <2>1. reading \in DataPhases
    BY <1>4 DEF ReadData
  <2>2. CASE Torn /\ reading = "chunk"
    BY <1>2, <1>4, <2>2, TornDataStep
  <2>3. CASE reading = "length" /\ InLength
    BY <1>2, <1>4, <2>3, LengthStep
  <2>4. CASE reading = "untilEnd" /\ InUntilEnd
    BY <1>2, <1>4, <2>4, UntilEndStep
  <2>5. CASE reading = "chunk" /\ InChunk
    BY <1>2, <1>4, <2>5, ChunkStep
  <2> QED
    BY <1>2, <2>1, <2>2, <2>3, <2>4, <2>5 DEF Stands, DataPhases
<1>5. ASSUME UNCHANGED readerVars PROVE LineInv' /\ Received' /\ Stands'
  <2>1. /\ UNCHANGED << sent, taken, returned, message, reading, fixed, grown, status, headers, left, out, refused >>
    BY <1>5 DEF readerVars, byteVars
  <2>2. Line' = Line /\ Rest' = Rest
    BY <2>1 DEF Line, Rest
  <2>3. LineInv'
    BY <1>2, <2>1, <2>2 DEF LineInv
  <2>4. Received'
    BY <1>2, <2>1 DEF Received
  <2>5. Stands'
    <3>1. GoesOn
      BY <2>1 DEF GoesOn
    <3>2. /\ InStatusLine => InStatusLine'
          /\ InContinue => InContinue'
          /\ InHeaders => InHeaders'
          /\ InChunkSize => InChunkSize'
          /\ InChunkEnd => InChunkEnd'
          /\ InLastEnd => InLastEnd'
      BY <2>2, <3>1, HalfALine
    <3>3. Torn => Torn'
      BY <2>1, <2>2 DEF Torn
    <3>4. (InLength => InLength') /\ (InUntilEnd => InUntilEnd')
      BY <2>1, <2>2 DEF InLength, InUntilEnd
    <3>5. InChunk => InChunk'
      BY <2>1, <2>2 DEF InChunk
    <3>6. (IsDone => IsDone') /\ (HasFailed => HasFailed')
      BY <2>1 DEF IsDone, BrokenAfterCR, HasFailed
    <3> QED
      BY <1>2, <2>1, <3>2, <3>3, <3>4, <3>5, <3>6 DEF Stands
  <2> QED
    BY <2>3, <2>4, <2>5
<1> QED
  BY <1>3, <1>4, <1>5 DEF ReaderNext

LEMMA ReaderInvHolds == ReaderSpec => []ReaderInv
<1>1. ReaderInit => ReaderInv
  BY ReaderInitially
<1>2. ReaderInv /\ [ReaderNext]_readerVars => ReaderInv'
  BY ReaderStep
<1> QED
  BY <1>1, <1>2, PTL DEF ReaderSpec

\* Of a sound answer the receiver gets the bytes of the body, in their order and nothing else;
\* and one that says where its body ends, and is read with success, has been read whole.
THEOREM BodyIsWholeHolds == ReaderSpec => []BodyIsWhole
<1>1. ReaderInv => BodyIsWhole
  <2> SUFFICES ASSUME ReaderInv, Sound(message)
               PROVE  /\ IsPrefix(out, message.body)
                      /\ reading = "done" /\ Delimited(message) /\ ~BrokenAfterCR => out = message.body
    BY DEF BodyIsWhole
  <2>1. IsPrefix(out, message.body) /\ Stands
    BY DEF ReaderInv, Received
  <2> QED
    BY <2>1 DEF Stands, IsDone
<1> QED
  BY <1>1, ReaderInvHolds, PTL

\* The reader refuses no sound answer but one with a trailer, and that behind its whole body: any
\* other fails only if the connection broke, an error came, or the receiver did not take a piece.
THEOREM SoundAnswersAreReadHolds == ReaderSpec => []SoundAnswersAreRead
<1>1. ReaderInv => SoundAnswersAreRead
  <2> SUFFICES ASSUME ReaderInv, reading = "failed", Sound(message) PROVE HasFailed
    BY DEF SoundAnswersAreRead, HasFailed
  <2>1. Stands
    BY DEF ReaderInv
  <2> QED
    BY <2>1 DEF Stands
<1> QED
  BY <1>1, ReaderInvHolds, PTL

================================================================================
