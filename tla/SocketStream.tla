----------------------------- MODULE SocketStream -----------------------------
(***************************************************************************)
(* SocketStream::read(): a plain connection, read through a buffer unless  *)
(* more is asked for than the buffer holds.                                *)
(*                                                                         *)
(* External: select() and recv().  The network hands over what the server  *)
(* sent in pieces of any size.                                             *)
(***************************************************************************)
EXTENDS ByteStream

CONSTANT BuffSize    \* SocketStream::read_buff_size_

ASSUME BuffSizeAssumption == BuffSize \in Nat \ {0}

VARIABLES received,  \* recv() has returned so many bytes
          buffer,    \* the content of read_buff_, read_buff_content_size_ bytes
          off        \* read_buff_off_

socketVars == << byteVars, received, buffer, off >>

SocketInit == ByteInit /\ received = 0 /\ buffer = << >> /\ off = 0

Least(m, n) == IF m < n THEN m ELSE n

OffLost(size) == off          \* mutant: what was copied is copied again
OffAfter(size) == off + Least(size, Len(buffer) - off)

FromBuffer(size) ==
  /\ off < Len(buffer)
  /\ off' = OffAfter(size)
  /\ Return(SubSeq(buffer, off + 1, off + Least(size, Len(buffer) - off)))
  /\ UNCHANGED << received, buffer >>

NotReadable ==
  /\ off = Len(buffer)
  /\ ReturnError /\ UNCHANGED << received, buffer, off >>

\* recv() into the buffer, or past it: what is more than was asked for stays in the buffer.
Receive(size) ==
  /\ off = Len(buffer)
  /\ \/ \E n \in 1..(IF size < BuffSize THEN BuffSize ELSE size) :
          /\ received + n <= Len(sent)
          /\ received' = received + n
          /\ LET bytes == SubSeq(sent, received + 1, received + n) IN
               IF n <= size
                 THEN Return(bytes) /\ buffer' = << >> /\ off' = 0
                 ELSE Return(SubSeq(bytes, 1, size)) /\ buffer' = bytes /\ off' = size
     \/ /\ received = Len(sent) /\ ReturnEnd
        /\ buffer' = << >> /\ off' = 0 /\ UNCHANGED received
     \/ ReturnError /\ buffer' = << >> /\ off' = 0 /\ UNCHANGED received

SocketNext == \E size \in Sizes : FromBuffer(size) \/ NotReadable \/ Receive(size)
SocketSpec == SocketInit /\ [][SocketNext]_socketVars

================================================================================
