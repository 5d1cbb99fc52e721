------------------------------ MODULE ByteStream ------------------------------
(***************************************************************************)
(* What a Stream of httplib.cpp is to those who read from it: read(size)   *)
(* returns the next bytes of the connection, at least one and at most size *)
(* of them, or that the connection has ended, or an error.  SocketStream   *)
(* and SslSocketStream implement it, HttpReader reads from it.             *)
(***************************************************************************)
EXTENDS Integers, Sequences

CONSTANTS Byte,     \* the bytes there are
          Sizes     \* how much is asked for at a time

ASSUME SizesAssumption == Sizes \subseteq Nat \ {0}

VARIABLES sent,      \* the bytes the server sends before its connection ends
          taken,     \* read() has returned so many of them
          got,       \* what the last read() has put into its buffer
          returned   \* and what it returned: their number, 0 or -1

byteVars == << sent, taken, got, returned >>

ByteInit ==
  /\ sent \in Seq(Byte) /\ taken = 0 /\ got = << >> /\ returned = "bytes"

Return(bytes) ==
  /\ returned' = "bytes" /\ got' = bytes /\ taken' = taken + Len(bytes) /\ UNCHANGED sent
ReturnEnd == returned' = "end" /\ got' = << >> /\ UNCHANGED << sent, taken >>
ReturnError == returned' = "error" /\ got' = << >> /\ UNCHANGED << sent, taken >>

ByteRead(size) ==
  \/ \E n \in 1..size : taken + n <= Len(sent) /\ Return(SubSeq(sent, taken + 1, taken + n))
  \/ taken = Len(sent) /\ ReturnEnd
  \/ ReturnError

ByteNext == \E size \in Sizes : ByteRead(size)
ByteSpec == ByteInit /\ [][ByteNext]_byteVars

================================================================================
