------------------------------ MODULE NamedValues ------------------------------
(***************************************************************************)
(* What is given under a name in a sequence of << name, value >>: the      *)
(* arguments of the calls of one function, the values of one header.       *)
(***************************************************************************)
EXTENDS Integers, Sequences

Named(pairs, name) ==
  LET upTo[n \in 0..Len(pairs)] ==
        IF n = 0 THEN << >>
        ELSE IF pairs[n][1] = name THEN Append(upTo[n - 1], pairs[n][2])
        ELSE upTo[n - 1]
  IN upTo[Len(pairs)]

================================================================================
