------------------------------ MODULE ServerName ------------------------------
(***************************************************************************)
(* SSLClient::verify_host(): is the certificate of the server one for the  *)
(* host?  First its alternative names are looked at one by one, those of   *)
(* the kind the host is given in; then its common name.                    *)
(*                                                                         *)
(* A name is a sequence of characters; blanks, which split() trims, do not *)
(* occur.  The characters of an address stand for its bytes.               *)
(***************************************************************************)
EXTENDS Integers, SequencesExt

CONSTANTS Hosts,               \* [type, name]
          ServerCertificates   \* [alternatives, commonName], NoName if it has none

ASSUME NamesAssumption ==
  /\ Hosts \subseteq [type : {"DNS", "IPADD"}, name : Seq(STRING)]
  /\ ServerCertificates \subseteq
       [alternatives : Seq([type : STRING, name : Seq(STRING)]), commonName : Seq(STRING)]

VARIABLES host, certificateOf, index, matched, verdict

serverVars == << host, certificateOf, index, matched, verdict >>

NoName == << "none" >>

ServerInit ==
  /\ host \in Hosts /\ certificateOf \in ServerCertificates
  /\ index = 1 /\ matched = FALSE /\ verdict = "none"

\* What is empty is not passed on.
Passed(words, w) == IF w = << >> THEN words ELSE Append(words, w)

\* The loop of detail::split() at the dots: what it has passed on, and where the rest begins.
Cut(t) ==
  LET upTo[n \in 0..Len(t)] ==
        IF n = 0 THEN [words |-> << >>, beg |-> 1]
        ELSE IF t[n] = "." THEN [words |-> Passed(upTo[n - 1].words, SubSeq(t, upTo[n - 1].beg, n - 1)),
                                 beg |-> n + 1]
        ELSE upTo[n - 1]
  IN upTo[Len(t)]

SplitWithoutLast(t) == Cut(t).words      \* mutant: what follows the last dot is left out
Split(t) == Passed(Cut(t).words, SubSeq(t, Cut(t).beg, Len(t)))

\* A component is matched by itself, by a star, and by itself with a star behind.
ComponentMatches(p, h) ==
  \/ p = h \/ p = << "*" >>
  \/ p # << >> /\ Last(p) = "*" /\ Front(p) = h

CheckHostName(pattern) ==
  LET ps == Split(pattern)
      hs == Split(host.name)
  IN \/ host.name = pattern
     \/ Len(ps) = Len(hs) /\ \A i \in DOMAIN hs : ComponentMatches(ps[i], hs[i])

(***************************************************************************)
(* An address is compared with those bytes of the host that were set and   *)
(* with as many of a variable that was not: there any outcome is possible. *)
(***************************************************************************)
Outcomes(alternative) ==
  CASE alternative.type # host.type  -> {FALSE}
    [] /\ alternative.type = host.type
       /\ host.type = "DNS"          -> {CheckHostName(alternative.name)}
    [] /\ alternative.type = host.type
       /\ host.type = "IPADD"        -> IF alternative.name = host.name THEN {TRUE} ELSE BOOLEAN

\* A host name that matches ends the loop, an address does not.
More ==
  /\ index <= Len(certificateOf.alternatives)
  /\ ~(matched /\ host.type = "DNS")

LookAtAlternative ==
  /\ verdict = "none" /\ More
  /\ \E outcome \in Outcomes(certificateOf.alternatives[index]) : matched' = (matched \/ outcome)
  /\ index' = index + 1
  /\ UNCHANGED << host, certificateOf, verdict >>

LookAtCommonName ==
  /\ verdict = "none" /\ ~More
  /\ verdict' = IF \/ matched
                   \/ certificateOf.commonName # NoName /\ CheckHostName(certificateOf.commonName)
                  THEN "accepted" ELSE "refused"
  /\ UNCHANGED << host, certificateOf, index, matched >>

ServerNext == LookAtAlternative \/ LookAtCommonName
ServerSpec == ServerInit /\ [][ServerNext]_serverVars

--------------------------------------------------------------------------------
\* Where the words of a name begin and end: between dots, none of them empty.
WordsOf(t) ==
  {w \in (1..Len(t)) \X (1..Len(t)) :
     /\ w[1] <= w[2] /\ \A i \in w[1]..w[2] : t[i] # "."
     /\ w[1] = 1 \/ t[w[1] - 1] = "."
     /\ w[2] = Len(t) \/ t[w[2] + 1] = "."}
Spelled(t, w) == SubSeq(t, w[1], w[2])

\* The words of the two names stand in the same order, none is left over, and each pair fits.
WordByWord(s, t, Fits(_, _)) ==
  \E f \in [WordsOf(s) -> WordsOf(t)] :
    /\ \A v, w \in WordsOf(s) : v[1] < w[1] => f[v][1] < f[w][1]
    /\ \A w \in WordsOf(t) : \E v \in WordsOf(s) : f[v] = w
    /\ \A v \in WordsOf(s) : Fits(Spelled(s, v), Spelled(t, f[v]))

\* A pattern spells a word if each of its characters is found once and in this order, and a star
\* stands for as many characters as there are, or for none.
Spells(p, h) ==
  \E f \in [1..Len(h) -> 1..Len(p)] :
    /\ \A i \in 1..Len(h) : p[f[i]] \in {h[i], "*"}
    /\ \A i, j \in 1..Len(h) : i < j => f[i] < f[j] \/ (f[i] = f[j] /\ p[f[i]] = "*")
    /\ \A k \in 1..Len(p) : p[k] = "*" \/ \E i \in 1..Len(h) : f[i] = k

\* What verify_host() quotes: a star is any single component or fragment of a component.
Covers(name) == WordByWord(name, host.name, Spells)

\* A star that is not a word of its own.
HasFragmentStar(name) ==
  \E w \in WordsOf(name) : w[1] < w[2] /\ \E i \in w[1]..w[2] : name[i] = "*"

\* The names that tell who a server is: the alternative ones of the kind dNSName if there are
\* any, otherwise the common name.
AlternativeNames == {a \in ToSet(certificateOf.alternatives) : a.type = "DNS"}
CommonNames == {certificateOf.commonName} \ {NoName}
IdentityCovers ==
  IF AlternativeNames # {} THEN \E a \in AlternativeNames : Covers(a.name)
                           ELSE \E c \in CommonNames : Covers(c)

\* Of the rules that verify_host() quotes for a host that has a name: a server is taken for the
\* host only if the certificate's identity covers the host's name, wherever it stands among the
\* others, but for one case: the common name still counts where there are alternative names.
\* And it is refused only if it does not, but for another: the star in a fragment of a component,
\* which the code takes for nothing at the component's end and for itself elsewhere.  A host that
\* is given as an address is accepted if the address is there; who else is accepted depends on
\* bytes that were not set (Outcomes).
ServerHasTheName ==
  verdict # "none" =>
    /\ host.type = "DNS" /\ verdict = "accepted" =>
         \/ IdentityCovers
         \/ AlternativeNames # {} /\ \E c \in CommonNames : Covers(c)
    /\ host.type = "DNS" /\ verdict = "refused" =>
         \A n \in {a.name : a \in AlternativeNames} \cup CommonNames : Covers(n) => HasFragmentStar(n)
    /\ host \in ToSet(certificateOf.alternatives) => verdict = "accepted"

================================================================================
