------------------------------ MODULE MCRequests ------------------------------
(***************************************************************************)
(* Instances of what a request is made of before it leaves: the client it  *)
(* is sent with, the URI, the document, the bytes, the server; and what the  *)
(* two programs ask for that provision a device.  One part at a time.      *)
(***************************************************************************)
EXTENDS ClientBuilder, Uri, Responses, RequestWriter, ServerName, Onboarding

CONSTANTS e1, t1, t2, k1

VARIABLE side

MCEndpoints == {e1}
MCTokens == {t1, t2}
MCKeypairs == {k1}
MCSleepTimes == {0, 30000}

\* Every short text, and every one behind a scheme and an authority.
Characters == {":", "/", "?", "#", "\\", "a"}
UpTo(n) == UNION {[1..i -> Characters] : i \in 0..n}
MCTexts == {<< "a", ":", "/", "/", "a" >> \o s : s \in UpTo(5)} \cup UpTo(4)

MCIds == {-1, 0, 1}

\* The requests of the clients: no headers, or an authorization and others that the library
\* would add; a body that looks like the end of a head.
NoHeaders == [n \in {Names[i] : i \in DOMAIN Names} |-> << >>]
OwnHeaders ==
  [NoHeaders EXCEPT !["Authorization"] = << "token", "other" >>, !["Accept"] = << "own" >>, !["Host"] = << "own" >>]
MCAskedRequests ==
  {[method |-> m, path |-> << "/", " ", "a" >>, headers |-> hs, type |-> "application/json",
    body |-> IF m = "GET" THEN << >> ELSE << << "x" >>, EmptyLine, << "y" >> >>,
    scheme |-> s, port |-> p]
     : m \in {"GET", "POST", "PUT"}, hs \in {NoHeaders, OwnHeaders}, s \in {"http", "https"}, p \in {80, 443}}

\* Names of up to two words, some of them empty, for hosts of up to three.
MCWords == {<< >>, << "a" >>, << "b" >>, << "*" >>, << "a", "*" >>, << "*", "b" >>}
MCDotted(words) ==
  FlattenSeq([i \in DOMAIN words |-> IF i = 1 THEN words[i] ELSE << "." >> \o words[i]])
MCNames(words, n) == {MCDotted(ws) : ws \in UNION {[1..i -> words] : i \in 1..n}}
MCHosts ==
  {[type |-> "DNS", name |-> h] : h \in MCNames({<< "a" >>, << "b" >>}, 3) \cup {<< "a", "." >>, << "a", "b" >>}}
    \cup {[type |-> "IPADD", name |-> << "a" >>]}
MCServerCertificates ==
  LET alternatives == {[type |-> t, name |-> n] : t \in {"DNS", "IPADD"}, n \in MCNames(MCWords, 2)}
      another == [type |-> "DNS", name |-> << "b" >>]
  IN [alternatives : {<< >>} \cup {<< a >> : a \in alternatives} \cup {<< another, a >> : a \in alternatives},
      commonName : {NoName, << "b", ".", "*" >>, << "a" >>}]

MCInit ==
  /\ side \in {"client", "uri", "document", "bytes", "server", "onboarding"}
  /\ IF side = "uri" THEN text \in Texts ELSE text = << >>
  /\ IF side = "bytes" THEN asking \in AskedRequests ELSE asking = CHOOSE c \in AskedRequests : TRUE
  /\ IF side = "server" THEN host \in Hosts /\ certificateOf \in ServerCertificates
                        ELSE /\ host = CHOOSE h \in Hosts : TRUE
                             /\ certificateOf = CHOOSE c \in ServerCertificates : TRUE
  /\ Init /\ ServerInit /\ UriInit /\ ResponsesInit /\ WriterInit /\ OnboardingInit

OnClient ==
  side = "client" /\ Next /\ UNCHANGED << uriVars, responseVars, writerVars, onboardingVars, serverVars, side >>
OnUri ==
  side = "uri" /\ UriNext /\ UNCHANGED << vars, responseVars, writerVars, onboardingVars, serverVars, side >>
OnDocument ==
  side = "document" /\ ResponsesNext /\ UNCHANGED << vars, uriVars, writerVars, onboardingVars, serverVars, side >>
OnBytes ==
  side = "bytes" /\ WriterNext /\ UNCHANGED << vars, uriVars, responseVars, onboardingVars, serverVars, side >>
OnOnboarding ==
  side = "onboarding" /\ OnboardingNext /\ UNCHANGED << vars, uriVars, responseVars, writerVars, serverVars, side >>

OnServer ==
  /\ side = "server" /\ ServerNext
  /\ UNCHANGED << vars, uriVars, responseVars, writerVars, onboardingVars, side >>

MCNext == OnClient \/ OnUri \/ OnDocument \/ OnBytes \/ OnServer \/ OnOnboarding
MCSpec ==
  MCInit /\ [][MCNext]_<< vars, uriVars, responseVars, writerVars, serverVars, onboardingVars, side >>

================================================================================
