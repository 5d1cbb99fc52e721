--------------------------------- MODULE Uri ---------------------------------
(***************************************************************************)
(* uri::URI and what the DDI client makes of one: the polling URI, the     *)
(* links of hawkBit and the paths it asks for.  A text is a sequence of    *)
(* the characters the regular expression tells apart, and of others.  In a *)
(* bracket of a POSIX expression a backslash is itself: uri_regex ends a   *)
(* scheme and an authority there too.                                      *)
(***************************************************************************)
EXTENDS Integers, SequencesExt

CONSTANT Texts

ASSUME TextsAssumption == Texts \subseteq Seq(STRING)

VARIABLES text,    \* what fromString() was given
          parsed,  \* the URI, or NoUri if it throws
          kind,    \* what is asked for
          path     \* and with which path

uriVars == << text, parsed, kind, path >>

NoUri == [ok |-> FALSE]
Kinds == {"poll", "action", "feedback", "download"}

\* The part before the first of some characters, and the rest, which starts with it.
Until(t, stops) ==
  LET n == CHOOSE n \in 0..Len(t) : /\ \A i \in 1..n : t[i] \notin stops
                                    /\ n = Len(t) \/ t[n + 1] \in stops
  IN SubSeq(t, 1, n)
Behind(t, begin) == SubSeq(t, Len(begin) + 1, Len(t))
StartsWith(t, c) == t # << >> /\ t[1] = c

\* The groups of uri_regex, each at the start of what the one before has left: something
\* before a colon; two slashes and the authority; the path; the query; the fragment.
SchemeOf(t) ==
  LET s == Until(t, {":", "\\", "/", "?", "#"})
  IN IF s # << >> /\ StartsWith(Behind(t, s), ":") THEN s ELSE << >>

AuthorityOf(t) == Until(t, {"\\", "/", "?", "#"})

PathToFragment(t) == Until(t, {"#"})    \* mutant: the path takes the query in
PathOf(t) == Until(t, {"?", "#"})

QueryOf(t) == IF StartsWith(t, "?") THEN Until(Tail(t), {"#"}) ELSE << >>

\* A fragment is only taken over behind a query.
FragmentOf(t) ==
  LET rest == IF StartsWith(t, "?") THEN Behind(Tail(t), QueryOf(t)) ELSE << >>
  IN IF rest = << >> THEN << >> ELSE Tail(rest)

FromString(t) ==
  LET scheme == SchemeOf(t)
      rest == IF scheme = << >> THEN t ELSE Behind(t, scheme \o << ":" >>)
      authority == AuthorityOf(Behind(rest, << "/", "/" >>))
      hierarchy == Behind(rest, << "/", "/" >> \o authority)
      behind == Behind(hierarchy, PathOf(hierarchy))
  IN IF IsPrefix(<< "/", "/" >>, rest)
       THEN [ok |-> TRUE, scheme |-> scheme, authority |-> authority, path |-> PathOf(hierarchy),
             query |-> QueryOf(behind), fragment |-> FragmentOf(behind)]
       ELSE NoUri

IsEmpty(u) == u.scheme = << >> \/ u.authority = << >>

\* hawkbitEndpointFrom(), which the setter with a controller id and a tenant parses again.
EndpointFrom(u) ==
  u.scheme \o << ":", "/", "/" >> \o u.authority \o << "/", "a", "/", "a" >>

--------------------------------------------------------------------------------
UriInit ==
  /\ text \in Texts /\ parsed = FromString(text)
  /\ kind = "none" /\ path = << >>

SetEndpointOfController ==
  /\ kind = "none" /\ parsed.ok
  /\ text' = EndpointFrom(parsed) /\ parsed' = FromString(text')
  /\ kind' = "endpoint" /\ UNCHANGED path

\* formatFeedbackPath() looks at the byte before an empty path, which may be anything.
EndsWithSlash(p) == IF p = << >> THEN BOOLEAN ELSE {Last(p) = "/"}
FeedbackPaths(p) ==
  {p \o (IF slash THEN << >> ELSE << "/" >>) \o << "feedback" >> : slash \in EndsWithSlash(p)}

DownloadPath(u) == u.path \o (IF u.query = << >> THEN << >> ELSE << "?" >> \o u.query)

PathsFor(k, u) ==
  CASE k \in {"poll", "action"} -> {u.path}
    [] k = "feedback"           -> FeedbackPaths(u.path)
    [] k = "download"           -> {DownloadPath(u)}

\* run() refuses a polling URI that is empty; the links of hawkBit are not looked at.
Request ==
  /\ kind \in {"none", "endpoint"} /\ parsed.ok
  /\ kind' \in Kinds
  /\ kind' = "poll" => ~IsEmpty(parsed)
  /\ path' \in PathsFor(kind', parsed)
  /\ UNCHANGED << text, parsed >>

UriNext == SetEndpointOfController \/ Request
UriSpec == UriInit /\ [][UriNext]_uriVars

--------------------------------------------------------------------------------
\* A request goes where its URI says.  Put together again, scheme, authority and the path of
\* a download are the text before its fragment; a feedback goes to the path of its action and
\* one segment more, if that has a path at all; polls and actions leave out the query.
RequestsGoWhereTheyShould ==
  kind \in Kinds /\ ~IsEmpty(parsed) =>
    LET Asked(p) == parsed.scheme \o << ":", "/", "/" >> \o parsed.authority \o p
        given == Until(text, {"#"})
    IN CASE kind = "download" -> given \in {Asked(path), Asked(path) \o << "?" >>}
         [] kind \in {"poll", "action"} -> Asked(path) = Until(text, {"?", "#"})
         [] kind = "feedback" ->
              parsed.path # << >> =>
                Asked(path) \in {Until(text, {"?", "#"}) \o s : s \in {<< "feedback" >>, << "/", "feedback" >>}}

================================================================================
