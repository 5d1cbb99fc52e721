---------------------------- MODULE RequestsProofs ----------------------------
(***************************************************************************)
(* What a request is made of, for every value of the constants: the client *)
(* that sends it, its URI, its document, the bytes it leaves in, and the   *)
(* server they are meant for; and the key pair a device is provisioned     *)
(* with.                                                                   *)
(***************************************************************************)
EXTENDS ClientBuilder, Uri, Responses, RequestWriter, ServerName, Onboarding,
        WellFoundedInduction, SequenceTheorems, TLAPS

(***************************************************************************)
(* Naturals, and what is named in a sequence of pairs.                     *)
(***************************************************************************)
LEMMA LeastOf == ASSUME NEW T, T \subseteq Nat, T # {} PROVE \E m \in T : \A k \in T : m <= k
<1>1. IsWellFoundedOn(OpToRel(<, Nat), Nat)
  BY NatLessThanWellFounded
<1>2. PICK m \in T : \A k \in T : ~(<< k, m >> \in OpToRel(<, Nat))
  BY <1>1, WFMin
<1>3. \A k \in T : ~(k < m)
  BY <1>2, Zenon DEF OpToRel
<1> QED
  BY <1>3

LEMMA Induction ==
  ASSUME NEW P, P \subseteq Nat, 0 \in P, \A n \in P : n + 1 \in P PROVE P = Nat
<1> SUFFICES ASSUME P # Nat PROVE FALSE
  OBVIOUS
<1>1. PICK m \in Nat \ P : \A k \in Nat \ P : m <= k
  BY LeastOf
<1>2. m # 0 /\ m - 1 \in Nat /\ m - 1 \in P
  BY <1>1
<1> QED
  BY <1>1, <1>2

\* One more pair, and the sequences that Named() is computed by up to an index.
NextNamed(pairs, name, g, n) ==
  IF n = 0 THEN << >>
  ELSE IF pairs[n][1] = name THEN Append(g[n - 1], pairs[n][2])
  ELSE g[n - 1]
NamedUpTo(pairs, name, m, g) == g = [n \in 0..m |-> NextNamed(pairs, name, g, n)]

LEMMA NamedUpToExists ==
  ASSUME NEW pairs, NEW name, NEW m \in Nat PROVE \E g : NamedUpTo(pairs, name, m, g)
<1> DEFINE P == {k \in Nat : \E g : NamedUpTo(pairs, name, k, g)}
<1>1. 0 \in P
  <2> DEFINE g == [n \in 0..0 |-> << >>]
  <2>1. \A n \in 0..0 : NextNamed(pairs, name, g, n) = << >>
    BY DEF NextNamed
  <2>2. NamedUpTo(pairs, name, 0, g)
    BY <2>1 DEF NamedUpTo
  <2> QED
    BY <2>2
<1>2. ASSUME NEW k \in P PROVE k + 1 \in P
  <2>1. PICK g : NamedUpTo(pairs, name, k, g)
    OBVIOUS
  <2> DEFINE h == [n \in 0..(k + 1) |-> NextNamed(pairs, name, g, n)]
  <2> k \in Nat
    OBVIOUS
  <2>2. \A n \in 0..k : g[n] = NextNamed(pairs, name, g, n)
    BY <2>1 DEF NamedUpTo
  <2>3. \A n \in 0..k : h[n] = g[n]
    BY <2>2
  <2> HIDE DEF h
  <2>4. \A n \in 0..(k + 1) : NextNamed(pairs, name, g, n) = NextNamed(pairs, name, h, n)
    BY <2>3 DEF NextNamed
  <2>5. NamedUpTo(pairs, name, k + 1, h)
    BY <2>4 DEF NamedUpTo, h
  <2> QED
    BY <2>5
<1>3. P = Nat
  BY <1>1, <1>2, Induction
<1> QED
  BY <1>3

LEMMA NamedIsLast ==
  ASSUME NEW pairs, NEW name, Len(pairs) \in Nat
  PROVE \E g : NamedUpTo(pairs, name, Len(pairs), g) /\ Named(pairs, name) = g[Len(pairs)]
<1> DEFINE g == CHOOSE g : NamedUpTo(pairs, name, Len(pairs), g)
<1>1. Named(pairs, name) = g[Len(pairs)]
  BY DEF Named, NamedUpTo, NextNamed
<1>2. \E f : NamedUpTo(pairs, name, Len(pairs), f)
  BY NamedUpToExists
<1>3. NamedUpTo(pairs, name, Len(pairs), g)
  BY <1>2, Zenon
<1> QED
  BY <1>1, <1>3

\* Two of them agree as far as both go, on pairs that do.
LEMMA NamedAgree ==
  ASSUME NEW p, NEW q, NEW name, NEW m \in Nat, NEW k \in 0..m, NEW g, NEW h,
         NamedUpTo(p, name, k, g), NamedUpTo(q, name, m, h), \A i \in 1..k : p[i] = q[i]
  PROVE g[k] = h[k]
<1> DEFINE P == {n \in Nat : n <= k => g[n] = h[n]}
<1>1. \A n \in 0..k : g[n] = NextNamed(p, name, g, n) /\ h[n] = NextNamed(q, name, h, n)
  <2>1. \A n \in 0..k : g[n] = NextNamed(p, name, g, n)
    BY DEF NamedUpTo
  <2>2. \A n \in 0..m : h[n] = NextNamed(q, name, h, n)
    BY DEF NamedUpTo
  <2> QED
    BY <2>1, <2>2
<1>2. 0 \in P
  BY <1>1 DEF NextNamed
<1>3. ASSUME NEW n \in P PROVE n + 1 \in P
  BY <1>1 DEF NextNamed
<1>4. P = Nat
  BY <1>2, <1>3, Induction
<1> QED
  BY <1>4

\* Nothing is given by no pairs, and one more pair gives one value more or none.
LEMMA NamedEmpty == ASSUME NEW name PROVE Named(<< >>, name) = << >>
<1>1. PICK g : NamedUpTo(<< >>, name, 0, g) /\ Named(<< >>, name) = g[0]
  BY NamedIsLast
<1> QED
  BY <1>1 DEF NamedUpTo, NextNamed

LEMMA NamedAppend ==
  ASSUME NEW S, NEW s \in Seq(S), NEW e \in S, NEW name
  PROVE Named(Append(s, e), name) =
          IF e[1] = name THEN Append(Named(s, name), e[2]) ELSE Named(s, name)
<1> DEFINE t == Append(s, e)
<1>1. Len(t) = Len(s) + 1 /\ t[Len(t)] = e /\ \A i \in 1..Len(s) : s[i] = t[i]
  OBVIOUS
<1>2. PICK g : NamedUpTo(s, name, Len(s), g) /\ Named(s, name) = g[Len(s)]
  BY NamedIsLast
<1> HIDE DEF t
<1>3. PICK h : NamedUpTo(t, name, Len(t), h) /\ Named(t, name) = h[Len(t)]
  BY <1>1, NamedIsLast
<1>4. g[Len(s)] = h[Len(s)]
  BY <1>1, <1>2, <1>3, NamedAgree
<1>5. h[Len(t)] = NextNamed(t, name, h, Len(t))
  BY <1>1, <1>3 DEF NamedUpTo
<1>6. Named(t, name) = IF e[1] = name THEN Append(Named(s, name), e[2]) ELSE Named(s, name)
  BY <1>1, <1>2, <1>3, <1>4, <1>5 DEF NextNamed
<1> QED
  BY <1>6 DEF t

\* What is given are values of the pairs.
LEMMA NamedRange ==
  ASSUME NEW V, NEW s, NEW name, Len(s) \in Nat, \A i \in 1..Len(s) : s[i][2] \in V
  PROVE Named(s, name) \in Seq(V)
<1>1. PICK g : NamedUpTo(s, name, Len(s), g) /\ Named(s, name) = g[Len(s)]
  BY NamedIsLast
<1>2. \A n \in 0..Len(s) : g[n] = NextNamed(s, name, g, n)
  BY <1>1 DEF NamedUpTo
<1> DEFINE P == {n \in Nat : n <= Len(s) => g[n] \in Seq(V)}
<1>3. 0 \in P
  <2>1. g[0] = << >>
    BY <1>2 DEF NextNamed
  <2> QED
    BY <2>1, EmptySeq
<1>4. ASSUME NEW n \in P PROVE n + 1 \in P
  <2> SUFFICES ASSUME n + 1 <= Len(s) PROVE g[n + 1] \in Seq(V)
    OBVIOUS
  <2>1. n \in Nat /\ g[n] \in Seq(V)
    OBVIOUS
  <2>2. s[n + 1][2] \in V /\ n + 1 \in 0..Len(s) /\ n + 1 # 0 /\ n + 1 - 1 = n
    BY <2>1
  <2> HIDE DEF P
  <2>3. g[n + 1] = IF s[n + 1][1] = name THEN Append(g[n], s[n + 1][2]) ELSE g[n]
    BY <1>2, <2>1, <2>2 DEF NextNamed
  <2> QED
    BY <2>1, <2>2, <2>3
<1>5. P = Nat
  BY <1>3, <1>4, Induction
<1> QED
  BY <1>1, <1>5

--------------------------------------------------------------------------------
(***************************************************************************)
(* The builder: one variant at most is ever chosen, and what it needs is   *)
(* there once it is.                                                       *)
(***************************************************************************)
USE DEF auth, vars

BuilderInv ==
  /\ hawkbitUri \in Endpoints \cup {NoEndpoint}
  /\ pollingTimeout \in DefaultSleepTimes
  /\ customHeaders \in CustomCredentials
  /\ authErrorHandler \in BOOLEAN
  /\ authVariant \in Variants
  /\ authVariant \in {"GATEWAY_TOKEN", "DEVICE_TOKEN"} => token \in Tokens
  /\ authVariant = "M_TLS_KEYPAIR" => keypair \in Keypairs
  /\ client.built \in BOOLEAN
  /\ BuiltClientIsInitial

\* build() gives the credentials of one setter, or none.
LEMMA BuildCredentialsAreBuilt ==
  ASSUME BuilderInv PROVE BuildCredentials \in Client!BuiltCredentials
<1>1. customHeaders \in Client!CustomCredentials
  BY DEF BuilderInv, CustomCredentials, Client!CustomCredentials, AddHeader, Client!AddHeader,
         NoCredentials, Client!NoCredentials
<1>2. CASE authVariant = "M_TLS_KEYPAIR"
  <2>1. BuildCredentials = Client!SetTLS(customHeaders, keypair) /\ keypair \in Keypairs
    BY <1>2 DEF BuildCredentials, Authorize, BuilderInv, SetTLS, Client!SetTLS
  <2> QED
    BY <1>1, <2>1 DEF Client!BuiltCredentials
<1>3. CASE authVariant = "GATEWAY_TOKEN"
  <2>1. BuildCredentials = Client!SetGatewayToken(customHeaders, token) /\ token \in Tokens
    BY <1>3 DEF BuildCredentials, Authorize, BuilderInv, SetGatewayToken, Client!SetGatewayToken, AddHeader,
                Client!AddHeader
  <2> QED
    BY <1>1, <2>1 DEF Client!BuiltCredentials
<1>4. CASE authVariant = "DEVICE_TOKEN"
  <2>1. BuildCredentials = Client!SetDeviceToken(customHeaders, token) /\ token \in Tokens
    BY <1>4 DEF BuildCredentials, Authorize, BuilderInv, SetDeviceToken, Client!SetDeviceToken, AddHeader,
                Client!AddHeader
  <2> QED
    BY <1>1, <2>1 DEF Client!BuiltCredentials
<1>5. CASE authVariant = "NOT_SET"
  BY <1>1, <1>5 DEF BuildCredentials, Authorize, Client!BuiltCredentials
<1> QED
  BY <1>2, <1>3, <1>4, <1>5 DEF BuilderInv, Variants

LEMMA BuilderInitInv == Init => BuilderInv
<1> SUFFICES ASSUME Init PROVE BuilderInv
  OBVIOUS
<1>1. NoClient.built = FALSE
  BY DEF NoClient
<1>2. client.built = FALSE
  BY <1>1 DEF Init
<1>3. BuiltClientIsInitial /\ client.built \in BOOLEAN
  BY <1>2, Zenon DEF BuiltClientIsInitial
<1>4. authErrorHandler \in BOOLEAN
  <2>1. authErrorHandler = FALSE
    BY DEF Init
  <2> QED
    BY <2>1, Zenon
<1> QED
  BY <1>3, <1>4, SleepAssumption DEF Init, BuilderInv, CustomCredentials, Variants

LEMMA BuilderStep == ASSUME BuilderInv, [Next]_vars PROVE BuilderInv'
<1>1. CASE UNCHANGED vars
  BY <1>1 DEF BuilderInv, BuiltClientIsInitial, Client!Built
<1>2. CASE SetHawkbitEndpoint
  BY <1>2 DEF SetHawkbitEndpoint, BuilderInv, BuiltClientIsInitial, Client!Built
<1>3. CASE SetDefaultPollingTimeout
  BY <1>3 DEF SetDefaultPollingTimeout, BuilderInv, BuiltClientIsInitial, Client!Built
<1>4. CASE SetAuthErrorHandler
  BY <1>4 DEF SetAuthErrorHandler, BuilderInv, BuiltClientIsInitial, Client!Built
<1>5. CASE AddCustomHeader
  <2>1. customHeaders' \in CustomCredentials
    BY <1>5 DEF AddCustomHeader, CustomCredentials
  <2> QED
    BY <1>5, <2>1 DEF AddCustomHeader, BuilderInv, BuiltClientIsInitial, Client!Built
<1>6. CASE SetGatewayTokenVariant \/ SetDeviceTokenVariant
  BY <1>6 DEF SetGatewayTokenVariant, SetDeviceTokenVariant, SetToken, Variants, BuilderInv,
              BuiltClientIsInitial, Client!Built
<1>7. CASE SetTLSVariant
  BY <1>7 DEF SetTLSVariant, Variants, BuilderInv, BuiltClientIsInitial, Client!Built
<1>8. CASE Build
  <2>1. BuiltClientIsInitial'
    BY <1>8, BuildCredentialsAreBuilt
    DEF Build, FirstSleepTime, BuilderInv, BuiltClientIsInitial, Client!Built
  <2> QED
    BY <1>8, <2>1 DEF Build, BuilderInv
<1> QED
  BY <1>1, <1>2, <1>3, <1>4, <1>5, <1>6, <1>7, <1>8 DEF Next

\* Whatever the setters are called with, and however often, a client of DDIClientBuilder is
\* one the polling loop may start from.
THEOREM BuiltClientIsInitialHolds == Spec => []BuiltClientIsInitial
<1>1. BuilderInv => BuiltClientIsInitial
  BY DEF BuilderInv
<1> QED
  BY <1>1, BuilderInitInv, BuilderStep, PTL DEF Spec

--------------------------------------------------------------------------------
(***************************************************************************)
(* Texts are taken apart from the left: what Until() takes and what stays  *)
(* behind are the whole.                                                   *)
(***************************************************************************)
\* The provers do not know that a literal is a member of STRING.
Letters == STRING \cup {":", "/", "?", "a", "feedback"}

LEMMA LettersOfTexts ==
  /\ Texts \subseteq Seq(Letters)
  /\ \A a, b, c \in Letters :
       << a >> \in Seq(Letters) /\ << a, b >> \in Seq(Letters) /\ << a, b, c >> = << a >> \o << b, c >>
<1>1. \A a, b, c \in Letters :
       << a >> \in Seq(Letters) /\ << a, b >> \in Seq(Letters) /\ << a, b, c >> = << a >> \o << b, c >>
  OBVIOUS
<1>2. STRING \subseteq Letters
  BY DEF Letters
<1> QED
  BY <1>1, <1>2, TextsAssumption, SeqMonotonic

Free(t, stops) == \A i \in 1..Len(t) : t[i] \notin stops

\* The part before the first of the stops has none of them, and one of them follows, if anything.
LEMMA UntilIs ==
  ASSUME NEW S, NEW t \in Seq(S), NEW stops
  PROVE \E n \in 0..Len(t) : /\ Until(t, stops) = SubSeq(t, 1, n)
                             /\ \A i \in 1..n : t[i] \notin stops
                             /\ n = Len(t) \/ t[n + 1] \in stops
<1> DEFINE Ends(n) == n = Len(t) \/ t[n + 1] \in stops
           T == {n \in 0..Len(t) : Ends(n)}
           At(n) == (\A i \in 1..n : t[i] \notin stops) /\ Ends(n)
<1>1. Len(t) \in T /\ T \subseteq Nat
  OBVIOUS
<1> HIDE DEF T
<1>2. PICK m \in T : \A k \in T : m <= k
  BY <1>1, LeastOf
<1>3. m \in 0..Len(t) /\ Ends(m)
  BY DEF T
<1>4. \A i \in 1..m : t[i] \notin stops
  <2> SUFFICES ASSUME NEW i \in 1..m, t[i] \in stops PROVE FALSE
    OBVIOUS
  <2>1. i - 1 \in T /\ i - 1 < m
    BY <1>3 DEF T
  <2> QED
    BY <1>2, <1>3, <2>1
<1>5. \E n \in 0..Len(t) : At(n)
  BY <1>3, <1>4
<1> DEFINE n == CHOOSE n \in 0..Len(t) : At(n)
<1>6. n \in 0..Len(t) /\ At(n)
  BY <1>5, Zenon
<1>7. Until(t, stops) = SubSeq(t, 1, n)
  BY DEF Until
<1> QED
  BY <1>6, <1>7

\* There is only one such part.
LEMMA UntilIsOnly ==
  ASSUME NEW S, NEW x \in Seq(S), NEW y \in Seq(S), NEW stops,
         Free(x, stops), y = << >> \/ y[1] \in stops
  PROVE Until(x \o y, stops) = x
<1> DEFINE t == x \o y
<1>1. /\ t \in Seq(S) /\ Len(x) \in Nat /\ Len(y) \in Nat /\ Len(t) = Len(x) + Len(y)
      /\ SubSeq(t, 1, Len(x)) = x
      /\ \A i \in 1..Len(x) : t[i] = x[i]
      /\ y # << >> => t[Len(x) + 1] = y[1] /\ Len(y) > 0
      /\ y = << >> => Len(y) = 0
  OBVIOUS
<1> HIDE DEF t
<1>2. PICK n \in 0..Len(t) : /\ Until(t, stops) = SubSeq(t, 1, n)
                             /\ \A i \in 1..n : t[i] \notin stops
                             /\ n = Len(t) \/ t[n + 1] \in stops
  BY <1>1, UntilIs
<1>3. ~(n < Len(x))
  BY <1>1, <1>2 DEF Free
<1>4. ~(n > Len(x))
  BY <1>1, <1>2
<1>5. n = Len(x)
  <2>1. n \in Nat /\ Len(x) \in Nat
    BY <1>1
  <2> QED
    BY <1>3, <1>4, <2>1
<1> QED
  BY <1>1, <1>2, <1>5 DEF t

LEMMA BehindIsRest ==
  ASSUME NEW S, NEW x \in Seq(S), NEW y \in Seq(S) PROVE Behind(x \o y, x) = y
  BY DEF Behind

LEMMA UntilSplits ==
  ASSUME NEW S, NEW t \in Seq(S), NEW stops
  PROVE LET x == Until(t, stops)
            y == Behind(t, x)
        IN /\ x \in Seq(S) /\ y \in Seq(S) /\ t = x \o y
           /\ Free(x, stops) /\ (y = << >> \/ y[1] \in stops)
<1>1. PICK n \in 0..Len(t) : /\ Until(t, stops) = SubSeq(t, 1, n)
                             /\ \A i \in 1..n : t[i] \notin stops
                             /\ n = Len(t) \/ t[n + 1] \in stops
  BY UntilIs
<1> DEFINE x == SubSeq(t, 1, n)
           y == SubSeq(t, n + 1, Len(t))
<1>2. x \in Seq(S) /\ y \in Seq(S) /\ t = x \o y /\ Len(x) = n
  <2>1. x \in Seq(S) /\ y \in Seq(S) /\ Len(x) = n /\ Len(y) = Len(t) - n
    OBVIOUS
  <2>2. x \o y = SubSeq(t, 1, Len(t))
    <3>1. Len(t) \in Nat /\ 1 \in 1..(Len(t) + 1) /\ n \in (1 - 1)..Len(t) /\ Len(t) \in n..Len(t)
      OBVIOUS
    <3> QED
      BY <3>1, ConcatAdjacentSubSeq
  <2> QED
    BY <2>1, <2>2, SubSeqFull
<1>3. Free(x, stops)
  BY <1>1 DEF Free
<1>4. y = << >> \/ y[1] \in stops
  BY <1>1
<1> HIDE DEF x
<1>5. Behind(t, x) = SubSeq(t, n + 1, Len(t))
  BY <1>2 DEF Behind
<1> QED
  BY <1>1, <1>2, <1>3, <1>4, <1>5 DEF x

\* What has none of the stops stays in front.
LEMMA UntilBehindFree ==
  ASSUME NEW S, NEW x \in Seq(S), NEW y \in Seq(S), NEW stops, Free(x, stops)
  PROVE Until(x \o y, stops) = x \o Until(y, stops)
<1> DEFINE u == Until(y, stops)
           z == Behind(y, u)
<1>1. /\ u \in Seq(S) /\ z \in Seq(S) /\ y = u \o z
      /\ Free(u, stops) /\ (z = << >> \/ z[1] \in stops)
  BY UntilSplits
<1> HIDE DEF u, z
<1>2. Free(x \o u, stops) /\ x \o u \in Seq(S)
  BY <1>1 DEF Free
<1>3. Until((x \o u) \o z, stops) = x \o u
  BY <1>1, <1>2, UntilIsOnly
<1>4. (x \o u) \o z = x \o y
  BY <1>1, ConcatAssociative, SMTT(20)
<1> QED
  BY <1>3, <1>4 DEF u

Associates(x, y, z) == (x \o y) \o z = x \o (y \o z) /\ x \o y \in Seq(Letters)

LEMMA LettersAssociate == \A x, y, z \in Seq(Letters) : Associates(x, y, z)
  BY ConcatAssociative DEF Associates

LEMMA FreeTogether ==
  ASSUME NEW S, NEW x \in Seq(S), NEW y \in Seq(S), NEW stops, Free(x, stops), Free(y, stops)
  PROVE x \o y \in Seq(S) /\ Free(x \o y, stops)
  BY DEF Free

LEMMA BehindTwo ==
  ASSUME NEW S, NEW t \in Seq(S), NEW a \in S, NEW b \in S, IsPrefix(<< a, b >>, t)
  PROVE Behind(t, << a, b >>) \in Seq(S) /\ t = << a, b >> \o Behind(t, << a, b >>)
<1>1. Len(t) >= 2 /\ SubSeq(t, 1, 2) = SubSeq(<< a, b >>, 1, 2)
  BY DEF IsPrefix
<1>2. t[1] = a /\ t[2] = b
  BY <1>1
<1>3. Behind(t, << a, b >>) = SubSeq(t, 3, Len(t))
  BY DEF Behind
<1>4. t = << a, b >> \o SubSeq(t, 3, Len(t))
  BY <1>1, <1>2
<1>5. SubSeq(t, 3, Len(t)) \in Seq(S)
  BY <1>1
<1> QED
  BY <1>3, <1>4, <1>5

\* What fromString() takes for the parts, put together again, is the text.
LEMMA PartsOfText ==
  ASSUME NEW t \in Seq(Letters), FromString(t).ok
  PROVE LET u == FromString(t)
            front == u.scheme \o << ":", "/", "/" >> \o u.authority
            hierarchy == Behind(t, front)
        IN /\ u.scheme \in Seq(Letters) /\ u.authority \in Seq(Letters) /\ u.path \in Seq(Letters)
           /\ u.query \in Seq(Letters)
           /\ u.scheme # << >> =>
                /\ front \in Seq(Letters) /\ hierarchy \in Seq(Letters) /\ t = front \o hierarchy
                /\ Free(front, {"?", "#"}) /\ Free(front, {"#"})
                /\ u.path = PathOf(hierarchy)
                /\ u.query = QueryOf(Behind(hierarchy, u.path))
<1> DEFINE scheme == SchemeOf(t)
           rest == IF scheme = << >> THEN t ELSE Behind(t, scheme \o << ":" >>)
           authority == AuthorityOf(Behind(rest, << "/", "/" >>))
           hierarchy == Behind(rest, << "/", "/" >> \o authority)
           path0 == PathOf(hierarchy)
           behind == Behind(hierarchy, path0)
           query == QueryOf(behind)
<1>0. /\ << ":" >> \in Seq(Letters) /\ << "/", "/" >> \in Seq(Letters)
      /\ << ":", "/", "/" >> = << ":" >> \o << "/", "/" >>
  BY LettersOfTexts DEF Letters
<1>1. /\ IsPrefix(<< "/", "/" >>, rest)
      /\ FromString(t).scheme = scheme /\ FromString(t).authority = authority
      /\ FromString(t).path = path0 /\ FromString(t).query = query
  <2>1. CASE IsPrefix(<< "/", "/" >>, rest)
    BY <2>1 DEF FromString
  <2>2. CASE ~IsPrefix(<< "/", "/" >>, rest)
    <3>1. FromString(t) = NoUri
      BY <2>2 DEF FromString
    <3>2. NoUri.ok = FALSE
      BY DEF NoUri
    <3> QED
      BY <3>1, <3>2
  <2> QED
    BY <2>1, <2>2
<1>2. /\ scheme \in Seq(Letters) /\ rest \in Seq(Letters)
      /\ scheme # << >> => /\ t = (scheme \o << ":" >>) \o rest
                          /\ Free(scheme, {":", "\\", "/", "?", "#"})
  <2> DEFINE s == Until(t, {":", "\\", "/", "?", "#"})
             y == Behind(t, s)
  <2>1. s \in Seq(Letters) /\ y \in Seq(Letters) /\ t = s \o y /\ Free(s, {":", "\\", "/", "?", "#"})
    BY UntilSplits
  <2>2. scheme = IF s # << >> /\ StartsWith(y, ":") THEN s ELSE << >>
    BY DEF SchemeOf
  <2> HIDE DEF s, y, scheme
  <2>3. CASE scheme = << >>
    BY <2>3
  <2>4. CASE scheme # << >>
    <3>1. scheme = s /\ y # << >> /\ y[1] = ":"
      BY <2>2, <2>4 DEF StartsWith
    <3>2. Tail(y) \in Seq(Letters) /\ y = << ":" >> \o Tail(y)
      BY <2>1, <3>1
    <3>3. << ":" >> \in Seq(Letters) /\ s \o << ":" >> \in Seq(Letters)
      BY <1>0, <2>1
    <3>4. t = (s \o << ":" >>) \o Tail(y)
      BY <2>1, <3>2, <3>3, ConcatAssociative
    <3>5. rest = Tail(y)
      BY <2>4, <3>1, <3>2, <3>3, <3>4, BehindIsRest
    <3> QED
      BY <2>1, <3>1, <3>2, <3>4, <3>5
  <2> QED
    BY <2>3, <2>4
<1> HIDE DEF scheme, rest
<1> DEFINE behindSlashes == Behind(rest, << "/", "/" >>)
<1>3. behindSlashes \in Seq(Letters) /\ rest = << "/", "/" >> \o behindSlashes
  <2>1. "/" \in Letters
    BY DEF Letters
  <2> QED
    BY <1>1, <1>2, <2>1, BehindTwo
<1>4. /\ authority \in Seq(Letters) /\ hierarchy \in Seq(Letters)
      /\ rest = (<< "/", "/" >> \o authority) \o hierarchy
      /\ Free(authority, {"\\", "/", "?", "#"})
  <2> DEFINE y == Behind(behindSlashes, authority)
  <2>1. /\ authority \in Seq(Letters) /\ y \in Seq(Letters) /\ behindSlashes = authority \o y
        /\ Free(authority, {"\\", "/", "?", "#"})
    BY <1>3, UntilSplits DEF AuthorityOf
  <2> HIDE DEF authority, y, behindSlashes
  <2>2. << "/", "/" >> \in Seq(Letters) /\ << "/", "/" >> \o authority \in Seq(Letters)
    BY <1>0, <2>1
  <2>3. rest = (<< "/", "/" >> \o authority) \o y
    <3>1. Associates(<< "/", "/" >>, authority, y)
      BY <2>1, <2>2, LettersAssociate, Zenon
    <3> QED
      BY <1>3, <2>1, <3>1 DEF Associates
  <2>4. hierarchy = y
    BY <2>1, <2>2, <2>3, BehindIsRest
  <2> QED
    BY <2>1, <2>3, <2>4
<1> HIDE DEF authority, hierarchy, behindSlashes
<1>5. path0 \in Seq(Letters) /\ behind \in Seq(Letters)
  BY <1>4, UntilSplits DEF PathOf
<1> HIDE DEF path0, behind
<1>6. query \in Seq(Letters)
  <2>1. CASE StartsWith(behind, "?")
    <3>1. Tail(behind) \in Seq(Letters)
      BY <1>5, <2>1 DEF StartsWith
    <3> QED
      BY <2>1, <3>1, UntilSplits DEF QueryOf
  <2>2. CASE ~StartsWith(behind, "?")
    BY <2>2 DEF QueryOf
  <2> QED
    BY <2>1, <2>2
<1> DEFINE front == scheme \o << ":", "/", "/" >> \o authority
<1>7. ASSUME scheme # << >>
      PROVE front \in Seq(Letters) /\ t = front \o hierarchy /\ Free(front, {"?", "#"}) /\ Free(front, {"#"})
  <2> DEFINE colon == << ":" >>
             slashes == << "/", "/" >>
  <2>1. colon \in Seq(Letters) /\ slashes \in Seq(Letters) /\ << ":", "/", "/" >> = colon \o slashes
    BY <1>0
  <2>2. /\ t = (scheme \o colon) \o ((slashes \o authority) \o hierarchy)
        /\ front = scheme \o (colon \o slashes) \o authority
    BY <1>2, <1>4, <1>7, <2>1
  <2> HIDE DEF colon, slashes, front
  <2>3. scheme \o (colon \o slashes) = (scheme \o colon) \o slashes
    <3>1. scheme \in Seq(Letters)
      BY <1>2
    <3>2. Associates(scheme, colon, slashes)
      BY <2>1, <3>1, LettersAssociate, Zenon
    <3> QED
      BY <3>2 DEF Associates
  <2>4. scheme \o colon \in Seq(Letters) /\ slashes \o authority \in Seq(Letters)
    BY <1>2, <1>4, <2>1
  <2> DEFINE named == scheme \o colon
             placed == slashes \o authority
  <2> HIDE DEF named, placed
  <2>5. front = named \o placed
    <3>1. front = (named \o slashes) \o authority
      BY <2>2, <2>3 DEF named
    <3>2. named \in Seq(Letters) /\ slashes \in Seq(Letters) /\ authority \in Seq(Letters)
      BY <1>4, <2>1, <2>4 DEF named
    <3>3. Associates(named, slashes, authority)
      BY <3>2, LettersAssociate, Zenon
    <3> QED
      BY <3>1, <3>3 DEF placed, Associates
  <2>6. front \in Seq(Letters) /\ t = front \o hierarchy
    <3>1. named \in Seq(Letters) /\ placed \in Seq(Letters) /\ hierarchy \in Seq(Letters)
      BY <1>4, <2>4 DEF named, placed
    <3>2. Associates(named, placed, hierarchy)
      BY <3>1, LettersAssociate, Zenon
    <3>3. t = named \o (placed \o hierarchy)
      BY <2>2 DEF named, placed
    <3> QED
      BY <2>5, <3>2, <3>3 DEF Associates
  <2>7. Free(front, {"?", "#"})
    <3>1. scheme \in Seq(Letters) /\ Free(scheme, {"?", "#"})
      BY <1>2, <1>7 DEF Free
    <3>2. authority \in Seq(Letters) /\ Free(authority, {"?", "#"})
      BY <1>4 DEF Free
    <3> DEFINE marks == << ":", "/", "/" >>
    <3>3. marks \in Seq(Letters) /\ Free(marks, {"?", "#"})
      BY <1>0 DEF Free
    <3> HIDE DEF marks
    <3>4. scheme \o marks \in Seq(Letters) /\ Free(scheme \o marks, {"?", "#"})
      BY <3>1, <3>3, FreeTogether
    <3>5. Free((scheme \o marks) \o authority, {"?", "#"})
      BY <3>2, <3>4, FreeTogether
    <3>6. front = (scheme \o marks) \o authority
      BY DEF front, marks
    <3> QED
      BY <3>5, <3>6
  <2> QED
    BY <2>6, <2>7 DEF Free
<1>8. scheme # << >> => Behind(t, front) = hierarchy
  BY <1>4, <1>7, BehindIsRest, ZenonT(20)
<1> QED
  BY <1>1, <1>2, <1>4, <1>5, <1>6, <1>7, <1>8 DEF path0, behind

LEMMA UntilEmpty ==
  ASSUME NEW S, NEW y \in Seq(S), NEW stops, y = << >> \/ y[1] \in stops PROVE Until(y, stops) = << >>
<1> DEFINE x == << >>
<1>1. x \in Seq(S) /\ Free(x, stops) /\ x \o y = y
  BY DEF Free
<1> HIDE DEF x
<1>2. Until(x \o y, stops) = x
  BY <1>1, UntilIsOnly
<1> QED
  BY <1>1, <1>2 DEF x

\* The text up to the fragment is what stands before the hierarchy, and the path of a download.
LEMMA DownloadOfText ==
  ASSUME NEW h \in Seq(Letters)
  PROVE LET p == PathOf(h)
            q == QueryOf(Behind(h, p))
        IN \/ Until(h, {"#"}) = p /\ q = << >>
           \/ Until(h, {"#"}) = p \o << "?" >> /\ q = << >>
           \/ Until(h, {"#"}) = p \o (<< "?" >> \o q) /\ q # << >>
<1> DEFINE p == PathOf(h)
           b == Behind(h, p)
           q == QueryOf(b)
<1>1. /\ p \in Seq(Letters) /\ b \in Seq(Letters) /\ h = p \o b
      /\ Free(p, {"?", "#"}) /\ (b = << >> \/ b[1] \in {"?", "#"})
  BY UntilSplits DEF PathOf
<1> HIDE DEF p, b
<1>2. Until(h, {"#"}) = p \o Until(b, {"#"})
  <2>1. Free(p, {"#"})
    BY <1>1 DEF Free
  <2> QED
    BY <1>1, <2>1, UntilBehindFree
<1>3. CASE ~StartsWith(b, "?")
  <2>1. b = << >> \/ b[1] \in {"#"}
    BY <1>1, <1>3 DEF StartsWith
  <2>2. Until(b, {"#"}) = << >>
    BY <1>1, <2>1, UntilEmpty
  <2>3. p \o << >> = p
    BY <1>1
  <2>4. q = << >>
    BY <1>3 DEF QueryOf
  <2> QED
    BY <1>2, <2>2, <2>3, <2>4 DEF p, b
<1>4. CASE StartsWith(b, "?")
  <2> DEFINE mark == << "?" >>
             r == Tail(b)
  <2>1. mark \in Seq(Letters) /\ r \in Seq(Letters) /\ b = mark \o r /\ Free(mark, {"#"})
    <3>1. "?" \in Letters /\ b # << >> /\ b[1] = "?"
      BY <1>4 DEF Letters, StartsWith
    <3>2. mark \in Seq(Letters) /\ r \in Seq(Letters) /\ b = mark \o r
      BY <1>1, <3>1
    <3> QED
      BY <3>2 DEF Free
  <2>2. q = Until(r, {"#"})
    BY <1>4 DEF QueryOf
  <2> HIDE DEF mark, r
  <2>3. Until(b, {"#"}) = mark \o q
    BY <2>1, <2>2, UntilBehindFree
  <2>4. q = << >> => mark \o q = mark
    BY <2>1
  <2> QED
    BY <1>2, <2>3, <2>4 DEF mark, p, b
<1> QED
  BY <1>3, <1>4

\* Before the query, and before the fragment, the text is what the request asks for.
LEMMA RequestOfText ==
  ASSUME NEW t \in Seq(Letters), FromString(t).ok, FromString(t).scheme # << >>
  PROVE LET u == FromString(t)
            front == u.scheme \o << ":", "/", "/" >> \o u.authority
        IN /\ front \in Seq(Letters) /\ u.path \in Seq(Letters)
           /\ Until(t, {"?", "#"}) = front \o u.path
           /\ Until(t, {"#"}) \in {front \o DownloadPath(u), front \o DownloadPath(u) \o << "?" >>}
<1> DEFINE u == FromString(t)
           front == u.scheme \o << ":", "/", "/" >> \o u.authority
           h == Behind(t, front)
<1>1. /\ u.path \in Seq(Letters) /\ u.query \in Seq(Letters)
      /\ h \in Seq(Letters) /\ t = front \o h
      /\ Free(front, {"?", "#"}) /\ Free(front, {"#"})
      /\ u.path = PathOf(h) /\ u.query = QueryOf(Behind(h, u.path))
      /\ front \in Seq(Letters)
  BY PartsOfText
<1> HIDE DEF u, front, h
<1>2. Until(t, {"?", "#"}) = front \o u.path
  BY <1>1, UntilBehindFree DEF PathOf
<1>3. Until(t, {"#"}) = front \o Until(h, {"#"})
  BY <1>1, UntilBehindFree
<1>4. \/ Until(h, {"#"}) = u.path /\ u.query = << >>
      \/ Until(h, {"#"}) = u.path \o << "?" >> /\ u.query = << >>
      \/ Until(h, {"#"}) = u.path \o (<< "?" >> \o u.query) /\ u.query # << >>
  BY <1>1, DownloadOfText
<1> DEFINE mark == << "?" >>
<1>5. mark \in Seq(Letters)
  BY LettersOfTexts DEF Letters
<1> HIDE DEF mark
<1>6. CASE Until(h, {"#"}) = u.path /\ u.query = << >>
  <2>1. DownloadPath(u) = u.path
    BY <1>1, <1>6 DEF DownloadPath
  <2> QED
    BY <1>1, <1>2, <1>3, <1>6, <2>1 DEF u, front
<1>7. CASE Until(h, {"#"}) = u.path \o << "?" >> /\ u.query = << >>
  <2>1. DownloadPath(u) = u.path
    BY <1>1, <1>7 DEF DownloadPath
  <2>2. (front \o u.path) \o mark = front \o (u.path \o mark)
    <3> DEFINE p == u.path
    <3> HIDE DEF p
    <3>1. front \in Seq(Letters) /\ p \in Seq(Letters) /\ mark \in Seq(Letters)
      BY <1>1, <1>5 DEF p
    <3>2. Associates(front, p, mark)
      BY <3>1, LettersAssociate, Zenon
    <3> QED
      BY <3>2 DEF p, Associates
  <2> QED
    BY <1>1, <1>2, <1>3, <1>7, <2>1, <2>2 DEF u, front, mark
<1>8. CASE Until(h, {"#"}) = u.path \o (<< "?" >> \o u.query) /\ u.query # << >>
  <2>1. DownloadPath(u) = u.path \o (<< "?" >> \o u.query)
    BY <1>8 DEF DownloadPath
  <2> QED
    BY <1>1, <1>2, <1>3, <1>8, <2>1 DEF u, front
<1> QED
  BY <1>4, <1>6, <1>7, <1>8

(***************************************************************************)
(* The URI that is asked for is the one the text is parsed to.             *)
(***************************************************************************)
UriInv ==
  /\ text \in Seq(Letters) /\ parsed = FromString(text)
  /\ kind \in {"none", "endpoint"} \cup Kinds
  /\ kind \in Kinds => parsed.ok /\ path \in PathsFor(kind, parsed)

LEMMA UriInitInv == UriInit => UriInv
  BY LettersOfTexts DEF UriInit, UriInv, Kinds

LEMMA UriStep == ASSUME UriInv, [UriNext]_uriVars PROVE UriInv'
<1>1. CASE UNCHANGED uriVars
  BY <1>1 DEF UriInv, uriVars
<1>2. CASE SetEndpointOfController
  <2>1. parsed.scheme \in Seq(Letters) /\ parsed.authority \in Seq(Letters)
    BY <1>2, PartsOfText DEF SetEndpointOfController, UriInv
  <2>2. << ":", "/", "/" >> \in Seq(Letters) /\ << "/", "a", "/", "a" >> \in Seq(Letters)
    BY DEF Letters
  <2>3. EndpointFrom(parsed) \in Seq(Letters)
    BY <2>1, <2>2 DEF EndpointFrom
  <2> QED
    BY <1>2, <2>3 DEF SetEndpointOfController, UriInv, Kinds
<1>3. CASE Request
  BY <1>3 DEF Request, UriInv
<1> QED
  BY <1>1, <1>2, <1>3 DEF UriNext

\* What is asked for a URI, put behind its scheme and authority, is the text it was given in.
LEMMA UriInvSaysWhere == UriInv => RequestsGoWhereTheyShould
<1> SUFFICES ASSUME UriInv, kind \in Kinds, ~IsEmpty(parsed) PROVE RequestsGoWhereTheyShould
  BY DEF RequestsGoWhereTheyShould
<1> DEFINE front == parsed.scheme \o << ":", "/", "/" >> \o parsed.authority
           upToQuery == Until(text, {"?", "#"})
           given == Until(text, {"#"})
<1>1. /\ front \in Seq(Letters) /\ parsed.path \in Seq(Letters)
      /\ upToQuery = front \o parsed.path
      /\ given \in {front \o DownloadPath(parsed), front \o DownloadPath(parsed) \o << "?" >>}
  BY RequestOfText DEF UriInv, IsEmpty
<1>2. path \in PathsFor(kind, parsed)
  BY DEF UriInv
<1> HIDE DEF front, upToQuery, given
<1>3. CASE kind = "download"
  BY <1>1, <1>2, <1>3 DEF PathsFor, RequestsGoWhereTheyShould, front, given
<1>4. CASE kind \in {"poll", "action"}
  BY <1>1, <1>2, <1>4 DEF PathsFor, RequestsGoWhereTheyShould, front, upToQuery
<1>5. CASE kind = "feedback"
  <2> DEFINE end == << "feedback" >>
             ends == {<< "feedback" >>, << "/", "feedback" >>}
  <2>1. PICK slash \in EndsWithSlash(parsed.path) :
          path = parsed.path \o (IF slash THEN << >> ELSE << "/" >>) \o end
    BY <1>2, <1>5 DEF PathsFor, FeedbackPaths
  <2>2. \E e \in ends : e \in Seq(Letters) /\ path = parsed.path \o e
    <3>1. /\ end \in Seq(Letters) /\ << "/" >> \in Seq(Letters) /\ << "/", "feedback" >> \in Seq(Letters)
          /\ << "/", "feedback" >> = << "/" >> \o end
      BY DEF Letters
    <3> HIDE DEF end
    <3>2. parsed.path \in Seq(Letters) /\ << "/" >> \in Seq(Letters) /\ end \in Seq(Letters)
      BY <1>1, <3>1
    <3>3. (parsed.path \o << "/" >>) \o end = parsed.path \o (<< "/" >> \o end)
      <4>1. Associates(parsed.path, << "/" >>, end)
        BY <3>2, LettersAssociate, Zenon
      <4> QED
        BY <4>1 DEF Associates
    <3>4. path = parsed.path \o end \/ path = parsed.path \o << "/", "feedback" >>
      <4>1. parsed.path \o << >> = parsed.path
        BY <1>1
      <4>2. path = (parsed.path \o << >>) \o end \/ path = (parsed.path \o << "/" >>) \o end
        BY <2>1 DEF end
      <4> QED
        BY <3>1, <3>3, <4>1, <4>2
    <3> QED
      BY <3>1, <3>4 DEF end
  <2>3. PICK e \in ends : e \in Seq(Letters) /\ path = parsed.path \o e
    BY <2>2
  <2>4. front \in Seq(Letters) /\ parsed.path \in Seq(Letters) /\ e \in Seq(Letters)
    BY <1>1, <2>3
  <2>5. (front \o parsed.path) \o e = front \o (parsed.path \o e)
    <3>1. Associates(front, parsed.path, e)
      BY <2>4, LettersAssociate, Zenon
    <3> QED
      BY <3>1 DEF Associates
  <2>6. front \o path = upToQuery \o e
    BY <1>1, <2>3, <2>5
  <2> QED
    BY <1>5, <2>3, <2>6 DEF RequestsGoWhereTheyShould, front, upToQuery
<1> QED
  BY <1>3, <1>4, <1>5 DEF Kinds

\* Whatever text a URI is given in, however long: the requests made of it go where it says.
THEOREM RequestsGoWhereTheyShouldHolds == UriSpec => []RequestsGoWhereTheyShould
  BY UriInitInv, UriStep, UriInvSaysWhere, PTL DEF UriSpec

--------------------------------------------------------------------------------
(***************************************************************************)
(* Documents: what the builders hold is what the calls so far gave them.   *)
(***************************************************************************)
USE DEF responseVars

LastGivenBy(cs, name, default) ==
  IF Named(cs, name) = << >> THEN default ELSE Last(Named(cs, name))
FirstOfEach(ds) == {ds[i] : i \in {i \in DOMAIN ds : \A j \in 1..(i - 1) : ds[j][1] # ds[i][1]}}

Setters == {"finished", "execution", "listener", "detail", "data", "mode", "ignoreSleep"}
Arguments ==
  Finished \cup Execution \cup Modes \cup Details \cup (Keys \X DataValues)
    \cup {"none", "own", "response", "config"}
Calls == Setters \X Arguments

HoldsResponse(b, cs) ==
  /\ b \in [of : {"response"}, finished : Arguments, execution : Arguments, details : Seq(Arguments),
            listener : Arguments, ignoreSleep : BOOLEAN]
  /\ b.finished = LastGivenBy(cs, "finished", "none")
  /\ b.execution = LastGivenBy(cs, "execution", "closed")
  /\ b.details = Named(cs, "detail")
  /\ b.listener = LastGivenBy(cs, "listener", "none")

HoldsConfig(b, cs) ==
  /\ b \in [of : {"config"}, data : SUBSET Arguments, mode : Modes, ignoreSleep : BOOLEAN]
  /\ b.mode = LastGivenBy(cs, "mode", "merge")
  /\ b.data = FirstOfEach(Named(cs, "data"))

BuiltBefore == SubSeq(calls, 1, builtAfter)

ResponsesInv ==
  /\ calls \in Seq(Calls)
  /\ builtAfter \in 0..Len(calls)
  /\ HoldsResponse(builder, calls)
  /\ HoldsConfig(configBuilder, calls)
  /\ \/ built = NoBuilt
     \/ HoldsResponse(built, BuiltBefore)
     \/ HoldsConfig(built, BuiltBefore)
  /\ DocumentSaysWhatWasSet

\* A call gives its argument under its name, and nothing under another.
LEMMA GivenByOneMore ==
  ASSUME NEW cs \in Seq(Calls), NEW c \in Calls, NEW name
  PROVE /\ Named(cs, name) \in Seq(Arguments)
        /\ c[1] # name => Named(Append(cs, c), name) = Named(cs, name)
        /\ c[1] = name => /\ Named(Append(cs, c), name) = Append(Named(cs, name), c[2])
                          /\ \A default : LastGivenBy(Append(cs, c), name, default) = c[2]
<1>1. Named(cs, name) \in Seq(Arguments)
  <2>1. \A i \in DOMAIN cs : cs[i][2] \in Arguments
    BY DEF Calls
  <2> QED
    BY <2>1, NamedRange
<1>2. Named(Append(cs, c), name) = IF c[1] = name THEN Append(Named(cs, name), c[2]) ELSE Named(cs, name)
  BY NamedAppend
<1>3. c[2] \in Arguments
  BY DEF Calls
<1>4. \A s \in Seq(Arguments), a \in Arguments : Append(s, a) # << >> /\ Last(Append(s, a)) = a
  BY DEF Last
<1> QED
  BY <1>1, <1>2, <1>3, <1>4 DEF LastGivenBy

\* What stays when another name is called.
LEMMA OthersStay ==
  ASSUME NEW cs \in Seq(Calls), NEW c \in Calls, NEW name, c[1] # name
  PROVE /\ Named(Append(cs, c), name) = Named(cs, name)
        /\ \A default : LastGivenBy(Append(cs, c), name, default) = LastGivenBy(cs, name, default)
  BY GivenByOneMore DEF LastGivenBy

\* One more pair is the first of its key, or changes nothing.
LEMMA FirstOfEachAppend ==
  ASSUME NEW S, NEW ds \in Seq(S), NEW d \in S
  PROVE FirstOfEach(Append(ds, d)) =
          IF \E e \in FirstOfEach(ds) : e[1] = d[1] THEN FirstOfEach(ds) ELSE FirstOfEach(ds) \cup {d}
<1> DEFINE First(t) == {i \in DOMAIN t : \A j \in 1..(i - 1) : t[j][1] # t[i][1]}
           t == Append(ds, d)
           n == Len(ds) + 1
<1>1. Len(ds) \in Nat /\ DOMAIN ds = 1..Len(ds) /\ DOMAIN t = 1..n /\ t[n] = d
  OBVIOUS
<1>2. \A i \in 1..Len(ds) : t[i] = ds[i]
  OBVIOUS
<1> HIDE DEF t
<1>3. \A i \in 1..Len(ds) : i \in First(t) <=> i \in First(ds)
  BY <1>1, <1>2
<1>4. n \in First(t) <=> \A j \in 1..Len(ds) : ds[j][1] # d[1]
  BY <1>1, <1>2
<1>5. ASSUME NEW k \in 1..Len(ds) PROVE \E e \in FirstOfEach(ds) : e[1] = ds[k][1]
  <2> DEFINE T == {i \in 1..Len(ds) : ds[i][1] = ds[k][1]}
  <2>0. k \in T /\ T \subseteq Nat
    BY <1>1
  <2> HIDE DEF T
  <2>1. PICK m \in T : \A i \in T : m <= i
    BY <2>0, LeastOf
  <2> USE DEF T
  <2>2. m \in First(ds)
    BY <1>1, <2>1
  <2> QED
    BY <2>1, <2>2 DEF FirstOfEach
<1>6. (\E e \in FirstOfEach(ds) : e[1] = d[1]) <=> n \notin First(t)
  BY <1>1, <1>4, <1>5 DEF FirstOfEach
<1>7. \A i : i \in First(t) <=> i \in First(ds) \/ (i = n /\ n \in First(t))
  BY <1>1, <1>3
<1>8. FirstOfEach(t) = {t[i] : i \in First(t)} /\ FirstOfEach(ds) = {ds[i] : i \in First(ds)}
  BY DEF FirstOfEach
<1>9. {t[i] : i \in First(ds)} = {ds[i] : i \in First(ds)}
  BY <1>1, <1>2
<1>10. CASE n \in First(t)
  <2>1. First(t) = First(ds) \cup {n}
    BY <1>7, <1>10
  <2> HIDE DEF First
  <2>2. {t[i] : i \in First(ds) \cup {n}} = {t[i] : i \in First(ds)} \cup {t[n]}
    OBVIOUS
  <2> QED
    BY <1>1, <1>6, <1>8, <1>9, <1>10, <2>1, <2>2 DEF t
<1>11. CASE n \notin First(t)
  <2>1. First(t) = First(ds)
    BY <1>7, <1>11
  <2> HIDE DEF First
  <2> QED
    BY <1>6, <1>8, <1>9, <1>11, <2>1 DEF t
<1> QED
  BY <1>10, <1>11

LEMMA ResponsesInitInv == ResponsesInit => ResponsesInv
<1> SUFFICES ASSUME ResponsesInit PROVE ResponsesInv
  OBVIOUS
<1>1. \A name, default : Named(calls, name) = << >> /\ LastGivenBy(calls, name, default) = default
  BY NamedEmpty DEF ResponsesInit, LastGivenBy
<1> USE DEF Finished, Execution, Modes, Arguments
<1>2. HoldsResponse(builder, calls)
  BY <1>1, EmptySeq DEF ResponsesInit, NewBuilder, HoldsResponse
<1>3. HoldsConfig(configBuilder, calls)
  BY <1>1 DEF ResponsesInit, NewConfigBuilder, HoldsConfig, FirstOfEach
<1>4. DocumentSaysWhatWasSet
  BY DEF ResponsesInit, NoDocument, DocumentSaysWhatWasSet
<1> QED
  BY <1>2, <1>3, <1>4 DEF ResponsesInit, ResponsesInv

\* A call changes nothing of what was built before it.
LEMMA CallKeepsBuilt ==
  ASSUME ResponsesInv, NEW name \in Setters, NEW a \in Arguments, Called(name, a)
  PROVE /\ calls' = Append(calls, << name, a >>) /\ << name, a >> \in Calls
        /\ calls' \in Seq(Calls) /\ builtAfter' \in 0..Len(calls')
        /\ built' = NoBuilt \/ HoldsResponse(built, BuiltBefore)' \/ HoldsConfig(built, BuiltBefore)'
        /\ DocumentSaysWhatWasSet'
<1> DEFINE c == << name, a >>
<1>1. calls' = Append(calls, c) /\ UNCHANGED << built, builtAfter, document >>
  BY DEF Called
<1>2. c \in Calls
  BY DEF Calls
<1>3. calls \in Seq(Calls) /\ builtAfter \in 0..Len(calls)
  BY DEF ResponsesInv
<1> HIDE DEF c
<1>4. SubSeq(calls', 1, builtAfter') = SubSeq(calls, 1, builtAfter)
  BY <1>1, <1>2, <1>3
<1>5. calls' \in Seq(Calls) /\ builtAfter' \in 0..Len(calls')
  BY <1>1, <1>2, <1>3
<1>6. DocumentSaysWhatWasSet'
  <2>1. \A n : Given(n)' = Given(n)
    BY <1>4 DEF Given
  <2>2. \A n, d : LastGiven(n, d)' = LastGiven(n, d)
    BY <2>1 DEF LastGiven, Last
  <2> QED
    BY <1>1, <2>1, <2>2 DEF ResponsesInv, DocumentSaysWhatWasSet
<1>7. built' = NoBuilt \/ HoldsResponse(built, BuiltBefore)' \/ HoldsConfig(built, BuiltBefore)'
  BY <1>1, <1>4 DEF ResponsesInv, BuiltBefore, HoldsResponse, HoldsConfig
<1> QED
  BY <1>1, <1>2, <1>5, <1>6, <1>7 DEF c

\* What a call does to what is given.
LEMMA CallGives ==
  ASSUME NEW cs \in Seq(Calls), NEW name \in Setters, NEW a \in Arguments
  PROVE LET ds == Append(cs, << name, a >>)
        IN /\ Named(cs, name) \in Seq(Arguments)
           /\ Named(ds, name) = Append(Named(cs, name), a)
           /\ \A default : LastGivenBy(ds, name, default) = a
           /\ \A other : other # name =>
                /\ Named(ds, other) = Named(cs, other)
                /\ \A default : LastGivenBy(ds, other, default) = LastGivenBy(cs, other, default)
<1> DEFINE c == << name, a >>
<1>1. c \in Calls /\ c[1] = name /\ c[2] = a
  BY DEF Calls
<1> HIDE DEF c
<1>2. /\ Named(cs, c[1]) \in Seq(Arguments)
      /\ Named(Append(cs, c), c[1]) = Append(Named(cs, c[1]), c[2])
      /\ \A default : LastGivenBy(Append(cs, c), c[1], default) = c[2]
  <2>1. c \in Calls
    BY <1>1
  <2> QED
    BY <2>1, GivenByOneMore, ZenonT(20)
<1>3. ASSUME NEW other, other # name
      PROVE /\ Named(Append(cs, c), other) = Named(cs, other)
            /\ \A default : LastGivenBy(Append(cs, c), other, default) = LastGivenBy(cs, other, default)
  BY <1>1, <1>3, OthersStay
<1> QED
  BY <1>1, <1>2, <1>3 DEF c

\* The setters of one builder, and of the other.
LEMMA ResponseSetter ==
  ASSUME NEW cs \in Seq(Calls), NEW name \in Setters, NEW a \in Arguments, NEW b, HoldsResponse(b, cs)
  PROVE LET ds == Append(cs, << name, a >>)
        IN /\ name = "finished" => HoldsResponse([b EXCEPT !.finished = a], ds)
           /\ name = "execution" => HoldsResponse([b EXCEPT !.execution = a], ds)
           /\ name = "listener" => HoldsResponse([b EXCEPT !.listener = a], ds)
           /\ name = "detail" => HoldsResponse([b EXCEPT !.details = Append(@, a)], ds)
           /\ name = "ignoreSleep" => HoldsResponse([b EXCEPT !.ignoreSleep = TRUE], ds)
           /\ name \in {"data", "mode", "ignoreSleep"} => HoldsResponse(b, ds)
<1> DEFINE ds == Append(cs, << name, a >>)
<1>1. /\ Named(cs, name) \in Seq(Arguments)
      /\ Named(ds, name) = Append(Named(cs, name), a)
      /\ \A default : LastGivenBy(ds, name, default) = a
      /\ \A other : other # name =>
           /\ Named(ds, other) = Named(cs, other)
           /\ \A default : LastGivenBy(ds, other, default) = LastGivenBy(cs, other, default)
  BY CallGives
<1> HIDE DEF ds
<1>2. name = "finished" => HoldsResponse([b EXCEPT !.finished = a], ds)
  BY <1>1 DEF HoldsResponse
<1>3. name = "execution" => HoldsResponse([b EXCEPT !.execution = a], ds)
  BY <1>1 DEF HoldsResponse
<1>4. name = "listener" => HoldsResponse([b EXCEPT !.listener = a], ds)
  BY <1>1 DEF HoldsResponse
<1>5. ASSUME name = "detail" PROVE HoldsResponse([b EXCEPT !.details = Append(@, a)], ds)
  <2> DEFINE new == Append(b.details, a)
  <2>1. new = Named(ds, "detail")
    BY <1>1, <1>5 DEF HoldsResponse
  <2>2. new \in Seq(Arguments)
    BY <1>1, <1>5 DEF HoldsResponse
  <2> HIDE DEF new
  <2>3. HoldsResponse([b EXCEPT !.details = new], ds)
    <3>1. \A default : /\ LastGivenBy(ds, "finished", default) = LastGivenBy(cs, "finished", default)
                       /\ LastGivenBy(ds, "execution", default) = LastGivenBy(cs, "execution", default)
                       /\ LastGivenBy(ds, "listener", default) = LastGivenBy(cs, "listener", default)
      BY <1>1, <1>5
    <3> QED
      BY <2>1, <2>2, <3>1 DEF HoldsResponse
  <2> QED
    BY <2>3 DEF new
<1>6. name = "ignoreSleep" => HoldsResponse([b EXCEPT !.ignoreSleep = TRUE], ds)
  BY <1>1 DEF HoldsResponse
<1>7. name \in {"data", "mode", "ignoreSleep"} => HoldsResponse(b, ds)
  BY <1>1 DEF HoldsResponse
<1> QED
  BY <1>2, <1>3, <1>4, <1>5, <1>6, <1>7 DEF ds

LEMMA ConfigSetter ==
  ASSUME NEW cs \in Seq(Calls), NEW name \in Setters, NEW a \in Arguments, NEW b, HoldsConfig(b, cs)
  PROVE LET ds == Append(cs, << name, a >>)
        IN /\ name = "mode" /\ a \in Modes => HoldsConfig([b EXCEPT !.mode = a], ds)
           /\ name = "data" =>
                HoldsConfig([b EXCEPT !.data = IF \E d \in @ : d[1] = a[1] THEN @ ELSE @ \cup {a}], ds)
           /\ name = "ignoreSleep" => HoldsConfig([b EXCEPT !.ignoreSleep = TRUE], ds)
           /\ name \in Setters \ {"mode", "data"} => HoldsConfig(b, ds)
<1> DEFINE ds == Append(cs, << name, a >>)
<1>1. /\ Named(cs, name) \in Seq(Arguments)
      /\ Named(ds, name) = Append(Named(cs, name), a)
      /\ \A default : LastGivenBy(ds, name, default) = a
      /\ \A other : other # name =>
           /\ Named(ds, other) = Named(cs, other)
           /\ \A default : LastGivenBy(ds, other, default) = LastGivenBy(cs, other, default)
  BY CallGives
<1> HIDE DEF ds
<1>2. name = "mode" /\ a \in Modes => HoldsConfig([b EXCEPT !.mode = a], ds)
  BY <1>1 DEF HoldsConfig
<1>3. ASSUME name = "data"
      PROVE HoldsConfig([b EXCEPT !.data = IF \E d \in @ : d[1] = a[1] THEN @ ELSE @ \cup {a}], ds)
  <2> DEFINE new == IF \E d \in b.data : d[1] = a[1] THEN b.data ELSE b.data \cup {a}
  <2>1. FirstOfEach(Named(ds, "data")) = new
    <3>1. Named(ds, "data") = Append(Named(cs, "data"), a) /\ Named(cs, "data") \in Seq(Arguments)
      BY <1>1, <1>3
    <3>2. FirstOfEach(Append(Named(cs, "data"), a)) =
            IF \E e \in FirstOfEach(Named(cs, "data")) : e[1] = a[1]
              THEN FirstOfEach(Named(cs, "data")) ELSE FirstOfEach(Named(cs, "data")) \cup {a}
      BY <3>1, FirstOfEachAppend
    <3>3. FirstOfEach(Named(cs, "data")) = b.data
      BY DEF HoldsConfig
    <3> QED
      BY <3>1, <3>2, <3>3
  <2>2. new \in SUBSET Arguments
    BY DEF HoldsConfig
  <2> HIDE DEF new
  <2>3. HoldsConfig([b EXCEPT !.data = new], ds)
    BY <1>1, <1>3, <2>1, <2>2 DEF HoldsConfig
  <2> QED
    BY <2>3 DEF new
<1>4. name = "ignoreSleep" => HoldsConfig([b EXCEPT !.ignoreSleep = TRUE], ds)
  BY <1>1 DEF HoldsConfig
<1>5. name \in Setters \ {"mode", "data"} => HoldsConfig(b, ds)
  BY <1>1 DEF HoldsConfig
<1> QED
  BY <1>2, <1>3, <1>4, <1>5 DEF ds

\* Any call of either builder.
LEMMA CallStep ==
  ASSUME ResponsesInv, NEW name \in Setters, NEW a \in Arguments, Called(name, a),
         HoldsResponse(builder', Append(calls, << name, a >>)),
         HoldsConfig(configBuilder', Append(calls, << name, a >>))
  PROVE ResponsesInv'
  BY CallKeepsBuilt DEF ResponsesInv

LEMMA ResponseBuilderStep ==
  ASSUME ResponsesInv, ResponseBuilder, ~BuildResponse PROVE ResponsesInv'
<1>1. calls \in Seq(Calls) /\ HoldsResponse(builder, calls) /\ HoldsConfig(configBuilder, calls)
  BY DEF ResponsesInv
<1>2. ASSUME NEW f \in Finished, SetFinished(f) PROVE ResponsesInv'
  <2>1. "finished" \in Setters /\ f \in Arguments
    BY DEF Setters, Arguments
  <2> QED
    BY <1>1, <1>2, <2>1, ResponseSetter, ConfigSetter, CallStep DEF SetFinished
<1>3. ASSUME NEW e \in Execution, SetExecution(e) PROVE ResponsesInv'
  <2>1. "execution" \in Setters /\ e \in Arguments
    BY DEF Setters, Arguments
  <2> QED
    BY <1>1, <1>3, <2>1, ResponseSetter, ConfigSetter, CallStep DEF SetExecution
<1>4. ASSUME NEW d \in Details, AddDetail(d) PROVE ResponsesInv'
  <2>1. "detail" \in Setters /\ d \in Arguments
    BY DEF Setters, Arguments
  <2> QED
    BY <1>1, <1>4, <2>1, ResponseSetter, ConfigSetter, CallStep DEF AddDetail
<1>5. CASE SetResponseDeliveryListener
  <2>1. "listener" \in Setters /\ "own" \in Arguments
    BY DEF Setters, Arguments
  <2> QED
    BY <1>1, <1>5, <2>1, ResponseSetter, ConfigSetter, CallStep DEF SetResponseDeliveryListener
<1>6. CASE SetIgnoreSleep
  <2>1. "ignoreSleep" \in Setters /\ "response" \in Arguments
    BY DEF Setters, Arguments
  <2> QED
    BY <1>1, <1>6, <2>1, ResponseSetter, ConfigSetter, CallStep DEF SetIgnoreSleep
<1> QED
  BY <1>2, <1>3, <1>4, <1>5, <1>6 DEF ResponseBuilder

LEMMA ConfigBuilderStep ==
  ASSUME ResponsesInv, ConfigResponseBuilder, ~BuildConfigResponse PROVE ResponsesInv'
<1>1. calls \in Seq(Calls) /\ HoldsResponse(builder, calls) /\ HoldsConfig(configBuilder, calls)
  BY DEF ResponsesInv
<1>2. ASSUME NEW k \in Keys, NEW v \in DataValues, AddData(k, v) PROVE ResponsesInv'
  <2> DEFINE a == << k, v >>
  <2>1. "data" \in Setters /\ a \in Arguments /\ a[1] = k
    BY DEF Setters, Arguments
  <2>2. /\ Called("data", a) /\ builder' = builder
        /\ configBuilder' =
             [configBuilder EXCEPT !.data = IF \E d \in @ : d[1] = a[1] THEN @ ELSE @ \cup {a}]
    BY <1>2 DEF AddData
  <2> HIDE DEF a
  <2>3. HoldsResponse(builder', Append(calls, << "data", a >>))
    BY <1>1, <2>1, <2>2, ResponseSetter
  <2>4. HoldsConfig(configBuilder', Append(calls, << "data", a >>))
    BY <1>1, <2>1, <2>2, ConfigSetter
  <2> QED
    BY <2>1, <2>2, <2>3, <2>4, CallStep
<1>3. ASSUME NEW m \in Modes, SetMode(m) PROVE ResponsesInv'
  <2>1. "mode" \in Setters /\ m \in Arguments
    BY DEF Setters, Arguments
  <2> QED
    BY <1>1, <1>3, <2>1, ResponseSetter, ConfigSetter, CallStep DEF SetMode
<1>4. CASE SetConfigIgnoreSleep
  <2>1. "ignoreSleep" \in Setters /\ "config" \in Arguments
    BY DEF Setters, Arguments
  <2> QED
    BY <1>1, <1>4, <2>1, ResponseSetter, ConfigSetter, CallStep DEF SetConfigIgnoreSleep
<1> QED
  BY <1>2, <1>3, <1>4 DEF ConfigResponseBuilder

\* What is built is what the builder holds; of a builder in use nothing is taken away.
LEMMA BuildStep ==
  ASSUME ResponsesInv, BuildResponse \/ BuildConfigResponse PROVE ResponsesInv'
<1>1. /\ UNCHANGED << builder, configBuilder, calls >>
      /\ builtAfter' = Len(calls) /\ document' = NoDocument
      /\ built' = builder \/ built' = configBuilder
  BY DEF BuildResponse, BuildConfigResponse, BuilderAfterBuild
<1>2. BuiltBefore' = calls
  BY <1>1 DEF BuiltBefore, ResponsesInv
<1>3. DocumentSaysWhatWasSet'
  BY <1>1 DEF NoDocument, DocumentSaysWhatWasSet
<1>4. HoldsResponse(built, BuiltBefore)' \/ HoldsConfig(built, BuiltBefore)'
  <2>1. HoldsResponse(built', BuiltBefore') \/ HoldsConfig(built', BuiltBefore')
    BY <1>1, <1>2 DEF ResponsesInv
  <2> QED
    BY <2>1 DEF HoldsResponse, HoldsConfig
<1>5. builtAfter' \in 0..Len(calls')
  BY <1>1 DEF ResponsesInv
<1>6. HoldsResponse(builder, calls)' /\ HoldsConfig(configBuilder, calls)'
  BY <1>1 DEF ResponsesInv, HoldsResponse, HoldsConfig
<1> QED
  BY <1>1, <1>3, <1>4, <1>5, <1>6 DEF ResponsesInv

\* The document is made of what was built.
LEMMA SendStep ==
  ASSUME ResponsesInv, SendFeedback \/ SendConfigData \/ SendNothing PROVE ResponsesInv'
<1>1. UNCHANGED << builder, configBuilder, calls, built, builtAfter >>
  BY DEF SendFeedback, SendConfigData, SendNothing
<1>2. \A name, d : /\ Given(name)' = Named(BuiltBefore, name)
                   /\ LastGiven(name, d)' = LastGivenBy(BuiltBefore, name, d)
  BY <1>1 DEF Given, LastGiven, LastGivenBy, BuiltBefore
<1>3. ASSUME SendFeedback PROVE DocumentSaysWhatWasSet'
  <2>1. HoldsResponse(built, BuiltBefore)
    BY <1>3 DEF SendFeedback, ResponsesInv, NoBuilt, HoldsConfig
  <2>2. /\ document'.sent = "feedback" /\ document'.listener = built.listener
        /\ document'.status.finished = built.finished
        /\ document'.status.execution = built.execution
        /\ document'.status.details = built.details
    BY <1>3 DEF SendFeedback, Status
  <2> QED
    BY <1>2, <2>1, <2>2 DEF HoldsResponse, DocumentSaysWhatWasSet
<1>4. ASSUME SendConfigData PROVE DocumentSaysWhatWasSet'
  <2>1. HoldsConfig(built, BuiltBefore)
    BY <1>4 DEF SendConfigData, ResponsesInv, NoBuilt, HoldsResponse
  <2>2. document'.sent = "config" /\ document'.mode = built.mode /\ document'.data = built.data
    BY <1>4 DEF SendConfigData
  <2> QED
    BY <1>2, <2>1, <2>2 DEF HoldsConfig, FirstOfEach, DocumentSaysWhatWasSet
<1>5. ASSUME SendNothing PROVE DocumentSaysWhatWasSet'
  <2>1. document'.sent = "wrong_response"
    BY <1>5 DEF SendNothing
  <2> QED
    BY <2>1 DEF DocumentSaysWhatWasSet
<1>6. /\ HoldsResponse(builder, calls)' /\ HoldsConfig(configBuilder, calls)'
      /\ built' = NoBuilt \/ HoldsResponse(built, BuiltBefore)' \/ HoldsConfig(built, BuiltBefore)'
  BY <1>1 DEF ResponsesInv, BuiltBefore, HoldsResponse, HoldsConfig
<1> QED
  BY <1>1, <1>3, <1>4, <1>5, <1>6 DEF ResponsesInv

LEMMA ResponsesStep == ASSUME ResponsesInv, [ResponsesNext]_responseVars PROVE ResponsesInv'
<1>1. CASE UNCHANGED responseVars
  <2>1. \A name, d : Given(name)' = Given(name) /\ LastGiven(name, d)' = LastGiven(name, d)
    BY <1>1 DEF Given, LastGiven
  <2>2. DocumentSaysWhatWasSet'
    BY <1>1, <2>1 DEF ResponsesInv, DocumentSaysWhatWasSet
  <2>3. /\ HoldsResponse(builder, calls)' /\ HoldsConfig(configBuilder, calls)'
        /\ built' = NoBuilt \/ HoldsResponse(built, BuiltBefore)' \/ HoldsConfig(built, BuiltBefore)'
    BY <1>1 DEF ResponsesInv, BuiltBefore, HoldsResponse, HoldsConfig
  <2> QED
    BY <1>1, <2>2, <2>3 DEF ResponsesInv
<1>2. CASE ResponseBuilder \/ ConfigResponseBuilder
  BY <1>2, ResponseBuilderStep, ConfigBuilderStep, BuildStep
<1>3. CASE SendFeedback \/ SendConfigData \/ SendNothing
  BY <1>3, SendStep
<1> QED
  BY <1>1, <1>2, <1>3 DEF ResponsesNext

\* However many calls a handler makes, in whatever order, before and after it builds: what
\* hawkBit is told is what was set when the response was built.
THEOREM DocumentSaysWhatWasSetHolds == ResponsesSpec => []DocumentSaysWhatWasSet
<1>1. ResponsesInv => DocumentSaysWhatWasSet
  BY DEF ResponsesInv
<1> QED
  BY <1>1, ResponsesInitInv, ResponsesStep, PTL DEF ResponsesSpec

--------------------------------------------------------------------------------
(***************************************************************************)
(* Sequences put one behind the other, and what is named in them.          *)
(***************************************************************************)
NextFlat(seqs, g, i) == IF i = 1 THEN seqs[i] ELSE g[i - 1] \o seqs[i]
FlatUpTo(seqs, m, g) == g = [i \in 1..m |-> NextFlat(seqs, g, i)]

LEMMA FlatUpToExists ==
  ASSUME NEW seqs, NEW m \in Nat PROVE \E g : FlatUpTo(seqs, m, g)
<1> DEFINE P == {k \in Nat : \E g : FlatUpTo(seqs, k, g)}
<1>1. 0 \in P
  <2> DEFINE g == [i \in 1..0 |-> seqs[i]]
  <2>1. FlatUpTo(seqs, 0, g)
    BY DEF FlatUpTo
  <2> QED
    BY <2>1
<1>2. ASSUME NEW k \in P PROVE k + 1 \in P
  <2>1. PICK g : FlatUpTo(seqs, k, g)
    OBVIOUS
  <2> DEFINE h == [i \in 1..(k + 1) |-> NextFlat(seqs, g, i)]
  <2> k \in Nat
    OBVIOUS
  <2>2. \A i \in 1..k : g[i] = NextFlat(seqs, g, i)
    BY <2>1 DEF FlatUpTo
  <2>3. \A i \in 1..k : h[i] = g[i]
    BY <2>2
  <2> HIDE DEF h
  <2>4. \A i \in 1..(k + 1) : NextFlat(seqs, g, i) = NextFlat(seqs, h, i)
    BY <2>3 DEF NextFlat
  <2>5. FlatUpTo(seqs, k + 1, h)
    BY <2>4 DEF FlatUpTo, h
  <2> QED
    BY <2>5
<1>3. P = Nat
  BY <1>1, <1>2, Induction
<1> QED
  BY <1>3

LEMMA FlatIsLast ==
  ASSUME NEW seqs, Len(seqs) \in Nat, Len(seqs) # 0
  PROVE \E g : FlatUpTo(seqs, Len(seqs), g) /\ FlattenSeq(seqs) = g[Len(seqs)]
<1> DEFINE g == CHOOSE g : FlatUpTo(seqs, Len(seqs), g)
<1>1. FlattenSeq(seqs) = g[Len(seqs)]
  BY DEF FlattenSeq, FlatUpTo, NextFlat
<1>2. \E f : FlatUpTo(seqs, Len(seqs), f)
  BY FlatUpToExists
<1>3. FlatUpTo(seqs, Len(seqs), g)
  BY <1>2, Zenon
<1> QED
  BY <1>1, <1>3

LEMMA NamedTyped ==
  ASSUME NEW S, NEW s \in Seq(S), NEW name, NEW V, \A p \in S : p[2] \in V
  PROVE Named(s, name) \in Seq(V)
<1>1. Len(s) \in Nat /\ \A i \in 1..Len(s) : s[i][2] \in V
  OBVIOUS
<1> QED
  BY <1>1, NamedRange

LEMMA OneMoreOf ==
  ASSUME NEW S, NEW s \in Seq(S), NEW k \in Nat, k + 1 <= Len(s)
  PROVE SubSeq(s, 1, k + 1) = Append(SubSeq(s, 1, k), s[k + 1])
  OBVIOUS

LEMMA NamedConcat ==
  ASSUME NEW S, NEW s \in Seq(S), NEW t \in Seq(S), NEW name
  PROVE Named(s \o t, name) = Named(s, name) \o Named(t, name)
<1> DEFINE V == {p[2] : p \in S}
           front(k) == SubSeq(t, 1, k)
           P == {k \in Nat : k <= Len(t) =>
                   Named(s \o front(k), name) = Named(s, name) \o Named(front(k), name)}
<1>1. /\ \A k \in 0..Len(t) : Named(s, name) \in Seq(V) /\ Named(front(k), name) \in Seq(V)
      /\ \A p \in S : p[2] \in V
  <2>1. \A k \in 0..Len(t) : front(k) \in Seq(S)
    OBVIOUS
  <2>2. \A p \in S : p[2] \in V
    OBVIOUS
  <2> HIDE DEF front, V
  <2> QED
    BY <2>1, <2>2, NamedTyped
<1> HIDE DEF V
<1>2. 0 \in P
  <2>1. front(0) = << >> /\ s \o << >> = s
    OBVIOUS
  <2>2. Named(s, name) \o << >> = Named(s, name)
    BY <1>1
  <2> QED
    BY <2>1, <2>2, NamedEmpty
<1>3. ASSUME NEW k \in P PROVE k + 1 \in P
  <2> SUFFICES ASSUME k + 1 <= Len(t)
               PROVE Named(s \o front(k + 1), name) = Named(s, name) \o Named(front(k + 1), name)
    OBVIOUS
  <2> DEFINE e == t[k + 1]
             f == front(k)
  <2>1. k \in Nat /\ e \in S /\ f \in Seq(S) /\ s \o f \in Seq(S)
    OBVIOUS
  <2>2. front(k + 1) = Append(f, e)
    OBVIOUS
  <2>3. Named(s \o f, name) = Named(s, name) \o Named(f, name)
    BY <2>1
  <2>4. Named(s, name) \in Seq(V) /\ Named(f, name) \in Seq(V) /\ e[2] \in V
    BY <1>1, <2>1
  <2> HIDE DEF e, f, P, front
  <2>5. s \o Append(f, e) = Append(s \o f, e)
    BY <2>1
  <2>6. /\ Named(Append(s \o f, e), name) = IF e[1] = name THEN Append(Named(s \o f, name), e[2])
                                                          ELSE Named(s \o f, name)
        /\ Named(Append(f, e), name) = IF e[1] = name THEN Append(Named(f, name), e[2]) ELSE Named(f, name)
    BY <2>1, NamedAppend
  <2>7. Named(s, name) \o Append(Named(f, name), e[2]) = Append(Named(s, name) \o Named(f, name), e[2])
    BY <2>4
  <2> QED
    BY <2>2, <2>3, <2>5, <2>6, <2>7
<1>4. P = Nat
  BY <1>2, <1>3, Induction
<1>5. Len(t) \in Nat /\ front(Len(t)) = t
  OBVIOUS
<1>6. Named(s \o front(Len(t)), name) = Named(s, name) \o Named(front(Len(t)), name)
  BY <1>4, <1>5
<1> QED
  BY <1>5, <1>6

\* A sequence of values under one name.
AllUnder(s, own, v) == Len(s) = Len(v) /\ \A i \in 1..Len(v) : s[i] = << own, v[i] >>

LEMMA NamedOfOne ==
  ASSUME NEW S, NEW s \in Seq(S), NEW V, NEW v \in Seq(V), NEW own, NEW name, AllUnder(s, own, v)
  PROVE Named(s, name) = IF name = own THEN v ELSE << >>
<1> USE DEF AllUnder
<1> DEFINE sub(k) == SubSeq(s, 1, k)
           vub(k) == SubSeq(v, 1, k)
           P == {k \in Nat : k <= Len(v) => Named(sub(k), name) = IF name = own THEN vub(k) ELSE << >>}
<1>1. 0 \in P
  <2>1. sub(0) = << >> /\ vub(0) = << >>
    OBVIOUS
  <2> QED
    BY <2>1, NamedEmpty
<1>2. ASSUME NEW k \in P PROVE k + 1 \in P
  <2> SUFFICES ASSUME k + 1 <= Len(v)
               PROVE Named(sub(k + 1), name) = IF name = own THEN vub(k + 1) ELSE << >>
    OBVIOUS
  <2>1. k \in Nat /\ sub(k) \in Seq(S) /\ s[k + 1] \in S
    OBVIOUS
  <2>2. sub(k + 1) = Append(sub(k), s[k + 1]) /\ vub(k + 1) = Append(vub(k), v[k + 1])
    BY <2>1, OneMoreOf
  <2>3. s[k + 1][1] = own /\ s[k + 1][2] = v[k + 1]
    BY <2>1
  <2>4. Named(sub(k), name) = IF name = own THEN vub(k) ELSE << >>
    BY <2>1
  <2> HIDE DEF sub, vub, P
  <2>5. Named(Append(sub(k), s[k + 1]), name) =
          IF s[k + 1][1] = name THEN Append(Named(sub(k), name), s[k + 1][2]) ELSE Named(sub(k), name)
    <3> DEFINE x == sub(k)
               y == s[k + 1]
    <3>1. x \in Seq(S) /\ y \in S
      BY <2>1
    <3> HIDE DEF x, y
    <3>2. Named(Append(x, y), name) = IF y[1] = name THEN Append(Named(x, name), y[2]) ELSE Named(x, name)
      BY <3>1, NamedAppend
    <3> QED
      BY <3>2 DEF x, y
  <2> QED
    BY <2>2, <2>3, <2>4, <2>5
<1>3. P = Nat
  BY <1>1, <1>2, Induction
<1>4. Len(v) \in Nat /\ sub(Len(v)) = s /\ vub(Len(v)) = v
  OBVIOUS
<1>5. Named(sub(Len(v)), name) = IF name = own THEN vub(Len(v)) ELSE << >>
  BY <1>3, <1>4
<1> QED
  BY <1>4, <1>5

--------------------------------------------------------------------------------
(***************************************************************************)
(* The head: its lines hold the headers, each name's in their order.       *)
(***************************************************************************)
NameSet == {Names[i] : i \in DOMAIN Names}

LEMMA NamesAre ==
  /\ Len(Names) = 7 /\ DOMAIN Names = 1..7
  /\ \A i, j \in 1..7 : Names[i] = Names[j] => i = j
  /\ NameSet = {"Accept", "Authorization", "Connection", "Content-Length", "Content-Type", "Host",
                "User-Agent"}
<1>1. Len(Names) = 7 /\ DOMAIN Names = 1..7
  BY DEF Names
<1>2. \A i, j \in 1..7 : Names[i] = Names[j] => i = j
  <2> TAKE i, j \in 1..7
  <2>1. i \in {1, 2, 3, 4, 5, 6, 7} /\ j \in {1, 2, 3, 4, 5, 6, 7}
    OBVIOUS
  <2> QED
    BY <2>1 DEF Names
<1>3. 1..7 = {1, 2, 3, 4, 5, 6, 7}
  OBVIOUS
<1>4. /\ Names[1] = "Accept" /\ Names[2] = "Authorization" /\ Names[3] = "Connection"
      /\ Names[4] = "Content-Length" /\ Names[5] = "Content-Type" /\ Names[6] = "Host"
      /\ Names[7] = "User-Agent"
  BY DEF Names
<1>5. NameSet = {Names[1], Names[2], Names[3], Names[4], Names[5], Names[6], Names[7]}
  BY <1>1, <1>3 DEF NameSet
<1>6. NameSet = {"Accept", "Authorization", "Connection", "Content-Length", "Content-Type", "Host",
                "User-Agent"}
  BY <1>4, <1>5
<1> QED
  BY <1>1, <1>2, <1>6

\* What only one of the sequences names is what that one gives.
AllOf(S, blocks) == \A n \in 1..Len(blocks) : blocks[n] \in Seq(S)
OnlyIn(blocks, at, name) == \A n \in 1..Len(blocks) : n # at => Named(blocks[n], name) = << >>

LEMMA NamedFlat ==
  ASSUME NEW S, NEW blocks, Len(blocks) \in Nat, AllOf(S, blocks),
         NEW at \in 1..Len(blocks), NEW name, OnlyIn(blocks, at, name)
  PROVE FlattenSeq(blocks) \in Seq(S) /\ Named(FlattenSeq(blocks), name) = Named(blocks[at], name)
<1> DEFINE m == Len(blocks)
<1>0. m \in Nat /\ m # 0 /\ at \in 1..m
  OBVIOUS
<1> USE DEF AllOf, OnlyIn
<1>1. PICK g : FlatUpTo(blocks, m, g) /\ FlattenSeq(blocks) = g[m]
  BY <1>0, FlatIsLast
<1>2. \A n \in 1..m : g[n] = NextFlat(blocks, g, n)
  BY <1>1 DEF FlatUpTo
<1>9. \A n \in 1..m : blocks[n] \in Seq(S) /\ (n # at => Named(blocks[n], name) = << >>)
  OBVIOUS
<1> HIDE DEF m, AllOf, OnlyIn
<1> DEFINE own == Named(blocks[at], name)
           P == {k \in Nat : k + 1 <= m =>
                   /\ g[k + 1] \in Seq(S)
                   /\ Named(g[k + 1], name) = IF k + 1 < at THEN << >> ELSE own}
<1>3. 0 \in P
  <2>1. 1 \in 1..m /\ g[1] = blocks[1] /\ blocks[1] \in Seq(S)
    BY <1>0, <1>2, <1>9 DEF NextFlat
  <2>2. Named(blocks[1], name) = IF 1 < at THEN << >> ELSE own
    BY <1>0, <1>9, <2>1
  <2> HIDE DEF own
  <2> QED
    BY <2>1, <2>2
<1>4. own \in Seq({p[2] : p \in S})
  <2> DEFINE V == {p[2] : p \in S}
             s == blocks[at]
  <2>1. s \in Seq(S) /\ \A p \in S : p[2] \in V
    BY <1>0, <1>9
  <2> HIDE DEF V, s
  <2>2. Named(s, name) \in Seq(V)
    BY <2>1, NamedTyped
  <2> QED
    BY <2>2 DEF V, s
<1>5. ASSUME NEW k \in P PROVE k + 1 \in P
  <2>1. k \in Nat
    OBVIOUS
  <2> SUFFICES ASSUME k + 1 + 1 <= m
               PROVE /\ g[k + 1 + 1] \in Seq(S)
                     /\ Named(g[k + 1 + 1], name) = IF k + 1 + 1 < at THEN << >> ELSE own
    BY <2>1
  <2> DEFINE j == k + 1
  <2>2. j \in Nat /\ j # 0 /\ j <= m /\ j + 1 \in 1..m /\ j + 1 # 1 /\ (j + 1) - 1 = j
    BY <1>0, <2>1
  <2>3. g[j] \in Seq(S) /\ Named(g[j], name) = IF j < at THEN << >> ELSE own
    BY <1>0, <2>1
  <2> HIDE DEF j, P, own
  <2>4. g[j + 1] = g[j] \o blocks[j + 1] /\ blocks[j + 1] \in Seq(S)
    <3>1. g[j + 1] = NextFlat(blocks, g, j + 1) /\ blocks[j + 1] \in Seq(S)
      BY <1>2, <1>9, <2>2
    <3>3. NextFlat(blocks, g, j + 1) = g[(j + 1) - 1] \o blocks[j + 1]
      BY <2>2 DEF NextFlat
    <3> QED
      BY <2>2, <3>1, <3>3, Zenon
  <2>5. Named(g[j] \o blocks[j + 1], name) = Named(g[j], name) \o Named(blocks[j + 1], name)
    <3> DEFINE s == g[j]
               t == blocks[j + 1]
    <3>1. s \in Seq(S) /\ t \in Seq(S)
      BY <2>3, <2>4
    <3> HIDE DEF s, t
    <3>2. Named(s \o t, name) = Named(s, name) \o Named(t, name)
      BY <3>1, NamedConcat
    <3> QED
      BY <3>2 DEF s, t
  <2>6. Named(blocks[j + 1], name) = IF j + 1 = at THEN own ELSE << >>
    BY <1>9, <2>2 DEF own
  <2>7. << >> \o own = own /\ own \o << >> = own /\ << >> \o << >> = << >>
    BY <1>4
  <2>8. Named(g[j + 1], name) = IF j + 1 < at THEN << >> ELSE own
    <3> DEFINE before == Named(g[j], name)
               one == Named(blocks[j + 1], name)
    <3>1. Named(g[j + 1], name) = before \o one
      BY <2>4, <2>5, Zenon
    <3>2. before = (IF j < at THEN << >> ELSE own) /\ one = (IF j + 1 = at THEN own ELSE << >>)
      BY <2>3, <2>6
    <3> HIDE DEF before, one
    <3>3. before \o one = IF j + 1 < at THEN << >> ELSE own
      <4>1. CASE j + 1 < at
        <5>1. j < at /\ j + 1 # at
          BY <2>2, <4>1
        <5> QED
          BY <2>7, <3>2, <4>1, <5>1, Zenon
      <4>2. CASE j + 1 = at
        <5>1. j < at /\ ~(j + 1 < at)
          BY <2>2, <4>2
        <5> QED
          BY <2>7, <3>2, <4>2, <5>1, Zenon
      <4>3. CASE j + 1 > at
        <5>1. ~(j < at) /\ j + 1 # at /\ ~(j + 1 < at)
          BY <2>2, <4>3
        <5> QED
          BY <2>7, <3>2, <5>1, Zenon
      <4> QED
        BY <2>2, <4>1, <4>2, <4>3
    <3> QED
      BY <3>1, <3>3, Zenon
  <2>9. g[j + 1] \in Seq(S)
    BY <2>3, <2>4
  <2> QED
    BY <2>8, <2>9 DEF j
<1>6. P = Nat
  BY <1>3, <1>5, Induction
<1>7. m - 1 \in P /\ m - 1 + 1 = m
  BY <1>0, <1>6
<1>8. g[m] \in Seq(S) /\ Named(g[m], name) = IF m < at THEN << >> ELSE own
  BY <1>0, <1>7
<1> QED
  BY <1>0, <1>1, <1>8

LEMMA HeaderLinesAreHeaders ==
  ASSUME NEW V, NEW hs \in [NameSet -> Seq(V)]
  PROVE /\ HeaderLines(hs) \in Seq(NameSet \X V)
        /\ \A name \in NameSet : Named(HeaderLines(hs), name) = hs[name]
<1> DEFINE Pairs == NameSet \X V
           block(n) == [i \in DOMAIN hs[Names[n]] |-> << Names[n], hs[Names[n]][i] >>]
           blocks == [n \in DOMAIN Names |-> block(n)]
<1>1. \A n \in 1..7 : Names[n] \in NameSet /\ hs[Names[n]] \in Seq(V)
  BY NamesAre DEF NameSet
<1>2. \A n \in 1..7 : /\ block(n) \in Seq(Pairs) /\ Len(block(n)) = Len(hs[Names[n]])
                      /\ \A i \in 1..Len(hs[Names[n]]) : block(n)[i] = << Names[n], hs[Names[n]][i] >>
  <2> SUFFICES ASSUME NEW n \in 1..7
               PROVE /\ block(n) \in Seq(Pairs) /\ Len(block(n)) = Len(hs[Names[n]])
                     /\ \A i \in 1..Len(hs[Names[n]]) : block(n)[i] = << Names[n], hs[Names[n]][i] >>
    OBVIOUS
  <2> DEFINE own == Names[n]
             v == hs[own]
             s == [i \in DOMAIN v |-> << own, v[i] >>]
  <2>1. own \in NameSet /\ v \in Seq(V)
    BY <1>1
  <2> HIDE DEF own, v
  <2>2. s \in Seq(Pairs) /\ Len(s) = Len(v) /\ \A i \in 1..Len(v) : s[i] = << own, v[i] >>
    BY <2>1
  <2> QED
    BY <2>2 DEF own, v
<1>3. /\ Len(blocks) = 7
      /\ \A n \in 1..7 : blocks[n] = block(n)
  BY NamesAre
<1>4. \A p \in Pairs : p[2] \in V
  OBVIOUS
<1> HIDE DEF Pairs, block
<1>5. \A n \in 1..7 : \A name : Named(blocks[n], name) = IF name = Names[n] THEN hs[Names[n]] ELSE << >>
  <2> SUFFICES ASSUME NEW n \in 1..7, NEW name
               PROVE Named(blocks[n], name) = IF name = Names[n] THEN hs[Names[n]] ELSE << >>
    OBVIOUS
  <2> DEFINE s == blocks[n]
             v == hs[Names[n]]
             own == Names[n]
  <2>1. s \in Seq(Pairs) /\ v \in Seq(V) /\ AllUnder(s, own, v)
    BY <1>1, <1>2, <1>3 DEF AllUnder
  <2> HIDE DEF s, v, own, blocks
  <2>2. Named(s, name) = IF name = own THEN v ELSE << >>
    BY ONLY <2>1, NamedOfOne
  <2> QED
    BY <2>2 DEF s, v, own
<1>6. HeaderLines(hs) = FlattenSeq(blocks)
  BY DEF HeaderLines, block
<1>7. \A n \in 1..7 : blocks[n] \in Seq(Pairs)
  BY <1>2, <1>3
<1> HIDE DEF blocks
<1>8. ASSUME NEW name \in NameSet
      PROVE FlattenSeq(blocks) \in Seq(Pairs) /\ Named(FlattenSeq(blocks), name) = hs[name]
  <2>1. PICK at \in 1..7 : Names[at] = name
    BY NamesAre DEF NameSet
  <2>2. \A n \in 1..7 : n # at => Names[n] # name
    BY <2>1, NamesAre
  <2>3. OnlyIn(blocks, at, name) /\ AllOf(Pairs, blocks) /\ at \in 1..Len(blocks) /\ Len(blocks) \in Nat
    BY <1>3, <1>5, <1>7, <2>2 DEF OnlyIn, AllOf
  <2>4. Named(blocks[at], name) = hs[name]
    BY <1>5, <2>1
  <2>6. FlattenSeq(blocks) \in Seq(Pairs) /\ Named(FlattenSeq(blocks), name) = Named(blocks[at], name)
    BY ONLY <2>3, NamedFlat
  <2> QED
    BY <2>4, <2>6
<1>9. "Accept" \in NameSet
  BY NamesAre
<1> QED
  BY <1>6, <1>8, <1>9 DEF Pairs

--------------------------------------------------------------------------------
Words == STRING \cup Nat \cup {"close", "host", "host:port", "*/*", "cpp-httplib"}
HeaderSets == [NameSet -> Seq(Words)]

\* The headers hs, those of gs before them.
BuiltOn(gs, hs) == \A n \in NameSet : IsPrefix(gs[n], hs[n])

LEMMA PrefixFacts ==
  ASSUME NEW S, NEW s \in Seq(S), NEW v \in S
  PROVE IsPrefix(s, s) /\ IsPrefix(s, Append(s, v))
  BY DEF IsPrefix

LEMMA PrefixTransitive ==
  ASSUME NEW S, NEW s \in Seq(S), NEW t \in Seq(S), NEW u \in Seq(S), IsPrefix(s, t), IsPrefix(t, u)
  PROVE IsPrefix(s, u)
  BY DEF IsPrefix

LEMMA BuiltOnTransitive ==
  ASSUME NEW fs \in HeaderSets, NEW gs \in HeaderSets, NEW hs \in HeaderSets,
         BuiltOn(fs, gs), BuiltOn(gs, hs)
  PROVE BuiltOn(fs, hs)
<1> SUFFICES ASSUME NEW n \in NameSet PROVE IsPrefix(fs[n], hs[n])
  BY DEF BuiltOn
<1>1. fs[n] \in Seq(Words) /\ gs[n] \in Seq(Words) /\ hs[n] \in Seq(Words)
  BY DEF HeaderSets
<1>2. IsPrefix(fs[n], gs[n]) /\ IsPrefix(gs[n], hs[n])
  BY DEF BuiltOn
<1> QED
  BY <1>1, <1>2, PrefixTransitive

LEMMA AddKeeps ==
  ASSUME NEW hs \in HeaderSets, NEW name \in NameSet, NEW v \in Words
  PROVE /\ Add(hs, name, v) \in HeaderSets /\ BuiltOn(hs, Add(hs, name, v))
        /\ \A n \in NameSet : Add(hs, name, v)[n] = IF n = name THEN Append(hs[n], v) ELSE hs[n]
<1>1. \A n \in NameSet : hs[n] \in Seq(Words)
  BY DEF HeaderSets
<1>2. \A n \in NameSet : Add(hs, name, v)[n] = IF n = name THEN Append(hs[n], v) ELSE hs[n]
  BY DEF Add, HeaderSets
<1>3. Add(hs, name, v) \in HeaderSets
  <2>1. Append(hs[name], v) \in Seq(Words)
    BY <1>1
  <2> QED
    BY <1>1, <2>1 DEF Add, HeaderSets
<1>4. \A n \in NameSet : IsPrefix(hs[n], hs[n]) /\ IsPrefix(hs[n], Append(hs[n], v))
  BY <1>1, PrefixFacts
<1>5. BuiltOn(hs, Add(hs, name, v))
  BY <1>2, <1>4 DEF BuiltOn
<1> QED
  BY <1>2, <1>3, <1>5

LEMMA AddMissingKeeps ==
  ASSUME NEW hs \in HeaderSets, NEW name \in NameSet, NEW v \in Words
  PROVE /\ AddMissing(hs, name, v) \in HeaderSets /\ BuiltOn(hs, AddMissing(hs, name, v))
        /\ \A n \in NameSet \ {name} : AddMissing(hs, name, v)[n] = hs[n]
        /\ AddMissing(hs, name, v)[name] = IF hs[name] = << >> THEN << v >> ELSE hs[name]
<1>1. \A n \in NameSet : hs[n] \in Seq(Words)
  BY DEF HeaderSets
<1>2. BuiltOn(hs, hs)
  BY <1>1, PrefixFacts DEF BuiltOn
<1>3. Append(<< >>, v) = << v >>
  OBVIOUS
<1> DEFINE added == Add(hs, name, v)
<1>4. /\ added \in HeaderSets /\ BuiltOn(hs, added)
      /\ \A n \in NameSet : added[n] = IF n = name THEN Append(hs[n], v) ELSE hs[n]
  BY AddKeeps
<1>5. AddMissing(hs, name, v) = IF hs[name] = << >> THEN added ELSE hs
  BY DEF AddMissing
<1> HIDE DEF added
<1>6. CASE hs[name] = << >>
  BY <1>3, <1>4, <1>5, <1>6
<1>7. CASE hs[name] # << >>
  BY <1>2, <1>5, <1>7
<1> QED
  BY <1>6, <1>7

NoLength(hs) == hs \in HeaderSets /\ hs["Content-Length"] = << >>

LEMMA OthersAddNoLength ==
  ASSUME NEW hs, NoLength(hs), NEW name \in NameSet, name # "Content-Length", NEW v \in Words
  PROVE NoLength(AddMissing(hs, name, v)) /\ BuiltOn(hs, AddMissing(hs, name, v))
<1>1. "Content-Length" \in NameSet \ {name} /\ hs \in HeaderSets
  BY NamesAre DEF NoLength
<1> QED
  BY <1>1, AddMissingKeeps DEF NoLength

LEMMA OthersAddedNoLength ==
  ASSUME NEW hs, NoLength(hs), NEW name \in NameSet, name # "Content-Length", NEW v \in Words
  PROVE NoLength(Add(hs, name, v)) /\ BuiltOn(hs, Add(hs, name, v))
<1>1. "Content-Length" \in NameSet /\ hs \in HeaderSets /\ hs["Content-Length"] = << >>
  BY NamesAre DEF NoLength
<1>2. /\ Add(hs, name, v) \in HeaderSets /\ BuiltOn(hs, Add(hs, name, v))
      /\ \A n \in NameSet : Add(hs, name, v)[n] = IF n = name THEN Append(hs[n], v) ELSE hs[n]
  BY <1>1, AddKeeps
<1> QED
  BY <1>1, <1>2 DEF NoLength

LEMMA LengthAdded ==
  ASSUME NEW hs, NoLength(hs), NEW v \in Words
  PROVE /\ Add(hs, "Content-Length", v) \in HeaderSets /\ BuiltOn(hs, Add(hs, "Content-Length", v))
        /\ Add(hs, "Content-Length", v)["Content-Length"] = << v >>
        /\ AddMissing(hs, "Content-Length", v) = Add(hs, "Content-Length", v)
<1> DEFINE name == "Content-Length"
<1>1. name \in NameSet /\ hs \in HeaderSets /\ hs[name] = << >>
  BY NamesAre DEF NoLength
<1>2. Append(<< >>, v) = << v >>
  OBVIOUS
<1> HIDE DEF name
<1>3. /\ Add(hs, name, v) \in HeaderSets /\ BuiltOn(hs, Add(hs, name, v))
      /\ \A n \in NameSet : Add(hs, name, v)[n] = IF n = name THEN Append(hs[n], v) ELSE hs[n]
  BY <1>1, AddKeeps
<1>4. Add(hs, name, v)[name] = << v >>
  BY <1>1, <1>2, <1>3
<1>5. AddMissing(hs, name, v) = Add(hs, name, v)
  BY <1>1 DEF AddMissing
<1> QED
  BY <1>3, <1>4, <1>5 DEF name

LEMMA BuiltOnItself == ASSUME NEW hs \in HeaderSets PROVE BuiltOn(hs, hs)
<1>1. \A n \in NameSet : hs[n] \in Seq(Words)
  BY DEF HeaderSets
<1>2. \A n \in NameSet : IsPrefix(hs[n], hs[n])
  BY <1>1 DEF IsPrefix
<1> QED
  BY <1>2 DEF BuiltOn

\* A request as the library has it: the caller's, with the length of its body.
LEMMA RequestOfCall ==
  ASSUME NEW c \in AskedRequests
  PROVE LET r == RequestOf(c)
            hs == Headers(r, c)
        IN /\ r.method = c.method /\ r.path = c.path /\ r.body = c.body
           /\ hs \in HeaderSets /\ BuiltOn(c.headers, hs)
           /\ hs["Content-Length"] = IF c.method = "GET" THEN << >> ELSE << Len(c.body) >>
<1>1. /\ c.method \in {"GET", "POST", "PUT"}
      /\ c.headers \in HeaderSets /\ c.type \in Words /\ c.headers["Content-Length"] = << >>
      /\ Len(c.body) \in Nat /\ Len(c.body) \in Words /\ (c.method = "GET" => c.body = << >>)
      /\ (c.body = << >> => Len(c.body) = 0)
  <2>1. [NameSet -> Seq(STRING)] \subseteq HeaderSets
    BY DEF HeaderSets, Words
  <2>2. c.headers \in [NameSet -> Seq(STRING)]
    BY RequestsAssumption DEF NameSet
  <2>3. c.body \in Seq(Seq(STRING)) /\ c.type \in STRING
    BY RequestsAssumption
  <2>4. Len(c.body) \in Nat /\ (c.body = << >> => Len(c.body) = 0)
    BY <2>3
  <2> QED
    BY <2>1, <2>2, <2>3, <2>4, RequestsAssumption DEF Words
<1>2. "Content-Length" \in NameSet /\ "Content-Type" \in NameSet /\ "Connection" \in NameSet
      /\ "Host" \in NameSet /\ "Accept" \in NameSet /\ "User-Agent" \in NameSet
  BY NamesAre
<1> DEFINE r == RequestOf(c)
<1>3. r.method = c.method /\ r.path = c.path /\ r.body = c.body
  BY <1>1 DEF RequestOf, Get, Post, Put, Sent
<1>4. r.headers = IF c.method = "GET" THEN c.headers ELSE Add(c.headers, "Content-Type", c.type)
  BY <1>1 DEF RequestOf, Get, Post, Put, Sent
<1> HIDE DEF r
<1> DEFINE cs == c.headers
<1>5. cs \in HeaderSets /\ cs["Content-Length"] = << >> /\ BuiltOn(cs, cs)
  BY <1>1, BuiltOnItself
<1> DEFINE h0 == r.headers
<1>6. h0 \in HeaderSets /\ BuiltOn(cs, h0) /\ h0["Content-Length"] = << >>
  <2> HIDE DEF cs
  <2>1. h0 = IF c.method = "GET" THEN cs ELSE Add(cs, "Content-Type", c.type)
    BY <1>4 DEF cs
  <2>2. NoLength(cs)
    BY <1>5 DEF NoLength
  <2>3. NoLength(Add(cs, "Content-Type", c.type)) /\ BuiltOn(cs, Add(cs, "Content-Type", c.type))
    BY <1>1, <1>2, <2>2, OthersAddedNoLength
  <2> QED
    BY <1>5, <2>1, <2>3 DEF NoLength
<1>7. "close" \in Words /\ Host(c) \in Words /\ "*/*" \in Words /\ "cpp-httplib" \in Words /\ 0 \in Words
  BY DEF Words, Host
<1> DEFINE h1 == AddMissing(h0, "Connection", "close")
           h2 == AddMissing(h1, "Host", Host(c))
           h3 == AddMissing(h2, "Accept", "*/*")
           h4 == AddMissing(h3, "User-Agent", "cpp-httplib")
           h5 == Delimited(r, h4)
<1> HIDE DEF cs, h0
<1>8. NoLength(h1) /\ BuiltOn(h0, h1)
  BY <1>2, <1>6, <1>7, OthersAddNoLength DEF NoLength
<1> HIDE DEF h1
<1>9. NoLength(h2) /\ BuiltOn(h1, h2)
  BY <1>2, <1>7, <1>8, OthersAddNoLength
<1> HIDE DEF h2
<1>10. NoLength(h3) /\ BuiltOn(h2, h3)
  BY <1>2, <1>7, <1>9, OthersAddNoLength
<1> HIDE DEF h3
<1>11. NoLength(h4) /\ BuiltOn(h3, h4)
  BY <1>2, <1>7, <1>10, OthersAddNoLength
<1> HIDE DEF h4
<1>17. h1 \in HeaderSets /\ h2 \in HeaderSets /\ h3 \in HeaderSets /\ h4 \in HeaderSets
       /\ h4["Content-Length"] = << >>
  BY <1>8, <1>9, <1>10, <1>11 DEF NoLength
<1>12. BuiltOn(cs, h4)
  BY <1>5, <1>6, <1>8, <1>9, <1>10, <1>11, <1>17, BuiltOnTransitive
<1>13. BuiltOn(h4, h4)
  BY <1>17, BuiltOnItself
<1>14. /\ h5 \in HeaderSets /\ BuiltOn(h4, h5)
       /\ h5["Content-Length"] = IF c.method = "GET" THEN << >> ELSE << Len(c.body) >>
  <2>1. CASE c.body # << >>
    <3>1. h5 = Add(h4, "Content-Length", Len(c.body))
      BY <1>1, <1>3, <1>11, <2>1, LengthAdded DEF Delimited
    <3> QED
      BY <1>1, <1>11, <2>1, <3>1, LengthAdded
  <2>2. CASE c.body = << >> /\ c.method = "GET"
    <3>1. h5 = h4
      BY <1>3, <2>2 DEF Delimited
    <3> QED
      BY <1>13, <1>17, <2>2, <3>1
  <2>3. CASE c.body = << >> /\ c.method # "GET"
    <3>1. h5 = Add(h4, "Content-Length", 0)
      BY <1>3, <2>3 DEF Delimited
    <3>2. 0 \in Words /\ Len(c.body) = 0
      BY <1>1, <1>7, <2>3
    <3> QED
      BY <1>11, <2>3, <3>1, <3>2, LengthAdded
  <2> QED
    BY <2>1, <2>2, <2>3
<1>15. Headers(r, c) = h5
  BY DEF Headers, h4, h3, h2, h1, h0
<1>16. BuiltOn(cs, h5)
  BY <1>5, <1>12, <1>14, <1>17, BuiltOnTransitive
<1> QED
  BY <1>3, <1>14, <1>15, <1>16 DEF r, cs

--------------------------------------------------------------------------------
PathBytes == STRING \cup {"%"}
Lines ==
  ({"GET", "POST", "PUT"} \X Seq(Seq(PathBytes))) \cup (NameSet \X Words) \cup {<< >>}
    \cup Seq(STRING)

LEMMA EncodedIsDecoded ==
  ASSUME NEW way \in Seq(STRING)
  PROVE Encoded(way) \in Seq(Seq(PathBytes)) /\ Decoded(Encoded(way)) = way
<1>1. /\ Len(way) \in Nat /\ DOMAIN way = 1..Len(way)
      /\ \A i \in 1..Len(way) : way[i] \in STRING /\ way[i] \in PathBytes /\ "%" \in PathBytes
  BY DEF PathBytes
<1> DEFINE code(i) == IF way[i] \in Unsafe THEN << "%", way[i] >> ELSE << way[i] >>
<1>2. \A i \in 1..Len(way) : code(i) \in Seq(PathBytes) /\ code(i)[Len(code(i))] = way[i]
  <2> SUFFICES ASSUME NEW i \in 1..Len(way)
               PROVE code(i) \in Seq(PathBytes) /\ code(i)[Len(code(i))] = way[i]
    OBVIOUS
  <2> DEFINE x == way[i]
             p == "%"
  <2>1. x \in PathBytes /\ p \in PathBytes
    BY <1>1
  <2> HIDE DEF x, p
  <2>2. /\ << p, x >> \in Seq(PathBytes) /\ << p, x >>[Len(<< p, x >>)] = x
        /\ << x >> \in Seq(PathBytes) /\ << x >>[Len(<< x >>)] = x
    BY <2>1
  <2> QED
    BY <2>2 DEF x, p
<1>3. Encoded(way) = [i \in 1..Len(way) |-> code(i)]
  BY <1>1 DEF Encoded
<1> HIDE DEF code
<1>4. Encoded(way) \in Seq(Seq(PathBytes)) /\ DOMAIN Encoded(way) = 1..Len(way)
  BY <1>1, <1>2, <1>3
<1>5. Decoded(Encoded(way)) = [i \in 1..Len(way) |-> way[i]]
  BY <1>2, <1>3, <1>4 DEF Decoded
<1>6. way = [i \in 1..Len(way) |-> way[i]]
  OBVIOUS
<1> QED
  BY <1>4, <1>5, <1>6

LEMMA HeadShape ==
  ASSUME NEW c \in AskedRequests
  PROVE LET head == RequestHead(c)
            hs == Headers(RequestOf(c), c)
        IN /\ head \in Seq(Lines) /\ Len(head) >= 2
           /\ head[1] = << c.method, Encoded(c.path) >>
           /\ head[Len(head)] = EmptyLine /\ \A i \in 1..(Len(head) - 1) : head[i] # EmptyLine
           /\ SubSeq(head, 2, Len(head) - 1) = HeaderLines(hs)
<1> DEFINE hs == Headers(RequestOf(c), c)
           lines == HeaderLines(hs)
           first == << c.method, Encoded(c.path) >>
<1>1. hs \in [NameSet -> Seq(Words)] /\ RequestOf(c).method = c.method /\ RequestOf(c).path = c.path
  BY RequestOfCall DEF HeaderSets
<1>2. lines \in Seq(NameSet \X Words)
  BY <1>1, HeaderLinesAreHeaders
<1>3. first \in Lines /\ first # << >>
  <2>1. c.method \in {"GET", "POST", "PUT"} /\ Encoded(c.path) \in Seq(Seq(PathBytes))
    BY RequestsAssumption, EncodedIsDecoded
  <2> QED
    BY <2>1 DEF Lines
<1>4. RequestHead(c) = << first >> \o lines \o << EmptyLine >>
  BY <1>1 DEF RequestHead
<1> HIDE DEF lines, first
<1>5. /\ lines \in Seq(Lines) /\ EmptyLine \in Lines
      /\ \A i \in 1..Len(lines) : lines[i] # EmptyLine
  BY <1>2 DEF Lines, EmptyLine
<1> DEFINE head == << first >> \o lines \o << EmptyLine >>
<1>6. /\ head \in Seq(Lines) /\ Len(head) = Len(lines) + 2 /\ head[1] = first /\ Len(lines) \in Nat
      /\ head[Len(head)] = EmptyLine /\ \A i \in 2..(Len(head) - 1) : head[i] = lines[i - 1]
  BY <1>3, <1>5
<1> HIDE DEF head
<1>7. \A i \in 1..(Len(head) - 1) : head[i] # EmptyLine
  BY <1>3, <1>5, <1>6 DEF EmptyLine
<1>8. SubSeq(head, 2, Len(head) - 1) = lines
  <2> DEFINE s == SubSeq(head, 2, Len(head) - 1)
  <2>1. s \in Seq(Lines) /\ Len(s) = Len(lines)
    BY <1>6
  <2>2. \A i \in 1..Len(lines) : s[i] = lines[i]
    BY <1>6
  <2> HIDE DEF s
  <2>3. s = lines
    BY <1>5, <2>1, <2>2, SeqEqual
  <2> QED
    BY <2>3 DEF s
<1>9. RequestHead(c) = head
  BY <1>4 DEF head
<1> QED
  BY <1>6, <1>7, <1>8, <1>9 DEF lines, first

\* What the bytes from one place to another add to those before them.
LEMMA PieceOfFirst ==
  ASSUME NEW L, NEW h \in Seq(L), NEW b \in Seq(L), NEW k \in Nat, NEW n \in Nat, k <= n, n <= Len(h)
  PROVE SubSeq(h \o b, 1, k) \o SubSeq(h, k + 1, n) = SubSeq(h \o b, 1, n)
<1> DEFINE all == h \o b
           s == SubSeq(all, 1, k) \o SubSeq(h, k + 1, n)
           t == SubSeq(all, 1, n)
<1>1. /\ all \in Seq(L) /\ Len(h) <= Len(all) /\ \A i \in 1..Len(h) : all[i] = h[i]
  OBVIOUS
<1> HIDE DEF all
<1>2. s \in Seq(L) /\ t \in Seq(L) /\ Len(s) = n /\ Len(t) = n
  BY <1>1
<1>3. \A i \in 1..n : s[i] = t[i]
  BY <1>1
<1> HIDE DEF s, t
<1>4. s = t
  BY <1>2, <1>3, SeqEqual
<1> QED
  BY <1>4 DEF s, t, all

LEMMA PieceOfSecond ==
  ASSUME NEW L, NEW h \in Seq(L), NEW b \in Seq(L), NEW k \in Nat, NEW n \in Nat, k <= n, n <= Len(b)
  PROVE SubSeq(h \o b, 1, Len(h) + k) \o SubSeq(b, k + 1, n) = SubSeq(h \o b, 1, Len(h) + n)
<1> DEFINE all == h \o b
           m == Len(h)
           s == SubSeq(all, 1, m + k) \o SubSeq(b, k + 1, n)
           t == SubSeq(all, 1, m + n)
<1>1. all \in Seq(L) /\ m \in Nat /\ Len(all) = m + Len(b) /\ \A i \in 1..Len(b) : all[m + i] = b[i]
  OBVIOUS
<1> HIDE DEF all, m
<1>2. s \in Seq(L) /\ t \in Seq(L) /\ Len(s) = m + n /\ Len(t) = m + n
  BY <1>1
<1>3. \A i \in 1..(m + n) : s[i] = t[i]
  <2> TAKE i \in 1..(m + n)
  <2>1. CASE i <= m + k
    BY <1>1, <2>1
  <2>2. CASE i > m + k
    <3>1. i - m \in 1..Len(b) /\ i = m + (i - m)
      BY <1>1, <2>2
    <3>2. all[i] = b[i - m]
      BY <1>1, <3>1
    <3> QED
      BY <1>1, <2>2, <3>2
  <2> QED
    BY <1>1, <2>1, <2>2
<1> HIDE DEF s, t
<1>4. s = t
  BY <1>1, <1>2, <1>3, SeqEqual
<1> QED
  BY <1>4 DEF s, t, all, m

\* The first empty line of a front of the head and what is behind it is the end of the head.
LEMMA FirstEmptyLine ==
  ASSUME NEW L, NEW h \in Seq(L), NEW b \in Seq(L), Len(h) # 0, h[Len(h)] = EmptyLine,
         \A i \in 1..(Len(h) - 1) : h[i] # EmptyLine, NEW k \in 0..(Len(h) + Len(b)),
         arrived = SubSeq(h \o b, 1, k)
  PROVE HeadEnd = (IF k >= Len(h) THEN Len(h) ELSE 0) /\ Len(arrived) = k
<1> DEFINE all == h \o b
           I == {i \in 1..Len(arrived) : arrived[i] = EmptyLine}
<1>1. all \in Seq(L) /\ Len(all) = Len(h) + Len(b) /\ \A i \in 1..Len(h) : all[i] = h[i]
  OBVIOUS
<1>2. arrived = SubSeq(all, 1, k)
  OBVIOUS
<1> HIDE DEF all
<1>3. Len(arrived) = k /\ \A i \in 1..k : arrived[i] = all[i]
  BY <1>1, <1>2
<1>4. HeadEnd = IF I # {} THEN Min(I) ELSE 0
  BY DEF HeadEnd, SelectInSeq
<1>5. CASE k >= Len(h)
  <2>1. Len(h) \in I /\ \A i \in I : Len(h) <= i
    BY <1>1, <1>3, <1>5
  <2>2. \A x \in I : (\A y \in I : x <= y) => x = Len(h)
    BY <2>1
  <2> HIDE DEF I
  <2>3. Min(I) = Len(h)
    BY <2>1, <2>2 DEF Min
  <2> QED
    BY <1>3, <1>4, <1>5, <2>1, <2>3
<1>6. CASE k < Len(h)
  <2>1. I = {}
    BY <1>1, <1>3, <1>6
  <2> QED
    BY <1>3, <1>4, <1>6, <2>1
<1> QED
  BY <1>5, <1>6

--------------------------------------------------------------------------------
(***************************************************************************)
(* Whatever the parts, the bytes that have left are the first of the head  *)
(* and the body.                                                           *)
(***************************************************************************)
Whole == RequestHead(asking) \o asking.body
BeforePart == IF part = "head" THEN 0 ELSE Len(RequestHead(asking))

WriterInv ==
  /\ asking \in AskedRequests
  /\ part \in {"head", "body"} /\ (part = "body" => asking.body # << >>)
  /\ data = IF part = "head" THEN RequestHead(asking) ELSE asking.body
  /\ offset \in Nat /\ flushed \in Nat /\ offset + flushed <= Len(data)
  /\ flushed > 0 => offset + flushed < Len(data)
  /\ asking.scheme = "http" => flushed = 0
  /\ arrived = SubSeq(Whole, 1, BeforePart + offset + flushed)
  /\ ended = "Success" => /\ part = "head" => asking.body = << >>
                          /\ offset = Len(data)

LEMMA WriterTypes ==
  ASSUME NEW c \in AskedRequests
  PROVE /\ RequestHead(c) \in Seq(Lines) /\ c.body \in Seq(Lines) /\ RequestOf(c).body = c.body
        /\ Len(RequestHead(c)) \in Nat /\ Len(RequestHead(c)) >= 2 /\ Len(c.body) \in Nat
        /\ (c.body = << >> => Len(c.body) = 0)
<1>1. RequestHead(c) \in Seq(Lines) /\ Len(RequestHead(c)) >= 2
  BY HeadShape
<1>2. c.body \in Seq(Lines)
  <2>1. c.body \in Seq(Seq(STRING))
    BY RequestsAssumption
  <2>2. Seq(STRING) \subseteq Lines
    BY DEF Lines
  <2> QED
    BY <2>1, <2>2
<1>3. RequestOf(c).body = c.body
  BY RequestOfCall
<1> QED
  BY <1>1, <1>2, <1>3

\* A piece of the part that is written, behind those before it.
LEMMA PieceLeaves ==
  ASSUME WriterInv, NEW n \in Nat, flushed <= n, offset + n <= Len(data), Leave(n)
  PROVE arrived' = SubSeq(Whole, 1, BeforePart + offset + n)
<1> DEFINE h == RequestHead(asking)
           b == asking.body
           k == offset + flushed
           m == offset + n
<1>1. /\ h \in Seq(Lines) /\ b \in Seq(Lines) /\ k \in Nat /\ m \in Nat /\ k <= m /\ m <= Len(data)
      /\ data = IF part = "head" THEN h ELSE b
      /\ part \in {"head", "body"}
      /\ BeforePart = (IF part = "head" THEN 0 ELSE Len(h))
      /\ Len(h) \in Nat /\ offset \in Nat /\ flushed \in Nat
  BY WriterTypes DEF WriterInv, BeforePart
<1>2. /\ Len(h) \in Nat /\ BeforePart \in Nat
      /\ BeforePart + offset + flushed = BeforePart + k /\ BeforePart + offset + n = BeforePart + m
  <2>1. BeforePart \in Nat /\ Len(h) \in Nat /\ offset \in Nat /\ flushed \in Nat
    BY <1>1
  <2>2. \A x, y, z \in Nat : x + y + z = x + (y + z)
    OBVIOUS
  <2> QED
    BY <2>1, <2>2
<1>3. arrived' = SubSeq(h \o b, 1, BeforePart + k) \o SubSeq(data, k + 1, m)
  BY <1>2 DEF WriterInv, Leave, Whole
<1> HIDE DEF h, b, k, m
<1>4. CASE part = "head"
  <2>1. data = h /\ BeforePart + k = k /\ BeforePart + m = m
    BY <1>1, <1>4
  <2>2. SubSeq(h \o b, 1, k) \o SubSeq(h, k + 1, m) = SubSeq(h \o b, 1, m)
    BY <1>1, <2>1, PieceOfFirst
  <2> QED
    BY <1>2, <1>3, <2>1, <2>2, ZenonT(20) DEF Whole, h, b
<1>5. CASE part = "body"
  <2>1. data = b /\ BeforePart = Len(h)
    BY <1>1, <1>5
  <2>2. SubSeq(h \o b, 1, Len(h) + k) \o SubSeq(b, k + 1, m) = SubSeq(h \o b, 1, Len(h) + m)
    BY <1>1, <2>1, PieceOfSecond, ZenonT(20)
  <2> QED
    BY <1>2, <1>3, <2>1, <2>2 DEF Whole, h, b
<1> QED
  BY <1>1, <1>4, <1>5

LEMMA WriterInvHolds == WriterSpec => []WriterInv
<1>1. WriterInit => WriterInv
  <2> SUFFICES ASSUME WriterInit PROVE WriterInv
    OBVIOUS
  <2>1. asking \in AskedRequests /\ RequestHead(asking) \in Seq(Lines) /\ asking.body \in Seq(Lines)
    BY WriterTypes DEF WriterInit
  <2>2. SubSeq(Whole, 1, 0) = << >> /\ Len(RequestHead(asking)) \in Nat
    BY <2>1 DEF Whole
  <2> QED
    BY <2>1, <2>2 DEF WriterInit, WriterInv, BeforePart
<1>2. WriterInv /\ [WriterNext]_writerVars => WriterInv'
  <2> SUFFICES ASSUME WriterInv, [WriterNext]_writerVars PROVE WriterInv'
    OBVIOUS
  <2>1. /\ asking \in AskedRequests /\ RequestHead(asking) \in Seq(Lines) /\ asking.body \in Seq(Lines)
        /\ RequestOf(asking).body = asking.body /\ Len(data) \in Nat
        /\ Len(RequestHead(asking)) \in Nat /\ Len(asking.body) \in Nat
        /\ offset \in Nat /\ flushed \in Nat
    BY WriterTypes DEF WriterInv
  <2>2. ASSUME UNCHANGED << asking, part, data, offset, flushed, arrived >>,
               ended' = "Success" => \/ ended = "Success"
                                     \/ /\ offset >= Len(data)
                                        /\ part = "body" \/ asking.body = << >>
        PROVE WriterInv'
    BY <2>1, <2>2 DEF WriterInv, Whole, BeforePart
  <2>3. CASE WriterInv /\ NotWritable
    BY <2>2, <2>3 DEF NotWritable, WriteFails
  <2>4. CASE WriteSocket
    <3>1. CASE WriteFails
      BY <2>2, <3>1 DEF WriteFails
    <3>2. ASSUME NEW n \in 1..(Len(data) - offset), Leave(n), offset' = OffsetAfterPart(n),
                 UNCHANGED << asking, part, data, flushed, tries, ended >>
          PROVE WriterInv'
      <4>1. flushed = 0 /\ ended = "no" /\ offset < Len(data)
        BY <2>4 DEF WriteSocket, Writing, WriterInv
      <4>2. n \in Nat /\ flushed <= n /\ offset + n <= Len(data)
        BY <2>1, <3>2, <4>1
      <4>3. arrived' = SubSeq(Whole, 1, BeforePart + offset + n)
        BY <3>2, <4>2, PieceLeaves
      <4>4. Whole' = Whole /\ BeforePart' = BeforePart /\ BeforePart \in Nat
        BY <2>1, <3>2 DEF Whole, BeforePart
      <4>5. offset' = offset + n /\ offset' + flushed' = offset + n
            /\ BeforePart + offset + n = BeforePart' + offset' + flushed'
        BY <2>1, <3>2, <4>1, <4>2, <4>4 DEF OffsetAfterPart
      <4>6. arrived' = SubSeq(Whole', 1, BeforePart' + offset' + flushed')
        BY <4>3, <4>4, <4>5
      <4>7. /\ offset' \in Nat /\ flushed' \in Nat /\ offset' + flushed' <= Len(data)
            /\ flushed' = 0 /\ ended' # "Success"
        BY <2>1, <3>2, <4>1, <4>2, <4>5
      <4>8. /\ asking' = asking /\ part' = part /\ data' = data
            /\ data = IF part = "head" THEN RequestHead(asking) ELSE asking.body
            /\ part \in {"head", "body"} /\ (part = "body" => asking.body # << >>)
        BY <3>2 DEF WriterInv
      <4> QED
        BY <2>1, <4>6, <4>7, <4>8 DEF WriterInv
    <3> QED
      BY <2>4, <3>1, <3>2 DEF WriteSocket
  <2>5. CASE WriteSsl
    <3>1. CASE WriteFails
      BY <2>2, <3>1 DEF WriteFails
    <3>2. CASE /\ Leave(Len(data) - offset) /\ offset' = OffsetAfterPart(Len(data) - offset)
               /\ flushed' = 0 /\ UNCHANGED << asking, part, data, ended >>
      <4> DEFINE n == Len(data) - offset
      <4>1. ended = "no" /\ offset < Len(data)
        BY <2>5 DEF WriteSsl, Writing
      <4>2. n \in Nat /\ flushed <= n /\ offset + n = Len(data)
        BY <2>1, <4>1 DEF WriterInv
      <4>3. Leave(n) /\ offset' = offset + n
        BY <3>2 DEF OffsetAfterPart
      <4> HIDE DEF n
      <4>4. arrived' = SubSeq(Whole, 1, BeforePart + offset + n)
        BY <2>1, <4>2, <4>3, PieceLeaves
      <4>5. Whole' = Whole /\ BeforePart' = BeforePart /\ BeforePart \in Nat
        BY <2>1, <3>2 DEF Whole, BeforePart
      <4>6. BeforePart + offset + n = BeforePart' + offset' + flushed'
        BY <2>1, <3>2, <4>2, <4>3, <4>5
      <4>7. arrived' = SubSeq(Whole', 1, BeforePart' + offset' + flushed')
        BY <4>4, <4>5, <4>6
      <4>8. /\ offset' \in Nat /\ flushed' \in Nat /\ offset' + flushed' <= Len(data)
            /\ flushed' = 0 /\ ended' # "Success"
        BY <2>1, <3>2, <4>1, <4>2, <4>3
      <4>9. /\ asking' = asking /\ part' = part /\ data' = data
            /\ data = IF part = "head" THEN RequestHead(asking) ELSE asking.body
            /\ part \in {"head", "body"} /\ (part = "body" => asking.body # << >>)
        BY <3>2 DEF WriterInv
      <4> QED
        BY <2>1, <4>7, <4>8, <4>9 DEF WriterInv
    <3>3. ASSUME NEW n \in flushed..(Len(data) - offset - 1), Leave(n), flushed' = n,
                 UNCHANGED << asking, part, data, offset, ended >>
          PROVE WriterInv'
      <4>1. ended = "no" /\ offset < Len(data) /\ asking.scheme = "https"
        BY <2>5 DEF WriteSsl, Writing
      <4>2. n \in Nat /\ flushed <= n /\ offset + n < Len(data)
        BY <2>1, <3>3
      <4>3. arrived' = SubSeq(Whole, 1, BeforePart + offset + n)
        BY <2>1, <3>3, <4>2, PieceLeaves
      <4>4. Whole' = Whole /\ BeforePart' = BeforePart
        BY <3>3 DEF Whole, BeforePart
      <4>5. arrived' = SubSeq(Whole', 1, BeforePart' + offset' + flushed')
        BY <3>3, <4>3, <4>4
      <4>6. /\ offset' \in Nat /\ flushed' \in Nat /\ offset' + flushed' < Len(data)
            /\ asking.scheme # "http" /\ ended' # "Success"
        BY <2>1, <3>3, <4>1, <4>2
      <4>7. /\ asking' = asking /\ part' = part /\ data' = data
            /\ data = IF part = "head" THEN RequestHead(asking) ELSE asking.body
            /\ part \in {"head", "body"} /\ (part = "body" => asking.body # << >>)
        BY <3>3 DEF WriterInv
      <4> QED
        BY <2>1, <4>5, <4>6, <4>7 DEF WriterInv
    <3> QED
      BY <2>5, <3>1, <3>2, <3>3 DEF WriteSsl
  <2>6. CASE WriteBody
    <3>1. /\ part = "head" /\ part' = "body" /\ data' = asking.body /\ asking.body # << >>
          /\ offset' = 0 /\ ended = "no" /\ offset >= Len(data)
          /\ UNCHANGED << asking, flushed, tries, arrived, ended >>
      BY <2>1, <2>6 DEF WriteBody
    <3>2. flushed = 0 /\ offset = Len(data) /\ data = RequestHead(asking)
      BY <2>1, <3>1 DEF WriterInv
    <3>3. Whole' = Whole /\ BeforePart' = Len(RequestHead(asking)) /\ BeforePart = 0
      BY <3>1 DEF Whole, BeforePart
    <3>4. BeforePart + offset + flushed = BeforePart' + offset' + flushed'
      BY <2>1, <3>1, <3>2, <3>3
    <3>5. arrived' = SubSeq(Whole', 1, BeforePart' + offset' + flushed')
      BY <3>1, <3>3, <3>4 DEF WriterInv
    <3>6. offset' + flushed' <= Len(data') /\ offset' \in Nat /\ flushed' = 0 /\ ended' # "Success"
      BY <2>1, <3>1, <3>2
    <3>7. /\ asking' \in AskedRequests /\ part' \in {"head", "body"}
          /\ (part' = "body" => asking'.body # << >>)
          /\ data' = IF part' = "head" THEN RequestHead(asking') ELSE asking'.body
      BY <2>1, <3>1
    <3>8. offset' \in Nat /\ flushed' \in Nat /\ ~(flushed' > 0)
      BY <3>6
    <3> QED
      BY <3>5, <3>6, <3>7, <3>8 DEF WriterInv
  <2>7. CASE BodyWritten
    BY <2>2, <2>7 DEF BodyWritten, Written
  <2>8. CASE NothingToProvide
    BY <2>1, <2>2, <2>8 DEF NothingToProvide, Written
  <2>9. CASE UNCHANGED writerVars
    BY <2>2, <2>9 DEF writerVars
  <2> QED
    BY <2>3, <2>4, <2>5, <2>6, <2>7, <2>8, <2>9 DEF WriterNext
<1> QED
  BY <1>1, <1>2, PTL DEF WriterSpec

\* The whole of head and body reads as the request it was made of.
LEMMA WholeReadsAsAsked ==
  ASSUME WriterInv PROVE ServerReadsWhatWasAsked
<1> DEFINE c == asking
           h == RequestHead(c)
           b == c.body
           hs == Headers(RequestOf(c), c)
           k == BeforePart + offset + flushed
<1>1. /\ c \in AskedRequests /\ h \in Seq(Lines) /\ b \in Seq(Lines) /\ Len(h) \in Nat /\ Len(h) >= 2
      /\ Len(b) \in Nat /\ (b = << >> => Len(b) = 0)
  BY WriterTypes DEF WriterInv
<1>2. k \in 0..(Len(h) + Len(b))
  BY <1>1 DEF WriterInv, BeforePart
<1>3. arrived = SubSeq(h \o b, 1, k)
  BY DEF WriterInv, Whole
<1>4. /\ h[1] = << c.method, Encoded(c.path) >> /\ h[Len(h)] = EmptyLine
      /\ \A i \in 1..(Len(h) - 1) : h[i] # EmptyLine
      /\ SubSeq(h, 2, Len(h) - 1) = HeaderLines(hs)
  BY <1>1, HeadShape
<1>5. /\ hs \in [NameSet -> Seq(Words)] /\ BuiltOn(c.headers, hs)
      /\ hs["Content-Length"] = IF c.method = "GET" THEN << >> ELSE << Len(b) >>
      /\ (c.method = "GET" => b = << >>) /\ c.path \in Seq(STRING)
      /\ DOMAIN c.headers = NameSet /\ "Content-Length" \in NameSet
  <2>1. /\ (c.method = "GET" => b = << >>) /\ c.path \in Seq(STRING)
        /\ c.headers \in [NameSet -> Seq(STRING)]
    BY <1>1, RequestsAssumption DEF NameSet
  <2> QED
    BY <1>1, <2>1, RequestOfCall, NamesAre DEF HeaderSets
<1>6. ended = "Success" => k = Len(h) + Len(b)
  <2> SUFFICES ASSUME ended = "Success" PROVE k = Len(h) + Len(b)
    OBVIOUS
  <2>1. /\ part \in {"head", "body"} /\ data = (IF part = "head" THEN h ELSE b)
        /\ (part = "head" => b = << >>) /\ offset = Len(data) /\ offset \in Nat /\ flushed \in Nat
        /\ offset + flushed <= Len(data) /\ BeforePart = (IF part = "head" THEN 0 ELSE Len(h))
    BY DEF WriterInv, BeforePart
  <2> HIDE DEF h, b
  <2>2. flushed = 0
    BY <2>1
  <2> QED
    BY <1>1, <2>1, <2>2
<1> HIDE DEF h, b, hs, k
<1>7. HeadEnd = (IF k >= Len(h) THEN Len(h) ELSE 0) /\ Len(arrived) = k
  <2>1. Len(h) # 0
    BY <1>1
  <2> QED
    BY <1>1, <1>2, <1>3, <1>4, <2>1, FirstEmptyLine
<1>8. ASSUME k >= Len(h)
      PROVE \A n \in NameSet : Values(n) = hs[n]
  <2>1. SubSeq(arrived, 2, Len(h) - 1) = HeaderLines(hs)
    <3> DEFINE all == h \o b
    <3>1. all \in Seq(Lines) /\ Len(all) = Len(h) + Len(b) /\ \A i \in 1..Len(h) : all[i] = h[i]
      BY <1>1
    <3> HIDE DEF all
    <3>2. arrived \in Seq(Lines) /\ \A i \in 1..Len(h) : arrived[i] = h[i]
      BY <1>1, <1>2, <1>3, <1>8, <3>1 DEF all
    <3> DEFINE s == SubSeq(arrived, 2, Len(h) - 1)
               t == SubSeq(h, 2, Len(h) - 1)
    <3>3. /\ s \in Seq(Lines) /\ t \in Seq(Lines) /\ Len(s) = Len(t)
          /\ \A i \in 1..Len(t) : s[i] = t[i]
      BY <1>1, <1>2, <1>7, <1>8, <3>2
    <3> HIDE DEF s, t
    <3>4. s = t
      BY <3>3, SeqEqual
    <3> QED
      BY <1>4, <3>4 DEF s, t
  <2>2. HeadEnd = Len(h)
    BY <1>7, <1>8
  <2>3. \A n \in NameSet : Named(HeaderLines(hs), n) = hs[n]
    BY <1>5, HeaderLinesAreHeaders
  <2> QED
    BY <2>1, <2>2, <2>3 DEF Values
<1>9. k >= Len(h) => Announced = Len(b)
  <2> SUFFICES ASSUME k >= Len(h) PROVE Announced = Len(b)
    OBVIOUS
  <2>1. Values("Content-Length") = IF c.method = "GET" THEN << >> ELSE << Len(b) >>
    BY <1>5, <1>8
  <2> QED
    BY <1>1, <1>5, <2>1 DEF Announced
<1>10. Complete => k = Len(h) + Len(b)
  <2> SUFFICES ASSUME Complete PROVE k = Len(h) + Len(b)
    OBVIOUS
  <2>1. k >= Len(h) /\ HeadEnd = Len(h)
    BY <1>1, <1>7 DEF Complete
  <2> QED
    BY <1>1, <1>2, <1>7, <1>9, <2>1 DEF Complete
<1>11. k = Len(h) + Len(b) => Complete
  <2> SUFFICES ASSUME k = Len(h) + Len(b) PROVE Complete
    OBVIOUS
  <2>1. k >= Len(h) /\ HeadEnd = Len(h) /\ Len(arrived) = Len(h) + Len(b) /\ Announced = Len(b)
    BY <1>1, <1>7, <1>9
  <2> QED
    BY <1>1, <2>1 DEF Complete
<1>12. ASSUME k = Len(h) + Len(b)
       PROVE /\ arrived[1][1] = c.method /\ Decoded(arrived[1][2]) = c.path
             /\ SubSeq(arrived, HeadEnd + 1, Len(arrived)) = b
             /\ Len(Values("Content-Length")) <= 1
             /\ \A n \in DOMAIN c.headers : IsPrefix(c.headers[n], Values(n))
  <2>1. arrived = h \o b /\ k >= Len(h) /\ HeadEnd = Len(h) /\ Len(arrived) = Len(h) + Len(b)
    <3>1. SubSeq(h \o b, 1, Len(h) + Len(b)) = h \o b
      BY <1>1
    <3> QED
      BY <1>1, <1>3, <1>7, <1>12, <3>1
  <2>2. arrived[1] = << c.method, Encoded(c.path) >>
    <3>1. (h \o b)[1] = h[1]
      BY <1>1
    <3> QED
      BY <1>4, <2>1, <3>1
  <2>3. SubSeq(arrived, HeadEnd + 1, Len(arrived)) = b
    <3> DEFINE s == SubSeq(h \o b, Len(h) + 1, Len(h) + Len(b))
    <3>1. s \in Seq(Lines) /\ Len(s) = Len(b) /\ \A i \in 1..Len(b) : s[i] = b[i]
      BY <1>1
    <3> HIDE DEF s
    <3>2. s = b
      BY <1>1, <3>1, SeqEqual
    <3> QED
      BY <2>1, <3>2 DEF s
  <2>4. Len(Values("Content-Length")) <= 1
    <3>1. Values("Content-Length") = IF c.method = "GET" THEN << >> ELSE << Len(b) >>
      BY <1>5, <1>8, <2>1
    <3>2. Len(<< >>) <= 1 /\ Len(<< Len(b) >>) <= 1
      BY <1>1
    <3> QED
      BY <3>1, <3>2
  <2>5. \A n \in DOMAIN c.headers : IsPrefix(c.headers[n], Values(n))
    BY <1>5, <1>8, <2>1 DEF BuiltOn
  <2>6. arrived[1][1] = c.method /\ Decoded(arrived[1][2]) = c.path
    BY <1>5, <2>2, EncodedIsDecoded
  <2> QED
    BY <2>3, <2>4, <2>5, <2>6
<1> QED
  BY <1>6, <1>10, <1>11, <1>12 DEF ServerReadsWhatWasAsked, b

\* Whatever the requests: in whatever parts the connection takes one, the server reads what was asked.
THEOREM ServerReadsWhatWasAskedHolds == WriterSpec => []ServerReadsWhatWasAsked
<1>1. WriterInv => ServerReadsWhatWasAsked
  BY WholeReadsAsAsked
<1> QED
  BY <1>1, WriterInvHolds, PTL

--------------------------------------------------------------------------------
(***************************************************************************)
(* Provisioning: a program that has a key pair asks for no other, so the   *)
(* one it prints is the last.                                              *)
(***************************************************************************)
OnboardingInv ==
  /\ program \in {"none", "ritms_ott", "ritms_auth"}
  /\ issued \in Nat /\ payload \in Nat
  /\ attempt \in 0..RetryAttempts
  /\ payload # 0 => program # "ritms_ott" /\ payload = issued
  /\ payload # 0 /\ program = "ritms_auth" => attempt = RetryAttempts
  /\ PrintedKeyPairIsCurrent

USE AttemptsAssumption DEF onboardingVars

LEMMA OnboardingInitInv == OnboardingInit => OnboardingInv
  BY DEF OnboardingInit, OnboardingInv, PrintedKeyPairIsCurrent

LEMMA OnboardingStep == ASSUME OnboardingInv, [OnboardingNext]_onboardingVars PROVE OnboardingInv'
<1> USE DEF OnboardingInv, PrintedKeyPairIsCurrent, Exit
<1>1. CASE UNCHANGED onboardingVars
  BY <1>1
<1>2. CASE Start("ritms_ott") \/ Start("ritms_auth")
  BY <1>2 DEF Start
<1>3. CASE Misconfigured
  BY <1>3 DEF Misconfigured
<1>4. CASE BuildClient
  BY <1>4 DEF BuildClient
<1>5. CASE Exchange
  BY <1>5 DEF Exchange
<1>6. CASE Provision
  <2> PICK answer \in Answers, taken \in BOOLEAN :
        /\ Possible(answer, taken, dpsClient.crt)
        /\ issued' = IF taken THEN issued + 1 ELSE issued
        /\ IF answer \in {"200", "201"}
             THEN /\ payload' = issued' /\ attempt' = RetryAttempts
                  /\ UNCHANGED << program, exit >>
             ELSE /\ IF answer = "otherType" THEN Exit("aborted") ELSE UNCHANGED << program, exit >>
                  /\ attempt' = attempt + 1 /\ UNCHANGED payload
    BY <1>6 DEF Provision, AttemptAfterSuccess
  <2>1. payload = 0 /\ attempt < RetryAttempts /\ UNCHANGED printed /\ program = "ritms_auth"
    BY <1>6 DEF Provision
  <2>2. CASE answer \in {"200", "201"}
    BY <2>1, <2>2 DEF Possible
  <2>3. CASE answer \notin {"200", "201"}
    BY <2>1, <2>3
  <2> QED
    BY <2>2, <2>3
<1>7. CASE PrintOrGiveUp
  BY <1>7 DEF PrintOrGiveUp
<1> QED
  BY <1>1, <1>2, <1>3, <1>4, <1>5, <1>6, <1>7 DEF OnboardingNext

\* However many attempts and programs there are and whatever answers are lost: a ritms_auth
\* that succeeds has printed the key pair that was issued last.
THEOREM PrintedKeyPairIsCurrentHolds == OnboardingSpec => []PrintedKeyPairIsCurrent
<1>1. OnboardingInv => PrintedKeyPairIsCurrent
  BY DEF OnboardingInv
<1> QED
  BY <1>1, OnboardingInitInv, OnboardingStep, PTL DEF OnboardingSpec

--------------------------------------------------------------------------------
(***************************************************************************)
(* A name is split into its words: what the loop has passed on are the     *)
(* words that end before the place it has come to, in their order.         *)
(***************************************************************************)
NextCut(t, g, n) ==
  IF n = 0 THEN [words |-> << >>, beg |-> 1]
  ELSE IF t[n] = "." THEN [words |-> Passed(g[n - 1].words, SubSeq(t, g[n - 1].beg, n - 1)), beg |-> n + 1]
  ELSE g[n - 1]
CutUpTo(t, m, g) == g = [n \in 0..m |-> NextCut(t, g, n)]

LEMMA CutUpToExists == ASSUME NEW t, NEW m \in Nat PROVE \E g : CutUpTo(t, m, g)
<1> DEFINE P == {k \in Nat : \E g : CutUpTo(t, k, g)}
<1>1. 0 \in P
  <2> DEFINE g == [n \in 0..0 |-> [words |-> << >>, beg |-> 1]]
  <2>1. \A n \in 0..0 : NextCut(t, g, n) = [words |-> << >>, beg |-> 1]
    BY DEF NextCut
  <2>2. CutUpTo(t, 0, g)
    BY <2>1 DEF CutUpTo
  <2> QED
    BY <2>2
<1>2. ASSUME NEW k \in P PROVE k + 1 \in P
  <2>1. PICK g : CutUpTo(t, k, g)
    OBVIOUS
  <2> DEFINE h == [n \in 0..(k + 1) |-> NextCut(t, g, n)]
  <2> k \in Nat
    OBVIOUS
  <2>2. \A n \in 0..k : g[n] = NextCut(t, g, n)
    BY <2>1 DEF CutUpTo
  <2>3. \A n \in 0..k : h[n] = g[n]
    BY <2>2
  <2> HIDE DEF h
  <2>4. \A n \in 0..(k + 1) : NextCut(t, g, n) = NextCut(t, h, n)
    BY <2>3 DEF NextCut
  <2>5. CutUpTo(t, k + 1, h)
    BY <2>4 DEF CutUpTo, h
  <2> QED
    BY <2>5
<1>3. P = Nat
  BY <1>1, <1>2, Induction
<1> QED
  BY <1>3

LEMMA CutIsLast ==
  ASSUME NEW t, Len(t) \in Nat
  PROVE \E g : /\ Cut(t) = g[Len(t)]
               /\ \A n \in 0..Len(t) : g[n] = NextCut(t, g, n)
<1> DEFINE g == CHOOSE g : CutUpTo(t, Len(t), g)
<1>1. Cut(t) = g[Len(t)]
  BY DEF Cut, CutUpTo, NextCut
<1>2. \E f : CutUpTo(t, Len(t), f)
  BY CutUpToExists
<1>3. CutUpTo(t, Len(t), g)
  BY <1>2, Zenon
<1> HIDE DEF g
<1>4. \A n \in 0..Len(t) : g[n] = NextCut(t, g, n)
  BY <1>3 DEF CutUpTo
<1> QED
  BY <1>1, <1>4

\* ws are the words of t at the places W, in their order.
IsEnumeration(g, W) ==
  /\ \A i, j \in DOMAIN g : i < j => g[i][1] < g[j][1]
  /\ \A w \in W : \E i \in DOMAIN g : g[i] = w
Enumerates(ws, W, t) ==
  /\ ws \in Seq(Seq(STRING))
  /\ \E g \in [1..Len(ws) -> W] :
       IsEnumeration(g, W) /\ \A i \in 1..Len(ws) : ws[i] = Spelled(t, g[i])

Before(t, b) == {w \in WordsOf(t) : w[2] < b}

\* The word between two dots is one more, unless it is empty.
LEMMA BeforeNext ==
  ASSUME NEW t \in Seq(STRING), NEW n \in 0..Len(t), NEW b \in 1..(n + 1),
         b = 1 \/ t[b - 1] = ".", \A i \in b..n : t[i] # ".", n = Len(t) \/ t[n + 1] = "."
  PROVE Before(t, n + 2) = Before(t, b) \cup (IF b <= n THEN {<< b, n >>} ELSE {})
<1>1. ASSUME NEW w \in Before(t, n + 2), w \notin Before(t, b) PROVE b <= n /\ w = << b, n >>
  <2>1. /\ w \in (1..Len(t)) \X (1..Len(t)) /\ w[1] <= w[2] /\ w[2] < n + 2 /\ ~(w[2] < b)
        /\ \A i \in w[1]..w[2] : t[i] # "."
        /\ w[1] = 1 \/ t[w[1] - 1] = "."
        /\ w[2] = Len(t) \/ t[w[2] + 1] = "."
    BY <1>1 DEF Before, WordsOf
  <2>2. PICK c \in 1..Len(t), d \in 1..Len(t) : w = << c, d >>
    BY <2>1
  <2>3. /\ c <= d /\ d < n + 2 /\ b <= d /\ \A i \in c..d : t[i] # "."
        /\ c = 1 \/ t[c - 1] = "."
        /\ d = Len(t) \/ t[d + 1] = "."
    BY <2>1, <2>2
  <2>4. d # n + 1
    BY <2>3
  <2>5. d = n
    <3> SUFFICES ASSUME d < n PROVE FALSE
      BY <2>3, <2>4
    <3>1. t[d + 1] = "." /\ d + 1 \in b..n
      BY <2>3
    <3> QED
      BY <3>1
  <2>6. ~(c < b)
    <3> SUFFICES ASSUME c < b PROVE FALSE
      OBVIOUS
    <3>1. t[b - 1] = "." /\ b - 1 \in c..d
      BY <2>3
    <3> QED
      BY <2>3, <3>1
  <2>7. ~(c > b)
    <3> SUFFICES ASSUME c > b PROVE FALSE
      OBVIOUS
    <3>1. t[c - 1] = "." /\ c - 1 \in b..n
      BY <2>3, <2>5
    <3> QED
      BY <3>1
  <2> QED
    BY <2>2, <2>3, <2>5, <2>6, <2>7
<1>2. Before(t, b) \subseteq Before(t, n + 2)
  <2>1. \A w \in WordsOf(t) : w[2] < b => w[2] < n + 2
    BY DEF WordsOf
  <2> QED
    BY <2>1 DEF Before
<1>3. b <= n => << b, n >> \in Before(t, n + 2)
  BY DEF Before, WordsOf
<1> QED
  BY <1>1, <1>2, <1>3

LEMMA OneWordMore ==
  ASSUME NEW t \in Seq(STRING), NEW n \in 0..Len(t), NEW b \in 1..(n + 1), NEW ws,
         b = 1 \/ t[b - 1] = ".", \A i \in b..n : t[i] # ".", n = Len(t) \/ t[n + 1] = ".",
         Enumerates(ws, Before(t, b), t)
  PROVE Enumerates(Passed(ws, SubSeq(t, b, n)), Before(t, n + 2), t)
<1> DEFINE W == Before(t, b)
           V == Before(t, n + 2)
           e == SubSeq(t, b, n)
<1>1. V = W \cup (IF b <= n THEN {<< b, n >>} ELSE {})
  BY BeforeNext
<1>2. e \in Seq(STRING) /\ (e = << >> <=> ~(b <= n)) /\ e = Spelled(t, << b, n >>)
  BY DEF Spelled
<1>3. \A w \in W : w[1] < b
  BY DEF Before, WordsOf
<1> HIDE DEF W, V, e
<1>4. ws \in Seq(Seq(STRING))
  BY DEF Enumerates
<1>5. PICK g \in [1..Len(ws) -> W] :
        IsEnumeration(g, W) /\ \A i \in 1..Len(ws) : ws[i] = Spelled(t, g[i])
  BY DEF Enumerates, W
<1>6. CASE ~(b <= n)
  <2>1. V = W /\ Passed(ws, e) = ws
    BY <1>1, <1>2, <1>6 DEF Passed
  <2> QED
    BY <2>1 DEF W, V, e
<1>7. CASE b <= n
  <2> DEFINE k == Len(ws) + 1
             h == [i \in 1..k |-> IF i = k THEN << b, n >> ELSE g[i]]
             vs == Append(ws, e)
  <2>1. V = W \cup {<< b, n >>} /\ Passed(ws, e) = vs
    BY <1>1, <1>2, <1>7 DEF Passed
  <2>2. /\ vs \in Seq(Seq(STRING)) /\ Len(vs) = k /\ vs[k] = e
        /\ \A i \in 1..(k - 1) : vs[i] = ws[i]
        /\ k \in Nat /\ k - 1 = Len(ws) /\ k \in 1..k
        /\ \A i \in 1..k : i = k \/ i \in 1..(k - 1)
        /\ \A i \in 1..(k - 1) : i # k /\ i \in 1..k
    BY <1>2, <1>4
  <2> HIDE DEF vs, k
  <2>3. h[k] = << b, n >> /\ DOMAIN h = 1..k /\ DOMAIN g = 1..(k - 1)
    BY <1>5, <2>2
  <2>4. \A i \in 1..(k - 1) : h[i] = g[i] /\ g[i] \in W
    BY <1>5, <2>2
  <2>5. h \in [1..k -> V]
    <3>1. \A i \in 1..k : h[i] \in V
      BY <2>1, <2>2, <2>3, <2>4
    <3> QED
      BY <3>1
  <2> HIDE DEF h
  <2>6. \A i, j \in 1..k : i < j => h[i][1] < h[j][1]
    <3> SUFFICES ASSUME NEW i \in 1..k, NEW j \in 1..k, i < j PROVE h[i][1] < h[j][1]
      OBVIOUS
    <3>1. i \in 1..(k - 1) /\ h[i] = g[i] /\ g[i][1] < b
      BY <1>3, <2>2, <2>4
    <3>2. CASE j = k
      <4>1. h[j][1] = b
        BY <2>3, <3>2
      <4> QED
        BY <3>1, <4>1
    <3>3. CASE j # k
      <4>1. j \in 1..(k - 1) /\ h[j] = g[j]
        BY <2>2, <2>4, <3>3
      <4> QED
        BY <1>5, <2>3, <3>1, <4>1 DEF IsEnumeration
    <3> QED
      BY <3>2, <3>3
  <2>7. \A w \in V : \E i \in 1..k : h[i] = w
    <3>1. \A w \in W : \E i \in 1..(k - 1) : h[i] = w
      BY <1>5, <2>3, <2>4 DEF IsEnumeration
    <3>2. k \in 1..k /\ 1..(k - 1) \subseteq 1..k
      BY <2>2
    <3> QED
      BY <2>1, <2>3, <3>1, <3>2
  <2>8. \A i \in 1..k : vs[i] = Spelled(t, h[i])
    <3>1. \A i \in 1..(k - 1) : vs[i] = Spelled(t, h[i])
      BY <1>5, <2>2, <2>4
    <3>2. vs[k] = Spelled(t, h[k])
      BY <1>2, <2>2, <2>3
    <3> QED
      BY <2>2, <3>1, <3>2
  <2>9. IsEnumeration(h, V)
    BY <2>3, <2>6, <2>7 DEF IsEnumeration
  <2>10. Enumerates(vs, V, t)
    BY <2>2, <2>5, <2>8, <2>9 DEF Enumerates
  <2> QED
    BY <2>1, <2>10 DEF V, e
<1> QED
  BY <1>6, <1>7

CutInv(t, n, c) ==
  /\ c.beg \in 1..(n + 1)
  /\ c.beg = 1 \/ t[c.beg - 1] = "."
  /\ \A i \in c.beg..n : t[i] # "."
  /\ Enumerates(c.words, Before(t, c.beg), t)

LEMMA CutHolds == ASSUME NEW t \in Seq(STRING) PROVE CutInv(t, Len(t), Cut(t))
<1>1. PICK g : Cut(t) = g[Len(t)] /\ \A n \in 0..Len(t) : g[n] = NextCut(t, g, n)
  BY CutIsLast
<1> DEFINE P == {n \in Nat : n <= Len(t) => CutInv(t, n, g[n])}
<1>2. 0 \in P
  <2>1. g[0] = [words |-> << >>, beg |-> 1]
    <3>1. 0 \in 0..Len(t)
      OBVIOUS
    <3>2. g[0] = NextCut(t, g, 0)
      BY <1>1, <3>1, Zenon
    <3> QED
      BY <3>2 DEF NextCut
  <2>2. Before(t, 1) = {}
    BY DEF Before, WordsOf
  <2>3. Enumerates(<< >>, {}, t)
    <3>1. << >> \in Seq(Seq(STRING)) /\ Len(<< >>) = 0 /\ 1..0 = {}
      BY EmptySeq
    <3>2. << >> \in [1..0 -> {}] /\ IsEnumeration(<< >>, {}) /\ DOMAIN << >> = {}
      BY DEF IsEnumeration
    <3> QED
      BY <3>1, <3>2 DEF Enumerates
  <2>4. g[0].words = << >> /\ g[0].beg = 1
    BY <2>1
  <2>5. 1 \in 1..(0 + 1) /\ 1..0 = {}
    OBVIOUS
  <2>6. CutInv(t, 0, g[0])
    BY <2>2, <2>3, <2>4, <2>5 DEF CutInv
  <2> QED
    BY <2>6
<1>3. ASSUME NEW n \in P PROVE n + 1 \in P
  <2> SUFFICES ASSUME n + 1 <= Len(t) PROVE CutInv(t, n + 1, g[n + 1])
    OBVIOUS
  <2> DEFINE c == g[n]
             d == g[n + 1]
  <2>1. n \in Nat /\ CutInv(t, n, c)
    OBVIOUS
  <2> HIDE DEF P
  <2>2. n + 1 \in 0..Len(t) /\ n \in 0..Len(t) /\ n + 1 # 0 /\ n + 1 - 1 = n
    BY <2>1
  <2>3. d = IF t[n + 1] = "." THEN [words |-> Passed(c.words, SubSeq(t, c.beg, n)), beg |-> n + 2] ELSE c
    <3>1. d = NextCut(t, g, n + 1)
      BY <1>1, <2>2
    <3>2. n + 1 + 1 = n + 2
      BY <2>1
    <3> QED
      BY <2>2, <3>1, <3>2 DEF NextCut
  <2> HIDE DEF c, d
  <2>4. CASE t[n + 1] = "."
    <3> DEFINE vs == Passed(c.words, SubSeq(t, c.beg, n))
    <3>1. Enumerates(vs, Before(t, n + 2), t)
      BY <2>1, <2>2, <2>4, OneWordMore DEF CutInv
    <3> HIDE DEF vs
    <3>2. d = [words |-> vs, beg |-> n + 2]
      BY <2>3, <2>4 DEF vs
    <3>3. d.words = vs /\ d.beg = n + 2
      BY <3>2
    <3>5. d.beg \in 1..(n + 1 + 1) /\ d.beg - 1 = n + 1 /\ d.beg..(n + 1) = {}
      BY <2>1, <3>3
    <3>6. t[d.beg - 1] = "." /\ \A i \in d.beg..(n + 1) : t[i] # "."
      BY <2>4, <3>5
    <3>7. Enumerates(d.words, Before(t, d.beg), t)
      BY <3>1, <3>3
    <3> QED
      BY <3>5, <3>6, <3>7 DEF CutInv, d
  <2>5. CASE t[n + 1] # "."
    <3>1. d = c
      BY <2>3, <2>5
    <3>2. c.beg \in 1..(n + 1 + 1) /\ \A i \in c.beg..(n + 1) : t[i] # "."
      BY <2>1, <2>5 DEF CutInv
    <3> QED
      BY <2>1, <3>1, <3>2 DEF CutInv, d
  <2> QED
    BY <2>4, <2>5
<1>4. P = Nat
  BY <1>2, <1>3, Induction
<1>5. Len(t) \in Nat
  OBVIOUS
<1> QED
  BY <1>1, <1>4, <1>5

LEMMA SplitGivesTheWords == ASSUME NEW t \in Seq(STRING) PROVE Enumerates(Split(t), WordsOf(t), t)
<1> DEFINE c == Cut(t)
<1>1. CutInv(t, Len(t), c)
  BY CutHolds
<1> HIDE DEF c
<1>2. Enumerates(Passed(c.words, SubSeq(t, c.beg, Len(t))), Before(t, Len(t) + 2), t)
  BY <1>1, OneWordMore DEF CutInv
<1>3. Before(t, Len(t) + 2) = WordsOf(t)
  BY DEF Before, WordsOf
<1> QED
  BY <1>2, <1>3 DEF Split, c

(***************************************************************************)
(* A name covers another word by word exactly if CheckHostName() finds so. *)
(***************************************************************************)
\* What is strictly increasing and leaves nothing out goes through its numbers one by one.
Climbs(h, n, m) ==
  /\ h \in [1..n -> 1..m]
  /\ \A i, j \in 1..n : i < j => h[i] < h[j]
  /\ \A k \in 1..m : \E i \in 1..n : h[i] = k

LEMMA OneByOne ==
  ASSUME NEW n \in Nat, NEW m \in Nat, NEW h, Climbs(h, n, m)
  PROVE n = m /\ \A i \in 1..n : h[i] = i
<1> USE DEF Climbs
<1> DEFINE T == {i \in 1..n : h[i] # i}
<1>1. T = {}
  <2> SUFFICES ASSUME T # {} PROVE FALSE
    OBVIOUS
  <2>0. T \subseteq Nat
    OBVIOUS
  <2> HIDE DEF T
  <2>1. PICK i \in T : \A k \in T : i <= k
    BY <2>0, LeastOf
  <2> USE DEF T
  <2>2. i \in 1..n /\ h[i] # i /\ h[i] \in 1..m
    OBVIOUS
  <2>3. \A k \in 1..n : k < i => h[k] = k
    BY <2>1
  <2> HIDE DEF T
  <2>4. CASE h[i] < i
    <3>1. h[i] \in 1..n /\ h[h[i]] = h[i]
      BY <2>2, <2>3, <2>4
    <3>2. h[h[i]] < h[i]
      BY <2>2, <2>4, <3>1
    <3> QED
      BY <2>2, <3>1, <3>2
  <2>5. CASE h[i] > i
    <3>1. i \in 1..m
      BY <2>2, <2>5
    <3>2. PICK j \in 1..n : h[j] = i
      BY <3>1
    <3>3. CASE j < i
      BY <2>2, <2>3, <3>2, <3>3
    <3>4. CASE j > i
      <4>1. h[i] < h[j]
        BY <2>2, <3>4
      <4> QED
        BY <2>2, <2>5, <3>2, <4>1
    <3>5. CASE j = i
      BY <2>2, <3>2, <3>5
    <3> QED
      BY <2>2, <3>3, <3>4, <3>5
  <2> QED
    BY <2>2, <2>4, <2>5
<1>2. \A i \in 1..n : h[i] = i
  BY <1>1
<1> HIDE DEF T
<1>3. n <= m
  <2> SUFFICES ASSUME n > m PROVE FALSE
    OBVIOUS
  <2>1. n \in 1..n /\ h[n] = n /\ h[n] \in 1..m
    BY <1>2
  <2> QED
    BY <2>1
<1>4. m <= n
  <2> SUFFICES ASSUME m > n PROVE FALSE
    OBVIOUS
  <2>1. m \in 1..m
    OBVIOUS
  <2>2. PICK i \in 1..n : h[i] = m
    BY <2>1
  <2> QED
    BY <1>2, <2>2
<1> QED
  BY <1>2, <1>3, <1>4

\* Matched by itself, by a star, or by itself with a star behind.
LEMMA ComponentFits ==
  ASSUME NEW p \in Seq(STRING), NEW h \in Seq(STRING)
  PROVE ComponentMatches(p, h) <=> p \in {h, << "*" >>, Append(h, "*")}
<1> DEFINE Stars == STRING \cup {"*"}
<1>1. p \in Seq(Stars) /\ h \in Seq(Stars) /\ "*" \in Stars
  BY SeqMonotonic
<1> HIDE DEF Stars
<1>2. ASSUME p # << >>, Last(p) = "*", Front(p) = h PROVE p = Append(h, "*")
  <2>1. Len(p) \in Nat /\ Len(p) > 0 /\ p[Len(p)] = "*" /\ h = SubSeq(p, 1, Len(p) - 1)
    BY <1>1, <1>2 DEF Last, Front
  <2> QED
    BY <1>1, <2>1
<1>3. ASSUME p = Append(h, "*") PROVE p # << >> /\ Last(p) = "*" /\ Front(p) = h
  BY <1>1, <1>3 DEF Last, Front
<1> QED
  BY <1>2, <1>3 DEF ComponentMatches

Fits(p, h) == p \in {h, << "*" >>, Append(h, "*")}
Covering(s, t) == WordByWord(s, t, Fits)

LEMMA CoveredIfMatched ==
  ASSUME NEW s, NEW t, NEW ps, NEW hs,
         Enumerates(ps, WordsOf(s), s), Enumerates(hs, WordsOf(t), t),
         Len(ps) = Len(hs), \A i \in DOMAIN hs : Fits(ps[i], hs[i])
  PROVE WordByWord(s, t, Fits)
<1> DEFINE n == Len(ps)
           V == WordsOf(s)
           W == WordsOf(t)
<1>1. n \in Nat /\ DOMAIN hs = 1..n
  BY DEF Enumerates
<1> HIDE DEF n
<1>2. PICK g \in [1..n -> V] :
        IsEnumeration(g, V) /\ \A i \in 1..n : ps[i] = Spelled(s, g[i])
  BY DEF Enumerates, n
<1>3. PICK h \in [1..n -> W] :
        IsEnumeration(h, W) /\ \A i \in 1..n : hs[i] = Spelled(t, h[i])
  BY DEF Enumerates, n
<1> HIDE DEF V, W
<1> DEFINE At(v) == CHOOSE i \in 1..n : g[i] = v
           f == [v \in V |-> h[At(v)]]
<1>4. \A v \in V : At(v) \in 1..n /\ g[At(v)] = v
  BY <1>2 DEF IsEnumeration
<1>5. \A i \in 1..n : g[i] \in V /\ h[i] \in W /\ g[i][1] \in Nat
  <2>1. \A v \in V : v[1] \in Nat
    BY DEF V, WordsOf
  <2> QED
    BY <1>2, <1>3, <2>1
<1>6. \A i, j \in 1..n : g[i][1] < g[j][1] => i < j
  <2> SUFFICES ASSUME NEW i \in 1..n, NEW j \in 1..n, g[i][1] < g[j][1], ~(i < j) PROVE FALSE
    OBVIOUS
  <2>1. i = j \/ j < i
    BY <1>1
  <2>2. i # j
    BY <1>5
  <2>3. g[j][1] < g[i][1]
    BY <1>2, <2>1, <2>2 DEF IsEnumeration
  <2> QED
    BY <1>5, <2>3
<1>7. \A i \in 1..n : At(g[i]) = i
  <2> SUFFICES ASSUME NEW i \in 1..n PROVE At(g[i]) = i
    OBVIOUS
  <2>1. At(g[i]) \in 1..n /\ g[At(g[i])] = g[i]
    BY <1>4, <1>5
  <2> HIDE DEF At
  <2>2. ~(At(g[i]) < i) /\ ~(i < At(g[i]))
    <3>1. \A j \in 1..n : j < i => g[j][1] < g[i][1]
      BY <1>2 DEF IsEnumeration
    <3>2. \A j \in 1..n : i < j => g[i][1] < g[j][1]
      BY <1>2 DEF IsEnumeration
    <3> QED
      BY <1>5, <2>1, <3>1, <3>2
  <2> QED
    BY <1>1, <2>1, <2>2
<1> HIDE DEF At
<1>8. f \in [V -> W]
  BY <1>4, <1>5
<1>9. \A v \in V : f[v] = h[At(v)]
  OBVIOUS
<1> HIDE DEF f
<1>10. \A v, w \in V : v[1] < w[1] => f[v][1] < f[w][1]
  <2> SUFFICES ASSUME NEW v \in V, NEW w \in V, v[1] < w[1] PROVE f[v][1] < f[w][1]
    OBVIOUS
  <2>1. At(v) < At(w)
    BY <1>4, <1>6
  <2>2. h[At(v)][1] < h[At(w)][1]
    BY <1>3, <1>4, <2>1 DEF IsEnumeration
  <2> QED
    BY <1>9, <2>2
<1>11. \A w \in W : \E v \in V : f[v] = w
  <2> SUFFICES ASSUME NEW w \in W PROVE \E v \in V : f[v] = w
    OBVIOUS
  <2>1. PICK i \in 1..n : h[i] = w
    BY <1>3 DEF IsEnumeration
  <2> QED
    BY <1>5, <1>7, <1>9, <2>1
<1>12. \A v \in V : Fits(Spelled(s, v), Spelled(t, f[v]))
  <2> SUFFICES ASSUME NEW v \in V PROVE Fits(Spelled(s, v), Spelled(t, f[v]))
    OBVIOUS
  <2>1. Fits(ps[At(v)], hs[At(v)])
    BY <1>1, <1>4
  <2>2. ps[At(v)] = Spelled(s, v) /\ hs[At(v)] = Spelled(t, f[v])
    BY <1>2, <1>3, <1>4, <1>9
  <2> QED
    BY <2>1, <2>2
<1> QED
  BY <1>8, <1>10, <1>11, <1>12 DEF WordByWord, V, W

LEMMA MatchedIfCovered ==
  ASSUME NEW s, NEW t, NEW ps, NEW hs,
         Enumerates(ps, WordsOf(s), s), Enumerates(hs, WordsOf(t), t), WordByWord(s, t, Fits)
  PROVE Len(ps) = Len(hs) /\ \A i \in DOMAIN hs : Fits(ps[i], hs[i])
<1> DEFINE n == Len(ps)
           m == Len(hs)
           V == WordsOf(s)
           W == WordsOf(t)
<1>1. n \in Nat /\ m \in Nat /\ DOMAIN hs = 1..m
  BY DEF Enumerates
<1>2. PICK f \in [V -> W] :
        /\ \A v, w \in V : v[1] < w[1] => f[v][1] < f[w][1]
        /\ \A w \in W : \E v \in V : f[v] = w
        /\ \A v \in V : Fits(Spelled(s, v), Spelled(t, f[v]))
  BY DEF WordByWord
<1> HIDE DEF n, m
<1>3. PICK g \in [1..n -> V] :
        IsEnumeration(g, V) /\ \A i \in 1..n : ps[i] = Spelled(s, g[i])
  BY DEF Enumerates, n
<1>4. PICK h \in [1..m -> W] :
        IsEnumeration(h, W) /\ \A i \in 1..m : hs[i] = Spelled(t, h[i])
  BY DEF Enumerates, m
<1>5. \A w \in W : w[1] \in Nat
  BY DEF W, WordsOf
<1> HIDE DEF V, W
<1> DEFINE At(w) == CHOOSE j \in 1..m : h[j] = w
           p == [i \in 1..n |-> At(f[g[i]])]
<1>6. \A w \in W : At(w) \in 1..m /\ h[At(w)] = w
  BY <1>4 DEF IsEnumeration
<1> HIDE DEF At
<1>7. \A i \in 1..n : g[i] \in V /\ f[g[i]] \in W
  BY <1>2, <1>3
<1>8. \A i \in 1..n : p[i] \in 1..m /\ h[p[i]] = f[g[i]]
  BY <1>6, <1>7
<1>9. p \in [1..n -> 1..m]
  BY <1>8
<1> HIDE DEF p
<1>10. \A i, j \in 1..m : h[i][1] < h[j][1] => i < j
  <2> SUFFICES ASSUME NEW i \in 1..m, NEW j \in 1..m, h[i][1] < h[j][1], ~(i < j) PROVE FALSE
    OBVIOUS
  <2>1. h[i][1] \in Nat /\ h[j][1] \in Nat
    BY <1>4, <1>5
  <2>2. i # j
    BY <2>1
  <2>3. j < i
    BY <1>1, <2>2
  <2>4. h[j][1] < h[i][1]
    BY <1>4, <2>3 DEF IsEnumeration
  <2> QED
    BY <2>1, <2>4
<1>11. \A i, j \in 1..n : i < j => p[i] < p[j]
  <2> SUFFICES ASSUME NEW i \in 1..n, NEW j \in 1..n, i < j PROVE p[i] < p[j]
    OBVIOUS
  <2>1. g[i][1] < g[j][1]
    BY <1>3 DEF IsEnumeration
  <2>2. f[g[i]][1] < f[g[j]][1]
    BY <1>2, <1>7, <2>1
  <2> QED
    BY <1>8, <1>10, <2>2
<1>12. \A k \in 1..m : \E i \in 1..n : p[i] = k
  <2> SUFFICES ASSUME NEW k \in 1..m PROVE \E i \in 1..n : p[i] = k
    OBVIOUS
  <2>1. h[k] \in W
    BY <1>4
  <2>2. PICK v \in V : f[v] = h[k]
    BY <1>2, <2>1
  <2>3. PICK i \in 1..n : g[i] = v
    BY <1>3 DEF IsEnumeration
  <2>4. p[i] \in 1..m /\ h[p[i]] = h[k]
    BY <1>8, <2>2, <2>3
  <2>5. ~(p[i] < k) /\ ~(k < p[i])
    <3>1. h[k][1] \in Nat
      BY <1>5, <2>1
    <3>2. p[i] < k => h[p[i]][1] < h[k][1]
      BY <1>4, <2>4 DEF IsEnumeration
    <3>3. k < p[i] => h[k][1] < h[p[i]][1]
      BY <1>4, <2>4 DEF IsEnumeration
    <3> QED
      BY <2>4, <3>1, <3>2, <3>3
  <2> QED
    BY <1>1, <2>4, <2>5
<1>13. n = m /\ \A i \in 1..n : p[i] = i
  <2>1. Climbs(p, n, m)
    BY <1>9, <1>11, <1>12 DEF Climbs
  <2> QED
    BY <1>1, <2>1, OneByOne
<1>14. \A i \in 1..m : Fits(ps[i], hs[i])
  <2> SUFFICES ASSUME NEW i \in 1..m PROVE Fits(ps[i], hs[i])
    OBVIOUS
  <2>1. i \in 1..n /\ h[i] = f[g[i]]
    BY <1>8, <1>13
  <2>2. Fits(Spelled(s, g[i]), Spelled(t, f[g[i]]))
    BY <1>2, <1>7, <2>1
  <2> QED
    BY <1>3, <1>4, <2>1, <2>2
<1> QED
  BY <1>1, <1>13, <1>14 DEF n, m

LEMMA CheckedIfCovered ==
  ASSUME host.name \in Seq(STRING), NEW pattern \in Seq(STRING)
  PROVE CheckHostName(pattern) <=> Covering(pattern, host.name)
<1> DEFINE ps == Split(pattern)
           hs == Split(host.name)
           Matched == Len(ps) = Len(hs) /\ \A i \in DOMAIN hs : ComponentMatches(ps[i], hs[i])
<1>1. Enumerates(ps, WordsOf(pattern), pattern) /\ Enumerates(hs, WordsOf(host.name), host.name)
  BY SplitGivesTheWords
<1>2. CheckHostName(pattern) <=> host.name = pattern \/ Matched
  BY DEF CheckHostName
<1>3. host.name = pattern => Len(ps) = Len(hs) /\ \A i \in DOMAIN hs : ComponentMatches(ps[i], hs[i])
  BY DEF ComponentMatches
<1>4. Covering(pattern, host.name) <=> WordByWord(pattern, host.name, Fits)
  BY DEF Covering
<1> HIDE DEF ps, hs
<1>5. ps \in Seq(Seq(STRING)) /\ hs \in Seq(Seq(STRING))
  BY <1>1 DEF Enumerates
<1>6. Matched <=> Len(ps) = Len(hs) /\ \A i \in DOMAIN hs : Fits(ps[i], hs[i])
  <2> SUFFICES ASSUME Len(ps) = Len(hs), NEW i \in DOMAIN hs
               PROVE ComponentMatches(ps[i], hs[i]) <=> Fits(ps[i], hs[i])
    OBVIOUS
  <2>1. ps[i] \in Seq(STRING) /\ hs[i] \in Seq(STRING)
    BY <1>5
  <2> QED
    BY <2>1, ComponentFits DEF Fits
<1>7. Matched <=> WordByWord(pattern, host.name, Fits)
  BY <1>1, <1>6, CoveredIfMatched, MatchedIfCovered
<1> QED
  BY <1>2, <1>3, <1>4, <1>7

Alternatives == certificateOf.alternatives
CommonCovers == certificateOf.commonName # NoName /\ Covering(certificateOf.commonName, host.name)

ServerInv ==
  /\ host \in Hosts /\ certificateOf \in ServerCertificates
  /\ index \in 1..(Len(Alternatives) + 1) /\ matched \in BOOLEAN
  /\ host.type = "DNS" =>
       (matched <=> \E i \in 1..(index - 1) : Alternatives[i].type = "DNS" /\ Covering(Alternatives[i].name, host.name))
  /\ \A i \in 1..(index - 1) : Alternatives[i] = host => matched
  /\ verdict # "none" => ~More /\ (verdict = "accepted" <=> matched \/ CommonCovers)

LEMMA NamesAreTexts ==
  ASSUME host \in Hosts, certificateOf \in ServerCertificates
  PROVE /\ host.type \in {"DNS", "IPADD"} /\ host.name \in Seq(STRING)
        /\ Len(Alternatives) \in Nat /\ DOMAIN Alternatives = 1..Len(Alternatives)
        /\ certificateOf.commonName \in Seq(STRING)
        /\ \A i \in 1..Len(Alternatives) : Alternatives[i].name \in Seq(STRING)
<1>1. host \in [type : {"DNS", "IPADD"}, name : Seq(STRING)]
  BY NamesAssumption
<1>2. certificateOf \in
        [alternatives : Seq([type : STRING, name : Seq(STRING)]), commonName : Seq(STRING)]
  BY NamesAssumption
<1>3. Alternatives \in Seq([type : STRING, name : Seq(STRING)]) /\ certificateOf.commonName \in Seq(STRING)
  BY <1>2 DEF Alternatives
<1>4. host.type \in {"DNS", "IPADD"} /\ host.name \in Seq(STRING)
  BY <1>1
<1>5. Len(Alternatives) \in Nat /\ DOMAIN Alternatives = 1..Len(Alternatives)
  BY <1>3
<1>6. \A i \in 1..Len(Alternatives) : Alternatives[i].name \in Seq(STRING)
  <2> SUFFICES ASSUME NEW i \in 1..Len(Alternatives) PROVE Alternatives[i].name \in Seq(STRING)
    OBVIOUS
  <2>1. Alternatives[i] \in [type : STRING, name : Seq(STRING)]
    BY <1>3, ElementOfSeq
  <2> QED
    BY <2>1
<1> QED
  BY <1>3, <1>4, <1>5, <1>6

LEMMA CoversItself ==
  ASSUME host.name \in Seq(STRING) PROVE Covering(host.name, host.name)
<1>1. CheckHostName(host.name)
  BY DEF CheckHostName
<1> QED
  BY <1>1, CheckedIfCovered

LEMMA ServerStep == ASSUME ServerInv, [ServerNext]_serverVars PROVE ServerInv'
<1>1. CASE UNCHANGED serverVars
  BY <1>1 DEF serverVars, ServerInv, Alternatives, CommonCovers, More
<1>2. CASE LookAtAlternative
  <2> DEFINE a == Alternatives[index]
  <2>1. PICK outcome \in Outcomes(a) : matched' = (matched \/ outcome)
    BY <1>2 DEF LookAtAlternative, Alternatives
  <2>2. /\ host' = host /\ certificateOf' = certificateOf /\ verdict' = "none"
        /\ index' = index + 1 /\ index \in 1..Len(Alternatives)
        /\ Alternatives' = Alternatives
    BY <1>2, NamesAreTexts DEF LookAtAlternative, More, ServerInv, Alternatives
  <2>3. host.type \in {"DNS", "IPADD"} /\ host.name \in Seq(STRING) /\ a.name \in Seq(STRING)
    BY <2>2, NamesAreTexts DEF ServerInv
  <2>4. host.type = "DNS" => (outcome <=> a.type = "DNS" /\ Covering(a.name, host.name))
    BY <2>1, <2>3, CheckedIfCovered DEF Outcomes
  <2>5. a = host => outcome
    <3>1. CASE host.type = "DNS"
      BY <2>3, <2>4, <3>1, CoversItself
    <3>2. CASE host.type = "IPADD"
      BY <2>1, <3>2 DEF Outcomes
    <3> QED
      BY <2>3, <3>1, <3>2
  <2>6. outcome \in BOOLEAN /\ matched \in BOOLEAN
    BY <2>1, <2>3 DEF Outcomes, CheckHostName, ServerInv
  <2>7. /\ index' \in 1..(Len(Alternatives) + 1) /\ index' - 1 = index
        /\ \A i \in 1..index : i = index \/ i \in 1..(index - 1)
        /\ index \in 1..index /\ 1..(index - 1) \subseteq 1..index
    BY <2>2, NamesAreTexts DEF ServerInv
  <2> HIDE DEF a
  <2> QED
    BY <2>1, <2>2, <2>4, <2>5, <2>6, <2>7 DEF ServerInv, a
<1>3. CASE LookAtCommonName
  <2>1. /\ host' = host /\ certificateOf' = certificateOf /\ index' = index /\ matched' = matched
        /\ ~More /\ Alternatives' = Alternatives
    BY <1>3 DEF LookAtCommonName, Alternatives
  <2>2. certificateOf.commonName \in Seq(STRING) /\ host.name \in Seq(STRING)
    BY NamesAreTexts DEF ServerInv
  <2>3. verdict' = IF matched \/ CommonCovers THEN "accepted" ELSE "refused"
    BY <1>3, <2>2, CheckedIfCovered DEF LookAtCommonName, CommonCovers
  <2>4. More' = More /\ CommonCovers' = CommonCovers
    BY <2>1 DEF More, CommonCovers
  <2> QED
    BY <2>1, <2>3, <2>4 DEF ServerInv
<1> QED
  BY <1>1, <1>2, <1>3 DEF ServerNext

\* What the code takes for a match is one of the quoted rules; and such a match the code finds too,
\* if its stars are words.
LEMMA FitsSpells ==
  ASSUME NEW p \in Seq(STRING), NEW h \in Seq(STRING), Fits(p, h) PROVE Spells(p, h)
<1> DEFINE n == Len(h)
<1>0. n \in Nat
  OBVIOUS
<1>1. CASE p = h
  <2> DEFINE f == [i \in 1..n |-> i]
  <2>1. f \in [1..Len(h) -> 1..Len(p)] /\ \A i \in 1..Len(h) : f[i] = i
    BY <1>0, <1>1
  <2> HIDE DEF f
  <2> QED
    BY <1>0, <1>1, <2>1 DEF Spells
<1>2. CASE p = << "*" >>
  <2> DEFINE f == [i \in 1..n |-> 1]
  <2>1. Len(p) = 1 /\ p[1] = "*" /\ f \in [1..Len(h) -> 1..Len(p)] /\ \A i \in 1..Len(h) : f[i] = 1
    BY <1>0, <1>2
  <2> HIDE DEF f
  <2> QED
    BY <1>0, <2>1 DEF Spells
<1>3. CASE p = Append(h, "*")
  <2> DEFINE f == [i \in 1..n |-> i]
  <2>1. Len(p) = n + 1 /\ p[n + 1] = "*" /\ \A i \in 1..n : p[i] = h[i]
    BY <1>3
  <2>2. f \in [1..Len(h) -> 1..Len(p)] /\ \A i \in 1..Len(h) : f[i] = i
    BY <1>0, <2>1
  <2> HIDE DEF f
  <2>3. \A i \in 1..Len(h) : p[f[i]] \in {h[i], "*"}
    BY <2>1, <2>2
  <2>4. \A i, j \in 1..Len(h) : i < j => f[i] < f[j]
    BY <2>2
  <2>5. \A k \in 1..Len(p) : p[k] = "*" \/ \E i \in 1..Len(h) : f[i] = k
    BY <1>0, <2>1, <2>2
  <2> HIDE <1>3
  <2> QED
    BY <2>2, <2>3, <2>4, <2>5 DEF Spells
<1> QED
  BY <1>1, <1>2, <1>3 DEF Fits

LEMMA SpellsFits ==
  ASSUME NEW p \in Seq(STRING), NEW h \in Seq(STRING), Spells(p, h),
         Len(p) = 1 \/ \A k \in 1..Len(p) : p[k] # "*"
  PROVE Fits(p, h)
<1>0. Len(p) \in Nat /\ Len(h) \in Nat
  OBVIOUS
<1>1. CASE \A k \in 1..Len(p) : p[k] # "*"
  <2>1. PICK f \in [1..Len(h) -> 1..Len(p)] :
          /\ \A i \in 1..Len(h) : p[f[i]] \in {h[i], "*"}
          /\ \A i, j \in 1..Len(h) : i < j => f[i] < f[j] \/ (f[i] = f[j] /\ p[f[i]] = "*")
          /\ \A k \in 1..Len(p) : p[k] = "*" \/ \E i \in 1..Len(h) : f[i] = k
    BY DEF Spells
  <2>2. Climbs(f, Len(h), Len(p)) /\ \A i \in 1..Len(h) : p[f[i]] = h[i]
    BY <1>1, <2>1 DEF Climbs
  <2>3. Len(h) = Len(p) /\ \A i \in 1..Len(h) : f[i] = i
    BY <1>0, <2>2, OneByOne
  <2> QED
    BY <2>2, <2>3 DEF Fits
<1>2. CASE Len(p) = 1 /\ p[1] = "*"
  BY <1>2 DEF Fits
<1> QED
  BY <1>1, <1>2

LEMMA WordIsText ==
  ASSUME NEW t \in Seq(STRING), NEW w \in WordsOf(t)
  PROVE /\ Spelled(t, w) \in Seq(STRING) /\ Len(Spelled(t, w)) = w[2] - w[1] + 1
        /\ \A k \in 1..Len(Spelled(t, w)) : w[1] + k - 1 \in w[1]..w[2] /\ Spelled(t, w)[k] = t[w[1] + k - 1]
<1> DEFINE a == w[1]
           b == w[2]
           n == b - a + 1
           u == SubSeq(t, a, b)
<1>1. a \in 1..Len(t) /\ b \in 1..Len(t) /\ a <= b /\ Len(t) \in Nat
  BY DEF WordsOf
<1> HIDE DEF a, b
<1>2. \A i \in a..b : t[i] \in STRING
  BY <1>1
<1>3. u \in Seq(STRING) /\ Len(u) = n /\ \A k \in 1..n : u[k] = t[a + k - 1]
  BY <1>1, <1>2, SubSeqProperties
<1>4. \A k \in 1..n : a + k - 1 \in a..b
  BY <1>1
<1>5. Spelled(t, w) = u
  BY DEF Spelled, a, b
<1> HIDE DEF u
<1>6. \A k \in 1..Len(u) : a + k - 1 \in a..b /\ u[k] = t[a + k - 1]
  BY <1>3, <1>4
<1> QED
  BY <1>3, <1>5, <1>6 DEF a, b

LEMMA CoveringCovers ==
  ASSUME host.name \in Seq(STRING), NEW s \in Seq(STRING)
  PROVE /\ Covering(s, host.name) => Covers(s)
        /\ Covers(s) /\ ~HasFragmentStar(s) => Covering(s, host.name)
<1> DEFINE t == host.name
           V == WordsOf(s)
           W == WordsOf(t)
<1>1. \A v \in V, w \in W : Fits(Spelled(s, v), Spelled(t, w)) => Spells(Spelled(s, v), Spelled(t, w))
  BY WordIsText, FitsSpells
<1>2. ASSUME ~HasFragmentStar(s), NEW v \in V, NEW w \in W, Spells(Spelled(s, v), Spelled(t, w))
      PROVE Fits(Spelled(s, v), Spelled(t, w))
  <2>1. v[1] \in Nat /\ v[2] \in Nat /\ v[1] <= v[2]
    BY DEF WordsOf
  <2>2. ~(v[1] < v[2]) \/ \A i \in v[1]..v[2] : s[i] # "*"
    BY <1>2 DEF HasFragmentStar
  <2>3. Len(Spelled(s, v)) = 1 \/ \A k \in 1..Len(Spelled(s, v)) : Spelled(s, v)[k] # "*"
    <3> DEFINE u == Spelled(s, v)
    <3>1. /\ Len(u) = v[2] - v[1] + 1
          /\ \A k \in 1..Len(u) : v[1] + k - 1 \in v[1]..v[2] /\ u[k] = s[v[1] + k - 1]
      BY WordIsText
    <3> HIDE DEF u, V
    <3> QED
      <4>1. CASE v[1] < v[2]
        BY <2>2, <3>1, <4>1 DEF u
      <4>2. CASE v[1] = v[2]
        BY <2>1, <3>1, <4>2 DEF u
      <4> QED
        BY <2>1, <4>1, <4>2
  <2> QED
    BY <1>2, <2>3, WordIsText, SpellsFits
<1>3. \A f \in [V -> W], v \in V : f[v] \in W
  OBVIOUS
<1> HIDE DEF V, W
<1>4. WordByWord(s, t, Fits) <=>
        \E f \in [V -> W] :
          /\ \A v, w \in V : v[1] < w[1] => f[v][1] < f[w][1]
          /\ \A w \in W : \E v \in V : f[v] = w
          /\ \A v \in V : Fits(Spelled(s, v), Spelled(t, f[v]))
  BY DEF WordByWord, V, W
<1>5. WordByWord(s, t, Spells) <=>
        \E f \in [V -> W] :
          /\ \A v, w \in V : v[1] < w[1] => f[v][1] < f[w][1]
          /\ \A w \in W : \E v \in V : f[v] = w
          /\ \A v \in V : Spells(Spelled(s, v), Spelled(t, f[v]))
  BY DEF WordByWord, V, W
<1>6. WordByWord(s, t, Fits) => WordByWord(s, t, Spells)
  BY <1>1, <1>3, <1>4, <1>5
<1>7. ~HasFragmentStar(s) /\ WordByWord(s, t, Spells) => WordByWord(s, t, Fits)
  BY <1>2, <1>3, <1>4, <1>5
<1> QED
  BY <1>6, <1>7 DEF Covers, Covering

\* A server is taken for the host only if its certificate's identity covers the host's name, or
\* its common name does; it is refused only if no name covers it, or one that has a star in a
\* fragment; and it is accepted if it has the host's address.
THEOREM ServerHasTheNameHolds == ServerSpec => []ServerHasTheName
<1>1. ServerInit => ServerInv
  <2> SUFFICES ASSUME ServerInit PROVE ServerInv
    OBVIOUS
  <2>1. index = 1 /\ 1..(index - 1) = {} /\ matched = FALSE /\ verdict = "none"
    BY DEF ServerInit
  <2> QED
    <3>1. index \in 1..(Len(Alternatives) + 1)
      BY <2>1, NamesAreTexts DEF ServerInit
    <3> QED
      BY <2>1, <3>1 DEF ServerInit, ServerInv
<1>2. ServerInv => ServerHasTheName
  <2> SUFFICES ASSUME ServerInv, verdict # "none" PROVE ServerHasTheName
    BY DEF ServerHasTheName
  <2> DEFINE names == ToSet(Alternatives)
             covering == {n \in AlternativeNames : Covering(n.name, host.name)}
  <2>0. /\ names = {Alternatives[i] : i \in DOMAIN Alternatives}
        /\ AlternativeNames = {n \in names : n.type = "DNS"}
    BY DEF ToSet, AlternativeNames, Alternatives
  <2>1. host.type = "DNS" => (verdict = "accepted" <=> covering # {} \/ CommonCovers)
    <3> SUFFICES ASSUME host.type = "DNS" PROVE matched <=> covering # {}
      BY DEF ServerInv
    <3>1. matched => covering # {}
      BY <2>0, NamesAreTexts DEF ServerInv
    <3>2. ASSUME covering # {}, ~matched PROVE FALSE
      <4>1. index = Len(Alternatives) + 1
        BY <3>2, NamesAreTexts DEF ServerInv, More, Alternatives
      <4> QED
        BY <2>0, <3>2, <4>1, NamesAreTexts DEF ServerInv
    <3> QED
      BY <3>1, <3>2 DEF ServerInv
  <2>2. host \in names => verdict = "accepted"
    <3> SUFFICES ASSUME host \in names, ~matched PROVE FALSE
      BY DEF ServerInv
    <3>1. index = Len(Alternatives) + 1
      BY NamesAreTexts DEF ServerInv, More, Alternatives
    <3> QED
      BY <2>0, <3>1, NamesAreTexts DEF ServerInv
  <2>3. host.name \in Seq(STRING) /\ \A n \in AlternativeNames : n.name \in Seq(STRING)
    BY <2>0, NamesAreTexts DEF ServerInv
  <2>4. \A c \in CommonNames : c \in Seq(STRING)
    BY NamesAreTexts DEF ServerInv, CommonNames
  <2>5. CommonCovers <=> \E c \in CommonNames : Covering(c, host.name)
    BY DEF CommonCovers, CommonNames
  <2> HIDE DEF names
  <2>6. ASSUME host.type = "DNS", verdict = "accepted"
        PROVE IdentityCovers \/ (AlternativeNames # {} /\ \E c \in CommonNames : Covers(c))
    <3>1. CASE CommonCovers
      BY <2>3, <2>4, <2>5, <3>1, CoveringCovers DEF IdentityCovers
    <3>2. CASE covering # {}
      BY <2>3, <3>2, CoveringCovers DEF IdentityCovers
    <3> QED
      BY <2>1, <2>6, <3>1, <3>2
  <2>7. ASSUME host.type = "DNS", verdict = "refused",
               NEW n \in {a.name : a \in AlternativeNames} \cup CommonNames, Covers(n)
        PROVE HasFragmentStar(n)
    <3>1. n \in Seq(STRING)
      BY <2>3, <2>4
    <3>2. ~Covering(n, host.name)
      BY <2>1, <2>5, <2>7
    <3> QED
      BY <2>3, <2>7, <3>1, <3>2, CoveringCovers
  <2> QED
    BY <2>2, <2>6, <2>7 DEF ServerHasTheName, Alternatives, names
<1> QED
  BY <1>1, <1>2, ServerStep, PTL DEF ServerSpec

================================================================================
