---------------------------- MODULE AnswersProofs ----------------------------
(***************************************************************************)
(* What the client makes of the documents of hawkBit, for every value of   *)
(* the constants: when a document is refused or aborts the process, how    *)
(* long the client sleeps, and that a deployment is handed over whole.     *)
(***************************************************************************)
EXTENDS Messages, WellFoundedInduction, SequenceTheorems, TLAPS

(***************************************************************************)
(* Checks made in order: what the outcome says of those that fail.         *)
(***************************************************************************)
LEMMA LeastOf == ASSUME NEW T, T \subseteq Nat, T # {} PROVE \E m \in T : \A k \in T : m <= k
<1>1. IsWellFoundedOn(OpToRel(<, Nat), Nat)
  BY NatLessThanWellFounded
<1>2. PICK m \in T : \A k \in T : ~(<< k, m >> \in OpToRel(<, Nat))
  BY <1>1, WFMin
<1>3. \A k \in T : ~(k < m)
  BY <1>2, Zenon DEF OpToRel
<1> QED
  BY <1>3

\* The outcome of checks: that of one that fails, all before it being met, or that all are met.
LEMMA FirstOfIs ==
  ASSUME NEW checks, Len(checks) \in Nat
  PROVE \/ FirstOf(checks) = "parsed" /\ \A i \in 1..Len(checks) : ~checks[i][1]
        \/ \E i \in 1..Len(checks) :
             /\ checks[i][1] /\ FirstOf(checks) = checks[i][2]
             /\ \A j \in 1..(i - 1) : ~checks[j][1]
<1> DEFINE I == {i \in 1..Len(checks) : checks[i][1]}
           n == IF I # {} THEN Min(I) ELSE 0
<1>1. FirstOf(checks) = IF n = 0 THEN "parsed" ELSE checks[n][2]
  BY DEF FirstOf, SelectInSeq
<1>2. CASE I = {}
  <2>1. \A i \in 1..Len(checks) : ~checks[i][1]
    BY <1>2, Zenon
  <2>2. n = 0
    BY <1>2
  <2> HIDE DEF n
  <2> QED
    BY <1>1, <2>1, <2>2
<1>3. CASE I # {}
  <2>1. I \subseteq Nat
    OBVIOUS
  <2>2. PICK m \in I : \A k \in I : m <= k
    BY <1>3, <2>1, LeastOf
  <2>3. \A k \in I : Min(I) <= k /\ Min(I) \in I
    BY <2>2, Zenon DEF Min
  <2>4. n \in I /\ \A k \in I : n <= k
    BY <1>3, <2>2, <2>3, Zenon
  <2>5. \A j \in 1..(n - 1) : j \in 1..Len(checks) /\ j \notin I
    <3> HIDE DEF n
    <3> QED
      BY <2>1, <2>4
  <2>6. n \in 1..Len(checks) /\ checks[n][1] /\ n # 0
    <3>1. n \in 1..Len(checks) /\ checks[n][1]
      BY <2>4, Zenon
    <3> HIDE DEF n, I
    <3> QED
      BY <3>1
  <2>7. \A j \in 1..(n - 1) : ~checks[j][1]
    BY <2>5, Zenon
  <2> HIDE DEF n, I
  <2>8. FirstOf(checks) = checks[n][2]
    BY <1>1, <2>6
  <2> QED
    BY <2>6, <2>7, <2>8, Zenon
<1> QED
  BY <1>2, <1>3, Zenon

LEMMA Failing ==
  ASSUME NEW checks, NEW n \in Nat, Len(checks) = n
  PROVE /\ FirstOf(checks) = "asserted" => \E i \in 1..n : checks[i][1] /\ checks[i][2] = "asserted"
        /\ (\A i \in 1..n : checks[i][2] # "parsed") =>
             (FirstOf(checks) = "parsed" <=> \A i \in 1..n : ~checks[i][1])
<1>1. \/ FirstOf(checks) = "parsed" /\ \A i \in 1..n : ~checks[i][1]
      \/ \E i \in 1..n : checks[i][1] /\ FirstOf(checks) = checks[i][2]
  BY FirstOfIs
<1> QED
  BY <1>1, Zenon

LEMMA ParseCancelIs ==
  ASSUME NEW c, ParseCancel(c) = "asserted" PROVE WrongCancel(c)
<1> DEFINE checks ==
          << << c.json = "noJson", "refused" >>,
             << c.json = "otherType", "asserted" >>,
             << c.id = "absent" \/ c.cancelAction = "absent", "refused" >>,
             << c.cancelAction = "wrong", "asserted" >>,
             << c.stopId = "absent", "refused" >>,
             << c.stopId = "wrong", "asserted" >>,
             << c.stopId = "text", "notANumber" >>,
             << c.id = "wrong", "asserted" >>,
             << c.id = "text", "notANumber" >> >>
<1>1. Len(checks) = 9
  OBVIOUS
<1>2. ParseCancel(c) = FirstOf(checks)
  BY DEF ParseCancel
<1>3. \A i \in 1..9 : checks[i][2] = "asserted" => i \in {2, 4, 6, 8}
  OBVIOUS
<1>4. /\ checks[2][1] = (c.json = "otherType") /\ checks[4][1] = (c.cancelAction = "wrong")
      /\ checks[6][1] = (c.stopId = "wrong") /\ checks[8][1] = (c.id = "wrong")
  OBVIOUS
<1> HIDE DEF checks
<1>5. PICK i \in 1..9 : checks[i][1] /\ checks[i][2] = "asserted"
  BY <1>1, <1>2, Failing
<1>6. i \in {2, 4, 6, 8}
  BY <1>3, <1>5
<1> QED
  BY <1>4, <1>5, <1>6 DEF WrongCancel

--------------------------------------------------------------------------------
IsConcat(u, s, t, m, n) ==
  Len(u) = m + n /\ (\A i \in 1..m : u[i] = s[i]) /\ \A i \in 1..n : u[m + i] = t[i]

LEMMA ConcatIs ==
  ASSUME NEW S, NEW s \in Seq(S), NEW t \in Seq(S), NEW m \in Nat, NEW n \in Nat, Len(s) = m, Len(t) = n
  PROVE s \o t \in Seq(S) /\ IsConcat(s \o t, s, t, m, n)
  BY DEF IsConcat

LEMMA SixInARow ==
  ASSUME NEW b, NEW c, NEW d, NEW e, NEW f, NEW g
  PROVE << b, c, d >> \o << e, f >> \o << g >> = << b, c, d, e, f, g >>
<1> DEFINE U == {b, c, d, e, f, g}
           x == << b, c, d >>
           y == << e, f >>
           z == << g >>
           s == << b, c, d, e, f, g >>
<1>1. /\ x \in Seq(U) /\ Len(x) = 3 /\ x[1] = b /\ x[2] = c /\ x[3] = d
      /\ y \in Seq(U) /\ Len(y) = 2 /\ y[1] = e /\ y[2] = f
      /\ z \in Seq(U) /\ Len(z) = 1 /\ z[1] = g
      /\ s \in Seq(U) /\ Len(s) = 6
      /\ s[1] = b /\ s[2] = c /\ s[3] = d /\ s[4] = e /\ s[5] = f /\ s[6] = g
  OBVIOUS
<1> HIDE DEF U, x, y, z, s
<1> DEFINE xy == x \o y
<1>2. /\ xy \in Seq(U) /\ Len(xy) = 5
      /\ xy[1] = b /\ xy[2] = c /\ xy[3] = d /\ xy[4] = e /\ xy[5] = f
  <2>0. 3 \in Nat /\ 2 \in Nat
    OBVIOUS
  <2>1. xy \in Seq(U) /\ IsConcat(xy, x, y, 3, 2)
    BY <1>1, <2>0, ConcatIs, Zenon
  <2> HIDE DEF xy
  <2>2. /\ Len(xy) = 5
        /\ xy[1] = x[1] /\ xy[2] = x[2] /\ xy[3] = x[3] /\ xy[3 + 1] = y[1] /\ xy[3 + 2] = y[2]
    BY <2>1 DEF IsConcat
  <2> QED
    BY <1>1, <2>1, <2>2
<1> HIDE DEF xy
<1> DEFINE xyz == xy \o z
<1>3. /\ xyz \in Seq(U) /\ Len(xyz) = 6
      /\ xyz[1] = b /\ xyz[2] = c /\ xyz[3] = d /\ xyz[4] = e /\ xyz[5] = f /\ xyz[6] = g
  <2>0. 5 \in Nat /\ 1 \in Nat
    OBVIOUS
  <2>1. xyz \in Seq(U) /\ IsConcat(xyz, xy, z, 5, 1)
    BY <1>1, <1>2, <2>0, ConcatIs, Zenon
  <2> HIDE DEF xyz
  <2>2. /\ Len(xyz) = 6
        /\ xyz[1] = xy[1] /\ xyz[2] = xy[2] /\ xyz[3] = xy[3] /\ xyz[4] = xy[4] /\ xyz[5] = xy[5]
        /\ xyz[5 + 1] = z[1]
    BY <2>1 DEF IsConcat
  <2> QED
    BY <1>1, <1>2, <2>1, <2>2
<1> HIDE DEF xyz
<1>4. \A i \in 1..Len(s) : xyz[i] = s[i]
  <2>1. \A i \in 1..6 : i \in {1, 2, 3, 4, 5, 6}
    OBVIOUS
  <2> QED
    BY <1>1, <1>3, <2>1
<1>5. xyz = s
  <2>1. xyz \in Seq(U) /\ s \in Seq(U) /\ Len(xyz) = Len(s)
    BY <1>1, <1>3
  <2> QED
    BY <1>4, <2>1, SeqEqual, Zenon
<1> QED
  BY <1>5 DEF xyz, xy, x, y, z, s

LEMMA ParsePollIs ==
  ASSUME NEW p, ParsePoll(p) = "asserted" PROVE WrongPoll(p)
<1> DEFINE first ==
          << << p.json = "noJson", "refused" >>,
             << p.json = "otherType", "asserted" >>,
             << p.sleep.is = "wrong", "asserted" >>,
             << p.sleep.is = "noTime", "refused" >>,
             << p.linksAre = "wrong", "asserted" >> >>
           checks == first \o IF p.linksAre = "there" /\ p.links # {} THEN HrefOf(p.href) ELSE << >>
<1>1. ParsePoll(p) = FirstOf(checks)
  BY DEF ParsePoll
<1>2. /\ Len(first) = 5 /\ first \in Seq({first[i] : i \in 1..5})
      /\ \A i \in 1..5 : first[i][2] = "asserted" => i \in {2, 3, 5}
      /\ first[2][1] = (p.json = "otherType") /\ first[3][1] = (p.sleep.is = "wrong")
      /\ first[5][1] = (p.linksAre = "wrong")
  OBVIOUS
<1> DEFINE second == HrefOf(p.href)
<1>3. /\ Len(second) = 2 /\ second \in Seq({second[i] : i \in 1..2})
      /\ \A i \in 1..2 : second[i][2] = "asserted" => i = 1
      /\ second[1][1] = (p.href \in {"absent", "wrong"})
  BY DEF HrefOf
<1> DEFINE All == {first[i] : i \in 1..5} \cup {second[i] : i \in 1..2}
<1>8. first \in Seq(All) /\ second \in Seq(All)
  <2> HIDE DEF first, second
  <2>1. {first[i] : i \in 1..5} \subseteq All /\ {second[i] : i \in 1..2} \subseteq All
    OBVIOUS
  <2> HIDE DEF All
  <2> QED
    BY <1>2, <1>3, <2>1, SeqMonotonic
<1> HIDE DEF first, second, All
<1>4. /\ Len(checks) \in 5..7
      /\ \A i \in 1..Len(checks) : checks[i] = IF i <= 5 THEN first[i] ELSE second[i - 5]
  <2>1. CASE p.linksAre = "there" /\ p.links # {}
    <3>1. checks = first \o second
      BY <2>1 DEF second
    <3> QED
      <4> HIDE DEF checks
      <4>0. 5 \in Nat /\ 2 \in Nat
        OBVIOUS
      <4>1. IsConcat(checks, first, second, 5, 2)
        BY <1>2, <1>3, <1>8, <3>1, <4>0, ConcatIs, Zenon
      <4>2. \A i \in 1..7 : i > 5 => i - 5 \in 1..2 /\ i = 5 + (i - 5)
        OBVIOUS
      <4>3. Len(checks) = 7
        BY <4>1 DEF IsConcat
      <4>4. \A i \in 1..7 : checks[i] = IF i <= 5 THEN first[i] ELSE second[i - 5]
        BY <4>1, <4>2 DEF IsConcat
      <4> QED
        BY <4>3, <4>4
  <2>2. CASE ~(p.linksAre = "there" /\ p.links # {})
    <3>1. checks = first \o << >>
      BY <2>2
    <3> QED
      <4> HIDE DEF checks
      <4>1. checks = first
        BY <1>8, <3>1
      <4>2. \A i \in 1..5 : i <= 5
        OBVIOUS
      <4>3. Len(checks) = 5
        BY <1>2, <4>1
      <4> QED
        BY <4>1, <4>2, <4>3
  <2> QED
    BY <2>1, <2>2
<1> HIDE DEF checks
<1>5. PICK i \in 1..Len(checks) : checks[i][1] /\ checks[i][2] = "asserted"
  BY <1>1, <1>4, FirstOfIs
<1>6. CASE i <= 5
  <2>1. i \in {2, 3, 5} /\ first[i][1]
    BY <1>2, <1>4, <1>5, <1>6
  <2> QED
    BY <1>2, <2>1 DEF WrongPoll
<1>7. CASE i > 5
  <2>1. i <= Len(checks) /\ checks[i] = second[i - 5] /\ i \in Nat
    BY <1>4, <1>5, <1>7
  <2>2. second[i - 5][1] /\ second[i - 5][2] = "asserted"
    BY <1>5, <2>1
  <2>3. i - 5 \in 1..2
    BY <1>4, <1>7, <2>1
  <2>4. i - 5 = 1 /\ second[1][1]
    BY <1>3, <2>2, <2>3
  <2> QED
    BY <1>3, <2>4 DEF WrongPoll
<1> QED
  BY <1>4, <1>6, <1>7

SoundHeaderIs(d) ==
  /\ d.json = "object" /\ d.id = "number"
  /\ {d.deployment, d.update, d.download, d.chunksAre} = {"there"}
  /\ d.window # "wrong"

LEMMA ParseHeaderIs ==
  ASSUME NEW d \in Headers
  PROVE /\ ParseHeader(d) = "parsed" <=> SoundHeaderIs(d)
        /\ ParseHeader(d) = "asserted" => WrongHeader(d)
<1> DEFINE checks ==
          << << d.json = "noJson", "refused" >>,
             << d.json = "otherType", "asserted" >>,
             << d.id = "absent" \/ d.deployment = "absent", "refused" >>,
             << d.deployment = "wrong", "asserted" >>,
             << "absent" \in {d.update, d.download, d.chunksAre}, "refused" >>,
             << d.id = "wrong", "asserted" >>,
             << d.id = "text", "notANumber" >>,
             << "wrong" \in {d.update, d.download, d.window, d.chunksAre}, "asserted" >> >>
<1>1. ParseHeader(d) = FirstOf(checks) /\ Len(checks) = 8
  BY DEF ParseHeader
<1>2. \A i \in 1..8 : checks[i][2] # "parsed" /\ (checks[i][2] = "asserted" => i \in {2, 4, 6, 8})
  OBVIOUS
<1>3. /\ checks[1][1] = (d.json = "noJson") /\ checks[2][1] = (d.json = "otherType")
      /\ checks[3][1] = (d.id = "absent" \/ d.deployment = "absent")
      /\ checks[4][1] = (d.deployment = "wrong")
      /\ checks[5][1] = ("absent" \in {d.update, d.download, d.chunksAre})
      /\ checks[6][1] = (d.id = "wrong") /\ checks[7][1] = (d.id = "text")
      /\ checks[8][1] = ("wrong" \in {d.update, d.download, d.window, d.chunksAre})
  OBVIOUS
<1> HIDE DEF checks
<1>4. SoundHeaderIs(d) <=> \A i \in 1..8 : ~checks[i][1]
  <2>1. /\ d.json \in Json /\ d.id \in Strings /\ d.deployment \in Objects /\ d.update \in Objects
        /\ d.download \in Objects /\ d.chunksAre \in Objects
    BY DEF Headers
  <2>2. (\A i \in 1..8 : ~checks[i][1]) <=>
          /\ ~checks[1][1] /\ ~checks[2][1] /\ ~checks[3][1] /\ ~checks[4][1]
          /\ ~checks[5][1] /\ ~checks[6][1] /\ ~checks[7][1] /\ ~checks[8][1]
    <3>1. 1..8 = {1, 2, 3, 4, 5, 6, 7, 8}
      OBVIOUS
    <3> QED
      BY <3>1, Zenon
  <2>3. {d.deployment, d.update, d.download, d.chunksAre} = {"there"} <=>
          d.deployment = "there" /\ d.update = "there" /\ d.download = "there" /\ d.chunksAre = "there"
    OBVIOUS
  <2> QED
    BY <1>3, <2>1, <2>2, <2>3 DEF SoundHeaderIs, Json, Strings, Objects
<1>5. ParseHeader(d) = "parsed" <=> \A i \in 1..8 : ~checks[i][1]
  <2>1. 8 \in Nat /\ Len(checks) = 8 /\ \A i \in 1..8 : checks[i][2] # "parsed"
    BY <1>1, <1>2
  <2> QED
    BY <1>1, <2>1, Failing, Zenon
<1>6. ASSUME ParseHeader(d) = "asserted" PROVE WrongHeader(d)
  <2>1. PICK i \in 1..8 : checks[i][1] /\ checks[i][2] = "asserted"
    <3>1. 8 \in Nat /\ Len(checks) = 8
      BY <1>1
    <3> QED
      BY <1>1, <1>6, <3>1, Failing, Zenon
  <2>2. i \in {2, 4, 6, 8}
    BY <1>2, <2>1
  <2> QED
    BY <1>3, <2>1, <2>2 DEF WrongHeader
<1> QED
  BY <1>4, <1>5, <1>6

LEMMA ParseChunkIs ==
  ASSUME NEW c \in Chunks
  PROVE /\ ParseChunk(c) = "parsed" <=> c.is = "there"
        /\ ParseChunk(c) = "asserted" => c.is \in {"wrong", "wrongMember"}
<1> DEFINE checks ==
          << << c.is = "wrong", "asserted" >>,
             << c.is = "missing", "refused" >>,
             << c.is = "wrongMember", "asserted" >> >>
<1>1. ParseChunk(c) = FirstOf(checks) /\ Len(checks) = 3
  BY DEF ParseChunk
<1>2. /\ \A i \in 1..3 : checks[i][2] # "parsed" /\ (checks[i][2] = "asserted" => i \in {1, 3})
      /\ checks[1][1] = (c.is = "wrong") /\ checks[2][1] = (c.is = "missing")
      /\ checks[3][1] = (c.is = "wrongMember")
  OBVIOUS
<1> HIDE DEF checks
<1>3. c.is \in {"there", "wrong", "missing", "wrongMember"}
  BY DEF Chunks
<1>4. (\A i \in 1..3 : ~checks[i][1]) <=> ~checks[1][1] /\ ~checks[2][1] /\ ~checks[3][1]
  <2>1. 1..3 = {1, 2, 3}
    OBVIOUS
  <2> QED
    BY <2>1, Zenon
<1>5. c.is = "there" <=> \A i \in 1..3 : ~checks[i][1]
  BY <1>2, <1>3, <1>4
<1>6. ParseChunk(c) = "parsed" <=> \A i \in 1..3 : ~checks[i][1]
  <2>1. 3 \in Nat /\ Len(checks) = 3 /\ \A i \in 1..3 : checks[i][2] # "parsed"
    BY <1>1, <1>2
  <2> QED
    BY <1>1, <2>1, Failing, Zenon
<1>7. ASSUME ParseChunk(c) = "asserted" PROVE c.is \in {"wrong", "wrongMember"}
  <2>1. PICK i \in 1..3 : checks[i][1] /\ checks[i][2] = "asserted"
    <3>1. 3 \in Nat /\ Len(checks) = 3
      BY <1>1
    <3> QED
      BY <1>1, <1>7, <3>1, Failing, Zenon
  <2>2. i \in {1, 3}
    BY <1>2, <2>1
  <2> QED
    BY <1>2, <2>1, <2>2
<1> QED
  BY <1>5, <1>6, <1>7

LEMMA ParseArtifactIs ==
  ASSUME NEW a \in Artifacts
  PROVE /\ ParseArtifact(a) = "parsed" <=> SoundArtifact(a)
        /\ ParseArtifact(a) = "asserted" => WrongArtifact(a)
<1> DEFINE checks ==
          << << a.is = "wrong", "asserted" >>,
             << a.is = "missing" \/ a.links = {}, "refused" >>,
             << a.is \in {"wrongMember", "over2GiB"}, "asserted" >>,
             << a.href \in {"absent", "wrong"}, "asserted" >>,
             << a.href = "notUri", "refused" >>,
             << a.is = "wrongHash", "asserted" >> >>
<1>1. ParseArtifact(a) = FirstOf(checks) /\ Len(checks) = 6
  <2>1. ParseArtifact(a) = FirstOf(checks)
    <3>1. HrefOf(a.href) =
            << << a.href \in {"absent", "wrong"}, "asserted" >>, << a.href = "notUri", "refused" >> >>
      BY Zenon DEF HrefOf
    <3> DEFINE b == << a.is = "wrong", "asserted" >>
               c == << a.is = "missing" \/ a.links = {}, "refused" >>
               d == << a.is \in {"wrongMember", "over2GiB"}, "asserted" >>
               e == << a.href \in {"absent", "wrong"}, "asserted" >>
               f == << a.href = "notUri", "refused" >>
               g == << a.is = "wrongHash", "asserted" >>
    <3>2. ParseArtifact(a) = FirstOf(<< b, c, d >> \o << e, f >> \o << g >>)
      BY <3>1, Zenon DEF ParseArtifact
    <3>3. checks = << b, c, d, e, f, g >>
      BY Zenon
    <3>4. << b, c, d >> \o << e, f >> \o << g >> = << b, c, d, e, f, g >>
      BY SixInARow
    <3> DEFINE six == << b, c, d, e, f, g >>
               parts == << b, c, d >> \o << e, f >> \o << g >>
    <3>5. ParseArtifact(a) = FirstOf(parts) /\ checks = six /\ parts = six
      BY <3>2, <3>3, <3>4, Zenon
    <3> HIDE DEF six, parts, checks
    <3> QED
      BY <3>5
  <2> QED
    BY <2>1
<1>2. /\ \A i \in 1..6 : checks[i][2] # "parsed" /\ (checks[i][2] = "asserted" => i \in {1, 3, 4, 6})
      /\ checks[1][1] = (a.is = "wrong") /\ checks[2][1] = (a.is = "missing" \/ a.links = {})
      /\ checks[3][1] = (a.is \in {"wrongMember", "over2GiB"})
      /\ checks[4][1] = (a.href \in {"absent", "wrong"}) /\ checks[5][1] = (a.href = "notUri")
      /\ checks[6][1] = (a.is = "wrongHash")
  OBVIOUS
<1> HIDE DEF checks
<1>3. /\ a.is \in {"there", "missing", "wrong", "wrongMember", "wrongHash", "over2GiB"}
      /\ a.href \in {"absent", "wrong", "notUri", "uri"}
  BY ArtifactsAssumption DEF Hrefs
<1>4. (\A i \in 1..6 : ~checks[i][1]) <=>
        /\ ~checks[1][1] /\ ~checks[2][1] /\ ~checks[3][1]
        /\ ~checks[4][1] /\ ~checks[5][1] /\ ~checks[6][1]
  <2>1. 1..6 = {1, 2, 3, 4, 5, 6}
    OBVIOUS
  <2> QED
    BY <2>1, Zenon
<1>5. SoundArtifact(a) <=> \A i \in 1..6 : ~checks[i][1]
  BY <1>2, <1>3, <1>4 DEF SoundArtifact
<1>6. ParseArtifact(a) = "parsed" <=> \A i \in 1..6 : ~checks[i][1]
  <2>1. 6 \in Nat /\ Len(checks) = 6 /\ \A i \in 1..6 : checks[i][2] # "parsed"
    BY <1>1, <1>2
  <2> QED
    BY <1>1, <2>1, Failing, Zenon
<1>7. ASSUME ParseArtifact(a) = "asserted" PROVE WrongArtifact(a)
  <2>1. PICK i \in 1..6 : checks[i][1] /\ checks[i][2] = "asserted"
    <3>1. 6 \in Nat /\ Len(checks) = 6
      BY <1>1
    <3> QED
      BY <1>1, <1>7, <3>1, Failing, Zenon
  <2>2. i \in {1, 3, 4, 6}
    BY <1>2, <2>1
  <2> QED
    BY <1>2, <2>1, <2>2 DEF WrongArtifact
<1> QED
  BY <1>5, <1>6, <1>7

\* The 32 bits hold what fits into them.  Zenon is kept from numbers of that size.
MaxInt == 2147483647
MinInt == -2147483648
MaxSeconds == 2147483

LEMMA Int32Exact ==
  ASSUME NEW high \in Int, NEW low \in Int, MinInt <= high * Word + low, high * Word + low <= MaxInt
  PROVE Int32(high, low) = high * Word + low
<1> DEFINE q == low \div Word
           r == low % Word
           k == high + q
           w == k % Word
           v == high * Word + low
<1>1. q \in Int /\ r \in Int /\ 0 <= r /\ r < Word /\ low = q * Word + r
  BY SMT DEF Word
<1>2. Int32(high, low) = (IF 2 * w >= Word THEN w - Word ELSE w) * Word + r
  BY SMT DEF Int32
<1>3. v \in Int /\ v = k * Word + r /\ k \in Int
  BY SMT, <1>1 DEF Word
<1>4. k < 0 => w = k + Word /\ 2 * w >= Word
  <2> SUFFICES ASSUME k < 0 PROVE w = k + Word /\ 2 * w >= Word
    BY SMT
  <2>1. -32768 <= k
    BY SMT, <1>1, <1>3 DEF Word, MinInt
  <2> QED
    BY SMT, <1>3, <2>1 DEF Word
<1>5. ~(k < 0) => w = k /\ ~(2 * w >= Word)
  <2> SUFFICES ASSUME ~(k < 0) PROVE w = k /\ ~(2 * w >= Word)
    BY SMT
  <2>1. k <= 32767
    BY SMT, <1>1, <1>3 DEF Word, MaxInt
  <2> QED
    BY SMT, <1>3, <2>1 DEF Word
<1> HIDE DEF q, r, k, w
<1> QED
  BY SMT, <1>1, <1>2, <1>3, <1>4, <1>5 DEF Word

LEMMA Parts ==
  ASSUME NEW a \in Nat
  PROVE a \div Word \in Nat /\ a % Word \in Nat /\ a = (a \div Word) * Word + (a % Word)
  BY SMT DEF Word

LEMMA Plus32Exact ==
  ASSUME NEW a \in Nat, NEW b \in Nat, a + b <= MaxInt PROVE Plus32(a, b) = a + b
<1> DEFINE high == (a \div Word) + (b \div Word)
           low == (a % Word) + (b % Word)
<1>1. /\ a \div Word \in Nat /\ a % Word \in Nat /\ a = (a \div Word) * Word + (a % Word)
      /\ b \div Word \in Nat /\ b % Word \in Nat /\ b = (b \div Word) * Word + (b % Word)
  BY SMT, Parts
<1>2. high \in Int /\ low \in Int /\ high * Word + low = a + b
  BY SMT, <1>1 DEF Word
<1>3. Plus32(a, b) = Int32(high, low)
  BY SMT DEF Plus32
<1>4. MinInt <= a + b
  BY SMT DEF MinInt
<1> HIDE DEF high, low
<1> QED
  BY SMT, <1>2, <1>3, <1>4, Int32Exact

LEMMA Times32Exact ==
  ASSUME NEW a \in Nat, NEW b \in {60, 1000, 3600}, a * b <= MaxInt PROVE Times32(a, b) = a * b
<1> DEFINE x == a \div Word
           y == a % Word
           high == x * b
           low == y * b
<1>1. x \in Nat /\ y \in Nat /\ a = x * Word + y
  BY SMT, Parts
<1>2. Times32(a, b) = Int32(high, low)
  BY SMT DEF Times32
<1> HIDE DEF x, y
<1>3. high \in Int /\ low \in Int /\ high * Word + low = a * b /\ a * b \in Int /\ 0 <= a * b
  <2>1. CASE b = 60
    BY SMT, <1>1, <2>1 DEF Word
  <2>2. CASE b = 1000
    BY SMT, <1>1, <2>2 DEF Word
  <2>3. CASE b = 3600
    BY SMT, <1>1, <2>3 DEF Word
  <2> QED
    BY SMT, <2>1, <2>2, <2>3
<1>4. MinInt <= a * b
  BY SMT, <1>3 DEF MinInt
<1> HIDE DEF high, low
<1> QED
  BY SMT, <1>2, <1>3, <1>4, Int32Exact

LEMMA IntervalIsAsked ==
  ASSUME NEW t \in Exact
  PROVE AskedFor(t) \in Nat /\ Times32(Seconds(t), 1000) = AskedFor(t) * 1000
<1> DEFINE h == t.h
           m == t.m
           s == t.s
           all == h * 3600 + m * 60 + s
<1>1. h \in 0..596 /\ m \in 0..59 /\ s \in 0..59 /\ all <= MaxSeconds
  BY SMT DEF Exact, AskedFor, MaxSeconds
<1>2. AskedFor(t) = all
  BY SMT DEF AskedFor
<1>3. Seconds(t) = Plus32(Plus32(Times32(h, 3600), Times32(m, 60)), s)
  BY SMT DEF Seconds
<1> HIDE DEF h, m, s
<1>4. /\ h \in Nat /\ m \in Nat /\ s \in Nat /\ h * 3600 \in Nat /\ m * 60 \in Nat /\ all \in Nat
      /\ h * 3600 + m * 60 \in Nat
  BY SMT, <1>1
<1>5. h * 3600 <= MaxInt /\ m * 60 <= MaxInt /\ h * 3600 + m * 60 <= MaxInt /\ all <= MaxInt
  BY SMT, <1>1, <1>4 DEF MaxInt, MaxSeconds
<1>6. all * 1000 <= MaxInt
  BY SMT, <1>1, <1>4 DEF MaxInt, MaxSeconds
<1>7. Times32(h, 3600) = h * 3600 /\ Times32(m, 60) = m * 60
  BY SMT, <1>4, <1>5, Times32Exact
<1>8. Plus32(h * 3600, m * 60) = h * 3600 + m * 60
  BY SMT, <1>4, <1>5, Plus32Exact
<1>9. Plus32(h * 3600 + m * 60, s) = all
  BY SMT, <1>4, <1>5, Plus32Exact
<1>10. Seconds(t) = all
  BY SMT, <1>3, <1>7, <1>8, <1>9
<1> HIDE DEF all
<1> QED
  BY SMT, <1>2, <1>4, <1>6, <1>10, Times32Exact

--------------------------------------------------------------------------------
(***************************************************************************)
(* What has been read of a deployment is sound, and so are its links.      *)
(***************************************************************************)
Phases == {"idle", "cancelAction", "deploymentBase", "chunk", "artifact", "handler", "failed", "aborted"}

SoundChunk(c) == c.is = "there" /\ \A j \in DOMAIN c.artifacts : SoundArtifact(c.artifacts[j])
LinksOf(c) == [j \in DOMAIN c.artifacts |-> LinkOf(c.artifacts[j])]

NothingRead == document = NoDocument /\ chunk = 0 /\ artifact = 0 /\ chunks = << >>

ReadingChunks ==
  /\ document.kind = "deploymentBase"
  /\ document.header \in Headers /\ SoundHeaderIs(document.header)
  /\ document.chunks \in Seq(Chunks)
  /\ chunk \in 0..Len(document.chunks)
  /\ \A i \in 1..chunk : SoundChunk(document.chunks[i])

ReadingArtifacts ==
  LET c == document.chunks[chunk + 1]
  IN /\ chunk < Len(document.chunks) /\ c.is = "there"
     /\ artifact \in 0..Len(c.artifacts)
     /\ \A j \in 1..artifact : SoundArtifact(c.artifacts[j])
     /\ chunks = [i \in 1..(chunk + 1) |->
                   IF i <= chunk THEN LinksOf(document.chunks[i])
                   ELSE [j \in 1..artifact |-> LinkOf(c.artifacts[j])]]

MessagesInv ==
  /\ phase \in Phases
  /\ phase \notin {"idle", "failed", "aborted"} => answer \in Polls /\ interval = IntervalOf(answer)
  /\ phase \in {"idle", "cancelAction", "deploymentBase"} => NothingRead
  /\ phase \in {"chunk", "artifact"} => ReadingChunks
  /\ phase = "chunk" => artifact = 0 /\ chunks = [i \in 1..chunk |-> LinksOf(document.chunks[i])]
  /\ phase = "artifact" => ReadingArtifacts
  /\ DeploymentIsComplete
  /\ AbortsOnlyOnWrongTypes

LEMMA BoundedSeqIsSeq == ASSUME NEW S, NEW n PROVE BoundedSeq(S, n) \subseteq Seq(S)
<1>1. \A m \in 0..n : [1..m -> S] \subseteq Seq(S)
  <2> TAKE m \in 0..n
  <2>1. m \in Nat
    OBVIOUS
  <2> QED
    BY <2>1, IsASeq
<1> QED
  BY <1>1 DEF BoundedSeq, SeqOf

LEMMA ArtifactsOfChunk == ASSUME NEW c \in Chunks PROVE c.artifacts \in Seq(Artifacts)
<1>1. c.artifacts \in BoundedSeq(Artifacts, MaxArtifacts)
  BY DEF Chunks
<1> QED
  BY <1>1, BoundedSeqIsSeq

LEMMA ActionOf == ASSUME NEW p \in Polls PROVE Action(p) \in {"none"} \cup Links
<1>1. p.links \in SUBSET Links
  BY DEF Polls
<1>2. CASE "configData" \notin p.links /\ "cancelAction" \notin p.links
  <2>1. p.links = {} \/ p.links = {"deploymentBase"}
    BY <1>1, <1>2 DEF Links
  <2> QED
    BY <1>2, <2>1 DEF Action, Links
<1>3. CASE "configData" \in p.links \/ "cancelAction" \in p.links
  <2>1. p.links # {} /\ p.links # {"deploymentBase"}
    BY <1>3
  <2> QED
    BY <1>3, <2>1 DEF Action, Links
<1> QED
  BY <1>2, <1>3

LEMMA MessagesInit == Init => MessagesInv
<1> SUFFICES ASSUME Init PROVE MessagesInv
  OBVIOUS
<1>1. phase = "idle" /\ NothingRead /\ document.kind = "none"
  BY DEF Init, NothingRead, NoDocument
<1> QED
  BY <1>1 DEF MessagesInv, Phases, DeploymentIsComplete, AbortsOnlyOnWrongTypes

LEMMA PollStep == ASSUME MessagesInv, Poll PROVE MessagesInv'
<1>1. NothingRead /\ answer' \in Polls /\ document.kind = "none"
  BY DEF MessagesInv, Poll, NothingRead, NoDocument
<1>2. NothingRead' /\ document'.kind = "none" /\ DeploymentIsComplete'
  BY <1>1 DEF Poll, NothingRead, DeploymentIsComplete
<1>3. CASE ParsePoll(answer') # "parsed"
  <2>1. phase' = IF ParsePoll(answer') = "asserted" THEN "aborted" ELSE "failed"
    BY <1>3 DEF Poll, Ended
  <2>2. AbortsOnlyOnWrongTypes'
    BY <1>2, <2>1, ParsePollIs DEF AbortsOnlyOnWrongTypes
  <2> QED
    BY <1>2, <2>1, <2>2 DEF MessagesInv, Phases
<1>4. CASE ParsePoll(answer') = "parsed"
  <2>1. /\ interval' = IntervalOf(answer')
        /\ phase' = IF Action(answer') \in {"none", "configData"} THEN "handler" ELSE Action(answer')
    BY <1>4 DEF Poll, Ended
  <2>2. phase' \in {"handler", "cancelAction", "deploymentBase"}
    BY <1>1, <2>1, ActionOf DEF Links
  <2>3. AbortsOnlyOnWrongTypes'
    BY <2>2 DEF AbortsOnlyOnWrongTypes
  <2>4. interval' = IntervalOf(answer)'
    BY <2>1
  <2> QED
    BY <1>1, <1>2, <2>2, <2>3, <2>4 DEF MessagesInv, Phases
<1> QED
  BY <1>3, <1>4

LEMMA CancelStep == ASSUME MessagesInv, FollowCancelAction PROVE MessagesInv'
<1>1. /\ document'.kind = "cancelAction"
      /\ phase' = CASE ParseCancel(document'.header) = "parsed" -> "handler"
                    [] ParseCancel(document'.header) = "asserted" -> "aborted"
                    [] OTHER -> "failed"
      /\ UNCHANGED << answer, interval >> /\ phase = "cancelAction"
  BY DEF FollowCancelAction, Ended
<1>2. phase' \in {"handler", "aborted", "failed"}
  BY <1>1
<1>3. DeploymentIsComplete'
  BY <1>1 DEF DeploymentIsComplete
<1>4. AbortsOnlyOnWrongTypes'
  BY <1>1, ParseCancelIs DEF AbortsOnlyOnWrongTypes
<1>5. answer' \in Polls /\ interval' = IntervalOf(answer)'
  BY <1>1 DEF MessagesInv
<1> QED
  BY <1>2, <1>3, <1>4, <1>5 DEF MessagesInv, Phases

LEMMA SoundDeploymentIs ==
  ASSUME document.chunks \in Seq(Chunks)
  PROVE SoundDeployment(document) <=>
          SoundHeaderIs(document.header) /\ \A i \in 1..Len(document.chunks) : SoundChunk(document.chunks[i])
<1>1. DOMAIN document.chunks = 1..Len(document.chunks)
  OBVIOUS
<1>2. SoundHeaderIs(document.header) <=>
        /\ document.header.json = "object" /\ document.header.id = "number"
        /\ {document.header.deployment, document.header.update, document.header.download,
            document.header.chunksAre} = {"there"}
        /\ document.header.window # "wrong"
  BY Zenon DEF SoundHeaderIs
<1> QED
  BY <1>1, <1>2, Zenon DEF SoundDeployment, SoundChunk

LEMMA DeploymentStep == ASSUME MessagesInv, FollowDeploymentBase PROVE MessagesInv'
<1>1. PICK h \in Headers : \E cs \in IF h = SoundHeader THEN BoundedSeq(Chunks, MaxChunks) ELSE {<< >>} :
        document' = [kind |-> "deploymentBase", header |-> h, chunks |-> cs]
  BY DEF FollowDeploymentBase
<1>2. PICK cs \in IF h = SoundHeader THEN BoundedSeq(Chunks, MaxChunks) ELSE {<< >>} :
        document' = [kind |-> "deploymentBase", header |-> h, chunks |-> cs]
  BY <1>1
<1>3. document'.kind = "deploymentBase" /\ document'.header = h /\ document'.chunks = cs /\ cs \in Seq(Chunks)
  <2>1. cs \in Seq(Chunks)
    <3>1. << >> \in Seq(Chunks) /\ BoundedSeq(Chunks, MaxChunks) \subseteq Seq(Chunks)
      BY EmptySeq, BoundedSeqIsSeq
    <3> QED
      BY <1>2, <3>1
  <2> QED
    BY <1>2, <2>1
<1>4. /\ NothingRead /\ answer' \in Polls /\ interval' = IntervalOf(answer)'
      /\ UNCHANGED << chunk, artifact, chunks >>
  BY DEF FollowDeploymentBase, MessagesInv
<1>5. CASE ParseHeader(h) = "parsed"
  <2>1. phase' = "chunk"
    BY <1>3, <1>5 DEF FollowDeploymentBase
  <2>2. ReadingChunks'
    BY <1>3, <1>4, <1>5, ParseHeaderIs DEF ReadingChunks, NothingRead
  <2>3. artifact' = 0 /\ chunk' = 0 /\ chunks' = << >>
    BY <1>4 DEF NothingRead
  <2>4. << >> = [i \in 1..0 |-> LinksOf(document.chunks[i])']
    OBVIOUS
  <2> QED
    BY <1>4, <2>1, <2>2, <2>3, <2>4 DEF MessagesInv, Phases, DeploymentIsComplete, AbortsOnlyOnWrongTypes
<1>6. CASE ParseHeader(h) # "parsed"
  <2>1. phase' = IF ParseHeader(h) = "asserted" THEN "aborted" ELSE "failed"
    BY <1>3, <1>6 DEF FollowDeploymentBase, Ended
  <2>2. ~SoundHeaderIs(h) /\ (ParseHeader(h) = "asserted" => WrongHeader(h))
    BY <1>6, ParseHeaderIs
  <2>3. DeploymentIsComplete'
    BY <1>3, <2>1, <2>2 DEF DeploymentIsComplete, SoundDeployment, SoundHeaderIs
  <2>4. AbortsOnlyOnWrongTypes'
    BY <1>3, <2>1, <2>2 DEF AbortsOnlyOnWrongTypes
  <2> QED
    BY <2>1, <2>3, <2>4 DEF MessagesInv, Phases
<1> QED
  BY <1>5, <1>6

--------------------------------------------------------------------------------
LEMMA CompletedIs ==
  ASSUME document.chunks \in Seq(Chunks)
  PROVE Completed(document) = [i \in 1..Len(document.chunks) |-> LinksOf(document.chunks[i])]
<1>1. DOMAIN document.chunks = 1..Len(document.chunks)
  OBVIOUS
<1>2. Completed(document) = [i \in DOMAIN document.chunks |-> LinksOf(document.chunks[i])]
  BY Zenon DEF Completed, LinksOf, LinkOf
<1> QED
  BY <1>1, <1>2

LEMMA NextChunkStep == ASSUME MessagesInv, NextChunk PROVE MessagesInv'
<1>1. /\ phase = "chunk" /\ ReadingChunks /\ artifact = 0
      /\ chunks = [i \in 1..chunk |-> LinksOf(document.chunks[i])]
      /\ answer \in Polls /\ interval = IntervalOf(answer)
  BY DEF NextChunk, MessagesInv
<1>2. UNCHANGED << answer, interval, document, chunk, artifact >>
  BY DEF NextChunk
<1>3. answer' \in Polls /\ interval' = IntervalOf(answer)'
  BY <1>1, <1>2
<1>4. ReadingChunks'
  BY <1>1, <1>2 DEF ReadingChunks
<1>5. /\ document.kind = "deploymentBase" /\ document.chunks \in Seq(Chunks)
      /\ chunk \in 0..Len(document.chunks) /\ SoundHeaderIs(document.header)
      /\ \A i \in 1..chunk : SoundChunk(document.chunks[i])
  BY <1>1 DEF ReadingChunks
<1>6. CASE chunk = Len(document.chunks)
  <2>1. phase' = "handler" /\ chunks' = chunks
    BY <1>1, <1>6 DEF NextChunk, Ended
  <2>2. SoundDeployment(document)
    BY <1>5, <1>6, SoundDeploymentIs
  <2>3. chunks = Completed(document)
    BY <1>1, <1>5, <1>6, CompletedIs
  <2>4. SoundDeployment(document)' /\ chunks' = Completed(document)'
    BY <1>2, <2>1, <2>2, <2>3
  <2> QED
    BY <1>3, <2>1, <2>4 DEF MessagesInv, Phases, DeploymentIsComplete, AbortsOnlyOnWrongTypes
<1>7. CASE chunk # Len(document.chunks)
  <2> DEFINE c == document.chunks[chunk + 1]
  <2>1. chunk + 1 \in 1..Len(document.chunks) /\ c \in Chunks
    BY <1>5, <1>7
  <2>2. CASE ParseChunk(c) = "parsed"
    <3>1. phase' = "artifact" /\ chunks' = Append(chunks, << >>)
      BY <1>1, <1>7, <2>2 DEF NextChunk
    <3>2. c.is = "there"
      BY <2>1, <2>2, ParseChunkIs
    <3>3. chunks' = [i \in 1..(chunk + 1) |->
                      IF i <= chunk THEN LinksOf(document.chunks[i])
                      ELSE [j \in 1..artifact |-> LinkOf(c.artifacts[j])]]
      <4> DEFINE links == [i \in 1..chunk |-> LinksOf(document.chunks[i])]
      <4>1. Append(links, << >>) = [i \in 1..(chunk + 1) |->
              IF i <= chunk THEN LinksOf(document.chunks[i]) ELSE << >>]
        BY <1>5
      <4>2. << >> = [j \in 1..artifact |-> LinkOf(c.artifacts[j])]
        BY <1>1
      <4>3. chunks' = Append(links, << >>)
        BY <1>1, <3>1
      <4> HIDE DEF c, links
      <4> QED
        BY <4>1, <4>2, <4>3
    <3>4. Len(c.artifacts) \in Nat
      BY <2>1, ArtifactsOfChunk
    <3>5. \A j \in 1..artifact : SoundArtifact(c.artifacts[j])
      BY <1>1
    <3>6. ReadingArtifacts'
      <4>1. (chunk < Len(document.chunks) /\ c.is = "there")'
        BY <1>2, <1>5, <1>7, <3>2
      <4>2. (artifact \in 0..Len(c.artifacts))'
        BY <1>1, <1>2, <3>4
      <4>3. (\A j \in 1..artifact : SoundArtifact(c.artifacts[j]))'
        BY <1>2, <3>5
      <4>4. (chunks = [i \in 1..(chunk + 1) |->
                        IF i <= chunk THEN LinksOf(document.chunks[i])
                        ELSE [j \in 1..artifact |-> LinkOf(c.artifacts[j])]])'
        BY <1>2, <3>3
      <4> QED
        BY <4>1, <4>2, <4>3, <4>4 DEF ReadingArtifacts
    <3> QED
      BY <1>3, <1>4, <3>1, <3>6 DEF MessagesInv, Phases, DeploymentIsComplete, AbortsOnlyOnWrongTypes
  <2>3. CASE ParseChunk(c) # "parsed"
    <3>1. phase' = IF ParseChunk(c) = "asserted" THEN "aborted" ELSE "failed"
      BY <1>1, <1>7, <2>3 DEF NextChunk, Ended
    <3>2. c.is # "there" /\ (ParseChunk(c) = "asserted" => WrongChunk(c))
      BY <2>1, <2>3, ParseChunkIs DEF WrongChunk
    <3>3. ~SoundDeployment(document)
      BY <1>5, <2>1, <3>2, SoundDeploymentIs DEF SoundChunk
    <3>4. chunk + 1 \in DOMAIN document.chunks
      BY <1>5, <2>1
    <3>5. DeploymentIsComplete'
      BY <1>2, <3>1, <3>3 DEF DeploymentIsComplete
    <3>6. AbortsOnlyOnWrongTypes'
      BY <1>2, <1>5, <3>1, <3>2, <3>4 DEF AbortsOnlyOnWrongTypes
    <3> QED
      BY <3>1, <3>5, <3>6 DEF MessagesInv, Phases
  <2> QED
    BY <2>2, <2>3
<1> QED
  BY <1>6, <1>7

LEMMA NextArtifactStep == ASSUME MessagesInv, NextArtifact PROVE MessagesInv'
<1> DEFINE c == document.chunks[chunk + 1]
           as == c.artifacts
<1>1. /\ phase = "artifact" /\ ReadingChunks /\ ReadingArtifacts
      /\ answer \in Polls /\ interval = IntervalOf(answer)
  BY DEF NextArtifact, MessagesInv
<1>2. UNCHANGED << answer, interval, document >>
  BY DEF NextArtifact
<1>3. answer' \in Polls /\ interval' = IntervalOf(answer)'
  BY <1>1, <1>2
<1>4. /\ document.kind = "deploymentBase" /\ document.chunks \in Seq(Chunks)
      /\ chunk \in 0..Len(document.chunks) /\ SoundHeaderIs(document.header) /\ document.header \in Headers
      /\ \A i \in 1..chunk : SoundChunk(document.chunks[i])
  BY <1>1 DEF ReadingChunks
<1>5. /\ chunk < Len(document.chunks) /\ c.is = "there"
      /\ artifact \in 0..Len(as)
      /\ \A j \in 1..artifact : SoundArtifact(as[j])
      /\ chunks = [i \in 1..(chunk + 1) |->
                    IF i <= chunk THEN LinksOf(document.chunks[i]) ELSE [j \in 1..artifact |-> LinkOf(as[j])]]
  BY <1>1 DEF ReadingArtifacts
<1>6. chunk + 1 \in 1..Len(document.chunks) /\ c \in Chunks
  BY <1>4, <1>5
<1>7. as \in Seq(Artifacts) /\ DOMAIN as = 1..Len(as) /\ Len(as) \in Nat
  BY <1>6, ArtifactsOfChunk
<1>8. CASE artifact = Len(as)
  <2>1. chunk' = chunk + 1 /\ artifact' = 0 /\ phase' = "chunk" /\ chunks' = chunks
    BY <1>8 DEF NextArtifact
  <2>2. SoundChunk(c)
    BY <1>5, <1>7, <1>8 DEF SoundChunk
  <2>3. \A i \in 1..(chunk + 1) : SoundChunk(document.chunks[i])
    <3> TAKE i \in 1..(chunk + 1)
    <3>1. i \in 1..chunk \/ i = chunk + 1
      BY <1>4
    <3> QED
      BY <1>4, <2>2, <3>1
  <2>4. ReadingChunks'
    BY <1>2, <1>4, <1>6, <2>1, <2>3 DEF ReadingChunks
  <2>5. LinksOf(c) = [j \in 1..artifact |-> LinkOf(as[j])]
    BY <1>7, <1>8 DEF LinksOf
  <2>6. chunks = [i \in 1..(chunk + 1) |-> LinksOf(document.chunks[i])]
    <3> DEFINE read == [j \in 1..artifact |-> LinkOf(as[j])]
    <3>1. chunks = [i \in 1..(chunk + 1) |-> IF i <= chunk THEN LinksOf(document.chunks[i]) ELSE read]
      BY <1>5
    <3>2. \A i \in 1..(chunk + 1) : i <= chunk \/ i = chunk + 1
      BY <1>4
    <3>3. read = LinksOf(document.chunks[chunk + 1])
      BY <2>5
    <3> HIDE DEF read, c, as
    <3> QED
      BY <3>1, <3>2, <3>3
  <2>7. chunks' = [i \in 1..chunk |-> LinksOf(document.chunks[i])]'
    BY <1>2, <2>1, <2>6
  <2> QED
    BY <1>3, <2>1, <2>4, <2>7 DEF MessagesInv, Phases, DeploymentIsComplete, AbortsOnlyOnWrongTypes
<1>9. CASE artifact # Len(as)
  <2> DEFINE a == as[artifact + 1]
  <2>1. artifact + 1 \in 1..Len(as) /\ a \in Artifacts
    BY <1>5, <1>7, <1>9
  <2>2. CASE ParseArtifact(a) = "parsed"
    <3>1. /\ chunks' = [chunks EXCEPT ![chunk + 1] = Append(@, LinkOf(a))]
          /\ artifact' = artifact + 1 /\ UNCHANGED << phase, chunk >>
      BY <1>9, <2>2 DEF NextArtifact
    <3>2. SoundArtifact(a)
      BY <2>1, <2>2, ParseArtifactIs
    <3>3. \A j \in 1..(artifact + 1) : SoundArtifact(as[j])
      <4> TAKE j \in 1..(artifact + 1)
      <4>1. j \in 1..artifact \/ j = artifact + 1
        BY <1>5, <1>7
      <4> QED
        BY <1>5, <3>2, <4>1
    <3>4. chunks' = [i \in 1..(chunk + 1) |->
                      IF i <= chunk THEN LinksOf(document.chunks[i])
                      ELSE [j \in 1..(artifact + 1) |-> LinkOf(as[j])]]
      <4> DEFINE read == [j \in 1..artifact |-> LinkOf(as[j])]
                 more == [j \in 1..(artifact + 1) |-> LinkOf(as[j])]
      <4>1. Append(read, LinkOf(a)) = more
        BY <1>5, <1>7
      <4>2. chunks = [i \in 1..(chunk + 1) |-> IF i <= chunk THEN LinksOf(document.chunks[i]) ELSE read]
        BY <1>5
      <4>3. chunk + 1 \in 1..(chunk + 1) /\ ~(chunk + 1 <= chunk)
            /\ \A i \in 1..(chunk + 1) : i <= chunk \/ i = chunk + 1
        BY <1>4
      <4> HIDE DEF read, more, a, as, c
      <4>4. chunks[chunk + 1] = read
        BY <4>2, <4>3
      <4>5. chunks' = [chunks EXCEPT ![chunk + 1] = more]
        BY <3>1, <4>1, <4>4
      <4>6. chunks' = [i \in 1..(chunk + 1) |-> IF i <= chunk THEN LinksOf(document.chunks[i]) ELSE more]
        BY <4>2, <4>3, <4>5
      <4> QED
        BY <4>6 DEF more
    <3>5. ReadingChunks'
      BY <1>2, <1>4, <3>1 DEF ReadingChunks
    <3>6. ReadingArtifacts'
      <4>1. (chunk < Len(document.chunks) /\ c.is = "there")'
        BY <1>2, <1>5, <3>1
      <4>2. (artifact \in 0..Len(as))'
        BY <1>2, <1>7, <2>1, <3>1
      <4>3. (\A j \in 1..artifact : SoundArtifact(as[j]))'
        BY <1>2, <3>1, <3>3
      <4>4. (chunks = [i \in 1..(chunk + 1) |->
                        IF i <= chunk THEN LinksOf(document.chunks[i])
                        ELSE [j \in 1..artifact |-> LinkOf(as[j])]])'
        BY <1>2, <3>1, <3>4
      <4> QED
        BY <4>1, <4>2, <4>3, <4>4 DEF ReadingArtifacts
    <3> QED
      BY <1>1, <1>3, <3>1, <3>5, <3>6 DEF MessagesInv, Phases, DeploymentIsComplete, AbortsOnlyOnWrongTypes
  <2>3. CASE ParseArtifact(a) # "parsed"
    <3>1. phase' = IF ParseArtifact(a) = "asserted" THEN "aborted" ELSE "failed"
      BY <1>9, <2>3 DEF NextArtifact, Ended
    <3>2. ~SoundArtifact(a) /\ (ParseArtifact(a) = "asserted" => WrongArtifact(a))
      BY <2>1, <2>3, ParseArtifactIs
    <3>3. ~SoundChunk(c) /\ (ParseArtifact(a) = "asserted" => WrongChunk(c))
      BY <1>7, <2>1, <3>2 DEF SoundChunk, WrongChunk
    <3>4. ~SoundDeployment(document)
      BY <1>4, <1>6, <3>3, SoundDeploymentIs
    <3>5. chunk + 1 \in DOMAIN document.chunks
      BY <1>4, <1>6
    <3>6. DeploymentIsComplete'
      BY <1>2, <3>1, <3>4 DEF DeploymentIsComplete
    <3>7. AbortsOnlyOnWrongTypes'
      BY <1>2, <1>4, <3>1, <3>3, <3>5 DEF AbortsOnlyOnWrongTypes
    <3> QED
      BY <3>1, <3>6, <3>7 DEF MessagesInv, Phases
  <2> QED
    BY <2>2, <2>3
<1> QED
  BY <1>8, <1>9

LEMMA MessagesStep == MessagesInv /\ [Next]_vars => MessagesInv'
<1> SUFFICES ASSUME MessagesInv, [Next]_vars PROVE MessagesInv'
  OBVIOUS
<1>1. CASE NextDocument \/ Restart
  <2>1. phase' = "idle" /\ NothingRead' /\ document'.kind = "none"
    BY <1>1 DEF NextDocument, Restart, NothingRead, NoDocument
  <2> QED
    BY <2>1 DEF MessagesInv, Phases, DeploymentIsComplete, AbortsOnlyOnWrongTypes
<1>2. CASE UNCHANGED vars
  BY <1>2 DEF vars, MessagesInv, NothingRead, ReadingChunks, ReadingArtifacts, DeploymentIsComplete,
              AbortsOnlyOnWrongTypes
<1> QED
  BY <1>1, <1>2, PollStep, CancelStep, DeploymentStep, NextChunkStep, NextArtifactStep DEF Next

LEMMA MessagesSafe == Spec => []MessagesInv
BY MessagesInit, MessagesStep, PTL DEF Spec

\* The client sleeps exactly as long as hawkBit asks for, if an int of milliseconds holds it, and
\* the default interval if hawkBit asks for nothing, or for 0: doPoll().
THEOREM SleepsAsAskedHolds == Spec => []SleepsAsAsked
<1>1. MessagesInv => SleepsAsAsked
  <2> SUFFICES ASSUME answer \in Polls, interval = IntervalOf(answer) PROVE SleepsAsAsked
    BY Zenon DEF MessagesInv, SleepsAsAsked
  <2>1. CASE answer.sleep.is \in {"absent", "empty"}
    <3>1. interval = Default
      BY SMT, <2>1 DEF IntervalOf, SleepTime
    <3> QED
      BY SMT, <2>1, <3>1 DEF SleepsAsAsked
  <2>2. CASE answer.sleep.is = "time" /\ answer.sleep.time \in Exact
    <3> DEFINE asked == AskedFor(answer.sleep.time)
    <3>1. asked \in Nat /\ SleepTime(answer) = asked * 1000
      BY SMT, <2>2, IntervalIsAsked DEF SleepTime
    <3>2. interval = IF asked = 0 THEN Default ELSE asked * 1000
      <4> HIDE DEF asked
      <4> QED
        BY SMT, <3>1 DEF IntervalOf
    <3> QED
      BY SMT, <2>2, <3>2 DEF SleepsAsAsked
  <2> QED
    BY SMT, <2>1, <2>2 DEF SleepsAsAsked
<1> QED
  BY <1>1, MessagesSafe, PTL

\* The handler gets a deployment when, and only when, all of its document is sound, and then every
\* chunk and every artifact of it, in order: DeploymentBase_::from().
THEOREM DeploymentIsCompleteHolds == Spec => []DeploymentIsComplete
<1>1. MessagesInv => DeploymentIsComplete
  BY DEF MessagesInv
<1> QED
  BY <1>1, MessagesSafe, PTL

\* The process aborts only of a member of another type, of a link without href, or of an artifact
\* of 2 GiB or more.
THEOREM AbortsOnlyOnWrongTypesHolds == Spec => []AbortsOnlyOnWrongTypes
<1>1. MessagesInv => AbortsOnlyOnWrongTypes
  BY DEF MessagesInv
<1> QED
  BY <1>1, MessagesSafe, PTL

================================================================================
