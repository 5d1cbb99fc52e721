------------------------------- MODULE Messages -------------------------------
(***************************************************************************)
(* What the client makes of the documents of hawkBit: the poll answer with *)
(* its interval and its link to follow, the cancel action, and the         *)
(* deployment with its chunks and artifacts.  A document is what the code  *)
(* asks of it: the members that are there, and whether they have the type  *)
(* the code takes them for.                                                *)
(*                                                                         *)
(* External: rapidjson.  A member that is taken for what it is not, or     *)
(* taken without being there, fails one of its assertions: the process     *)
(* aborts, and does what it likes in a build without assertions.           *)
(***************************************************************************)
EXTENDS Integers, Sequences, SequencesExt

CONSTANTS Times,        \* intervals hawkBit asks for, [h, m, s]
          Default,      \* defaultSleepTime
          Artifacts,    \* artifacts of the deployments, [is, links, href]
          MaxArtifacts, \* at most so many in a chunk
          MaxChunks     \* and so many chunks

VARIABLES phase,      \* which loop reads
          answer,     \* the poll answer
          interval,   \* currentSleepTime
          document,   \* of the action that is followed
          chunk,      \* chunks read
          artifact,   \* artifacts read of the next
          chunks,     \* DeploymentBase_::chunks: for each artifact the link it is downloaded from
          outcome     \* of the last document

vars == << phase, answer, interval, document, chunk, artifact, chunks, outcome >>

\* "refused": unexpected_payload.  "notANumber": an exception of stoi().
Outcomes == {"none", "parsed", "refused", "notANumber", "asserted"}

Json    == {"object", "otherType", "noJson"}
Strings == {"absent", "wrong", "text", "number"}   \* a string may hold a number
Objects == {"absent", "wrong", "there"}
Links   == {"configData", "cancelAction", "deploymentBase"}
Hrefs   == {"absent", "wrong", "notUri", "uri"}    \* href of a link object

\* Sleep: "empty" and "noTime" are strings that are not of the form %d:%d:%d.
NoTime == [h |-> 0, m |-> 0, s |-> 0]
Sleeps ==
  [is : {"absent", "wrong", "empty", "noTime"}, time : {NoTime}] \cup [is : {"time"}, time : Times]

Polls == [json : Json, sleep : Sleeps, linksAre : Objects, links : SUBSET Links, href : Hrefs]

NoPoll == [json |-> "noJson", sleep |-> [is |-> "absent", time |-> NoTime],
           linksAre |-> "absent", links |-> {}, href |-> "absent"]

\* Of the members of an artifact one is missing, is of another type than the code takes it for
\* ("wrongHash": one of its hashes), or is a size that no int holds.
ASSUME ArtifactsAssumption ==
  Artifacts \subseteq [is : {"there", "missing", "wrong", "wrongMember", "wrongHash", "over2GiB"},
                       links : SUBSET {"download", "download-http"}, href : Hrefs]

Cancels == [json : Json, id : Strings, cancelAction : Objects, stopId : Strings]

Chunks ==
  [is : {"there", "wrong", "missing", "wrongMember"}, artifacts : BoundedSeq(Artifacts, MaxArtifacts)]
Headers ==
  [json : Json, id : Strings, deployment : Objects, update : Objects, download : Objects,
   window : {"absent", "wrong", "unavailable", "other"}, chunksAre : Objects]

SoundHeader == [json |-> "object", id |-> "number", deployment |-> "there", update |-> "there",
                download |-> "there", window |-> "absent", chunksAre |-> "there"]

\* A deployment: its header, and its chunks if the header lets the code come to them.
NoDocument == [kind |-> "none", header |-> SoundHeader, chunks |-> << >>]

--------------------------------------------------------------------------------
\* int has 32 bits, and a product or sum that needs more wraps.  In two words of 16, for the
\* integers of TLC have 32 bits as well.
Word == 65536
Int32(high, low) ==
  LET word == (high + (low \div Word)) % Word
  IN (IF 2 * word >= Word THEN word - Word ELSE word) * Word + (low % Word)

Times32(a, b) == Int32((a \div Word) * b, (a % Word) * b)
Plus32(a, b) == Int32((a \div Word) + (b \div Word), (a % Word) + (b % Word))

SecondsSwapped(t) == Plus32(Plus32(Times32(t.h, 3600), t.m), Times32(t.s, 60))   \* mutant
Seconds(t) == Plus32(Plus32(Times32(t.h, 3600), Times32(t.m, 60)), t.s)

\* The outcome of checks made in order: that of the first to fail.
FirstOf(checks) ==
  LET i == SelectInSeq(checks, LAMBDA c : c[1]) IN IF i = 0 THEN "parsed" ELSE checks[i][2]

HrefOf(href) ==
  << << href \in {"absent", "wrong"}, "asserted" >>, << href = "notUri", "refused" >> >>

\* PollingData_::fromString()
ParsePoll(p) ==
  FirstOf(<< << p.json = "noJson", "refused" >>,
             << p.json = "otherType", "asserted" >>,
             << p.sleep.is = "wrong", "asserted" >>,
             << p.sleep.is = "noTime", "refused" >>,
             << p.linksAre = "wrong", "asserted" >> >>
          \o IF p.linksAre = "there" /\ p.links # {} THEN HrefOf(p.href) ELSE << >>)

SleepTime(p) == IF p.sleep.is = "time" THEN Times32(Seconds(p.sleep.time), 1000) ELSE -1

Action(p) ==
  CASE p.linksAre # "there"         -> "none"
    [] "configData" \in p.links     -> "configData"
    [] "configData" \notin p.links /\ "cancelAction" \in p.links -> "cancelAction"
    [] p.links = {"deploymentBase"} -> "deploymentBase"
    [] p.links = {}                 -> "none"

StopIdUnchecked(c) ==     \* mutant: a cancel action without a stopId is not refused
  FirstOf(<< << c.json = "noJson", "refused" >>,
             << c.json = "otherType", "asserted" >>,
             << c.id = "absent" \/ c.cancelAction = "absent", "refused" >>,
             << c.cancelAction = "wrong" \/ c.stopId \in {"absent", "wrong"} \/ c.id = "wrong", "asserted" >>,
             << c.stopId = "text" \/ c.id = "text", "notANumber" >> >>)

\* CancelAction_::fromString()
ParseCancel(c) ==
  FirstOf(<< << c.json = "noJson", "refused" >>,
             << c.json = "otherType", "asserted" >>,
             << c.id = "absent" \/ c.cancelAction = "absent", "refused" >>,
             << c.cancelAction = "wrong", "asserted" >>,
             << c.stopId = "absent", "refused" >>,
             << c.stopId = "wrong", "asserted" >>,
             << c.stopId = "text", "notANumber" >>,
             << c.id = "wrong", "asserted" >>,
             << c.id = "text", "notANumber" >> >>)

\* DeploymentBase_::from() up to its loops.
ParseHeader(d) ==
  FirstOf(<< << d.json = "noJson", "refused" >>,
             << d.json = "otherType", "asserted" >>,
             << d.id = "absent" \/ d.deployment = "absent", "refused" >>,
             << d.deployment = "wrong", "asserted" >>,
             << "absent" \in {d.update, d.download, d.chunksAre}, "refused" >>,
             << d.id = "wrong", "asserted" >>,
             << d.id = "text", "notANumber" >>,
             << "wrong" \in {d.update, d.download, d.window, d.chunksAre}, "asserted" >> >>)

ParseChunk(c) ==
  FirstOf(<< << c.is = "wrong", "asserted" >>,
             << c.is = "missing", "refused" >>,
             << c.is = "wrongMember", "asserted" >> >>)

\* GetInt() of a size above 2^31 - 1 fails its assertion.
ParseArtifact(a) ==
  FirstOf(<< << a.is = "wrong", "asserted" >>,
             << a.is = "missing" \/ a.links = {}, "refused" >>,
             << a.is \in {"wrongMember", "over2GiB"}, "asserted" >> >>
          \o HrefOf(a.href)
          \o << << a.is = "wrongHash", "asserted" >> >>)

PreferHttp(a) == IF "download-http" \in a.links THEN "download-http" ELSE "download"   \* mutant
LinkOf(a) == IF "download" \in a.links THEN "download" ELSE "download-http"

--------------------------------------------------------------------------------
Init ==
  /\ phase = "idle" /\ answer = NoPoll /\ interval = Default
  /\ document = NoDocument /\ chunk = 0 /\ artifact = 0 /\ chunks = << >> /\ outcome = "none"

\* A document ends in the handler, in an exception that leaves run(), or in an abort.
Ended(o) ==
  /\ outcome' = o
  /\ phase' = CASE o = "parsed" -> "handler" [] o = "asserted" -> "aborted" [] OTHER -> "failed"

\* doPoll(): the answer is parsed whole before the interval is taken from it.
IntervalAsParsed(p) == SleepTime(p)    \* mutant: the flag -1 and what has wrapped are taken too
IntervalOf(p) == IF SleepTime(p) > 0 THEN SleepTime(p) ELSE Default

Poll ==
  /\ phase = "idle"
  /\ answer' \in Polls
  /\ IF ParsePoll(answer') # "parsed"
       THEN Ended(ParsePoll(answer')) /\ UNCHANGED interval
       ELSE /\ interval' = IntervalOf(answer')
            /\ IF Action(answer') \in {"none", "configData"}
                 THEN Ended("parsed")
                 ELSE phase' = Action(answer') /\ UNCHANGED outcome
  /\ UNCHANGED << document, chunk, artifact, chunks >>

FollowCancelAction ==
  /\ phase = "cancelAction"
  /\ \E c \in Cancels : document' = [kind |-> "cancelAction", header |-> c, chunks |-> << >>]
  /\ Ended(ParseCancel(document'.header))
  /\ UNCHANGED << answer, interval, chunk, artifact, chunks >>

FollowDeploymentBase ==
  /\ phase = "deploymentBase"
  /\ \E h \in Headers : \E cs \in IF h = SoundHeader THEN BoundedSeq(Chunks, MaxChunks) ELSE {<< >>} :
       document' = [kind |-> "deploymentBase", header |-> h, chunks |-> cs]
  /\ IF ParseHeader(document'.header) = "parsed"
       THEN phase' = "chunk" /\ UNCHANGED outcome
       ELSE Ended(ParseHeader(document'.header))
  /\ UNCHANGED << answer, interval, chunk, artifact, chunks >>

\* The loop over the chunks: the whole deployment goes to the handler only after the last.
NextChunk ==
  /\ phase = "chunk"
  /\ IF chunk = Len(document.chunks)
       THEN Ended("parsed") /\ UNCHANGED chunks
       ELSE IF ParseChunk(document.chunks[chunk + 1]) = "parsed"
              THEN phase' = "artifact" /\ chunks' = Append(chunks, << >>) /\ UNCHANGED outcome
              ELSE Ended(ParseChunk(document.chunks[chunk + 1])) /\ UNCHANGED chunks
  /\ UNCHANGED << answer, interval, document, chunk, artifact >>

NextArtifact ==
  /\ phase = "artifact"
  /\ LET as == document.chunks[chunk + 1].artifacts IN
       IF artifact = Len(as)
         THEN /\ chunk' = chunk + 1 /\ artifact' = 0 /\ phase' = "chunk"
              /\ UNCHANGED << chunks, outcome >>
         ELSE /\ UNCHANGED chunk
              /\ IF ParseArtifact(as[artifact + 1]) = "parsed"
                   THEN /\ chunks' = [chunks EXCEPT ![chunk + 1] = Append(@, LinkOf(as[artifact + 1]))]
                        /\ artifact' = artifact + 1
                        /\ UNCHANGED << phase, outcome >>
                   ELSE Ended(ParseArtifact(as[artifact + 1])) /\ UNCHANGED << chunks, artifact >>
  /\ UNCHANGED << answer, interval, document >>

\* The handler's answer is given, or run() is called again after an exception.
NextDocument ==
  /\ phase \in {"handler", "failed"}
  /\ phase' = "idle" /\ outcome' = "none" /\ UNCHANGED interval
  /\ answer' = NoPoll /\ document' = NoDocument /\ chunk' = 0 /\ artifact' = 0 /\ chunks' = << >>

Restart ==
  /\ phase = "aborted"
  /\ phase' = "idle" /\ outcome' = "none" /\ interval' = Default
  /\ answer' = NoPoll /\ document' = NoDocument /\ chunk' = 0 /\ artifact' = 0 /\ chunks' = << >>

Next ==
  \/ NextDocument \/ Restart
  \/ Poll \/ FollowCancelAction \/ FollowDeploymentBase \/ NextChunk \/ NextArtifact
Spec == Init /\ [][Next]_vars

--------------------------------------------------------------------------------
Completed(d) == [i \in DOMAIN d.chunks |-> [j \in DOMAIN d.chunks[i].artifacts |->
                  IF "download" \in d.chunks[i].artifacts[j].links THEN "download" ELSE "download-http"]]

AskedFor(t) == t.h * 3600 + t.m * 60 + t.s
Exact == {t \in Times : t.h \in 0..596 /\ t.m \in 0..59 /\ t.s \in 0..59 /\ AskedFor(t) <= 2147483}

\* The client sleeps exactly as long as hawkBit asks, if that is less than the 2147483 seconds
\* an int of milliseconds can hold, and the default interval if hawkBit asks for nothing, or
\* for 0; what is longer comes out as another interval, or as the default.
SleepsAsAsked ==
  phase \notin {"idle", "failed", "aborted"} =>
    CASE answer.sleep.is \in {"absent", "empty"} -> interval = Default
      [] answer.sleep.is = "time" /\ answer.sleep.time \in Exact ->
           interval = IF AskedFor(answer.sleep.time) = 0 THEN Default ELSE AskedFor(answer.sleep.time) * 1000
      [] OTHER -> TRUE

\* What the document of a deployment has to be for its handler to be called.
SoundArtifact(a) == a.is = "there" /\ a.links # {} /\ a.href = "uri"
SoundDeployment(d) ==
  /\ d.header.json = "object" /\ d.header.id = "number"
  /\ {d.header.deployment, d.header.update, d.header.download, d.header.chunksAre} = {"there"}
  /\ d.header.window # "wrong"
  /\ \A i \in DOMAIN d.chunks :
       d.chunks[i].is = "there" /\ \A j \in DOMAIN d.chunks[i].artifacts : SoundArtifact(d.chunks[i].artifacts[j])

\* The handler gets a deployment when, and only when, all of its document is sound, and then
\* every chunk and every artifact of it, in order, with the download link that is preferred.
DeploymentIsComplete ==
  document.kind = "deploymentBase" =>
    /\ phase = "handler" => SoundDeployment(document) /\ chunks = Completed(document)
    /\ phase \in {"failed", "aborted"} => ~SoundDeployment(document)

WrongPoll(p) ==
  "wrong" \in {p.sleep.is, p.linksAre} \/ p.json = "otherType" \/ p.href \in {"absent", "wrong"}
WrongHeader(d) ==
  d.json = "otherType" \/ "wrong" \in {d.id, d.deployment, d.update, d.download, d.window, d.chunksAre}
WrongCancel(c) == c.json = "otherType" \/ "wrong" \in {c.id, c.cancelAction, c.stopId}
WrongArtifact(a) ==
  a.is \in {"wrong", "wrongMember", "wrongHash", "over2GiB"} \/ a.href \in {"absent", "wrong"}
WrongChunk(c) ==
  c.is \in {"wrong", "wrongMember"} \/ \E j \in DOMAIN c.artifacts : WrongArtifact(c.artifacts[j])

\* hawkBit can leave out any member the code needs and is refused with an exception; the process
\* aborts only of a member of another type, of a link without href, or of an artifact of 2 GiB
\* or more, whose size is no int.
AbortsOnlyOnWrongTypes ==
  phase = "aborted" =>
    CASE document.kind = "none"         -> WrongPoll(answer)
      [] document.kind = "cancelAction" -> WrongCancel(document.header)
      [] OTHER -> WrongHeader(document.header) \/ \E i \in DOMAIN document.chunks : WrongChunk(document.chunks[i])

================================================================================
