------------------------------- MODULE DDIClient -------------------------------
(***************************************************************************)
(* The polling client of up2date-cpp: ddi::HawkbitCommunicationClient.     *)
(*                                                                         *)
(* One thread calls run() and stays in it: it polls hawkBit, follows the   *)
(* action the poll returned, calls the user's EventHandler, sends the      *)
(* feedback and sleeps.  Any other thread (or a callback of the client)    *)
(* may call stop() and requestToPoll(), which only write the plain bools   *)
(* isRunning and pollRequested.  Every HTTP request goes through           *)
(* retryHandler(), which on 401 calls the user's onAuthError() once, lets  *)
(* it replace credentials and endpoint, and sends the request once more.   *)
(*                                                                         *)
(* An action of the polling thread is the code between two points where    *)
(* another actor can be noticed: an HTTP exchange, a user callback, a read *)
(* or write of a shared flag.  The value of pc names those points.         *)
(*                                                                         *)
(* Abstractions.  A URI is a model value: a request is sent to the host of *)
(* one URI with the path of one URI (the two differ in one place of the    *)
(* code).  Message bodies are what the client reads from them.  Durations  *)
(* are milliseconds, and one turn of the sleep loop is one second.         *)
(*                                                                         *)
(* User code is assumed not to keep the AuthRestoreHandler after           *)
(* onAuthError() returned nor an action after its callback returned, as    *)
(* the headers ask, and its ResponseDeliveryListener not to throw.         *)
(***************************************************************************)
EXTENDS Credentials, Integers

CONSTANTS Endpoints,          \* polling URIs a user may configure
          NoEndpoint,         \* the empty URI
          Links,              \* URIs of actions and artifacts, chosen by hawkBit
          ServerSleepTimes,   \* polling intervals a poll returns (ms), -1: none
          DefaultSleepTimes,  \* values of setDefaultPollingTimeout (ms)
          MaxHeaders          \* bound: Authorization entries onAuthError piles up

ASSUME EndpointAssumption == NoEndpoint \notin Endpoints \cup Links
ASSUME SleepAssumption == ServerSleepTimes \subseteq Int /\ DefaultSleepTimes \subseteq Int
ASSUME HeadersAssumption == MaxHeaders \in Nat

URIs == Endpoints \cup Links \cup {NoEndpoint}

Actions == {"none", "configData", "cancelAction", "deploymentBase"}

\* What the polling thread is exchanging with hawkBit, or last exchanged;
\* "startup" before the first poll of a run().
Feedbacks == {"cancelFeedback", "deploymentFeedback"}
Calls == {"startup", "poll", "configData", "cancelAction", "deploymentBase", "download"}
           \cup Feedbacks

(***************************************************************************)
(* Answers to a request: 200 with a body the client understands ("ok") or  *)
(* does not ("malformed"), 401, any other status, or an error of the HTTP  *)
(* library (no connection, timeout, broken stream...).  Only the answer to *)
(* a poll carries the other three fields.                                  *)
(***************************************************************************)
Failures == {"malformed", "unauthorized", "unexpectedCode", "libError"}

Reply == [outcome : {"none", "ok"} \cup Failures,
          sleep   : ServerSleepTimes \cup {-1},
          action  : Actions,
          link    : Links \cup {NoEndpoint}]

Answered(o) == [outcome |-> o, sleep |-> -1, action |-> "none", link |-> NoEndpoint]
NoReply == Answered("none")

Request == [host : URIs, path : URIs, credentials : Credential]

\* The parts of ddi::Response (and ddi::ConfigResponse) that steer the
\* client: whether it has a delivery listener, and setIgnoreSleep().
Response == [listener : BOOLEAN, ignoreSleep : BOOLEAN]
NoResponse == [listener |-> FALSE, ignoreSleep |-> FALSE]

VARIABLES
  \* fields of the class
  hawkbitURI,        \* polling URI
  credentials,       \* Authorization part of defaultHeaders, and mTLSKeypair
  authErrorHandler,  \* is an AuthErrorHandler registered?
  defaultSleepTime,  \* ms
  currentSleepTime,  \* ms
  ignoreSleep,
  isRunning,
  pollRequested,
  \* locals of the polling thread
  pc,                \* where it is
  call,              \* the exchange it is in
  followURI,         \* link of the action being followed
  request,           \* the request last sent
  attempt,           \* 1, or 2 for the retry after onAuthError
  reply,             \* its answer
  response,          \* what the EventHandler returned
  tick,              \* counter of the sleep loop
  \* history variables, which no step of the code reads
  first,             \* the first attempt of the request last sent
  stopAt,            \* has stop() been called in this run(), and when
  pollsAfterStop,    \* polls begun since that stop(), capped at 2
  slept,             \* seconds slept since the last poll
  waited,            \* seconds slept since requestToPoll()
  skipAsked,         \* did the handler's response ask to skip the sleep
  processed,         \* feedbacks hawkBit took in in this iteration
  notified           \* what the delivery listener was told

conf == << authErrorHandler, defaultSleepTime >>
auth == << hawkbitURI, credentials >>
sleeping == << currentSleepTime, ignoreSleep, tick >>
flags == << isRunning, pollRequested >>
exchange == << request, attempt, first, reply >>
local == << followURI, response >>
stopHistory == << stopAt, pollsAfterStop >>
sleepHistory == << slept, waited, skipAsked >>
delivery == << processed, notified >>
history == << stopHistory, sleepHistory, delivery >>
quiet == << conf, auth, sleeping, flags, local, exchange, history >>    \* all but pc, call

vars == << conf, auth, sleeping, flags, pc, call, exchange, local, history >>

PCs == {"idle",        \* run() is not being executed
        "restore",     \* inside the user's onAuthError()
        "begin",       \* before isRunning = true
        "loopTest",    \* while (isRunning)
        "doPoll",      \* the test passed, the poll has not begun
        "wait",        \* in an HTTP exchange
        "callback",    \* inside a callback of the user's EventHandler
        "pollDone",    \* doPoll() returned
        "sleepTest",   \* condition of the sleep loop
        "asleep"}      \* sleep_for(1 s)

\* The fields, locals and history hold what the code can put there; the polling interval
\* is the default one or a positive one of the server.
TypeOK ==
  /\ hawkbitURI \in Endpoints \cup {NoEndpoint}
  /\ credentials \in Credential
  /\ authErrorHandler \in BOOLEAN
  /\ defaultSleepTime \in DefaultSleepTimes
  /\ currentSleepTime \in DefaultSleepTimes \cup {s \in ServerSleepTimes : s > 0}
  /\ ignoreSleep \in BOOLEAN /\ isRunning \in BOOLEAN /\ pollRequested \in BOOLEAN
  /\ pc \in PCs
  /\ call \in Calls
  /\ followURI \in URIs
  /\ request \in Request
  /\ attempt \in {1, 2}
  /\ reply \in Reply
  /\ response \in Response
  /\ tick \in Nat
  /\ first \in Request
  /\ stopAt \in {"never", "starting", "inLoop"}
  /\ pollsAfterStop \in 0..2
  /\ slept \in Nat /\ waited \in Nat
  /\ skipAsked \in BOOLEAN
  /\ processed \in Nat
  /\ notified \in {"nothing", "success", "error"}

--------------------------------------------------------------------------------
NoRequest == [host |-> NoEndpoint, path |-> NoEndpoint, credentials |-> NoCredentials]

\* The object DDIClientBuilder::build() returns: no credentials or those
\* of one of its three setters, an endpoint or none.  All flags are false.
Built ==
  /\ hawkbitURI \in Endpoints \cup {NoEndpoint}
  /\ credentials \in BuiltCredentials
  /\ authErrorHandler \in BOOLEAN
  /\ defaultSleepTime \in DefaultSleepTimes
  /\ currentSleepTime = defaultSleepTime
  /\ ignoreSleep = FALSE /\ isRunning = FALSE /\ pollRequested = FALSE

Init ==
  /\ Built
  /\ pc = "idle" /\ call = "startup"
  /\ followURI = NoEndpoint
  /\ request = NoRequest /\ first = NoRequest
  /\ attempt = 1
  /\ reply = NoReply
  /\ response = NoResponse
  /\ tick = 0
  /\ stopAt = "never" /\ pollsAfterStop = 0
  /\ slept = 0 /\ waited = 0 /\ skipAsked = FALSE
  /\ processed = 0 /\ notified = "nothing"

--------------------------------------------------------------------------------
\* Any thread, at any time: stop() and requestToPoll().
Starting == pc = "begin" \/ (pc = "restore" /\ call = "startup")

Stop ==
  /\ isRunning' = FALSE
  /\ stopAt' = IF pc = "idle" THEN stopAt
               ELSE IF ~Starting THEN "inLoop"
               ELSE IF stopAt = "never" THEN "starting" ELSE stopAt
  /\ pollsAfterStop' = IF stopAt' # stopAt THEN 0 ELSE pollsAfterStop
  /\ UNCHANGED << conf, auth, sleeping, pollRequested, pc, call, local, exchange,
                  sleepHistory, delivery >>

RequestToPoll ==
  /\ pollRequested' = TRUE
  /\ UNCHANGED << conf, auth, sleeping, isRunning, pc, call, local, exchange, history >>

--------------------------------------------------------------------------------
\* The start of run().  Without an endpoint the user's onAuthError() is
\* called to set one, and without a handler either, run() throws.
Run ==
  /\ pc = "idle"
  /\ pc' = IF hawkbitURI # NoEndpoint THEN "begin"
           ELSE IF authErrorHandler THEN "restore" ELSE "idle"
  /\ call' = "startup"
  /\ stopAt' = "never" /\ pollsAfterStop' = 0
  /\ UNCHANGED << conf, auth, sleeping, flags, local, exchange, sleepHistory,
                  delivery >>

Begin ==
  /\ pc = "begin"
  /\ isRunning' = TRUE
  /\ pc' = "loopTest"
  /\ UNCHANGED << conf, auth, sleeping, pollRequested, call, local, exchange, history >>

KeepsRunningWhenPollRequested == isRunning \/ pollRequested    \* mutant

KeepsRunning == isRunning

IgnoreSleepLeftAsIs == ignoreSleep    \* mutant

InitialIgnoreSleep == FALSE

\* while (isRunning), and ignoreSleep = false when it enters the body.
LoopTest ==
  /\ pc = "loopTest"
  /\ IF KeepsRunning
       THEN pc' = "doPoll" /\ ignoreSleep' = InitialIgnoreSleep
       ELSE pc' = "idle" /\ UNCHANGED ignoreSleep
  /\ UNCHANGED << conf, auth, currentSleepTime, tick, flags, call, local, exchange,
                  history >>

--------------------------------------------------------------------------------
(***************************************************************************)
(* retryHandler().  reqUri, passed by value, names the host of both        *)
(* attempts; the caller's lambda names the path, and the lambda of doPoll  *)
(* reads it from hawkbitURI each time.  Headers and key pair are read when *)
(* the request is sent.                                                    *)
(***************************************************************************)
StartRequest(c, uri) ==
  /\ pc' = "wait"
  /\ call' = c
  /\ attempt' = 1
  /\ request' = [host |-> uri, path |-> uri, credentials |-> credentials]
  /\ first' = request'
  /\ reply' = NoReply

RequestPath ==
  CASE call = "poll"     -> hawkbitURI
    [] call = "download" -> request.path
    [] OTHER             -> followURI

RetryRequestAtNewHost ==    \* mutant
  [host |-> hawkbitURI, path |-> RequestPath, credentials |-> credentials]

RetryRequestWithOldHeaders ==    \* mutant
  [host |-> request.host, path |-> RequestPath, credentials |-> request.credentials]

RetryRequest ==
  [host |-> request.host, path |-> RequestPath, credentials |-> credentials]

(***************************************************************************)
(* The environment answers.  A request to no host fails in the library.    *)
(* hawkBit takes a feedback in when it answers 200; when the library       *)
(* reports an error the feedback may or may not have reached hawkBit.      *)
(***************************************************************************)
Parsed == {"poll", "cancelAction", "deploymentBase"}

PollReplies ==
  {[outcome |-> "ok", sleep |-> s, action |-> a, link |-> l] :
      s \in ServerSleepTimes, a \in Actions \ {"none"}, l \in Links}
  \cup {[Answered("ok") EXCEPT !.sleep = s] : s \in ServerSleepTimes}

Answers ==
  IF request.host = NoEndpoint THEN {Answered("libError")}
  ELSE {Answered(o) : o \in IF call \in Parsed THEN Failures ELSE Failures \ {"malformed"}}
         \cup (IF call = "poll" THEN PollReplies ELSE {Answered("ok")})

Answer ==
  /\ pc = "wait" /\ reply = NoReply
  /\ reply' \in Answers
  /\ processed' \in
       CASE call \in Feedbacks /\ reply'.outcome = "ok"       -> {processed + 1}
         [] call \in Feedbacks /\ reply'.outcome = "libError" -> {processed, processed + 1}
         [] OTHER                                             -> {processed}
  /\ UNCHANGED << conf, auth, sleeping, flags, pc, call, local, request, attempt,
                  first, stopHistory, sleepHistory, notified >>

Succeeded(c) == pc = "wait" /\ call = c /\ reply.outcome = "ok"

MayRestoreForever == authErrorHandler    \* mutant

MayRestore == authErrorHandler /\ attempt = 1

GaveUp ==
  /\ pc = "wait"
  /\ \/ reply.outcome \in Failures \ {"unauthorized"}
     \/ reply.outcome = "unauthorized" /\ ~MayRestore

\* 401 on the first attempt: the user's onAuthError() is entered.
AuthError ==
  /\ pc = "wait" /\ reply.outcome = "unauthorized" /\ MayRestore
  /\ pc' = "restore"
  /\ UNCHANGED << call, quiet >>

(***************************************************************************)
(* What onAuthError() may do: call the setters of the AuthRestoreHandler,  *)
(* any number of times and in any order (MaxHeaders bounds the headers it  *)
(* piles up), then return or throw.                                        *)
(***************************************************************************)
RestoreTLS ==
  /\ pc = "restore"
  /\ \E k \in Keypairs : credentials' = SetTLS(credentials, k)
  /\ UNCHANGED << conf, hawkbitURI, sleeping, flags, pc, call, local, exchange,
                  history >>

RestoreToken ==
  /\ pc = "restore"
  /\ Len(credentials.authorization) < MaxHeaders
  /\ \E t \in Tokens : credentials' \in {SetDeviceToken(credentials, t),
                                         SetGatewayToken(credentials, t)}
  /\ UNCHANGED << conf, hawkbitURI, sleeping, flags, pc, call, local, exchange,
                  history >>

RestoreEndpoint ==
  /\ pc = "restore"
  /\ \E e \in Endpoints : hawkbitURI' = e
  /\ UNCHANGED << conf, credentials, sleeping, flags, pc, call, local, exchange,
                  history >>

RestoreReturn ==
  /\ pc = "restore"
  /\ IF call = "startup"
       THEN pc' = "begin" /\ UNCHANGED << request, attempt, reply >>
       ELSE pc' = "wait" /\ request' = RetryRequest /\ attempt' = 2 /\ reply' = NoReply
  /\ UNCHANGED << conf, auth, sleeping, flags, call, local, first, history >>

UnwindIntoCallback ==    \* mutant: the callback is entered again when its feedback fails
  IF call \in {"download", "deploymentFeedback"}
    THEN pc' = "callback" /\ call' = "deploymentBase"
    ELSE pc' = "idle" /\ UNCHANGED call

UnwindQuietly ==    \* mutant: a failed download ends the iteration, nobody is told
  /\ pc' = IF call = "download" THEN "pollDone" ELSE "idle"
  /\ UNCHANGED call

\* An exception that leaves a download reaches the callback that started
\* it; any other one leaves run(), with isRunning as it is.
Unwind ==
  IF call = "download"
    THEN pc' = "callback" /\ call' = "deploymentBase"
    ELSE pc' = "idle" /\ UNCHANGED call

RestoreThrow ==
  /\ pc = "restore"
  /\ Unwind
  /\ UNCHANGED quiet

--------------------------------------------------------------------------------
\* doPoll(): the request, and what its answer leads to.
DoPoll ==
  /\ pc = "doPoll"
  /\ StartRequest("poll", hawkbitURI)
  /\ pollsAfterStop' = IF stopAt = "never" \/ pollsAfterStop = 2
                         THEN pollsAfterStop ELSE pollsAfterStop + 1
  /\ waited' = 0
  /\ skipAsked' = FALSE
  /\ processed' = 0 /\ notified' = "nothing"
  /\ UNCHANGED << conf, auth, sleeping, flags, local, stopAt, slept >>

SleepTimeUnchecked(s) == s    \* mutant

SleepTime(s) == IF s > 0 THEN s ELSE defaultSleepTime

ActionIfNotFollowedLast ==    \* mutant: an action is followed only once in a row
  IF reply.link = followURI THEN "none" ELSE reply.action

ActionToFollow == reply.action

PollAnswered ==
  /\ Succeeded("poll")
  /\ currentSleepTime' = SleepTime(reply.sleep)
  /\ followURI' = reply.link
  /\ \/ /\ ActionToFollow = "none"            \* onNoActions()
        /\ pc' = "callback"
        /\ UNCHANGED << call, exchange >>
     \/ /\ ActionToFollow = "configData"      \* onConfigRequest()
        /\ pc' = "callback" /\ call' = "configData"
        /\ UNCHANGED << exchange >>
     \/ /\ ActionToFollow \in {"cancelAction", "deploymentBase"}
        /\ StartRequest(reply.action, reply.link)
  /\ UNCHANGED << conf, auth, ignoreSleep, tick, flags, response, history >>

NoActionsReturn ==
  /\ pc = "callback" /\ call = "poll"
  /\ pc' = "pollDone"
  /\ UNCHANGED << call, quiet >>

\* followConfigData(): data to send is PUT, no data ends the iteration
\* without a look at the response's setIgnoreSleep().
ConfigReturn ==
  /\ pc = "callback" /\ call = "configData"
  /\ \E skip, empty \in BOOLEAN :
       /\ skipAsked' = skip
       /\ IF empty
            THEN /\ pc' = "pollDone"
                 /\ UNCHANGED << call, exchange, response >>
            ELSE /\ response' = [listener |-> FALSE, ignoreSleep |-> skip]
                 /\ StartRequest("configData", followURI)
  /\ UNCHANGED << conf, auth, sleeping, flags, followURI, stopHistory, slept, waited,
                  delivery >>

ConfigAnswered ==
  /\ Succeeded("configData")
  /\ pc' = "pollDone"
  /\ ignoreSleep' = response.ignoreSleep
  /\ UNCHANGED << conf, auth, currentSleepTime, tick, flags, call, local, exchange,
                  history >>

(***************************************************************************)
(* followCancelAction() and followDeploymentBase() go through the same     *)
(* steps: fetch the action, hand it to the callback, send the feedback,    *)
(* tell the delivery listener.                                             *)
(***************************************************************************)
FeedbackOf(c) == IF c = "cancelAction" THEN "cancelFeedback" ELSE "deploymentFeedback"

ActionFetched(c) ==
  /\ Succeeded(c)
  /\ pc' = "callback"
  /\ UNCHANGED << call, quiet >>

SendFeedback(c) ==
  /\ pc = "callback" /\ call = c
  /\ response' \in Response
  /\ skipAsked' = response'.ignoreSleep
  /\ StartRequest(FeedbackOf(c), followURI)
  /\ UNCHANGED << conf, auth, sleeping, flags, followURI, stopHistory, slept, waited,
                  delivery >>

NotifySuccess == IF response.listener THEN "success" ELSE notified

FeedbackDelivered(c) ==
  /\ Succeeded(FeedbackOf(c))
  /\ notified' = NotifySuccess
  /\ ignoreSleep' = response.ignoreSleep
  /\ pc' = "pollDone"
  /\ UNCHANGED << conf, auth, currentSleepTime, tick, flags, call, local, exchange,
                  stopHistory, sleepHistory, processed >>

\* Only http_unexpected_code_exception is caught, and only with a listener
\* to tell; the iteration then ends as if the feedback had been delivered.
CatchEverything == GaveUp /\ call \in Feedbacks /\ response.listener    \* mutant

CatchWithoutListener ==    \* mutant
  GaveUp /\ call \in Feedbacks /\ reply.outcome = "unexpectedCode"

Caught ==
  GaveUp /\ call \in Feedbacks /\ reply.outcome = "unexpectedCode" /\ response.listener

SleepAfterError == ignoreSleep    \* mutant

IgnoreSleepAfterError == response.ignoreSleep

FeedbackRefused(c) ==
  /\ Caught /\ call = FeedbackOf(c)
  /\ notified' = IF response.listener THEN "error" ELSE notified
  /\ ignoreSleep' = IgnoreSleepAfterError
  /\ pc' = "pollDone"
  /\ UNCHANGED << conf, auth, currentSleepTime, tick, flags, call, local, exchange,
                  stopHistory, sleepHistory, processed >>

FollowCancelAction ==
  \/ ActionFetched("cancelAction")
  \/ SendFeedback("cancelAction")
  \/ FeedbackDelivered("cancelAction")
  \/ FeedbackRefused("cancelAction")

FollowDeploymentBase ==
  \/ ActionFetched("deploymentBase")
  \/ SendFeedback("deploymentBase")
  \/ FeedbackDelivered("deploymentBase")
  \/ FeedbackRefused("deploymentBase")

\* A request that failed for good, where nothing catches the exception.
GiveUp ==
  /\ GaveUp /\ ~Caught
  /\ Unwind
  /\ UNCHANGED quiet

\* The deployment callback may download artifacts, one at a time.
Download ==
  /\ pc = "callback" /\ call = "deploymentBase"
  /\ \E l \in Links : StartRequest("download", l)
  /\ UNCHANGED << conf, auth, sleeping, flags, local, history >>

Downloaded ==
  /\ Succeeded("download")
  /\ pc' = "callback" /\ call' = "deploymentBase"
  /\ UNCHANGED quiet

\* A callback throws, or returns no Response (wrong_response is thrown).
CallbackThrow ==
  /\ pc = "callback"
  /\ pc' = "idle"
  /\ UNCHANGED << call, quiet >>

--------------------------------------------------------------------------------
\* The end of the iteration: the pending poll request is dropped, and the
\* thread sleeps second by second unless it may skip the sleep.
PollDone ==
  /\ pc = "pollDone"
  /\ pollRequested' = FALSE
  /\ tick' = 0
  /\ pc' = IF ~ignoreSleep /\ currentSleepTime > 0 THEN "sleepTest" ELSE "loopTest"
  /\ slept' = 0 /\ waited' = 0
  /\ UNCHANGED << conf, auth, currentSleepTime, ignoreSleep, isRunning, call, local,
                  exchange, stopHistory, skipAsked, delivery >>

MustWakeOnStopOnly == ~isRunning    \* mutant

MustWake == ~isRunning \/ pollRequested

SleepTest ==
  /\ pc = "sleepTest"
  /\ pc' = IF tick < currentSleepTime \div 1000 /\ ~MustWake THEN "asleep" ELSE "loopTest"
  /\ UNCHANGED << call, quiet >>

Wake ==
  /\ pc = "asleep"
  /\ pc' = "sleepTest"
  /\ tick' = tick + 1
  /\ slept' = slept + 1
  /\ waited' = IF pollRequested THEN waited + 1 ELSE waited
  /\ UNCHANGED << conf, auth, currentSleepTime, ignoreSleep, flags, call, local,
                  exchange, stopHistory, skipAsked, delivery >>

--------------------------------------------------------------------------------
OtherThread == Stop \/ RequestToPoll

OnAuthError == RestoreTLS \/ RestoreToken \/ RestoreEndpoint

CallbackEnds ==
  \/ NoActionsReturn \/ ConfigReturn
  \/ SendFeedback("cancelAction") \/ SendFeedback("deploymentBase")
  \/ CallbackThrow

\* The steps of the polling thread in library code, once run() was called.
PollingThread ==
  \/ Begin \/ LoopTest \/ DoPoll \/ AuthError \/ GiveUp
  \/ PollAnswered \/ ConfigAnswered
  \/ FollowCancelAction \/ FollowDeploymentBase \/ Downloaded
  \/ PollDone \/ SleepTest \/ Wake

UserCode ==
  \/ Run \/ OnAuthError \/ RestoreReturn \/ RestoreThrow
  \/ NoActionsReturn \/ ConfigReturn \/ CallbackThrow \/ Download

Next == OtherThread \/ UserCode \/ PollingThread \/ Answer

(***************************************************************************)
(* Fairness: the operating system schedules the polling thread, the HTTP   *)
(* library answers or times out, and user callbacks return, a deployment   *)
(* callback after finitely many downloads.  Nobody has to call run(),      *)
(* stop() or requestToPoll().                                              *)
(***************************************************************************)
Fairness ==
  /\ WF_vars(PollingThread)
  /\ WF_vars(Answer)
  /\ WF_vars(RestoreReturn \/ RestoreThrow)
  /\ SF_vars(CallbackEnds)

Spec == Init /\ [][Next]_vars
FairSpec == Spec /\ Fairness

================================================================================
