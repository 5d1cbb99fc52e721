---------------------------- MODULE DDIClientProofs ----------------------------
(***************************************************************************)
(* Safety of the polling client for every set of endpoints, links, tokens, *)
(* key pairs and sleep times.                                              *)
(***************************************************************************)
EXTENDS DDIClientProperties, TLAPS

USE DEF vars, conf, auth, sleeping, flags, exchange, local, history, quiet, stopHistory,
        sleepHistory, delivery, ActionToFollow

(***************************************************************************)
(* What the operations on credentials return.                              *)
(***************************************************************************)
LEMMA CredentialsType ==
  ASSUME NEW c \in Credential
  PROVE  /\ \A k \in Keypairs : SetTLS(c, k) \in Credential
         /\ \A t \in Tokens : /\ SetDeviceToken(c, t) \in Credential
                             /\ SetGatewayToken(c, t) \in Credential
                             /\ AddHeader(c, "custom", t) \in Credential
<1>1. \A k \in Keypairs : SetTLS(c, k) \in Credential
  BY DEF SetTLS, Credential
<1>2. ASSUME NEW type \in AuthTypes, NEW t \in Tokens
      PROVE  AddHeader(c, type, t) \in Credential
  <2> DEFINE h == [type |-> type, token |-> t]
  <2>1. h \in Header
    BY DEF Header
  <2>2. c.authorization \in Seq(Header)
    BY DEF Credential
  <2>3. Append(c.authorization, h) \in Seq(Header)
    BY <2>1, <2>2
  <2> HIDE DEF h
  <2>4. [c EXCEPT !.authorization = Append(@, h)] \in Credential
    BY <2>3 DEF Credential
  <2> QED
    BY <2>4 DEF AddHeader, h
<1>3. ASSUME NEW d \in Credential
      PROVE  [d EXCEPT !.mTLSKeypair = NoKeypair] \in Credential
  BY DEF Credential
<1> QED
  BY <1>1, <1>2, <1>3 DEF SetDeviceToken, SetGatewayToken, AuthTypes

LEMMA NoCredentialsType == NoCredentials \in Credential
  BY DEF NoCredentials, Credential

LEMMA CustomCredentialsType == CustomCredentials \subseteq Credential
  BY CredentialsType, NoCredentialsType DEF CustomCredentials

LEMMA BuiltCredentialsType == BuiltCredentials \subseteq Credential
  BY CustomCredentialsType, CredentialsType DEF BuiltCredentials

(***************************************************************************)
(* Type correctness.                                                       *)
(***************************************************************************)
LEMMA InitType == Init => TypeOK
<1> SUFFICES ASSUME Init PROVE TypeOK
  OBVIOUS
<1>1. credentials \in Credential
  BY BuiltCredentialsType DEF Init, Built
<1>2. NoRequest \in Request
  BY NoCredentialsType DEF NoRequest, Request, URIs
<1>3. NoReply \in Reply /\ NoResponse \in Response
  BY DEF NoReply, Answered, Reply, Actions, NoResponse, Response
<1>4. "idle" \in PCs /\ "startup" \in Calls
  BY DEF PCs, Calls
<1>5. currentSleepTime \in DefaultSleepTimes \cup {s \in ServerSleepTimes : s > 0}
  BY DEF Init, Built
<1>6. tick \in Nat /\ pollsAfterStop \in 0..2 /\ slept \in Nat /\ waited \in Nat
      /\ processed \in Nat /\ attempt \in {1, 2}
  BY DEF Init, Built
<1> QED
  BY <1>1, <1>2, <1>3, <1>4, <1>5, <1>6, Zenon DEF Init, Built, TypeOK, URIs

LEMMA StartRequestType ==
  ASSUME TypeOK, NEW c \in Calls, NEW u \in URIs, StartRequest(c, u)
  PROVE  /\ pc' \in PCs /\ call' \in Calls /\ attempt' \in {1, 2}
         /\ request' \in Request /\ first' \in Request /\ reply' \in Reply
  BY DEF StartRequest, TypeOK, PCs, Request, NoReply, Answered, Reply, Actions

(***************************************************************************)
(* Next as a list of actions, for the proofs that go through it.           *)
(***************************************************************************)
LEMMA NextActions ==
  Next =>
    \/ Stop \/ RequestToPoll \/ Run \/ Begin \/ LoopTest \/ DoPoll \/ Answer
    \/ AuthError \/ RestoreTLS \/ RestoreToken \/ RestoreEndpoint \/ RestoreReturn
    \/ RestoreThrow \/ PollAnswered \/ NoActionsReturn \/ ConfigReturn \/ ConfigAnswered
    \/ \E c \in {"cancelAction", "deploymentBase"} :
         ActionFetched(c) \/ SendFeedback(c) \/ FeedbackDelivered(c) \/ FeedbackRefused(c)
    \/ GiveUp \/ Download \/ Downloaded \/ CallbackThrow \/ PollDone \/ SleepTest \/ Wake
  BY DEF Next, OtherThread, UserCode, OnAuthError, PollingThread, FollowCancelAction,
         FollowDeploymentBase

LEMMA NextType == TypeOK /\ [Next]_vars => TypeOK'
<1> SUFFICES ASSUME TypeOK, [Next]_vars PROVE TypeOK'
  OBVIOUS
<1>1. CASE Stop
  <2>1. stopAt' \in {"never", "starting", "inLoop"} /\ pollsAfterStop' \in 0..2
    BY <1>1 DEF Stop, TypeOK
  <2>2. isRunning' \in BOOLEAN
    BY <1>1 DEF Stop
  <2> QED
    BY <2>1, <2>2, <1>1, Zenon DEF Stop, TypeOK
<1>2. CASE RequestToPoll
  BY <1>2 DEF RequestToPoll, TypeOK
<1>3. CASE Run
  BY <1>3 DEF Run, TypeOK, PCs, Calls
<1>4. CASE Begin
  BY <1>4 DEF Begin, TypeOK, PCs
<1>5. CASE LoopTest
  BY <1>5 DEF LoopTest, InitialIgnoreSleep, TypeOK, PCs
<1>6. CASE DoPoll
  <2>1. hawkbitURI \in URIs /\ "poll" \in Calls
    BY DEF TypeOK, URIs, Calls
  <2>2. /\ pc' \in PCs /\ call' \in Calls /\ attempt' \in {1, 2}
        /\ request' \in Request /\ first' \in Request /\ reply' \in Reply
    BY <2>1, <1>6, StartRequestType DEF DoPoll
  <2>3. pollsAfterStop' \in 0..2
    BY <1>6 DEF DoPoll, TypeOK
  <2> QED
    BY <2>2, <2>3, <1>6 DEF DoPoll, TypeOK
<1>7. CASE Answer
  <2>1. reply' \in Reply
    BY <1>7 DEF Answer, Answers, Answered, PollReplies, Failures, Reply, Actions
  <2>2. processed' \in Nat
    BY <1>7 DEF Answer, TypeOK
  <2> QED
    BY <2>1, <2>2, <1>7 DEF Answer, TypeOK
<1>8. CASE AuthError
  BY <1>8 DEF AuthError, TypeOK, PCs
<1>9. CASE RestoreTLS
  BY <1>9, CredentialsType DEF RestoreTLS, TypeOK
<1>10. CASE RestoreToken
  BY <1>10, CredentialsType DEF RestoreToken, TypeOK
<1>11. CASE RestoreEndpoint
  BY <1>11 DEF RestoreEndpoint, TypeOK
<1>12. CASE RestoreReturn
  <2>1. RetryRequest \in Request
    BY DEF RetryRequest, RequestPath, Request, TypeOK, URIs
  <2>2. NoReply \in Reply
    BY DEF NoReply, Answered, Reply, Actions
  <2> QED
    BY <2>1, <2>2, <1>12 DEF RestoreReturn, TypeOK, PCs
<1>13. CASE RestoreThrow
  BY <1>13 DEF RestoreThrow, Unwind, TypeOK, PCs, Calls
<1>14. CASE PollAnswered
  <2>1. currentSleepTime' \in DefaultSleepTimes \cup {s \in ServerSleepTimes : s > 0}
    BY <1>14, SleepAssumption DEF PollAnswered, SleepTime, TypeOK, Reply
  <2>2. followURI' \in URIs /\ reply.link \in URIs
    BY <1>14 DEF PollAnswered, TypeOK, Reply, URIs
  <2>3. /\ pc' \in PCs /\ call' \in Calls /\ attempt' \in {1, 2}
        /\ request' \in Request /\ first' \in Request /\ reply' \in Reply
    <3>1. CASE reply.action \in {"cancelAction", "deploymentBase"}
               /\ StartRequest(reply.action, reply.link)
      <4>1. reply.action \in Calls
        BY <3>1 DEF Calls
      <4> QED
        BY <4>1, <3>1, <2>2, StartRequestType
    <3> QED
      BY <3>1, <1>14 DEF PollAnswered, TypeOK, PCs, Calls
  <2> QED
    BY <2>1, <2>2, <2>3, <1>14 DEF PollAnswered, TypeOK
<1>15. CASE NoActionsReturn
  BY <1>15 DEF NoActionsReturn, TypeOK, PCs
<1>16. CASE ConfigReturn
  <2>1. followURI \in URIs /\ "configData" \in Calls
    BY DEF TypeOK, Calls
  <2>2. PICK skip \in BOOLEAN, empty \in BOOLEAN :
          /\ skipAsked' = skip
          /\ \/ /\ pc' = "pollDone"
                /\ UNCHANGED << call, request, attempt, first, reply, response >>
             \/ /\ response' = [listener |-> FALSE, ignoreSleep |-> skip]
                /\ StartRequest("configData", followURI)
    BY <1>16 DEF ConfigReturn
  <2>3. response' \in Response /\ skipAsked' \in BOOLEAN
    <3>1. [listener |-> FALSE, ignoreSleep |-> skip] \in Response
      BY DEF Response
    <3> QED
      BY <2>2, <3>1, Zenon DEF TypeOK
  <2>4. /\ pc' \in PCs /\ call' \in Calls /\ attempt' \in {1, 2}
        /\ request' \in Request /\ first' \in Request /\ reply' \in Reply
    BY <2>1, <2>2, StartRequestType DEF TypeOK, PCs
  <2>5. UNCHANGED << conf, auth, sleeping, flags, followURI, stopHistory, slept, waited, delivery >>
    BY <1>16 DEF ConfigReturn
  <2> QED
    BY <2>3, <2>4, <2>5 DEF TypeOK
<1>17. CASE ConfigAnswered
  BY <1>17 DEF ConfigAnswered, TypeOK, Response, PCs
<1>18. CASE GiveUp
  BY <1>18 DEF GiveUp, Unwind, TypeOK, PCs, Calls
<1>19. CASE Download
  <2>1. Links \subseteq URIs /\ "download" \in Calls
    BY DEF URIs, Calls
  <2> QED
    BY <2>1, <1>19, StartRequestType DEF Download, TypeOK
<1>20. CASE Downloaded
  BY <1>20 DEF Downloaded, TypeOK, PCs, Calls
<1>21. CASE CallbackThrow
  BY <1>21 DEF CallbackThrow, TypeOK, PCs
<1>22. CASE PollDone
  BY <1>22 DEF PollDone, TypeOK, PCs
<1>23. CASE SleepTest
  BY <1>23 DEF SleepTest, TypeOK, PCs
<1>24. CASE Wake
  BY <1>24 DEF Wake, TypeOK, PCs
<1>25. ASSUME NEW c \in {"cancelAction", "deploymentBase"},
             ActionFetched(c) \/ SendFeedback(c) \/ FeedbackDelivered(c) \/ FeedbackRefused(c)
      PROVE  TypeOK'
  <2>1. CASE ActionFetched(c)
    BY <2>1 DEF ActionFetched, TypeOK, PCs
  <2>2. CASE SendFeedback(c)
    <3>1. followURI \in URIs /\ FeedbackOf(c) \in Calls
      BY DEF TypeOK, FeedbackOf, Calls, Feedbacks
    <3> QED
      BY <3>1, <2>2, StartRequestType DEF SendFeedback, TypeOK, Response
  <2>3. CASE FeedbackDelivered(c)
    BY <2>3 DEF FeedbackDelivered, NotifySuccess, TypeOK, Response, PCs
  <2>4. CASE FeedbackRefused(c)
    BY <2>4 DEF FeedbackRefused, IgnoreSleepAfterError, TypeOK, Response, PCs
  <2> QED
    BY <1>25, <2>1, <2>2, <2>3, <2>4
<1>26. CASE UNCHANGED vars
  BY <1>26 DEF TypeOK
<1> QED
  BY <1>1, <1>2, <1>3, <1>4, <1>5, <1>6, <1>7, <1>8, <1>9, <1>10, <1>11, <1>12, <1>13, <1>14, <1>15, <1>16, <1>17, <1>18, <1>19, <1>20, <1>21, <1>22, <1>23, <1>24, <1>25, <1>26, NextActions

\* Whatever the constants, the state keeps its type: in particular the polling interval
\* is always a default one or a positive one of the server.
THEOREM TypeCorrect == Spec => []TypeOK
<1>1. Init => TypeOK
  BY InitType
<1>2. TypeOK /\ [Next]_vars => TypeOK'
  BY NextType
<1> QED
  BY <1>1, <1>2, PTL DEF Spec

(***************************************************************************)
(* stop().  The bound on the polls after a stop() rests on three facts:    *)
(* isRunning stays false from a stop() in the loop to the end of run(),    *)
(* since only the start of run() sets it; nothing but the loop test leads  *)
(* to a poll; and run() is not in its start once it is in the loop.        *)
(***************************************************************************)
StopInv ==
  /\ pc = "wait" => call # "startup"
  /\ Starting => stopAt # "inLoop"
  /\ stopAt = "inLoop" => ~isRunning /\ pollsAfterStop <= 1
  /\ stopAt = "inLoop" /\ pc = "doPoll" => pollsAfterStop = 0

LEMMA NextStop == TypeOK /\ StopInv /\ [Next]_vars => StopInv'
<1> SUFFICES ASSUME TypeOK, StopInv, [Next]_vars PROVE StopInv'
  OBVIOUS
<1>1. CASE Stop
  BY <1>1 DEF Stop, StopInv, Starting, TypeOK
<1>2. CASE RequestToPoll
  BY <1>2 DEF RequestToPoll, StopInv, Starting, TypeOK
<1>3. CASE Run
  BY <1>3 DEF Run, StopInv, Starting, TypeOK
<1>4. CASE Begin
  BY <1>4 DEF Begin, StopInv, Starting, TypeOK
<1>5. CASE LoopTest
  BY <1>5 DEF LoopTest, KeepsRunning, StopInv, Starting, TypeOK
<1>6. CASE DoPoll
  BY <1>6 DEF DoPoll, StartRequest, StopInv, Starting, TypeOK
<1>7. CASE Answer
  BY <1>7 DEF Answer, StopInv, Starting, TypeOK
<1>8. CASE AuthError
  BY <1>8 DEF AuthError, StopInv, Starting, TypeOK
<1>9. CASE RestoreTLS
  BY <1>9 DEF RestoreTLS, StopInv, Starting, TypeOK
<1>10. CASE RestoreToken
  BY <1>10 DEF RestoreToken, StopInv, Starting, TypeOK
<1>11. CASE RestoreEndpoint
  BY <1>11 DEF RestoreEndpoint, StopInv, Starting, TypeOK
<1>12. CASE RestoreReturn
  BY <1>12 DEF RestoreReturn, StopInv, Starting, TypeOK
<1>13. CASE RestoreThrow
  BY <1>13 DEF RestoreThrow, Unwind, StopInv, Starting, TypeOK
<1>14. CASE PollAnswered
  BY <1>14 DEF PollAnswered, StartRequest, StopInv, Starting, TypeOK
<1>15. CASE NoActionsReturn
  BY <1>15 DEF NoActionsReturn, StopInv, Starting, TypeOK
<1>16. CASE ConfigReturn
  BY <1>16 DEF ConfigReturn, StartRequest, StopInv, Starting, TypeOK
<1>17. CASE ConfigAnswered
  BY <1>17 DEF ConfigAnswered, StopInv, Starting, TypeOK
<1>18. CASE GiveUp
  BY <1>18 DEF GiveUp, Unwind, StopInv, Starting, TypeOK
<1>19. CASE Download
  BY <1>19 DEF Download, StartRequest, StopInv, Starting, TypeOK
<1>20. CASE Downloaded
  BY <1>20 DEF Downloaded, StopInv, Starting, TypeOK
<1>21. CASE CallbackThrow
  BY <1>21 DEF CallbackThrow, StopInv, Starting, TypeOK
<1>22. CASE PollDone
  BY <1>22 DEF PollDone, StopInv, Starting, TypeOK
<1>23. CASE SleepTest
  BY <1>23 DEF SleepTest, StopInv, Starting, TypeOK
<1>24. CASE Wake
  BY <1>24 DEF Wake, StopInv, Starting, TypeOK
<1>25. ASSUME NEW c \in {"cancelAction", "deploymentBase"},
             ActionFetched(c) \/ SendFeedback(c) \/ FeedbackDelivered(c) \/ FeedbackRefused(c)
      PROVE  StopInv'
  <2>1. CASE ActionFetched(c)
    BY <2>1 DEF ActionFetched, StopInv, Starting, TypeOK
  <2>2. CASE SendFeedback(c)
    BY <2>2 DEF SendFeedback, StartRequest, FeedbackOf, StopInv, Starting, TypeOK
  <2>3. CASE FeedbackDelivered(c)
    BY <2>3 DEF FeedbackDelivered, StopInv, Starting, TypeOK
  <2>4. CASE FeedbackRefused(c)
    BY <2>4 DEF FeedbackRefused, StopInv, Starting, TypeOK
  <2> QED
    BY <1>25, <2>1, <2>2, <2>3, <2>4
<1>26. CASE UNCHANGED vars
  BY <1>26 DEF StopInv, Starting, TypeOK
<1> QED
  BY <1>1, <1>2, <1>3, <1>4, <1>5, <1>6, <1>7, <1>8, <1>9, <1>10, <1>11, <1>12, <1>13,
     <1>14, <1>15, <1>16, <1>17, <1>18, <1>19, <1>20, <1>21, <1>22, <1>23, <1>24,
     <1>25, <1>26, NextActions

\* After stop() in the loop at most one more poll begins, whatever the callbacks, the
\* server and the other thread do.
THEOREM StopEndsPollingHolds == Spec => []StopEndsPolling
<1>1. Init => StopInv
  BY DEF Init, Built, StopInv, Starting
<1>2. TypeOK /\ StopInv /\ [Next]_vars => StopInv'
  BY NextStop
<1>3. StopInv => StopEndsPolling
  BY DEF StopInv, StopEndsPolling
<1> QED
  BY <1>1, <1>2, <1>3, TypeCorrect, PTL DEF Spec

(***************************************************************************)
(* requestToPoll().  A request that finds the thread asleep has waited for *)
(* nothing yet, and the loop test that follows that second ends the sleep. *)
(***************************************************************************)
PollInv ==
  /\ waited <= 1
  /\ ~pollRequested \/ pc = "asleep" => waited = 0

LEMMA NextPoll == TypeOK /\ PollInv /\ [Next]_vars => PollInv'
<1> SUFFICES ASSUME TypeOK, PollInv, [Next]_vars PROVE PollInv'
  OBVIOUS
<1>1. CASE Stop
  BY <1>1 DEF Stop, PollInv, TypeOK
<1>2. CASE RequestToPoll
  BY <1>2 DEF RequestToPoll, PollInv, TypeOK
<1>3. CASE Run
  BY <1>3 DEF Run, PollInv, TypeOK
<1>4. CASE Begin
  BY <1>4 DEF Begin, PollInv, TypeOK
<1>5. CASE LoopTest
  BY <1>5 DEF LoopTest, PollInv, TypeOK
<1>6. CASE DoPoll
  BY <1>6 DEF DoPoll, StartRequest, PollInv, TypeOK
<1>7. CASE Answer
  BY <1>7 DEF Answer, PollInv, TypeOK
<1>8. CASE AuthError
  BY <1>8 DEF AuthError, PollInv, TypeOK
<1>9. CASE RestoreTLS
  BY <1>9 DEF RestoreTLS, PollInv, TypeOK
<1>10. CASE RestoreToken
  BY <1>10 DEF RestoreToken, PollInv, TypeOK
<1>11. CASE RestoreEndpoint
  BY <1>11 DEF RestoreEndpoint, PollInv, TypeOK
<1>12. CASE RestoreReturn
  BY <1>12 DEF RestoreReturn, PollInv, TypeOK
<1>13. CASE RestoreThrow
  BY <1>13 DEF RestoreThrow, Unwind, PollInv, TypeOK
<1>14. CASE PollAnswered
  BY <1>14 DEF PollAnswered, StartRequest, PollInv, TypeOK
<1>15. CASE NoActionsReturn
  BY <1>15 DEF NoActionsReturn, PollInv, TypeOK
<1>16. CASE ConfigReturn
  BY <1>16 DEF ConfigReturn, StartRequest, PollInv, TypeOK
<1>17. CASE ConfigAnswered
  BY <1>17 DEF ConfigAnswered, PollInv, TypeOK
<1>18. CASE GiveUp
  BY <1>18 DEF GiveUp, Unwind, PollInv, TypeOK
<1>19. CASE Download
  BY <1>19 DEF Download, StartRequest, PollInv, TypeOK
<1>20. CASE Downloaded
  BY <1>20 DEF Downloaded, PollInv, TypeOK
<1>21. CASE CallbackThrow
  BY <1>21 DEF CallbackThrow, PollInv, TypeOK
<1>22. CASE PollDone
  BY <1>22 DEF PollDone, PollInv, TypeOK
<1>23. CASE SleepTest
  BY <1>23 DEF SleepTest, MustWake, PollInv, TypeOK
<1>24. CASE Wake
  BY <1>24 DEF Wake, PollInv, TypeOK
<1>25. ASSUME NEW c \in {"cancelAction", "deploymentBase"},
             ActionFetched(c) \/ SendFeedback(c) \/ FeedbackDelivered(c) \/ FeedbackRefused(c)
      PROVE  PollInv'
  <2>1. CASE ActionFetched(c)
    BY <2>1 DEF ActionFetched, PollInv, TypeOK
  <2>2. CASE SendFeedback(c)
    BY <2>2 DEF SendFeedback, StartRequest, FeedbackOf, PollInv, TypeOK
  <2>3. CASE FeedbackDelivered(c)
    BY <2>3 DEF FeedbackDelivered, PollInv, TypeOK
  <2>4. CASE FeedbackRefused(c)
    BY <2>4 DEF FeedbackRefused, PollInv, TypeOK
  <2> QED
    BY <1>25, <2>1, <2>2, <2>3, <2>4
<1>26. CASE UNCHANGED vars
  BY <1>26 DEF PollInv, TypeOK
<1> QED
  BY <1>1, <1>2, <1>3, <1>4, <1>5, <1>6, <1>7, <1>8, <1>9, <1>10, <1>11, <1>12, <1>13,
     <1>14, <1>15, <1>16, <1>17, <1>18, <1>19, <1>20, <1>21, <1>22, <1>23, <1>24,
     <1>25, <1>26, NextActions

\* A poll requested during the sleep begins after at most one more second of it.
THEOREM PollRequestServedHolds == Spec => []PollRequestServed
<1>1. Init => PollInv
  BY DEF Init, Built, PollInv
<1>2. TypeOK /\ PollInv /\ [Next]_vars => PollInv'
  BY NextPoll
<1>3. PollInv => PollRequestServed
  BY DEF PollInv, PollRequestServed
<1> QED
  BY <1>1, <1>2, <1>3, TypeCorrect, PTL DEF Spec

(***************************************************************************)
(* retryHandler().  While a request other than a poll is in retryHandler,  *)
(* its path is the one its caller's lambda will name again.                *)
(***************************************************************************)
RetryInv ==
  /\ pc = "wait" => request.credentials = credentials /\ call # "startup"
  /\ pc \in {"wait", "restore"} /\ call \notin {"startup", "poll"} =>
       /\ request.host = first.host /\ request.path = first.path
       /\ call # "download" => request.path = followURI

LEMMA NextRetry == TypeOK /\ RetryInv /\ [Next]_vars => RetryInv'
<1> SUFFICES ASSUME TypeOK, RetryInv, [Next]_vars PROVE RetryInv'
  OBVIOUS
<1>1. CASE Stop
  BY <1>1 DEF Stop, RetryInv
<1>2. CASE RequestToPoll
  BY <1>2 DEF RequestToPoll, RetryInv
<1>3. CASE Run
  BY <1>3 DEF Run, RetryInv
<1>4. CASE Begin
  BY <1>4 DEF Begin, RetryInv
<1>5. CASE LoopTest
  BY <1>5 DEF LoopTest, RetryInv
<1>6. CASE DoPoll
  BY <1>6 DEF DoPoll, StartRequest, RetryInv
<1>7. CASE Answer
  BY <1>7 DEF Answer, RetryInv
<1>8. CASE AuthError
  BY <1>8 DEF AuthError, RetryInv
<1>9. CASE RestoreTLS
  BY <1>9 DEF RestoreTLS, RetryInv
<1>10. CASE RestoreToken
  BY <1>10 DEF RestoreToken, RetryInv
<1>11. CASE RestoreEndpoint
  BY <1>11 DEF RestoreEndpoint, RetryInv
<1>12. CASE RestoreReturn
  BY <1>12 DEF RestoreReturn, RetryRequest, RequestPath, RetryInv
<1>13. CASE RestoreThrow
  BY <1>13 DEF RestoreThrow, Unwind, RetryInv
<1>14. CASE PollAnswered
  <2>1. CASE StartRequest(reply.action, reply.link) /\ reply.action # "download"
    BY <1>14, <2>1 DEF PollAnswered, StartRequest, RetryInv
  <2> QED
    BY <1>14, <2>1 DEF PollAnswered, Succeeded, RetryInv
<1>15. CASE NoActionsReturn
  BY <1>15 DEF NoActionsReturn, RetryInv
<1>16. CASE ConfigReturn
  BY <1>16 DEF ConfigReturn, StartRequest, RetryInv
<1>17. CASE ConfigAnswered
  BY <1>17 DEF ConfigAnswered, RetryInv
<1>18. CASE GiveUp
  BY <1>18 DEF GiveUp, Unwind, RetryInv
<1>19. CASE Download
  BY <1>19 DEF Download, StartRequest, RetryInv
<1>20. CASE Downloaded
  BY <1>20 DEF Downloaded, RetryInv
<1>21. CASE CallbackThrow
  BY <1>21 DEF CallbackThrow, RetryInv
<1>22. CASE PollDone
  BY <1>22 DEF PollDone, RetryInv
<1>23. CASE SleepTest
  BY <1>23 DEF SleepTest, RetryInv
<1>24. CASE Wake
  BY <1>24 DEF Wake, RetryInv
<1>25. ASSUME NEW c \in {"cancelAction", "deploymentBase"},
             ActionFetched(c) \/ SendFeedback(c) \/ FeedbackDelivered(c) \/ FeedbackRefused(c)
      PROVE  RetryInv'
  <2>1. CASE ActionFetched(c)
    BY <2>1 DEF ActionFetched, RetryInv
  <2>2. CASE SendFeedback(c)
    BY <2>2 DEF SendFeedback, StartRequest, FeedbackOf, RetryInv
  <2>3. CASE FeedbackDelivered(c)
    BY <2>3 DEF FeedbackDelivered, RetryInv
  <2>4. CASE FeedbackRefused(c)
    BY <2>4 DEF FeedbackRefused, RetryInv
  <2> QED
    BY <1>25, <2>1, <2>2, <2>3, <2>4
<1>26. CASE UNCHANGED vars
  BY <1>26 DEF RetryInv
<1> QED
  BY <1>1, <1>2, <1>3, <1>4, <1>5, <1>6, <1>7, <1>8, <1>9, <1>10, <1>11, <1>12, <1>13,
     <1>14, <1>15, <1>16, <1>17, <1>18, <1>19, <1>20, <1>21, <1>22, <1>23, <1>24,
     <1>25, <1>26, NextActions

\* The retry of a request other than a poll goes to the host and path of the first attempt,
\* with the credentials onAuthError left.
THEOREM RetryRepeatsRequestHolds == Spec => []RetryRepeatsRequest
<1>1. Init => RetryInv
  BY DEF Init, Built, RetryInv
<1>2. TypeOK /\ RetryInv /\ [Next]_vars => RetryInv'
  BY NextRetry
<1>3. RetryInv => RetryRepeatsRequest
  BY DEF RetryInv, RetryRepeatsRequest
<1> QED
  BY <1>1, <1>2, <1>3, TypeCorrect, PTL DEF Spec

(***************************************************************************)
(* Delivery.  Until a feedback is sent hawkBit has taken nothing in and    *)
(* the listener has heard nothing; an answer other than 200 to a feedback, *)
(* an error of the HTTP library aside, tells that it was not taken in.     *)
(***************************************************************************)
InRequest == pc \in {"wait", "restore", "callback"} /\ call # "startup"

DeliveryInv ==
  /\ pc \in {"wait", "callback"} => call # "startup"
  /\ pc = "callback" => call \notin Feedbacks
  /\ InRequest => notified = "nothing"
  /\ InRequest /\ call \notin Feedbacks => processed = 0
  /\ pc = "restore" /\ call \in Feedbacks => processed = 0
  /\ pc = "wait" /\ call \in Feedbacks =>
       /\ reply.outcome = "ok" => processed = 1
       /\ reply.outcome \in {"none", "malformed", "unauthorized", "unexpectedCode"} => processed = 0
  /\ DeliveryReportedTruthfully
  /\ NoSilentFeedbackLoss

LEMMA NextDelivery == TypeOK /\ DeliveryInv /\ [Next]_vars => DeliveryInv'
<1> SUFFICES ASSUME TypeOK, DeliveryInv, [Next]_vars PROVE DeliveryInv'
  OBVIOUS
<1>1. CASE Stop
  BY <1>1 DEF Stop, DeliveryInv, InRequest, Feedbacks, DeliveryReportedTruthfully,
              NoSilentFeedbackLoss, TypeOK
<1>2. CASE RequestToPoll
  BY <1>2 DEF RequestToPoll, DeliveryInv, InRequest, Feedbacks,
              DeliveryReportedTruthfully, NoSilentFeedbackLoss, TypeOK
<1>3. CASE Run
  BY <1>3 DEF Run, DeliveryInv, InRequest, Feedbacks, DeliveryReportedTruthfully,
              NoSilentFeedbackLoss, TypeOK
<1>4. CASE Begin
  BY <1>4 DEF Begin, DeliveryInv, InRequest, Feedbacks, DeliveryReportedTruthfully,
              NoSilentFeedbackLoss, TypeOK
<1>5. CASE LoopTest
  BY <1>5 DEF LoopTest, DeliveryInv, InRequest, Feedbacks, DeliveryReportedTruthfully,
              NoSilentFeedbackLoss, TypeOK
<1>6. CASE DoPoll
  BY <1>6 DEF DoPoll, StartRequest, NoReply, Answered, DeliveryInv, InRequest,
              Feedbacks, DeliveryReportedTruthfully, NoSilentFeedbackLoss, TypeOK
<1>7. CASE Answer
  <2> DEFINE o == reply'.outcome
  <2>1. /\ pc = "wait" /\ pc' = pc /\ call' = call /\ reply = NoReply
        /\ notified' = notified /\ call # "startup"
    BY <1>7 DEF Answer, DeliveryInv
  <2>2. notified = "nothing" /\ processed = 0
    BY <2>1 DEF DeliveryInv, InRequest, NoReply, Answered
  <2>3. /\ call \in Feedbacks /\ o = "ok" => processed' = 1
        /\ call \in Feedbacks /\ o \in {"none", "malformed", "unauthorized", "unexpectedCode"}
             => processed' = 0
        /\ call \notin Feedbacks => processed' = 0
        /\ processed' <= 1
    BY <1>7, <2>2 DEF Answer
  <2> QED
    BY <2>1, <2>2, <2>3
       DEF DeliveryInv, InRequest, DeliveryReportedTruthfully, NoSilentFeedbackLoss
<1>8. CASE AuthError
  BY <1>8 DEF AuthError, DeliveryInv, InRequest, Feedbacks, DeliveryReportedTruthfully,
              NoSilentFeedbackLoss, TypeOK
<1>9. CASE RestoreTLS
  BY <1>9 DEF RestoreTLS, DeliveryInv, InRequest, Feedbacks,
              DeliveryReportedTruthfully, NoSilentFeedbackLoss, TypeOK
<1>10. CASE RestoreToken
  BY <1>10 DEF RestoreToken, DeliveryInv, InRequest, Feedbacks,
               DeliveryReportedTruthfully, NoSilentFeedbackLoss, TypeOK
<1>11. CASE RestoreEndpoint
  BY <1>11 DEF RestoreEndpoint, DeliveryInv, InRequest, Feedbacks,
               DeliveryReportedTruthfully, NoSilentFeedbackLoss, TypeOK
<1>12. CASE RestoreReturn
  BY <1>12 DEF RestoreReturn, NoReply, Answered, DeliveryInv, InRequest, Feedbacks,
               DeliveryReportedTruthfully, NoSilentFeedbackLoss, TypeOK
<1>13. CASE RestoreThrow
  BY <1>13 DEF RestoreThrow, Unwind, DeliveryInv, InRequest, Feedbacks,
               DeliveryReportedTruthfully, NoSilentFeedbackLoss, TypeOK
<1>14. CASE PollAnswered
  BY <1>14 DEF PollAnswered, StartRequest, NoReply, Answered, Succeeded, DeliveryInv,
               InRequest, Feedbacks, DeliveryReportedTruthfully, NoSilentFeedbackLoss,
               TypeOK
<1>15. CASE NoActionsReturn
  BY <1>15 DEF NoActionsReturn, DeliveryInv, InRequest, Feedbacks,
               DeliveryReportedTruthfully, NoSilentFeedbackLoss, TypeOK
<1>16. CASE ConfigReturn
  BY <1>16 DEF ConfigReturn, StartRequest, NoReply, Answered, DeliveryInv, InRequest,
               Feedbacks, DeliveryReportedTruthfully, NoSilentFeedbackLoss, TypeOK
<1>17. CASE ConfigAnswered
  BY <1>17 DEF ConfigAnswered, Succeeded, DeliveryInv, InRequest, Feedbacks,
               DeliveryReportedTruthfully, NoSilentFeedbackLoss, TypeOK
<1>18. CASE GiveUp
  BY <1>18 DEF GiveUp, Unwind, GaveUp, Caught, DeliveryInv, InRequest, Feedbacks,
               DeliveryReportedTruthfully, NoSilentFeedbackLoss, TypeOK
<1>19. CASE Download
  BY <1>19 DEF Download, StartRequest, NoReply, Answered, DeliveryInv, InRequest,
               Feedbacks, DeliveryReportedTruthfully, NoSilentFeedbackLoss, TypeOK
<1>20. CASE Downloaded
  BY <1>20 DEF Downloaded, Succeeded, DeliveryInv, InRequest, Feedbacks,
               DeliveryReportedTruthfully, NoSilentFeedbackLoss, TypeOK
<1>21. CASE CallbackThrow
  BY <1>21 DEF CallbackThrow, DeliveryInv, InRequest, Feedbacks,
               DeliveryReportedTruthfully, NoSilentFeedbackLoss, TypeOK
<1>22. CASE PollDone
  BY <1>22 DEF PollDone, DeliveryInv, InRequest, Feedbacks, DeliveryReportedTruthfully,
               NoSilentFeedbackLoss, TypeOK
<1>23. CASE SleepTest
  BY <1>23 DEF SleepTest, DeliveryInv, InRequest, Feedbacks,
               DeliveryReportedTruthfully, NoSilentFeedbackLoss, TypeOK
<1>24. CASE Wake
  BY <1>24 DEF Wake, DeliveryInv, InRequest, Feedbacks, DeliveryReportedTruthfully,
               NoSilentFeedbackLoss, TypeOK
<1>25. ASSUME NEW c \in {"cancelAction", "deploymentBase"},
             ActionFetched(c) \/ SendFeedback(c) \/ FeedbackDelivered(c) \/ FeedbackRefused(c)
      PROVE  DeliveryInv'
  <2>1. CASE ActionFetched(c)
    BY <2>1 DEF ActionFetched, Succeeded, DeliveryInv, InRequest, Feedbacks,
                DeliveryReportedTruthfully, NoSilentFeedbackLoss, TypeOK
  <2>2. CASE SendFeedback(c)
    BY <2>2 DEF SendFeedback, StartRequest, FeedbackOf, NoReply, Answered, DeliveryInv,
                InRequest, Feedbacks, DeliveryReportedTruthfully, NoSilentFeedbackLoss,
                TypeOK
  <2>3. CASE FeedbackDelivered(c)
    BY <2>3 DEF FeedbackDelivered, Succeeded, FeedbackOf, NotifySuccess, DeliveryInv,
                InRequest, Feedbacks, DeliveryReportedTruthfully, NoSilentFeedbackLoss,
                TypeOK
  <2>4. CASE FeedbackRefused(c)
    BY <2>4 DEF FeedbackRefused, GaveUp, Caught, FeedbackOf, DeliveryInv, InRequest,
                Feedbacks, DeliveryReportedTruthfully, NoSilentFeedbackLoss, TypeOK
  <2> QED
    BY <1>25, <2>1, <2>2, <2>3, <2>4
<1>26. CASE UNCHANGED vars
  BY <1>26 DEF DeliveryInv, InRequest, Feedbacks, DeliveryReportedTruthfully,
               NoSilentFeedbackLoss, TypeOK
<1> QED
  BY <1>1, <1>2, <1>3, <1>4, <1>5, <1>6, <1>7, <1>8, <1>9, <1>10, <1>11, <1>12, <1>13,
     <1>14, <1>15, <1>16, <1>17, <1>18, <1>19, <1>20, <1>21, <1>22, <1>23, <1>24,
     <1>25, <1>26, NextActions

\* The listener is told success only of a feedback hawkBit took in and error only of one it
\* did not, and no feedback is taken in twice.
THEOREM DeliveryReportedTruthfullyHolds == Spec => []DeliveryReportedTruthfully
<1>1. Init => DeliveryInv
  BY DEF Init, Built, DeliveryInv, InRequest, DeliveryReportedTruthfully, NoSilentFeedbackLoss
<1>2. TypeOK /\ DeliveryInv /\ [Next]_vars => DeliveryInv'
  BY NextDelivery
<1>3. DeliveryInv => DeliveryReportedTruthfully
  BY DEF DeliveryInv
<1> QED
  BY <1>1, <1>2, <1>3, TypeCorrect, PTL DEF Spec

\* The loop goes on after a feedback only if hawkBit took it in or a listener was told.
THEOREM NoSilentFeedbackLossHolds == Spec => []NoSilentFeedbackLoss
<1>1. Init => DeliveryInv
  BY DEF Init, Built, DeliveryInv, InRequest, DeliveryReportedTruthfully, NoSilentFeedbackLoss
<1>2. TypeOK /\ DeliveryInv /\ [Next]_vars => DeliveryInv'
  BY NextDelivery
<1>3. DeliveryInv => NoSilentFeedbackLoss
  BY DEF DeliveryInv
<1> QED
  BY <1>1, <1>2, <1>3, TypeCorrect, PTL DEF Spec

(***************************************************************************)
(* Credentials: every setter leaves one scheme.                            *)
(***************************************************************************)
LEMMA NextScheme == TypeOK /\ OneAuthorizationScheme /\ [Next]_vars => OneAuthorizationScheme'
<1> SUFFICES ASSUME TypeOK, OneAuthorizationScheme, [Next]_vars PROVE OneAuthorizationScheme'
  OBVIOUS
<1>1. CASE Stop
  BY <1>1 DEF Stop, OneAuthorizationScheme
<1>2. CASE RequestToPoll
  BY <1>2 DEF RequestToPoll, OneAuthorizationScheme
<1>3. CASE Run
  BY <1>3 DEF Run, OneAuthorizationScheme
<1>4. CASE Begin
  BY <1>4 DEF Begin, OneAuthorizationScheme
<1>5. CASE LoopTest
  BY <1>5 DEF LoopTest, OneAuthorizationScheme
<1>6. CASE DoPoll
  BY <1>6 DEF DoPoll, StartRequest, OneAuthorizationScheme
<1>7. CASE Answer
  BY <1>7 DEF Answer, OneAuthorizationScheme
<1>8. CASE AuthError
  BY <1>8 DEF AuthError, OneAuthorizationScheme
<1>9. CASE RestoreTLS
  BY <1>9 DEF RestoreTLS, SetTLS, OneAuthorizationScheme
<1>10. CASE RestoreToken
  <2>1. credentials'.mTLSKeypair = NoKeypair
    BY <1>10 DEF RestoreToken, SetDeviceToken, SetGatewayToken, AddHeader, TypeOK, Credential
  <2> QED
    BY <2>1 DEF OneAuthorizationScheme
<1>11. CASE RestoreEndpoint
  BY <1>11 DEF RestoreEndpoint, OneAuthorizationScheme
<1>12. CASE RestoreReturn
  BY <1>12 DEF RestoreReturn, OneAuthorizationScheme
<1>13. CASE RestoreThrow
  BY <1>13 DEF RestoreThrow, Unwind, OneAuthorizationScheme
<1>14. CASE PollAnswered
  BY <1>14 DEF PollAnswered, StartRequest, OneAuthorizationScheme
<1>15. CASE NoActionsReturn
  BY <1>15 DEF NoActionsReturn, OneAuthorizationScheme
<1>16. CASE ConfigReturn
  BY <1>16 DEF ConfigReturn, StartRequest, OneAuthorizationScheme
<1>17. CASE ConfigAnswered
  BY <1>17 DEF ConfigAnswered, OneAuthorizationScheme
<1>18. CASE GiveUp
  BY <1>18 DEF GiveUp, Unwind, OneAuthorizationScheme
<1>19. CASE Download
  BY <1>19 DEF Download, StartRequest, OneAuthorizationScheme
<1>20. CASE Downloaded
  BY <1>20 DEF Downloaded, OneAuthorizationScheme
<1>21. CASE CallbackThrow
  BY <1>21 DEF CallbackThrow, OneAuthorizationScheme
<1>22. CASE PollDone
  BY <1>22 DEF PollDone, OneAuthorizationScheme
<1>23. CASE SleepTest
  BY <1>23 DEF SleepTest, OneAuthorizationScheme
<1>24. CASE Wake
  BY <1>24 DEF Wake, OneAuthorizationScheme
<1>25. ASSUME NEW c \in {"cancelAction", "deploymentBase"},
             ActionFetched(c) \/ SendFeedback(c) \/ FeedbackDelivered(c) \/ FeedbackRefused(c)
      PROVE  OneAuthorizationScheme'
  <2>1. CASE ActionFetched(c)
    BY <2>1 DEF ActionFetched, OneAuthorizationScheme
  <2>2. CASE SendFeedback(c)
    BY <2>2 DEF SendFeedback, StartRequest, FeedbackOf, OneAuthorizationScheme
  <2>3. CASE FeedbackDelivered(c)
    BY <2>3 DEF FeedbackDelivered, OneAuthorizationScheme
  <2>4. CASE FeedbackRefused(c)
    BY <2>4 DEF FeedbackRefused, OneAuthorizationScheme
  <2> QED
    BY <1>25, <2>1, <2>2, <2>3, <2>4
<1>26. CASE UNCHANGED vars
  BY <1>26 DEF OneAuthorizationScheme
<1> QED
  BY <1>1, <1>2, <1>3, <1>4, <1>5, <1>6, <1>7, <1>8, <1>9, <1>10, <1>11, <1>12, <1>13,
     <1>14, <1>15, <1>16, <1>17, <1>18, <1>19, <1>20, <1>21, <1>22, <1>23, <1>24,
     <1>25, <1>26, NextActions

\* A key pair and a token are never presented together.
THEOREM OneAuthorizationSchemeHolds == Spec => []OneAuthorizationScheme
<1>1. Init => OneAuthorizationScheme
  <2>1. \A c \in BuiltCredentials :
           c.mTLSKeypair # NoKeypair => c.authorization = << >>
    <3>1. \A c \in CustomCredentials, t \in Tokens :
             /\ SetDeviceToken(c, t).mTLSKeypair = NoKeypair
             /\ SetGatewayToken(c, t).mTLSKeypair = NoKeypair
      BY CustomCredentialsType DEF SetDeviceToken, SetGatewayToken, AddHeader, Credential
    <3>2. \A c \in CustomCredentials, k \in Keypairs : SetTLS(c, k).authorization = << >>
      BY DEF SetTLS
    <3>3. \A c \in CustomCredentials : c.mTLSKeypair = NoKeypair
      BY DEF CustomCredentials, NoCredentials, AddHeader
    <3> QED
      BY <3>1, <3>2, <3>3 DEF BuiltCredentials
  <2> QED
    BY <2>1 DEF Init, Built, OneAuthorizationScheme
<1>2. TypeOK /\ OneAuthorizationScheme /\ [Next]_vars => OneAuthorizationScheme'
  BY NextScheme
<1> QED
  BY <1>1, <1>2, TypeCorrect, PTL DEF Spec

(***************************************************************************)
(* The pause between polls.  A poll is due when the loop goes on: because  *)
(* the response of this iteration asked for it, because it was requested,  *)
(* or because the whole seconds of the interval are over.                  *)
(***************************************************************************)
Due == skipAsked \/ pollRequested \/ (slept + 1) * 1000 > currentSleepTime

SleepInv ==
  /\ pc = "begin" => call = "startup"
  /\ pc \in {"wait", "callback"} => call # "startup"
  /\ pc = "doPoll" \/ InRequest => ~ignoreSleep
  /\ pc \in {"wait", "restore"} /\ call \in Feedbacks \cup {"configData"} =>
       response.ignoreSleep = skipAsked
  /\ pc = "pollDone" =>
       /\ ignoreSleep => skipAsked
       /\ call \in Feedbacks /\ skipAsked => ignoreSleep
  /\ pc \in {"sleepTest", "asleep"} =>
       /\ slept = tick
       /\ call \in Feedbacks => ~skipAsked
  /\ pc = "loopTest" /\ call # "startup" => ~isRunning \/ Due
  /\ pc = "doPoll" /\ call # "startup" => Due
  /\ pc \in {"loopTest", "doPoll"} /\ call \in Feedbacks /\ skipAsked => slept = 0

LEMMA WholeSeconds ==
  ASSUME NEW n \in Int, NEW t \in Nat, ~(t < n \div 1000)
  PROVE  (t + 1) * 1000 > n
<1>1. n < 1000 * (n \div 1000) + 1000
  OBVIOUS
<1>2. n \div 1000 \in Int
  OBVIOUS
<1> QED
  BY <1>1, <1>2

LEMMA NextSleep == TypeOK /\ SleepInv /\ [Next]_vars => SleepInv'
<1> SUFFICES ASSUME TypeOK, SleepInv, [Next]_vars PROVE SleepInv'
  OBVIOUS
<1>1. CASE Stop
  BY <1>1 DEF Stop, SleepInv, Due, InRequest, Feedbacks, TypeOK
<1>2. CASE RequestToPoll
  BY <1>2 DEF RequestToPoll, SleepInv, Due, InRequest, Feedbacks, TypeOK
<1>3. CASE Run
  BY <1>3 DEF Run, SleepInv, Due, InRequest, Feedbacks, TypeOK
<1>4. CASE Begin
  BY <1>4 DEF Begin, SleepInv, Due, InRequest, Feedbacks, TypeOK
<1>5. CASE LoopTest
  BY <1>5 DEF LoopTest, KeepsRunning, InitialIgnoreSleep, SleepInv, Due, InRequest,
              Feedbacks, TypeOK
<1>6. CASE DoPoll
  BY <1>6 DEF DoPoll, StartRequest, SleepInv, Due, InRequest, Feedbacks, TypeOK
<1>7. CASE Answer
  BY <1>7 DEF Answer, SleepInv, Due, InRequest, Feedbacks, TypeOK
<1>8. CASE AuthError
  BY <1>8 DEF AuthError, SleepInv, Due, InRequest, Feedbacks, TypeOK
<1>9. CASE RestoreTLS
  BY <1>9 DEF RestoreTLS, SleepInv, Due, InRequest, Feedbacks, TypeOK
<1>10. CASE RestoreToken
  BY <1>10 DEF RestoreToken, SleepInv, Due, InRequest, Feedbacks, TypeOK
<1>11. CASE RestoreEndpoint
  BY <1>11 DEF RestoreEndpoint, SleepInv, Due, InRequest, Feedbacks, TypeOK
<1>12. CASE RestoreReturn
  BY <1>12 DEF RestoreReturn, SleepInv, Due, InRequest, Feedbacks, TypeOK
<1>13. CASE RestoreThrow
  BY <1>13 DEF RestoreThrow, Unwind, SleepInv, Due, InRequest, Feedbacks, TypeOK
<1>14. CASE PollAnswered
  BY <1>14 DEF PollAnswered, StartRequest, Succeeded, SleepInv, Due, InRequest,
               Feedbacks, TypeOK
<1>15. CASE NoActionsReturn
  BY <1>15 DEF NoActionsReturn, SleepInv, Due, InRequest, Feedbacks, TypeOK
<1>16. CASE ConfigReturn
  BY <1>16 DEF ConfigReturn, StartRequest, SleepInv, Due, InRequest, Feedbacks, TypeOK
<1>17. CASE ConfigAnswered
  BY <1>17 DEF ConfigAnswered, Succeeded, SleepInv, Due, InRequest, Feedbacks, TypeOK
<1>18. CASE GiveUp
  BY <1>18 DEF GiveUp, Unwind, GaveUp, Caught, SleepInv, Due, InRequest, Feedbacks,
               TypeOK
<1>19. CASE Download
  BY <1>19 DEF Download, StartRequest, SleepInv, Due, InRequest, Feedbacks, TypeOK
<1>20. CASE Downloaded
  BY <1>20 DEF Downloaded, Succeeded, SleepInv, Due, InRequest, Feedbacks, TypeOK
<1>21. CASE CallbackThrow
  BY <1>21 DEF CallbackThrow, SleepInv, Due, InRequest, Feedbacks, TypeOK
<1>22. CASE PollDone
  <2>1. currentSleepTime \in Int
    BY SleepAssumption DEF TypeOK
  <2>2. pc' = "loopTest" => Due'
    BY <1>22, <2>1 DEF PollDone, SleepInv, Due
  <2> QED
    BY <1>22, <2>2 DEF PollDone, SleepInv, InRequest
<1>23. CASE SleepTest
  <2>1. currentSleepTime \in Int /\ tick \in Nat
    BY SleepAssumption DEF TypeOK
  <2>2. ~(tick < currentSleepTime \div 1000) => (tick + 1) * 1000 > currentSleepTime
    BY <2>1, WholeSeconds
  <2>3. pc' = "loopTest" => ~isRunning' \/ Due'
    BY <1>23, <2>2 DEF SleepTest, MustWake, SleepInv, Due
  <2> QED
    BY <1>23, <2>3 DEF SleepTest, SleepInv, InRequest
<1>24. CASE Wake
  BY <1>24 DEF Wake, SleepInv, Due, InRequest, Feedbacks, TypeOK
<1>25. ASSUME NEW c \in {"cancelAction", "deploymentBase"},
             ActionFetched(c) \/ SendFeedback(c) \/ FeedbackDelivered(c) \/ FeedbackRefused(c)
      PROVE  SleepInv'
  <2>1. CASE ActionFetched(c)
    BY <2>1 DEF ActionFetched, Succeeded, SleepInv, Due, InRequest, Feedbacks, TypeOK
  <2>2. CASE SendFeedback(c)
    BY <2>2 DEF SendFeedback, StartRequest, FeedbackOf, Response, SleepInv, Due,
                InRequest, Feedbacks, TypeOK
  <2>3. CASE FeedbackDelivered(c)
    BY <2>3 DEF FeedbackDelivered, Succeeded, FeedbackOf, SleepInv, Due, InRequest,
                Feedbacks, TypeOK
  <2>4. CASE FeedbackRefused(c)
    BY <2>4 DEF FeedbackRefused, GaveUp, Caught, FeedbackOf, IgnoreSleepAfterError,
                SleepInv, Due, InRequest, Feedbacks, TypeOK
  <2> QED
    BY <1>25, <2>1, <2>2, <2>3, <2>4
<1>26. CASE UNCHANGED vars
  BY <1>26 DEF SleepInv, Due, InRequest, Feedbacks, TypeOK
<1> QED
  BY <1>1, <1>2, <1>3, <1>4, <1>5, <1>6, <1>7, <1>8, <1>9, <1>10, <1>11, <1>12, <1>13,
     <1>14, <1>15, <1>16, <1>17, <1>18, <1>19, <1>20, <1>21, <1>22, <1>23, <1>24,
     <1>25, <1>26, NextActions

LEMMA InitSleep == Init => SleepInv
  BY DEF Init, Built, SleepInv, InRequest

\* Within a run() no poll begins before the whole seconds of the interval are over, unless
\* the response of this iteration or another thread asked for it.
THEOREM NoEarlyPollHolds == Spec => NoEarlyPoll
<1>1. TypeOK /\ SleepInv /\ [Next]_vars
        => [pc = "doPoll" /\ pc' = "wait" =>
              \/ call = "startup" \/ skipAsked \/ pollRequested
              \/ (slept + 1) * 1000 > currentSleepTime]_vars
  BY DEF SleepInv, Due
<1> QED
  BY <1>1, InitSleep, NextSleep, TypeCorrect, PTL DEF Spec, NoEarlyPoll

\* A response with setIgnoreSleep() is followed by the next poll without any sleep.
THEOREM SkippedSleepIsSkippedHolds == Spec => SkippedSleepIsSkipped
<1>1. TypeOK /\ SleepInv /\ [Next]_vars
        => [pc = "doPoll" /\ pc' = "wait" /\ call \in Feedbacks /\ skipAsked
              => slept = 0]_vars
  BY DEF SleepInv
<1> QED
  BY <1>1, InitSleep, NextSleep, TypeCorrect, PTL DEF Spec, SkippedSleepIsSkipped

================================================================================
