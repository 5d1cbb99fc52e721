-------------------------- MODULE UP2DateClientProofs --------------------------
(***************************************************************************)
(* The example program implements DDIClient, so what is proved of the      *)
(* client holds of it, and it never mixes two provisionings.               *)
(***************************************************************************)
EXTENDS UP2DateClient, DDIClientProofs

USE DEF vars, conf, auth, sleeping, flags, exchange, local, history, quiet, stopHistory,
        sleepHistory, delivery, ActionToFollow

LEMMA NoDataType == NoData.keypair \notin Keypairs /\ NoData.endpoint \notin Endpoints
  BY KeypairAssumption, EndpointAssumption DEF NoData

(***************************************************************************)
(* UPNext as a list of actions.                                            *)
(***************************************************************************)
LEMMA ClientStepActions ==
  ClientStep =>
    \/ Main \/ NoActionsReturn \/ HandlerConfig \/ HandlerCancel \/ HandlerDeployment
    \/ HandlerThrows \/ Begin \/ LoopTest \/ DoPoll \/ AuthError \/ GiveUp
    \/ PollAnswered \/ ConfigAnswered \/ Downloaded
    \/ \E c \in {"cancelAction", "deploymentBase"} :
         ActionFetched(c) \/ FeedbackDelivered(c) \/ FeedbackRefused(c)
    \/ PollDone \/ SleepTest \/ Wake \/ Answer
  BY DEF ClientStep, EventHandler, Library

\* Outside onAuthError() nothing touches the credentials or the endpoint.
LEMMA ClientStepKeepsAuth == ClientStep => UNCHANGED << hawkbitURI, credentials >>
  BY ClientStepActions DEF Main, Run, NoActionsReturn, HandlerConfig, ConfigReturn,
     HandlerCancel, HandlerDeployment, SendFeedback, Download, HandlerThrows,
     CallbackThrow, Begin, LoopTest, DoPoll, AuthError, GiveUp, PollAnswered,
     ConfigAnswered, Downloaded, ActionFetched, FeedbackDelivered, FeedbackRefused,
     PollDone, SleepTest, Wake, Answer

(***************************************************************************)
(* Where onAuthError() is, and what it has set by then.                    *)
(***************************************************************************)
UPStepInv ==
  /\ step \in {"setTLS", "setEndpoint", "returning"} => payload \in ProvisioningData
  /\ step = "returning" => payload.endpoint \in Endpoints
  /\ pc # "restore" => step = "provisioning"

LEMMA UPInitType == UPInit => UPTypeOK /\ UPStepInv
  BY DEF UPInit, Init, UPTypeOK, UPStepInv, Steps

LEMMA UPNextType == UPTypeOK /\ UPStepInv /\ [UPNext]_upVars => UPTypeOK' /\ UPStepInv'
<1> SUFFICES ASSUME UPTypeOK, UPStepInv, [UPNext]_upVars
             PROVE  UPTypeOK' /\ UPStepInv'
  OBVIOUS
<1>1. CASE ClientStep /\ UNCHANGED handler
  <2>1. UNCHANGED << step, payload, installed >>
    BY <1>1 DEF handler
  <2>2. pc # "restore"
    BY <1>1, ClientStepActions DEF Main, Run, NoActionsReturn, HandlerConfig, ConfigReturn,
       HandlerCancel, HandlerDeployment, SendFeedback, Download, HandlerThrows,
       CallbackThrow, Begin, LoopTest, DoPoll, AuthError, GiveUp, GaveUp, Succeeded,
       PollAnswered, ConfigAnswered, Downloaded, ActionFetched, FeedbackDelivered,
       FeedbackRefused, Caught, PollDone, SleepTest, Wake, Answer
  <2> QED
    BY <2>1, <2>2 DEF UPTypeOK, UPStepInv
<1>2. CASE ProvisioningFails
  BY <1>2 DEF ProvisioningFails, AfterFailure, UPTypeOK, UPStepInv, Steps
<1>3. ASSUME NEW data \in ProvisioningData, ProvisioningReturns(data)
      PROVE  UPTypeOK' /\ UPStepInv'
  BY <1>3 DEF ProvisioningReturns, UPTypeOK, UPStepInv, Steps
<1>4. CASE SetTLSOfPayload
  BY <1>4 DEF SetTLSOfPayload, UPTypeOK, UPStepInv, Steps
<1>5. CASE SetEndpointOfPayload
  BY <1>5 DEF SetEndpointOfPayload, EndpointParses, AfterFailure, UPTypeOK, UPStepInv,
              Steps, ProvisioningData
<1>6. CASE SleepEnds
  BY <1>6 DEF SleepEnds, RetryFrom, UPTypeOK, UPStepInv, Steps
<1>7. CASE HandlerReturns
  BY <1>7 DEF HandlerReturns, UPTypeOK, UPStepInv, Steps, ProvisioningData
<1>8. CASE UNCHANGED upVars
  BY <1>8 DEF upVars, handler, UPTypeOK, UPStepInv
<1> QED
  BY <1>1, <1>2, <1>3, <1>4, <1>5, <1>6, <1>7, <1>8 DEF UPNext, OnAuthErrorStep

\* The handler's variables are what the code can put there, for any set of endpoints and
\* key pairs the DPS hands out.
THEOREM UPTypeCorrect == UPSpec => [](UPTypeOK /\ UPStepInv)
<1> QED
  BY UPInitType, UPNextType, PTL DEF UPSpec

(***************************************************************************)
(* Refinement: each step is a step of DDIClient or leaves it unchanged.    *)
(***************************************************************************)
LEMMA ClientStepImplements == ClientStep => Next
<1> SUFFICES ASSUME ClientStep PROVE Next
  OBVIOUS
<1>1. CASE EventHandler
  BY <1>1 DEF EventHandler, HandlerConfig, HandlerCancel, HandlerDeployment, HandlerThrows,
     Next, UserCode, PollingThread, FollowCancelAction, FollowDeploymentBase
<1>2. CASE Library
  BY <1>2 DEF Library, Next, PollingThread, FollowCancelAction, FollowDeploymentBase
<1>3. CASE Main \/ Answer
  BY <1>3 DEF Main, Next, UserCode
<1> QED
  BY <1>1, <1>2, <1>3 DEF ClientStep

LEMMA UPStepImplements == UPStepInv /\ [UPNext]_upVars => [Next]_vars
<1> SUFFICES ASSUME UPStepInv, [UPNext]_upVars PROVE [Next]_vars
  OBVIOUS
<1>1. CASE ClientStep
  BY <1>1, ClientStepImplements
<1>2. CASE SetTLSOfPayload
  <2>1. payload.keypair \in Keypairs
    BY <1>2 DEF SetTLSOfPayload, UPStepInv, ProvisioningData
  <2>2. RestoreTLS
    BY <2>1, <1>2 DEF SetTLSOfPayload, RestoreTLS
  <2> QED
    BY <2>2 DEF Next, UserCode, OnAuthError
<1>3. CASE SetEndpointOfPayload /\ EndpointParses
  <2>1. payload.endpoint \in Endpoints
    BY <1>3 DEF SetEndpointOfPayload, EndpointParses, UPStepInv, ProvisioningData
  <2>2. RestoreEndpoint
    BY <2>1, <1>3 DEF SetEndpointOfPayload, RestoreEndpoint
  <2> QED
    BY <2>2 DEF Next, UserCode, OnAuthError
<1>4. CASE SetEndpointOfPayload /\ ~EndpointParses
  BY <1>4 DEF SetEndpointOfPayload
<1>5. CASE HandlerReturns
  BY <1>5 DEF HandlerReturns, Next, UserCode
<1>6. CASE ProvisioningFails \/ SleepEnds
  BY <1>6 DEF ProvisioningFails, SleepEnds
<1>7. ASSUME NEW data \in ProvisioningData, ProvisioningReturns(data) PROVE [Next]_vars
  BY <1>7 DEF ProvisioningReturns
<1>8. CASE UNCHANGED upVars
  BY <1>8 DEF upVars
<1> QED
  BY <1>1, <1>2, <1>3, <1>4, <1>5, <1>6, <1>7, <1>8 DEF UPNext, OnAuthErrorStep

\* The example program is a DDIClient: DPSInfoReloadHandler and Handler do only what the
\* client's model lets user code do, with every answer and failure of the DPS.
THEOREM ProgramImplementsDDIClient == UPSpec => ImplementsDDIClient
<1>1. UPInit => Init
  BY DEF UPInit
<1> QED
  BY <1>1, UPStepImplements, UPTypeCorrect, PTL DEF UPSpec, Spec, ImplementsDDIClient

\* So what is proved of the client holds of the program: the listener's verdict is true,
\* no feedback is lost unheard, a retry repeats its request, one authorization scheme.
THEOREM ProgramInheritsSafety ==
  UPSpec => [](/\ DeliveryReportedTruthfully /\ NoSilentFeedbackLoss
               /\ RetryRepeatsRequest /\ OneAuthorizationScheme)
<1> QED
  BY ProgramImplementsDDIClient, DeliveryReportedTruthfullyHolds,
     NoSilentFeedbackLossHolds, RetryRepeatsRequestHolds, OneAuthorizationSchemeHolds,
     PTL DEF ImplementsDDIClient

(***************************************************************************)
(* One provisioning per request.  The two halves of a payload are set one  *)
(* after the other, but outside onAuthError() they belong together, since  *)
(* it returns only after both; a request is made of what is set then.  The *)
(* parts about isRunning say that main() calls run() once.                 *)
(***************************************************************************)
Installed ==
  /\ installed.keypair \in Keypairs
  /\ credentials = SetTLS(NoCredentials, installed.keypair)
  /\ hawkbitURI = installed.endpoint

InstalledInv ==
  /\ pc \notin {"idle", "restore"} => Installed
  /\ step \in {"setEndpoint", "returning"} =>
       credentials = SetTLS(NoCredentials, payload.keypair)
  /\ step = "returning" => hawkbitURI = payload.endpoint
  /\ pc = "wait" => request.credentials = credentials
  /\ pc = "wait" /\ call = "poll" /\ attempt = 1 =>
       request.host = hawkbitURI /\ request.path = hawkbitURI
  /\ pc \notin {"idle", "restore", "begin"} => isRunning
  /\ pc = "restore" /\ call # "startup" => isRunning
  /\ pc = "idle" /\ ~isRunning => hawkbitURI = NoEndpoint

LEMMA InstalledInit == UPInit => InstalledInv
  BY DEF UPInit, Init, Built, InstalledInv

LEMMA InstalledClientStep ==
  UPStepInv /\ InstalledInv /\ ClientStep /\ UNCHANGED handler => InstalledInv'
<1> SUFFICES ASSUME UPStepInv, InstalledInv, ClientStep, UNCHANGED handler
             PROVE  InstalledInv'
  OBVIOUS
<1> USE DEF handler, InstalledInv, Installed
<1>1. UNCHANGED << hawkbitURI, credentials >>
  BY ClientStepKeepsAuth
<1>2. CASE Main
  BY <1>1, <1>2 DEF Main, Run
<1>3. CASE NoActionsReturn
  BY <1>1, <1>3 DEF NoActionsReturn
<1>4. CASE HandlerConfig
  BY <1>1, <1>4 DEF HandlerConfig, ConfigReturn, StartRequest
<1>5. CASE HandlerCancel
  BY <1>1, <1>5 DEF HandlerCancel, SendFeedback, StartRequest, FeedbackOf
<1>6. CASE HandlerDeployment
  BY <1>1, <1>6 DEF HandlerDeployment, SendFeedback, StartRequest, Download, FeedbackOf
<1>7. CASE HandlerThrows
  BY <1>1, <1>7 DEF HandlerThrows, CallbackThrow
<1>8. CASE Begin
  BY <1>1, <1>8 DEF Begin
<1>9. CASE LoopTest
  BY <1>1, <1>9 DEF LoopTest, KeepsRunning
<1>10. CASE DoPoll
  BY <1>1, <1>10 DEF DoPoll, StartRequest
<1>11. CASE AuthError
  BY <1>1, <1>11 DEF AuthError
<1>12. CASE GiveUp
  BY <1>1, <1>12 DEF GiveUp, Unwind, GaveUp
<1>13. CASE PollAnswered
  BY <1>1, <1>13 DEF PollAnswered, StartRequest, Succeeded
<1>14. CASE ConfigAnswered
  BY <1>1, <1>14 DEF ConfigAnswered, Succeeded
<1>15. CASE Downloaded
  BY <1>1, <1>15 DEF Downloaded, Succeeded
<1>16. CASE PollDone
  BY <1>1, <1>16 DEF PollDone
<1>17. CASE SleepTest
  BY <1>1, <1>17 DEF SleepTest
<1>18. CASE Wake
  BY <1>1, <1>18 DEF Wake
<1>19. CASE Answer
  BY <1>1, <1>19 DEF Answer
<1>20. ASSUME NEW c \in {"cancelAction", "deploymentBase"},
             ActionFetched(c) \/ FeedbackDelivered(c) \/ FeedbackRefused(c)
      PROVE  InstalledInv'
  BY <1>1, <1>20 DEF ActionFetched, FeedbackDelivered, FeedbackRefused, Succeeded, Caught,
     GaveUp
<1> QED
  BY <1>2, <1>3, <1>4, <1>5, <1>6, <1>7, <1>8, <1>9, <1>10, <1>11, <1>12,
     <1>13, <1>14, <1>15, <1>16, <1>17, <1>18, <1>19, <1>20,
     ClientStepActions

LEMMA InstalledNext ==
  UPTypeOK /\ UPStepInv /\ InstalledInv /\ [UPNext]_upVars => InstalledInv'
<1> SUFFICES ASSUME UPTypeOK, UPStepInv, InstalledInv, [UPNext]_upVars
             PROVE  InstalledInv'
  OBVIOUS
<1>1. CASE ClientStep /\ UNCHANGED handler
  BY <1>1, InstalledClientStep
<1> USE DEF InstalledInv, Installed
<1>2. CASE ProvisioningFails
  BY <1>2 DEF ProvisioningFails, AfterFailure
<1>3. ASSUME NEW data \in ProvisioningData, ProvisioningReturns(data)
      PROVE  InstalledInv'
  BY <1>3 DEF ProvisioningReturns
<1>4. CASE SetTLSOfPayload
  BY <1>4 DEF SetTLSOfPayload, SetTLS
<1>5. CASE SetEndpointOfPayload
  BY <1>5 DEF SetEndpointOfPayload, AfterFailure
<1>6. CASE SleepEnds
  BY <1>6 DEF SleepEnds, RetryFrom
<1>7. CASE HandlerReturns
  <2>1. payload.keypair \in Keypairs
    BY <1>7 DEF HandlerReturns, UPStepInv, ProvisioningData
  <2>2. Installed'
    BY <2>1, <1>7 DEF HandlerReturns, RestoreReturn
  <2> QED
    BY <2>2, <1>7 DEF HandlerReturns, RestoreReturn, RetryRequest
<1>8. CASE UNCHANGED upVars
  BY <1>8 DEF upVars, handler
<1> QED
  BY <1>1, <1>2, <1>3, <1>4, <1>5, <1>6, <1>7, <1>8 DEF UPNext, OnAuthErrorStep

LEMMA InstalledImplies ==
  InstalledInv => OneProvisioningPerRequest
  BY KeypairAssumption DEF InstalledInv, Installed, OneProvisioningPerRequest

\* No request ever mixes the key pair of one answer of the DPS with the endpoint of
\* another, for any sets of both and any failures on the way.
THEOREM OneProvisioningPerRequestHolds == UPSpec => []OneProvisioningPerRequest
<1> QED
  BY InstalledInit, InstalledNext, InstalledImplies, UPTypeCorrect, PTL DEF UPSpec

================================================================================
