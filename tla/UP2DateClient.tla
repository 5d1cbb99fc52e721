------------------------------ MODULE UP2DateClient ------------------------------
(***************************************************************************)
(* The program example/up2date_client: a DDI client whose onAuthError() is *)
(* DPSInfoReloadHandler, which asks the provisioning service (DPS) for a   *)
(* key pair and an endpoint until it gets both, and whose EventHandler is  *)
(* the Handler of basic_handler.hpp.                                       *)
(*                                                                         *)
(* The library part is DDIClient.  Here its open parts, what onAuthError() *)
(* and the callbacks may do, are what this program does: step says where   *)
(* the thread is while pc = "restore".  One thread runs everything; nobody *)
(* holds the client, so stop() and requestToPoll() are never called, and   *)
(* an exception that leaves run() ends the program.                        *)
(*                                                                         *)
(* The DPS is external: to each request it answers with an error of the    *)
(* library, a status other than 200 and 201, a body without the three      *)
(* members, or a key pair and an endpoint.  An endpoint that URI parsing   *)
(* rejects is BadEndpoint.                                                 *)
(***************************************************************************)
EXTENDS DDIClient

CONSTANT BadEndpoint

ASSUME BadEndpointAssumption == BadEndpoint \notin Endpoints

VARIABLES step,       \* where onAuthError() is
          payload,    \* what doProvisioning() last returned
          installed   \* history: the payload the last onAuthError() returned with

handler == << step, payload, installed >>
upVars == << vars, handler >>

Steps == {"provisioning",   \* doProvisioning(), the request is not answered
          "setTLS", "setEndpoint", "returning",
          "sleeping"}       \* sleep_for(3 s) in the catch block

ProvisioningData == [keypair  : Keypairs,
                     endpoint : Endpoints \cup {BadEndpoint}]
NoData == [keypair |-> NoKeypair, endpoint |-> NoEndpoint]

\* The variables of the handler hold what it can put there; a payload it returned with
\* has an endpoint that was parsed.
UPTypeOK ==
  /\ step \in Steps
  /\ payload \in ProvisioningData \cup {NoData}
  /\ installed \in [keypair : Keypairs, endpoint : Endpoints] \cup {NoData}

\* main() gives the builder the two handlers and nothing else.
UPInit ==
  /\ Init
  /\ hawkbitURI = NoEndpoint /\ credentials = NoCredentials /\ authErrorHandler = TRUE
  /\ step = "provisioning" /\ payload = NoData /\ installed = NoData

--------------------------------------------------------------------------------
(***************************************************************************)
(* onAuthError(): any std::exception inside the loop is caught, and after  *)
(* 3 s provisioning starts again from the request.                         *)
(***************************************************************************)
ReturnAfterFailure == "returning"    \* mutant: the loop is left on failure

AfterFailure == "sleeping"

ProvisioningFails ==
  /\ pc = "restore" /\ step = "provisioning"
  /\ step' = AfterFailure
  /\ UNCHANGED << vars, payload, installed >>

ProvisioningReturns(data) ==
  /\ pc = "restore" /\ step = "provisioning"
  /\ payload' = data
  /\ step' = "setTLS"
  /\ UNCHANGED << vars, installed >>

SetTLSOfPayload ==
  /\ pc = "restore" /\ step = "setTLS"
  /\ credentials' = SetTLS(credentials, payload.keypair)
  /\ step' = "setEndpoint"
  /\ UNCHANGED << conf, hawkbitURI, sleeping, flags, pc, call, local, exchange, history,
                  payload, installed >>

AnyEndpointParses == TRUE    \* mutant: setEndpoint() keeps what it cannot parse

EndpointParses == payload.endpoint # BadEndpoint

SetEndpointOfPayload ==
  /\ pc = "restore" /\ step = "setEndpoint"
  /\ IF EndpointParses
       THEN step' = "returning" /\ hawkbitURI' = payload.endpoint
       ELSE step' = AfterFailure /\ UNCHANGED hawkbitURI
  /\ UNCHANGED << conf, credentials, sleeping, flags, pc, call, local, exchange, history,
                  payload, installed >>

RetryWithOldPayload ==    \* mutant: doProvisioning() called before the loop
  IF payload = NoData THEN "provisioning" ELSE "setTLS"

RetryFrom == "provisioning"

SleepEnds ==
  /\ pc = "restore" /\ step = "sleeping"
  /\ step' = RetryFrom
  /\ UNCHANGED << vars, payload, installed >>

HandlerReturns ==
  /\ step = "returning"
  /\ RestoreReturn
  /\ step' = "provisioning"
  /\ installed' = payload
  /\ UNCHANGED payload

--------------------------------------------------------------------------------
\* main() calls run() once: afterwards isRunning stays TRUE.
Main == ~isRunning /\ Run

\* onConfigRequest() returns data, and every response asks to skip the sleep.
HandlerConfig == ConfigReturn /\ call' = "configData" /\ pc' = "wait" /\ skipAsked'

HandlerResponse == response' = [listener |-> TRUE, ignoreSleep |-> TRUE]

HandlerCancel == SendFeedback("cancelAction") /\ HandlerResponse

\* onDeploymentAction() downloads the artifacts one after the other and catches nothing.
DownloadFailed == call = "deploymentBase" /\ reply.outcome # "ok"

HandlerDeployment ==
  /\ ~DownloadFailed
  /\ \/ Download
     \/ SendFeedback("deploymentBase") /\ HandlerResponse

HandlerThrows == DownloadFailed /\ CallbackThrow

EventHandler ==
  \/ NoActionsReturn \/ HandlerConfig \/ HandlerCancel \/ HandlerDeployment \/ HandlerThrows

\* The steps of DDIClient's polling thread that are library code, the callbacks taken out.
Library ==
  \/ Begin \/ LoopTest \/ DoPoll \/ AuthError \/ GiveUp
  \/ PollAnswered \/ ConfigAnswered \/ Downloaded
  \/ \E c \in {"cancelAction", "deploymentBase"} :
       ActionFetched(c) \/ FeedbackDelivered(c) \/ FeedbackRefused(c)
  \/ PollDone \/ SleepTest \/ Wake

ClientStep == Main \/ EventHandler \/ Library \/ Answer

OnAuthErrorStep ==
  \/ ProvisioningFails
  \/ \E data \in ProvisioningData : ProvisioningReturns(data)
  \/ SetTLSOfPayload \/ SetEndpointOfPayload \/ SleepEnds

UPNext == (ClientStep /\ UNCHANGED handler) \/ OnAuthErrorStep \/ HandlerReturns

UPSpec == UPInit /\ [][UPNext]_upVars

(***************************************************************************)
(* Fairness: the thread is scheduled, requests are answered or time out,   *)
(* and the DPS, asked again and again, provisions usable data again and    *)
(* again.                                                                  *)
(***************************************************************************)
UsableData == \E data \in ProvisioningData :
                data.endpoint \in Endpoints /\ ProvisioningReturns(data)

UPFairness ==
  /\ WF_upVars((Main \/ EventHandler \/ Library \/ Answer) /\ UNCHANGED handler)
  /\ WF_upVars(OnAuthErrorStep)
  /\ WF_upVars(HandlerReturns)
  /\ SF_upVars(UsableData)

UPFairSpec == UPSpec /\ UPFairness

--------------------------------------------------------------------------------
(***************************************************************************)
(* Properties                                                              *)
(***************************************************************************)

\* The program is a client as DDIClient describes it: whatever the DPS answers and however
\* often provisioning fails half-way, onAuthError() does only what AuthRestoreHandler
\* allows, so all that is checked and proved of DDIClient holds of it.
ImplementsDDIClient == Spec

\* Every request carries the key pair, and every poll sent first goes to the endpoint, of
\* one and the same answer of the DPS, the last onAuthError() returned with: a key pair
\* set before its endpoint was rejected is never used.
OneProvisioningPerRequest ==
  pc = "wait" =>
    /\ request.credentials = SetTLS(NoCredentials, installed.keypair)
    /\ installed.keypair # NoKeypair
    /\ (call = "poll" /\ attempt = 1 =>
         request.host = installed.endpoint /\ request.path = installed.endpoint)

\* A client that lost its authorization gets it back once the DPS provisions usable data:
\* failures before that, of either half, do not leave it stuck in onAuthError().
AuthorizationIsRestored == pc = "restore" ~> pc \in {"begin", "wait"}

================================================================================
