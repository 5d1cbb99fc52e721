----------------------------- MODULE ClientBuilder -----------------------------
(***************************************************************************)
(* ddi::DDIClientBuilder (DefaultClientBuilderImpl): setters in any order, *)
(* any number of times, and build(), after which the builder may be used   *)
(* again.  A setter that throws changes nothing.                           *)
(***************************************************************************)
EXTENDS Credentials, Integers

CONSTANTS Endpoints, NoEndpoint, DefaultSleepTimes

ASSUME EndpointAssumption == NoEndpoint \notin Endpoints
ASSUME SleepAssumption == 30000 \in DefaultSleepTimes

VARIABLES hawkbitUri,        \* NoEndpoint: the empty string
          pollingTimeout,    \* ms
          customHeaders,     \* Authorization headers given to addHeader
          authVariant,
          token, keypair,    \* what the authorization setters were given
          authErrorHandler,
          client             \* the last client built, NoClient before

auth == << authVariant, token, keypair >>
vars == << hawkbitUri, pollingTimeout, customHeaders, auth, authErrorHandler, client >>

Variants == {"NOT_SET", "GATEWAY_TOKEN", "DEVICE_TOKEN", "M_TLS_KEYPAIR"}

\* Stands for an empty string where a token goes; setTLS and the token setters are told
\* apart by authVariant only.
NoToken == NoKeypair

NoClient == [built |-> FALSE]

Init ==
  /\ hawkbitUri = NoEndpoint
  /\ pollingTimeout = 30000
  /\ customHeaders = NoCredentials
  /\ authVariant = "NOT_SET" /\ token = NoToken /\ keypair = NoKeypair
  /\ authErrorHandler = FALSE
  /\ client = NoClient

SetHawkbitEndpoint ==
  /\ hawkbitUri' \in Endpoints
  /\ UNCHANGED << pollingTimeout, customHeaders, auth, authErrorHandler, client >>

SetDefaultPollingTimeout ==
  /\ pollingTimeout' \in DefaultSleepTimes
  /\ UNCHANGED << hawkbitUri, customHeaders, auth, authErrorHandler, client >>

SetAuthErrorHandler ==
  /\ authErrorHandler' \in BOOLEAN
  /\ UNCHANGED << hawkbitUri, pollingTimeout, customHeaders, auth, client >>

\* addHeader("Authorization", ...), once (the model's bound); other names do not matter here.
AddCustomHeader ==
  /\ customHeaders = NoCredentials
  /\ \E t \in Tokens : customHeaders' = AddHeader(customHeaders, "custom", t)
  /\ UNCHANGED << hawkbitUri, pollingTimeout, auth, authErrorHandler, client >>

(***************************************************************************)
(* setGatewayToken, setDeviceToken and setTLS throw once one was called.   *)
(***************************************************************************)
MaySet == authVariant = "NOT_SET"

SetToken(v) ==
  /\ MaySet
  /\ token' \in Tokens
  /\ authVariant' = v
  /\ UNCHANGED << hawkbitUri, pollingTimeout, customHeaders, keypair, authErrorHandler,
                  client >>

SetGatewayTokenVariant == SetToken("GATEWAY_TOKEN")

SetDeviceTokenVariant == SetToken("DEVICE_TOKEN")

SetTLSVariant ==
  /\ MaySet
  /\ keypair' \in Keypairs
  /\ authVariant' = "M_TLS_KEYPAIR"
  /\ UNCHANGED << hawkbitUri, pollingTimeout, customHeaders, token, authErrorHandler,
                  client >>

(***************************************************************************)
(* build(): the headers are copied first, then the setter of the client    *)
(* for the chosen variant is called.                                       *)
(***************************************************************************)
Authorize(c) ==
  CASE authVariant = "M_TLS_KEYPAIR" -> SetTLS(c, keypair)
    [] authVariant = "GATEWAY_TOKEN" -> SetGatewayToken(c, token)
    [] authVariant = "DEVICE_TOKEN"  -> SetDeviceToken(c, token)
    [] authVariant = "NOT_SET"       -> c

BuildCredentials == Authorize(customHeaders)

FirstSleepTimeZero == 0    \* mutant: currentSleepTime left as new() zeroed it

FirstSleepTime == pollingTimeout

Build ==
  /\ client' = [built            |-> TRUE,
                hawkbitURI       |-> hawkbitUri,
                credentials      |-> BuildCredentials,
                authErrorHandler |-> authErrorHandler,
                defaultSleepTime |-> pollingTimeout,
                currentSleepTime |-> FirstSleepTime,
                isRunning        |-> FALSE]
  /\ UNCHANGED << hawkbitUri, pollingTimeout, customHeaders, auth, authErrorHandler >>

Next ==
  \/ SetHawkbitEndpoint \/ SetDefaultPollingTimeout \/ SetAuthErrorHandler
  \/ AddCustomHeader \/ SetGatewayTokenVariant \/ SetDeviceTokenVariant \/ SetTLSVariant
  \/ Build

Spec == Init /\ [][Next]_vars

--------------------------------------------------------------------------------
Client == INSTANCE DDIClient WITH
  Links <- {}, ServerSleepTimes <- {}, MaxHeaders <- 0,
  hawkbitURI <- client.hawkbitURI, credentials <- client.credentials,
  authErrorHandler <- client.authErrorHandler,
  defaultSleepTime <- client.defaultSleepTime,
  currentSleepTime <- client.currentSleepTime,
  isRunning <- client.isRunning, ignoreSleep <- FALSE, pollRequested <- FALSE,
  \* the locals of run() and the history do not exist yet
  pc <- 0, call <- 0, followURI <- 0, request <- 0, first <- 0, attempt <- 0, reply <- 0,
  response <- 0, tick <- 0, stopAt <- 0, pollsAfterStop <- 0, slept <- 0, waited <- 0,
  skipAsked <- 0, processed <- 0, notified <- 0

\* Every client the builder returns, after any sequence of setters and earlier builds, is in
\* a state DDIClient starts from: its first sleep time is the default one, its flags are
\* down, its credentials are those of one setter.
BuiltClientIsInitial == client.built => Client!Built

================================================================================
