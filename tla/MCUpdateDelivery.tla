---------------------------- MODULE MCUpdateDelivery ---------------------------
(***************************************************************************)
(* Instance of UpdateDelivery for TLC: two updates (one where fairness     *)
(* makes the check costly), no sleep, no credentials.  What has no bearing *)
(* on updates is kept at its smallest: without sleep nobody uses           *)
(* requestToPoll() and setIgnoreSleep(); stop() is called in the loop;     *)
(* every response has a delivery listener, the configuration data is       *)
(* empty, and a request fails with an error of the library, a feedback     *)
(* with another status too.                                                *)
(***************************************************************************)
EXTENDS UpdateDelivery

CONSTANTS e1, u1, u2

MCUpdates == {u1, u2}
MCOneUpdate == {u1}
MCEndpoints == {e1}
MCServerSleepTimes == {-1}
MCDefaultSleepTimes == {0}

MCInit == UDInit /\ authErrorHandler

MCNext ==
  /\ UDNext
  /\ ~pollRequested' /\ ~skipAsked' /\ stopAt' # "starting"
  /\ response' # response => response'.listener
  /\ call' # "configData" \/ pc' # "wait"
  /\ call' = "download" => request'.path = followURI
  /\ reply'.outcome # "malformed"
  /\ reply'.outcome = "unexpectedCode" => call' \in Feedbacks

MCSpec == MCInit /\ [][MCNext]_udVars
\* Where fairness makes the check costly, configuration data is never asked for and the
\* client has no AuthErrorHandler: a 401 ends run() like any other error.
MCFairNext == MCNext /\ reply'.action # "configData"
MCFairInit == UDInit /\ ~authErrorHandler
MCFairSpec == MCFairInit /\ [][MCFairNext]_udVars /\ UDFairness

================================================================================
