----------------------------- MODULE DDIClientDocs -----------------------------
(***************************************************************************)
(* What the public headers of the library say of the client, where the     *)
(* code does otherwise.  Each definition quotes the sentence it states.    *)
(***************************************************************************)
EXTENDS DDIClientProperties

\* ddi_client.hpp:19-20, stop(): "Call this method to safe exit from polling process.
\* Polling stops after full iteration done".  A stop() that comes before run() has set
\* isRunning, for instance during the onAuthError of the start, is overwritten.
StopIsNotLost == stopAt # "never" => pollsAfterStop <= 1

\* hawkbit_response.hpp:19, onError(): "Called if response not delivered to hawkBit."
\* An error of the HTTP library, or a second 401, leaves run() without that call.
UndeliveredIsReported ==
  pc = "idle" /\ call \in Feedbacks /\ response.listener /\ processed = 0
    => notified = "error"

\* ddi_client.hpp:36, AuthRestoreHandler: "if set one of auth types, other will be
\* removed."  A gateway token set after a device token leaves the device token in place.
OneAuthType ==
  LET types == {credentials.authorization[i].type : i \in DOMAIN credentials.authorization}
  IN  ~({"TargetToken", "GatewayToken"} \subseteq types)

\* ddi_client.hpp:82, onAuthError(): "client will retry to do the same request with new
\* auth params".  The retry of a poll takes its host from the old polling URI and its path
\* from the new one.
PollRetryRepeatsRequest ==
  pc = "wait" /\ call = "poll" => request.host = first.host /\ request.path = first.path

================================================================================
