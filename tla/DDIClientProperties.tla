-------------------------- MODULE DDIClientProperties --------------------------
(***************************************************************************)
(* What the polling client guarantees.                                     *)
(***************************************************************************)
EXTENDS DDIClient

--------------------------------------------------------------------------------
(***************************************************************************)
(* Safety                                                                  *)
(***************************************************************************)

\* After stop() was called while the loop ran, at most one more poll begins: the one
\* whose loop test had passed already.  A stop() is never undone by an exception path, a
\* poll request or the sleep loop.
StopEndsPolling == stopAt = "inLoop" => pollsAfterStop <= 1

\* A poll requested while the client sleeps is begun after at most one more second of
\* sleep: the flag is neither lost nor looked at too late.
PollRequestServed ==
  pollRequested /\ pc \in {"sleepTest", "asleep", "loopTest", "doPoll"} => waited <= 1

\* Within a run() no poll begins before the whole seconds of the polling interval have
\* passed, unless the response of this very iteration asked to skip the sleep or another
\* thread asked for a poll: neither an earlier response nor a failed one shortens it.
NoEarlyPoll ==
  [][pc = "doPoll" /\ pc' = "wait" =>
       \/ call = "startup" \/ skipAsked \/ pollRequested
       \/ (slept + 1) * 1000 > currentSleepTime]_vars

\* A response with setIgnoreSleep() whose feedback was delivered, or whose listener was
\* told of the failure, is followed by the next poll without any sleep.
SkippedSleepIsSkipped ==
  [][pc = "doPoll" /\ pc' = "wait" /\ call \in Feedbacks /\ skipAsked => slept = 0]_vars

\* What the delivery listener hears is what happened at hawkBit: success only for a
\* feedback hawkBit took in, error only for one it did not; and the retry after 401 never
\* makes hawkBit take the same feedback in twice.
DeliveryReportedTruthfully ==
  /\ notified = "success" => processed = 1
  /\ notified = "error" => processed = 0
  /\ processed <= 1

\* The loop goes on to its next iteration after a feedback only if hawkBit took the
\* feedback in or a listener was told that it did not.
NoSilentFeedbackLoss ==
  pc = "pollDone" /\ call \in Feedbacks => processed = 1 \/ notified = "error"

\* The client never presents a key pair and a token together, in whatever order the
\* setters are called over its life.
OneAuthorizationScheme ==
  credentials.mTLSKeypair # NoKeypair => credentials.authorization = << >>

\* The second attempt of a request other than a poll goes to the host and path of the
\* first, with the credentials set by then, even when onAuthError (called for it, or for
\* a download of the same callback) moved the polling endpoint.
RetryRepeatsRequest ==
  pc = "wait" /\ call # "poll" =>
    /\ request.host = first.host /\ request.path = first.path
    /\ request.credentials = credentials

--------------------------------------------------------------------------------
(***************************************************************************)
(* Liveness                                                                *)
(***************************************************************************)

\* stop() called while the loop runs ends run(), whatever the client is doing.
StopTerminates == stopAt = "inLoop" ~> pc = "idle"

\* Every iteration ends, if only with an exception: a server that refuses every request
\* and an onAuthError that always returns do not keep the client in one iteration.
IterationEnds == pc = "doPoll" ~> pc \in {"pollDone", "idle"}

================================================================================
