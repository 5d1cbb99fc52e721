---------------------------- MODULE UpdateDelivery -----------------------------
(***************************************************************************)
(* The life of updates across the polling client, the device that runs it  *)
(* and hawkBit.  hawkBit offers the open update at every poll until it     *)
(* takes in a feedback that closes it; the EventHandler installs it in its *)
(* deployment callback; the process may be killed between any two steps    *)
(* and is started again with nothing but what is installed on the device.  *)
(*                                                                         *)
(* The client is DDIClient.  A link of Updates stands for the URI          *)
(* .../deploymentBase/<id> or .../cancelAction/<id> of an action, so the   *)
(* path of a feedback says which action it is about.  The number of        *)
(* crashes is bounded by MaxCrashes; an operator asks to cancel an update  *)
(* at most once.                                                           *)
(*                                                                         *)
(* hawkBit and user code are external: hawkBit takes a feedback in only    *)
(* while the action is open, and the handler reports success only of an    *)
(* update that is installed.                                               *)
(***************************************************************************)
EXTENDS DDIClient

CONSTANTS Updates, MaxCrashes

ASSUME UpdateLinksAssumption == Updates \subseteq Links
ASSUME CrashesAssumption == MaxCrashes \in Nat

VARIABLES status,        \* of each update, as hawkBit has it
          installed,     \* updates installed on the device; survives a crash
          verdict,       \* where the callback is, then what its response says
          interrupted,   \* history: did anything go wrong since the last installation?
          crashes        \* number of crashes so far

device == << status, installed, verdict, interrupted, crashes >>
udVars == << vars, device >>

OpenStatus == {"running", "canceling", "resumed"}
ClosedStatus == {"finished", "failed", "canceled"}

\* "none" and "installed": before and after the installation, in the callback.  Then the
\* response: "success" and "failure" are CLOSED with that result, "progress" any execution
\* that leaves the action open, and the last two answer a cancellation.
Verdicts == {"none", "installed", "success", "failure", "progress", "canceled", "rejected"}

\* The variables of hawkBit and the device hold what the actions put there.
UDTypeOK ==
  /\ status \in [Updates -> {"unassigned"} \cup OpenStatus \cup ClosedStatus]
  /\ installed \subseteq Updates
  /\ verdict \in Verdicts
  /\ interrupted \in BOOLEAN
  /\ crashes \in 0..MaxCrashes

\* The program gives the builder an endpoint.
UDInit ==
  /\ Init /\ hawkbitURI \in Endpoints
  /\ status = [u \in Updates |-> "unassigned"]
  /\ installed = {} /\ verdict = "none" /\ interrupted = FALSE /\ crashes = 0

--------------------------------------------------------------------------------
\* hawkBit's operator assigns one update at a time, and may cancel it.
Assign(u) ==
  /\ \A v \in Updates : status[v] \notin OpenStatus
  /\ status[u] = "unassigned"
  /\ status' = [status EXCEPT ![u] = "running"]
  /\ UNCHANGED << vars, installed, verdict, interrupted, crashes >>

Cancel(u) ==
  /\ status[u] = "running"
  /\ status' = [status EXCEPT ![u] = "canceling"]
  /\ UNCHANGED << vars, installed, verdict, interrupted, crashes >>

(***************************************************************************)
(* hawkBit's answers.  A poll is answered with what is open; an answer     *)
(* that counts a feedback as taken in changes the status of the action in  *)
(* its path.                                                               *)
(***************************************************************************)
Offers(r) ==
  CASE r.action = "deploymentBase" -> r.link \in Updates /\ status[r.link] \in {"running", "resumed"}
    [] r.action = "cancelAction"   -> r.link \in Updates /\ status[r.link] = "canceling"
    [] r.action = "none"           -> \A u \in Updates : status[u] \notin OpenStatus
    [] r.action = "configData"     -> TRUE

Recorded(u) ==
  CASE verdict = "success"  -> "finished"
    [] verdict = "failure"  -> "failed"
    [] verdict = "canceled" -> "canceled"
    [] verdict = "rejected" -> "resumed"
    [] OTHER                -> status[u]

ServerAnswer ==
  /\ Answer
  /\ call = "poll" /\ reply'.outcome = "ok" => Offers(reply')
  /\ IF processed' = processed
       THEN UNCHANGED status
       ELSE LET u == request.path IN
            /\ status[u] \in IF call = "cancelFeedback" THEN {"canceling"} ELSE OpenStatus
            /\ status' = [status EXCEPT ![u] = Recorded(u)]
  /\ UNCHANGED << installed, verdict, interrupted, crashes >>

--------------------------------------------------------------------------------
(***************************************************************************)
(* The EventHandler: onDeploymentAction() may install the update once and  *)
(* returns a response; onCancelAction() agrees or rejects.                 *)
(***************************************************************************)
Fetched ==
  /\ ActionFetched("deploymentBase") \/ ActionFetched("cancelAction")
  /\ verdict' = "none"
  /\ UNCHANGED << status, installed, interrupted, crashes >>

InstallUpdate ==
  /\ pc = "callback" /\ call = "deploymentBase" /\ followURI \in Updates
  /\ verdict = "none"
  /\ verdict' = "installed"
  /\ installed' = installed \cup {followURI}
  /\ interrupted' = FALSE
  /\ UNCHANGED << vars, status, crashes >>

Respond ==
  /\ \/ /\ SendFeedback("deploymentBase")
        /\ verdict' \in {"success", "failure", "progress"}
        /\ verdict' = "success" => followURI \in installed
     \/ /\ SendFeedback("cancelAction")
        /\ verdict' \in {"canceled", "rejected"}
  /\ interrupted' = (interrupted \/ verdict' = "progress")
  /\ UNCHANGED << status, installed, crashes >>

\* A feedback refused, or an exception that leaves run(): the device has not reported.
Refused ==
  /\ FeedbackRefused("deploymentBase") \/ FeedbackRefused("cancelAction")
  /\ interrupted' = TRUE
  /\ UNCHANGED << status, installed, verdict, crashes >>

Thrown ==
  /\ GiveUp \/ RestoreThrow \/ CallbackThrow
  /\ interrupted' = (interrupted \/ pc' = "idle")
  /\ UNCHANGED << status, installed, verdict, crashes >>

(***************************************************************************)
(* The process is killed.  Nothing of the client is kept: the program that *)
(* is started again builds a new one.                                      *)
(***************************************************************************)
Restarted ==
  /\ hawkbitURI' \in Endpoints /\ credentials' \in BuiltCredentials
  /\ UNCHANGED conf
  /\ currentSleepTime' = defaultSleepTime
  /\ ignoreSleep' = FALSE /\ isRunning' = FALSE /\ pollRequested' = FALSE
  /\ pc' = "idle" /\ call' = "startup" /\ followURI' = NoEndpoint
  /\ request' = NoRequest /\ first' = NoRequest /\ attempt' = 1 /\ reply' = NoReply
  /\ response' = NoResponse /\ tick' = 0
  /\ stopAt' = "never" /\ pollsAfterStop' = 0
  /\ slept' = 0 /\ waited' = 0 /\ skipAsked' = FALSE
  /\ processed' = 0 /\ notified' = "nothing"

Crash ==
  /\ crashes < MaxCrashes
  /\ pc # "idle"
  /\ Restarted
  /\ crashes' = crashes + 1
  /\ verdict' = "none" /\ interrupted' = TRUE
  /\ UNCHANGED << status, installed >>

--------------------------------------------------------------------------------
\* Every other step of the client.
Elsewhere ==
  /\ \/ OtherThread \/ Run \/ OnAuthError \/ RestoreReturn
     \/ NoActionsReturn \/ ConfigReturn \/ Download
     \/ Begin \/ LoopTest \/ DoPoll \/ AuthError
     \/ PollAnswered \/ ConfigAnswered \/ Downloaded
     \/ FeedbackDelivered("deploymentBase") \/ FeedbackDelivered("cancelAction")
     \/ PollDone \/ SleepTest \/ Wake
  /\ UNCHANGED device

Server == \E u \in Updates : Assign(u) \/ Cancel(u)

UDNext ==
  \/ Server \/ ServerAnswer \/ Crash
  \/ Fetched \/ InstallUpdate \/ Respond \/ Refused \/ Thrown \/ Elsewhere

UDSpec == UDInit /\ [][UDNext]_udVars

(***************************************************************************)
(* Fairness.  The process is scheduled, and whoever started it calls run() *)
(* again when it ended; stop() is not called at every single start.  A     *)
(* request that is made again and again is answered well again and again,  *)
(* a poll with what is open; a deployment callback that is entered again   *)
(* and again ends again and again with a response that closes the update,  *)
(* and the feedback with such a response, sent again and again, is taken   *)
(* in at last.                                                             *)
(***************************************************************************)
Client == Fetched \/ Refused \/ Thrown \/ Elsewhere

WellAnswered(c) ==
  /\ ServerAnswer /\ call = c
  /\ reply'.outcome = "ok" /\ reply'.action # "configData"
  /\ c = "deploymentFeedback" => verdict # "progress"

Closing == Respond /\ verdict' # "progress"

UDFairness ==
  /\ WF_udVars(Client /\ PollingThread)
  /\ WF_udVars(Run /\ UNCHANGED device)
  /\ WF_udVars(ServerAnswer)
  /\ WF_udVars((RestoreReturn /\ UNCHANGED device) \/ (RestoreThrow /\ Thrown))
  /\ SF_udVars((NoActionsReturn \/ ConfigReturn) /\ UNCHANGED device)
  /\ SF_udVars(LoopTest /\ isRunning /\ UNCHANGED device)
  /\ SF_udVars(Closing)
  /\ \A c \in {"poll", "cancelAction", "deploymentBase"} \cup Feedbacks :
       SF_udVars(WellAnswered(c))

UDFairSpec == UDSpec /\ UDFairness

--------------------------------------------------------------------------------
(***************************************************************************)
(* Properties                                                              *)
(***************************************************************************)

\* The update the device works on: from the start of the deployment callback to its end,
\* the downloads it starts included.
Working ==
  IF \/ pc = "callback" /\ call = "deploymentBase"
     \/ pc \in {"wait", "restore"} /\ call = "download"
    THEN followURI ELSE NoEndpoint

Lifecycle == INSTANCE UpdateLifecycle WITH NoUpdate <- NoEndpoint, working <- Working

\* Refinement: with requests that fail, feedbacks that get lost, 401s and new credentials in
\* the middle of an update, and a process killed between any two steps, the device works
\* only on what hawkBit holds open and hawkBit calls finished only what is installed.
ImplementsLifecycle == Lifecycle!LCSpec

\* An update is installed a second time only if something went wrong after the first: a
\* crash, an exception that left run(), a refused feedback, or a response that did not
\* close it.  stop(), restarts of run(), retries after 401 and polls never cause it.
ReinstalledOnlyAfterFailure ==
  [][verdict = "none" /\ verdict' = "installed" /\ followURI \in installed
       => interrupted]_udVars

\* Every assigned update is closed in the end, although any feedback may be lost and the
\* process be killed: nothing is left that neither side would bring up again.
EveryUpdateIsClosed ==
  \A u \in Updates : status[u] \in OpenStatus ~> status[u] \in ClosedStatus

================================================================================
