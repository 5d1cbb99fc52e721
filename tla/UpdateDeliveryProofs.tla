-------------------------- MODULE UpdateDeliveryProofs --------------------------
(***************************************************************************)
(* UpdateDelivery implements UpdateLifecycle for any set of updates and    *)
(* any number of crashes, and a client that is killed and started again    *)
(* keeps the guarantees proved of DDIClient.                               *)
(***************************************************************************)
EXTENDS UpdateDelivery, DDIClientProofs

USE DEF vars, conf, auth, sleeping, flags, exchange, local, history, quiet, stopHistory,
        sleepHistory, delivery, ActionToFollow

(***************************************************************************)
(* Each step is one of the client, a crash, or leaves the client alone.    *)
(***************************************************************************)
LEMMA RestartedIsInit == TypeOK /\ Restarted => Init'
  BY DEF TypeOK, Restarted, Init, Built

LEMMA ClientOrCrash ==
  [UDNext]_udVars => [Next]_vars \/ Restarted
<1> SUFFICES ASSUME [UDNext]_udVars PROVE [Next]_vars \/ Restarted
  OBVIOUS
<1>1. CASE Server \/ InstallUpdate \/ UNCHANGED udVars
  BY <1>1 DEF Server, Assign, Cancel, InstallUpdate, udVars
<1>2. CASE ServerAnswer
  BY <1>2 DEF ServerAnswer, Next
<1>3. CASE Crash
  BY <1>3 DEF Crash
<1>4. CASE Fetched
  BY <1>4 DEF Fetched, Next, PollingThread, FollowCancelAction, FollowDeploymentBase
<1>5. CASE Respond
  BY <1>5 DEF Respond, Next, PollingThread, FollowCancelAction, FollowDeploymentBase
<1>6. CASE Refused
  BY <1>6 DEF Refused, Next, PollingThread, FollowCancelAction, FollowDeploymentBase
<1>7. CASE Thrown
  BY <1>7 DEF Thrown, Next, PollingThread, UserCode
<1>8. CASE Elsewhere
  BY <1>8 DEF Elsewhere, Next, OtherThread, UserCode, PollingThread, FollowCancelAction,
     FollowDeploymentBase
<1> QED
  BY <1>1, <1>2, <1>3, <1>4, <1>5, <1>6, <1>7, <1>8 DEF UDNext

\* The client's type invariant survives crashes and restarts.
LEMMA InitTypeNext == Init' => TypeOK'
  BY InitType, PTL

THEOREM ClientTypeCorrect == UDSpec => []TypeOK
<1>1. UDInit => TypeOK
  BY InitType DEF UDInit
<1>2. TypeOK /\ [UDNext]_udVars => TypeOK'
  BY NextType, ClientOrCrash, RestartedIsInit, InitTypeNext
<1> QED
  BY <1>1, <1>2, PTL DEF UDSpec

(***************************************************************************)
(* Type correctness of hawkBit and the device.                             *)
(***************************************************************************)
LEMMA UDInitType == UDInit => UDTypeOK
<1> SUFFICES ASSUME UDInit PROVE UDTypeOK
  OBVIOUS
<1>1. crashes \in 0..MaxCrashes
  BY CrashesAssumption DEF UDInit
<1>2. status \in [Updates -> {"unassigned"} \cup OpenStatus \cup ClosedStatus]
  BY DEF UDInit
<1> QED
  BY <1>1, <1>2, Zenon DEF UDInit, UDTypeOK, Verdicts

LEMMA UDNextType == UDTypeOK /\ [UDNext]_udVars => UDTypeOK'
<1> SUFFICES ASSUME UDTypeOK, [UDNext]_udVars PROVE UDTypeOK'
  OBVIOUS
<1> USE DEF UDTypeOK, OpenStatus, ClosedStatus, Verdicts
<1>1. ASSUME NEW u \in Updates, Assign(u) \/ Cancel(u) PROVE UDTypeOK'
  BY <1>1 DEF Assign, Cancel
<1>2. CASE ServerAnswer
  BY <1>2 DEF ServerAnswer, Recorded
<1>3. CASE Crash
  BY <1>3, CrashesAssumption DEF Crash
<1>4. CASE Fetched \/ InstallUpdate \/ Respond \/ Refused \/ Thrown \/ Elsewhere
  BY <1>4 DEF Fetched, InstallUpdate, Respond, Refused, Thrown, Elsewhere, device
<1>5. CASE UNCHANGED udVars
  BY <1>5 DEF udVars, device
<1> QED
  BY <1>1, <1>2, <1>3, <1>4, <1>5 DEF UDNext, Server

\* What hawkBit records and what the device keeps are of their types, whatever the updates.
THEOREM UDTypeCorrect == UDSpec => []UDTypeOK
  BY UDInitType, UDNextType, PTL DEF UDSpec

(***************************************************************************)
(* The strengthening.  From the answer of a poll to the end of the         *)
(* iteration the client follows one update: what was offered (OfferInv),   *)
(* what it is at (FollowInv), what its feedback is about and says          *)
(* (ReportInv).  Only its own feedback can close the update meanwhile.     *)
(***************************************************************************)
OfferInv ==
  pc = "wait" /\ call = "poll" /\ reply.outcome = "ok"
    /\ reply.action \in {"deploymentBase", "cancelAction"}
    => reply.link \in Updates /\ status[reply.link] \in OpenStatus

FollowInv ==
  pc \in {"wait", "restore", "callback"} =>
    /\ call \in {"deploymentBase", "download", "cancelAction"} \cup Feedbacks
         => followURI \in Updates
    /\ call \in {"deploymentBase", "download", "cancelAction"}
         => status[followURI] \in OpenStatus

ReportInv ==
  pc \in {"wait", "restore"} /\ call \in Feedbacks =>
    /\ request.path = followURI
    /\ call = "cancelFeedback" => verdict \in {"canceled", "rejected"}
    /\ call = "deploymentFeedback" =>
         /\ verdict \in {"success", "failure", "progress"}
         /\ verdict = "success" => followURI \in installed

DeliveryState == OfferInv /\ FollowInv /\ ReportInv

LEMMA InitDeliveryState == UDInit => DeliveryState
  BY DEF UDInit, Init, DeliveryState, OfferInv, FollowInv, ReportInv

\* The steps outside: they keep open what is open.
LEMMA ServerKeepsDeliveryState ==
  ASSUME TypeOK, UDTypeOK, DeliveryState, NEW u \in Updates, Assign(u) \/ Cancel(u)
  PROVE  DeliveryState'
<1>1. UNCHANGED << vars, installed, verdict >>
  BY DEF Assign, Cancel
<1>2. \A v \in Updates : status[v] \in OpenStatus => status'[v] \in OpenStatus
  BY DEF Assign, Cancel, OpenStatus, UDTypeOK
<1> QED
  BY <1>1, <1>2 DEF DeliveryState, OfferInv, FollowInv, ReportInv

LEMMA AnswerKeepsDeliveryState ==
  ASSUME TypeOK, UDTypeOK, DeliveryState, ServerAnswer
  PROVE  DeliveryState'
<1>1. /\ pc = "wait" /\ UNCHANGED << pc, call, followURI, request, verdict, installed >>
  BY DEF ServerAnswer, Answer
<1>2. call \notin Feedbacks => UNCHANGED status
  BY DEF ServerAnswer, Answer, TypeOK
<1>3. OfferInv'
  BY <1>1, <1>2 DEF ServerAnswer, Offers, OfferInv, OpenStatus, Feedbacks
<1> QED
  BY <1>1, <1>2, <1>3 DEF DeliveryState, FollowInv, ReportInv, Feedbacks

LEMMA DeviceKeepsDeliveryState ==
  ASSUME TypeOK, UDTypeOK, DeliveryState,
         Crash \/ Fetched \/ InstallUpdate \/ Respond \/ Refused \/ Thrown
  PROVE  DeliveryState'
<1> USE DEF DeliveryState, OfferInv, FollowInv, ReportInv, Feedbacks
<1>1. CASE Crash
  BY <1>1 DEF Crash, Restarted
<1>2. CASE Fetched
  BY <1>2 DEF Fetched, ActionFetched, Succeeded
<1>3. CASE InstallUpdate
  BY <1>3 DEF InstallUpdate
<1>4. CASE Respond
  BY <1>4 DEF Respond, SendFeedback, StartRequest, FeedbackOf
<1>5. CASE Refused
  BY <1>5 DEF Refused, FeedbackRefused, Caught
<1>6. CASE Thrown
  <2>1. CASE GiveUp
    BY <1>6, <2>1 DEF Thrown, GiveUp, GaveUp, Unwind
  <2>2. CASE RestoreThrow
    BY <1>6, <2>2 DEF Thrown, RestoreThrow, Unwind
  <2>3. CASE CallbackThrow
    BY <1>6, <2>3 DEF Thrown, CallbackThrow
  <2> QED
    BY <2>1, <2>2, <2>3, <1>6 DEF Thrown
<1> QED
  BY <1>1, <1>2, <1>3, <1>4, <1>5, <1>6

LEMMA ElsewhereKeepsDeliveryState ==
  ASSUME TypeOK, UDTypeOK, DeliveryState, Elsewhere
  PROVE  DeliveryState'
<1> USE DEF DeliveryState, OfferInv, FollowInv, ReportInv, Feedbacks
<1>1. UNCHANGED << status, installed, verdict >>
  BY DEF Elsewhere, device
<1>2. CASE OtherThread
  BY <1>1, <1>2 DEF OtherThread, Stop, RequestToPoll
<1>3. CASE Run \/ Begin \/ LoopTest \/ PollDone \/ SleepTest \/ Wake
  BY <1>1, <1>3 DEF Run, Begin, LoopTest, PollDone, SleepTest, Wake
<1>4. CASE OnAuthError
  BY <1>1, <1>4 DEF OnAuthError, RestoreTLS, RestoreToken, RestoreEndpoint
<1>5. CASE RestoreReturn
  BY <1>1, <1>5 DEF RestoreReturn, RetryRequest, RequestPath, NoReply, Answered
<1>6. CASE NoActionsReturn \/ ConfigReturn \/ ConfigAnswered
  BY <1>1, <1>6 DEF NoActionsReturn, ConfigReturn, ConfigAnswered, StartRequest
<1>7. CASE Download \/ Downloaded
  BY <1>1, <1>7 DEF Download, Downloaded, StartRequest, Succeeded
<1>8. CASE DoPoll
  BY <1>1, <1>8 DEF DoPoll, StartRequest, NoReply, Answered
<1>9. CASE AuthError
  BY <1>1, <1>9 DEF AuthError
<1>10. CASE PollAnswered
  BY <1>1, <1>10 DEF PollAnswered, StartRequest, Succeeded
<1>11. CASE FeedbackDelivered("deploymentBase") \/ FeedbackDelivered("cancelAction")
  BY <1>1, <1>11 DEF FeedbackDelivered
<1> QED
  BY <1>2, <1>3, <1>4, <1>5, <1>6, <1>7, <1>8, <1>9, <1>10, <1>11 DEF Elsewhere

LEMMA NextDeliveryState ==
  TypeOK /\ UDTypeOK /\ DeliveryState /\ [UDNext]_udVars => DeliveryState'
<1> SUFFICES ASSUME TypeOK, UDTypeOK, DeliveryState, [UDNext]_udVars PROVE DeliveryState'
  OBVIOUS
<1>1. CASE UNCHANGED udVars
  BY <1>1 DEF udVars, device, DeliveryState, OfferInv, FollowInv, ReportInv
<1> QED
  BY <1>1, ServerKeepsDeliveryState, AnswerKeepsDeliveryState, DeviceKeepsDeliveryState,
     ElsewhereKeepsDeliveryState DEF UDNext, Server

(***************************************************************************)
(* Refinement: each step is one of the life of an update, or a stutter.    *)
(***************************************************************************)
LEMMA InitImplementsLifecycle == UDInit => Lifecycle!LCInit
  BY DEF UDInit, Init, Lifecycle!LCInit, Working

LEMMA FollowedIsNoEndpoint ==
  ASSUME FollowInv, Working # NoEndpoint
  PROVE  Working = followURI /\ followURI \in Updates /\ status[followURI] \in OpenStatus
  BY DEF FollowInv, Working

LEMMA UpdatesAreEndpoints == NoEndpoint \notin Updates
  BY UpdateLinksAssumption, EndpointAssumption

LEMMA AnswerImplementsLifecycle ==
  ASSUME TypeOK, UDTypeOK, DeliveryState, ServerAnswer
  PROVE  [Lifecycle!LCNext]_(Lifecycle!lifecycle)
<1>1. pc = "wait" /\ UNCHANGED << pc, call, followURI, request, verdict, installed >>
  BY DEF ServerAnswer, Answer
<1>2. UNCHANGED Working
  BY <1>1 DEF Working
<1>3. CASE UNCHANGED status
  BY <1>1, <1>2, <1>3 DEF Lifecycle!lifecycle
<1>4. CASE processed' # processed
  <2> DEFINE u == request.path
  <2>1. call \in Feedbacks
    BY <1>4 DEF ServerAnswer, Answer, TypeOK
  <2>2. u = followURI /\ u \in Updates
    BY <1>1, <2>1 DEF DeliveryState, ReportInv, FollowInv
  <2>3. Working = NoEndpoint
    BY <1>1, <2>1 DEF Working, Feedbacks
  <2>4. /\ status[u] \in OpenStatus
        /\ call = "cancelFeedback" => status[u] = "canceling"
        /\ status' = [status EXCEPT ![u] = Recorded(u)]
    BY <1>4 DEF ServerAnswer, OpenStatus
  <2>5. CASE verdict = "progress"
    <3>1. Recorded(u) = status[u]
      BY <2>5 DEF Recorded
    <3>2. UNCHANGED status
      BY <3>1, <2>2, <2>4 DEF UDTypeOK
    <3> QED
      BY <1>3, <3>2
  <2>6. CASE verdict # "progress"
    <3>1. /\ Recorded(u) \in ClosedStatus \cup {"resumed"}
          /\ Recorded(u) = "finished" => u \in installed
          /\ Recorded(u) \in {"canceled", "resumed"} => status[u] = "canceling"
      BY <1>1, <2>1, <2>2, <2>4, <2>6
      DEF DeliveryState, ReportInv, Recorded, ClosedStatus, Feedbacks
    <3>2. Lifecycle!Record(u)
      BY <3>1, <2>3, <2>4, <1>1, <1>2
      DEF Lifecycle!Record, Lifecycle!OpenStatus, Lifecycle!ClosedStatus, OpenStatus,
          ClosedStatus
    <3> QED
      BY <3>2, <2>2 DEF Lifecycle!LCNext
  <2> QED
    BY <2>5, <2>6
<1> QED
  BY <1>3, <1>4 DEF ServerAnswer

\* Every step of the device that does not install: it takes an open update on, lays it down,
\* or goes on with it.
LEMMA WorkImplementsLifecycle ==
  ASSUME DeliveryState', UNCHANGED << status, installed >>,
         \/ Working' = NoEndpoint
         \/ Working' = Working
         \/ Working' # NoEndpoint
  PROVE  [Lifecycle!LCNext]_(Lifecycle!lifecycle)
<1>1. CASE Working' = NoEndpoint
  BY <1>1 DEF Lifecycle!LCNext, Lifecycle!LayDown
<1>2. CASE Working' # NoEndpoint
  <2>1. Working' \in Updates /\ status'[Working'] \in OpenStatus
    BY <1>2 DEF DeliveryState, FollowInv, Working
  <2>2. Lifecycle!TakeOn(Working')
    BY <2>1 DEF Lifecycle!TakeOn, Lifecycle!OpenStatus, OpenStatus
  <2> QED
    BY <2>1, <2>2 DEF Lifecycle!LCNext
<1> QED
  BY <1>1, <1>2

LEMMA StepImplementsLifecycle ==
  TypeOK /\ UDTypeOK /\ DeliveryState /\ DeliveryState' /\ [UDNext]_udVars
    => [Lifecycle!LCNext]_(Lifecycle!lifecycle)
<1> SUFFICES ASSUME TypeOK, UDTypeOK, DeliveryState, DeliveryState', [UDNext]_udVars
             PROVE  [Lifecycle!LCNext]_(Lifecycle!lifecycle)
  OBVIOUS
<1>1. ASSUME NEW u \in Updates, Assign(u) \/ Cancel(u)
      PROVE  [Lifecycle!LCNext]_(Lifecycle!lifecycle)
  <2>1. UNCHANGED << installed, Working >>
    BY <1>1 DEF Assign, Cancel, Working
  <2>2. Lifecycle!Manage(u)
    BY <1>1, <2>1 DEF Assign, Cancel, Lifecycle!Manage
  <2> QED
    BY <2>2 DEF Lifecycle!LCNext
<1>2. CASE InstallUpdate
  <2>1. Working = followURI /\ UNCHANGED Working /\ UNCHANGED status
    BY <1>2 DEF InstallUpdate, Working
  <2>2. followURI # NoEndpoint /\ status[followURI] \in OpenStatus
    BY <1>2, UpdatesAreEndpoints DEF InstallUpdate, DeliveryState, FollowInv
  <2>3. installed' = installed \cup {followURI}
    BY <1>2 DEF InstallUpdate
  <2>4. Lifecycle!InstallUpdate
    BY <2>1, <2>2, <2>3 DEF Lifecycle!InstallUpdate, Lifecycle!OpenStatus, OpenStatus
  <2> QED
    BY <2>4 DEF Lifecycle!LCNext
<1>3. CASE Crash \/ Fetched \/ Respond \/ Refused \/ Thrown \/ Elsewhere \/ UNCHANGED udVars
  <2>1. UNCHANGED << status, installed >>
    BY <1>3 DEF Crash, Fetched, Respond, Refused, Thrown, Elsewhere, udVars, device
  <2> QED
    BY <2>1, WorkImplementsLifecycle
<1> QED
  BY <1>1, <1>2, <1>3, AnswerImplementsLifecycle DEF UDNext, Server

\* The composition of client, device and hawkBit, crashes included, implements the life of
\* an update.
THEOREM DeliveryImplementsLifecycle == UDSpec => ImplementsLifecycle
<1>1. UDInit => Lifecycle!LCInit
  BY InitImplementsLifecycle
<1> QED
  BY <1>1, InitDeliveryState, NextDeliveryState, StepImplementsLifecycle, ClientTypeCorrect,
     UDTypeCorrect, PTL
  DEF UDSpec, ImplementsLifecycle, Lifecycle!LCSpec

(***************************************************************************)
(* What the life of an update promises, so what the composition keeps.     *)
(***************************************************************************)
LifecycleInv == Lifecycle!FinishedIsInstalled /\ Lifecycle!WorksOnOpenUpdates

LEMMA LifecycleStep ==
  ASSUME LifecycleInv, [Lifecycle!LCNext]_(Lifecycle!lifecycle), UDTypeOK
  PROVE  LifecycleInv'
<1> DEFINE w == Working
<1>0. /\ \A v \in Updates : status[v] = "finished" => v \in installed
      /\ w # NoEndpoint => status[w] \in Lifecycle!OpenStatus
  BY DEF LifecycleInv, Lifecycle!FinishedIsInstalled, Lifecycle!WorksOnOpenUpdates
<1>t. status \in [Updates -> {"unassigned"} \cup OpenStatus \cup ClosedStatus]
  BY DEF UDTypeOK
<1> DEFINE Goal == /\ \A v \in Updates : status'[v] = "finished" => v \in installed'
                   /\ w' # NoEndpoint => status'[w'] \in Lifecycle!OpenStatus
<1>g. SUFFICES Goal
  BY DEF LifecycleInv, Lifecycle!FinishedIsInstalled, Lifecycle!WorksOnOpenUpdates,
         Lifecycle!OpenStatus
<1>1. ASSUME NEW u \in Updates, Lifecycle!Manage(u) PROVE Goal
  <2>1. w' = w /\ installed' = installed
    BY <1>1 DEF Lifecycle!Manage
  <2>2. \E s \in {"running", "canceling"} : status' = [status EXCEPT ![u] = s]
    BY <1>1 DEF Lifecycle!Manage
  <2> QED
    BY <1>0, <1>t, <2>1, <2>2 DEF Lifecycle!OpenStatus
<1>2. ASSUME NEW u \in Updates, Lifecycle!TakeOn(u) PROVE Goal
  <2>1. w' = u /\ status' = status /\ installed' = installed
    BY <1>2 DEF Lifecycle!TakeOn
  <2> QED
    BY <1>0, <1>2, <2>1 DEF Lifecycle!TakeOn
<1>3. ASSUME NEW u \in Updates, Lifecycle!Record(u) PROVE Goal
  <2>1. w = NoEndpoint /\ w' = w /\ installed' = installed
    BY <1>3 DEF Lifecycle!Record
  <2>2. PICK s : status' = [status EXCEPT ![u] = s] /\ (s = "finished" => u \in installed)
    BY <1>3 DEF Lifecycle!Record
  <2> QED
    BY <1>0, <1>t, <2>1, <2>2
<1>4. CASE Lifecycle!InstallUpdate
  <2>1. w' = w /\ status' = status /\ installed' = installed \cup {w}
    BY <1>4 DEF Lifecycle!InstallUpdate
  <2> QED
    BY <1>0, <2>1
<1>5. CASE Lifecycle!LayDown \/ UNCHANGED Lifecycle!lifecycle
  <2>1. (w' = w \/ w' = NoEndpoint) /\ status' = status /\ installed' = installed
    BY <1>5 DEF Lifecycle!LayDown, Lifecycle!lifecycle
  <2> QED
    BY <1>0, <2>1
<1> QED
  BY <1>1, <1>2, <1>3, <1>4, <1>5 DEF Lifecycle!LCNext

\* hawkBit never calls finished what is not installed, and the device never works on an
\* update that is closed, through all lost feedbacks and crashes.
THEOREM FinishedUpdatesAreInstalled ==
  UDSpec => [](Lifecycle!FinishedIsInstalled /\ Lifecycle!WorksOnOpenUpdates)
<1>1. UDInit => LifecycleInv
  BY DEF UDInit, Init, LifecycleInv, Lifecycle!FinishedIsInstalled,
         Lifecycle!WorksOnOpenUpdates, Working
<1>2. UDTypeOK /\ LifecycleInv /\ [Lifecycle!LCNext]_(Lifecycle!lifecycle) => LifecycleInv'
  BY LifecycleStep
<1> QED
  BY <1>1, <1>2, DeliveryImplementsLifecycle, UDTypeCorrect, PTL
  DEF UDSpec, ImplementsLifecycle, Lifecycle!LCSpec, LifecycleInv

(***************************************************************************)
(* A crash leads to an initial state of the client, so its invariants are  *)
(* those of a client that may crash.                                       *)
(***************************************************************************)
ClientInv == StopInv /\ PollInv /\ RetryInv /\ DeliveryInv

LEMMA InitClientInv == Init => ClientInv
  BY DEF Init, Built, ClientInv, StopInv, Starting, PollInv, RetryInv, DeliveryInv,
         InRequest, DeliveryReportedTruthfully, NoSilentFeedbackLoss

LEMMA InitClientInvNext == Init' => ClientInv'
  BY InitClientInv, PTL

\* Through crashes and restarts the client keeps what is proved of it without: stop() ends
\* the loop, a requested poll is served, a retry repeats its request, the listener hears the
\* truth and no feedback is lost in silence.
THEOREM GuaranteesSurviveCrashes ==
  UDSpec => [](/\ StopEndsPolling /\ PollRequestServed /\ RetryRepeatsRequest
               /\ DeliveryReportedTruthfully /\ NoSilentFeedbackLoss)
<1>1. UDInit => ClientInv
  BY InitClientInv DEF UDInit
<1>2. TypeOK /\ ClientInv /\ [UDNext]_udVars => ClientInv'
  <2>1. TypeOK /\ ClientInv /\ [Next]_vars => ClientInv'
    BY NextStop, NextPoll, NextRetry, NextDelivery DEF ClientInv
  <2> QED
    BY <2>1, ClientOrCrash, RestartedIsInit, InitClientInvNext
<1>3. ClientInv => /\ StopEndsPolling /\ PollRequestServed /\ RetryRepeatsRequest
                   /\ DeliveryReportedTruthfully /\ NoSilentFeedbackLoss
  BY DEF ClientInv, StopInv, StopEndsPolling, PollInv, PollRequestServed, RetryInv,
         RetryRepeatsRequest, DeliveryInv
<1> QED
  BY <1>1, <1>2, <1>3, ClientTypeCorrect, PTL DEF UDSpec

(***************************************************************************)
(* An update is installed again only after a failure.  At most one update  *)
(* is open, and while nothing has gone wrong an installed one that is      *)
(* still open is the one the client is at work on, or is reporting.        *)
(***************************************************************************)
OneOpenInv ==
  /\ \A u, v \in Updates : status[u] \in OpenStatus /\ status[v] \in OpenStatus => u = v
  /\ \A u \in installed : status[u] # "unassigned"

InHand(u) ==
  /\ followURI = u
  /\ \/ pc = "callback" /\ call = "deploymentBase" /\ verdict = "installed"
     \/ pc \in {"wait", "restore"} /\ call = "download" /\ verdict = "installed"
     \/ /\ pc \in {"wait", "restore"} /\ call = "deploymentFeedback"
        /\ verdict \in {"success", "failure"} /\ reply.outcome # "ok"

SettledInv == ~interrupted => \A u \in installed : status[u] \in ClosedStatus \/ InHand(u)

ReinstallInv == OneOpenInv /\ SettledInv

LEMMA InitReinstall == UDInit => ReinstallInv
  BY DEF UDInit, ReinstallInv, OneOpenInv, SettledInv, OpenStatus

\* A step that neither installs nor records: what is in hand stays so, or something went wrong.
LEMMA KeepsReinstall ==
  ASSUME ReinstallInv, UNCHANGED << status, installed >>, interrupted => interrupted',
         \A u \in installed : InHand(u) => interrupted' \/ InHand(u)' \/ status[u] \in ClosedStatus
  PROVE  ReinstallInv'
  BY DEF ReinstallInv, OneOpenInv, SettledInv

LEMMA ServerKeepsReinstall ==
  ASSUME UDTypeOK, ReinstallInv, NEW u \in Updates, Assign(u) \/ Cancel(u)
  PROVE  ReinstallInv'
<1>1. UNCHANGED << vars, installed, verdict, interrupted >> /\ installed \subseteq Updates
  BY DEF Assign, Cancel, UDTypeOK
<1>2. CASE Assign(u)
  <2>1. /\ \A v \in Updates : status[v] \notin OpenStatus
        /\ status[u] = "unassigned" /\ status' = [status EXCEPT ![u] = "running"]
    BY <1>2 DEF Assign
  <2>2. u \notin installed /\ \A v \in Updates : v # u => status'[v] = status[v]
    BY <2>1 DEF ReinstallInv, OneOpenInv, UDTypeOK
  <2>3. \A v \in installed : status'[v] = status[v]
    BY <1>1, <2>2
  <2> QED
    BY <1>1, <2>1, <2>2, <2>3 DEF ReinstallInv, OneOpenInv, SettledInv, InHand
<1>3. CASE Cancel(u)
  <2>1. /\ status[u] = "running" /\ status'[u] = "canceling"
        /\ \A v \in Updates : v # u => status'[v] = status[v]
    BY <1>3 DEF Cancel, UDTypeOK
  <2>2. /\ \A v \in Updates : status'[v] \in OpenStatus => status[v] \in OpenStatus
        /\ \A v \in Updates : status[v] \in ClosedStatus => status'[v] \in ClosedStatus
        /\ \A v \in Updates : status[v] # "unassigned" => status'[v] # "unassigned"
    BY <2>1 DEF OpenStatus, ClosedStatus
  <2> QED
    BY <1>1, <2>2 DEF ReinstallInv, OneOpenInv, SettledInv, InHand
<1> QED
  BY <1>2, <1>3

LEMMA AnswerKeepsReinstall ==
  ASSUME TypeOK, UDTypeOK, DeliveryState, ReinstallInv, ServerAnswer
  PROVE  ReinstallInv'
<1>1. /\ pc = "wait" /\ UNCHANGED << pc, call, followURI, request, verdict, installed, interrupted >>
      /\ installed \subseteq Updates /\ processed \in Nat
  BY DEF ServerAnswer, Answer, UDTypeOK, TypeOK
<1>2. CASE processed' = processed
  <2>1. UNCHANGED status
    BY <1>2 DEF ServerAnswer
  <2>2. call = "deploymentFeedback" => reply'.outcome # "ok"
    BY <1>1, <1>2 DEF ServerAnswer, Answer, Feedbacks
  <2> QED
    BY <1>1, <2>1, <2>2, KeepsReinstall DEF InHand
<1>3. CASE processed' # processed
  <2> DEFINE u == request.path
  <2>1. call \in Feedbacks
    BY <1>3 DEF ServerAnswer, Answer
  <2>2. u = followURI /\ u \in Updates
    BY <1>1, <2>1 DEF DeliveryState, ReportInv, FollowInv
  <2>3. /\ status[u] \in OpenStatus
        /\ call = "cancelFeedback" => status[u] = "canceling"
        /\ status' = [status EXCEPT ![u] = Recorded(u)]
    BY <1>3 DEF ServerAnswer, OpenStatus
  <2>4. /\ status'[u] = Recorded(u)
        /\ \A v \in Updates : v # u => status'[v] = status[v]
    BY <2>2, <2>3 DEF UDTypeOK
  <2>5. Recorded(u) \in OpenStatus \cup ClosedStatus
    BY <2>3 DEF Recorded, OpenStatus, ClosedStatus
  <2>6. OneOpenInv'
    BY <1>1, <2>3, <2>4, <2>5 DEF ReinstallInv, OneOpenInv, OpenStatus, ClosedStatus
  <2>7. ASSUME ~interrupted, NEW v \in installed PROVE status'[v] \in ClosedStatus
    <3>1. status[v] \in ClosedStatus \/ InHand(v)
      BY <2>7 DEF ReinstallInv, SettledInv
    <3>2. CASE v # u
      BY <1>1, <2>1, <2>2, <2>4, <3>1, <3>2 DEF InHand, Feedbacks
    <3>3. CASE v = u
      <4>1. InHand(u)
        BY <2>3, <3>1, <3>3 DEF OpenStatus, ClosedStatus
      <4>2. verdict \in {"success", "failure"}
        BY <1>1, <2>1, <4>1 DEF InHand, Feedbacks
      <4> QED
        BY <2>4, <3>3, <4>2 DEF Recorded, ClosedStatus
    <3> QED
      BY <3>2, <3>3
  <2> QED
    BY <1>1, <2>6, <2>7 DEF ReinstallInv, SettledInv
<1> QED
  BY <1>2, <1>3

LEMMA InstallKeepsReinstall ==
  ASSUME UDTypeOK, DeliveryState, ReinstallInv, InstallUpdate
  PROVE  ReinstallInv'
<1>1. /\ followURI \in Updates /\ status[followURI] \in OpenStatus /\ installed \subseteq Updates
      /\ installed' = installed \cup {followURI} /\ UNCHANGED << status, vars >>
      /\ pc = "callback" /\ call = "deploymentBase" /\ verdict' = "installed"
  BY DEF InstallUpdate, DeliveryState, FollowInv, UDTypeOK
<1>2. InHand(followURI)'
  BY <1>1 DEF InHand
<1>3. OneOpenInv'
  BY <1>1 DEF ReinstallInv, OneOpenInv, OpenStatus
<1>4. \A v \in installed : v # followURI => status[v] \in ClosedStatus
  BY <1>1 DEF ReinstallInv, OneOpenInv, UDTypeOK, OpenStatus, ClosedStatus
<1>5. \A v \in installed' : status'[v] \in ClosedStatus \/ InHand(v)'
  <2> TAKE v \in installed'
  <2>1. CASE v = followURI
    <3>1. InHand(v)' <=> InHand(followURI)'
      BY <1>1, <2>1 DEF InHand
    <3> QED
      BY <1>2, <3>1
  <2>2. CASE v # followURI
    BY <1>1, <1>4, <2>2
  <2> QED
    BY <2>1, <2>2
<1> QED
  BY <1>3, <1>5 DEF ReinstallInv, SettledInv

LEMMA DeviceKeepsReinstall ==
  ASSUME TypeOK, UDTypeOK, DeliveryState, ReinstallInv, Crash \/ Fetched \/ Respond \/ Refused \/ Thrown
  PROVE  ReinstallInv'
<1>1. CASE Crash \/ Refused
  BY <1>1, KeepsReinstall DEF Crash, Refused
<1>2. CASE Fetched
  BY <1>2, KeepsReinstall DEF Fetched, ActionFetched, Succeeded, InHand
<1>3. CASE Respond
  <2>1. /\ UNCHANGED << status, installed, followURI >> /\ pc = "callback" /\ pc' = "wait"
        /\ reply'.outcome # "ok" /\ call' = FeedbackOf(call)
        /\ call = "deploymentBase" => verdict' \in {"success", "failure", "progress"}
        /\ interrupted' = (interrupted \/ verdict' = "progress")
    BY <1>3 DEF Respond, SendFeedback, StartRequest, NoReply, Answered
  <2>2. \A u \in installed : InHand(u) => interrupted' \/ InHand(u)'
    BY <2>1 DEF InHand, FeedbackOf
  <2> QED
    BY <2>1, <2>2, KeepsReinstall
<1>4. CASE Thrown
  <2>1. UNCHANGED << status, installed, verdict, followURI, reply >>
        /\ interrupted' = (interrupted \/ pc' = "idle")
    BY <1>4 DEF Thrown, GiveUp, RestoreThrow, CallbackThrow
  <2>2. pc' = "idle" \/ (call = "download" /\ pc \in {"wait", "restore"} /\ pc' = "callback"
                           /\ call' = "deploymentBase")
    BY <1>4 DEF Thrown, GiveUp, GaveUp, RestoreThrow, CallbackThrow, Unwind
  <2> QED
    BY <2>1, <2>2, KeepsReinstall DEF InHand
<1> QED
  BY <1>1, <1>2, <1>3, <1>4

LEMMA ElsewhereKeepsReinstall ==
  ASSUME TypeOK, UDTypeOK, ReinstallInv, Elsewhere
  PROVE  ReinstallInv'
<1>1. UNCHANGED << status, installed, verdict, interrupted >>
  BY DEF Elsewhere, device
<1> SUFFICES ASSUME NEW u \in installed, InHand(u)
             PROVE  interrupted' \/ InHand(u)' \/ status[u] \in ClosedStatus
  BY <1>1, KeepsReinstall
<1> USE DEF InHand
<1>2. CASE OtherThread
  BY <1>1, <1>2 DEF OtherThread, Stop, RequestToPoll
<1>3. CASE Run \/ Begin \/ LoopTest \/ PollDone \/ SleepTest \/ Wake \/ DoPoll
  BY <1>3 DEF Run, Begin, LoopTest, PollDone, SleepTest, Wake, DoPoll
<1>4. CASE OnAuthError
  BY <1>1, <1>4 DEF OnAuthError, RestoreTLS, RestoreToken, RestoreEndpoint
<1>5. CASE RestoreReturn
  BY <1>1, <1>5 DEF RestoreReturn, NoReply, Answered
<1>6. CASE NoActionsReturn \/ ConfigReturn \/ ConfigAnswered \/ PollAnswered
  BY <1>6 DEF NoActionsReturn, ConfigReturn, ConfigAnswered, PollAnswered, Succeeded
<1>7. CASE Download \/ Downloaded
  BY <1>1, <1>7 DEF Download, Downloaded, StartRequest, Succeeded
<1>8. CASE AuthError
  BY <1>1, <1>8 DEF AuthError
<1>9. CASE FeedbackDelivered("deploymentBase") \/ FeedbackDelivered("cancelAction")
  BY <1>9 DEF FeedbackDelivered, Succeeded, FeedbackOf
<1> QED
  BY <1>2, <1>3, <1>4, <1>5, <1>6, <1>7, <1>8, <1>9 DEF Elsewhere

LEMMA NextReinstall ==
  TypeOK /\ UDTypeOK /\ DeliveryState /\ ReinstallInv /\ [UDNext]_udVars => ReinstallInv'
<1> SUFFICES ASSUME TypeOK, UDTypeOK, DeliveryState, ReinstallInv, [UDNext]_udVars PROVE ReinstallInv'
  OBVIOUS
<1>1. CASE UNCHANGED udVars
  BY <1>1 DEF udVars, device, ReinstallInv, OneOpenInv, SettledInv, InHand
<1> QED
  BY <1>1, ServerKeepsReinstall, AnswerKeepsReinstall, InstallKeepsReinstall, DeviceKeepsReinstall,
     ElsewhereKeepsReinstall DEF UDNext, Server

\* An update is installed a second time only after a crash, an exception that left run(), a refused
\* feedback or a response that did not close it: no stop(), no new call of run(), no retry after a
\* 401 and no poll causes it.
THEOREM ReinstalledOnlyAfterFailureHolds == UDSpec => ReinstalledOnlyAfterFailure
<1>1. ASSUME DeliveryState, ReinstallInv, [UDNext]_udVars
      PROVE  verdict = "none" /\ verdict' = "installed" /\ followURI \in installed => interrupted
  <2>1. SUFFICES ASSUME verdict = "none", verdict' = "installed", followURI \in installed
                 PROVE  interrupted
    OBVIOUS
  <2>2. InstallUpdate
    BY <1>1, <2>1 DEF UDNext, Server, Assign, Cancel, ServerAnswer, Crash, Fetched, Respond, Refused,
       Thrown, Elsewhere, device, udVars
  <2>3. status[followURI] \in OpenStatus /\ ~InHand(followURI)
    BY <1>1, <2>1, <2>2 DEF InstallUpdate, DeliveryState, FollowInv, InHand
  <2> QED
    BY <1>1, <2>1, <2>3 DEF ReinstallInv, SettledInv, OpenStatus, ClosedStatus
<1>2. DeliveryState /\ ReinstallInv /\ [UDNext]_udVars
        => [verdict = "none" /\ verdict' = "installed" /\ followURI \in installed => interrupted]_udVars
  BY <1>1
<1> QED
  BY <1>2, InitReinstall, InitDeliveryState, NextReinstall, NextDeliveryState, ClientTypeCorrect,
     UDTypeCorrect, PTL
  DEF UDSpec, ReinstalledOnlyAfterFailure

================================================================================
