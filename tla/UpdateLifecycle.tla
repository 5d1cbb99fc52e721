---------------------------- MODULE UpdateLifecycle ----------------------------
(***************************************************************************)
(* What a device and hawkBit promise about the updates assigned to the     *)
(* device, whatever happens to requests, to feedback and to the process:   *)
(* the device works only on updates that hawkBit still holds open, hawkBit *)
(* records as finished only what the device installed, and what is closed  *)
(* stays closed.  How they talk is left to UpdateDelivery.                 *)
(***************************************************************************)
CONSTANTS Updates, NoUpdate

VARIABLES status,      \* of each update, as hawkBit has it
          installed,   \* the updates the device has installed
          working      \* the update the device is working on, or NoUpdate

lifecycle == << status, installed, working >>

\* "resumed": running again after the device rejected a cancellation.
OpenStatus == {"running", "canceling", "resumed"}
ClosedStatus == {"finished", "failed", "canceled"}

LCInit ==
  /\ status = [u \in Updates |-> "unassigned"]
  /\ installed = {}
  /\ working = NoUpdate

\* The operator assigns an update, or asks to cancel it.
Manage(u) ==
  /\ \/ status[u] = "unassigned" /\ status' = [status EXCEPT ![u] = "running"]
     \/ status[u] = "running"    /\ status' = [status EXCEPT ![u] = "canceling"]
  /\ UNCHANGED << installed, working >>

\* The device takes an update on, installs it (perhaps again), and is done with it or is
\* interrupted.
TakeOn(u) ==
  /\ status[u] \in OpenStatus
  /\ working' = u
  /\ UNCHANGED << status, installed >>

InstallUpdate ==
  /\ working # NoUpdate /\ status[working] \in OpenStatus
  /\ installed' = installed \cup {working}
  /\ UNCHANGED << status, working >>

LayDown ==
  /\ working' = NoUpdate
  /\ UNCHANGED << status, installed >>

\* hawkBit records what the device reports, when the device is not at work on it.
Record(u) ==
  /\ status[u] \in OpenStatus
  /\ working = NoUpdate
  /\ \E s \in ClosedStatus \cup {"resumed"} :
       /\ s = "finished" => u \in installed
       /\ s \in {"canceled", "resumed"} => status[u] = "canceling"
       /\ status' = [status EXCEPT ![u] = s]
  /\ UNCHANGED << installed, working >>

LCNext ==
  \/ \E u \in Updates : Manage(u) \/ TakeOn(u) \/ Record(u)
  \/ InstallUpdate \/ LayDown

LCSpec == LCInit /\ [][LCNext]_lifecycle

--------------------------------------------------------------------------------
\* hawkBit calls finished only what the device installed, and the device is never at work on
\* an update that is closed.
FinishedIsInstalled == \A u \in Updates : status[u] = "finished" => u \in installed

WorksOnOpenUpdates == working # NoUpdate => status[working] \in OpenStatus

================================================================================
