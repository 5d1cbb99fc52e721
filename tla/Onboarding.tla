------------------------------ MODULE Onboarding ------------------------------
(***************************************************************************)
(* How a device gets its first certificate and its key pair: ritms_ott     *)
(* exchanges a one-time token for the certificate, ritms_auth sends the    *)
(* certificate to the provisioning service, up to RetryAttempts times, and *)
(* prints the key pair and the endpoint it gets.  Either program may be    *)
(* run again, MaxRuns times in all.                                        *)
(*                                                                         *)
(* External: the two services.  An exchange spends the token; provisioning *)
(* issues a new key pair, and only the last one is good.  An answer may be *)
(* lost, have another status, or not be the document that is expected.     *)
(***************************************************************************)
EXTENDS Integers

CONSTANTS RetryAttempts,   \* 5 in the code
          MaxRuns

ASSUME AttemptsAssumption == RetryAttempts \in Nat /\ MaxRuns \in Nat

VARIABLES program,      \* what is running
          runs,         \* programs started so far
          spent,        \* is the one-time token spent?
          certificate,  \* does the file of CERT_PATH hold the certificate?
          dpsClient,    \* the ProvisioningClient and the certificate it sends
          issued,       \* key pairs issued so far
          payload,      \* what doProvisioning() returned, 0 for nullptr
          attempt,      \* i of the loop in main()
          printed,      \* the key pair last printed
          exit          \* how the last program ended

onboardingVars ==
  << program, runs, spent, certificate, dpsClient, issued, payload, attempt, printed, exit >>

NoClientYet == [built |-> FALSE]

OnboardingInit ==
  /\ program = "none" /\ runs = 0 /\ spent = FALSE /\ certificate = FALSE
  /\ dpsClient = NoClientYet /\ issued = 0 /\ payload = 0 /\ attempt = 0 /\ printed = 0 /\ exit = "none"

Exit(how) == program' = "none" /\ exit' = how

Start(p) ==
  /\ program = "none" /\ runs < MaxRuns
  /\ program' = p /\ runs' = runs + 1
  /\ exit' = "none" /\ dpsClient' = NoClientYet /\ payload' = 0 /\ attempt' = 0
  /\ UNCHANGED << spent, certificate, issued, printed >>

\* getEnvOrExit(), and what throws on the way to the request: an endpoint that is no URI,
\* inside the try of ritms_ott and outside of any in ritms_auth, or no file to open.
Misconfigured ==
  /\ program # "none" /\ ~dpsClient.built
  /\ \/ Exit("2")
     \/ program = "ritms_ott" /\ Exit("3")
     \/ program = "ritms_auth" /\ Exit("terminated")
  /\ UNCHANGED << runs, spent, certificate, dpsClient, issued, payload, attempt, printed >>

\* CloudProvisioningClientBuilder: the endpoint parsed, the certificate read, a header.
BuildClient ==
  /\ program = "ritms_auth" /\ ~dpsClient.built
  /\ dpsClient' = [built |-> TRUE, crt |-> certificate]
  /\ UNCHANGED << program, runs, spent, certificate, issued, payload, attempt, printed, exit >>

(***************************************************************************)
(* An answer: "ok" with 200 or 201, another status, none, a document that  *)
(* lacks a member, and one that is no object or has a member of another    *)
(* type: there rapidjson asserts.  The service may have taken in a request *)
(* whose answer is lost or not understood, if it takes it in at all.       *)
(***************************************************************************)
Answers == {"200", "201", "other", "lost", "incomplete", "otherType"}

Possible(answer, taken, acceptable) ==
  /\ answer \in {"200", "201"} => taken
  /\ answer = "other" => ~taken
  /\ taken => acceptable

\* TokenExchanger_impl::exchange(): both comparisons of the status are with 200.
Exchange ==
  /\ program = "ritms_ott"
  /\ \E answer \in Answers, taken \in BOOLEAN :
       /\ Possible(answer, taken, ~spent)
       /\ spent' = (spent \/ taken)
       /\ certificate' = (certificate \/ answer = "200")
       /\ Exit(CASE answer = "200" -> "0" [] answer = "otherType" -> "aborted" [] OTHER -> "3")
  /\ UNCHANGED << runs, dpsClient, issued, payload, attempt, printed >>

--------------------------------------------------------------------------------
\* mutant: the loop goes on after a success
AttemptAfterAnother(a) == attempt + 1

\* The break that leaves the loop.
AttemptAfterSuccess(a) == RetryAttempts

\* doProvisioning() in the loop of ritms_auth.
Provision ==
  /\ dpsClient.built /\ program = "ritms_auth" /\ attempt < RetryAttempts
  /\ \E answer \in Answers, taken \in BOOLEAN :
       /\ Possible(answer, taken, dpsClient.crt)
       /\ issued' = IF taken THEN issued + 1 ELSE issued
       /\ IF answer \in {"200", "201"}
            THEN /\ payload' = issued' /\ attempt' = AttemptAfterSuccess(attempt)
                 /\ UNCHANGED << program, exit >>
            ELSE /\ IF answer = "otherType" THEN Exit("aborted") ELSE UNCHANGED << program, exit >>
                 /\ attempt' = attempt + 1 /\ UNCHANGED payload
  /\ UNCHANGED << runs, spent, certificate, dpsClient, printed >>

PrintOrGiveUp ==
  /\ dpsClient.built /\ program = "ritms_auth" /\ attempt = RetryAttempts
  /\ IF payload = 0 THEN Exit("102") /\ UNCHANGED printed
                    ELSE Exit("0") /\ printed' = payload
  /\ UNCHANGED << runs, spent, certificate, dpsClient, issued, payload, attempt >>

OnboardingNext ==
  \/ Start("ritms_ott") \/ Start("ritms_auth") \/ Misconfigured \/ BuildClient
  \/ Exchange \/ Provision \/ PrintOrGiveUp
OnboardingSpec == OnboardingInit /\ [][OnboardingNext]_onboardingVars

--------------------------------------------------------------------------------
\* A ritms_auth that succeeds has printed the key pair issued last, not one that a later
\* attempt has replaced, even if answers were lost in between.
PrintedKeyPairIsCurrent ==
  program = "none" /\ exit = "0" /\ payload # 0 => printed = issued

================================================================================
