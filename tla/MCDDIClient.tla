------------------------------ MODULE MCDDIClient ------------------------------
(***************************************************************************)
(* Instances of the client for TLC.                                        *)
(***************************************************************************)
EXTENDS DDIClientDocs

CONSTANTS e1, e2, link, token, keypair

\* Polling instance: every source of a sleep time, one endpoint, no credentials.
\* -1: the server sends no interval and the default one is used; 0: no sleep at all;
\* 1500: half a second more than the sleep loop counts.
PollingSleepTimes == {-1, 2000}
PollingDefaults == {0, 1500}
OneEndpoint == {e1}

\* Authorization instance: a second endpoint to move to, a token and a key pair.
NoSleepTime == {-1}
NoDefault == {0}
TwoEndpoints == {e1, e2}

MCLinks == {link}
OneToken == {token}
OneKeypair == {keypair}

================================================================================
