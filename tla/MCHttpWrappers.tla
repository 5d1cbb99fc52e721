--------------------------- MODULE MCHttpWrappers ---------------------------
(***************************************************************************)
(* Instances of the two wrappers of the HTTP client: a build has one of    *)
(* them.                                                                   *)
(***************************************************************************)
EXTENDS HttpLibClient, WinHttp

VARIABLE platform

MCChains == {<< "device", "ca" >>, << "device2", "ca", "root" >>, << "device3", "ca3", "root3" >>, << "device4" >>}

MCInit == LibInit /\ WinInit /\ platform \in {"unix", "windows"}

Unix == platform = "unix" /\ UNCHANGED << win, platform >>
Windows == platform = "windows" /\ UNCHANGED << lib, platform >>

\* Bounds of the windows instance.  Requests with a keypair differ in what is done to the store
\* and before the connection; the requests without one, which leave the store alone, take every
\* address, option, body and receiver.
Bounded ==
  IF chain' = << >>
    THEN store = << >>
    ELSE sink' = "receiver" /\ length' = 1 /\ verify' /\ address' # "http"

MCNext ==
  \/ LibNext /\ Unix
  \/ WinAsk /\ Bounded /\ Windows
  \/ WinStep /\ Windows
mcVars == << http, lib, win, platform >>

MCSpec ==
  /\ MCInit /\ [][MCNext]_mcVars
  /\ WF_mcVars(LibStep /\ Unix) /\ WF_mcVars(WinStep /\ Windows)

================================================================================
