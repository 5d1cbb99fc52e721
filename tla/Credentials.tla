------------------------------ MODULE Credentials ------------------------------
(***************************************************************************)
(* The authorization state of a hawkBit client, and the operations of      *)
(* HawkbitCommunicationClient that replace it (ddi_client_impl.cpp).       *)
(*                                                                         *)
(* The client authorizes its requests in one of two ways: with a header    *)
(* "Authorization: <type> <token>" kept in the multimap defaultHeaders, or *)
(* with an mTLS key pair.  Headers of other names never change once the    *)
(* client is built, so only the Authorization entries are kept here, in    *)
(* the order in which the multimap stores (and a request sends) them.      *)
(***************************************************************************)
EXTENDS Sequences

CONSTANTS Tokens,     \* values of security and gateway tokens
          Keypairs,   \* (crt, key) pairs
          NoKeypair   \* stands for mTLSKeypair.isSet = false

ASSUME KeypairAssumption == NoKeypair \notin Keypairs

AuthTypes == {"TargetToken", "GatewayToken", "custom"}

Header == [type : AuthTypes, token : Tokens]

Credential == [authorization : Seq(Header),
               mTLSKeypair   : Keypairs \cup {NoKeypair}]

NoCredentials == [authorization |-> << >>, mTLSKeypair |-> NoKeypair]

(***************************************************************************)
(* setTLS: the pair is set and every Authorization header is erased.       *)
(***************************************************************************)
SetTLSKeepingTokens(c, k) == [c EXCEPT !.mTLSKeypair = k]    \* mutant

SetTLS(c, k) == [authorization |-> << >>, mTLSKeypair |-> k]

(***************************************************************************)
(* setDeviceToken and setGatewayToken: the header is inserted, which in a  *)
(* multimap leaves the entries that are there, and the pair is unset.      *)
(***************************************************************************)
AddHeader(c, type, t) ==
  [c EXCEPT !.authorization = Append(@, [type |-> type, token |-> t])]

SetDeviceToken(c, t)  == [AddHeader(c, "TargetToken", t) EXCEPT !.mTLSKeypair = NoKeypair]

SetGatewayTokenKeepingKeypair(c, t) == AddHeader(c, "GatewayToken", t)    \* mutant

SetGatewayToken(c, t) == [AddHeader(c, "GatewayToken", t) EXCEPT !.mTLSKeypair = NoKeypair]

(***************************************************************************)
(* The credentials of a client DDIClientBuilder::build() returns: at most  *)
(* one Authorization header of the user's own (the model's bound), then    *)
(* one of the three setters or none.                                       *)
(***************************************************************************)
CustomCredentials ==
  {NoCredentials} \cup {AddHeader(NoCredentials, "custom", t) : t \in Tokens}

BuiltCredentials ==
  CustomCredentials \cup {SetTLS(c, k) : c \in CustomCredentials, k \in Keypairs}
    \cup {SetDeviceToken(c, t) : c \in CustomCredentials, t \in Tokens}
    \cup {SetGatewayToken(c, t) : c \in CustomCredentials, t \in Tokens}

================================================================================
