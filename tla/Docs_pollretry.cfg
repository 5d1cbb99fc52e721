SPECIFICATION Spec
CONSTANTS
  e1 = e1
  e2 = e2
  link = link
  token = token
  keypair = keypair
  NoKeypair = NoKeypair
  NoEndpoint = NoEndpoint
  Links <- MCLinks
  Endpoints <- TwoEndpoints
  Tokens <- OneToken
  Keypairs <- OneKeypair
  ServerSleepTimes <- NoSleepTime
  DefaultSleepTimes <- NoDefault
  MaxHeaders = 2
INVARIANTS
  PollRetryRepeatsRequest
