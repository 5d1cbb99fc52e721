SPECIFICATION Spec
CONSTANTS
  e1 = e1
  e2 = e2
  link = link
  token = token
  keypair = keypair
  NoKeypair = NoKeypair
  NoEndpoint = NoEndpoint
  Links <- MCLinks
  Endpoints <- OneEndpoint
  Tokens = {}
  Keypairs = {}
  ServerSleepTimes <- PollingSleepTimes
  DefaultSleepTimes <- PollingDefaults
  MaxHeaders = 0
INVARIANTS
  StopIsNotLost
