SPECIFICATION UPFairSpec
CONSTANTS
  e1 = e1
  e2 = e2
  link = link
  k1 = k1
  k2 = k2
  NoKeypair = NoKeypair
  NoEndpoint = NoEndpoint
  BadEndpoint = BadEndpoint
  Links <- MCLinks
  Endpoints <- MCEndpoints
  Tokens = {}
  Keypairs <- MCKeypairs
  ServerSleepTimes <- MCServerSleepTimes
  DefaultSleepTimes <- MCDefaultSleepTimes
  MaxHeaders = 0
CHECK_DEADLOCK FALSE
INVARIANTS
  OneProvisioningPerRequest
PROPERTIES
  ImplementsDDIClient
  AuthorizationIsRestored
