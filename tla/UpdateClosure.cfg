SPECIFICATION MCFairSpec
CONSTANTS
  e1 = e1
  u1 = u1
  u2 = u2
  NoEndpoint = NoEndpoint
  NoKeypair = NoKeypair
  Tokens = {}
  Keypairs = {}
  Endpoints <- MCEndpoints
  Links <- MCOneUpdate
  Updates <- MCOneUpdate
  ServerSleepTimes <- MCServerSleepTimes
  DefaultSleepTimes <- MCDefaultSleepTimes
  MaxHeaders = 0
  MaxCrashes = 1
PROPERTIES
  EveryUpdateIsClosed
CHECK_DEADLOCK TRUE
