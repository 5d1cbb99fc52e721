SPECIFICATION MCSpec
CONSTANTS
  e1 = e1
  u1 = u1
  u2 = u2
  NoEndpoint = NoEndpoint
  NoKeypair = NoKeypair
  Tokens = {}
  Keypairs = {}
  Endpoints <- MCEndpoints
  Links <- MCUpdates
  Updates <- MCUpdates
  ServerSleepTimes <- MCServerSleepTimes
  DefaultSleepTimes <- MCDefaultSleepTimes
  MaxHeaders = 0
  MaxCrashes = 1
PROPERTIES
  ImplementsLifecycle
  ReinstalledOnlyAfterFailure
CHECK_DEADLOCK TRUE
