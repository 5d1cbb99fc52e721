SPECIFICATION MCSpec
CHECK_DEADLOCK FALSE
CONSTANTS
  e1 = e1
  t1 = t1
  t2 = t2
  k1 = k1
  NoKeypair = NoKeypair
  NoEndpoint = NoEndpoint
  Endpoints <- MCEndpoints
  Tokens <- MCTokens
  Keypairs <- MCKeypairs
  DefaultSleepTimes <- MCSleepTimes
  Texts <- MCTexts
  Details = {"d1", "d2"}
  Keys = {"k"}
  DataValues = {"v1", "v2"}
  ActionIds <- MCIds
  MaxCalls = 3
  AskedRequests <- MCAskedRequests
  WriteRetries = 2
  RetryAttempts = 3
  MaxRuns = 3
  Hosts <- MCHosts
  ServerCertificates <- MCServerCertificates
INVARIANTS
  BuiltClientIsInitial
  
  DocumentSaysWhatWasSet
  ServerReadsWhatWasAsked
  PrintedKeyPairIsCurrent
  ServerHasTheName
