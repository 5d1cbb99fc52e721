SPECIFICATION MCSpec
CONSTANTS
  MaxPieces = 2
  MaxAddresses = 2
  MaxChain = 3
  Chains <- MCChains
INVARIANTS
  DownloadIsWhole ConnectionsAreClosed OnlyKnownCrashes ErrorIsOfThisConnection
  ReleasedOnce NothingLeaks StoreIsBounded SentWithItsChain
PROPERTIES
  KeepsTheOrder EveryRequestEnds
