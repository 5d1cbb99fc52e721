SPECIFICATION MCSpec
CHECK_DEADLOCK FALSE
CONSTANTS
  Times <- MCTimes
  Default = 30000
  Artifacts <- MCArtifacts
  MaxArtifacts = 2
  MaxChunks = 2
  Answers <- MCMessages
  ContentLengths <- MCContentLengths
  ChunkLength <- MCChunkLength
  Byte <- MCByte
  Sizes <- MCSizes
  FixedSize = 4
  MaxHeader = 8
  ReceiveSize = 2
  BuffSize = 2
  MaxRecord = 2
  MaxRetries = 2
INVARIANTS
  SleepsAsAsked DeploymentIsComplete AbortsOnlyOnWrongTypes
  BodyIsWhole SoundAnswersAreRead
PROPERTIES
  ByteSpec ReadReturns
