SPECIFICATION EngineLiveSpec
CONSTANTS
  NumWorkers = 3
  Chunk = 2
  WorkerOffset = 20
  Blocks <- MCBlocks
  StandardReward = 4
  ActiveRules = 1
  Searches <- MCSearches
  LastNonce = 7
  NoHash = NoHash
INVARIANTS EngineTypeOK RangesDisjoint NothingSkipped HashCommits
PROPERTIES ImplementsProofOfWork MineReturns WorkersEnd
