SPECIFICATION Spec
CONSTANTS
  Account <- MCAccount
  Prefixed <- MCPrefixed
  SystemGenesis = "SYSTEM_GENESIS"
  Transfers = {}
  Word = 64
  MaxBlockSizeBytes = 12
  HeaderBytes = 3
  BlockAllowance = 4
  SeparatorBytes = 1
  TargetBlockTimeSec = 2
  NoBlock = NoBlock
  Policies <- TwoPolicies
  InitialDifficulties = {0, 3}
  MinerAddresses = {"a", "SYSTEM_GENESIS", "SYSTEM_MINER"}
  GenesisHashes <- AnyGenesis
  ClockReadings = {0, 3, 9}
  MempoolFiles <- EmptyFile
  MaxMempool = 0
  MaxFound = 4
INVARIANTS MemoryMatchesDisk NothingTruncated StoredChainLinked StoredSupplyCapped
PROPERTIES ImplementsBlockchain OwnBlocksValidate
