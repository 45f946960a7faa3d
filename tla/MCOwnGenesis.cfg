SPECIFICATION Spec
CONSTANTS
  Account <- MCAccount
  Prefixed <- MCPrefixed
  SystemGenesis = "SYSTEM_GENESIS"
  Transfers = {}
  Word = 64
  MaxBlockSizeBytes = 9
  HeaderBytes = 3
  BlockAllowance = 4
  SeparatorBytes = 1
  TargetBlockTimeSec = 2
  NoBlock = NoBlock
  Policies <- OnePolicy
  InitialDifficulties = {1, 3}
  MinerAddresses = {"a"}
  GenesisHashes <- AnyGenesis
  ClockReadings = {0, 4}
  MempoolFiles <- EmptyFile
  MaxMempool = 0
  MaxFound = 3
PROPERTIES OwnChainLoads
