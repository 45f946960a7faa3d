SPECIFICATION Spec
CONSTANTS
  Account <- MCAccount
  Prefixed <- MCPrefixed
  SystemGenesis = "SYSTEM_GENESIS"
  Transfers <- ThreeTransfers
  Word = 64
  MaxBlockSizeBytes = 8
  HeaderBytes = 1
  BlockAllowance = 2
  SeparatorBytes = 1
  TargetBlockTimeSec = 2
  NoBlock = NoBlock
  Policies <- OnePolicy
  InitialDifficulties = {1}
  MinerAddresses = {"a"}
  GenesisHashes <- ExpectedOnly
  ClockReadings = {0}
  MempoolFiles <- FullFile
  MaxMempool = 0
  MaxFound = 3
PROPERTIES OwnBlocksValidate
