SPECIFICATION LiveSpec
CONSTANTS
  Account <- MCAccount
  Prefixed <- MCPrefixed
  SystemGenesis = "SYSTEM_GENESIS"
  Transfers <- ThreePayments
  Word = 64
  MaxBlockSizeBytes = 9
  HeaderBytes = 3
  BlockAllowance = 4
  SeparatorBytes = 1
  TargetBlockTimeSec = 2
  NoBlock = NoBlock
  Policies <- OnePolicy
  InitialDifficulties = {1}
  MinerAddresses = {"a"}
  GenesisHashes <- ExpectedOnly
  ClockReadings = {0, 4}
  MempoolFiles <- ThreeFiles
  MaxMempool = 2
  MaxFound = 3
INVARIANTS TypeOK StateIsReplay CoinsConserved ReplayNeverFloors
PROPERTIES LoadEnds MiningAddsBlock
