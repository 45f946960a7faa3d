SPECIFICATION NodeSpec
CONSTANTS
  Account <- MCAccount
  Prefixed <- MCPrefixed
  SystemGenesis = "SYSTEM_GENESIS"
  SystemMiner = "SYSTEM_MINER"
  SystemViewer = "SYSTEM_VIEWER"
  Transfers <- OneSender
  Word = 64
  MaxBlockSizeBytes = 20
  HeaderBytes = 3
  BlockAllowance = 6
  SeparatorBytes = 1
  TargetBlockTimeSec = 2
  NoBlock = NoBlock
  Torn = Torn
  Policies <- OnePolicy
  InitialDifficulties = {1, 3}
  MinerAddresses <- MCAddresses
  GenesisHashes <- ExpectedOnly
  ClockReadings = {0}
  MempoolFiles <- Files
  MaxMempool = 4
  WalletAccounts = {"a"}
  MineTargets = {"a"}
  Programs = {"node", "mine"}
  BlockCounts = {1}
  Connections = {"peer"}
  ReceivedBlocks = {}
  MaxDeaths = 0
  DeathDuringWrite = TRUE
  MaxFound = 4
INVARIANTS PendingKept
CHECK_DEADLOCK FALSE
