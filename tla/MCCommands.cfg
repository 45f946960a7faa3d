SPECIFICATION NodeSpec
CONSTANTS
  Account <- MCAccount
  Prefixed <- MCPrefixed
  SystemGenesis = "SYSTEM_GENESIS"
  SystemMiner = "SYSTEM_MINER"
  SystemViewer = "SYSTEM_VIEWER"
  Transfers <- TwoSenders
  Word = 64
  MaxBlockSizeBytes = 20
  HeaderBytes = 3
  BlockAllowance = 6
  SeparatorBytes = 1
  TargetBlockTimeSec = 2
  NoBlock = NoBlock
  Torn = Torn
  Policies <- OnePolicy
  InitialDifficulties = {1, 3}
  MinerAddresses <- MCAddresses
  GenesisHashes <- ExpectedOnly
  ClockReadings = {0}
  MempoolFiles <- Files
  MaxMempool = 4
  WalletAccounts = {"a", "b"}
  MineTargets = {"a", "SYSTEM_MINER"}
  Programs = {"node", "mine", "send", "fees", "view"}
  BlockCounts = {1}
  Connections = {}
  ReceivedBlocks = {}
  MaxDeaths = 2
  DeathDuringWrite = FALSE
  MaxFound = 5
INVARIANTS ExecutedOncePerDeath PendingKept
