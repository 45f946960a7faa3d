SPECIFICATION RpcLiveSpec
CONSTANTS
  Account <- MCAccount
  Prefixed <- MCPrefixed
  SystemGenesis = "SYSTEM_GENESIS"
  SystemMiner = "SYSTEM_MINER"
  SystemViewer = "SYSTEM_VIEWER"
  Transfers <- OneSender
  Word = 64
  MaxBlockSizeBytes = 8
  HeaderBytes = 3
  BlockAllowance = 6
  SeparatorBytes = 1
  TargetBlockTimeSec = 2
  NoBlock = NoBlock
  Torn = Torn
  Policies <- OnePolicy
  InitialDifficulties = {1, 3}
  MinerAddresses <- MCAddresses
  GenesisHashes <- ExpectedOnly
  ClockReadings = {0}
  MempoolFiles <- Files
  MaxMempool = 4
  WalletAccounts = {"a"}
  MineTargets = {"a"}
  Programs = {"node", "mine", "fees", "view"}
  BlockCounts = {1}
  Connections = {"peer", "other"}
  ReceivedBlocks <- PeerBlocks
  MaxDeaths = 1
  DeathDuringWrite = TRUE
  MaxFound = 5
  Clients = {"client"}
INVARIANTS RpcTypeOK AnswersHold
PROPERTIES ReadIsMined ImplementsLedger StopEnds
