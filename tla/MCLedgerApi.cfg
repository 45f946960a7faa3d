SPECIFICATION ApiSpec
CONSTANTS
  Account <- MCAccount
  Prefixed <- MCPrefixed
  SystemGenesis = "SYSTEM_GENESIS"
  Transfers <- MCTransfers
  Word = 64
  MaxBlockSizeBytes = 9
  HeaderBytes = 3
  BlockAllowance = 4
  SeparatorBytes = 1
  TargetBlockTimeSec = 2
  NoBlock = NoBlock
  Policies <- MCPolicies
  InitialDifficulties = {1}
  MinerAddresses = {"a"}
  GenesisHashes <- ExpectedHash
  ClockReadings = {4}
  MempoolFiles <- NoFile
  MaxMempool = 2
  MaxFound = 2
  Forged <- MCForged
  Alternatives <- MCAlternatives
  OtherMiner = "b"
  MaxTroubles = 2
INVARIANTS ApiTypeOK  StoredIsPrefix PendingOrExecuted HighestFeeShown
 
CHECK_DEADLOCK FALSE
