SPECIFICATION DirLiveSpec
CONSTANTS
  Missing = Missing
  Empty = Empty
  Torn = Torn
  Creators = {c1, c2}
  Asks = {u1}
  Addresses <- MCAddresses
  Adds = {"added"}
  Dials = {"peer"}
  Inbound = {"peer"}
  Daemon = Daemon
  Listener = Listener
  Nobody = Nobody
  SystemMiner = SystemMiner
  MaxBoots = 2
  MaxCommands = 2
INVARIANTS DirTypeOK AccountsKept MinerIsFirst UptimeRecorded AddedKept MapIsFiled
PROPERTY ConnectionShown
CHECK_DEADLOCK FALSE
