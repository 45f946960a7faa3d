------------------------------- MODULE MCRpc -------------------------------
EXTENDS Rpc

Pay(n, from, to, v, f) ==
  [id |-> n, sender |-> from, recipient |-> to, value |-> v, fee |-> f, size |-> 2]

MCAccount == {"a", "b", "SYSTEM_GENESIS", "SYSTEM_MINER", "SYSTEM_VIEWER"}
MCPrefixed == {"a", "b"}
MCAddresses == {"a", "b", "SYSTEM_MINER", "SYSTEM_VIEWER"}
PayB == Pay(1, "a", "b", 1, 1)
PayBMore == Pay(2, "a", "b", 2, 0)
OneSender == {PayB, PayBMore}

(* The genesis hash also meets the target of the daemon's difficulty. *)
GenesisNonce == [nonce |-> -1, work |-> 3]
ExpectedOnly == {GenesisNonce}
OnePolicy ==
  {[blockReward |-> 4, maxSupply |-> 30, halvingInterval |-> 20,
    genesisTimestamp |-> 1, genesisHash |-> GenesisNonce]}

(* Every mempool up to the bound. *)
Files == UNION {[1 .. n -> Transfers] : n \in 0 .. MaxMempool}

(* A block that forks at height 1, and two on top of the genesis block, of   *)
(* which one has a short hash.                                               *)
Received(prev, isLong) ==
  [index |-> 1, hash |-> [nonce |-> 90, work |-> 0], prevHash |-> prev, long |-> isLong]
PeerBlocks ==
  {Received([nonce |-> 91, work |-> 0], TRUE),
   Received(GenesisNonce, TRUE), Received(GenesisNonce, FALSE)}

=============================================================================
