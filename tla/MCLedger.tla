------------------------------ MODULE MCLedger ------------------------------
EXTENDS LedgerAccounts

Pay(n, from, to, v, f, bytes) ==
  [id |-> n, sender |-> from, recipient |-> to, value |-> v, fee |-> f, size |-> bytes]

OnePolicy ==
  {[blockReward |-> 4, maxSupply |-> 11, halvingInterval |-> 2,
    genesisTimestamp |-> 1, genesisHash |-> [nonce |-> -1, work |-> 0]]}

MCAccount == {"a", "b", "SYSTEM_GENESIS", "SYSTEM_MINER"}
MCPrefixed == {"a", "b"}
PayB == Pay(1, "a", "b", 3, 1, 2)
PayA == Pay(2, "b", "a", 2, 1, 3)
(* Costs its sender one coin, and pays out a word more.                      *)
Wrapping == Pay(3, "a", "b", 61, 4, 2)
ThreePayments == {PayB, PayA, Wrapping}
(* Files that start with a transfer its sender cannot pay yet, that fill a   *)
(* block and hold a transfer twice, and one with a cost that wraps.          *)
ThreeFiles == {<<PayA, PayB>>, <<PayB, PayA, PayB>>, <<Wrapping, PayA>>}
(* A file whose transfers fill a block to the last byte the miner allows.    *)
FullFile == {<<Pay(3, "a", "b", 1, 0, 2), Pay(4, "a", "b", 1, 0, 2), Pay(5, "a", "b", 1, 0, 2)>>}
ThreeTransfers == {Pay(3, "a", "b", 1, 0, 2), Pay(4, "a", "b", 1, 0, 2), Pay(5, "a", "b", 1, 0, 2)}
ExpectedOnly == {[nonce |-> -1, work |-> 0]}

(* Two builds that differ in every economic constant, with the same genesis  *)
(* time and checkpoint.                                                      *)
TwoPolicies ==
  {[blockReward |-> 4, maxSupply |-> 11, halvingInterval |-> 2,
    genesisTimestamp |-> 1, genesisHash |-> [nonce |-> -1, work |-> 0]],
   [blockReward |-> 3, maxSupply |-> 6, halvingInterval |-> 3,
    genesisTimestamp |-> 1, genesisHash |-> [nonce |-> -1, work |-> 0]]}
EmptyFile == {<<>>}
AnyGenesis == {[nonce |-> -1, work |-> 0], [nonce |-> -2, work |-> 3]}

=============================================================================
