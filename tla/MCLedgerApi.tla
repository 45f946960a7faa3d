---------------------------- MODULE MCLedgerApi ----------------------------
EXTENDS LedgerApi

Pay(n, from, to, v, f, bytes) ==
  [id |-> n, sender |-> from, recipient |-> to, value |-> v, fee |-> f, size |-> bytes]

MCPolicies ==
  {[blockReward |-> 4, maxSupply |-> 11, halvingInterval |-> 2,
    genesisTimestamp |-> 1, genesisHash |-> [nonce |-> -1, work |-> 0]]}

MCAccount == {"a", "b", "X", "SYSTEM_GENESIS"}
MCPrefixed == {"a", "b"}

(* Two that are payable once "a" has mined, one that pays the same fee but   *)
(* has no valid signature, one to an address of another network, and one     *)
(* that came in the block of another miner.                                  *)
Cheap == Pay(1, "a", "b", 1, 1, 2)
Dear == Pay(2, "a", "b", 1, 2, 2)
Unsigned == Pay(3, "a", "b", 1, 1, 2)
Elsewhere == Pay(4, "a", "X", 1, 1, 2)
Other == Pay(5, "b", "a", 2, 1, 2)
MCTransfers == {Cheap, Dear, Unsigned, Elsewhere, Other}
MCForged == {Unsigned}
MCAlternatives == {<<Other>>}
NoFile == {<<>>}
ExpectedHash == {[nonce |-> -1, work |-> 0]}

=============================================================================
