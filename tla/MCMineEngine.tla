---------------------------- MODULE MCMineEngine ----------------------------
EXTENDS MineEngine

(* A block with a reward, one whose reward is used up, and a genesis block   *)
(* whose other fields are left to Mine.                                      *)
MCBlocks ==
  {[index |-> 1, reward |-> 3, rules |-> 1], [index |-> 1, reward |-> 0, rules |-> 1],
   [index |-> 0, reward |-> 4, rules |-> 0]}

MCContents == MCBlocks \cup {Normalised(b) : b \in MCBlocks}

(* No winning nonce, one that no range holds, one in the first range, one in *)
(* the last, and as many winners as workers.                                 *)
MCNonces == {{}, {1}, {3}, {7}, {2, 5}, {2, 4, 6}}
MCSearches == {{[block |-> b, nonce |-> n] : b \in MCContents, n \in nonces} : nonces \in MCNonces}

=============================================================================
