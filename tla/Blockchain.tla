----------------------------- MODULE Blockchain -----------------------------
(***************************************************************************)
(* What the ledger promises, whatever happens to the process that runs it: *)
(* the chain a restart would load, as a log that is created by a genesis   *)
(* block, only ever grows by one valid block, and is discarded as a whole  *)
(* only when a build with another monetary policy is run.                  *)
(***************************************************************************)
EXTENDS Consensus

VARIABLES policy, log

IsGenesis(p, block) ==
  /\ block \in Block
  /\ block.index = 0
  /\ block.transfers = <<>>
  /\ block.miner = SystemGenesis
  /\ ValidatePoW(block.hash, block.difficulty)
  /\ SameGenesisPolicy(p, block)

IsSuccessor(p, block, prev, supply) ==
  /\ block \in Block
  /\ ValidateBlockConsensus(p, block, prev, supply)
  /\ block.maxSupply = p.maxSupply
  /\ block.halvingInterval = p.halvingInterval
  /\ block.difficulty =
       CalculateNextDifficulty(prev.timestamp, block.timestamp, prev.difficulty)

Init == policy \in Policies /\ log = <<>>

Create ==
  /\ log = <<>>
  /\ Len(log') = 1
  /\ LET genesis == log'[1]
     IN  log' = <<genesis>> /\ IsGenesis(policy, genesis)
  /\ UNCHANGED policy

Extend ==
  /\ log # <<>>
  /\ SameGenesisPolicy(policy, log[1])
  /\ Len(log') = Len(log) + 1
  /\ LET block == log'[Len(log')]
     IN  /\ log' = Append(log, block)
         /\ IsSuccessor(policy, block, log[Len(log)], GetTotalCirculatingSupply(log))
  /\ UNCHANGED policy

Discard ==
  /\ log # <<>>
  /\ ~SameGenesisPolicy(policy, log[1])
  /\ log' = <<>>
  /\ UNCHANGED policy

Upgrade == policy' \in Policies /\ UNCHANGED log

Next == Create \/ Extend \/ Discard \/ Upgrade

Spec == Init /\ [][Next]_<<policy, log>>

----------------------------------------------------------------------------

(* Every block but the first validated against its predecessor and against *)
(* the coins issued before it (ValidateBlockConsensus in MineBlock), under *)
(* the policy recorded in its genesis block.                               *)
Linked(c) ==
  \A i \in 2 .. Len(c) :
    /\ FollowsBlock(c[i], c[i - 1])
    /\ ValidatePoW(c[i].hash, c[i].difficulty)
    /\ c[i].maxSupply = c[1].maxSupply
    /\ c[i].halvingInterval = c[1].halvingInterval
    /\ c[i].difficulty = CalculateNextDifficulty(c[i - 1].timestamp, c[i].timestamp,
                                                 c[i - 1].difficulty)

(* The coins ever issued stay below the cap the genesis block records. *)
WithinCap(c) == c # <<>> => GetTotalCirculatingSupply(c) <= c[1].maxSupply

ChainLinked == Linked(log)
SupplyCapped == WithinCap(log)

=============================================================================
