-------------------------- MODULE BlockchainProofs --------------------------
(***************************************************************************)
(* What follows from the abstract chain alone: its links and its cap.      *)
(***************************************************************************)
EXTENDS Blockchain, ConsensusProofs

TypeInvariant == policy \in Policies /\ log \in Seq(Block)

(* The economic constants of a build are naturals, a reward under its       *)
(* cap.                                                                     *)
LEMMA PolicyFields ==
  ASSUME NEW p \in Policies
  PROVE  /\ p \in ConsensusParameters
         /\ p.blockReward \in Nat /\ p.maxSupply \in Nat
         /\ p.blockReward <= p.maxSupply
BY PoliciesAssumption, WordAssumption DEF ConsensusParameters, Amount

(* SpawnGenesis, abstractly: it leaves exactly one genesis block.           *)
LEMMA CreateFacts ==
  ASSUME TypeInvariant, Create
  PROVE  \E genesis \in Block : log' = <<genesis>> /\ IsGenesis(policy, genesis) /\ policy' = policy
BY DEF Create, IsGenesis

(* MineBlock, abstractly: one valid block is appended.                      *)
LEMMA ExtendFacts ==
  ASSUME TypeInvariant, Extend
  PROVE  /\ policy' = policy /\ log # <<>> /\ SameGenesisPolicy(policy, log[1])
         /\ \E block \in Block :
              /\ log' = Append(log, block)
              /\ IsSuccessor(policy, block, log[Len(log)], GetTotalCirculatingSupply(log))
BY DEF Extend, IsSuccessor

(* The log stays a list of blocks.                                          *)
LEMMA TypeStep ==
  ASSUME TypeInvariant, [Next]_<<policy, log>>
  PROVE  TypeInvariant'
<1>1. CASE Create
  <2>1. PICK genesis \in Block : log' = <<genesis>> /\ policy' = policy
    BY <1>1, CreateFacts
  <2>2. QED
    BY <2>1 DEF TypeInvariant
<1>2. CASE Extend
  BY <1>2, ExtendFacts DEF TypeInvariant
<1>3. CASE Discard
  BY <1>3 DEF Discard, TypeInvariant
<1>4. CASE Upgrade
  BY <1>4 DEF Upgrade, TypeInvariant
<1>5. CASE UNCHANGED <<policy, log>>
  BY <1>5 DEF TypeInvariant
<1>6. QED
  BY <1>1, <1>2, <1>3, <1>4, <1>5 DEF Next

(* Appending a block that passed validation keeps the chain linked.         *)
LEMMA LinkedStep ==
  ASSUME TypeInvariant, ChainLinked, [Next]_<<policy, log>>
  PROVE  ChainLinked'
<1>1. CASE Create
  BY <1>1, CreateFacts DEF ChainLinked, Linked
<1>2. CASE Extend
  <2>1. /\ log \in Seq(Block) /\ log # <<>>
        /\ SameGenesisPolicy(policy, log[1])
        /\ policy' = policy
    BY <1>2, ExtendFacts DEF TypeInvariant
  <2>2. PICK block \in Block :
          /\ log' = Append(log, block)
          /\ IsSuccessor(policy, block, log[Len(log)], GetTotalCirculatingSupply(log))
    BY <1>2, ExtendFacts
  <2>3. /\ Len(log') = Len(log) + 1 /\ Len(log) >= 1
        /\ log'[Len(log) + 1] = block
        /\ \A i \in 1 .. Len(log) : log'[i] = log[i]
    BY <2>1, <2>2
  <2>4. SUFFICES ASSUME NEW i \in 2 .. Len(log) + 1
                 PROVE  /\ FollowsBlock(log'[i], log'[i - 1])
                        /\ ValidatePoW(log'[i].hash, log'[i].difficulty)
                        /\ log'[i].maxSupply = log'[1].maxSupply
                        /\ log'[i].halvingInterval = log'[1].halvingInterval
                        /\ log'[i].difficulty =
                             CalculateNextDifficulty(log'[i - 1].timestamp, log'[i].timestamp,
                                                     log'[i - 1].difficulty)
    BY <2>3 DEF ChainLinked, Linked
  <2>5. CASE i <= Len(log)
    <3>1. i \in 2 .. Len(log) /\ i \in 1 .. Len(log) /\ i - 1 \in 1 .. Len(log) /\ 1 \in 1 .. Len(log)
      BY <2>1, <2>5
    <3>2. log'[i] = log[i] /\ log'[i - 1] = log[i - 1] /\ log'[1] = log[1]
      BY <2>3, <3>1
    <3>3. QED
      BY <3>1, <3>2 DEF ChainLinked, Linked
  <2>6. CASE i = Len(log) + 1
    <3>1. log'[i] = block /\ log'[i - 1] = log[Len(log)] /\ log'[1] = log[1]
      BY <2>1, <2>3, <2>6
    <3>2. /\ block.maxSupply = log[1].maxSupply
          /\ block.halvingInterval = log[1].halvingInterval
      BY <2>1, <2>2 DEF IsSuccessor, SameGenesisPolicy
    <3>3. QED
      BY <2>2, <3>1, <3>2 DEF IsSuccessor, ValidateBlockConsensus
  <2>7. QED
    BY <2>1, <2>5, <2>6
<1>3. CASE Discard
  BY <1>3 DEF Discard, ChainLinked, Linked
<1>4. CASE Upgrade
  BY <1>4 DEF Upgrade, ChainLinked, Linked
<1>5. CASE UNCHANGED <<policy, log>>
  BY <1>5 DEF ChainLinked, Linked
<1>6. QED
  BY <1>1, <1>2, <1>3, <1>4, <1>5 DEF Next

(* Appending a block whose reward was truncated keeps the supply under      *)
(* the cap.                                                                 *)
LEMMA CapStep ==
  ASSUME TypeInvariant, SupplyCapped, [Next]_<<policy, log>>
  PROVE  SupplyCapped'
<1>0. policy \in Policies /\ log \in Seq(Block)
  BY DEF TypeInvariant
<1>1. CASE Create
  <2>1. PICK genesis \in Block : log' = <<genesis>> /\ IsGenesis(policy, genesis)
    BY <1>1, CreateFacts
  <2>2. genesis.reward = policy.blockReward /\ genesis.maxSupply = policy.maxSupply
    BY <2>1 DEF IsGenesis, SameGenesisPolicy
  <2>3. GetTotalCirculatingSupply(log') = genesis.reward /\ log'[1] = genesis
    BY <2>1, SupplyOne
  <2>4. QED
    BY <1>0, <2>2, <2>3, PolicyFields DEF SupplyCapped, WithinCap
<1>2. CASE Extend
  <2>1. log # <<>> /\ SameGenesisPolicy(policy, log[1])
    BY <1>2, ExtendFacts
  <2>2. PICK block \in Block :
          /\ log' = Append(log, block)
          /\ IsSuccessor(policy, block, log[Len(log)], GetTotalCirculatingSupply(log))
    BY <1>2, ExtendFacts
  <2> DEFINE supply == GetTotalCirculatingSupply(log)
  <2>3. supply \in Nat /\ supply <= policy.maxSupply
    BY <1>0, <2>1, SupplyType DEF SupplyCapped, WithinCap, SameGenesisPolicy
  <2>4. GetTotalCirculatingSupply(log') = supply + block.reward
    BY <1>0, <2>2, SupplyAppend
  <2>5. block.reward = CappedReward(policy, block.index, supply)
    BY <2>2 DEF IsSuccessor, ValidateBlockConsensus
  <2>6. supply + block.reward <= policy.maxSupply
    <3>1. policy \in ConsensusParameters /\ block.index \in Nat
      BY <1>0, PolicyFields, BlockFields
    <3> HIDE DEF supply
    <3>2. QED
      BY <2>3, <2>5, <3>1, CappedRewardFacts
  <2>7. log'[1] = log[1]
    BY <1>0, <2>1, <2>2
  <2>8. QED
    BY <2>1, <2>4, <2>6, <2>7 DEF SupplyCapped, WithinCap, SameGenesisPolicy
<1>3. CASE Discard
  BY <1>3 DEF Discard, SupplyCapped, WithinCap
<1>4. CASE Upgrade
  BY <1>4 DEF Upgrade, SupplyCapped, WithinCap
<1>5. CASE UNCHANGED <<policy, log>>
  BY <1>5 DEF SupplyCapped, WithinCap
<1>6. QED
  BY <1>1, <1>2, <1>3, <1>4, <1>5 DEF Next

(* Of every behaviour of the abstract chain: blocks are linked, of one      *)
(* policy, and the difficulty follows CalculateNextDifficulty.              *)
THEOREM BlockchainLinked == Spec => []ChainLinked
<1>1. Init => TypeInvariant /\ ChainLinked
  BY DEF Init, TypeInvariant, ChainLinked, Linked
<1>2. QED
  BY <1>1, TypeStep, LinkedStep, PTL DEF Spec

(* Of every behaviour of the abstract chain: the coins issued never exceed  *)
(* the cap its genesis block records, however the rewards halve.            *)
THEOREM BlockchainCapped == Spec => []SupplyCapped
<1>1. Init => TypeInvariant /\ SupplyCapped
  BY DEF Init, TypeInvariant, SupplyCapped, WithinCap
<1>2. QED
  BY <1>1, TypeStep, CapStep, PTL DEF Spec
=============================================================================
