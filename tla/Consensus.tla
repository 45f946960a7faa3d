----------------------------- MODULE Consensus -----------------------------
(***************************************************************************)
(* The rules of package internal/consensus and of core.ValidateBlock-      *)
(* Consensus, as operators over blocks.  A binary is described by its      *)
(* params: the economic constants compiled into it, the genesis fields and *)
(* the hash its checkpoint expects.                                        *)
(*                                                                         *)
(* Data is kept to what the rules tell apart.  A hash is a record: `nonce` *)
(* identifies it and `work` is the number of bits by which PoWLimit can be *)
(* shifted right before the hash exceeds it.  A transfer carries the size  *)
(* of its JSON form, a block's size is derived from those of its parts.    *)
(***************************************************************************)
EXTENDS Integers, Sequences

CONSTANTS
  Account,             \* the address strings that occur
  Prefixed,            \* those that start with AddressPrefix ("xcosh")
  SystemGenesis,       \* the string "SYSTEM_GENESIS"
  Policies,            \* the builds of the program that are ever run
  Transfers,           \* the transfers that are ever submitted
  Word,                \* 2^64: amounts are unsigned machine words
  MaxBlockSizeBytes,   \* size limit of a serialized block
  HeaderBytes,         \* serialized block without its transfers
  SeparatorBytes,      \* what JSON adds between two transfers
  TargetBlockTimeSec,  \* PowTargetSpacing
  NoBlock              \* the nil *LedgerBlock

Amount == 0 .. Word - 1

(* core.Transfer.  Its sender is the address of SenderPubKey, to which        *)
(* PubkeyToAddress gives the prefix; the recipient is whatever was typed.    *)
Transfer == [id : Nat, sender : Prefixed, recipient : Account,
             value : Amount, fee : Amount, size : Nat]

Hash == [nonce : Int, work : Nat]

(* core.LedgerBlock.  Bits and Message never differ between two blocks of  *)
(* one binary; they are represented by the genesis fields of the params.   *)
Block == [index : Nat, timestamp : Nat, prevHash : Hash, hash : Hash,
          transfers : Seq(Transfers), miner : Account, difficulty : Nat,
          reward : Amount, maxSupply : Nat, halvingInterval : Nat]

(* The constants of one build of the program. *)
ConsensusParameters ==
  [blockReward : Amount, maxSupply : Amount, halvingInterval : Nat \ {0},
   genesisTimestamp : Nat, genesisHash : Hash]

(* PrevHash of the genesis block, and a hash that is not yet computed. *)
ZeroHash == [nonce |-> 0, work |-> 0]

ASSUME WordAssumption == Word \in Nat \ {0}
ASSUME AccountAssumption == Prefixed \subseteq Account /\ SystemGenesis \in Account \ Prefixed
(* Of the constants of every build: one reward fits under the cap.          *)
ASSUME PoliciesAssumption ==
  /\ Policies \subseteq ConsensusParameters
  /\ \A p \in Policies : p.blockReward <= p.maxSupply
ASSUME TransfersAssumption == Transfers \subseteq Transfer
ASSUME SizeAssumption ==
  /\ MaxBlockSizeBytes \in Nat
  /\ HeaderBytes \in Nat
  /\ SeparatorBytes \in Nat
ASSUME SpacingAssumption == TargetBlockTimeSec \in Nat
ASSUME NoBlockAssumption == NoBlock \notin Block

----------------------------------------------------------------------------

(* Unsigned addition of the machine: it wraps at Word. *)
AddWord(a, b) == IF a + b < Word THEN a + b ELSE a + b - Word

(* f[1] + ... + f[n]: the loops that add up a field of a list. *)
SumTo(f, n) ==
  LET sum[i \in 0 .. n] == IF i = 0 THEN 0 ELSE sum[i - 1] + f[i]
  IN  sum[n]

(* x >> n, one halving after the other. *)
ShiftRight(x, n) ==
  LET shifted[i \in 0 .. n] == IF i = 0 THEN x ELSE shifted[i - 1] \div 2
  IN  shifted[n]

TransferCost(tx) == AddWord(tx.value, tx.fee)

TotalFee(transfers) ==
  SumTo([i \in 1 .. Len(transfers) |-> transfers[i].fee], Len(transfers)) % Word

(* No wrap: the rewards of a chain stay below MaxSupply, a word. *)
GetTotalCirculatingSupply(chain) ==
  SumTo([i \in 1 .. Len(chain) |-> chain[i].reward], Len(chain))

(* len(json.Marshal(block)) *)
SerializedSize(block) ==
  LET n == Len(block.transfers)
  IN  HeaderBytes + SumTo([i \in 1 .. n |-> block.transfers[i].size], n)
        + (IF n > 1 THEN SeparatorBytes * (n - 1) ELSE 0)

----------------------------------------------------------------------------

CalculateBlockReward(p, index) ==
  LET halvings == index \div p.halvingInterval
  IN  IF halvings >= 64 THEN 0 ELSE ShiftRight(p.blockReward, halvings)

(* A variant that forgets the truncation of the last reward. *)
CappedRewardUntruncated(p, index, supply) ==
  IF supply >= p.maxSupply THEN 0 ELSE CalculateBlockReward(p, index)

(* The reward of a block, truncated to what is left below the cap: written *)
(* twice in the code, by the miner and by the validator.                   *)
CappedReward(p, index, supply) ==
  LET reward == CalculateBlockReward(p, index)
  IN  IF supply >= p.maxSupply THEN 0
      ELSE IF supply + reward > p.maxSupply THEN p.maxSupply - supply
      ELSE reward

CalculateNextDifficulty(prevTime, time, difficulty) ==
  LET elapsed == time - prevTime
      AtLeastOne(d) == IF d < 1 THEN 1 ELSE d
  IN  IF prevTime = 0 \/ time <= prevTime THEN AtLeastOne(difficulty)
      ELSE IF elapsed < TargetBlockTimeSec THEN difficulty + 1
      ELSE IF elapsed > 2 * TargetBlockTimeSec /\ difficulty > 1 THEN difficulty - 1
      ELSE AtLeastOne(difficulty)

(* The target is PoWLimit, shifted by the difficulty only when it exceeds 1. *)
ValidatePoW(hash, difficulty) ==
  hash.work >= (IF difficulty > 1 THEN difficulty ELSE 0)

(* HardcodedCheckpoints has the single entry 0: ExpectedGenesisHash. *)
CheckpointHeights == {0}

VerifyCheckpoint(p, height, hash) ==
  height \in CheckpointHeights => hash = p.genesisHash

VerifyBlockReorgTransition(p, height, hash) ==
  /\ VerifyCheckpoint(p, height, hash)
  /\ \A checkpoint \in CheckpointHeights : height >= checkpoint

FollowsBlock(block, prev) ==
  IF prev = NoBlock THEN block.index = 0
  ELSE /\ block.index = prev.index + 1
       /\ block.timestamp > prev.timestamp
       /\ block.prevHash = prev.hash

(* ValidateBlockConsensus(block, prevBlock, currentTotalSupply) = nil *)
ValidateBlockConsensus(p, block, prev, supply) ==
  /\ FollowsBlock(block, prev)
  /\ (block.index > 0 /\ block.miner # SystemGenesis) => block.miner \in Prefixed
  /\ ValidatePoW(block.hash, block.difficulty)
  /\ block.maxSupply \in {0, p.maxSupply}
  /\ block.halvingInterval \in {0, p.halvingInterval}
  /\ SerializedSize(block) <= MaxBlockSizeBytes
  /\ block.reward = CappedReward(p, block.index, supply)

(* A variant that looks at the time of the genesis block only. *)
SameGenesisPolicyTimeOnly(p, genesis) == genesis.timestamp = p.genesisTimestamp

(* The test LoadFromDisk puts to the stored genesis block. *)
SameGenesisPolicy(p, genesis) ==
  /\ genesis.timestamp = p.genesisTimestamp
  /\ genesis.reward = p.blockReward
  /\ genesis.maxSupply = p.maxSupply
  /\ genesis.halvingInterval = p.halvingInterval

=============================================================================
