---------------------------- MODULE LedgerProofs ----------------------------
(***************************************************************************)
(* IInv is an invariant of the ledger, and the ledger implements the       *)
(* abstract chain of module Blockchain.                                    *)
(***************************************************************************)
EXTENDS Ledger, ConsensusProofs

----------------------------------------------------------------------------
(* The database. *)

(* Without a gap below last_index, every block up to it is read. *)
LEMMA ReadAll ==
  ASSUME NEW store, NEW last \in Nat \cup {-1},
         \A i \in 0 .. last : i \in DOMAIN store
  PROVE  /\ ReadLength(store, last) = last + 1
         /\ ReadBlocks(store, last) = [i \in 1 .. last + 1 |-> store[i - 1]]
<1> DEFINE Whole(n) == /\ \A i \in 0 .. n - 1 : i \in DOMAIN store
                       /\ n = last + 1 \/ n \notin DOMAIN store
<1>1. last + 1 \in 0 .. last + 1 /\ Whole(last + 1)
  OBVIOUS
<1>2. ASSUME NEW n \in 0 .. last + 1, Whole(n) PROVE n = last + 1
  <2>1. n # last + 1 => n \in 0 .. last
    OBVIOUS
  <2>2. QED
    BY <1>2, <2>1
<1>3. ReadLength(store, last) = CHOOSE n \in 0 .. last + 1 : Whole(n)
  BY DEF ReadLength
<1>4. ReadLength(store, last) = last + 1
  <2> HIDE DEF Whole
  <2> QED  BY <1>1, <1>2, <1>3
<1>5. QED
  BY <1>4 DEF ReadBlocks

(* LoadFromDisk reads all blocks up to last_index when none is missing.     *)
LEMMA ReadBlocksType ==
  ASSUME NEW store, NEW last \in Nat \cup {-1},
         \A i \in 0 .. last : i \in DOMAIN store /\ store[i] \in Block
  PROVE  /\ ReadBlocks(store, last) \in Seq(Block)
         /\ Len(ReadBlocks(store, last)) = last + 1
         /\ \A i \in 1 .. last + 1 : ReadBlocks(store, last)[i] = store[i - 1]
<1> DEFINE s == [i \in 1 .. last + 1 |-> store[i - 1]]
<1>1. ReadBlocks(store, last) = s
  BY ReadAll
<1>2. \A i \in 1 .. last + 1 : s[i] \in Block
  <2>1. \A i \in 1 .. last + 1 : i - 1 \in 0 .. last
    OBVIOUS
  <2>2. QED
    BY <2>1
<1>3. s \in Seq(Block) /\ Len(s) = last + 1
  BY <1>2
<1>4. QED
  BY <1>1, <1>3

(* The first Put of SaveBlock, under the key after last_index, is not seen  *)
(* by a reader; the second makes exactly that block visible.                *)
LEMMA PutBlockUnseen ==
  ASSUME NEW store, NEW last \in Nat \cup {-1}, NEW block,
         \A i \in 0 .. last : i \in DOMAIN store, block.index = last + 1
  PROVE  ReadBlocks(WithBlock(store, block), last) = ReadBlocks(store, last)
<1> DEFINE after == WithBlock(store, block)
<1>1. \A i \in 0 .. last : i \in DOMAIN after /\ after[i] = store[i]
  BY DEF WithBlock
<1>2. ReadBlocks(after, last) = [i \in 1 .. last + 1 |-> after[i - 1]]
  <2> HIDE DEF after
  <2> QED  BY <1>1, ReadAll
<1>3. ReadBlocks(store, last) = [i \in 1 .. last + 1 |-> store[i - 1]]
  BY ReadAll
<1>4. \A i \in 1 .. last + 1 : after[i - 1] = store[i - 1]
  <2>1. \A i \in 1 .. last + 1 : i - 1 \in 0 .. last
    OBVIOUS
  <2>2. QED
    BY <1>1, <2>1
<1>5. [i \in 1 .. last + 1 |-> after[i - 1]] = [i \in 1 .. last + 1 |-> store[i - 1]]
  <2> HIDE DEF after
  <2> QED  BY <1>4
<1>6. QED
  BY <1>2, <1>3, <1>5

(* The second Put of SaveBlock is what appends a block to the stored        *)
(* chain.                                                                   *)
LEMMA PutIndexAppends ==
  ASSUME NEW store, NEW last \in Nat \cup {-1}, NEW block \in Block,
         \A i \in 0 .. last : i \in DOMAIN store /\ store[i] \in Block,
         last + 1 \in DOMAIN store, store[last + 1] = block
  PROVE  ReadBlocks(store, last + 1) = Append(ReadBlocks(store, last), block)
<1> DEFINE old == ReadBlocks(store, last)
           new == ReadBlocks(store, last + 1)
<1>1. /\ old \in Seq(Block) /\ Len(old) = last + 1
      /\ \A i \in 1 .. last + 1 : old[i] = store[i - 1]
  BY ReadBlocksType
<1>2. last + 1 \in Nat \cup {-1} /\ \A i \in 0 .. last + 1 : i \in DOMAIN store /\ store[i] \in Block
  OBVIOUS
<1>3. /\ new \in Seq(Block) /\ Len(new) = last + 2
      /\ \A i \in 1 .. last + 2 : new[i] = store[i - 1]
  <2>1. /\ ReadBlocks(store, last + 1) \in Seq(Block)
        /\ Len(ReadBlocks(store, last + 1)) = (last + 1) + 1
        /\ \A i \in 1 .. (last + 1) + 1 : ReadBlocks(store, last + 1)[i] = store[i - 1]
    BY <1>2, ReadBlocksType
  <2>2. (last + 1) + 1 = last + 2
    OBVIOUS
  <2>3. QED
    BY <2>1, <2>2
<1> HIDE DEF old, new
<1>4. Append(old, block) \in Seq(Block) /\ Len(Append(old, block)) = last + 2
  BY <1>1
<1>5. ASSUME NEW i \in 1 .. last + 2 PROVE new[i] = Append(old, block)[i]
  <2>1. CASE i = last + 2
    BY <1>1, <1>3, <2>1
  <2>2. CASE i # last + 2
    BY <1>1, <1>3, <2>2
  <2>3. QED
    BY <2>1, <2>2
<1>6. new = Append(old, block)
  BY <1>3, <1>4, <1>5, SeqEqual
<1>7. QED
  BY <1>6 DEF old, new

(* What TypeOK and Contiguous say of the blocks a restart would read. *)
LEMMA StoredFacts ==
  ASSUME TypeOK, Contiguous
  PROVE  /\ Stored \in Seq(Block)
         /\ Len(Stored) = lastIndex + 1
         /\ \A i \in 0 .. lastIndex : i \in DOMAIN blocks /\ blocks[i] \in Block
BY ReadBlocksType DEF TypeOK, Contiguous, Stored

(* The stored chain depends on the database alone.                          *)
LEMMA StoredUnchanged ==
  ASSUME UNCHANGED disk
  PROVE  Stored' = Stored
BY DEF disk, Stored

----------------------------------------------------------------------------
(* Accounts. *)

(* Wrapped sums are machine words.                                          *)
LEMMA AddWordType ==
  ASSUME NEW a \in Amount, NEW b \in Amount
  PROVE  AddWord(a, b) \in Amount
BY WordAssumption DEF AddWord, Amount

(* A credit keeps the accounts well typed.                                  *)
LEMMA CreditType ==
  ASSUME NEW accounts \in [Account -> AccountState], NEW a \in Account, NEW amount \in Amount
  PROVE  Credit(accounts, a, amount) \in [Account -> AccountState]
<1>1. accounts[a].balance \in Amount /\ accounts[a].nonce \in Nat
  BY DEF AccountState
<1>2. AddWord(accounts[a].balance, amount) \in Amount
  BY <1>1, AddWordType
<1>3. [accounts[a] EXCEPT !.balance = AddWord(accounts[a].balance, amount)] \in AccountState
  BY <1>2 DEF AccountState
<1>4. QED
  BY <1>3 DEF Credit

(* So does a debit to a balance that is a word.                             *)
LEMMA DebitType ==
  ASSUME NEW accounts \in [Account -> AccountState], NEW a \in Account, NEW balance \in Amount
  PROVE  Debit(accounts, a, balance) \in [Account -> AccountState]
<1>1. accounts[a].nonce + 1 \in Nat
  BY DEF AccountState
<1>2. [balance |-> balance, nonce |-> accounts[a].nonce + 1] \in AccountState
  BY <1>1 DEF AccountState
<1>3. QED
  BY <1>2 DEF Debit

(* The types of the fields of Transfer and of what it costs.                *)
LEMMA TransferFields ==
  ASSUME NEW tx \in Transfers
  PROVE  /\ tx.sender \in Prefixed /\ tx.sender \in Account /\ tx.recipient \in Account
         /\ tx.value \in Amount /\ tx.fee \in Amount /\ tx.size \in Nat
         /\ TransferCost(tx) \in Amount
<1>1. /\ tx.sender \in Prefixed /\ tx.sender \in Account /\ tx.recipient \in Account
      /\ tx.value \in Amount /\ tx.fee \in Amount /\ tx.size \in Nat
  BY TransfersAssumption, AccountAssumption DEF Transfer
<1>2. QED
  BY <1>1, AddWordType DEF TransferCost

(* An affordable transfer does not underflow its sender's balance.          *)
LEMMA ExecuteTransferType ==
  ASSUME NEW accounts \in [Account -> AccountState], NEW tx \in Transfers,
         Affordable(accounts, tx)
  PROVE  ExecuteTransfer(accounts, tx) \in [Account -> AccountState]
<1>1. accounts[tx.sender].balance - TransferCost(tx) \in Amount
  BY TransferFields, WordAssumption DEF Affordable, AccountState, Amount
<1>2. QED
  BY <1>1, TransferFields, DebitType, CreditType DEF ExecuteTransfer

(* Nor does RebuildState, for any transfer.                                 *)
LEMMA ReplayTransferType ==
  ASSUME NEW accounts \in [Account -> AccountState], NEW tx \in Transfers
  PROVE  ReplayTransfer(accounts, tx) \in [Account -> AccountState]
<1>1. 0 \in Amount
  BY WordAssumption DEF Amount
<1>2. QED
  BY <1>1, ExecuteTransferType, TransferFields, DebitType, CreditType DEF ReplayTransfer

(* Crediting a stored block keeps the accounts well typed.                  *)
LEMMA ReplayRewardType ==
  ASSUME NEW accounts \in [Account -> AccountState], NEW block \in Block
  PROVE  ReplayReward(accounts, block) \in [Account -> AccountState]
<1>1. block.reward \in Amount /\ TotalFee(block.transfers) \in Amount /\ block.miner \in Account
  BY BlockFields, TotalFeeType
<1>2. AddWord(block.reward, TotalFee(block.transfers)) \in Amount
  BY <1>1, AddWordType
<1>3. QED
  BY <1>1, <1>2, CreditType DEF ReplayReward

(* The empty State is well typed.                                           *)
LEMMA ZeroStateType == ZeroState \in [Account -> AccountState]
BY WordAssumption DEF ZeroState, AccountState, Amount

(* MineBlock starts with well-typed locals.                                 *)
LEMMA NoJobType == NoJob \in Job
BY WordAssumption DEF NoJob, Job, Amount

----------------------------------------------------------------------------
(* The rules of Blockchain are those of Ledger. *)

(* The rules instantiated in the abstract chain are those of the ledger.    *)
LEMMA SameRules ==
  /\ B!Block = Block
  /\ \A p, block : B!SameGenesisPolicy(p, block) = SameGenesisPolicy(p, block)
  /\ \A c : B!GetTotalCirculatingSupply(c) = GetTotalCirculatingSupply(c)
  /\ \A hash, difficulty : B!ValidatePoW(hash, difficulty) = ValidatePoW(hash, difficulty)
  /\ \A prevTime, time, difficulty :
       B!CalculateNextDifficulty(prevTime, time, difficulty)
         = CalculateNextDifficulty(prevTime, time, difficulty)
  /\ \A p, block, prev, supply :
       B!ValidateBlockConsensus(p, block, prev, supply)
         = ValidateBlockConsensus(p, block, prev, supply)
<1>1. B!Block = Block
  BY DEF B!Block, Block, B!Hash, Hash, B!Amount, Amount
<1>2. \A p, block : B!SameGenesisPolicy(p, block) = SameGenesisPolicy(p, block)
  BY DEF B!SameGenesisPolicy, SameGenesisPolicy
<1>3. \A f, n : B!SumTo(f, n) = SumTo(f, n)
  BY DEF B!SumTo, SumTo
<1>4. \A c : B!GetTotalCirculatingSupply(c) = GetTotalCirculatingSupply(c)
  BY <1>3 DEF B!GetTotalCirculatingSupply, GetTotalCirculatingSupply
<1>5. \A hash, difficulty : B!ValidatePoW(hash, difficulty) = ValidatePoW(hash, difficulty)
  BY DEF B!ValidatePoW, ValidatePoW
<1>6. \A prevTime, time, difficulty :
        B!CalculateNextDifficulty(prevTime, time, difficulty)
          = CalculateNextDifficulty(prevTime, time, difficulty)
  BY DEF B!CalculateNextDifficulty, CalculateNextDifficulty
<1>7. \A p, index, supply : B!CappedReward(p, index, supply) = CappedReward(p, index, supply)
  <2>1. \A x, n : B!ShiftRight(x, n) = ShiftRight(x, n)
    BY DEF B!ShiftRight, ShiftRight
  <2>2. \A p, index : B!CalculateBlockReward(p, index) = CalculateBlockReward(p, index)
    BY <2>1 DEF B!CalculateBlockReward, CalculateBlockReward
  <2>3. QED
    BY <2>2 DEF B!CappedReward, CappedReward
<1>8. \A block : B!SerializedSize(block) = SerializedSize(block)
  BY <1>3 DEF B!SerializedSize, SerializedSize
<1>9. \A block, prev : B!FollowsBlock(block, prev) = FollowsBlock(block, prev)
  BY DEF B!FollowsBlock, FollowsBlock
<1>10. \A p, block, prev, supply :
         B!ValidateBlockConsensus(p, block, prev, supply)
           = ValidateBlockConsensus(p, block, prev, supply)
  BY <1>5, <1>7, <1>8, <1>9 DEF B!ValidateBlockConsensus, ValidateBlockConsensus
<1>11. QED
  BY <1>1, <1>2, <1>4, <1>5, <1>6, <1>10

----------------------------------------------------------------------------
(* Each action preserves IInv: loading. *)

(* InitializeLedger: a chain of the same policy is loaded whole.            *)
LEMMA InitializeStep ==
  ASSUME IInv, InitializeLedger
  PROVE  IInv'
<1>1. TypeOK /\ Contiguous /\ Stored \in Seq(Block)
  BY StoredFacts DEF IInv
<1>2. Stored' = Stored /\ blocks' = blocks /\ lastIndex' = lastIndex
  BY StoredUnchanged DEF InitializeLedger, disk
<1>3. TypeOK'
  <2>1. targetDifficulty' \in Nat /\ minerAddress' \in Account
    BY LedgerAssumption DEF InitializeLedger
  <2>2. chain' \in Seq(Block) /\ pc' \in Locations
    <3>1. (chain' = <<>> \/ chain' = Stored) /\ pc' \in {"spawn", "rebuild", "wipe"}
      BY DEF InitializeLedger
    <3>2. <<>> \in Seq(Block)
      OBVIOUS
    <3>3. chain' \in Seq(Block)
      BY <1>1, <3>1, <3>2
    <3>4. pc' \in Locations
      BY <3>1 DEF Locations
    <3>5. QED
      BY <3>3, <3>4
  <2>3. QED
    BY <1>1, <2>1, <2>2 DEF TypeOK, InitializeLedger, disk
<1>4. Contiguous'
  BY <1>1, <1>2 DEF Contiguous
<1>5. Len(Stored) = 0 => lastIndex = -1
  BY <1>1, StoredFacts DEF TypeOK
<1>6. MemoryMatchesDisk' /\ PolicyKnown'
  BY <1>1, <1>2, <1>5 DEF InitializeLedger, MemoryMatchesDisk, PolicyKnown, Loaded
<1>7. ParentKnown' /\ NewBlockKnown'
  BY DEF InitializeLedger, ParentKnown, NewBlockKnown
<1>8. QED
  BY <1>3, <1>4, <1>6, <1>7 DEF IInv

(* ClearAll: blocks and last_index go together.                             *)
LEMMA ClearAllStep ==
  ASSUME IInv, ClearAll
  PROVE  IInv'
<1>1. TypeOK'
  <2>1. blocks' = <<>> /\ DOMAIN blocks' = {}
    BY DEF ClearAll
  <2>2. blocks' = [i \in DOMAIN blocks' |-> blocks'[i]]
    BY <2>1
  <2>3. lastIndex' \in Nat \cup {-1} /\ pc' \in Locations
    BY DEF ClearAll, Locations
  <2>4. \A i \in DOMAIN blocks' : blocks'[i] \in Block
    BY <2>1
  <2>5. /\ params' \in Policies /\ chain' \in Seq(Block) /\ state' \in [Account -> AccountState]
        /\ mempool' \in Seq(Transfers) /\ minerAddress' \in Account
        /\ targetDifficulty' \in Nat /\ job' \in Job /\ newBlock' \in Block \cup {NoBlock}
        /\ cursor' \in (Nat \ {0}) \X (Nat \ {0}) /\ found' \in Nat
    BY DEF IInv, TypeOK, ClearAll, settings
  <2>6. QED
    BY <2>1, <2>2, <2>3, <2>4, <2>5 DEF TypeOK
<1>2. Contiguous'
  BY DEF Contiguous, ClearAll
<1>3. MemoryMatchesDisk' /\ PolicyKnown'
  BY DEF IInv, ClearAll, MemoryMatchesDisk, PolicyKnown, Loaded
<1>4. ParentKnown' /\ NewBlockKnown'
  BY DEF ClearAll, ParentKnown, NewBlockKnown
<1>5. QED
  BY <1>1, <1>2, <1>3, <1>4 DEF IInv

(* What SpawnGenesis builds is a genesis block of the build's policy.       *)
LEMMA GenesisBlockFacts ==
  ASSUME TypeOK, NEW hash \in GenesisHashes, ValidatePoW(hash, targetDifficulty)
  PROVE  /\ GenesisBlock(hash) \in Block
         /\ B!IsGenesis(params, GenesisBlock(hash))
         /\ GenesisBlock(hash).index = 0
<1> DEFINE genesis == GenesisBlock(hash)
<1>1. params \in ConsensusParameters /\ hash \in Hash /\ targetDifficulty \in Nat
  BY LedgerAssumption, PoliciesAssumption DEF TypeOK
<1>2. CalculateBlockReward(params, 0) = params.blockReward
  BY <1>1, GenesisReward
<1>3. /\ params.blockReward \in Amount /\ params.genesisTimestamp \in Nat
      /\ params.maxSupply \in Nat /\ params.halvingInterval \in Nat
  BY <1>1, WordAssumption DEF ConsensusParameters, Amount
<1>4. ZeroHash \in Hash /\ SystemGenesis \in Account /\ <<>> \in Seq(Transfers)
  BY AccountAssumption DEF ZeroHash, Hash
<1>5. genesis \in Block
  BY <1>1, <1>2, <1>3, <1>4 DEF GenesisBlock, Block
<1>6. SameGenesisPolicy(params, genesis)
  BY <1>2 DEF GenesisBlock, SameGenesisPolicy
<1>7. /\ genesis.index = 0 /\ genesis.transfers = <<>> /\ genesis.miner = SystemGenesis
      /\ genesis.hash = hash /\ genesis.difficulty = targetDifficulty
  BY DEF GenesisBlock
<1>8. QED
  BY <1>5, <1>6, <1>7, SameRules DEF B!IsGenesis

(* SpawnGenesis: the block to save is a genesis block for an empty store.   *)
LEMMA SpawnGenesisStep ==
  ASSUME IInv, SpawnGenesis
  PROVE  IInv'
<1>1. TypeOK /\ chain = <<>> /\ lastIndex = -1
  BY DEF IInv, SpawnGenesis, PolicyKnown
<1>2. PICK hash \in GenesisHashes :
        ValidatePoW(hash, targetDifficulty) /\ newBlock' = GenesisBlock(hash)
  BY DEF SpawnGenesis
<1>3. newBlock' \in Block /\ B!IsGenesis(params, newBlock') /\ newBlock'.index = 0
  BY <1>1, <1>2, GenesisBlockFacts
<1>4. Stored' = Stored /\ Stored = <<>> /\ blocks' = blocks /\ lastIndex' = lastIndex
  BY <1>1, StoredFacts, StoredUnchanged DEF IInv, SpawnGenesis, disk
<1>5. chain' = <<newBlock'>> /\ pc' = "save" /\ params' = params
  BY <1>1 DEF SpawnGenesis
<1>6. TypeOK'
  BY <1>1, <1>3, <1>5 DEF TypeOK, SpawnGenesis, settings, disk, Locations
<1>7. Contiguous'
  BY <1>4 DEF IInv, Contiguous
<1>8. MemoryMatchesDisk' /\ PolicyKnown'
  BY <1>3, <1>4, <1>5 DEF MemoryMatchesDisk, PolicyKnown, Loaded
<1>9. ParentKnown' /\ NewBlockKnown'
  BY <1>3, <1>4, <1>5 DEF ParentKnown, NewBlockKnown
<1>10. QED
  BY <1>6, <1>7, <1>8, <1>9 DEF IInv

(* RebuildState moves coins, and touches no block.                          *)
LEMMA RebuildTransferStep ==
  ASSUME IInv, RebuildTransfer
  PROVE  IInv'
<1>1. TypeOK /\ pc = "rebuild" /\ pc' = pc
  BY DEF IInv, RebuildTransfer
<1>2. Stored' = Stored /\ blocks' = blocks /\ lastIndex' = lastIndex
  BY StoredUnchanged DEF RebuildTransfer, disk
<1>3. chain[cursor[1]].transfers[cursor[2]] \in Transfers
  <2>1. chain[cursor[1]] \in Block
    BY <1>1 DEF TypeOK, RebuildTransfer
  <2>2. chain[cursor[1]].transfers \in Seq(Transfers)
    BY <2>1, BlockFields
  <2>3. QED
    BY <1>1, <2>2 DEF TypeOK, RebuildTransfer
<1>4. state' \in [Account -> AccountState]
  BY <1>1, <1>3, ReplayTransferType DEF TypeOK, RebuildTransfer
<1>5. TypeOK'
  BY <1>1, <1>4 DEF TypeOK, RebuildTransfer, disk, settings
<1>6. Contiguous'
  BY <1>2 DEF IInv, Contiguous
<1>7. MemoryMatchesDisk' /\ PolicyKnown'
  BY <1>1, <1>2 DEF IInv, MemoryMatchesDisk, PolicyKnown, Loaded, RebuildTransfer
<1>8. ParentKnown' /\ NewBlockKnown'
  BY <1>1 DEF ParentKnown, NewBlockKnown
<1>9. QED
  BY <1>5, <1>6, <1>7, <1>8 DEF IInv

(* The same for the miner's credit that ends a block's replay.              *)
LEMMA RebuildRewardStep ==
  ASSUME IInv, RebuildReward
  PROVE  IInv'
<1>1. TypeOK /\ pc = "rebuild" /\ pc' \in {"rebuild", "verify"}
  BY DEF IInv, RebuildReward
<1>2. Stored' = Stored /\ blocks' = blocks /\ lastIndex' = lastIndex
  BY StoredUnchanged DEF RebuildReward, disk
<1>3. chain[cursor[1]] \in Block
  BY <1>1 DEF TypeOK, RebuildReward
<1>4. state' \in [Account -> AccountState]
  BY <1>1, <1>3, ReplayRewardType DEF TypeOK, RebuildReward
<1>5. TypeOK'
  BY <1>1, <1>4 DEF TypeOK, RebuildReward, disk, settings, Locations
<1>6. Contiguous'
  BY <1>2 DEF IInv, Contiguous
<1>7. MemoryMatchesDisk' /\ PolicyKnown'
  BY <1>1, <1>2 DEF IInv, MemoryMatchesDisk, PolicyKnown, Loaded, RebuildReward
<1>8. ParentKnown' /\ NewBlockKnown'
  BY <1>1 DEF ParentKnown, NewBlockKnown
<1>9. QED
  BY <1>5, <1>6, <1>7, <1>8 DEF IInv

(* VerifyConsensusIntegrity only decides whether the process goes on.       *)
LEMMA VerifyStep ==
  ASSUME IInv, VerifyConsensusIntegrity
  PROVE  IInv'
<1>1. pc = "verify" /\ pc' \in {"ready", "panic"}
  BY DEF VerifyConsensusIntegrity
<1>2. Stored' = Stored /\ blocks' = blocks /\ lastIndex' = lastIndex
  BY StoredUnchanged DEF VerifyConsensusIntegrity, disk
<1>3. TypeOK'
  BY <1>1 DEF IInv, TypeOK, VerifyConsensusIntegrity, disk, settings, Locations
<1>4. Contiguous'
  BY <1>2 DEF IInv, Contiguous
<1>5. MemoryMatchesDisk' /\ PolicyKnown'
  BY <1>1, <1>2 DEF IInv, MemoryMatchesDisk, PolicyKnown, Loaded, VerifyConsensusIntegrity
<1>6. ParentKnown' /\ NewBlockKnown'
  BY <1>1 DEF ParentKnown, NewBlockKnown
<1>7. QED
  BY <1>3, <1>4, <1>5, <1>6 DEF IInv

----------------------------------------------------------------------------
(* Filling the mempool, and MineBlock up to the new block. *)

(* Installing a mempool touches neither chain nor job.                      *)
LEMMA SetMempoolStep ==
  ASSUME IInv, NEW transfers \in MempoolFiles, SetMempool(transfers)
  PROVE  IInv'
<1>1. Stored' = Stored /\ blocks' = blocks /\ lastIndex' = lastIndex
  BY StoredUnchanged DEF SetMempool, disk
<1>2. TypeOK'
  BY LedgerAssumption DEF IInv, TypeOK, SetMempool, disk, settings
<1>3. QED
  BY <1>1, <1>2 DEF IInv, Contiguous, MemoryMatchesDisk, PolicyKnown, ParentKnown,
                    NewBlockKnown, SetMempool

(* onTx appends to the mempool and touches neither chain nor job.           *)
LEMMA ReceiveTransferStep ==
  ASSUME IInv, NEW tx \in Transfers, ReceiveTransfer(tx)
  PROVE  IInv'
<1>1. Stored' = Stored /\ blocks' = blocks /\ lastIndex' = lastIndex
  BY StoredUnchanged DEF ReceiveTransfer, disk
<1>2. TypeOK'
  BY DEF IInv, TypeOK, ReceiveTransfer, disk, settings
<1>3. QED
  BY <1>1, <1>2 DEF IInv, Contiguous, MemoryMatchesDisk, PolicyKnown, ParentKnown,
                    NewBlockKnown, ReceiveTransfer

(* A miner address without the prefix stops MineBlock before it starts.     *)
LEMMA RejectMinerStep ==
  ASSUME IInv, RejectMiner
  PROVE  IInv'
<1>1. Stored' = Stored /\ blocks' = blocks /\ lastIndex' = lastIndex
  BY StoredUnchanged DEF RejectMiner, disk
<1>2. TypeOK'
  BY DEF IInv, TypeOK, RejectMiner, disk, settings, Locations
<1>3. QED
  BY <1>1, <1>2 DEF IInv, Contiguous, MemoryMatchesDisk, PolicyKnown, ParentKnown,
                    NewBlockKnown, RejectMiner, Loaded

(* While a ledger is loaded its chain has a last block. *)
LEMMA TipIsBlock ==
  ASSUME IInv, pc \in Loaded
  PROVE  /\ chain = Stored /\ chain \in Seq(Block) /\ chain # <<>>
         /\ chain[Len(chain)] \in Block
BY DEF IInv, TypeOK, MemoryMatchesDisk, PolicyKnown, Loaded

(* MineBlock takes the tip as parent; that is known from here on.           *)
LEMMA BeginMineStep ==
  ASSUME IInv, BeginMine
  PROVE  IInv'
<1>1. Stored' = Stored /\ blocks' = blocks /\ lastIndex' = lastIndex
  BY StoredUnchanged DEF BeginMine, disk
<1>2. pc = "ready" /\ pc' = "select" /\ chain[Len(chain)] \in Block
  BY TipIsBlock DEF BeginMine, Loaded
<1>3. job' \in Job /\ job'.parent = chain[Len(chain)]
  BY <1>2, NoJobType, LedgerAssumption DEF BeginMine, Job, NoJob
<1>4. TypeOK'
  BY <1>2, <1>3 DEF IInv, TypeOK, BeginMine, disk, settings, Locations
<1>5. Contiguous' /\ MemoryMatchesDisk' /\ PolicyKnown'
  BY <1>1, <1>2 DEF IInv, Contiguous, MemoryMatchesDisk, PolicyKnown, BeginMine, Loaded
<1>6. ParentKnown' /\ NewBlockKnown'
  BY <1>2, <1>3 DEF ParentKnown, NewBlockKnown, BeginMine
<1>7. QED
  BY <1>4, <1>5, <1>6 DEF IInv

(* What the selection looks at is a transfer.                               *)
LEMMA ConsideredIsTransfer ==
  ASSUME TypeOK, Considered
  PROVE  mempool[job.next] \in Transfers
BY DEF TypeOK, Considered, Job

(* Packing a transfer leaves the parent and the chain alone.                *)
LEMMA PackTransferStep ==
  ASSUME IInv, PackTransfer
  PROVE  IInv'
<1> DEFINE tx == mempool[job.next]
<1>1. Stored' = Stored /\ blocks' = blocks /\ lastIndex' = lastIndex
  BY StoredUnchanged DEF PackTransfer, disk
<1>2. TypeOK /\ pc = "select" /\ pc' = pc /\ job \in Job
  BY DEF IInv, TypeOK, PackTransfer
<1>3. tx \in Transfers /\ tx.fee \in Amount /\ tx.size \in Nat
  BY <1>2, ConsideredIsTransfer, TransferFields DEF PackTransfer
<1>4. state' \in [Account -> AccountState]
  BY <1>2, <1>3, ExecuteTransferType DEF TypeOK, PackTransfer
<1>5. job' \in Job /\ job'.parent = job.parent
  <2>1. job' = [job EXCEPT !.next = @ + 1, !.packed = Append(@, tx),
                           !.fees = AddWord(@, tx.fee), !.bytes = @ + tx.size]
    BY DEF PackTransfer
  <2>2. /\ job.next + 1 \in Nat \ {0} /\ Append(job.packed, tx) \in Seq(Transfers)
        /\ AddWord(job.fees, tx.fee) \in Amount /\ job.bytes + tx.size \in Nat
    BY <1>2, <1>3, AddWordType DEF Job
  <2> HIDE DEF tx
  <2>3. QED
    BY <1>2, <2>1, <2>2 DEF Job
<1>6. TypeOK'
  BY <1>2, <1>4, <1>5 DEF TypeOK, PackTransfer, disk, settings
<1>7. Contiguous' /\ MemoryMatchesDisk' /\ PolicyKnown'
  BY <1>1, <1>2 DEF IInv, Contiguous, MemoryMatchesDisk, PolicyKnown, PackTransfer, Loaded
<1>8. ParentKnown' /\ NewBlockKnown'
  BY <1>2, <1>5 DEF IInv, ParentKnown, NewBlockKnown, PackTransfer
<1>9. QED
  BY <1>6, <1>7, <1>8 DEF IInv

(* So does skipping one.                                                    *)
LEMMA SkipTransferStep ==
  ASSUME IInv, SkipTransfer
  PROVE  IInv'
<1>1. Stored' = Stored /\ blocks' = blocks /\ lastIndex' = lastIndex
  BY StoredUnchanged DEF SkipTransfer, disk
<1>2. TypeOK /\ pc = "select" /\ pc' = pc /\ job \in Job
  BY DEF IInv, TypeOK, SkipTransfer
<1>3. job' \in Job /\ job'.parent = job.parent
  BY <1>2 DEF SkipTransfer, Job
<1>4. TypeOK'
  BY <1>2, <1>3 DEF TypeOK, SkipTransfer, disk, settings
<1>5. Contiguous' /\ MemoryMatchesDisk' /\ PolicyKnown'
  BY <1>1, <1>2 DEF IInv, Contiguous, MemoryMatchesDisk, PolicyKnown, SkipTransfer, Loaded
<1>6. ParentKnown' /\ NewBlockKnown'
  BY <1>2, <1>3 DEF IInv, ParentKnown, NewBlockKnown, SkipTransfer
<1>7. QED
  BY <1>4, <1>5, <1>6 DEF IInv

(* So does dropping the front of the mempool.                               *)
LEMMA EndSelectStep ==
  ASSUME IInv, EndSelect
  PROVE  IInv'
<1>1. Stored' = Stored /\ blocks' = blocks /\ lastIndex' = lastIndex
  BY StoredUnchanged DEF EndSelect, disk
<1>2. TypeOK /\ pc = "select" /\ pc' = "assemble"
  BY DEF IInv, EndSelect
<1>3. mempool' \in Seq(Transfers)
  BY <1>2, SubSeqProperties DEF TypeOK, EndSelect, RemainingMempool, Job
<1>4. TypeOK'
  BY <1>2, <1>3 DEF TypeOK, EndSelect, disk, settings, Locations
<1>5. Contiguous' /\ MemoryMatchesDisk' /\ PolicyKnown'
  BY <1>1, <1>2 DEF IInv, Contiguous, MemoryMatchesDisk, PolicyKnown, EndSelect, Loaded
<1>6. ParentKnown' /\ NewBlockKnown'
  BY <1>2 DEF IInv, ParentKnown, NewBlockKnown, EndSelect
<1>7. QED
  BY <1>4, <1>5, <1>6 DEF IInv

(* The candidate carries the policy, and the supply and difficulty of the   *)
(* tip.                                                                     *)
LEMMA AssembleBlockStep ==
  ASSUME IInv, AssembleBlock
  PROVE  IInv'
<1> DEFINE supply == GetTotalCirculatingSupply(chain)
           index == job.parent.index + 1
<1>1. Stored' = Stored /\ blocks' = blocks /\ lastIndex' = lastIndex
  BY StoredUnchanged DEF AssembleBlock, disk
<1>2. TypeOK /\ pc = "assemble" /\ pc' = "mining" /\ chain' = chain /\ params' = params
  BY DEF IInv, AssembleBlock
<1>3. chain \in Seq(Block) /\ job.parent = chain[Len(chain)] /\ job.parent \in Block
  BY <1>2, TipIsBlock DEF IInv, ParentKnown, Loaded
<1>4. supply \in Nat /\ index \in Nat
  BY <1>3, SupplyType, BlockFields
<1>5. PICK now \in ClockReadings :
        LET difficulty == CalculateNextDifficulty(job.parent.timestamp, BlockTime(now),
                                                  job.parent.difficulty)
        IN  /\ job' = [job EXCEPT !.supply = supply]
            /\ targetDifficulty' = difficulty
            /\ newBlock' = [index |-> index, timestamp |-> BlockTime(now),
                            prevHash |-> job.parent.hash, hash |-> ZeroHash,
                            transfers |-> job.packed, miner |-> minerAddress,
                            difficulty |-> difficulty,
                            reward |-> CappedReward(params, index, supply),
                            maxSupply |-> params.maxSupply,
                            halvingInterval |-> params.halvingInterval]
  BY DEF AssembleBlock
<1> DEFINE time == BlockTime(now)
           difficulty == CalculateNextDifficulty(job.parent.timestamp, time, job.parent.difficulty)
<1>6. time \in Nat
  BY <1>3, BlockFields, LedgerAssumption DEF BlockTime
<1>7. difficulty \in Nat
  BY <1>3, <1>6, BlockFields, NextDifficultyType
<1>8. params \in ConsensusParameters /\ params.maxSupply \in Nat /\ params.halvingInterval \in Nat
  BY <1>2, PoliciesAssumption, WordAssumption DEF TypeOK, ConsensusParameters, Amount
<1>9. CappedReward(params, index, supply) \in Amount
  <2> HIDE DEF index, supply
  <2> QED  BY <1>4, <1>8, CappedRewardFacts
<1>10. newBlock' \in Block
  <2>1. /\ job.parent.hash \in Hash /\ ZeroHash \in Hash
        /\ job.packed \in Seq(Transfers) /\ minerAddress \in Account
    BY <1>2, <1>3, BlockFields DEF TypeOK, Job, ZeroHash, Hash
  <2> HIDE DEF index, supply, time
  <2>2. QED
    BY <1>4, <1>5, <1>6, <1>7, <1>8, <1>9, <2>1 DEF Block, time
<1>11. /\ job' = [job EXCEPT !.supply = supply] /\ targetDifficulty' = difficulty
       /\ newBlock'.timestamp = time /\ newBlock'.difficulty = difficulty
       /\ newBlock'.maxSupply = params.maxSupply
       /\ newBlock'.halvingInterval = params.halvingInterval
  BY <1>5
<1> HIDE DEF supply, index, time, difficulty
<1>12. job' \in Job /\ job'.parent = job.parent /\ job'.supply = supply
  BY <1>2, <1>4, <1>11 DEF TypeOK, Job
<1>13. TypeOK'
  BY <1>2, <1>7, <1>10, <1>11, <1>12 DEF TypeOK, AssembleBlock, disk, Locations
<1>14. Contiguous' /\ MemoryMatchesDisk' /\ PolicyKnown'
  BY <1>1, <1>2 DEF IInv, Contiguous, MemoryMatchesDisk, PolicyKnown, Loaded
<1>15. ParentKnown' /\ NewBlockKnown'
  BY <1>2, <1>3, <1>10, <1>11, <1>12 DEF ParentKnown, NewBlockKnown, supply, difficulty
<1>16. QED
  BY <1>13, <1>14, <1>15 DEF IInv

(* What passes ValidateBlockConsensus is a successor of the tip.            *)
LEMMA FindBlockStep ==
  ASSUME IInv, FindBlock
  PROVE  IInv'
<1> DEFINE tip == chain[Len(chain)]
           supply == GetTotalCirculatingSupply(chain)
<1>1. Stored' = Stored /\ blocks' = blocks /\ lastIndex' = lastIndex
  BY StoredUnchanged DEF FindBlock, disk
<1>2. /\ TypeOK /\ pc = "mining" /\ pc' \in {"commit", "panic"}
      /\ chain' = chain /\ params' = params /\ job' = job
  BY DEF IInv, FindBlock
<1>3. newBlock' = [newBlock EXCEPT !.hash = FoundHash] /\ newBlock \in Block
  BY <1>2 DEF IInv, FindBlock, NewBlockKnown
<1>4. FoundHash \in Hash
  BY <1>2 DEF TypeOK, FoundHash, Hash
<1>5. /\ newBlock' \in Block
      /\ newBlock'.timestamp = newBlock.timestamp /\ newBlock'.difficulty = newBlock.difficulty
      /\ newBlock'.maxSupply = newBlock.maxSupply
      /\ newBlock'.halvingInterval = newBlock.halvingInterval
  <2> HIDE DEF FoundHash
  <2> QED  BY <1>3, <1>4 DEF Block
<1>6. TypeOK'
  BY <1>2, <1>5 DEF TypeOK, FindBlock, disk, settings, Locations
<1>7. Contiguous' /\ MemoryMatchesDisk' /\ PolicyKnown'
  BY <1>1, <1>2 DEF IInv, Contiguous, MemoryMatchesDisk, PolicyKnown, Loaded
<1>8. pc' = "commit" => B!IsSuccessor(params, newBlock', tip, supply)
  <2>1. SUFFICES ASSUME pc' = "commit" PROVE B!IsSuccessor(params, newBlock', tip, supply)
    OBVIOUS
  <2>2. job.parent = tip /\ job.supply = supply
    BY <1>2 DEF IInv, ParentKnown, NewBlockKnown
  <2>3. ValidateBlockConsensus(params, newBlock', job.parent, job.supply)
    BY <2>1 DEF FindBlock
  <2>4. /\ newBlock'.maxSupply = params.maxSupply
        /\ newBlock'.halvingInterval = params.halvingInterval
        /\ newBlock'.difficulty = CalculateNextDifficulty(job.parent.timestamp,
                                     newBlock'.timestamp, job.parent.difficulty)
    BY <1>2, <1>5 DEF IInv, NewBlockKnown
  <2> HIDE DEF tip, supply
  <2>5. QED
    BY <1>5, <2>2, <2>3, <2>4, SameRules DEF B!IsSuccessor
<1>9. ParentKnown' /\ NewBlockKnown'
  BY <1>2, <1>5, <1>8 DEF IInv, ParentKnown, NewBlockKnown
<1>10. QED
  BY <1>6, <1>7, <1>9 DEF IInv

----------------------------------------------------------------------------
(* Each action preserves IInv: saving the block. *)

(* The append puts the chain in memory one block ahead of the stored one.   *)
LEMMA AppendBlockStep ==
  ASSUME IInv, AppendBlock
  PROVE  IInv'
<1>1. Stored' = Stored /\ blocks' = blocks /\ lastIndex' = lastIndex
  BY StoredUnchanged DEF AppendBlock, disk
<1>2. /\ TypeOK /\ pc = "commit" /\ pc' = "save" /\ newBlock \in Block
      /\ chain' = Append(chain, newBlock) /\ params' = params /\ newBlock' = newBlock
  BY DEF IInv, AppendBlock, NewBlockKnown
<1>3. chain = Stored /\ Stored # <<>> /\ Stored \in Seq(Block)
  BY <1>2, TipIsBlock DEF Loaded
<1>4. B!IsSuccessor(params, newBlock, Stored[Len(Stored)], GetTotalCirculatingSupply(Stored))
  BY <1>2, <1>3 DEF IInv, NewBlockKnown
<1>5. newBlock.index = Len(Stored)
  <2>1. lastIndex \in Nat /\ Len(Stored) = lastIndex + 1 /\ Stored[Len(Stored)] = blocks[lastIndex]
    <3>1. lastIndex \in Nat \cup {-1} /\ Contiguous /\ Len(Stored) \in Nat \ {0}
      BY <1>2, <1>3 DEF IInv, TypeOK
    <3>2. Len(Stored) = lastIndex + 1 /\ \A i \in 0 .. lastIndex : i \in DOMAIN blocks /\ blocks[i] \in Block
      BY <1>2, <3>1, StoredFacts
    <3>3. \A i \in 1 .. lastIndex + 1 : Stored[i] = blocks[i - 1]
      BY <3>1, <3>2, ReadBlocksType DEF Stored
    <3>4. QED
      BY <3>1, <3>2, <3>3
  <2>2. Stored[Len(Stored)].index = lastIndex
    BY <2>1 DEF IInv, Contiguous
  <2>3. FollowsBlock(newBlock, Stored[Len(Stored)])
    BY <1>4, SameRules DEF B!IsSuccessor, ValidateBlockConsensus
  <2>4. Stored[Len(Stored)] # NoBlock
    BY <1>3, NoBlockAssumption
  <2>5. QED
    BY <2>1, <2>2, <2>3, <2>4 DEF FollowsBlock
<1>6. TypeOK'
  BY <1>2 DEF TypeOK, AppendBlock, disk, settings, Locations
<1>7. Contiguous' /\ MemoryMatchesDisk' /\ PolicyKnown'
  BY <1>1, <1>2, <1>3, <1>5 DEF IInv, Contiguous, MemoryMatchesDisk, PolicyKnown, Loaded
<1>8. ParentKnown' /\ NewBlockKnown'
  BY <1>1, <1>2, <1>3, <1>4 DEF ParentKnown, NewBlockKnown
<1>9. QED
  BY <1>6, <1>7, <1>8 DEF IInv

(* The block being saved goes under the key after last_index. *)
LEMMA SavedAtEnd ==
  ASSUME IInv, pc \in {"save", "index"}
  PROVE  /\ newBlock \in Block /\ newBlock.index = lastIndex + 1
         /\ newBlock.index \in Nat
BY StoredFacts, BlockFields DEF IInv, TypeOK, MemoryMatchesDisk, NewBlockKnown

(* The first Put writes beyond last_index: the stored chain is unchanged.   *)
LEMMA PutBlockStep ==
  ASSUME IInv, PutBlock
  PROVE  IInv' /\ Stored' = Stored
<1>1. /\ TypeOK /\ pc = "save" /\ pc' = "index" /\ lastIndex' = lastIndex
      /\ blocks' = WithBlock(blocks, newBlock) /\ newBlock' = newBlock
      /\ chain' = chain /\ params' = params
  BY DEF IInv, PutBlock
<1>2. newBlock \in Block /\ newBlock.index = lastIndex + 1 /\ newBlock.index \in Nat
  BY <1>1, SavedAtEnd
<1>3. \A i \in 0 .. lastIndex : i \in DOMAIN blocks /\ i # newBlock.index
  BY <1>1, <1>2 DEF IInv, Contiguous, TypeOK
<1>4. Stored' = Stored
  BY <1>1, <1>2, <1>3, PutBlockUnseen DEF Stored, TypeOK
<1>5. /\ DOMAIN blocks' = DOMAIN blocks \cup {newBlock.index}
      /\ \A i \in DOMAIN blocks' : blocks'[i] = IF i = newBlock.index THEN newBlock ELSE blocks[i]
      /\ blocks' = [i \in DOMAIN blocks' |-> blocks'[i]]
  BY <1>1 DEF WithBlock
<1>6. TypeOK'
  <2>1. /\ DOMAIN blocks' \subseteq Nat
        /\ \A i \in DOMAIN blocks' : blocks'[i] \in Block
    BY <1>1, <1>2, <1>5 DEF TypeOK
  <2>2. QED
    BY <1>1, <1>5, <2>1 DEF TypeOK, PutBlock, settings, Locations
<1>7. Contiguous'
  BY <1>1, <1>3, <1>5 DEF IInv, Contiguous
<1>8. MemoryMatchesDisk' /\ PolicyKnown'
  BY <1>1, <1>4 DEF IInv, MemoryMatchesDisk, PolicyKnown, Loaded
<1>9. ParentKnown' /\ NewBlockKnown'
  BY <1>1, <1>4, <1>5 DEF IInv, ParentKnown, NewBlockKnown
<1>10. QED
  BY <1>4, <1>6, <1>7, <1>8, <1>9 DEF IInv

(* The second Put makes the block part of the stored chain.                 *)
LEMMA PutLastIndexStep ==
  ASSUME IInv, PutLastIndex
  PROVE  IInv' /\ Stored' = Append(Stored, newBlock)
<1>1. /\ TypeOK /\ Contiguous /\ pc = "index" /\ pc' \in {"ready", "credit"}
      /\ blocks' = blocks /\ lastIndex' = newBlock.index
      /\ chain' = chain /\ params' = params /\ newBlock' = newBlock
  BY DEF IInv, PutLastIndex
<1>2. newBlock \in Block /\ newBlock.index = lastIndex + 1 /\ newBlock.index \in Nat
  BY <1>1, SavedAtEnd
<1>3. newBlock.index \in DOMAIN blocks /\ blocks[newBlock.index] = newBlock
  BY <1>1 DEF IInv, NewBlockKnown
<1>4. /\ Stored \in Seq(Block) /\ Len(Stored) = lastIndex + 1
      /\ \A i \in 0 .. lastIndex : i \in DOMAIN blocks /\ blocks[i] \in Block
  BY <1>1, StoredFacts
<1>5. Stored' = Append(Stored, newBlock)
  BY <1>1, <1>2, <1>3, <1>4, PutIndexAppends DEF Stored, TypeOK
<1>6. TypeOK'
  BY <1>1, <1>2 DEF TypeOK, PutLastIndex, settings, Locations
<1>7. Contiguous'
  <2>1. \A i \in 0 .. newBlock.index : i \in 0 .. lastIndex \/ i = newBlock.index
    BY <1>1, <1>2 DEF TypeOK
  <2>2. QED
    BY <1>1, <1>3, <2>1 DEF Contiguous
<1>8. chain = Append(Stored, newBlock)
  BY <1>1 DEF IInv, MemoryMatchesDisk
<1>9. MemoryMatchesDisk'
  BY <1>1, <1>5, <1>8 DEF MemoryMatchesDisk
<1>10. PolicyKnown'
  <2>1. Stored' # <<>>
    BY <1>2, <1>4, <1>5
  <2>2. SameGenesisPolicy(params, Stored'[1])
    <3>1. CASE Stored = <<>>
      <4>1. Stored'[1] = newBlock
        BY <1>2, <1>5, <3>1
      <4>2. B!IsGenesis(params, newBlock)
        BY <1>1, <3>1 DEF IInv, NewBlockKnown
      <4>3. QED
        BY <4>1, <4>2, SameRules DEF B!IsGenesis
    <3>2. CASE Stored # <<>>
      <4>1. Stored'[1] = Stored[1]
        BY <1>2, <1>4, <1>5, <3>2
      <4>2. QED
        BY <1>1, <3>2, <4>1 DEF IInv, PolicyKnown
    <3>3. QED
      BY <3>1, <3>2
  <2>3. QED
    BY <1>1, <2>1, <2>2 DEF PolicyKnown
<1>11. ParentKnown' /\ NewBlockKnown'
  BY <1>1, <1>2 DEF ParentKnown, NewBlockKnown
<1>12. QED
  BY <1>5, <1>6, <1>7, <1>9, <1>10, <1>11 DEF IInv

(* The miner's credit touches no block.                                     *)
LEMMA CreditMinerStep ==
  ASSUME IInv, CreditMiner
  PROVE  IInv'
<1>1. Stored' = Stored /\ blocks' = blocks /\ lastIndex' = lastIndex
  BY StoredUnchanged DEF CreditMiner, disk
<1>2. /\ TypeOK /\ pc = "credit" /\ pc' = "ready" /\ newBlock \in Block
      /\ chain' = chain /\ params' = params
  BY DEF IInv, CreditMiner, NewBlockKnown
<1>3. state' \in [Account -> AccountState]
  <2>1. newBlock.reward \in Amount /\ job.fees \in Amount /\ minerAddress \in Account
    BY <1>2, BlockFields DEF TypeOK, Job
  <2>2. AddWord(newBlock.reward, job.fees) \in Amount
    BY <2>1, AddWordType
  <2>3. QED
    BY <1>2, <2>1, <2>2, CreditType DEF TypeOK, CreditMiner
<1>4. TypeOK'
  BY <1>2, <1>3, NoJobType DEF TypeOK, CreditMiner, disk, settings, Locations
<1>5. Contiguous' /\ MemoryMatchesDisk' /\ PolicyKnown'
  BY <1>1, <1>2 DEF IInv, Contiguous, MemoryMatchesDisk, PolicyKnown, Loaded
<1>6. ParentKnown' /\ NewBlockKnown'
  BY <1>2 DEF ParentKnown, NewBlockKnown
<1>7. QED
  BY <1>4, <1>5, <1>6 DEF IInv

(* A kill between any two steps loses the memory only.                      *)
LEMMA StopStep ==
  ASSUME IInv, Stop
  PROVE  IInv'
<1>1. Stored' = Stored /\ blocks' = blocks /\ lastIndex' = lastIndex /\ pc' = "off"
  BY StoredUnchanged DEF Stop, disk
<1>2. TypeOK'
  BY ZeroStateType, NoJobType DEF IInv, TypeOK, Stop, MemoryLost, disk, settings, Locations
<1>3. QED
  BY <1>1, <1>2 DEF IInv, Contiguous, MemoryMatchesDisk, PolicyKnown, ParentKnown,
                    NewBlockKnown, Loaded

(* Another build finds the chain it did not load.                           *)
LEMMA UpgradeStep ==
  ASSUME IInv, Upgrade
  PROVE  IInv'
<1>1. /\ Stored' = Stored /\ blocks' = blocks /\ lastIndex' = lastIndex
      /\ pc = "off" /\ pc' = "off"
  BY StoredUnchanged DEF Upgrade, disk
<1>2. TypeOK'
  BY DEF IInv, TypeOK, Upgrade, disk, settings
<1>3. QED
  BY <1>1, <1>2 DEF IInv, Contiguous, MemoryMatchesDisk, PolicyKnown, ParentKnown,
                    NewBlockKnown, Loaded

(* Steps of others leave the invariant alone.                               *)
LEMMA StutterStep ==
  ASSUME IInv, UNCHANGED vars
  PROVE  IInv'
<1>1. Stored' = Stored
  BY StoredUnchanged DEF vars, disk
<1>2. TypeOK'
  BY DEF IInv, TypeOK, vars
<1>3. QED
  BY <1>1, <1>2 DEF IInv, Contiguous, MemoryMatchesDisk, PolicyKnown, ParentKnown,
                    NewBlockKnown, vars

----------------------------------------------------------------------------

(* The invariant holds of an empty database.                                *)
LEMMA IInvInit ==
  ASSUME Init
  PROVE  IInv
<1>1. lastIndex = -1 /\ pc = "off" /\ blocks = <<>>
  BY DEF Init
<1>2. DOMAIN blocks = {} /\ blocks = [i \in DOMAIN blocks |-> blocks[i]]
  BY <1>1
<1>3. chain = <<>> /\ mempool = <<>> /\ state = ZeroState /\ job = NoJob /\ newBlock = NoBlock
  BY DEF Init
<1>4. params \in Policies /\ targetDifficulty = 1 /\ cursor = <<1, 1>> /\ found = 0
  BY DEF Init
<1>5. minerAddress \in Account
  BY LedgerAssumption DEF Init
<1>6. TypeOK
  <2>1. <<>> \in Seq(Block)
    OBVIOUS
  <2>2. <<>> \in Seq(Transfers)
    OBVIOUS
  <2>3. chain \in Seq(Block) /\ mempool \in Seq(Transfers)
    BY <1>3, <2>1, <2>2
  <2>4. state \in [Account -> AccountState] /\ job \in Job /\ newBlock \in Block \cup {NoBlock}
    BY <1>3, ZeroStateType, NoJobType
  <2>5. QED
    BY <1>1, <1>2, <1>4, <1>5, <2>3, <2>4 DEF TypeOK, Locations
<1>7. QED
  BY <1>1, <1>6 DEF IInv, Contiguous, MemoryMatchesDisk, PolicyKnown, ParentKnown,
                    NewBlockKnown, Loaded

(* Every step of the ledger keeps the invariant.                            *)
LEMMA IInvStep == IInv /\ [Next]_vars => IInv'
<1>1. SUFFICES ASSUME IInv, [Next]_vars PROVE IInv'
  OBVIOUS
<1>2. CASE Load
  BY <1>1, <1>2, InitializeStep, ClearAllStep, SpawnGenesisStep, RebuildTransferStep,
     RebuildRewardStep, VerifyStep DEF Load
<1>3. CASE MineBlock
  BY <1>1, <1>3, RejectMinerStep, BeginMineStep, PackTransferStep, SkipTransferStep,
     EndSelectStep, AssembleBlockStep, FindBlockStep, AppendBlockStep DEF MineBlock
<1>4. CASE Save
  BY <1>1, <1>4, PutBlockStep, PutLastIndexStep, CreditMinerStep DEF Save
<1>5. CASE Pool
  BY <1>1, <1>5, SetMempoolStep, ReceiveTransferStep DEF Pool
<1>6. CASE Stop
  BY <1>1, <1>6, StopStep
<1>7. CASE Upgrade
  BY <1>1, <1>7, UpgradeStep
<1>8. CASE UNCHANGED vars
  BY <1>1, <1>8, StutterStep
<1>9. QED
  BY <1>1, <1>2, <1>3, <1>4, <1>5, <1>6, <1>7, <1>8 DEF Next

(* Whatever the process does and wherever it is killed, each location       *)
(* knows what IInv says of the disk, the chain and MineBlock's locals.      *)
THEOREM LedgerInvariant == Spec => []IInv
BY IInvInit, IInvStep, PTL DEF Spec

(* Every variable keeps its type, whatever the constants and wherever the   *)
(* process stops.                                                           *)
THEOREM LedgerTypes == Spec => []TypeOK
<1>1. IInv => TypeOK
  BY DEF IInv
<1>2. QED
  BY <1>1, LedgerInvariant, PTL

(* The chain in memory is the durable one, but for the block being saved.   *)
THEOREM LedgerMatchesDisk == Spec => []MemoryMatchesDisk
<1>1. IInv => MemoryMatchesDisk
  BY DEF IInv
<1>2. QED
  BY <1>1, LedgerInvariant, PTL

(* last_index never points past a missing block.                            *)
THEOREM LedgerNotTruncated == Spec => []NothingTruncated
<1>1. IInv => NothingTruncated
  BY StoredFacts DEF IInv, NothingTruncated
<1>2. QED
  BY <1>1, LedgerInvariant, PTL

----------------------------------------------------------------------------
(* The ledger implements the abstract chain.                                *)

(* An empty database is the empty log.                                      *)
LEMMA RefinesInit ==
  ASSUME Init
  PROVE  B!Init
<1>1. Stored = <<>>
  BY IInvInit, StoredFacts DEF Init, IInv
<1>2. QED
  BY <1>1 DEF B!Init, Init

(* Every step of the ledger is a step of the abstract chain, or leaves it   *)
(* alone: PutLastIndex creates or extends, ClearAll discards, Upgrade       *)
(* upgrades.                                                                *)
LEMMA RefinesStep ==
  ASSUME IInv, [Next]_vars
  PROVE  [B!Next]_<<params, Stored>>
<1>1. CASE ClearAll
  <2>1. Stored # <<>> /\ ~SameGenesisPolicy(params, Stored[1]) /\ params' = params
    BY <1>1 DEF ClearAll, IInv, PolicyKnown
  <2>2. Stored' = <<>>
    <3>1. lastIndex' = -1 /\ Stored' = ReadBlocks(blocks', -1)
      BY <1>1 DEF ClearAll, Stored
    <3>2. ReadBlocks(blocks', -1) \in Seq(Block) /\ Len(ReadBlocks(blocks', -1)) = 0
      BY ReadBlocksType
    <3>3. QED
      BY <3>1, <3>2
  <2>3. B!Discard
    BY <2>1, <2>2, SameRules DEF B!Discard
  <2>4. QED
    BY <2>3 DEF B!Next
<1>2. CASE PutLastIndex
  <2>1. /\ Stored' = Append(Stored, newBlock) /\ params' = params /\ pc = "index"
        /\ newBlock \in Block /\ Stored \in Seq(Block)
    BY <1>2, PutLastIndexStep, SavedAtEnd, StoredFacts DEF PutLastIndex, IInv
  <2>2. CASE Stored = <<>>
    <3>1. Stored' = <<newBlock>> /\ Len(Stored') = 1 /\ Stored'[1] = newBlock
      BY <2>1, <2>2
    <3>2. B!IsGenesis(params, newBlock)
      BY <2>1, <2>2 DEF IInv, NewBlockKnown
    <3>3. B!Create
      BY <2>1, <2>2, <3>1, <3>2 DEF B!Create
    <3>4. QED
      BY <3>3 DEF B!Next
  <2>3. CASE Stored # <<>>
    <3>1. Len(Stored') = Len(Stored) + 1 /\ Stored'[Len(Stored')] = newBlock
      BY <2>1
    <3>2. /\ SameGenesisPolicy(params, Stored[1])
          /\ B!IsSuccessor(params, newBlock, Stored[Len(Stored)], GetTotalCirculatingSupply(Stored))
      BY <2>1, <2>3 DEF IInv, NewBlockKnown, PolicyKnown
    <3>3. B!Extend
      BY <2>1, <2>3, <3>1, <3>2, SameRules DEF B!Extend
    <3>4. QED
      BY <3>3 DEF B!Next
  <2>4. QED
    BY <2>2, <2>3
<1>3. CASE Upgrade
  <2>1. Stored' = Stored /\ params' \in Policies
    BY <1>3, StoredUnchanged DEF Upgrade, disk
  <2>2. QED
    BY <2>1 DEF B!Upgrade, B!Next
<1>4. CASE PutBlock
  BY <1>4, PutBlockStep DEF PutBlock
<1>5. ASSUME UNCHANGED <<blocks, lastIndex, params>>
      PROVE  UNCHANGED <<params, Stored>>
  <2>1. blocks' = blocks /\ lastIndex' = lastIndex /\ params' = params
    BY <1>5
  <2>2. Stored' = Stored
    BY <2>1, StoredUnchanged DEF disk
  <2>3. QED
    BY <2>1, <2>2
<1>6. CASE InitializeLedger \/ SpawnGenesis \/ RebuildTransfer \/ RebuildReward
             \/ VerifyConsensusIntegrity
  BY <1>5, <1>6 DEF InitializeLedger, SpawnGenesis, RebuildTransfer, RebuildReward,
                    VerifyConsensusIntegrity, disk
<1>7. CASE MineBlock
  <2>1. CASE BeginMine
    BY <1>5, <2>1 DEF BeginMine, disk
  <2>2. CASE PackTransfer
    BY <1>5, <2>2 DEF PackTransfer, disk
  <2>3. CASE AssembleBlock
    BY <1>5, <2>3 DEF AssembleBlock, disk
  <2>4. CASE SkipTransfer
    BY <1>5, <2>4 DEF SkipTransfer, disk
  <2>5. CASE RejectMiner \/ EndSelect \/ FindBlock \/ AppendBlock
    BY <1>5, <2>5 DEF RejectMiner, EndSelect, FindBlock, AppendBlock, disk
  <2>6. QED
    BY <1>7, <2>1, <2>2, <2>3, <2>4, <2>5 DEF MineBlock
<1>8. CASE CreditMiner \/ Pool \/ Stop \/ UNCHANGED vars
  <2>1. CASE CreditMiner
    BY <1>5, <2>1 DEF CreditMiner, disk
  <2>2. CASE Pool
    BY <1>5, <2>2 DEF Pool, SetMempool, ReceiveTransfer, disk
  <2>3. CASE Stop \/ UNCHANGED vars
    BY <1>5, <2>3 DEF Stop, vars, disk
  <2>4. QED
    BY <1>8, <2>1, <2>2, <2>3
<1>9. QED
  BY <1>1, <1>2, <1>3, <1>4, <1>6, <1>7, <1>8 DEF Next, Load, Save

(* Whatever is loaded, mined, saved or lost, and wherever the process stops *)
(* between two writes, the durable chain is only created by a genesis block *)
(* of the installed policy, extended by one block that validates, or        *)
(* discarded because the policy changed.                                    *)
THEOREM LedgerRefinesBlockchain == Spec => ImplementsBlockchain
<1>1. Init => B!Init
  BY RefinesInit
<1>2. IInv /\ [Next]_vars => [B!Next]_<<params, Stored>>
  BY RefinesStep
<1>3. QED
  BY <1>1, <1>2, LedgerInvariant, PTL DEF Spec, ImplementsBlockchain, B!Spec

(* The theorems about the abstract chain, of the durable chain. *)
BP == INSTANCE BlockchainProofs WITH policy <- params, log <- Stored

(* The abstract chain of the refinement is the one theorems are proved      *)
(* of.                                                                      *)
LEMMA SameSpec == B!Spec => BP!Spec
<1>1. B!Init => BP!Init
  BY DEF B!Init, BP!Init
<1>2. B!Next => BP!Next
  BY DEF B!Next, BP!Next, B!Create, BP!Create, B!Extend, BP!Extend, B!Discard, BP!Discard,
         B!Upgrade, BP!Upgrade, B!IsGenesis, BP!IsGenesis, B!IsSuccessor, BP!IsSuccessor,
         B!SameGenesisPolicy, BP!SameGenesisPolicy, B!ValidatePoW, BP!ValidatePoW,
         B!ValidateBlockConsensus, BP!ValidateBlockConsensus, B!FollowsBlock, BP!FollowsBlock,
         B!SerializedSize, BP!SerializedSize, B!CappedReward, BP!CappedReward,
         B!CalculateBlockReward, BP!CalculateBlockReward, B!ShiftRight, BP!ShiftRight,
         B!GetTotalCirculatingSupply, BP!GetTotalCirculatingSupply, B!SumTo, BP!SumTo,
         B!CalculateNextDifficulty, BP!CalculateNextDifficulty, B!Block, BP!Block, B!Hash,
         BP!Hash, B!Amount, BP!Amount
<1>3. QED
  BY <1>1, <1>2, PTL DEF B!Spec, BP!Spec

(* Its constants are the ledger's, so its assumptions are met.              *)
LEMMA SameAssumptions ==
  BP!Transfer = Transfer /\ BP!Block = Block /\ BP!ConsensusParameters = ConsensusParameters
BY DEF BP!Transfer, Transfer, BP!Block, Block, BP!ConsensusParameters, ConsensusParameters,
       BP!Hash, Hash, BP!Amount, Amount

(* The coins a stored chain issues never exceed the cap its genesis block   *)
(* records.                                                                 *)
THEOREM LedgerSupplyCapped == Spec => []StoredSupplyCapped
<1>1. BP!Spec => []BP!SupplyCapped
  BY SameAssumptions, BP!BlockchainCapped, WordAssumption, AccountAssumption, PoliciesAssumption,
     TransfersAssumption, SizeAssumption, SpacingAssumption, NoBlockAssumption
<1>2. BP!SupplyCapped => StoredSupplyCapped
  BY DEF StoredSupplyCapped, B!SupplyCapped, BP!SupplyCapped, B!WithinCap, BP!WithinCap,
         B!GetTotalCirculatingSupply, BP!GetTotalCirculatingSupply, B!SumTo, BP!SumTo
<1>3. QED
  BY <1>1, <1>2, SameSpec, LedgerRefinesBlockchain, PTL DEF ImplementsBlockchain

(* Every block a restart loads, but the genesis block, follows its          *)
(* predecessor by the rules it was mined under.                             *)
THEOREM LedgerChainLinked == Spec => []StoredChainLinked
<1>1. BP!Spec => []BP!ChainLinked
  BY SameAssumptions, BP!BlockchainLinked, WordAssumption, AccountAssumption, PoliciesAssumption,
     TransfersAssumption, SizeAssumption, SpacingAssumption, NoBlockAssumption
<1>2. BP!ChainLinked => StoredChainLinked
  BY DEF StoredChainLinked, B!ChainLinked, BP!ChainLinked, B!Linked, BP!Linked,
         B!FollowsBlock, BP!FollowsBlock, B!ValidatePoW, BP!ValidatePoW,
         B!CalculateNextDifficulty, BP!CalculateNextDifficulty
<1>3. QED
  BY <1>1, <1>2, SameSpec, LedgerRefinesBlockchain, PTL DEF ImplementsBlockchain

----------------------------------------------------------------------------
(* MineBlock's own block. *)

(* A transfer adds its size to that of a list, and no transfer has none.    *)
LEMMA SizeFacts ==
  ASSUME NEW ts \in Seq(Transfers)
  PROVE  /\ TransfersSize(ts) \in Nat
         /\ TransfersSize(<<>>) = 0
         /\ \A tx \in Transfers : TransfersSize(Append(ts, tx)) = TransfersSize(ts) + tx.size
<1> DEFINE Sizes(s) == [i \in 1 .. Len(s) |-> s[i].size]
<1>1. \A s \in Seq(Transfers) : Len(s) \in Nat /\ Sizes(s) \in [1 .. Len(s) -> Nat]
  <2>1. SUFFICES ASSUME NEW s \in Seq(Transfers) PROVE \A i \in 1 .. Len(s) : s[i].size \in Nat
    OBVIOUS
  <2>2. \A i \in 1 .. Len(s) : s[i] \in Transfers
    OBVIOUS
  <2>3. QED
    BY <2>2, TransferFields
<1>2. TransfersSize(ts) \in Nat
  <2> HIDE DEF Sizes
  <2>1. SumTo(Sizes(ts), Len(ts)) \in Nat
    BY <1>1, SumToType
  <2>2. QED
    BY <2>1 DEF TransfersSize, Sizes
<1>3. TransfersSize(<<>>) = 0
  <2> DEFINE none == [i \in 1 .. 0 |-> 0]
             zero == [i \in 0 .. 0 |-> 0]
  <2>1. none \in [1 .. 0 -> Nat] /\ zero \in [0 .. 0 -> Nat] /\ zero[0] = 0
    OBVIOUS
  <2>2. \A i \in 1 .. 0 : zero[i] = zero[i - 1] + none[i]
    OBVIOUS
  <2>3. Sizes(<<>>) = none
    OBVIOUS
  <2> HIDE DEF none, zero, Sizes
  <2>4. SumTo(none, 0) = zero[0]
    BY <2>1, <2>2, SumToDefined
  <2>5. QED
    BY <2>1, <2>3, <2>4 DEF TransfersSize, Sizes
<1>4. ASSUME NEW tx \in Transfers
      PROVE  TransfersSize(Append(ts, tx)) = TransfersSize(ts) + tx.size
  <2> DEFINE n == Len(ts)
             f == Sizes(ts)
             h == Sizes(Append(ts, tx))
  <2>1. Append(ts, tx) \in Seq(Transfers) /\ Len(Append(ts, tx)) = n + 1 /\ n \in Nat
    OBVIOUS
  <2>2. \A i \in 1 .. n : h[i] = f[i]
    OBVIOUS
  <2>3. h[n + 1] = tx.size
    OBVIOUS
  <2>4. f \in [1 .. n -> Nat] /\ h \in [1 .. n + 1 -> Nat]
    <3> HIDE DEF Sizes
    <3> QED  BY <1>1, <2>1
  <2>5. TransfersSize(ts) = SumTo(f, n) /\ TransfersSize(Append(ts, tx)) = SumTo(h, n + 1)
    BY <2>1 DEF TransfersSize
  <2> HIDE DEF f, h, n
  <2>6. SumTo(h, n + 1) = SumTo(f, n) + h[n + 1]
    BY <2>1, <2>2, <2>4, SumToStep
  <2>7. QED
    BY <2>3, <2>5, <2>6
<1>5. QED
  BY <1>2, <1>3, <1>4

(* The estimate grows by each transfer packed, which is packed only if it   *)
(* fits.                                                                    *)
LEMMA PackKeepsEstimate ==
  ASSUME IInv, OwnBlockKnown, PackTransfer
  PROVE  OwnBlockKnown'
<1> DEFINE tx == mempool[job.next]
<1>1. TypeOK /\ pc = "select" /\ pc' = "select" /\ job \in Job /\ minerAddress' = minerAddress
  BY DEF IInv, TypeOK, PackTransfer, settings
<1>2. tx \in Transfers
  BY <1>1, ConsideredIsTransfer DEF PackTransfer
<1>3. job.packed \in Seq(Transfers) /\ job.bytes \in Nat
  BY <1>1 DEF Job
<1>4. job'.packed = Append(job.packed, tx) /\ job'.bytes = job.bytes + tx.size
  <2>1. job' = [job EXCEPT !.next = @ + 1, !.packed = Append(@, tx),
                           !.fees = AddWord(@, tx.fee), !.bytes = @ + tx.size]
    BY DEF PackTransfer
  <2> HIDE DEF tx
  <2>2. QED
    BY <1>1, <2>1 DEF Job
<1>5. job'.bytes = BlockAllowance + TransfersSize(job'.packed)
  <2>1. job.bytes = BlockAllowance + TransfersSize(job.packed)
    BY <1>1 DEF OwnBlockKnown
  <2>2. /\ TransfersSize(job.packed) \in Nat
        /\ TransfersSize(Append(job.packed, tx)) = TransfersSize(job.packed) + tx.size
    <3> HIDE DEF tx
    <3> QED  BY <1>2, <1>3, SizeFacts
  <2>3. tx.size \in Nat
    BY <1>2, TransferFields
  <2> HIDE DEF tx
  <2>4. QED
    BY <1>3, <1>4, <2>1, <2>2, <2>3, LedgerAssumption
<1>6. job'.bytes <= MaxBlockSizeBytes
  BY <1>4 DEF PackTransfer, Considered
<1>7. ValidMinerAddress'
  BY <1>1 DEF OwnBlockKnown, ValidMinerAddress
<1>8. QED
  BY <1>1, <1>5, <1>6, <1>7 DEF OwnBlockKnown

(* The block takes its place and rules from parent, job and build.          *)
LEMMA AssembleKnowsBlock ==
  ASSUME IInv, OwnBlockKnown, AssembleBlock
  PROVE  OwnBlockKnown'
<1> DEFINE supply == GetTotalCirculatingSupply(chain)
           index == job.parent.index + 1
<1>1. /\ TypeOK /\ pc = "assemble" /\ pc' = "mining" /\ job \in Job
      /\ params' = params /\ minerAddress' = minerAddress
  BY DEF IInv, TypeOK, AssembleBlock
<1>2. job.parent \in Block /\ job.parent # NoBlock
  BY <1>1, TipIsBlock, NoBlockAssumption DEF IInv, ParentKnown, Loaded
<1>3. PICK now \in ClockReadings :
        LET difficulty == CalculateNextDifficulty(job.parent.timestamp, BlockTime(now),
                                                  job.parent.difficulty)
        IN  /\ job' = [job EXCEPT !.supply = supply]
            /\ targetDifficulty' = difficulty
            /\ newBlock' = [index |-> index, timestamp |-> BlockTime(now),
                            prevHash |-> job.parent.hash, hash |-> ZeroHash,
                            transfers |-> job.packed, miner |-> minerAddress,
                            difficulty |-> difficulty,
                            reward |-> CappedReward(params, index, supply),
                            maxSupply |-> params.maxSupply,
                            halvingInterval |-> params.halvingInterval]
  BY DEF AssembleBlock
<1>4. BlockTime(now) > job.parent.timestamp
  BY <1>2, BlockFields, LedgerAssumption DEF BlockTime
<1>5. /\ job'.parent = job.parent /\ job'.packed = job.packed /\ job'.bytes = job.bytes
      /\ job'.supply = supply
  <2> HIDE DEF supply
  <2> QED  BY <1>1, <1>3 DEF Job
<1>6. /\ newBlock'.index = index /\ newBlock'.timestamp = BlockTime(now)
      /\ newBlock'.prevHash = job.parent.hash /\ newBlock'.transfers = job.packed
      /\ newBlock'.miner = minerAddress /\ newBlock'.difficulty = targetDifficulty'
      /\ newBlock'.reward = CappedReward(params, index, supply)
  BY <1>3
<1> HIDE DEF supply, index
<1>7. FollowsBlock(newBlock, job.parent)'
  BY <1>2, <1>4, <1>5, <1>6 DEF FollowsBlock, index
<1>8. ValidMinerAddress'
  BY <1>1 DEF OwnBlockKnown, ValidMinerAddress
<1>9. /\ job.bytes = BlockAllowance + TransfersSize(job.packed)
      /\ job.packed # <<>> => job.bytes <= MaxBlockSizeBytes
  BY <1>1 DEF OwnBlockKnown
<1>10. QED
  BY <1>1, <1>5, <1>6, <1>7, <1>8, <1>9 DEF OwnBlockKnown

(* No other step interferes.                                                *)
LEMMA OwnBlockStep ==
  ASSUME IInv, OwnBlockKnown, [Next]_vars
  PROVE  OwnBlockKnown'
<1> DEFINE Early == {"select", "assemble", "mining"}
<1>1. CASE pc' \notin Early
  BY <1>1 DEF OwnBlockKnown
<1>2. CASE PackTransfer
  BY <1>2, PackKeepsEstimate
<1>3. CASE AssembleBlock
  BY <1>3, AssembleKnowsBlock
<1>4. CASE BeginMine
  <2>1. job'.packed = <<>> /\ job'.bytes = BlockAllowance /\ pc' = "select"
    BY <1>4 DEF BeginMine, NoJob
  <2>2. ValidMinerAddress'
    BY <1>4 DEF BeginMine, ValidMinerAddress, settings
  <2>3. <<>> \in Seq(Transfers)
    OBVIOUS
  <2>4. TransfersSize(<<>>) = 0
    BY <2>3, SizeFacts
  <2>5. QED
    BY <2>1, <2>2, <2>4, LedgerAssumption DEF OwnBlockKnown
<1>5. CASE SkipTransfer
  <2>1. job'.packed = job.packed /\ job'.bytes = job.bytes
    BY <1>5 DEF SkipTransfer, IInv, TypeOK, Job
  <2>2. pc = "select" /\ pc' = "select" /\ minerAddress' = minerAddress
    BY <1>5 DEF SkipTransfer, settings
  <2>3. QED
    BY <2>1, <2>2 DEF OwnBlockKnown, ValidMinerAddress
<1>6. CASE EndSelect
  BY <1>6 DEF EndSelect, settings, OwnBlockKnown, ValidMinerAddress
<1>7. CASE Pool \/ UNCHANGED vars
  <2>1. /\ pc' = pc /\ job' = job /\ newBlock' = newBlock /\ params' = params
        /\ minerAddress' = minerAddress /\ targetDifficulty' = targetDifficulty
    BY <1>7 DEF Pool, SetMempool, ReceiveTransfer, settings, vars
  <2>2. QED
    BY <2>1 DEF OwnBlockKnown, ValidMinerAddress
<1>8. CASE Load \/ Save \/ Stop \/ Upgrade \/ RejectMiner \/ FindBlock \/ AppendBlock
  <2>1. pc' \notin Early
    BY <1>8 DEF Load, InitializeLedger, ClearAll, SpawnGenesis, RebuildTransfer, RebuildReward,
                VerifyConsensusIntegrity, Save, PutBlock, PutLastIndex, CreditMiner, Stop,
                Upgrade, RejectMiner, FindBlock, AppendBlock
  <2>2. QED
    BY <1>1, <2>1
<1>9. QED
  BY <1>2, <1>3, <1>4, <1>5, <1>6, <1>7, <1>8 DEF Next, MineBlock

(* What MineBlock and ValidateBlockConsensus compute apart agrees: a block   *)
(* of the node's own making is only ever refused for its size, and only if   *)
(* its separators and the rest exceed the allowance.                         *)
RefusedForSize ==
  [][pc = "mining" /\ pc' = "panic"
       => HeaderBytes + SeparatorBytes * (Len(job.packed) - 1) > BlockAllowance]_vars

(* The step at which MineBlock could panic over its block.                  *)
LEMMA FindBlockValidates ==
  ASSUME IInv, OwnBlockKnown, HeaderBytes <= MaxBlockSizeBytes, pc = "mining", FindBlock,
         HeaderBytes + SeparatorBytes * (Len(job.packed) - 1) <= BlockAllowance
  PROVE  pc' # "panic"
<1> DEFINE n == Len(job.packed)
           size == TransfersSize(job.packed)
<1>1. TypeOK /\ newBlock \in Block /\ params \in Policies
  BY DEF IInv, TypeOK, NewBlockKnown
<1>2. newBlock' = [newBlock EXCEPT !.hash = FoundHash]
  BY DEF FindBlock
<1>3. /\ newBlock'.hash = FoundHash
      /\ newBlock'.index = newBlock.index /\ newBlock'.timestamp = newBlock.timestamp
      /\ newBlock'.prevHash = newBlock.prevHash /\ newBlock'.transfers = newBlock.transfers
      /\ newBlock'.miner = newBlock.miner /\ newBlock'.difficulty = newBlock.difficulty
      /\ newBlock'.reward = newBlock.reward /\ newBlock'.maxSupply = newBlock.maxSupply
      /\ newBlock'.halvingInterval = newBlock.halvingInterval
  <2> HIDE DEF FoundHash
  <2> QED  BY <1>1, <1>2 DEF Block
<1>4. FollowsBlock(newBlock', job.parent)
  BY <1>3 DEF OwnBlockKnown, FollowsBlock
<1>5. newBlock'.miner # SystemGenesis => newBlock'.miner \in Prefixed
  BY <1>3 DEF OwnBlockKnown, ValidMinerAddress
<1>6. ValidatePoW(newBlock'.hash, newBlock'.difficulty)
  <2>1. newBlock'.difficulty = targetDifficulty /\ targetDifficulty \in Nat
    BY <1>1, <1>3 DEF OwnBlockKnown, TypeOK
  <2>2. QED
    BY <1>3, <2>1 DEF FoundHash, ValidatePoW
<1>7. /\ newBlock'.maxSupply \in {0, params.maxSupply}
      /\ newBlock'.halvingInterval \in {0, params.halvingInterval}
  BY <1>3 DEF IInv, NewBlockKnown
<1>8. newBlock'.reward = CappedReward(params, newBlock'.index, job.supply)
  BY <1>3 DEF OwnBlockKnown
<1>9. SerializedSize(newBlock') <= MaxBlockSizeBytes
  <2>1. job.packed \in Seq(Transfers) /\ n \in Nat
    BY <1>1 DEF TypeOK, Job
  <2>2. size \in Nat
    BY <2>1, SizeFacts
  <2>3. /\ newBlock'.transfers = job.packed
        /\ job.bytes = BlockAllowance + size
        /\ job.packed # <<>> => job.bytes <= MaxBlockSizeBytes
    BY <1>3 DEF OwnBlockKnown
  <2>4. SerializedSize(newBlock')
          = HeaderBytes + size + (IF n > 1 THEN SeparatorBytes * (n - 1) ELSE 0)
    BY <2>3 DEF SerializedSize, TransfersSize
  <2> DEFINE separators == SeparatorBytes * (n - 1)
  <2>5. n # 0 => separators \in Nat
    BY <2>1, SizeAssumption
  <2>6. n = 0 => job.packed = <<>>
    BY <2>1
  <2>7. job.packed = <<>> => size = 0
    BY <2>1, SizeFacts
  <2>8. n = 1 => separators = 0
    BY SizeAssumption
  <2>9. HeaderBytes + separators <= BlockAllowance
    OBVIOUS
  <2>10. n # 0 => job.packed # <<>>
    OBVIOUS
  <2> HIDE DEF separators, n, size
  <2>11. SerializedSize(newBlock') = HeaderBytes + size + (IF n > 1 THEN separators ELSE 0)
    BY <2>4 DEF separators, n
  <2>12. QED
    BY <2>1, <2>2, <2>3, <2>5, <2>6, <2>7, <2>8, <2>9, <2>10, <2>11, SizeAssumption,
       LedgerAssumption
<1>10. ValidateBlockConsensus(params, newBlock', job.parent, job.supply)
  BY <1>4, <1>5, <1>6, <1>7, <1>8, <1>9 DEF ValidateBlockConsensus
<1>11. QED
  BY <1>10 DEF FindBlock

(* Mining only ends in a panic over a hash that was found.                   *)
LEMMA PanicFromFindBlock ==
  ASSUME [Next]_vars, pc = "mining", pc' = "panic"
  PROVE  FindBlock
BY DEF Next, Load, InitializeLedger, ClearAll, SpawnGenesis, RebuildTransfer, RebuildReward,
       VerifyConsensusIntegrity, MineBlock, RejectMiner, BeginMine, PackTransfer, SkipTransfer,
       EndSelect, AssembleBlock, AppendBlock, Save, PutBlock, PutLastIndex, CreditMiner,
       Pool, SetMempool, ReceiveTransfer, Stop, Upgrade, vars

(* OwnBlockKnown holds throughout.                                          *)
LEMMA OwnBlockInvariant == Spec => []OwnBlockKnown
<1>1. Init => OwnBlockKnown
  BY DEF Init, OwnBlockKnown
<1>2. IInv /\ OwnBlockKnown /\ [Next]_vars => OwnBlockKnown'
  BY OwnBlockStep
<1>3. QED
  BY <1>1, <1>2, LedgerInvariant, PTL DEF Spec

(* MineBlock panics over a block of its own only for the separators its      *)
(* estimate forgets, as long as an empty block fits at all.                  *)
THEOREM LedgerRefusesForSize ==
  ASSUME HeaderBytes <= MaxBlockSizeBytes
  PROVE  Spec => RefusedForSize
<1>1. IInv /\ OwnBlockKnown /\ [Next]_vars
        => [pc = "mining" /\ pc' = "panic"
              => HeaderBytes + SeparatorBytes * (Len(job.packed) - 1) > BlockAllowance]_vars
  <2>1. SUFFICES ASSUME IInv, OwnBlockKnown, [Next]_vars, pc = "mining", pc' = "panic"
                 PROVE  HeaderBytes + SeparatorBytes * (Len(job.packed) - 1) > BlockAllowance
    OBVIOUS
  <2>2. FindBlock
    BY <2>1, PanicFromFindBlock
  <2>3. Len(job.packed) \in Nat
    BY <2>1 DEF IInv, TypeOK, Job
  <2>4. SeparatorBytes * (Len(job.packed) - 1) \in Int
    BY <2>3, SizeAssumption
  <2>5. QED
    BY <2>1, <2>2, <2>4, FindBlockValidates, SizeAssumption, LedgerAssumption
<1>2. QED
  BY <1>1, LedgerInvariant, OwnBlockInvariant, PTL DEF Spec, RefusedForSize

(* No step makes the mempool or the block longer than what callers install  *)
(* and other threads append.                                                *)
LEMMA MempoolWithinStep ==
  ASSUME NEW n \in Nat, MaxMempool <= n, \A ts \in MempoolFiles : Len(ts) <= n,
         TypeOK, MempoolWithin(n), [Next]_vars
  PROVE  MempoolWithin(n)'
<1>1. mempool \in Seq(Transfers) /\ job \in Job
  BY DEF TypeOK
<1>2. job.next \in Nat \ {0} /\ job.packed \in Seq(Transfers)
  BY <1>1 DEF Job
<1>3. Len(NoJob.packed) = 0 /\ NoJob.next = 1
  BY DEF NoJob
<1>4. CASE Load \/ Save \/ Stop \/ Upgrade
  <2>1. pc' # "select"
    BY <1>4 DEF Load, InitializeLedger, ClearAll, SpawnGenesis, RebuildTransfer, RebuildReward,
                VerifyConsensusIntegrity, Save, PutBlock, PutLastIndex, CreditMiner, Stop, Upgrade
  <2>2. mempool' = mempool \/ mempool' = <<>>
    BY <1>4 DEF Load, InitializeLedger, ClearAll, SpawnGenesis, RebuildTransfer, RebuildReward,
                VerifyConsensusIntegrity, Save, PutBlock, PutLastIndex, CreditMiner, Stop,
                MemoryLost, Upgrade
  <2>3. job' = job \/ job' = NoJob
    BY <1>4 DEF Load, InitializeLedger, ClearAll, SpawnGenesis, RebuildTransfer, RebuildReward,
                VerifyConsensusIntegrity, Save, PutBlock, PutLastIndex, CreditMiner, Stop,
                MemoryLost, Upgrade
  <2>4. QED
    BY <1>3, <2>1, <2>2, <2>3 DEF MempoolWithin
<1>5. CASE RejectMiner \/ AssembleBlock \/ FindBlock \/ AppendBlock \/ UNCHANGED vars
  <2>1. mempool' = mempool /\ job'.packed = job.packed
    BY <1>1, <1>5 DEF RejectMiner, AssembleBlock, FindBlock, AppendBlock, vars, Job
  <2>2. pc' # "select" \/ UNCHANGED vars
    BY <1>5 DEF RejectMiner, AssembleBlock, FindBlock, AppendBlock
  <2>3. QED
    BY <2>1, <2>2 DEF MempoolWithin, vars
<1>6. CASE BeginMine
  <2>1. mempool' = mempool /\ job'.packed = <<>> /\ job'.next = 1
    BY <1>6 DEF BeginMine, NoJob
  <2>2. QED
    BY <1>1, <2>1 DEF MempoolWithin
<1>7. CASE PackTransfer
  <2> DEFINE tx == mempool[job.next]
  <2>1. /\ mempool' = mempool /\ pc = "select" /\ job.next <= Len(mempool)
        /\ job' = [job EXCEPT !.next = @ + 1, !.packed = Append(@, tx),
                              !.fees = AddWord(@, tx.fee), !.bytes = @ + tx.size]
    BY <1>7 DEF PackTransfer, Considered
  <2> HIDE DEF tx
  <2>2. job'.next = job.next + 1 /\ job'.packed = Append(job.packed, tx)
    BY <1>1, <2>1 DEF Job
  <2>3. Len(job'.packed) = Len(job.packed) + 1 /\ Len(job.packed) \in Nat
    BY <1>2, <2>2
  <2>4. QED
    BY <1>1, <1>2, <2>1, <2>2, <2>3 DEF MempoolWithin
<1>8. CASE SkipTransfer
  <2>1. /\ mempool' = mempool /\ pc = "select" /\ job.next <= Len(mempool)
        /\ job'.next = job.next + 1 /\ job'.packed = job.packed
    BY <1>1, <1>8 DEF SkipTransfer, Considered, Job
  <2>2. QED
    BY <1>1, <1>2, <2>1 DEF MempoolWithin
<1>9. CASE EndSelect
  <2>1. /\ mempool' = SubSeq(mempool, Len(job.packed) + 1, Len(mempool))
        /\ pc' = "assemble" /\ job' = job
    BY <1>9 DEF EndSelect, RemainingMempool
  <2>2. Len(mempool') <= Len(mempool) /\ Len(mempool') \in Nat
    BY <1>1, <1>2, <2>1
  <2>3. QED
    BY <1>1, <2>1, <2>2 DEF MempoolWithin
<1>10. CASE Pool
  <2>1. /\ Len(mempool') <= n
        /\ job' = job /\ pc' = pc /\ pc # "select"
    <3>1. CASE \E ts \in MempoolFiles : SetMempool(ts)
      BY <3>1 DEF SetMempool
    <3>2. CASE \E tx \in Transfers : ReceiveTransfer(tx)
      BY <1>1, <3>2, LedgerAssumption DEF ReceiveTransfer, Unlocked
    <3>3. QED
      BY <1>10, <3>1, <3>2 DEF Pool
  <2>2. QED
    BY <2>1 DEF MempoolWithin
<1>11. QED
  BY <1>4, <1>5, <1>6, <1>7, <1>8, <1>9, <1>10 DEF Next, MineBlock

(* OwnBlocksValidate: while no mempool holds more transfers than the         *)
(* allowance has separators for, no block the node mined makes it panic.     *)
(* (Without the bound it can: the code's allowance is of a fixed size.)      *)
THEOREM LedgerOwnBlocksValidate ==
  ASSUME NEW n \in Nat \ {0}, MaxMempool <= n, \A ts \in MempoolFiles : Len(ts) <= n,
         HeaderBytes + SeparatorBytes * (n - 1) <= BlockAllowance,
         HeaderBytes <= MaxBlockSizeBytes
  PROVE  Spec => OwnBlocksValidate
<1>1. Init => MempoolWithin(n)
  BY DEF Init, MempoolWithin, NoJob
<1>2. TypeOK /\ MempoolWithin(n) /\ [Next]_vars => MempoolWithin(n)'
  BY MempoolWithinStep
<1>3. TypeOK /\ MempoolWithin(n)
        => HeaderBytes + SeparatorBytes * (Len(job.packed) - 1) <= BlockAllowance
  <2>1. SUFFICES ASSUME TypeOK, MempoolWithin(n)
                 PROVE  HeaderBytes + SeparatorBytes * (Len(job.packed) - 1) <= BlockAllowance
    OBVIOUS
  <2>2. Len(job.packed) \in Nat /\ Len(job.packed) <= n
    BY <2>1 DEF TypeOK, Job, MempoolWithin
  <2> DEFINE k == Len(job.packed)
  <2> HIDE DEF k
  <2>3. ASSUME k \in Nat, k <= n PROVE SeparatorBytes * (k - 1) <= SeparatorBytes * (n - 1)
    BY <2>3, SizeAssumption
  <2>4. /\ SeparatorBytes * (k - 1) <= SeparatorBytes * (n - 1)
        /\ k \in Nat
    BY <2>2, <2>3 DEF k
  <2>5. SeparatorBytes * (k - 1) \in Int /\ SeparatorBytes * (n - 1) \in Int
    BY <2>4, SizeAssumption
  <2>6. HeaderBytes + SeparatorBytes * (k - 1) <= BlockAllowance
    BY <2>4, <2>5, SizeAssumption, LedgerAssumption
  <2>7. QED
    BY <2>6 DEF k
<1>4. IInv /\ OwnBlockKnown /\ TypeOK /\ MempoolWithin(n) /\ [Next]_vars
        => [pc = "mining" => pc' # "panic"]_vars
  BY <1>3, PanicFromFindBlock, FindBlockValidates
<1>5. QED
  BY <1>1, <1>2, <1>4, LedgerInvariant, LedgerTypes, OwnBlockInvariant, PTL
     DEF Spec, OwnBlocksValidate

=============================================================================
