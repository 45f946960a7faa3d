------------------------------- MODULE Ledger -------------------------------
(***************************************************************************)
(* node.LedgerCore over storage.Database: loading or creating the chain,   *)
(* replaying it into account balances, and MineBlock, as one process runs  *)
(* them.  LevelDB locks its directory, so one process at a time has the    *)
(* ledger open; it can die between any two steps, and every write to the   *)
(* database is a step of its own.                                          *)
(*                                                                         *)
(* `pc` says where the process is.  The mutex of the ledger is held from   *)
(* BeginMine to EndSelect and from AppendBlock to CreditMiner; in between  *)
(* (time, difficulty, proof of work) other threads append to the mempool.  *)
(***************************************************************************)
EXTENDS Consensus

CONSTANTS
  InitialDifficulties,  \* the arguments callers give InitializeLedger
  MinerAddresses,       \* likewise
  GenesisHashes,        \* hashes a search over genesis nonces can return
  BlockAllowance,       \* the 512 bytes the miner reserves for the rest of a block
  ClockReadings,        \* what time.Now().Unix() can return
  MempoolFiles,         \* the mempools a caller installs before mining
  MaxMempool,           \* bound: transfers waiting in memory
  MaxFound              \* bound: blocks ever mined

ASSUME LedgerAssumption ==
  /\ InitialDifficulties \subseteq Nat
  /\ MinerAddresses \subseteq Account
  /\ GenesisHashes \subseteq Hash
  /\ \A hash \in GenesisHashes : hash.nonce < 0
  /\ BlockAllowance \in Nat
  /\ ClockReadings \subseteq Nat
  /\ MempoolFiles \subseteq Seq(Transfers)
  /\ MaxMempool \in Nat
  /\ MaxFound \in Nat

VARIABLES
  (* the database *)
  blocks,     \* "block_<i>" keys: a function from some indices to blocks
  lastIndex,  \* "last_index" key, -1 when absent
  (* the build that is installed *)
  params,
  (* memory of the process *)
  pc, chain, state, mempool, minerAddress, targetDifficulty,
  job,        \* locals of MineBlock
  newBlock,   \* the block being mined or saved
  cursor,     \* position of the replay: block, transfer
  (* nonces of the blocks found so far; makes hashes distinct *)
  found

disk == <<blocks, lastIndex>>
settings == <<minerAddress, targetDifficulty>>
vars == <<blocks, lastIndex, params, pc, chain, state, mempool, minerAddress,
          targetDifficulty, job, newBlock, cursor, found>>

Locations == {"off", "wipe", "spawn", "rebuild", "verify", "ready", "select",
              "assemble", "mining", "commit", "save", "index", "credit", "panic"}

AccountState == [balance : Amount, nonce : Nat]
ZeroState == [a \in Account |-> [balance |-> 0, nonce |-> 0]]

Job == [parent : Block \cup {NoBlock}, next : Nat \ {0}, packed : Seq(Transfers),
        fees : Amount, bytes : Nat, supply : Nat]
NoJob == [parent |-> NoBlock, next |-> 1, packed |-> <<>>,
          fees |-> 0, bytes |-> 0, supply |-> 0]

----------------------------------------------------------------------------
(* Accounts.  An account that is not a key of State is one with a zero      *)
(* balance and nonce.                                                       *)

Debit(accounts, a, balance) ==
  [accounts EXCEPT ![a] = [balance |-> balance, nonce |-> @.nonce + 1]]

Credit(accounts, a, amount) ==
  [accounts EXCEPT ![a].balance = AddWord(@, amount)]

(* Variants that end in a word of their own, here and below, are mistakes   *)
(* this code could have made; the runs tell them from the definition that   *)
(* follows.  This one forgets the balance.                                  *)
AffordableAlways(accounts, tx) == TRUE

Affordable(accounts, tx) == accounts[tx.sender].balance >= TransferCost(tx)

(* The sender pays the value and not the fee. *)
ExecuteTransferFeeless(accounts, tx) ==
  Credit(Debit(accounts, tx.sender, accounts[tx.sender].balance - tx.value),
         tx.recipient, tx.value)

(* The debit and credit of MineBlock, once the balance suffices. *)
ExecuteTransfer(accounts, tx) ==
  Credit(Debit(accounts, tx.sender, accounts[tx.sender].balance - TransferCost(tx)),
         tx.recipient, tx.value)

(* Those of RebuildState: what cannot be paid empties the account. *)
ReplayTransfer(accounts, tx) ==
  IF Affordable(accounts, tx) THEN ExecuteTransfer(accounts, tx)
  ELSE Credit(Debit(accounts, tx.sender, 0), tx.recipient, tx.value)

(* The fees stay out of the rebuilt balance. *)
ReplayRewardFeeless(accounts, block) ==
  IF block.miner = SystemGenesis THEN accounts
  ELSE Credit(accounts, block.miner, block.reward)

ReplayReward(accounts, block) ==
  IF block.miner = SystemGenesis THEN accounts
  ELSE Credit(accounts, block.miner, AddWord(block.reward, TotalFee(block.transfers)))

----------------------------------------------------------------------------
(* The database. *)

(* The blocks LoadFromDisk reads: up to last_index or the first gap. *)
ReadLength(store, last) ==
  CHOOSE n \in 0 .. last + 1 :
    /\ \A i \in 0 .. n - 1 : i \in DOMAIN store
    /\ n = last + 1 \/ n \notin DOMAIN store

ReadBlocks(store, last) == [i \in 1 .. ReadLength(store, last) |-> store[i - 1]]

Stored == ReadBlocks(blocks, lastIndex)

(* DB.Put under the key of the block's index. *)
WithBlock(store, block) ==
  [i \in DOMAIN store \cup {block.index} |-> IF i = block.index THEN block ELSE store[i]]

----------------------------------------------------------------------------

MemoryLost ==
  /\ chain' = <<>>
  /\ state' = ZeroState
  /\ mempool' = <<>>
  /\ job' = NoJob
  /\ newBlock' = NoBlock
  /\ cursor' = <<1, 1>>

Init ==
  /\ blocks = <<>>
  /\ lastIndex = -1
  /\ params \in Policies
  /\ pc = "off"
  /\ chain = <<>>
  /\ state = ZeroState
  /\ mempool = <<>>
  /\ minerAddress \in MinerAddresses
  /\ targetDifficulty = 1
  /\ job = NoJob
  /\ newBlock = NoBlock
  /\ cursor = <<1, 1>>
  /\ found = 0

(* A stored chain is taken over whatever its policy. *)
InitializeLedgerUnchecked ==
  /\ pc = "off"
  /\ \E difficulty \in InitialDifficulties, address \in MinerAddresses :
       /\ targetDifficulty' = IF difficulty = 0 THEN 1 ELSE difficulty
       /\ minerAddress' = address
  /\ pc' = IF Len(Stored) = 0 THEN "spawn" ELSE "rebuild"
  /\ chain' = Stored
  /\ UNCHANGED <<disk, params, state, mempool, job, newBlock, cursor, found>>

(* InitializeLedger and the reading part of LoadFromDisk.  A genesis block  *)
(* of another policy discards what was read, with the state the code has    *)
(* replayed from it by then; without any stored block the genesis block is  *)
(* mined.                                                                   *)
InitializeLedger ==
  /\ pc = "off"
  /\ \E difficulty \in InitialDifficulties, address \in MinerAddresses :
       /\ targetDifficulty' = IF difficulty = 0 THEN 1 ELSE difficulty
       /\ minerAddress' = address
  /\ \/ /\ Len(Stored) = 0
        /\ pc' = "spawn"
        /\ chain' = <<>>
     \/ /\ Len(Stored) > 0
        /\ SameGenesisPolicy(params, Stored[1])
        /\ pc' = "rebuild"
        /\ chain' = Stored
     \/ /\ Len(Stored) > 0
        /\ ~SameGenesisPolicy(params, Stored[1])
        /\ pc' = "wipe"
        /\ chain' = <<>>
  /\ UNCHANGED <<disk, params, state, mempool, job, newBlock, cursor, found>>

(* The reset deletes the blocks only. *)
ClearAllKeepsIndex ==
  /\ pc = "wipe"
  /\ blocks' = <<>>
  /\ pc' = "spawn"
  /\ UNCHANGED <<lastIndex, params, chain, state, mempool, settings, job, newBlock, cursor, found>>

(* Storage.ClearAll: one write batch. *)
ClearAll ==
  /\ pc = "wipe"
  /\ blocks' = <<>>
  /\ lastIndex' = -1
  /\ pc' = "spawn"
  /\ UNCHANGED <<params, chain, state, mempool, settings, job, newBlock, cursor, found>>

GenesisBlock(hash) ==
  [index |-> 0, timestamp |-> params.genesisTimestamp, prevHash |-> ZeroHash,
   hash |-> hash, transfers |-> <<>>, miner |-> SystemGenesis,
   difficulty |-> targetDifficulty, reward |-> CalculateBlockReward(params, 0),
   maxSupply |-> params.maxSupply, halvingInterval |-> params.halvingInterval]

(* SpawnGenesis up to SaveBlock.  Workers race over disjoint nonce ranges,  *)
(* so any hash that meets the target can win.                               *)
SpawnGenesis ==
  /\ pc = "spawn"
  /\ \E hash \in GenesisHashes :
       /\ ValidatePoW(hash, targetDifficulty)
       /\ newBlock' = GenesisBlock(hash)
  /\ chain' = Append(chain, newBlock')
  /\ pc' = "save"
  /\ UNCHANGED <<disk, params, state, mempool, settings, job, cursor, found>>

(* One transfer of RebuildState. *)
RebuildTransfer ==
  /\ pc = "rebuild"
  /\ cursor[1] <= Len(chain)
  /\ cursor[2] <= Len(chain[cursor[1]].transfers)
  /\ state' = ReplayTransfer(state, chain[cursor[1]].transfers[cursor[2]])
  /\ cursor' = <<cursor[1], cursor[2] + 1>>
  /\ UNCHANGED <<disk, params, pc, chain, mempool, settings, job, newBlock, found>>

(* The loop over the chain runs one block too far. *)
RebuildRewardTooFar ==
  /\ pc = "rebuild"
  /\ cursor[1] <= Len(chain)
  /\ cursor[2] > Len(chain[cursor[1]].transfers)
  /\ state' = ReplayReward(state, chain[cursor[1]])
  /\ cursor' = <<cursor[1] + 1, 1>>
  /\ pc' = IF cursor[1] > Len(chain) THEN "verify" ELSE "rebuild"
  /\ UNCHANGED <<disk, params, chain, mempool, settings, job, newBlock, found>>

(* The end of RebuildState: its miner's reward, and on to the next block. *)
RebuildReward ==
  /\ pc = "rebuild"
  /\ cursor[1] <= Len(chain)
  /\ cursor[2] > Len(chain[cursor[1]].transfers)
  /\ state' = ReplayReward(state, chain[cursor[1]])
  /\ cursor' = <<cursor[1] + 1, 1>>
  /\ pc' = IF cursor[1] = Len(chain) THEN "verify" ELSE "rebuild"
  /\ UNCHANGED <<disk, params, chain, mempool, settings, job, newBlock, found>>

ConsensusIntegrity ==
  /\ \A i \in 1 .. Len(chain) : VerifyCheckpoint(params, i - 1, chain[i].hash)
  /\ GetTotalCirculatingSupply(chain) <= params.maxSupply

VerifyConsensusIntegrity ==
  /\ pc = "verify"
  /\ pc' = IF ConsensusIntegrity THEN "ready" ELSE "panic"
  /\ UNCHANGED <<disk, params, chain, state, mempool, settings, job, newBlock, cursor, found>>

----------------------------------------------------------------------------
(* The mempool, as the daemon and the command line fill it. *)

Unlocked == pc \in {"ready", "assemble", "mining", "commit"}

(* ledger.Mempool = diskMempool *)
SetMempool(transfers) ==
  /\ pc = "ready"
  /\ mempool' = transfers
  /\ UNCHANGED <<disk, params, pc, chain, state, settings, job, newBlock, cursor, found>>

(* ledger.Mempool = append(ledger.Mempool, tx), while MineBlock is not in a *)
(* locked region.                                                           *)
ReceiveTransfer(tx) ==
  /\ Unlocked
  /\ Len(mempool) < MaxMempool
  /\ mempool' = Append(mempool, tx)
  /\ UNCHANGED <<disk, params, pc, chain, state, settings, job, newBlock, cursor, found>>

----------------------------------------------------------------------------
(* MineBlock. *)

ValidMinerAddress == minerAddress = SystemGenesis \/ minerAddress \in Prefixed

RejectMiner ==
  /\ pc = "ready"
  /\ ~ValidMinerAddress
  /\ pc' = "panic"
  /\ UNCHANGED <<disk, params, chain, state, mempool, settings, job, newBlock, cursor, found>>

BeginMine ==
  /\ pc = "ready"
  /\ found < MaxFound
  /\ ValidMinerAddress
  /\ job' = [NoJob EXCEPT !.parent = chain[Len(chain)], !.bytes = BlockAllowance]
  /\ pc' = "select"
  /\ UNCHANGED <<disk, params, chain, state, mempool, settings, newBlock, cursor, found>>

(* The next transfer of the loop over the mempool fits the block. *)
Considered ==
  /\ job.next <= Len(mempool)
  /\ job.bytes + mempool[job.next].size <= MaxBlockSizeBytes

(* Balances are left for the end of the selection. *)
PackTransferUnpaid ==
  /\ pc = "select"
  /\ Considered
  /\ LET tx == mempool[job.next]
     IN  /\ Affordable(state, tx)
         /\ job' = [job EXCEPT !.next = @ + 1, !.packed = Append(@, tx),
                               !.fees = AddWord(@, tx.fee), !.bytes = @ + tx.size]
  /\ UNCHANGED <<disk, params, pc, chain, state, mempool, settings, newBlock, cursor, found>>

PackTransfer ==
  /\ pc = "select"
  /\ Considered
  /\ LET tx == mempool[job.next]
     IN  /\ Affordable(state, tx)
         /\ state' = ExecuteTransfer(state, tx)
         /\ job' = [job EXCEPT !.next = @ + 1, !.packed = Append(@, tx),
                               !.fees = AddWord(@, tx.fee), !.bytes = @ + tx.size]
  /\ UNCHANGED <<disk, params, pc, chain, mempool, settings, newBlock, cursor, found>>

(* The loop does not move past a transfer that cannot be paid. *)
SkipTransferForever ==
  /\ pc = "select"
  /\ Considered
  /\ ~Affordable(state, mempool[job.next])
  /\ UNCHANGED vars

SkipTransfer ==
  /\ pc = "select"
  /\ Considered
  /\ ~Affordable(state, mempool[job.next])
  /\ job' = [job EXCEPT !.next = @ + 1]
  /\ UNCHANGED <<disk, params, pc, chain, state, mempool, settings, newBlock, cursor, found>>

(* What is left of a mempool once `packed` are in the block: its first       *)
(* Len(packed) entries are dropped, whichever were packed.                   *)
RemainingMempool(transfers, packed) ==
  SubSeq(transfers, Len(packed) + 1, Len(transfers))

EndSelect ==
  /\ pc = "select"
  /\ ~Considered
  /\ mempool' = RemainingMempool(mempool, job.packed)
  /\ pc' = "assemble"
  /\ UNCHANGED <<disk, params, chain, state, settings, job, newBlock, cursor, found>>

(* A block may share its parent's time. *)
BlockTimeEqual(now) == IF now < job.parent.timestamp THEN job.parent.timestamp + 1 ELSE now

BlockTime(now) == IF now <= job.parent.timestamp THEN job.parent.timestamp + 1 ELSE now

(* The unlocked part before the proof of work. *)
AssembleBlock ==
  /\ pc = "assemble"
  /\ \E now \in ClockReadings :
       LET supply == GetTotalCirculatingSupply(chain)
           index == job.parent.index + 1
           difficulty == CalculateNextDifficulty(job.parent.timestamp, BlockTime(now),
                                                 job.parent.difficulty)
       IN  /\ job' = [job EXCEPT !.supply = supply]
           /\ targetDifficulty' = difficulty
           /\ newBlock' = [index |-> index, timestamp |-> BlockTime(now),
                           prevHash |-> job.parent.hash, hash |-> ZeroHash,
                           transfers |-> job.packed, miner |-> minerAddress,
                           difficulty |-> difficulty,
                           reward |-> CappedReward(params, index, supply),
                           maxSupply |-> params.maxSupply,
                           halvingInterval |-> params.halvingInterval]
  /\ pc' = "mining"
  /\ UNCHANGED <<disk, params, chain, state, mempool, minerAddress, cursor, found>>

(* Engine.Mine returns a hash that meets the engine's target; the block is  *)
(* validated before it is used.                                             *)
FoundHash ==
  [nonce |-> found + 1, work |-> IF targetDifficulty > 1 THEN targetDifficulty ELSE 0]

FindBlock ==
  /\ pc = "mining"
  /\ newBlock' = [newBlock EXCEPT !.hash = FoundHash]
  /\ found' = found + 1
  /\ pc' = IF ValidateBlockConsensus(params, newBlock', job.parent, job.supply)
           THEN "commit" ELSE "panic"
  /\ UNCHANGED <<disk, params, chain, state, mempool, settings, job, cursor>>

AppendBlock ==
  /\ pc = "commit"
  /\ chain' = Append(chain, newBlock)
  /\ pc' = "save"
  /\ UNCHANGED <<disk, params, state, mempool, settings, job, newBlock, cursor, found>>

(* The two Puts of SaveBlock. *)
PutBlock ==
  /\ pc = "save"
  /\ blocks' = WithBlock(blocks, newBlock)
  /\ pc' = "index"
  /\ UNCHANGED <<lastIndex, params, chain, state, mempool, settings, job, newBlock, cursor, found>>

(* The index written is that of the tip before the block. *)
PutLastIndexOfParent ==
  /\ pc = "index"
  /\ lastIndex' = IF newBlock.index = 0 THEN 0 ELSE newBlock.index - 1
  /\ pc' = IF newBlock.index = 0 THEN "ready" ELSE "credit"
  /\ UNCHANGED <<blocks, params, chain, state, mempool, settings, job, newBlock, cursor, found>>

(* Genesis is done then; MineBlock still has to credit the miner. *)
PutLastIndex ==
  /\ pc = "index"
  /\ lastIndex' = newBlock.index
  /\ pc' = IF newBlock.index = 0 THEN "ready" ELSE "credit"
  /\ UNCHANGED <<blocks, params, chain, state, mempool, settings, job, newBlock, cursor, found>>

CreditMiner ==
  /\ pc = "credit"
  /\ state' = Credit(state, minerAddress, AddWord(newBlock.reward, job.fees))
  /\ job' = NoJob
  /\ newBlock' = NoBlock
  /\ pc' = "ready"
  /\ UNCHANGED <<disk, params, chain, mempool, settings, cursor, found>>

----------------------------------------------------------------------------

(* The process ends: a command returns, or it is killed between two steps. *)
Stop ==
  /\ pc # "off"
  /\ pc' = "off"
  /\ MemoryLost
  /\ UNCHANGED <<disk, params, settings, found>>

(* Another build of the program is installed. *)
Upgrade ==
  /\ pc = "off"
  /\ params' \in Policies
  /\ UNCHANGED <<disk, pc, chain, state, mempool, settings, job, newBlock, cursor, found>>

Load == InitializeLedger \/ ClearAll \/ SpawnGenesis \/ RebuildTransfer
          \/ RebuildReward \/ VerifyConsensusIntegrity

MineBlock == RejectMiner \/ BeginMine \/ PackTransfer \/ SkipTransfer \/ EndSelect
               \/ AssembleBlock \/ FindBlock \/ AppendBlock

Save == PutBlock \/ PutLastIndex \/ CreditMiner

Pool == \/ \E transfers \in MempoolFiles : SetMempool(transfers)
        \/ \E tx \in Transfers : ReceiveTransfer(tx)

Next == Load \/ MineBlock \/ Save \/ Pool \/ Stop \/ Upgrade

Spec == Init /\ [][Next]_vars

(* What an operation does once it is called.  None of it waits for another   *)
(* thread; the search of the proof of work is taken to end.                  *)
Progress == ClearAll \/ SpawnGenesis \/ RebuildTransfer \/ RebuildReward
              \/ VerifyConsensusIntegrity \/ PackTransfer \/ SkipTransfer \/ EndSelect
              \/ AssembleBlock \/ FindBlock \/ AppendBlock \/ Save

LiveSpec == Spec /\ WF_vars(Progress)
----------------------------------------------------------------------------
(* Properties *)

(* Every variable holds what the code's types allow. *)
TypeOK ==
  /\ DOMAIN blocks \subseteq Nat
  /\ blocks = [i \in DOMAIN blocks |-> blocks[i]]
  /\ \A i \in DOMAIN blocks : blocks[i] \in Block
  /\ lastIndex \in Nat \cup {-1}
  /\ params \in Policies
  /\ pc \in Locations
  /\ chain \in Seq(Block)
  /\ state \in [Account -> AccountState]
  /\ mempool \in Seq(Transfers)
  /\ minerAddress \in Account
  /\ targetDifficulty \in Nat
  /\ job \in Job
  /\ newBlock \in Block \cup {NoBlock}
  /\ cursor \in (Nat \ {0}) \X (Nat \ {0})
  /\ found \in Nat

(* The chain in memory is the one a restart would load, except between the  *)
(* append of MineBlock and the second Put of SaveBlock, where it is one      *)
(* block ahead: the mutex hides that window from every other thread.         *)
MemoryMatchesDisk ==
  /\ pc \in {"rebuild", "verify", "ready", "select", "assemble", "mining", "commit", "credit"}
       => chain = Stored
  /\ pc \in {"save", "index"}
       => chain = Append(Stored, newBlock) /\ newBlock.index = Len(Stored)

(* What Stop would leave behind is what LoadFromDisk reads back whole: no    *)
(* crash between the two Puts of SaveBlock, nor within a reset, leaves       *)
(* last_index pointing past a missing block.                                 *)
NothingTruncated == Len(Stored) = lastIndex + 1

(* A block that MineBlock assembled and mined passes ValidateBlockConsensus: *)
(* the node does not panic over a block of its own making.                   *)
OwnBlocksValidate == [][pc = "mining" => pc' # "panic"]_vars

(* A chain this program stored passes VerifyConsensusIntegrity when it is    *)
(* loaded again by the same build.                                           *)
OwnChainLoads == [][pc = "verify" => pc' # "panic"]_vars

(* Loading ends: with a ledger to work on, unless the process is killed.     *)
LoadEnds == pc \in {"wipe", "spawn", "rebuild", "verify"} ~> pc \in {"ready", "off"}

(* A call of MineBlock that is not cut short makes one more block durable,   *)
(* whatever the mempool holds and other threads append to it meanwhile.      *)
MiningAddsBlock ==
  \A n \in 0 .. MaxFound :
    (pc = "select" /\ lastIndex = n) ~> (lastIndex = n + 1 \/ pc = "off")

(* The chain a restart would load is a log that starts with a genesis block, *)
(* grows by valid blocks and is discarded only when the policy changed.      *)
B == INSTANCE Blockchain WITH policy <- params, log <- Stored

ImplementsBlockchain == B!Spec

(* The stored blocks follow each other: index, time, hash, proof of work and *)
(* difficulty, and all carry the cap and the halving interval of the first,  *)
(* though the build can change between any two runs.                         *)
StoredChainLinked == B!ChainLinked

(* The coins the stored blocks issued stay under the cap their genesis block *)
(* carries: the miner's truncation of the last rewards, computed outside the *)
(* mutex from the chain in memory, never overshoots.                         *)
StoredSupplyCapped == B!SupplyCapped

----------------------------------------------------------------------------
(* The inductive invariant behind the safety properties above: what each     *)
(* location of the program knows about the disk, the chain and its own       *)
(* locals.                                                                   *)

Loaded == {"rebuild", "verify", "ready", "select", "assemble", "mining", "commit", "credit"}

Contiguous == \A i \in 0 .. lastIndex : i \in DOMAIN blocks /\ blocks[i].index = i

PolicyKnown ==
  /\ pc \in Loaded => Stored # <<>>
  /\ pc \in Loaded \cup {"save", "index"}
       => (Stored # <<>> => SameGenesisPolicy(params, Stored[1]))
  /\ pc = "wipe" => /\ Stored # <<>>
                    /\ ~SameGenesisPolicy(params, Stored[1])
                    /\ chain = <<>>
  /\ pc = "spawn" => lastIndex = -1 /\ chain = <<>>

ParentKnown ==
  pc \in {"select", "assemble", "mining", "commit"} => job.parent = chain[Len(chain)]

NewBlockKnown ==
  /\ pc \in {"mining", "commit", "save", "index", "credit"} => newBlock \in Block
  /\ pc = "mining" =>
       /\ job.supply = GetTotalCirculatingSupply(chain)
       /\ newBlock.maxSupply = params.maxSupply
       /\ newBlock.halvingInterval = params.halvingInterval
       /\ newBlock.difficulty = CalculateNextDifficulty(job.parent.timestamp,
                                   newBlock.timestamp, job.parent.difficulty)
  /\ pc = "commit" => B!IsSuccessor(params, newBlock, chain[Len(chain)],
                                    GetTotalCirculatingSupply(chain))
  /\ pc \in {"save", "index"} =>
       IF Stored = <<>> THEN B!IsGenesis(params, newBlock)
       ELSE B!IsSuccessor(params, newBlock, Stored[Len(Stored)],
                          GetTotalCirculatingSupply(Stored))
  /\ pc = "index" => newBlock.index \in DOMAIN blocks /\ blocks[newBlock.index] = newBlock

IInv == TypeOK /\ Contiguous /\ MemoryMatchesDisk /\ PolicyKnown /\ ParentKnown /\ NewBlockKnown

(* What MineBlock knows of its own block before it searches for the hash:    *)
(* all that ValidateBlockConsensus asks, but for the hash and the size, of   *)
(* which it has an estimate that leaves the separators out.                  *)
TransfersSize(transfers) ==
  SumTo([i \in 1 .. Len(transfers) |-> transfers[i].size], Len(transfers))

OwnBlockKnown ==
  /\ pc \in {"select", "assemble", "mining"} =>
       /\ ValidMinerAddress
       /\ job.bytes = BlockAllowance + TransfersSize(job.packed)
       /\ job.packed # <<>> => job.bytes <= MaxBlockSizeBytes
  /\ pc = "mining" =>
       /\ FollowsBlock(newBlock, job.parent)
       /\ newBlock.transfers = job.packed
       /\ newBlock.miner = minerAddress
       /\ newBlock.difficulty = targetDifficulty
       /\ newBlock.reward = CappedReward(params, newBlock.index, job.supply)

(* Neither the mempool nor the block made from it exceeds n transfers.       *)
MempoolWithin(n) ==
  /\ Len(mempool) <= n
  /\ Len(job.packed) <= n
  /\ pc = "select" => Len(job.packed) < job.next /\ job.next <= Len(mempool) + 1

=============================================================================
