--------------------------- MODULE LedgerApiProofs ---------------------------
(***************************************************************************)
(* The operations no command calls yet, called beside one another without  *)
(* the mutex over a database whose writes fail: what module LedgerApi      *)
(* states of them, for every mempool, every block of others and any number *)
(* of failures, deaths and overlaps.  What the locations know of memory,   *)
(* MineBlock of its job and the calls of theirs holds whatever overlaps;   *)
(* the rest is an implication from there having been no overlap.           *)
(***************************************************************************)
EXTENDS LedgerApi, AccountProofs

AfterSpawn == Loaded \cup {"save", "index"}

(* What the locations know of the chain in memory, whatever overlaps.        *)
MemoryKnown ==
  /\ pc # "wipe"
  /\ pc \in AfterSpawn => chain # <<>>
  /\ pc \in {"off", "spawn"} => chain = <<>>
  /\ pc = "off" => mempool = <<>>
  /\ pc = "spawn" => Stored = <<>>
  /\ \A i \in 2 .. Len(chain) : chain[i].index > 0
  /\ \A i \in DOMAIN blocks : blocks[i].index = i

(* What MineBlock knows of its parent and its block. *)
BlockKnown ==
  /\ pc \in {"select", "assemble", "mining", "commit"} => job.parent \in Block
  /\ pc \in {"mining", "commit", "save", "index", "credit"} => newBlock \in Block
  /\ pc \in {"mining", "commit", "credit"} => newBlock.index > 0
  /\ pc \in {"save", "index"} /\ newBlock.index = 0 => B!IsGenesis(params, newBlock)

(* No build with another policy is ever run. *)
OnePolicy ==
  /\ 0 \in DOMAIN blocks => SameGenesisPolicy(params, blocks[0])
  /\ chain # <<>> => SameGenesisPolicy(params, chain[1])

(* What RollbackBlock and AppendBlockDirectly know. *)
CallKnown ==
  /\ call \in Calls
  /\ hand \in Block \cup {NoBlock}
  /\ rest \in Seq(Transfers)
  /\ pool \in Seq(Transfers)
  /\ todo \in Seq(Block)
  /\ pc = "off" => call = "none"
  /\ call # "none" => hand \in Block /\ hand.index > 0
  /\ call \in {"read", "write"} => rest # <<>>
  /\ call \in {"read", "write", "cut"} => Len(chain) > 1

LedgerKnown == TypeOK /\ MemoryKnown /\ BlockKnown /\ OnePolicy

ApiBase == LedgerKnown /\ CallKnown

(* What they know besides while none of them has met MineBlock: the chain's  *)
(* blocks are in their places, and each works on its end.                    *)
Alone ==
  ~overlapped =>
    /\ call # "none" => pc = "ready"
    /\ \A i \in 1 .. Len(chain) : chain[i].index = i - 1
    /\ ParentKnown
    /\ pc \in {"mining", "commit"} => newBlock.index = Len(chain)
    /\ pc \in {"save", "index", "credit"} => newBlock = chain[Len(chain)]
    /\ call \in {"read", "write", "cut", "save", "index", "credit"} => hand = chain[Len(chain)]
    /\ call \in {"append", "delete", "pointer", "clear", "replay"} => hand.index = Len(chain)

(* The fees fall from the front on. *)
OrderKnown == ~pushed => ByFee(mempool)

(* Whose block it is that MineBlock makes, and whose transfers. *)
JobKnown ==
  /\ minerAddress \in MinerAddresses
  /\ pc \in {"mining", "commit"} =>
       newBlock.transfers = job.packed /\ newBlock.miner = minerAddress
  /\ pc \in {"save", "index", "credit"} =>
       IF newBlock.index = 0 THEN job = NoJob
       ELSE newBlock.transfers = job.packed /\ newBlock.miner = minerAddress
  /\ job.fees = TotalFee(job.packed)

(* The blocks the balances are of. *)
Booked ==
  IF call \in {"save", "index", "credit"} THEN Front(chain) ELSE CreditedChain

(* Once the chain is loaded, the balances are those of the replay and of the *)
(* transfers being packed, but while RollbackBlock is at work or has failed. *)
ReplayFollows ==
  ~overlapped =>
    /\ Running /\ ~undone /\ call \notin {"delete", "pointer", "clear", "replay"} =>
         SameBalances(Comparable, state, ReplayTransfers(ReplayChain(Booked), job.packed))
    /\ call = "replay" =>
         /\ Len(todo) <= Len(chain)
         /\ todo = SubSeq(chain, Len(chain) - Len(todo) + 1, Len(chain))
         /\ SameBalances(Comparable, state, ReplayChain(SubSeq(chain, 1, Len(chain) - Len(todo))))

(* SaveBlock is at work on a block on top of another. *)
SavesTip == (pc \in {"save", "index"} /\ newBlock.index > 0) \/ call \in {"save", "index"}

(* The block in hand is valid on top of the chain. *)
BlockValid ==
  /\ pc = "mining" =>
       /\ job.supply = GetTotalCirculatingSupply(chain)
       /\ newBlock.maxSupply = params.maxSupply
       /\ newBlock.halvingInterval = params.halvingInterval
       /\ newBlock.difficulty = CalculateNextDifficulty(job.parent.timestamp,
                                   newBlock.timestamp, job.parent.difficulty)
  /\ pc = "commit" => B!IsSuccessor(params, newBlock, chain[Len(chain)],
                                    GetTotalCirculatingSupply(chain))
  /\ call = "append" => B!IsSuccessor(params, hand, chain[Len(chain)],
                                      GetTotalCirculatingSupply(chain))
  /\ SavesTip =>
       B!IsSuccessor(params, chain[Len(chain)], chain[Len(chain) - 1],
                     GetTotalCirculatingSupply(Front(chain)))

(* The part of the chain that SaveBlock has got to. *)
Written == IF pc = "save" \/ call = "save" THEN Front(chain) ELSE chain

(* A process that loads anything is not the first; what is left half done is *)
(* so by a write that failed.                                                *)
FirstLoad ==
  /\ deaths = 0 => pc \notin {"rebuild", "verify"}
  /\ deaths = 0 /\ pc \in {"off", "spawn"} => accepted = {} /\ DOMAIN blocks = {}
  /\ failedDeletes = 0 => ~undone
  /\ overlaps = 0 => ~overlapped

(* Every stored block is one of the chain, or what is left of a block that   *)
(* was taken off it, out of the reach of last_index.                         *)
DiskFollows ==
  OneKindOfTrouble =>
    /\ pc \in AfterSpawn => \A i \in DOMAIN blocks : i < Len(Written) => blocks[i] = Written[i + 1]
    /\ pc \in AfterSpawn /\ (~undone \/ call \in {"clear", "replay"}) =>
         \A i \in DOMAIN blocks : i >= Len(Written) /\ i <= lastIndex =>
           call = "delete" /\ i = hand.index
    /\ call = "delete" /\ hand.index \in DOMAIN blocks => blocks[hand.index] = hand
    /\ call = "pointer" => hand.index \notin DOMAIN blocks

(* Nothing is left of any block while none was to be deleted and failed.     *)
NothingLeft ==
  deaths = 0 /\ failedDeletes = 0 /\ pc \in AfterSpawn =>
    \A i \in DOMAIN blocks : i < Len(Written) \/ (call = "delete" /\ i = hand.index)

(* While no write failed all of the chain is stored. *)
DiskComplete ==
  Failures = 0 =>
    /\ pc \in AfterSpawn =>
         /\ \A i \in 0 .. Len(Written) - 1 : i \in DOMAIN blocks
         /\ lastIndex >= Len(Written) - (IF pc = "index" \/ call = "index" THEN 2 ELSE 1)
    /\ call = "delete" => hand.index \in DOMAIN blocks /\ lastIndex >= hand.index
    /\ pc \in {"off", "spawn", "panic"} =>
         \A i \in DOMAIN blocks : i <= lastIndex => i < Len(Stored)

DiskSound == DiskFollows /\ NothingLeft /\ DiskComplete

DiskKnown == overlaps = 0 => BlockValid /\ DiskSound

Spots(k, tx, transfers) == {k} \X Positions(tx, transfers)

ChainSpots(tx, c) == UNION {Spots(k, tx, c[k].transfers) : k \in DOMAIN c}

DiskSpots(tx, store, indices) == UNION {Spots(i + 1, tx, store[i].transfers) : i \in indices}

(* What MineBlock has packed, and what RollbackBlock has still to put back. *)
InHand(tx) ==
  (IF pc \in {"assemble", "mining", "commit"} THEN Spots(-1, tx, job.packed) ELSE {})
    \cup (IF call \in {"read", "write"} THEN Spots(-2, tx, rest) ELSE {})

(* The block that RollbackBlock is about to take off no longer counts.       *)
Kept == IF call \in {"read", "write", "cut"} THEN Front(chain) ELSE chain

InMemory(tx) == Spots(0, tx, mempool) \cup InHand(tx) \cup ChainSpots(tx, Kept)

Remaining ==
  IF call \in {"read", "write", "cut", "delete"} THEN DOMAIN blocks \ {hand.index} ELSE DOMAIN blocks

OnDisk(tx) == DiskSpots(tx, blocks, Remaining)

EverStored(tx) == DiskSpots(tx, blocks, DOMAIN blocks)

AtMostOne(places) == \A p, q \in places : p = q

(* Until one is skipped, what is packed is the front of the mempool. *)
SelectionKnown ==
  pc = "select" /\ ~skipped =>
    /\ job.next \in 1 .. Len(mempool) + 1
    /\ Len(job.packed) = job.next - 1
    /\ \A i \in 1 .. job.next - 1 : job.packed[i] = mempool[i]

(* A transfer is in one place, in memory or on disk. *)
TransferKnown(tx) ==
  /\ tx \notin accepted =>
       InMemory(tx) \cup EverStored(tx) = {} /\ Positions(tx, job.packed) = {}
  /\ ~skipped =>
       /\ deaths = 0 => AtMostOne(InMemory(tx))
       /\ deaths = 0 /\ pc # "panic" /\ tx \in accepted => InMemory(tx) # {}
       /\ failedDeletes = 0 =>
            AtMostOne(InMemory(tx) \cup OnDisk(tx)) /\ AtMostOne(EverStored(tx))

TransfersKnown ==
  overlaps = 0 /\ races = 0 =>
    /\ call = "write" => pool = mempool
    /\ SelectionKnown
    /\ \A tx \in Transfers \ Foreign : TransferKnown(tx)

----------------------------------------------------------------------------
(* Reading the database, whatever is in it. *)

(* LoadFromDisk stops behind last_index or at the first gap.                *)
LEMMA ReadLengthFacts ==
  ASSUME NEW store, NEW last \in Nat \cup {-1}
  PROVE  /\ ReadLength(store, last) \in 0 .. last + 1
         /\ \A i \in 0 .. ReadLength(store, last) - 1 : i \in DOMAIN store
         /\ ReadLength(store, last) = last + 1 \/ ReadLength(store, last) \notin DOMAIN store
<1> DEFINE Ends(n) == /\ \A i \in 0 .. n - 1 : i \in DOMAIN store
                      /\ n = last + 1 \/ n \notin DOMAIN store
           T == {k \in Nat : k <= last + 1 =>
                   \/ \A i \in 0 .. k - 1 : i \in DOMAIN store
                   \/ \E n \in 0 .. last + 1 : Ends(n)}
<1>1. 0 \in T
  OBVIOUS
<1>2. ASSUME NEW k \in Nat, k \in T PROVE k + 1 \in T
  <2>1. SUFFICES ASSUME k + 1 <= last + 1, \A i \in 0 .. k - 1 : i \in DOMAIN store,
                        k \notin DOMAIN store
                 PROVE  \E n \in 0 .. last + 1 : Ends(n)
    <3>1. SUFFICES ASSUME k + 1 <= last + 1, ~\E n \in 0 .. last + 1 : Ends(n)
                   PROVE  \A i \in 0 .. k : i \in DOMAIN store
      OBVIOUS
    <3>2. \A i \in 0 .. k - 1 : i \in DOMAIN store
      BY <1>2, <3>1
    <3>3. k \in DOMAIN store
      BY <2>1, <3>1, <3>2
    <3>4. QED
      BY <3>2, <3>3
  <2>2. k \in 0 .. last + 1 /\ Ends(k)
    BY <2>1
  <2>3. QED
    BY <2>2
<1> HIDE DEF T
<1>3. Nat \subseteq T
  BY <1>1, <1>2, SetInduction
<1>4. last + 1 \in T
  BY <1>3
<1>5. \E n \in 0 .. last + 1 : Ends(n)
  BY <1>4 DEF T
<1>6. QED
  BY <1>5 DEF ReadLength

(* What it reads are the blocks stored up to there.                         *)
LEMMA StoredIsRead ==
  ASSUME TypeOK
  PROVE  /\ Stored \in Seq(Block)
         /\ Len(Stored) \in 0 .. lastIndex + 1
         /\ Len(Stored) = lastIndex + 1 \/ Len(Stored) \notin DOMAIN blocks
         /\ \A i \in 0 .. Len(Stored) - 1 :
              i \in DOMAIN blocks /\ blocks[i] = Stored[i + 1]
<1> DEFINE n == ReadLength(blocks, lastIndex)
<1>1. /\ n \in 0 .. lastIndex + 1
      /\ \A i \in 0 .. n - 1 : i \in DOMAIN blocks
      /\ n = lastIndex + 1 \/ n \notin DOMAIN blocks
  BY ReadLengthFacts DEF TypeOK
<1>2. Stored = [i \in 1 .. n |-> blocks[i - 1]]
  BY DEF Stored, ReadBlocks
<1> HIDE DEF n
<1>3. lastIndex \in Nat \cup {-1} /\ n \in Nat
  BY <1>1 DEF TypeOK
<1>4. \A i \in 1 .. n : blocks[i - 1] \in Block
  <2>1. TAKE i \in 1 .. n
  <2>2. i - 1 \in 0 .. n - 1
    BY <1>3
  <2>3. i - 1 \in DOMAIN blocks
    BY <1>1, <2>2
  <2>4. QED
    BY <2>3 DEF TypeOK
<1>5. Stored \in Seq(Block) /\ Len(Stored) = n
  BY <1>2, <1>3, <1>4
<1>6. \A i \in 0 .. n - 1 : blocks[i] = Stored[i + 1]
  BY <1>2, <1>3
<1>7. QED
  BY <1>1, <1>5, <1>6

(* A chain that is stored whole, with nothing behind it in reach, is read.  *)
LEMMA StoredIs ==
  ASSUME TypeOK, NEW c \in Seq(Block),
         \A i \in 0 .. Len(c) - 1 : i \in DOMAIN blocks /\ blocks[i] = c[i + 1],
         lastIndex >= Len(c) - 1,
         lastIndex = Len(c) - 1 \/ Len(c) \notin DOMAIN blocks
  PROVE  Stored = c
<1>1. /\ Stored \in Seq(Block) /\ Len(Stored) \in 0 .. lastIndex + 1
      /\ Len(Stored) = lastIndex + 1 \/ Len(Stored) \notin DOMAIN blocks
      /\ \A i \in 0 .. Len(Stored) - 1 : i \in DOMAIN blocks /\ blocks[i] = Stored[i + 1]
  BY StoredIsRead
<1>2. lastIndex \in Int /\ Len(c) \in Nat /\ Len(Stored) \in Nat
  BY <1>1 DEF TypeOK
<1>3. ~(Len(Stored) < Len(c))
  BY <1>1, <1>2
<1>4. ~(Len(Stored) > Len(c))
  <2>1. SUFFICES ASSUME Len(Stored) > Len(c) PROVE FALSE
    OBVIOUS
  <2>2. Len(c) \in 0 .. Len(Stored) - 1 /\ lastIndex # Len(c) - 1
    BY <1>1, <1>2, <2>1
  <2>3. QED
    BY <1>1, <2>2
<1>5. Len(Stored) = Len(c)
  BY <1>2, <1>3, <1>4
<1>6. \A i \in 1 .. Len(c) : Stored[i] = c[i]
  <2>1. TAKE i \in 1 .. Len(c)
  <2>2. i - 1 \in 0 .. Len(c) - 1 /\ (i - 1) + 1 = i
    BY <1>2
  <2>3. QED
    BY <1>1, <1>5, <2>2
<1>7. QED
  BY <1>1, <1>5, <1>6, SeqEqual

----------------------------------------------------------------------------
(* What each step of the ledger itself leaves known, whoever runs beside it. *)

(* A sequence without its last element.                                     *)
LEMMA FrontFacts ==
  ASSUME NEW S, NEW s \in Seq(S), s # <<>>
  PROVE  /\ Front(s) \in Seq(S) /\ Len(Front(s)) = Len(s) - 1
         /\ \A i \in 1 .. Len(s) - 1 : Front(s)[i] = s[i]
         /\ s[Len(s)] \in S /\ Len(s) \in Nat \ {0}
         /\ s = Append(Front(s), s[Len(s)])
BY SequenceSplit DEF Front

(* Loading takes over what is stored, which is of the same policy.          *)
LEMMA ApiInitialize ==
  ASSUME LedgerKnown, InitializeLedger
  PROVE  LedgerKnown'
<1>1. /\ TypeOK /\ pc = "off" /\ mempool = <<>>
      /\ UNCHANGED <<blocks, lastIndex, params, newBlock, job>>
  BY DEF LedgerKnown, InitializeLedger, MemoryKnown, disk
<1>2. /\ Stored \in Seq(Block) /\ Stored' = Stored
      /\ \A i \in 0 .. Len(Stored) - 1 : i \in DOMAIN blocks /\ blocks[i] = Stored[i + 1]
  BY <1>1, StoredIsRead, StoredUnchanged DEF disk
<1>3. Stored # <<>> => 0 \in DOMAIN blocks /\ blocks[0] = Stored[1]
  BY <1>2
<1>4. Stored # <<>> => SameGenesisPolicy(params, Stored[1])
  BY <1>3 DEF LedgerKnown, OnePolicy
<1>5. \/ pc' = "spawn" /\ chain' = <<>> /\ Stored = <<>>
      \/ pc' = "rebuild" /\ chain' = Stored /\ Stored # <<>>
  BY <1>2, <1>4 DEF InitializeLedger
<1>6. TypeOK'
  <2>1. targetDifficulty' \in Nat /\ minerAddress' \in Account
    BY LedgerAssumption DEF InitializeLedger
  <2>2. chain' \in Seq(Block) /\ pc' \in Locations
    BY <1>2, <1>5 DEF Locations
  <2>3. QED
    BY <1>1, <2>1, <2>2 DEF TypeOK, InitializeLedger
<1>7. MemoryKnown'
  <2>1. \A i \in 2 .. Len(Stored) : Stored[i].index > 0
    <3>1. TAKE i \in 2 .. Len(Stored)
    <3>2. i - 1 \in 0 .. Len(Stored) - 1 /\ (i - 1) + 1 = i /\ i - 1 > 0
      BY <1>2
    <3>3. blocks[i - 1] = Stored[i] /\ i - 1 \in DOMAIN blocks
      BY <1>2, <3>2
    <3>4. QED
      BY <3>2, <3>3 DEF LedgerKnown, MemoryKnown
  <2>2. \A i \in 2 .. Len(chain') : chain'[i].index > 0
    BY <1>2, <1>5, <2>1
  <2>3. QED
    BY <1>1, <1>2, <1>5, <2>2 DEF LedgerKnown, MemoryKnown, AfterSpawn, Loaded
<1>8. BlockKnown'
  BY <1>1, <1>5 DEF BlockKnown
<1>9. OnePolicy'
  BY <1>1, <1>4, <1>5 DEF LedgerKnown, OnePolicy
<1>10. QED
  BY <1>6, <1>7, <1>8, <1>9 DEF LedgerKnown

(* SpawnGenesis starts the chain; nothing is stored.                        *)
LEMMA ApiSpawn ==
  ASSUME LedgerKnown, SpawnGenesis
  PROVE  LedgerKnown'
<1>1. /\ TypeOK /\ pc = "spawn" /\ chain = <<>>
      /\ pc' = "save"
      /\ UNCHANGED <<blocks, lastIndex, params, mempool, job, state, minerAddress,
                     targetDifficulty, cursor, found>>
  BY DEF LedgerKnown, SpawnGenesis, MemoryKnown, disk, settings
<1>2. PICK hash \in GenesisHashes :
        ValidatePoW(hash, targetDifficulty) /\ newBlock' = GenesisBlock(hash)
  BY DEF SpawnGenesis
<1>3. newBlock' \in Block /\ B!IsGenesis(params, newBlock') /\ newBlock'.index = 0
  BY <1>1, <1>2, GenesisBlockFacts
<1>4. chain' = <<newBlock'>>
  BY <1>1 DEF SpawnGenesis
<1>5. chain' \in Seq(Block) /\ Len(chain') = 1 /\ chain'[1] = newBlock' /\ chain' # <<>>
  BY <1>3, <1>4
<1>6. TypeOK'
  BY <1>1, <1>3, <1>5 DEF TypeOK, Locations
<1>7. MemoryKnown'
  BY <1>1, <1>3, <1>5 DEF LedgerKnown, MemoryKnown
<1>8. BlockKnown'
  BY <1>1, <1>3, <1>5 DEF BlockKnown
<1>9. OnePolicy'
  BY <1>1, <1>3, <1>5, SameRules DEF LedgerKnown, OnePolicy, B!IsGenesis
<1>10. QED
  BY <1>6, <1>7, <1>8, <1>9 DEF LedgerKnown

(* RebuildState and the check behind it leave all but balances alone.       *)
LEMMA ApiRebuild ==
  ASSUME LedgerKnown, RebuildTransfer \/ RebuildReward \/ VerifyConsensusIntegrity
  PROVE  LedgerKnown'
<1>1. /\ TypeOK /\ pc \in {"rebuild", "verify"}
      /\ pc' \in {"rebuild", "verify", "ready", "panic"}
      /\ UNCHANGED <<blocks, lastIndex, params, chain, mempool, minerAddress,
                     targetDifficulty, job, newBlock, found>>
  BY DEF LedgerKnown, RebuildTransfer, RebuildReward, VerifyConsensusIntegrity, disk, settings
<1>2. cursor' \in (Nat \ {0}) \X (Nat \ {0}) /\ state' \in [Account -> AccountState]
  <2>1. CASE RebuildTransfer
    <3>1. chain[cursor[1]] \in Block
      BY <1>1, <2>1 DEF TypeOK, RebuildTransfer
    <3>2. chain[cursor[1]].transfers \in Seq(Transfers)
      BY <3>1, BlockFields
    <3>3. chain[cursor[1]].transfers[cursor[2]] \in Transfers
      BY <1>1, <2>1, <3>2 DEF TypeOK, RebuildTransfer
    <3>4. QED
      BY <1>1, <2>1, <3>3, ReplayTransferType DEF TypeOK, RebuildTransfer
  <2>2. CASE RebuildReward
    <3>1. chain[cursor[1]] \in Block
      BY <1>1, <2>2 DEF TypeOK, RebuildReward
    <3>2. QED
      BY <1>1, <2>2, <3>1, ReplayRewardType DEF TypeOK, RebuildReward
  <2>3. CASE VerifyConsensusIntegrity
    BY <1>1, <2>3 DEF TypeOK, VerifyConsensusIntegrity
  <2>4. QED
    BY <2>1, <2>2, <2>3
<1>3. TypeOK'
  BY <1>1, <1>2 DEF TypeOK, Locations
<1>4. Stored' = Stored
  BY <1>1, StoredUnchanged DEF disk
<1>5. MemoryKnown' /\ BlockKnown' /\ OnePolicy'
  BY <1>1, <1>4 DEF LedgerKnown, MemoryKnown, AfterSpawn, Loaded, BlockKnown, OnePolicy
<1>6. QED
  BY <1>3, <1>5 DEF LedgerKnown

(* MineBlock takes the tip as parent.                                       *)
LEMMA ApiBeginMine ==
  ASSUME LedgerKnown, BeginMine
  PROVE  LedgerKnown'
<1>1. /\ TypeOK /\ pc = "ready" /\ pc' = "select"
      /\ UNCHANGED <<blocks, lastIndex, params, chain, mempool, minerAddress, state,
                     targetDifficulty, newBlock, found, cursor>>
  BY DEF LedgerKnown, BeginMine, disk, settings
<1>2. chain \in Seq(Block) /\ chain # <<>> /\ chain[Len(chain)] \in Block
  BY <1>1 DEF LedgerKnown, MemoryKnown, AfterSpawn, Loaded, TypeOK
<1>3. job' \in Job /\ job'.parent = chain[Len(chain)]
  BY <1>2, NoJobType, LedgerAssumption DEF BeginMine, Job, NoJob
<1>4. TypeOK'
  BY <1>1, <1>3 DEF TypeOK, Locations
<1>5. Stored' = Stored
  BY <1>1, StoredUnchanged DEF disk
<1>6. MemoryKnown' /\ BlockKnown' /\ OnePolicy'
  BY <1>1, <1>2, <1>3, <1>5 DEF LedgerKnown, MemoryKnown, AfterSpawn, Loaded, BlockKnown,
     OnePolicy
<1>7. QED
  BY <1>4, <1>6 DEF LedgerKnown

(* The selection of transfers leaves the parent alone.                      *)
LEMMA ApiSelect ==
  ASSUME LedgerKnown, PackTransfer \/ SkipTransfer \/ EndSelect
  PROVE  LedgerKnown'
<1>1. /\ TypeOK /\ pc = "select" /\ pc' \in {"select", "assemble"}
      /\ job \in Job
      /\ UNCHANGED <<blocks, lastIndex, params, chain, minerAddress, targetDifficulty,
                     newBlock, found, cursor>>
  BY DEF LedgerKnown, TypeOK, PackTransfer, SkipTransfer, EndSelect, disk, settings
<1>2. /\ mempool' \in Seq(Transfers) /\ state' \in [Account -> AccountState]
      /\ job' \in Job /\ job'.parent = job.parent
  <2>1. CASE PackTransfer
    <3> DEFINE tx == mempool[job.next]
    <3>1. tx \in Transfers /\ tx.fee \in Amount /\ tx.size \in Nat
      BY <1>1, <2>1, ConsideredIsTransfer, TransferFields DEF PackTransfer
    <3>2. state' \in [Account -> AccountState] /\ mempool' \in Seq(Transfers)
      BY <1>1, <2>1, <3>1, ExecuteTransferType DEF TypeOK, PackTransfer
    <3>3. job' = [job EXCEPT !.next = @ + 1, !.packed = Append(@, tx),
                             !.fees = AddWord(@, tx.fee), !.bytes = @ + tx.size]
      BY <2>1 DEF PackTransfer
    <3>4. /\ job.next + 1 \in Nat \ {0} /\ Append(job.packed, tx) \in Seq(Transfers)
          /\ AddWord(job.fees, tx.fee) \in Amount /\ job.bytes + tx.size \in Nat
      BY <1>1, <3>1, AddWordType DEF Job
    <3> HIDE DEF tx
    <3>5. QED
      BY <1>1, <3>2, <3>3, <3>4 DEF Job
  <2>2. CASE SkipTransfer
    <3>1. job' = [job EXCEPT !.next = @ + 1] /\ UNCHANGED <<mempool, state>>
      BY <2>2 DEF SkipTransfer
    <3>2. job' \in Job /\ job'.parent = job.parent
      BY <1>1, <3>1 DEF Job
    <3>3. QED
      BY <1>1, <3>1, <3>2 DEF TypeOK
  <2>3. CASE EndSelect
    <3>1. /\ mempool' = SubSeq(mempool, Len(job.packed) + 1, Len(mempool))
          /\ job' = job /\ state' = state
      BY <2>3 DEF EndSelect, RemainingMempool
    <3>2. mempool \in Seq(Transfers) /\ Len(mempool) \in Nat /\ state \in [Account -> AccountState]
      BY <1>1 DEF TypeOK
    <3>3. Len(job.packed) + 1 \in Nat \ {0}
      BY <1>1 DEF Job
    <3>4. \A i \in Len(job.packed) + 1 .. Len(mempool) : mempool[i] \in Transfers
      BY <3>2, <3>3
    <3>5. mempool' \in Seq(Transfers)
      BY <3>1, <3>2, <3>3, <3>4, SubSeqProperties
    <3>6. QED
      BY <1>1, <3>1, <3>2, <3>5
  <2>4. QED
    BY <2>1, <2>2, <2>3
<1>3. TypeOK'
  BY <1>1, <1>2 DEF TypeOK, Locations
<1>4. Stored' = Stored
  BY <1>1, StoredUnchanged DEF disk
<1>5. MemoryKnown' /\ BlockKnown' /\ OnePolicy'
  BY <1>1, <1>2, <1>4 DEF LedgerKnown, MemoryKnown, AfterSpawn, Loaded, BlockKnown,
     OnePolicy
<1>6. QED
  BY <1>3, <1>5 DEF LedgerKnown

(* The candidate has the index after the tip's, and carries the policy and  *)
(* the difficulty that follow from the tip.                                 *)
LEMMA ApiAssembled ==
  ASSUME LedgerKnown, AssembleBlock
  PROVE  /\ LedgerKnown'
         /\ job'.parent = job.parent /\ job'.packed = job.packed /\ job'.fees = job.fees
         /\ job'.supply = GetTotalCirculatingSupply(chain)
         /\ newBlock'.index = job.parent.index + 1
         /\ newBlock'.transfers = job.packed /\ newBlock'.miner = minerAddress
         /\ newBlock'.maxSupply = params.maxSupply
         /\ newBlock'.halvingInterval = params.halvingInterval
         /\ newBlock'.difficulty = CalculateNextDifficulty(job.parent.timestamp,
                                       newBlock'.timestamp, job.parent.difficulty)
<1> DEFINE supply == GetTotalCirculatingSupply(chain)
           index == job.parent.index + 1
<1>1. /\ TypeOK /\ pc = "assemble" /\ pc' = "mining"
      /\ UNCHANGED <<blocks, lastIndex, params, chain, mempool, state, minerAddress, found, cursor>>
  BY DEF LedgerKnown, AssembleBlock, disk
<1>2. chain \in Seq(Block) /\ job.parent \in Block
  BY <1>1 DEF LedgerKnown, BlockKnown, TypeOK
<1>3. supply \in Nat /\ index \in Nat /\ index > 0
  BY <1>2, SupplyType, BlockFields
<1>4. PICK now \in ClockReadings :
        LET difficulty == CalculateNextDifficulty(job.parent.timestamp, BlockTime(now),
                                                  job.parent.difficulty)
        IN  /\ job' = [job EXCEPT !.supply = supply]
            /\ targetDifficulty' = difficulty
            /\ newBlock' = [index |-> index, timestamp |-> BlockTime(now),
                            prevHash |-> job.parent.hash, hash |-> ZeroHash,
                            transfers |-> job.packed, miner |-> minerAddress,
                            difficulty |-> difficulty,
                            reward |-> CappedReward(params, index, supply),
                            maxSupply |-> params.maxSupply,
                            halvingInterval |-> params.halvingInterval]
  BY DEF AssembleBlock
<1> DEFINE time == BlockTime(now)
           difficulty == CalculateNextDifficulty(job.parent.timestamp, time, job.parent.difficulty)
<1>5. time \in Nat
  BY <1>2, BlockFields, LedgerAssumption DEF BlockTime
<1>6. difficulty \in Nat
  BY <1>2, <1>5, BlockFields, NextDifficultyType
<1>7. params \in ConsensusParameters /\ params.maxSupply \in Nat /\ params.halvingInterval \in Nat
  BY <1>1, PoliciesAssumption, WordAssumption DEF TypeOK, ConsensusParameters, Amount
<1>8. CappedReward(params, index, supply) \in Amount
  <2> HIDE DEF index, supply
  <2> QED  BY <1>3, <1>7, CappedRewardFacts
<1>9. newBlock' \in Block
  <2>1. /\ job.parent.hash \in Hash /\ ZeroHash \in Hash
        /\ job.packed \in Seq(Transfers) /\ minerAddress \in Account
    BY <1>1, <1>2, BlockFields DEF TypeOK, Job, ZeroHash, Hash
  <2> HIDE DEF index, supply, time
  <2>2. QED
    BY <1>3, <1>4, <1>5, <1>6, <1>7, <1>8, <2>1 DEF Block, time
<1>10. /\ job' = [job EXCEPT !.supply = supply] /\ targetDifficulty' = difficulty
       /\ newBlock'.index = index
       /\ newBlock'.timestamp = time /\ newBlock'.difficulty = difficulty
       /\ newBlock'.maxSupply = params.maxSupply
       /\ newBlock'.halvingInterval = params.halvingInterval
       /\ newBlock'.transfers = job.packed /\ newBlock'.miner = minerAddress
  BY <1>4
<1> HIDE DEF supply, index, time, difficulty
<1>11. /\ job' \in Job /\ job'.parent = job.parent /\ job'.supply = supply
       /\ job'.packed = job.packed /\ job'.fees = job.fees
  BY <1>1, <1>3, <1>10 DEF TypeOK, Job
<1>12. TypeOK'
  BY <1>1, <1>6, <1>9, <1>10, <1>11 DEF TypeOK, Locations
<1>13. Stored' = Stored
  BY <1>1, StoredUnchanged DEF disk
<1>14. MemoryKnown' /\ BlockKnown' /\ OnePolicy'
  BY <1>1, <1>2, <1>3, <1>9, <1>10, <1>11, <1>13 DEF LedgerKnown, MemoryKnown, AfterSpawn, Loaded,
     BlockKnown, OnePolicy
<1>15. QED
  BY <1>10, <1>11, <1>12, <1>14 DEF LedgerKnown, supply, difficulty, index

(* The search fills in the hash.                                            *)
LEMMA ApiFound ==
  ASSUME LedgerKnown, FindBlock
  PROVE  /\ LedgerKnown'
         /\ newBlock'.timestamp = newBlock.timestamp /\ newBlock'.difficulty = newBlock.difficulty
         /\ newBlock'.maxSupply = newBlock.maxSupply
         /\ newBlock'.halvingInterval = newBlock.halvingInterval
         /\ newBlock'.transfers = newBlock.transfers /\ newBlock'.miner = newBlock.miner
         /\ newBlock'.index = newBlock.index
<1>1. /\ TypeOK /\ pc = "mining" /\ pc' \in {"commit", "panic"}
      /\ newBlock \in Block /\ newBlock.index > 0
      /\ UNCHANGED <<blocks, lastIndex, params, chain, mempool, state, minerAddress,
                     targetDifficulty, job, cursor>>
  BY DEF LedgerKnown, FindBlock, BlockKnown, disk, settings
<1>2. newBlock' = [newBlock EXCEPT !.hash = FoundHash] /\ FoundHash \in Hash /\ found' \in Nat
  BY <1>1 DEF TypeOK, FindBlock, FoundHash, Hash
<1>3. /\ newBlock' \in Block
      /\ newBlock'.timestamp = newBlock.timestamp /\ newBlock'.difficulty = newBlock.difficulty
      /\ newBlock'.maxSupply = newBlock.maxSupply
      /\ newBlock'.halvingInterval = newBlock.halvingInterval
      /\ newBlock'.transfers = newBlock.transfers /\ newBlock'.miner = newBlock.miner
      /\ newBlock'.index = newBlock.index
  <2> HIDE DEF FoundHash
  <2> QED  BY <1>1, <1>2 DEF Block
<1>4. TypeOK'
  BY <1>1, <1>2, <1>3 DEF TypeOK, Locations
<1>5. Stored' = Stored
  BY <1>1, StoredUnchanged DEF disk
<1>6. MemoryKnown' /\ BlockKnown' /\ OnePolicy'
  BY <1>1, <1>3, <1>5 DEF LedgerKnown, MemoryKnown, AfterSpawn, Loaded, BlockKnown,
     OnePolicy
<1>7. QED
  BY <1>3, <1>4, <1>6 DEF LedgerKnown

(* A block appended to the chain.                                           *)
LEMMA ChainGrows ==
  ASSUME LedgerKnown, chain # <<>>, NEW b \in Block, b.index > 0, chain' = Append(chain, b)
  PROVE  /\ chain' \in Seq(Block) /\ chain' # <<>> /\ Len(chain') = Len(chain) + 1
         /\ Len(chain) \in Nat \ {0}
         /\ chain'[Len(chain')] = b /\ chain'[1] = chain[1] /\ Front(chain') = chain
         /\ \A i \in 1 .. Len(chain) : chain'[i] = chain[i]
         /\ \A i \in 2 .. Len(chain') : chain'[i].index > 0
<1>1. chain \in Seq(Block) /\ \A i \in 2 .. Len(chain) : chain[i].index > 0
  BY DEF LedgerKnown, TypeOK, MemoryKnown
<1>2. Len(chain) \in Nat \ {0}
  BY <1>1
<1>3. /\ chain' \in Seq(Block) /\ Len(chain') = Len(chain) + 1 /\ chain'[Len(chain) + 1] = b
      /\ \A i \in 1 .. Len(chain) : chain'[i] = chain[i]
  BY <1>1
<1>4. Front(chain') = chain
  BY <1>1, PrefixOfAppend
<1>5. \A i \in 2 .. Len(chain') : chain'[i].index > 0
  BY <1>1, <1>2, <1>3
<1>6. QED
  BY <1>2, <1>3, <1>4, <1>5

(* MineBlock's append.                                                      *)
LEMMA ApiAppend ==
  ASSUME LedgerKnown, AppendBlock
  PROVE  /\ LedgerKnown' /\ Front(chain') = chain /\ newBlock.index > 0 /\ newBlock \in Block
         /\ chain' = Append(chain, newBlock) /\ chain # <<>>
<1>1. /\ TypeOK /\ pc = "commit" /\ pc' = "save"
      /\ newBlock \in Block /\ newBlock.index > 0 /\ chain # <<>>
      /\ chain' = Append(chain, newBlock)
      /\ UNCHANGED <<blocks, lastIndex, params, mempool, state, minerAddress,
                     targetDifficulty, job, newBlock, found, cursor>>
  BY DEF LedgerKnown, AppendBlock, BlockKnown, MemoryKnown, AfterSpawn, Loaded, disk, settings
<1>2. /\ chain' \in Seq(Block) /\ chain' # <<>>
      /\ chain'[1] = chain[1] /\ Front(chain') = chain
      /\ \A i \in 2 .. Len(chain') : chain'[i].index > 0
  BY <1>1, ChainGrows
<1>3. TypeOK'
  BY <1>1, <1>2 DEF TypeOK, Locations
<1>4. Stored' = Stored
  BY <1>1, StoredUnchanged DEF disk
<1>5. MemoryKnown' /\ BlockKnown' /\ OnePolicy'
  BY <1>1, <1>2, <1>4 DEF LedgerKnown, MemoryKnown, AfterSpawn, Loaded, BlockKnown, OnePolicy
<1>6. QED
  BY <1>1, <1>2, <1>3, <1>5 DEF LedgerKnown

(* The first Put of SaveBlock, of either goroutine, writes a block under    *)
(* its index.                                                               *)
LEMMA PutFacts ==
  ASSUME LedgerKnown, NEW b \in Block, b.index = 0 => B!IsGenesis(params, b),
         blocks' = WithBlock(blocks, b), UNCHANGED <<params, chain>>
  PROVE  /\ DOMAIN blocks' = DOMAIN blocks \cup {b.index}
         /\ \A i \in DOMAIN blocks' : blocks'[i] = IF i = b.index THEN b ELSE blocks[i]
         /\ DOMAIN blocks' \subseteq Nat
         /\ blocks' = [i \in DOMAIN blocks' |-> blocks'[i]]
         /\ \A i \in DOMAIN blocks' : blocks'[i] \in Block /\ blocks'[i].index = i
         /\ OnePolicy'
<1>1. b.index \in Nat
  BY BlockFields
<1>2. /\ DOMAIN blocks' = DOMAIN blocks \cup {b.index}
      /\ \A i \in DOMAIN blocks' : blocks'[i] = IF i = b.index THEN b ELSE blocks[i]
      /\ blocks' = [i \in DOMAIN blocks' |-> blocks'[i]]
  BY DEF WithBlock
<1>3. \A i \in DOMAIN blocks' : blocks'[i] \in Block /\ blocks'[i].index = i
  BY <1>2 DEF LedgerKnown, TypeOK, MemoryKnown
<1>4. DOMAIN blocks' \subseteq Nat
  BY <1>1, <1>2 DEF LedgerKnown, TypeOK
<1>5. b.index = 0 => SameGenesisPolicy(params, b)
  BY SameRules DEF B!IsGenesis
<1>6. OnePolicy'
  BY <1>2, <1>5 DEF LedgerKnown, OnePolicy
<1>7. QED
  BY <1>2, <1>3, <1>4, <1>6

(* The first Put of MineBlock's or the genesis block keeps what is known.  *)
LEMMA ApiPutBlock ==
  ASSUME LedgerKnown, PutBlock
  PROVE  LedgerKnown'
<1>1. /\ TypeOK /\ pc = "save" /\ pc' = "index"
      /\ blocks' = WithBlock(blocks, newBlock)
      /\ UNCHANGED <<lastIndex, params, chain, mempool, state, minerAddress,
                     targetDifficulty, job, newBlock, found, cursor>>
  BY DEF LedgerKnown, PutBlock, settings
<1>2. newBlock \in Block /\ (newBlock.index = 0 => B!IsGenesis(params, newBlock))
  BY <1>1 DEF LedgerKnown, BlockKnown
<1>3. /\ DOMAIN blocks' \subseteq Nat
      /\ blocks' = [i \in DOMAIN blocks' |-> blocks'[i]]
      /\ \A i \in DOMAIN blocks' : blocks'[i] \in Block /\ blocks'[i].index = i
      /\ OnePolicy'
  BY <1>1, <1>2, PutFacts
<1>4. TypeOK'
  BY <1>1, <1>3 DEF TypeOK, Locations
<1>5. MemoryKnown' /\ BlockKnown'
  BY <1>1, <1>3, SameRules DEF LedgerKnown, MemoryKnown, AfterSpawn, Loaded, BlockKnown
<1>6. QED
  BY <1>3, <1>4, <1>5 DEF LedgerKnown

(* The second Put, or a Put that fails, is the end of SaveBlock.            *)
LEMMA ApiSaved ==
  ASSUME LedgerKnown, PutLastIndex \/ PutFails
  PROVE  LedgerKnown'
<1>1. /\ TypeOK /\ pc \in {"save", "index"}
      /\ pc' = IF newBlock.index = 0 THEN "ready" ELSE "credit"
      /\ lastIndex' \in {lastIndex, newBlock.index}
      /\ UNCHANGED <<blocks, params, chain, mempool, state, minerAddress,
                     targetDifficulty, job, newBlock, found, cursor>>
  BY DEF LedgerKnown, PutLastIndex, PutFails, settings, disk
<1>2. newBlock \in Block /\ newBlock.index \in Nat /\ chain # <<>>
  BY <1>1, BlockFields DEF LedgerKnown, BlockKnown, MemoryKnown, AfterSpawn
<1>3. TypeOK'
  BY <1>1, <1>2 DEF TypeOK, Locations
<1>4. MemoryKnown' /\ BlockKnown' /\ OnePolicy'
  BY <1>1, <1>2 DEF LedgerKnown, MemoryKnown, AfterSpawn, Loaded, BlockKnown, OnePolicy
<1>5. QED
  BY <1>3, <1>4 DEF LedgerKnown

(* The miner's credit ends the call.                                        *)
LEMMA ApiCredit ==
  ASSUME LedgerKnown, CreditMiner
  PROVE  LedgerKnown'
<1>1. /\ TypeOK /\ pc = "credit" /\ pc' = "ready" /\ newBlock' = NoBlock /\ job' = NoJob
      /\ UNCHANGED <<blocks, lastIndex, params, chain, mempool, minerAddress,
                     targetDifficulty, found, cursor>>
  BY DEF LedgerKnown, CreditMiner, settings, disk
<1>2. newBlock \in Block
  BY <1>1 DEF LedgerKnown, BlockKnown
<1>3. state' \in [Account -> AccountState]
  <2>1. newBlock.reward \in Amount /\ job.fees \in Amount /\ minerAddress \in Account
    BY <1>1, <1>2, BlockFields DEF TypeOK, Job
  <2>2. AddWord(newBlock.reward, job.fees) \in Amount
    BY <2>1, AddWordType
  <2>3. QED
    BY <1>1, <2>1, <2>2, CreditType DEF TypeOK, CreditMiner
<1>4. TypeOK'
  BY <1>1, <1>3, NoJobType DEF TypeOK, Locations
<1>5. MemoryKnown' /\ BlockKnown' /\ OnePolicy'
  BY <1>1 DEF LedgerKnown, MemoryKnown, AfterSpawn, Loaded, BlockKnown, OnePolicy
<1>6. QED
  BY <1>4, <1>5 DEF LedgerKnown

(* A death loses the memory.                                                *)
LEMMA ApiDie ==
  ASSUME ApiBase, Die
  PROVE  ApiBase'
<1>1. /\ TypeOK /\ pc' = "off" /\ chain' = <<>> /\ mempool' = <<>>
      /\ state' = ZeroState /\ job' = NoJob /\ newBlock' = NoBlock /\ cursor' = <<1, 1>>
      /\ call' = "none" /\ hand' = NoBlock /\ rest' = <<>> /\ pool' = <<>> /\ todo' = <<>>
      /\ UNCHANGED <<blocks, lastIndex, params, minerAddress, targetDifficulty, found>>
  BY DEF ApiBase, LedgerKnown, Die, Stop, MemoryLost, CallerLost, settings, disk
<1>2. TypeOK'
  BY <1>1, NoJobType, ZeroStateType DEF TypeOK, Locations
<1>3. MemoryKnown' /\ BlockKnown' /\ OnePolicy' /\ CallKnown'
  BY <1>1 DEF ApiBase, LedgerKnown, MemoryKnown, AfterSpawn, Loaded, BlockKnown,
     OnePolicy, CallKnown, Calls
<1>4. QED
  BY <1>2, <1>3 DEF ApiBase, LedgerKnown

(* The Go program dies of an index out of range.                            *)
LEMMA ApiPanics ==
  ASSUME LedgerKnown, CutPanics
  PROVE  LedgerKnown'
<1>1. /\ TypeOK /\ pc = "select" /\ pc' = "panic"
      /\ UNCHANGED <<blocks, lastIndex, params, chain, mempool, state, minerAddress, job,
                     targetDifficulty, newBlock, found, cursor>>
  BY DEF LedgerKnown, CutPanics, settings, disk
<1>2. Stored' = Stored
  BY <1>1, StoredUnchanged DEF disk
<1>3. QED
  BY <1>1, <1>2 DEF LedgerKnown, TypeOK, Locations, MemoryKnown, AfterSpawn, Loaded, BlockKnown,
     OnePolicy

----------------------------------------------------------------------------
(* AddToMempool, RollbackBlock and AppendBlockDirectly *)

(* Sorting moves what is there to other places, one for one.                *)
LEMMA SortingFacts ==
  ASSUME NEW ts \in Seq(Transfers), NEW s \in Sortings(ts)
  PROVE  /\ s \in Seq(Transfers) /\ Len(s) = Len(ts) /\ ByFee(s)
         /\ \E p \in [1 .. Len(ts) -> 1 .. Len(ts)] :
              /\ \A i \in 1 .. Len(ts) : s[i] = ts[p[i]]
              /\ \A i, k \in 1 .. Len(ts) : p[i] = p[k] => i = k
              /\ \A k \in 1 .. Len(ts) : \E i \in 1 .. Len(ts) : p[i] = k
<1>1. DOMAIN ts = 1 .. Len(ts) /\ Len(ts) \in Nat
  OBVIOUS
<1>2. ByFee(s) /\ \E p \in Bijection(DOMAIN ts, DOMAIN ts) : s = [i \in DOMAIN ts |-> ts[p[i]]]
  BY DEF Sortings
<1>3. PICK p \in Bijection(1 .. Len(ts), 1 .. Len(ts)) : s = [i \in 1 .. Len(ts) |-> ts[p[i]]]
  BY <1>1, <1>2
<1>4. /\ p \in [1 .. Len(ts) -> 1 .. Len(ts)]
      /\ \A i, k \in 1 .. Len(ts) : p[i] = p[k] => i = k
      /\ \A k \in 1 .. Len(ts) : \E i \in 1 .. Len(ts) : p[i] = k
  BY <1>3 DEF Bijection, Injection, Surjection, IsInjective
<1>5. s \in Seq(Transfers) /\ Len(s) = Len(ts) /\ \A i \in 1 .. Len(ts) : s[i] = ts[p[i]]
  <2>1. ASSUME NEW i \in 1 .. Len(ts) PROVE ts[p[i]] \in Transfers
    <3>1. p[i] \in 1 .. Len(ts)
      BY <1>4
    <3>2. QED
      BY <3>1
  <2>2. QED
    BY <1>1, <1>3, <2>1
<1>6. QED
  BY <1>2, <1>4, <1>5

(* While the ledger is in use, a goroutine that is not MineBlock may write   *)
(* the database, the chain, the balances and the mempool.                    *)
LEMMA BesideMineBlock ==
  ASSUME LedgerKnown, InUse,
         UNCHANGED <<params, pc, minerAddress, targetDifficulty, job, newBlock, cursor>>,
         DOMAIN blocks' \subseteq DOMAIN blocks, blocks' = [i \in DOMAIN blocks' |-> blocks'[i]],
         \A i \in DOMAIN blocks' : blocks'[i] = blocks[i],
         lastIndex' \in Nat \cup {-1},
         chain' \in Seq(Block), chain' # <<>>, chain'[1] = chain[1],
         \A i \in 2 .. Len(chain') : chain'[i].index > 0,
         state' \in [Account -> AccountState], mempool' \in Seq(Transfers), found' \in Nat
  PROVE  LedgerKnown'
<1>1. pc \in AfterSpawn /\ pc \notin {"off", "spawn"} /\ pc # "panic"
  BY DEF InUse, AfterSpawn, Loaded
<1>2. /\ DOMAIN blocks' \subseteq Nat
      /\ \A i \in DOMAIN blocks' : blocks'[i] \in Block /\ blocks'[i].index = i
  BY DEF LedgerKnown, TypeOK, MemoryKnown
<1>3. TypeOK'
  BY <1>2 DEF LedgerKnown, TypeOK
<1>4. MemoryKnown' /\ BlockKnown'
  BY <1>1, <1>2 DEF LedgerKnown, MemoryKnown, BlockKnown
<1>5. chain # <<>>
  BY <1>1 DEF LedgerKnown, MemoryKnown
<1>6. OnePolicy'
  BY <1>5 DEF LedgerKnown, OnePolicy
<1>7. QED
  BY <1>3, <1>4, <1>6 DEF LedgerKnown

(* What is there of the ledger while it is in use.                           *)
LEMMA InUseFacts ==
  ASSUME LedgerKnown, InUse
  PROVE  /\ TypeOK /\ pc \in AfterSpawn /\ pc \notin {"off", "spawn", "panic"}
         /\ chain \in Seq(Block) /\ chain # <<>> /\ Len(chain) \in Nat \ {0}
         /\ chain[Len(chain)] \in Block
         /\ \A i \in 2 .. Len(chain) : chain[i].index > 0
         /\ state \in [Account -> AccountState] /\ mempool \in Seq(Transfers) /\ found \in Nat
         /\ blocks = [i \in DOMAIN blocks |-> blocks[i]] /\ lastIndex \in Nat \cup {-1}
<1>1. pc \in AfterSpawn /\ pc \notin {"off", "spawn", "panic"}
  BY DEF InUse, AfterSpawn, Loaded
<1>2. chain \in Seq(Block) /\ chain # <<>>
  BY <1>1 DEF LedgerKnown, TypeOK, MemoryKnown
<1>3. QED
  BY <1>1, <1>2 DEF LedgerKnown, TypeOK, MemoryKnown

(* The goroutine that calls neither stays where it is.                       *)
LEMMA CallKept ==
  ASSUME CallKnown, UNCHANGED caller, pc' # "off",
         Len(chain) \in Nat, Len(chain') \in Nat, Len(chain') >= Len(chain) \/ call = "none"
  PROVE  CallKnown'
BY DEF CallKnown, caller

(* An accepted transfer goes to the mempool, and its nonce to the account.   *)
LEMMA ApiAdd ==
  ASSUME ApiBase, NEW tx \in Transfers, AddToMempool(tx)
  PROVE  /\ ApiBase'
         /\ \A a \in Account : state'[a].balance = state[a].balance
<1>1. /\ InUse /\ UNCHANGED <<blocks, lastIndex, params, pc, chain, minerAddress,
                              targetDifficulty, job, newBlock, found, cursor, caller>>
      /\ mempool' \in Sortings(Append(mempool, tx))
      /\ state' = [state EXCEPT ![tx.sender].nonce = tx.id]
  BY DEF AddToMempool, Enqueue, settings, disk
<1>2. /\ LedgerKnown /\ pc \notin {"off", "spawn", "panic"}
      /\ chain \in Seq(Block) /\ chain # <<>> /\ Len(chain) \in Nat
      /\ \A i \in 2 .. Len(chain) : chain[i].index > 0
      /\ state \in [Account -> AccountState] /\ mempool \in Seq(Transfers) /\ found \in Nat
      /\ blocks = [i \in DOMAIN blocks |-> blocks[i]] /\ lastIndex \in Nat \cup {-1}
  BY <1>1, InUseFacts DEF ApiBase
<1>3. mempool' \in Seq(Transfers)
  <2>1. Append(mempool, tx) \in Seq(Transfers)
    BY <1>2
  <2>2. QED
    BY <1>1, <2>1, SortingFacts
<1>4. state' \in [Account -> AccountState] /\ \A a \in Account : state'[a].balance = state[a].balance
  <2>1. tx.sender \in Account /\ tx.id \in Nat
    BY TransferFields, TransfersAssumption DEF Transfer
  <2>2. \A a \in Account : state[a] \in AccountState
    BY <1>2
  <2>3. QED
    BY <1>1, <1>2, <2>1, <2>2 DEF AccountState
<1>5. LedgerKnown'
  BY <1>1, <1>2, <1>3, <1>4, BesideMineBlock
<1>6. CallKnown'
  BY <1>1, <1>2, CallKept DEF ApiBase
<1>7. QED
  BY <1>4, <1>5, <1>6 DEF ApiBase

(* The steps that change nothing but the goroutine's own variables.          *)
LEMMA ApiCallSteps ==
  ASSUME ApiBase, BeginRollback \/ ReadMempool \/ DeleteFails \/ ReturnFromRollback \/ SaveFails
  PROVE  ApiBase' /\ UNCHANGED vars
<1>1. /\ UNCHANGED vars /\ LedgerKnown /\ CallKnown
      /\ InUse
  BY DEF ApiBase, BeginRollback, ReadMempool, DeleteFails, ReturnFromRollback, SaveFails
<1>2. /\ chain \in Seq(Block) /\ chain # <<>> /\ Len(chain) \in Nat \ {0}
      /\ chain[Len(chain)] \in Block
      /\ \A i \in 2 .. Len(chain) : chain[i].index > 0
      /\ mempool \in Seq(Transfers) /\ pc # "off"
  BY <1>1, InUseFacts
<1>3. LedgerKnown'
  <2>1. Stored' = Stored
    BY <1>1, StoredUnchanged DEF vars, disk
  <2>2. QED
    BY <1>1, <2>1 DEF vars, LedgerKnown, TypeOK, MemoryKnown, BlockKnown, OnePolicy
<1>4. CallKnown'
  <2>1. CASE BeginRollback
    <3>1. /\ Len(chain) > 1 /\ hand' = chain[Len(chain)] /\ rest' = hand'.transfers
          /\ call' = IF rest' = <<>> THEN "cut" ELSE "read"
          /\ UNCHANGED <<pool, todo>>
      BY <2>1 DEF BeginRollback
    <3>2. hand' \in Block /\ hand'.index > 0 /\ rest' \in Seq(Transfers)
      BY <1>2, <3>1, BlockFields
    <3>3. QED
      BY <1>1, <1>2, <3>1, <3>2 DEF CallKnown, Calls, vars
  <2>2. CASE ReadMempool
    BY <1>1, <1>2, <2>2 DEF ReadMempool, CallKnown, Calls, vars
  <2>3. CASE DeleteFails \/ ReturnFromRollback
    <3>1. /\ call' = "none" /\ hand' = NoBlock
          /\ rest' = <<>> /\ pool' = <<>> /\ todo' = <<>>
      BY <2>3 DEF DeleteFails, ReturnFromRollback, CallerLost
    <3>2. QED
      BY <3>1 DEF CallKnown, Calls
  <2>4. CASE SaveFails
    BY <1>1, <1>2, <2>4 DEF SaveFails, CallKnown, Calls, vars
  <2>5. QED
    BY <2>1, <2>2, <2>3, <2>4
<1>5. QED
  BY <1>1, <1>3, <1>4 DEF ApiBase

(* A transfer is put back, or lost with the whole write.                     *)
LEMMA ApiPush ==
  ASSUME ApiBase, PushTransfer
  PROVE  /\ ApiBase' /\ rest \in Seq(Transfers) /\ rest # <<>> /\ Head(rest) \in Transfers
         /\ Tail(rest) \in Seq(Transfers) /\ pool \in Seq(Transfers)
<1>1. /\ InUse /\ call = "write" /\ rest' = Tail(rest) /\ pool' = <<>>
      /\ call' = IF Tail(rest) = <<>> THEN "cut" ELSE "read"
      /\ mempool' \in {<<Head(rest)>> \o pool, mempool}
      /\ UNCHANGED <<blocks, lastIndex, params, pc, chain, state, minerAddress, targetDifficulty,
                     job, newBlock, cursor, found, hand, todo>>
  BY DEF PushTransfer, disk, settings
<1>2. /\ LedgerKnown /\ pc \notin {"off", "spawn", "panic"}
      /\ chain \in Seq(Block) /\ chain # <<>> /\ Len(chain) \in Nat
      /\ \A i \in 2 .. Len(chain) : chain[i].index > 0
      /\ state \in [Account -> AccountState] /\ mempool \in Seq(Transfers) /\ found \in Nat
      /\ blocks = [i \in DOMAIN blocks |-> blocks[i]] /\ lastIndex \in Nat \cup {-1}
  BY <1>1, InUseFacts DEF ApiBase
<1>3. /\ rest \in Seq(Transfers) /\ rest # <<>> /\ pool \in Seq(Transfers) /\ CallKnown
      /\ Len(chain) > 1 /\ hand \in Block /\ hand.index > 0
  BY <1>1 DEF ApiBase, CallKnown
<1>4. Head(rest) \in Transfers /\ Tail(rest) \in Seq(Transfers)
  BY <1>3
<1>5. mempool' \in Seq(Transfers)
  <2>1. <<Head(rest)>> \in Seq(Transfers)
    BY <1>4
  <2>2. <<Head(rest)>> \o pool \in Seq(Transfers)
    BY <1>3, <2>1
  <2>3. QED
    BY <1>1, <1>2, <2>2
<1>6. LedgerKnown'
  BY <1>1, <1>2, <1>5, BesideMineBlock
<1>7. CallKnown'
  BY <1>1, <1>2, <1>3, <1>4 DEF CallKnown, Calls
<1>8. QED
  BY <1>3, <1>4, <1>6, <1>7 DEF ApiBase

(* The tip is taken off, which is never the first block.                     *)
LEMMA ApiCut ==
  ASSUME ApiBase, CutChain
  PROVE  /\ ApiBase' /\ chain \in Seq(Block) /\ Len(chain) \in Nat /\ Len(chain) > 1
         /\ Front(chain) \in Seq(Block) /\ Len(Front(chain)) = Len(chain) - 1
         /\ \A i \in 1 .. Len(chain) - 1 : Front(chain)[i] = chain[i]
         /\ chain = Append(Front(chain), chain[Len(chain)])
<1>1. /\ InUse /\ call = "cut" /\ call' = "delete" /\ chain' = Front(chain)
      /\ UNCHANGED <<blocks, lastIndex, params, pc, mempool, state, minerAddress, targetDifficulty,
                     job, newBlock, cursor, found, hand, rest, pool, todo>>
  BY DEF CutChain, disk, settings
<1>2. /\ LedgerKnown /\ pc \notin {"off", "spawn", "panic"}
      /\ chain \in Seq(Block) /\ chain # <<>> /\ Len(chain) \in Nat
      /\ \A i \in 2 .. Len(chain) : chain[i].index > 0
      /\ state \in [Account -> AccountState] /\ mempool \in Seq(Transfers) /\ found \in Nat
      /\ blocks = [i \in DOMAIN blocks |-> blocks[i]] /\ lastIndex \in Nat \cup {-1}
  BY <1>1, InUseFacts DEF ApiBase
<1>3. Len(chain) > 1 /\ hand \in Block /\ hand.index > 0 /\ CallKnown
  BY <1>1 DEF ApiBase, CallKnown
<1>4. /\ Front(chain) \in Seq(Block) /\ Len(Front(chain)) = Len(chain) - 1
      /\ \A i \in 1 .. Len(chain) - 1 : Front(chain)[i] = chain[i]
      /\ chain = Append(Front(chain), chain[Len(chain)])
  BY <1>2, FrontFacts
<1>5. chain' # <<>> /\ chain'[1] = chain[1] /\ \A i \in 2 .. Len(chain') : chain'[i].index > 0
  <2>1. chain' # <<>> /\ chain'[1] = chain[1]
    <3>1. 1 \in 1 .. Len(chain) - 1 /\ Len(chain') # 0
      BY <1>1, <1>2, <1>3, <1>4
    <3>2. Len(<<>>) = 0
      BY EmptySeq
    <3>3. chain' # <<>>
      BY <3>1, <3>2
    <3>4. QED
      BY <1>1, <1>4, <3>1, <3>3
  <2>2. \A i \in 2 .. Len(chain') : i \in 2 .. Len(chain) /\ i \in 1 .. Len(chain) - 1
    BY <1>1, <1>2, <1>4
  <2>3. QED
    BY <1>1, <1>2, <1>4, <2>1, <2>2
<1>6. LedgerKnown'
  BY <1>1, <1>2, <1>4, <1>5, BesideMineBlock
<1>7. CallKnown'
  BY <1>1, <1>2, <1>3 DEF CallKnown, Calls
<1>8. QED
  BY <1>2, <1>3, <1>4, <1>6, <1>7 DEF ApiBase

(* What RollbackBlock does to the database and to the balances.              *)
LEMMA ApiUndo ==
  ASSUME ApiBase, DeleteBlock \/ DecrementLastIndex \/ ClearState \/ ReplayNext
  PROVE  /\ ApiBase' /\ UNCHANGED <<params, pc, chain, mempool, minerAddress, job, newBlock,
                                    cursor, found, hand, rest, pool, apiHistory>>
         /\ hand \in Block /\ hand.index > 0
<1>1. /\ InUse /\ call \in {"delete", "pointer", "clear", "replay"}
      /\ call' \in {"pointer", "clear", "replay"}
      /\ lastIndex' \in {lastIndex, hand.index - 1}
      /\ UNCHANGED <<params, pc, chain, mempool, minerAddress, targetDifficulty,
                     job, newBlock, cursor, found, hand, rest, pool, apiHistory>>
  BY DEF DeleteBlock, DecrementLastIndex, ClearState, ReplayNext, disk, settings
<1>2. /\ LedgerKnown /\ pc \notin {"off", "spawn", "panic"} /\ TypeOK
      /\ chain \in Seq(Block) /\ chain # <<>> /\ Len(chain) \in Nat
      /\ \A i \in 2 .. Len(chain) : chain[i].index > 0
      /\ state \in [Account -> AccountState] /\ mempool \in Seq(Transfers) /\ found \in Nat
      /\ blocks = [i \in DOMAIN blocks |-> blocks[i]] /\ lastIndex \in Nat \cup {-1}
  BY <1>1, InUseFacts DEF ApiBase
<1>3. hand \in Block /\ hand.index > 0 /\ hand.index \in Nat /\ CallKnown /\ todo \in Seq(Block)
  BY <1>1, BlockFields DEF ApiBase, CallKnown
<1>4. /\ DOMAIN blocks' \subseteq DOMAIN blocks /\ blocks' = [i \in DOMAIN blocks' |-> blocks'[i]]
      /\ \A i \in DOMAIN blocks' : blocks'[i] = blocks[i]
  <2>1. CASE DeleteBlock
    BY <2>1 DEF DeleteBlock
  <2>2. CASE UNCHANGED blocks
    BY <1>2, <2>2
  <2>3. QED
    BY <2>1, <2>2 DEF DecrementLastIndex, ClearState, ReplayNext, disk
<1>5. lastIndex' \in Nat \cup {-1}
  BY <1>1, <1>2, <1>3
<1>6. state' \in [Account -> AccountState] /\ todo' \in Seq(Block)
  <2>1. CASE ReplayNext
    <3>1. Head(todo) \in Block /\ Tail(todo) \in Seq(Block)
      BY <1>3, <2>1 DEF ReplayNext
    <3>2. QED
      BY <1>2, <2>1, <3>1, ReplayBlockType DEF ReplayNext, Accounts
  <2>2. CASE ClearState
    BY <1>2, <2>2, ZeroStateType DEF ClearState
  <2>3. CASE DeleteBlock \/ DecrementLastIndex
    BY <1>2, <1>3, <2>3 DEF DeleteBlock, DecrementLastIndex
  <2>4. QED
    BY <2>1, <2>2, <2>3
<1>7. LedgerKnown'
  BY <1>1, <1>2, <1>4, <1>5, <1>6, BesideMineBlock
<1>8. CallKnown'
  BY <1>1, <1>2, <1>3, <1>6 DEF CallKnown, Calls
<1>9. QED
  BY <1>1, <1>3, <1>7, <1>8 DEF ApiBase

(* A block of another node is a block of this program.                      *)
LEMMA AlternativeFacts ==
  ASSUME TypeOK, NEW parent \in Block, NEW transfers \in Alternatives
  PROVE  /\ Alternative(parent, transfers) \in Block
         /\ Alternative(parent, transfers).index = parent.index + 1
         /\ Alternative(parent, transfers).transfers = transfers
         /\ Alternative(parent, transfers).miner = OtherMiner
         /\ Alternative(parent, transfers).maxSupply = params.maxSupply
         /\ Alternative(parent, transfers).halvingInterval = params.halvingInterval
         /\ Alternative(parent, transfers).difficulty =
              CalculateNextDifficulty(parent.timestamp, Alternative(parent, transfers).timestamp,
                                      parent.difficulty)
<1> DEFINE supply == GetTotalCirculatingSupply(chain)
           time == parent.timestamp + 1
           index == parent.index + 1
           difficulty == CalculateNextDifficulty(parent.timestamp, time, parent.difficulty)
           b == Alternative(parent, transfers)
<1>1. b = [index |-> index, timestamp |-> time, prevHash |-> parent.hash,
           hash |-> [nonce |-> found + 1, work |-> difficulty], transfers |-> transfers,
           miner |-> OtherMiner, difficulty |-> difficulty,
           reward |-> CappedReward(params, index, supply),
           maxSupply |-> params.maxSupply, halvingInterval |-> params.halvingInterval]
  BY DEF Alternative
<1>2. time \in Nat /\ index \in Nat /\ parent.hash \in Hash
  BY BlockFields
<1>3. difficulty \in Nat
  BY <1>2, BlockFields, NextDifficultyType
<1>4. params \in ConsensusParameters /\ params.maxSupply \in Nat /\ params.halvingInterval \in Nat
  BY PoliciesAssumption, WordAssumption DEF TypeOK, ConsensusParameters, Amount
<1>5. CappedReward(params, index, supply) \in Amount
  <2>1. supply \in Nat
    BY SupplyType DEF TypeOK
  <2> HIDE DEF index, supply
  <2> QED  BY <1>2, <1>4, <2>1, CappedRewardFacts
<1>6. transfers \in Seq(Transfers) /\ OtherMiner \in Account
  BY ApiAssumption, AccountAssumption
<1> HIDE DEF supply, time, index, difficulty
<1>7. [nonce |-> found + 1, work |-> difficulty] \in Hash
  BY <1>3 DEF TypeOK, Hash
<1>8. b \in Block
  BY <1>1, <1>2, <1>3, <1>4, <1>5, <1>6, <1>7 DEF Block
<1>9. QED
  BY <1>1, <1>8 DEF index, difficulty

(* What AppendBlockDirectly accepts is a block of others, valid on top of    *)
(* the tip if the chain's blocks are in their places.                        *)
LEMMA ApiCheck ==
  ASSUME ApiBase, CheckBlock
  PROVE  /\ ApiBase' /\ call = "none" /\ call' = "append" /\ InUse
         /\ UNCHANGED <<disk, params, pc, chain, state, mempool, settings, job, newBlock, cursor>>
         /\ hand' \in Block /\ \E transfers \in Alternatives : hand'.transfers = transfers
         /\ (\A i \in 1 .. Len(chain) : chain[i].index = i - 1) =>
              /\ hand'.index = Len(chain)
              /\ B!IsSuccessor(params, hand', chain[Len(chain)], GetTotalCirculatingSupply(chain))
<1> DEFINE tip == chain[Len(chain)]
           supply == GetTotalCirculatingSupply(chain)
<1>1. /\ InUse /\ call = "none"
      /\ \E parent \in Range(chain), transfers \in Alternatives :
           /\ ValidateBlockConsensus(params, Alternative(parent, transfers), tip, supply)
           /\ Accept(Alternative(parent, transfers))
  BY DEF CheckBlock
<1>2. PICK parent \in Range(chain), transfers \in Alternatives :
        /\ ValidateBlockConsensus(params, Alternative(parent, transfers), tip, supply)
        /\ Accept(Alternative(parent, transfers))
  BY <1>1
<1>3. /\ hand' = Alternative(parent, transfers) /\ found' = found + 1 /\ call' = "append"
      /\ UNCHANGED <<disk, params, pc, chain, state, mempool, settings, job, newBlock, cursor>>
      /\ UNCHANGED <<rest, pool, todo>>
  BY <1>2 DEF Accept
<1>4. /\ LedgerKnown /\ pc \notin {"off", "spawn", "panic"} /\ TypeOK
      /\ chain \in Seq(Block) /\ chain # <<>> /\ Len(chain) \in Nat \ {0} /\ tip \in Block
      /\ \A i \in 2 .. Len(chain) : chain[i].index > 0
      /\ state \in [Account -> AccountState] /\ mempool \in Seq(Transfers) /\ found \in Nat
      /\ blocks = [i \in DOMAIN blocks |-> blocks[i]] /\ lastIndex \in Nat \cup {-1}
  BY <1>1, InUseFacts DEF ApiBase
<1>5. PICK k \in 1 .. Len(chain) : parent = chain[k]
  BY <1>2, <1>4 DEF Range
<1>6. parent \in Block /\ parent.index \in Nat
  BY <1>4, <1>5, BlockFields
<1>7. /\ hand' \in Block /\ hand'.index = parent.index + 1
      /\ hand'.transfers = transfers
      /\ hand'.maxSupply = params.maxSupply
      /\ hand'.halvingInterval = params.halvingInterval
      /\ hand'.difficulty =
           CalculateNextDifficulty(parent.timestamp, hand'.timestamp, parent.difficulty)
  BY <1>3, <1>4, <1>6, AlternativeFacts
<1>8. ASSUME \A i \in 1 .. Len(chain) : chain[i].index = i - 1
      PROVE  hand'.index = Len(chain) /\ B!IsSuccessor(params, hand', tip, supply)
  <2>1. tip # NoBlock
    BY <1>4, NoBlockAssumption
  <2>2. hand'.index = tip.index + 1 /\ tip.index = Len(chain) - 1
    BY <1>2, <1>3, <1>4, <1>8, <2>1 DEF ValidateBlockConsensus, FollowsBlock
  <2>3. hand'.index = Len(chain)
    BY <1>4, <2>2
  <2>4. parent = tip
    BY <1>4, <1>5, <1>7, <1>8, <2>3
  <2> HIDE DEF tip, supply
  <2>5. B!IsSuccessor(params, hand', tip, supply)
    BY <1>2, <1>3, <1>7, <2>4, SameRules DEF B!IsSuccessor
  <2>6. QED
    BY <2>3, <2>5
<1>9. LedgerKnown'
  <2>1. found' \in Nat
    BY <1>3, <1>4
  <2>2. QED
    BY <1>1, <1>3, <1>4, <2>1, BesideMineBlock DEF disk, settings
<1>10. CallKnown'
  <2>1. CallKnown /\ hand'.index > 0
    BY <1>6, <1>7 DEF ApiBase
  <2>2. QED
    BY <1>3, <1>4, <1>7, <2>1 DEF CallKnown, Calls
<1>11. QED
  BY <1>1, <1>2, <1>3, <1>7, <1>8, <1>9, <1>10 DEF ApiBase

(* It is appended, whatever the tip is by then.                              *)
LEMMA ApiAppendChecked ==
  ASSUME ApiBase, AppendChecked
  PROVE  /\ ApiBase' /\ Front(chain') = chain /\ Len(chain') = Len(chain) + 1
         /\ hand \in Block /\ hand.index > 0 /\ chain' = Append(chain, hand)
         /\ chain'[Len(chain')] = hand /\ chain \in Seq(Block) /\ Len(chain) \in Nat \ {0}
         /\ \A i \in 1 .. Len(chain) : chain'[i] = chain[i]
<1>1. /\ InUse /\ call = "append" /\ call' = "save" /\ chain' = Append(chain, hand)
      /\ UNCHANGED <<blocks, lastIndex, params, pc, mempool, state, minerAddress, targetDifficulty,
                     job, newBlock, cursor, found, hand, rest, pool, todo>>
  BY DEF AppendChecked, disk, settings
<1>2. /\ LedgerKnown /\ pc \notin {"off", "spawn", "panic"}
      /\ chain \in Seq(Block) /\ chain # <<>> /\ Len(chain) \in Nat
      /\ state \in [Account -> AccountState] /\ mempool \in Seq(Transfers) /\ found \in Nat
      /\ blocks = [i \in DOMAIN blocks |-> blocks[i]] /\ lastIndex \in Nat \cup {-1}
  BY <1>1, InUseFacts DEF ApiBase
<1>3. hand \in Block /\ hand.index > 0 /\ CallKnown
  BY <1>1 DEF ApiBase, CallKnown
<1>4. /\ chain' \in Seq(Block) /\ chain' # <<>> /\ Len(chain') = Len(chain) + 1
      /\ Len(chain) \in Nat \ {0}
      /\ chain'[Len(chain')] = hand /\ chain'[1] = chain[1] /\ Front(chain') = chain
      /\ \A i \in 1 .. Len(chain) : chain'[i] = chain[i]
      /\ \A i \in 2 .. Len(chain') : chain'[i].index > 0
  BY <1>1, <1>2, <1>3, ChainGrows
<1>5. LedgerKnown'
  BY <1>1, <1>2, <1>4, BesideMineBlock
<1>6. CallKnown'
  BY <1>1, <1>2, <1>3 DEF CallKnown, Calls
<1>7. QED
  BY <1>1, <1>2, <1>3, <1>4, <1>5, <1>6 DEF ApiBase

(* The two Puts of its SaveBlock.                                            *)
LEMMA ApiSaveChecked ==
  ASSUME ApiBase, SaveChecked
  PROVE  /\ ApiBase' /\ hand \in Block /\ hand.index > 0 /\ hand.index \in Nat
         /\ call = "save" => /\ DOMAIN blocks' = DOMAIN blocks \cup {hand.index}
                             /\ \A i \in DOMAIN blocks' :
                                  blocks'[i] = IF i = hand.index THEN hand ELSE blocks[i]
<1>1. /\ InUse /\ call \in {"save", "index"} /\ call' \in {"index", "credit"}
      /\ UNCHANGED <<params, pc, chain, mempool, state, minerAddress, targetDifficulty,
                     job, newBlock, cursor, found, hand, rest, pool, todo>>
      /\ lastIndex' \in {lastIndex, hand.index}
      /\ \/ call = "save" /\ blocks' = WithBlock(blocks, hand)
         \/ call # "save" /\ blocks' = blocks
  BY DEF SaveChecked, settings
<1>2. /\ LedgerKnown /\ pc \notin {"off", "spawn", "panic"} /\ TypeOK
  BY <1>1, InUseFacts DEF ApiBase
<1>3. hand \in Block /\ hand.index > 0 /\ hand.index \in Nat /\ CallKnown
  BY <1>1, BlockFields DEF ApiBase, CallKnown
<1>4. /\ call = "save" => /\ DOMAIN blocks' = DOMAIN blocks \cup {hand.index}
                          /\ \A i \in DOMAIN blocks' :
                               blocks'[i] = IF i = hand.index THEN hand ELSE blocks[i]
      /\ DOMAIN blocks' \subseteq Nat /\ blocks' = [i \in DOMAIN blocks' |-> blocks'[i]]
      /\ \A i \in DOMAIN blocks' : blocks'[i] \in Block /\ blocks'[i].index = i
      /\ OnePolicy'
  <2>1. CASE call = "save" /\ blocks' = WithBlock(blocks, hand)
    BY <1>1, <1>2, <1>3, <2>1, PutFacts
  <2>2. CASE call # "save" /\ blocks' = blocks
    BY <1>1, <1>2, <2>2 DEF LedgerKnown, TypeOK, MemoryKnown, OnePolicy
  <2>3. QED
    BY <1>1, <2>1, <2>2
<1>5. lastIndex' \in Nat \cup {-1}
  BY <1>1, <1>2, <1>3 DEF TypeOK
<1>6. TypeOK' /\ MemoryKnown' /\ BlockKnown'
  <2>1. TypeOK'
    BY <1>1, <1>2, <1>4, <1>5 DEF TypeOK
  <2>2. MemoryKnown' /\ BlockKnown'
    BY <1>1, <1>2, <1>4 DEF LedgerKnown, MemoryKnown, BlockKnown
  <2>3. QED
    BY <2>1, <2>2
<1>7. CallKnown'
  BY <1>1, <1>2, <1>3 DEF CallKnown, Calls
<1>8. QED
  BY <1>3, <1>4, <1>6, <1>7 DEF ApiBase, LedgerKnown

(* The balances follow.                                                      *)
LEMMA ApiRebuildState ==
  ASSUME ApiBase, RebuildState
  PROVE  /\ ApiBase' /\ hand \in Block
         /\ UNCHANGED <<blocks, lastIndex, params, pc, mempool, minerAddress, chain,
                        job, newBlock, cursor, found, apiHistory>>
<1>1. /\ InUse /\ call = "credit" /\ state' = ReplayBlock(state, hand)
      /\ call' = "none" /\ hand' = NoBlock /\ rest' = <<>> /\ pool' = <<>> /\ todo' = <<>>
      /\ UNCHANGED <<blocks, lastIndex, params, pc, mempool, minerAddress, targetDifficulty, chain,
                     job, newBlock, cursor, found, apiHistory>>
  BY DEF RebuildState, CallerLost, disk, settings
<1>2. /\ LedgerKnown /\ pc \notin {"off", "spawn", "panic"}
      /\ chain \in Seq(Block) /\ chain # <<>> /\ Len(chain) \in Nat
      /\ \A i \in 2 .. Len(chain) : chain[i].index > 0
      /\ state \in [Account -> AccountState] /\ mempool \in Seq(Transfers) /\ found \in Nat
      /\ blocks = [i \in DOMAIN blocks |-> blocks[i]] /\ lastIndex \in Nat \cup {-1}
  BY <1>1, InUseFacts DEF ApiBase
<1>3. hand \in Block /\ CallKnown
  BY <1>1 DEF ApiBase, CallKnown
<1>4. state' \in [Account -> AccountState]
  BY <1>1, <1>2, <1>3, ReplayBlockType DEF Accounts
<1>5. LedgerKnown'
  BY <1>1, <1>2, <1>4, BesideMineBlock
<1>6. CallKnown'
  BY <1>1 DEF CallKnown, Calls
<1>7. QED
  BY <1>1, <1>3, <1>5, <1>6 DEF ApiBase

----------------------------------------------------------------------------
(* Types *)

(* The ledger's own steps, one by one; ClearAll is never reached.            *)
LEMMA LedgerSteps ==
  ASSUME ApiBase, LedgerStep
  PROVE  /\ UNCHANGED <<caller, apiHistory>>
         /\ \/ InitializeLedger \/ SpawnGenesis
            \/ RebuildTransfer \/ RebuildReward \/ VerifyConsensusIntegrity
            \/ PackTransfer \/ EndSelect \/ AssembleBlock \/ FindBlock \/ AppendBlock
            \/ PutBlock \/ PutLastIndex \/ CreditMiner
<1>1. ~ClearAll
  BY DEF ApiBase, LedgerKnown, MemoryKnown, ClearAll
<1>2. QED
  BY <1>1 DEF LedgerStep, Load

(* The goroutine that runs MineBlock, or loads the ledger before it.         *)
LEMMA ApiMining ==
  ASSUME ApiBase, Mining
  PROVE  ApiBase' /\ UNCHANGED caller
<1>1. UNCHANGED caller /\ LedgerKnown /\ CallKnown
  BY DEF ApiBase, Mining, CallMineBlock, LedgerStep, CutPanics, Skip, PutFails
<1>2. LedgerKnown'
  <2>1. CASE LedgerStep
    BY <1>1, <2>1, LedgerSteps, ApiInitialize, ApiSpawn, ApiRebuild, ApiSelect, ApiAssembled,
       ApiFound, ApiAppend, ApiPutBlock, ApiSaved, ApiCredit
  <2>2. CASE CallMineBlock \/ CutPanics \/ Skip \/ PutFails
    BY <1>1, <2>2, ApiBeginMine, ApiPanics, ApiSelect, ApiSaved DEF CallMineBlock, Skip
  <2>3. QED
    BY <2>1, <2>2 DEF Mining
<1>3. pc' # "off" /\ (call = "none" \/ Len(chain') >= Len(chain))
  <2>1. Len(chain) \in Nat
    BY <1>1 DEF LedgerKnown, TypeOK
  <2>2. CASE LedgerStep
    <3>1. CASE InitializeLedger
      BY <1>1, <3>1 DEF InitializeLedger, CallKnown
    <3>2. CASE SpawnGenesis
      BY <1>1, <2>1, <3>2 DEF SpawnGenesis, LedgerKnown, MemoryKnown
    <3>3. CASE AppendBlock
      BY <1>1, <2>1, <3>3 DEF AppendBlock, LedgerKnown, TypeOK
    <3>4. CASE UNCHANGED chain /\ pc' # "off"
      BY <2>1, <3>4
    <3>5. QED
      BY <2>2, <3>1, <3>2, <3>3, <3>4, LedgerSteps DEF RebuildTransfer, RebuildReward,
         VerifyConsensusIntegrity, PackTransfer, EndSelect, AssembleBlock, FindBlock, PutBlock,
         PutLastIndex, CreditMiner
  <2>3. CASE CallMineBlock \/ CutPanics \/ Skip \/ PutFails
    BY <2>1, <2>3 DEF CallMineBlock, BeginMine, CutPanics, Skip, SkipTransfer, PutFails
  <2>4. QED
    BY <2>2, <2>3 DEF Mining
<1>4. CallKnown'
  <2>1. Len(chain) \in Nat /\ Len(chain') \in Nat
    BY <1>1, <1>2 DEF LedgerKnown, TypeOK
  <2>2. QED
    BY <1>1, <1>3, <2>1, CallKept
<1>5. QED
  BY <1>1, <1>2, <1>4 DEF ApiBase

(* Every step preserves what is known of memory, database and callers.       *)
LEMMA ApiBaseStep ==
  ASSUME ApiBase, [ApiNext]_apiVars
  PROVE  ApiBase'
<1>1. CASE Mining \/ Die \/ \E tx \in Transfers : AddToMempool(tx)
  BY <1>1, ApiMining, ApiDie, ApiAdd
<1>2. CASE RollbackBlock
  BY <1>2, ApiCallSteps, ApiPush, ApiCut, ApiUndo DEF RollbackBlock
<1>3. CASE AppendBlockDirectly
  BY <1>3, ApiCheck, ApiAppendChecked, ApiSaveChecked, ApiCallSteps, ApiRebuildState
     DEF AppendBlockDirectly
<1>4. CASE UNCHANGED apiVars
  <2>1. UNCHANGED vars /\ UNCHANGED caller
    BY <1>4 DEF apiVars
  <2>2. Stored' = Stored
    BY <2>1, StoredUnchanged DEF vars, disk
  <2>3. QED
    BY <2>1, <2>2 DEF vars, caller, ApiBase, LedgerKnown, TypeOK, MemoryKnown, BlockKnown,
       OnePolicy, CallKnown
<1>5. QED
  BY <1>1, <1>2, <1>3, <1>4 DEF ApiNext

(* At first there is nothing.                                                *)
LEMMA ApiBaseInit ==
  ASSUME ApiInit
  PROVE  ApiBase
<1>1. /\ blocks = <<>> /\ lastIndex = -1 /\ params \in Policies /\ pc = "off" /\ chain = <<>>
      /\ state = ZeroState /\ mempool = <<>> /\ minerAddress \in MinerAddresses
      /\ targetDifficulty = 1 /\ job = NoJob /\ newBlock = NoBlock /\ cursor = <<1, 1>>
      /\ found = 0 /\ call = "none" /\ hand = NoBlock /\ rest = <<>> /\ pool = <<>> /\ todo = <<>>
  BY DEF ApiInit, Init
<1>2. DOMAIN blocks = {}
  BY <1>1
<1>3. TypeOK
  BY <1>1, IInvInit DEF ApiInit, IInv
<1>4. QED
  BY <1>1, <1>2, <1>3 DEF ApiBase, LedgerKnown, MemoryKnown, AfterSpawn, Loaded, BlockKnown,
     OnePolicy, CallKnown, Calls

(* The history is well typed.                                                *)
HistoryTyped ==
  /\ failedPuts \in Nat /\ failedDeletes \in Nat /\ deaths \in Nat
  /\ overlaps \in Nat /\ races \in Nat
  /\ Troubles <= MaxTroubles
  /\ overlapped \in BOOLEAN /\ undone \in BOOLEAN /\ skipped \in BOOLEAN /\ pushed \in BOOLEAN
  /\ accepted \subseteq Transfers \ Forged

(* One more trouble is one more only while there may be one.                 *)
LEMMA TroublesCount ==
  ASSUME HistoryTyped,
         \/ UNCHANGED counts
         \/ /\ Troubles < MaxTroubles
            /\ \/ failedPuts' = failedPuts + 1 /\ UNCHANGED <<failedDeletes, deaths, overlaps, races>>
               \/ failedDeletes' = failedDeletes + 1 /\ UNCHANGED <<failedPuts, deaths, overlaps, races>>
               \/ deaths' = deaths + 1 /\ UNCHANGED <<failedPuts, failedDeletes, overlaps, races>>
               \/ overlaps' = overlaps + 1 /\ UNCHANGED <<failedPuts, failedDeletes, deaths, races>>
               \/ races' = races + 1 /\ UNCHANGED <<failedPuts, failedDeletes, deaths, overlaps>>
  PROVE  /\ failedPuts' \in Nat /\ failedDeletes' \in Nat /\ deaths' \in Nat
         /\ overlaps' \in Nat /\ races' \in Nat
         /\ Troubles' <= MaxTroubles
         /\ failedPuts' >= failedPuts /\ failedDeletes' >= failedDeletes /\ deaths' >= deaths
         /\ overlaps' >= overlaps /\ races' >= races
<1>1. MaxTroubles \in Nat
  BY ApiAssumption
<1>2. QED
  BY <1>1 DEF HistoryTyped, Troubles, Failures, counts

(* The bounded history is kept, and only ever grows; a process that has met  *)
(* an overlap keeps that for its life.                                       *)
LEMMA HistoryStep ==
  ASSUME HistoryTyped, [ApiNext]_apiVars
  PROVE  /\ HistoryTyped'
         /\ failedPuts' >= failedPuts /\ failedDeletes' >= failedDeletes /\ deaths' >= deaths
         /\ overlaps' >= overlaps /\ races' >= races
         /\ ~overlapped' => ~overlapped \/ Die
<1> USE DEF HistoryTyped
<1>1. CASE CallMineBlock
  <2>1. /\ Meet(call # "none")
        /\ UNCHANGED <<failedPuts, failedDeletes, deaths, races, undone, accepted, skipped, pushed>>
    BY <1>1 DEF CallMineBlock
  <2>2. \/ UNCHANGED <<counts, overlapped>>
        \/ Troubles < MaxTroubles /\ overlaps' = overlaps + 1 /\ overlapped' = TRUE
    BY <2>1 DEF Meet, counts
  <2>3. QED
    BY <2>1, <2>2, TroublesCount
<1>2. CASE BeginRollback
  <2>1. /\ Meet(pc # "ready")
        /\ UNCHANGED <<failedPuts, failedDeletes, deaths, races, undone, accepted, skipped, pushed>>
    BY <1>2 DEF BeginRollback
  <2>2. \/ UNCHANGED <<counts, overlapped>>
        \/ Troubles < MaxTroubles /\ overlaps' = overlaps + 1 /\ overlapped' = TRUE
    BY <2>1 DEF Meet, counts
  <2>3. QED
    BY <2>1, <2>2, TroublesCount
<1>3. CASE CheckBlock
  <2>1. PICK block : Accept(block)
    BY <1>3 DEF CheckBlock
  <2>2. /\ Meet(pc # "ready")
        /\ UNCHANGED <<failedPuts, failedDeletes, deaths, races, undone, accepted, skipped, pushed>>
    BY <2>1 DEF Accept
  <2>3. \/ UNCHANGED <<counts, overlapped>>
        \/ Troubles < MaxTroubles /\ overlaps' = overlaps + 1 /\ overlapped' = TRUE
    BY <2>2 DEF Meet, counts
  <2>4. QED
    BY <2>2, <2>3, TroublesCount
<1>4. CASE PutFails \/ SaveFails
  <2>1. /\ Troubles < MaxTroubles /\ failedPuts' = failedPuts + 1
        /\ UNCHANGED <<failedDeletes, deaths, overlaps, races, overlapped, undone, accepted,
                       skipped, pushed>>
    BY <1>4 DEF PutFails, SaveFails
  <2>2. QED
    BY <2>1, TroublesCount
<1>5. CASE DeleteFails
  <2>1. /\ Troubles < MaxTroubles /\ failedDeletes' = failedDeletes + 1 /\ undone' = TRUE
        /\ UNCHANGED <<failedPuts, deaths, overlaps, races, overlapped, accepted, skipped, pushed>>
    BY <1>5 DEF DeleteFails
  <2>2. QED
    BY <2>1, TroublesCount
<1>6. CASE Die
  <2>1. /\ Troubles < MaxTroubles /\ deaths' = deaths + 1
        /\ overlapped' = FALSE /\ undone' = FALSE /\ pushed' = FALSE
        /\ UNCHANGED <<failedPuts, failedDeletes, overlaps, races, accepted, skipped>>
    BY <1>6 DEF Die
  <2>2. QED
    BY <1>6, <2>1, TroublesCount
<1>7. CASE \E tx \in Transfers : AddToMempool(tx)
  <2>1. PICK tx \in Transfers : AddToMempool(tx)
    BY <1>7
  <2>2. /\ accepted' = accepted \cup {tx} /\ tx \notin Forged /\ pushed' = FALSE
        /\ UNCHANGED <<failedPuts, failedDeletes, deaths, overlaps, overlapped, undone, skipped>>
        /\ races' = races \/ (Troubles < MaxTroubles /\ races' = races + 1)
    BY <2>1 DEF AddToMempool, Enqueue
  <2>3. UNCHANGED counts \/ (Troubles < MaxTroubles /\ races' = races + 1)
    BY <2>2 DEF counts
  <2>4. QED
    BY <2>2, <2>3, TroublesCount
<1>8. CASE /\ UNCHANGED <<counts, overlapped, accepted>>
           /\ undone' \in BOOLEAN /\ skipped' \in BOOLEAN /\ pushed' \in BOOLEAN
  BY <1>8, TroublesCount
<1>9. CASE LedgerStep \/ CutPanics \/ Skip
  BY <1>8, <1>9 DEF LedgerStep, CutPanics, Skip, apiHistory
<1>10. CASE ReadMempool \/ PushTransfer \/ CutChain
  BY <1>8, <1>10 DEF ReadMempool, PushTransfer, CutChain, apiHistory
<1>11. CASE DeleteBlock \/ DecrementLastIndex \/ ClearState \/ ReplayNext
  BY <1>8, <1>11 DEF DeleteBlock, DecrementLastIndex, ClearState, ReplayNext, apiHistory
<1>12. CASE ReturnFromRollback
  BY <1>8, <1>12 DEF ReturnFromRollback
<1>13. CASE AppendChecked \/ SaveChecked \/ RebuildState \/ UNCHANGED apiVars
  BY <1>8, <1>13 DEF AppendChecked, SaveChecked, RebuildState, apiHistory, apiVars
<1>14. QED
  BY <1>1, <1>2, <1>3, <1>4, <1>5, <1>6, <1>7, <1>9, <1>10, <1>11, <1>12, <1>13
     DEF ApiNext, Mining, RollbackBlock, AppendBlockDirectly

(* At first nothing has happened.                                            *)
LEMMA HistoryAtFirst ==
  ASSUME ApiInit
  PROVE  HistoryTyped
<1>1. MaxTroubles \in Nat /\ failedPuts = 0 /\ failedDeletes = 0 /\ deaths = 0 /\ overlaps = 0
      /\ races = 0
  BY ApiAssumption DEF ApiInit
<1>2. Troubles <= MaxTroubles
  BY <1>1 DEF Troubles, Failures
<1>3. /\ accepted \subseteq Transfers \ Forged /\ overlapped \in BOOLEAN
      /\ undone \in BOOLEAN /\ skipped \in BOOLEAN /\ pushed \in BOOLEAN
  BY DEF ApiInit
<1>4. QED
  BY <1>1, <1>2, <1>3 DEF HistoryTyped

(* The invariant everything below rests on.                                  *)
LEMMA ApiBaseInvariant == ApiSpec => [](ApiBase /\ HistoryTyped)
<1>1. ApiInit => ApiBase /\ HistoryTyped
  BY ApiBaseInit, HistoryAtFirst
<1>2. ApiBase /\ HistoryTyped /\ [ApiNext]_apiVars => (ApiBase /\ HistoryTyped)'
  BY ApiBaseStep, HistoryStep
<1>3. QED
  BY <1>1, <1>2, PTL DEF ApiSpec

(* ApiTypeOK: all variables keep their types through calls that take blocks  *)
(* back or append those of others beside MineBlock and AddToMempool, and     *)
(* through writes that fail; only transfers with a valid signature are ever  *)
(* accepted.                                                                 *)
THEOREM ApiTypes == ApiSpec => []ApiTypeOK
<1>1. ApiBase /\ HistoryTyped => ApiTypeOK
  BY DEF ApiBase, LedgerKnown, HistoryTyped, CallKnown, ApiTypeOK
<1>2. QED
  BY <1>1, ApiBaseInvariant, PTL

----------------------------------------------------------------------------
(* The order of the mempool *)

(* A front cut off leaves the order.                                         *)
LEMMA CutInOrder ==
  ASSUME NEW ts \in Seq(Transfers), ByFee(ts), NEW k \in Nat
  PROVE  ByFee(SubSeq(ts, k + 1, Len(ts)))
<1> DEFINE cut == SubSeq(ts, k + 1, Len(ts))
<1>1. \A i, j \in 1 .. Len(ts) : i < j => ts[i].fee >= ts[j].fee
  BY DEF ByFee
<1>2. /\ Len(cut) = IF k + 1 <= Len(ts) THEN Len(ts) - k ELSE 0
      /\ \A i \in 1 .. Len(cut) : cut[i] = ts[k + i]
  OBVIOUS
<1> HIDE DEF cut
<1>3. \A i \in 1 .. Len(cut) : k + i \in 1 .. Len(ts)
  BY <1>2
<1>4. ASSUME NEW i \in 1 .. Len(cut), NEW j \in 1 .. Len(cut), i < j
      PROVE  cut[i].fee >= cut[j].fee
  <2>1. k + i < k + j
    BY <1>4
  <2>2. QED
    BY <1>1, <1>2, <1>3, <2>1
<1>5. ByFee(cut)
  BY <1>4 DEF ByFee
<1>6. QED
  BY <1>5 DEF cut

(* Each step that changes the mempool sorts it, cuts off its front or sets   *)
(* `pushed`.                                                                 *)
LEMMA OrderStep ==
  ASSUME ApiBase, HistoryTyped, OrderKnown, [ApiNext]_apiVars
  PROVE  OrderKnown'
<1>1. mempool \in Seq(Transfers) /\ pushed \in BOOLEAN /\ TypeOK
  BY DEF ApiBase, LedgerKnown, TypeOK, HistoryTyped
<1>2. CASE UNCHANGED <<mempool, pushed>>
  BY <1>2 DEF OrderKnown, ByFee
<1>3. CASE EndSelect /\ UNCHANGED pushed
  <2>1. SUFFICES ASSUME ~pushed PROVE ByFee(mempool')
    BY <1>3 DEF OrderKnown
  <2>2. mempool' = SubSeq(mempool, Len(job.packed) + 1, Len(mempool)) /\ Len(job.packed) \in Nat
    BY <1>1, <1>3 DEF EndSelect, RemainingMempool, TypeOK, Job
  <2>3. QED
    BY <1>1, <2>1, <2>2, CutInOrder DEF OrderKnown
<1>4. CASE \E tx \in Transfers : AddToMempool(tx)
  <2>1. PICK tx \in Transfers : AddToMempool(tx)
    BY <1>4
  <2>2. Append(mempool, tx) \in Seq(Transfers) /\ mempool' \in Sortings(Append(mempool, tx))
    BY <1>1, <2>1 DEF AddToMempool, Enqueue
  <2>3. QED
    BY <2>2, SortingFacts DEF OrderKnown
<1>5. CASE PushTransfer
  BY <1>5 DEF PushTransfer, OrderKnown
<1>6. CASE Die
  <2>1. mempool' = <<>>
    BY <1>6 DEF Die, Stop, MemoryLost
  <2>2. QED
    BY <2>1 DEF OrderKnown, ByFee
<1>7. CASE LedgerStep
  <2>1. UNCHANGED pushed
    BY <1>7 DEF LedgerStep, apiHistory
  <2>2. EndSelect \/ mempool' = mempool
    BY <1>7, LedgerSteps DEF InitializeLedger, SpawnGenesis, RebuildTransfer, RebuildReward,
       VerifyConsensusIntegrity, PackTransfer, AssembleBlock, FindBlock, AppendBlock,
       PutBlock, PutLastIndex, CreditMiner
  <2>3. QED
    BY <1>2, <1>3, <2>1, <2>2
<1>8. CASE CallMineBlock \/ CutPanics \/ Skip \/ PutFails
  BY <1>2, <1>8 DEF CallMineBlock, BeginMine, CutPanics, Skip, SkipTransfer, PutFails, apiHistory
<1>9. CASE BeginRollback \/ ReadMempool \/ CutChain \/ DeleteBlock \/ DecrementLastIndex
  BY <1>2, <1>9 DEF BeginRollback, ReadMempool, CutChain, DeleteBlock, DecrementLastIndex, vars,
     apiHistory
<1>10. CASE DeleteFails \/ ClearState \/ ReplayNext \/ ReturnFromRollback
  BY <1>2, <1>10 DEF DeleteFails, ClearState, ReplayNext, ReturnFromRollback, vars, apiHistory
<1>11. CASE CheckBlock
  BY <1>2, <1>11 DEF CheckBlock, Accept
<1>12. CASE AppendChecked \/ SaveChecked \/ SaveFails \/ RebuildState \/ UNCHANGED apiVars
  BY <1>2, <1>12 DEF AppendChecked, SaveChecked, SaveFails, RebuildState, apiVars, vars, apiHistory
<1>13. QED
  BY <1>4, <1>5, <1>6, <1>7, <1>8, <1>9, <1>10, <1>11, <1>12
     DEF ApiNext, Mining, RollbackBlock, AppendBlockDirectly

(* HighestFeeShown: the fee shown as the highest is, and MineBlock serves    *)
(* the best payers first, until RollbackBlock puts transfers in front.       *)
THEOREM ApiHighestFee == ApiSpec => []HighestFeeShown
<1>1. ApiInit => OrderKnown
  BY DEF ApiInit, Init, OrderKnown, ByFee
<1>2. ApiBase /\ HistoryTyped /\ OrderKnown /\ [ApiNext]_apiVars => OrderKnown'
  BY OrderStep
<1>3. ApiBase /\ OrderKnown => HighestFeeShown
  <2>1. SUFFICES ASSUME ApiBase, ByFee(mempool), NEW i \in DOMAIN mempool
                 PROVE  mempool[i].fee <= HighestFee
    BY DEF OrderKnown, HighestFeeShown
  <2>2. mempool \in Seq(Transfers)
    BY <2>1 DEF ApiBase, LedgerKnown, TypeOK
  <2>3. i \in 1 .. Len(mempool) /\ 1 \in 1 .. Len(mempool) /\ mempool # <<>>
    BY <2>1, <2>2
  <2>4. mempool[1].fee \in Nat /\ mempool[i].fee \in Nat
    BY <2>2, <2>3, TransferFields, WordAssumption DEF Amount
  <2>5. i = 1 \/ mempool[1].fee >= mempool[i].fee
    BY <2>1, <2>3 DEF ByFee
  <2>6. QED
    BY <2>3, <2>4, <2>5 DEF HighestFee
<1>4. QED
  BY <1>1, <1>2, <1>3, ApiBaseInvariant, PTL DEF ApiSpec

----------------------------------------------------------------------------
(* While none of them has met MineBlock *)

(* The selection leaves the parent and the block alone.                      *)
LEMMA ParentStays ==
  ASSUME LedgerKnown, PackTransfer \/ SkipTransfer \/ EndSelect
  PROVE  /\ pc = "select" /\ pc' \in {"select", "assemble"} /\ job'.parent = job.parent
         /\ UNCHANGED <<chain, newBlock, minerAddress>>
<1>1. job \in Job
  BY DEF LedgerKnown, TypeOK
<1>2. CASE PackTransfer
  <2> DEFINE tx == mempool[job.next]
  <2>1. job' = [job EXCEPT !.next = @ + 1, !.packed = Append(@, tx),
                           !.fees = AddWord(@, tx.fee), !.bytes = @ + tx.size]
    BY <1>2 DEF PackTransfer
  <2> HIDE DEF tx
  <2>2. job'.parent = job.parent
    BY <1>1, <2>1 DEF Job
  <2>3. QED
    BY <1>2, <2>2 DEF PackTransfer, settings
<1>3. CASE SkipTransfer
  <2>1. job' = [job EXCEPT !.next = @ + 1]
    BY <1>3 DEF SkipTransfer
  <2>2. job'.parent = job.parent
    BY <1>1, <2>1 DEF Job
  <2>3. QED
    BY <1>3, <2>2 DEF SkipTransfer, settings
<1>4. CASE EndSelect
  BY <1>4 DEF EndSelect, settings
<1>5. QED
  BY <1>2, <1>3, <1>4

(* A block that has the index after the tip's keeps the blocks in place.     *)
LEMMA PlacesGrow ==
  ASSUME NEW c \in Seq(Block), \A i \in 1 .. Len(c) : c[i].index = i - 1,
         NEW b \in Block, b.index = Len(c)
  PROVE  /\ \A i \in 1 .. Len(Append(c, b)) : Append(c, b)[i].index = i - 1
         /\ Append(c, b)[Len(Append(c, b))] = b
<1>1. /\ Len(Append(c, b)) = Len(c) + 1 /\ Append(c, b)[Len(c) + 1] = b
      /\ \A i \in 1 .. Len(c) : Append(c, b)[i] = c[i]
  OBVIOUS
<1>2. QED
  BY <1>1

(* The goroutine of MineBlock keeps what it knows while it is alone.         *)
LEMMA AloneMining ==
  ASSUME ApiBase, Alone, ~overlapped, Mining, ~overlapped'
  PROVE  Alone' /\ call = "none"
<1>1. /\ LedgerKnown /\ UNCHANGED caller
      /\ call # "none" => pc = "ready"
      /\ \A i \in 1 .. Len(chain) : chain[i].index = i - 1
      /\ ParentKnown
      /\ pc \in {"mining", "commit"} => newBlock.index = Len(chain)
      /\ pc \in {"save", "index", "credit"} => newBlock = chain[Len(chain)]
  BY ApiMining DEF ApiBase, Alone
<1>2. chain \in Seq(Block) /\ Len(chain) \in Nat /\ job \in Job
  BY <1>1 DEF LedgerKnown, TypeOK
<1>3. call = "none" /\ call' = "none"
  <2>1. CASE CallMineBlock
    BY <1>1, <2>1 DEF CallMineBlock, Meet, caller
  <2>2. CASE LedgerStep \/ CutPanics \/ Skip \/ PutFails
    <3>1. pc # "ready"
      BY <2>2 DEF LedgerStep, Load, InitializeLedger, ClearAll, SpawnGenesis, RebuildTransfer,
         RebuildReward, VerifyConsensusIntegrity, PackTransfer, AssembleBlock, FindBlock,
         AppendBlock, PutBlock, PutLastIndex, CreditMiner, EndSelect, CutPanics, Skip,
         SkipTransfer, PutFails
    <3>2. QED
      BY <1>1, <3>1 DEF caller
  <2>3. QED
    BY <2>1, <2>2 DEF Mining
<1>4. CASE UNCHANGED chain /\ pc' \in {"rebuild", "verify", "ready", "panic"}
  BY <1>1, <1>3, <1>4 DEF Alone, ParentKnown
<1>5. CASE CallMineBlock
  <2>1. pc' = "select" /\ UNCHANGED chain /\ job' = [NoJob EXCEPT !.parent = chain[Len(chain)],
                                                                  !.bytes = BlockAllowance]
    BY <1>5 DEF CallMineBlock, BeginMine
  <2>2. job'.parent = chain[Len(chain)]
    BY <2>1 DEF NoJob
  <2>3. QED
    BY <1>1, <1>3, <2>1, <2>2 DEF Alone, ParentKnown
<1>6. CASE PackTransfer \/ EndSelect \/ Skip
  <2>1. /\ pc = "select" /\ pc' \in {"select", "assemble"} /\ job'.parent = job.parent
        /\ UNCHANGED <<chain, newBlock>>
    BY <1>1, <1>6, ParentStays DEF Skip
  <2>2. QED
    BY <1>1, <1>3, <2>1 DEF Alone, ParentKnown
<1>7. CASE InitializeLedger
  <2>1. /\ Stored \in Seq(Block)
        /\ \A i \in 0 .. Len(Stored) - 1 : i \in DOMAIN blocks /\ blocks[i] = Stored[i + 1]
    BY <1>1, StoredIsRead DEF LedgerKnown
  <2>2. \A i \in 1 .. Len(Stored) : Stored[i].index = i - 1
    <3>1. TAKE i \in 1 .. Len(Stored)
    <3>2. i - 1 \in 0 .. Len(Stored) - 1 /\ (i - 1) + 1 = i
      BY <2>1
    <3>3. QED
      BY <1>1, <2>1, <3>2 DEF LedgerKnown, MemoryKnown
  <2>3. (chain' = <<>> \/ chain' = Stored) /\ pc' \in {"spawn", "rebuild", "wipe"}
    BY <1>7 DEF InitializeLedger
  <2>4. \A i \in 1 .. Len(chain') : chain'[i].index = i - 1
    BY <2>2, <2>3
  <2>5. QED
    BY <1>3, <2>3, <2>4 DEF Alone, ParentKnown
<1>8. CASE SpawnGenesis
  <2>1. /\ pc' = "save" /\ chain = <<>> /\ chain' = Append(chain, newBlock') /\ newBlock'.index = 0
    BY <1>1, <1>8 DEF SpawnGenesis, GenesisBlock, LedgerKnown, MemoryKnown
  <2>2. chain' = <<newBlock'>>
    BY <2>1
  <2>3. Len(chain') = 1 /\ chain'[1] = newBlock'
    BY <2>2
  <2>4. QED
    BY <1>3, <2>1, <2>3 DEF Alone, ParentKnown
<1>9. CASE AssembleBlock
  <2>1. /\ pc = "assemble" /\ pc' = "mining" /\ UNCHANGED chain
        /\ job'.parent = job.parent /\ newBlock'.index = job.parent.index + 1
    BY <1>1, <1>9, ApiAssembled DEF AssembleBlock
  <2>2. chain # <<>>
    BY <1>1, <2>1 DEF LedgerKnown, MemoryKnown, AfterSpawn, Loaded
  <2>3. job.parent.index = Len(chain) - 1 /\ Len(chain) \in 1 .. Len(chain)
    BY <1>1, <1>2, <2>1, <2>2 DEF ParentKnown
  <2>4. newBlock'.index = Len(chain')
    BY <1>2, <2>1, <2>3
  <2>5. QED
    BY <1>1, <1>3, <2>1, <2>4 DEF Alone, ParentKnown
<1>10. CASE FindBlock
  <2>1. /\ pc = "mining" /\ pc' \in {"commit", "panic"} /\ UNCHANGED <<chain, job>>
        /\ newBlock'.index = newBlock.index
    BY <1>1, <1>10, ApiFound DEF FindBlock
  <2>2. QED
    BY <1>1, <1>3, <2>1 DEF Alone, ParentKnown
<1>11. CASE AppendBlock
  <2>1. /\ pc = "commit" /\ pc' = "save" /\ chain' = Append(chain, newBlock) /\ UNCHANGED newBlock
        /\ newBlock \in Block
    BY <1>1, <1>11, ApiAppend DEF AppendBlock
  <2>2. QED
    BY <1>1, <1>2, <1>3, <2>1, PlacesGrow DEF Alone, ParentKnown
<1>12. CASE PutBlock \/ PutLastIndex \/ PutFails
  <2>1. /\ pc \in {"save", "index"} /\ pc' \in {"index", "ready", "credit"}
        /\ UNCHANGED <<chain, newBlock>>
    BY <1>12 DEF PutBlock, PutLastIndex, PutFails
  <2>2. QED
    BY <1>1, <1>3, <2>1 DEF Alone, ParentKnown
<1>13. CASE RebuildTransfer \/ RebuildReward \/ VerifyConsensusIntegrity
  BY <1>4, <1>13 DEF RebuildTransfer, RebuildReward, VerifyConsensusIntegrity
<1>14. CASE CreditMiner \/ CutPanics
  BY <1>4, <1>14 DEF CreditMiner, CutPanics
<1>15. QED
  BY <1>3, <1>5, <1>6, <1>7, <1>8, <1>9, <1>10, <1>11, <1>12, <1>13, <1>14, LedgerSteps DEF Mining

(* So do the others.                                                         *)
LEMMA AloneStep ==
  ASSUME ApiBase, HistoryTyped, Alone, [ApiNext]_apiVars
  PROVE  Alone'
<1>1. CASE overlapped'
  BY <1>1 DEF Alone
<1>2. CASE Die
  <2>1. pc' = "off" /\ chain' = <<>> /\ call' = "none"
    BY <1>2 DEF Die, Stop, MemoryLost, CallerLost
  <2>2. QED
    BY <2>1 DEF Alone, ParentKnown
<1>3. SUFFICES ASSUME ~overlapped', ~Die PROVE Alone'
  BY <1>1, <1>2
<1>4. ~overlapped
  BY <1>3, HistoryStep
<1>5. CASE Mining
  BY <1>3, <1>4, <1>5, AloneMining
<1>6. /\ LedgerKnown
      /\ call # "none" => pc = "ready"
      /\ \A i \in 1 .. Len(chain) : chain[i].index = i - 1
      /\ ParentKnown
      /\ pc \in {"mining", "commit"} => newBlock.index = Len(chain)
      /\ pc \in {"save", "index", "credit"} => newBlock = chain[Len(chain)]
      /\ call \in {"read", "write", "cut", "save", "index", "credit"} => hand = chain[Len(chain)]
      /\ call \in {"append", "delete", "pointer", "clear", "replay"} => hand.index = Len(chain)
  BY <1>4 DEF ApiBase, Alone
<1>7. chain \in Seq(Block) /\ Len(chain) \in Nat
  BY <1>6 DEF LedgerKnown, TypeOK
<1>8. CASE \E tx \in Transfers : AddToMempool(tx)
  <2>1. UNCHANGED <<pc, chain, job, newBlock, call, hand>>
    BY <1>8 DEF AddToMempool, Enqueue, caller
  <2>2. QED
    BY <1>6, <2>1 DEF Alone, ParentKnown
<1>9. CASE BeginRollback
  <2>1. /\ pc = "ready" /\ UNCHANGED <<pc, chain>> /\ hand' = chain[Len(chain)]
        /\ call' \in {"cut", "read"}
    BY <1>3, <1>9 DEF BeginRollback, Meet, vars
  <2>2. QED
    BY <1>6, <2>1 DEF Alone, ParentKnown
<1>10. CASE ReadMempool \/ PushTransfer
  <2>1. /\ call \in {"read", "write"} /\ call' \in {"read", "write", "cut"}
        /\ UNCHANGED <<pc, chain, job, newBlock, hand>>
    BY <1>10 DEF ReadMempool, PushTransfer, vars
  <2>2. QED
    BY <1>6, <2>1 DEF Alone, ParentKnown
<1>11. CASE CutChain
  <2>1. /\ call = "cut" /\ call' = "delete" /\ chain' = Front(chain) /\ UNCHANGED <<pc, hand>>
    BY <1>11 DEF CutChain
  <2>2. /\ Len(chain) > 1 /\ Len(Front(chain)) = Len(chain) - 1
        /\ \A i \in 1 .. Len(chain) - 1 : Front(chain)[i] = chain[i]
    BY <1>11, ApiCut
  <2>3. hand.index = Len(chain')
    BY <1>6, <1>7, <2>1, <2>2
  <2>4. \A i \in 1 .. Len(chain') : chain'[i].index = i - 1
    BY <1>6, <1>7, <2>1, <2>2
  <2>5. QED
    BY <1>6, <2>1, <2>3, <2>4 DEF Alone, ParentKnown
<1>12. CASE DeleteBlock \/ DecrementLastIndex \/ ClearState \/ ReplayNext
  <2>1. /\ call \in {"delete", "pointer", "clear", "replay"}
        /\ call' \in {"pointer", "clear", "replay"} /\ UNCHANGED <<pc, chain, hand>>
    BY <1>12 DEF DeleteBlock, DecrementLastIndex, ClearState, ReplayNext
  <2>2. QED
    BY <1>6, <2>1 DEF Alone, ParentKnown
<1>13. CASE DeleteFails \/ ReturnFromRollback \/ RebuildState
  <2>1. call' = "none" /\ UNCHANGED <<pc, chain, job, newBlock>>
    BY <1>13 DEF DeleteFails, ReturnFromRollback, RebuildState, CallerLost, vars
  <2>2. QED
    BY <1>6, <2>1 DEF Alone, ParentKnown
<1>14. CASE CheckBlock
  <2>1. PICK block : Accept(block)
    BY <1>14 DEF CheckBlock
  <2>2. pc = "ready" /\ call' = "append" /\ UNCHANGED <<pc, chain>>
    BY <1>3, <2>1 DEF Accept, Meet
  <2>3. hand'.index = Len(chain)
    BY <1>6, <1>14, ApiCheck
  <2>4. QED
    BY <1>6, <2>2, <2>3 DEF Alone, ParentKnown
<1>15. CASE AppendChecked
  <2>1. /\ call = "append" /\ call' = "save" /\ chain' = Append(chain, hand) /\ UNCHANGED <<pc, hand>>
        /\ hand \in Block
    BY <1>15, ApiAppendChecked DEF AppendChecked
  <2>2. QED
    BY <1>6, <1>7, <2>1, PlacesGrow DEF Alone, ParentKnown
<1>16. CASE SaveChecked \/ SaveFails
  <2>1. /\ call \in {"save", "index"} /\ call' \in {"index", "credit"}
        /\ UNCHANGED <<pc, chain, hand>>
    BY <1>16 DEF SaveChecked, SaveFails, vars
  <2>2. QED
    BY <1>6, <2>1 DEF Alone, ParentKnown
<1>17. CASE UNCHANGED apiVars
  BY <1>6, <1>17 DEF apiVars, vars, caller, Alone, ParentKnown
<1>18. QED
  BY <1>3, <1>5, <1>8, <1>9, <1>10, <1>11, <1>12, <1>13, <1>14, <1>15, <1>16, <1>17
     DEF ApiNext, RollbackBlock, AppendBlockDirectly

(* It holds from the start on.                                               *)
LEMMA AloneInvariant == ApiSpec => []Alone
<1>1. ApiInit => Alone
  BY DEF ApiInit, Init, Alone, ParentKnown
<1>2. ApiBase /\ HistoryTyped /\ Alone /\ [ApiNext]_apiVars => Alone'
  BY AloneStep
<1>3. QED
  BY <1>1, <1>2, ApiBaseInvariant, PTL DEF ApiSpec

----------------------------------------------------------------------------
(* Balances *)

BooksKnown == JobKnown /\ ReplayKnown

(* The goroutines beside MineBlock leave what it works with alone.           *)
LEMMA CallsKeep ==
  ASSUME ApiBase, (\E tx \in Transfers : AddToMempool(tx)) \/ RollbackBlock \/ AppendBlockDirectly
  PROVE  InUse /\ UNCHANGED <<params, pc, minerAddress, targetDifficulty, job, newBlock, cursor>>
<1>1. CASE \E tx \in Transfers : AddToMempool(tx)
  BY <1>1 DEF AddToMempool, Enqueue, settings
<1>2. CASE BeginRollback \/ ReadMempool \/ PushTransfer \/ CutChain \/ DeleteBlock
             \/ DecrementLastIndex \/ DeleteFails \/ ClearState \/ ReplayNext \/ ReturnFromRollback
  BY <1>2 DEF BeginRollback, ReadMempool, PushTransfer, CutChain, DeleteBlock, DecrementLastIndex,
     DeleteFails, ClearState, ReplayNext, ReturnFromRollback, vars, disk, settings
<1>3. CASE CheckBlock
  BY <1>3, ApiCheck DEF settings
<1>4. CASE AppendChecked \/ SaveChecked \/ SaveFails \/ RebuildState
  BY <1>4 DEF AppendChecked, SaveChecked, SaveFails, RebuildState, vars, disk, settings
<1>5. QED
  BY <1>1, <1>2, <1>3, <1>4 DEF RollbackBlock, AppendBlockDirectly

(* Loading and a new chain.                                                  *)
LEMMA BooksLoad ==
  ASSUME ApiBase, BooksKnown,
         \/ InitializeLedger \/ SpawnGenesis
         \/ RebuildTransfer \/ RebuildReward \/ VerifyConsensusIntegrity
  PROVE  BooksKnown' /\ job = NoJob /\ job' = NoJob
<1>1. /\ TypeOK /\ pc \in {"off", "spawn", "rebuild", "verify"} /\ job' = job
      /\ pc' \in {"spawn", "rebuild", "wipe", "verify", "ready", "panic", "save"}
      /\ minerAddress' \in MinerAddresses
  BY DEF ApiBase, LedgerKnown, InitializeLedger, SpawnGenesis, RebuildTransfer, RebuildReward,
     VerifyConsensusIntegrity, BooksKnown, JobKnown, settings
<1>2. job = NoJob
  BY <1>1 DEF BooksKnown, ReplayKnown
<1>3. CASE SpawnGenesis
  <2>1. newBlock'.index = 0
    BY <1>3 DEF SpawnGenesis, GenesisBlock
  <2>2. pc' = "save"
    BY <1>3 DEF SpawnGenesis
  <2>3. QED
    BY <1>1, <1>2, <2>1, <2>2 DEF BooksKnown, JobKnown, ReplayKnown
<1>4. CASE ~SpawnGenesis
  <2>1. pc' \in {"spawn", "rebuild", "wipe", "verify", "ready", "panic"}
    BY <1>4 DEF InitializeLedger, RebuildTransfer, RebuildReward, VerifyConsensusIntegrity
  <2>2. JobKnown'
    BY <1>1, <2>1 DEF BooksKnown, JobKnown
  <2>3. CASE InitializeLedger
    BY <1>1, <1>2, <2>2, <2>3, StoredIsRead, InitializeReplay DEF BooksKnown
  <2>4. CASE RebuildTransfer \/ RebuildReward
    BY <1>1, <1>2, <2>2, <2>4, RebuildTransferReplay, RebuildRewardReplay DEF BooksKnown
  <2>5. CASE VerifyConsensusIntegrity
    <3>1. pc' \in {"ready", "panic"}
      BY <2>5 DEF VerifyConsensusIntegrity
    <3>2. QED
      BY <1>1, <1>2, <2>2, <3>1 DEF BooksKnown, ReplayKnown
  <2>6. QED
    BY <1>4, <2>3, <2>4, <2>5
<1>5. QED
  BY <1>1, <1>2, <1>3, <1>4

(* The selection ...                                                         *)
LEMMA BooksSelect ==
  ASSUME ApiBase, BooksKnown, BeginMine \/ PackTransfer \/ SkipTransfer \/ EndSelect
  PROVE  BooksKnown'
<1>1. /\ TypeOK /\ job \in Job /\ pc \in {"ready", "select"}
      /\ pc' \in {"select", "assemble"} /\ UNCHANGED minerAddress
  BY DEF ApiBase, LedgerKnown, TypeOK, BeginMine, PackTransfer, SkipTransfer, EndSelect, settings
<1>2. minerAddress \in MinerAddresses /\ job.fees = TotalFee(job.packed)
  BY DEF BooksKnown, JobKnown
<1>3. job'.fees = TotalFee(job'.packed)
  <2>1. CASE BeginMine
    <3>1. job = NoJob /\ job' = [NoJob EXCEPT !.parent = chain[Len(chain)], !.bytes = BlockAllowance]
      BY <2>1 DEF BeginMine, BooksKnown, ReplayKnown
    <3>2. job'.fees = job.fees /\ job'.packed = job.packed
      BY <3>1 DEF NoJob
    <3>3. QED
      BY <1>2, <3>2
  <2>2. CASE PackTransfer
    <3> DEFINE tx == mempool[job.next]
    <3>1. job' = [job EXCEPT !.next = @ + 1, !.packed = Append(@, tx),
                             !.fees = AddWord(@, tx.fee), !.bytes = @ + tx.size]
      BY <2>2 DEF PackTransfer
    <3>2. tx \in Transfers
      BY <1>1, <2>2, ConsideredIsTransfer DEF PackTransfer
    <3> HIDE DEF tx
    <3>3. /\ job'.packed = Append(job.packed, tx) /\ job'.fees = AddWord(job.fees, tx.fee)
          /\ job.packed \in Seq(Transfers)
      BY <1>1, <3>1 DEF Job
    <3>4. QED
      BY <1>2, <3>2, <3>3, TotalFeeAppend
  <2>3. CASE SkipTransfer
    <3>1. job' = [job EXCEPT !.next = @ + 1]
      BY <2>3 DEF SkipTransfer
    <3>2. job'.fees = job.fees /\ job'.packed = job.packed
      BY <1>1, <3>1 DEF Job
    <3>3. QED
      BY <1>2, <3>2
  <2>4. CASE EndSelect
    <3>1. job' = job
      BY <2>4 DEF EndSelect
    <3>2. QED
      BY <1>2, <3>1
  <2>5. QED
    BY <2>1, <2>2, <2>3, <2>4
<1>4. QED
  BY <1>1, <1>2, <1>3 DEF BooksKnown, JobKnown, ReplayKnown

(* ... and the block that comes of it.                                       *)
LEMMA BooksBlock ==
  ASSUME ApiBase, BooksKnown,
         \/ AssembleBlock \/ FindBlock \/ AppendBlock \/ PutBlock \/ PutLastIndex \/ PutFails
         \/ CreditMiner \/ CutPanics
  PROVE  BooksKnown'
<1>1. /\ LedgerKnown /\ minerAddress \in MinerAddresses /\ job.fees = TotalFee(job.packed)
      /\ pc \in {"mining", "commit"} => newBlock.transfers = job.packed /\ newBlock.miner = minerAddress
      /\ pc \in {"save", "index", "credit"} =>
           IF newBlock.index = 0 THEN job = NoJob
           ELSE newBlock.transfers = job.packed /\ newBlock.miner = minerAddress
  BY DEF ApiBase, BooksKnown, JobKnown
<1>2. minerAddress' = minerAddress
  BY DEF AssembleBlock, FindBlock, AppendBlock, PutBlock, PutLastIndex, PutFails, CreditMiner,
     CutPanics, settings
<1>3. CASE AssembleBlock
  <2>1. /\ pc' = "mining" /\ job'.packed = job.packed /\ job'.fees = job.fees
        /\ newBlock'.transfers = job.packed /\ newBlock'.miner = minerAddress
    BY <1>1, <1>3, ApiAssembled DEF AssembleBlock
  <2>2. QED
    BY <1>1, <1>2, <2>1 DEF BooksKnown, JobKnown, ReplayKnown
<1>4. CASE FindBlock
  <2>1. /\ pc = "mining" /\ pc' \in {"commit", "panic"} /\ job' = job
        /\ newBlock'.transfers = newBlock.transfers /\ newBlock'.miner = newBlock.miner
    BY <1>1, <1>4, ApiFound DEF FindBlock
  <2>2. QED
    BY <1>1, <1>2, <2>1 DEF BooksKnown, JobKnown, ReplayKnown
<1>5. CASE AppendBlock
  <2>1. /\ pc = "commit" /\ pc' = "save" /\ UNCHANGED <<job, newBlock>>
        /\ newBlock.index > 0 /\ newBlock \in Block
    BY <1>1, <1>5, ApiAppend DEF AppendBlock
  <2>2. newBlock.index # 0
    BY <2>1, BlockFields
  <2>3. QED
    BY <1>1, <1>2, <2>1, <2>2 DEF BooksKnown, JobKnown, ReplayKnown
<1>6. CASE PutBlock \/ PutLastIndex \/ PutFails
  <2>1. /\ pc \in {"save", "index"} /\ UNCHANGED <<job, newBlock>>
        /\ pc' \in {"index", "ready", "credit"} /\ (pc' = "ready" => newBlock.index = 0)
    BY <1>6 DEF PutBlock, PutLastIndex, PutFails
  <2>2. QED
    BY <1>1, <1>2, <2>1 DEF BooksKnown, JobKnown, ReplayKnown
<1>7. CASE CreditMiner
  <2>1. pc' = "ready" /\ job' = NoJob
    BY <1>7 DEF CreditMiner
  <2>2. job'.fees = TotalFee(job'.packed)
    BY <2>1, TotalFeeNone DEF NoJob
  <2>3. QED
    BY <1>1, <1>2, <2>1, <2>2 DEF BooksKnown, JobKnown, ReplayKnown
<1>8. CASE CutPanics
  <2>1. pc' = "panic" /\ job' = job
    BY <1>8 DEF CutPanics
  <2>2. QED
    BY <1>1, <1>2, <2>1 DEF BooksKnown, JobKnown, ReplayKnown
<1>9. QED
  BY <1>3, <1>4, <1>5, <1>6, <1>7, <1>8

(* MineBlock's own books are kept, whatever runs beside it.                *)
LEMMA BooksStep ==
  ASSUME ApiBase, BooksKnown, [ApiNext]_apiVars
  PROVE  BooksKnown'
<1>1. CASE LedgerStep
  BY <1>1, LedgerSteps, BooksLoad, BooksSelect, BooksBlock
<1>2. CASE CallMineBlock \/ Skip
  BY <1>2, BooksSelect DEF CallMineBlock, Skip
<1>3. CASE CutPanics \/ PutFails
  BY <1>3, BooksBlock
<1>4. CASE (\E tx \in Transfers : AddToMempool(tx)) \/ RollbackBlock \/ AppendBlockDirectly
  <2>1. /\ pc \notin {"off", "wipe", "spawn", "rebuild", "verify"}
        /\ UNCHANGED <<pc, minerAddress, job, newBlock>>
    BY <1>4, CallsKeep DEF InUse
  <2>2. QED
    BY <2>1 DEF BooksKnown, JobKnown, ReplayKnown
<1>5. CASE Die
  <2>1. /\ pc' = "off" /\ job' = NoJob /\ state' = ZeroState /\ cursor' = <<1, 1>>
        /\ minerAddress' = minerAddress
    BY <1>5 DEF Die, Stop, MemoryLost, settings
  <2>2. job'.fees = TotalFee(job'.packed)
    BY <2>1, TotalFeeNone DEF NoJob
  <2>3. QED
    BY <2>1, <2>2 DEF BooksKnown, JobKnown, ReplayKnown
<1>6. CASE UNCHANGED apiVars
  BY <1>6 DEF apiVars, vars, settings, BooksKnown, JobKnown, ReplayKnown
<1>7. QED
  BY <1>1, <1>2, <1>3, <1>4, <1>5, <1>6 DEF ApiNext, Mining

(* MineBlock works with its own locals, whatever runs beside it.             *)
LEMMA BooksInvariant == ApiSpec => []BooksKnown
<1>1. ApiInit => BooksKnown
  <2>1. SUFFICES ASSUME ApiInit PROVE BooksKnown
    OBVIOUS
  <2>2. /\ pc = "off" /\ job = NoJob /\ state = ZeroState /\ cursor = <<1, 1>>
        /\ minerAddress \in MinerAddresses
    BY <2>1 DEF ApiInit, Init
  <2>3. job.fees = TotalFee(job.packed)
    BY <2>2, TotalFeeNone DEF NoJob
  <2>4. QED
    BY <2>2, <2>3 DEF BooksKnown, JobKnown, ReplayKnown
<1>2. ApiBase /\ BooksKnown /\ [ApiNext]_apiVars => BooksKnown'
  BY BooksStep
<1>3. QED
  BY <1>1, <1>2, ApiBaseInvariant, PTL DEF ApiSpec

(* The types of what ReplayFollows compares.                                 *)
LEMMA FollowsTypes ==
  ASSUME LedgerKnown, pc \in {"save", "index", "credit"} => chain # <<>>
  PROVE  /\ chain \in Seq(Block) /\ job.packed \in Seq(Transfers) /\ state \in Accounts
         /\ CreditedChain \in Seq(Block) /\ ReplayChain(CreditedChain) \in Accounts
         /\ ReplayTransfers(ReplayChain(CreditedChain), job.packed) \in Accounts
<1>1. chain \in Seq(Block) /\ job.packed \in Seq(Transfers) /\ state \in Accounts
  BY DEF LedgerKnown, TypeOK, Job, Accounts
<1>2. CreditedChain \in Seq(Block)
  BY <1>1, FrontFacts DEF CreditedChain
<1>3. QED
  BY <1>1, <1>2, ReplayChainType, ReplayTransfersType

(* The balances stay, and so does what they are compared with.               *)
LEMMA FollowsKept ==
  ASSUME ReplayFollows, ~overlapped, Running, call \notin {"delete", "pointer", "clear", "replay"},
         undone' = undone, call' \notin {"delete", "pointer", "clear", "replay"},
         Booked' = Booked, job'.packed = job.packed,
         \A a \in Account : state'[a].balance = state[a].balance
  PROVE  ReplayFollows'
BY ComparableFacts DEF ReplayFollows, SameBalances

(* Where a chain has been replayed and no transfer is being packed.          *)
LEMMA FollowsReplayed ==
  ASSUME Booked' = chain', chain' \in Seq(Block), job'.packed = <<>>, call' # "replay",
         SameBalances(Comparable, state', ReplayChain(chain'))
  PROVE  ReplayFollows'
<1>1. ReplayTransfers(ReplayChain(Booked'), job'.packed) = ReplayChain(chain')
  BY ReplayChainType, ReplayNoTransfers
<1>2. QED
  BY <1>1 DEF ReplayFollows

(* Replays of one list from accounts with the same balances end so.          *)
LEMMA ReplaysAgree ==
  ASSUME NEW s \in Accounts, NEW t \in Accounts, SameBalances(Comparable, s, t),
         NEW ts \in Seq(Transfers)
  PROVE  SameBalances(Comparable, ReplayTransfers(s, ts), ReplayTransfers(t, ts))
<1> DEFINE n == Len(ts)
<1>1. PICK f \in [0 .. n -> Accounts] :
        /\ f[0] = s
        /\ \A i \in 1 .. n : f[i] = ReplayTransfer(f[i - 1], ts[i])
        /\ ReplayTransfers(s, ts) = f[n]
  BY ReplayTransfersRecursion
<1>2. PICK g \in [0 .. n -> Accounts] :
        /\ g[0] = t
        /\ \A i \in 1 .. n : g[i] = ReplayTransfer(g[i - 1], ts[i])
        /\ ReplayTransfers(t, ts) = g[n]
  BY ReplayTransfersRecursion
<1> DEFINE T == {k \in Nat : k <= n => SameBalances(Comparable, f[k], g[k])}
<1>3. n \in Nat /\ \A i \in 1 .. n : ts[i] \in Transfers
  OBVIOUS
<1> HIDE DEF n
<1>4. 0 \in T
  BY <1>1, <1>2
<1>5. ASSUME NEW k \in Nat, k \in T PROVE k + 1 \in T
  <2>1. SUFFICES ASSUME k + 1 <= n PROVE SameBalances(Comparable, f[k + 1], g[k + 1])
    OBVIOUS
  <2>2. /\ k + 1 \in 1 .. n /\ k \in 0 .. n /\ (k + 1) - 1 = k
        /\ SameBalances(Comparable, f[k], g[k])
    BY <1>3, <1>5, <2>1
  <2>3. f[k] \in Accounts /\ g[k] \in Accounts
    BY <1>1, <1>2, <2>2
  <2>4. ts[k + 1] \in Transfers /\ ts[k + 1].sender \in Comparable
    BY <1>3, <2>2, ComparableFacts
  <2>5. /\ f[k + 1] = ReplayTransfer(f[k], ts[k + 1])
        /\ g[k + 1] = ReplayTransfer(g[k], ts[k + 1])
    BY <1>1, <1>2, <2>2
  <2>6. QED
    BY <2>2, <2>3, <2>4, <2>5, ComparableFacts, TransferAgrees
<1> HIDE DEF T
<1>6. Nat \subseteq T
  BY <1>4, <1>5, SetInduction
<1>7. n \in T
  BY <1>3, <1>6
<1>8. QED
  BY <1>1, <1>2, <1>3, <1>7 DEF T

(* So do replays of one block.                                               *)
LEMMA BlocksAgree ==
  ASSUME NEW s \in Accounts, NEW t \in Accounts, SameBalances(Comparable, s, t), NEW b \in Block
  PROVE  SameBalances(Comparable, ReplayBlock(s, b), ReplayBlock(t, b))
<1> DEFINE u == ReplayTransfers(s, b.transfers)
           v == ReplayTransfers(t, b.transfers)
<1>1. b.transfers \in Seq(Transfers) /\ b.miner \in Account /\ b.reward \in Amount
  BY BlockFields
<1>2. /\ u \in Accounts /\ v \in Accounts /\ SameBalances(Comparable, u, v)
  BY <1>1, ReplayTransfersType, ReplaysAgree
<1> HIDE DEF u, v
<1>3. AddWord(b.reward, TotalFee(b.transfers)) \in Amount
  BY <1>1, AddWordType, TotalFeeType
<1>4. SameBalances(Comparable, ReplayReward(u, b), ReplayReward(v, b))
  BY <1>1, <1>2, <1>3, ComparableFacts, CreditAgrees DEF ReplayReward
<1>5. QED
  BY <1>4 DEF ReplayBlock, u, v

(* The block on top of a chain is the last that its replay runs.             *)
LEMMA ReplayTip ==
  ASSUME NEW c \in Seq(Block), c # <<>>
  PROVE  /\ Front(c) \in Seq(Block) /\ c[Len(c)] \in Block
         /\ ReplayChain(c) = ReplayBlock(ReplayChain(Front(c)), c[Len(c)])
<1>1. /\ Front(c) \in Seq(Block) /\ c[Len(c)] \in Block
      /\ c = Append(Front(c), c[Len(c)])
  BY FrontFacts
<1>2. QED
  BY <1>1, ReplayChainAppend

(* Loading: the replay goes from the first block to the last.                *)
LEMMA LoadBalances ==
  ASSUME ApiBase, BooksKnown, call = "none", UNCHANGED call,
         \/ InitializeLedger \/ SpawnGenesis
         \/ RebuildTransfer \/ RebuildReward \/ VerifyConsensusIntegrity
  PROVE  ReplayFollows'
<1>1. job'.packed = <<>>
  BY BooksLoad DEF NoJob
<1>2. CASE pc' \in {"ready", "save"}
  <2>1. CASE SpawnGenesis
    <3>1. PICK hash \in GenesisHashes :
            ValidatePoW(hash, targetDifficulty) /\ newBlock' = GenesisBlock(hash)
      BY <2>1 DEF SpawnGenesis
    <3>2. TypeOK /\ pc = "spawn" /\ state' = state /\ chain = <<>> /\ chain' = Append(chain, newBlock')
      BY <2>1 DEF ApiBase, LedgerKnown, MemoryKnown, SpawnGenesis
    <3>3. /\ newBlock' \in Block /\ newBlock'.index = 0
          /\ newBlock'.transfers = <<>> /\ newBlock'.miner = SystemGenesis
      BY <3>1, <3>2, GenesisBlockFacts DEF GenesisBlock
    <3>4. chain' = <<newBlock'>> /\ chain' \in Seq(Block)
      BY <3>2, <3>3
    <3>5. Booked' = chain'
      BY <3>3 DEF Booked, CreditedChain
    <3>6. state = ZeroState
      BY <3>2 DEF BooksKnown, ReplayKnown
    <3>7. ReplayChain(chain') = ZeroState
      BY <3>3, <3>4, ReplayGenesis
    <3>8. SameBalances(Comparable, state', ReplayChain(chain'))
      BY <3>2, <3>6, <3>7 DEF SameBalances
    <3>9. QED
      BY <1>1, <3>4, <3>5, <3>8, FollowsReplayed
  <2>2. CASE VerifyConsensusIntegrity
    <3>1. pc = "verify" /\ chain' = chain /\ state' = state /\ pc' \in {"ready", "panic"}
      BY <2>2 DEF VerifyConsensusIntegrity
    <3>2. state = ReplayChain(chain) /\ chain \in Seq(Block)
      BY <3>1 DEF BooksKnown, ReplayKnown, ApiBase, LedgerKnown, TypeOK
    <3>3. Booked' = chain'
      BY <3>1 DEF Booked, CreditedChain
    <3>4. QED
      BY <1>1, <3>1, <3>2, <3>3, FollowsReplayed DEF SameBalances
  <2>3. CASE InitializeLedger \/ RebuildTransfer \/ RebuildReward
    BY <1>2, <2>3 DEF InitializeLedger, RebuildTransfer, RebuildReward
  <2>4. QED
    BY <2>1, <2>2, <2>3
<1>3. CASE pc' \notin {"ready", "save"}
  <2>1. ~Running'
    BY <1>3 DEF InitializeLedger, SpawnGenesis, RebuildTransfer, RebuildReward,
       VerifyConsensusIntegrity, Running
  <2>2. QED
    BY <2>1 DEF ReplayFollows
<1>4. QED
  BY <1>2, <1>3

(* MineBlock, but for the transfers it packs, moves no coins before the end. *)
LEMMA MiningBalances ==
  ASSUME ApiBase, BooksKnown, ReplayFollows, ~overlapped, call = "none", UNCHANGED <<call, undone>>,
         \/ BeginMine \/ SkipTransfer \/ EndSelect \/ AssembleBlock \/ FindBlock \/ AppendBlock
         \/ PutBlock \/ PutLastIndex \/ PutFails
  PROVE  ReplayFollows'
<1>1. /\ LedgerKnown /\ job \in Job /\ state' = state
      /\ pc \in {"ready", "select", "assemble", "mining", "commit", "save", "index"}
  BY DEF ApiBase, LedgerKnown, TypeOK, BeginMine, SkipTransfer, EndSelect, AssembleBlock, FindBlock,
     AppendBlock, PutBlock, PutLastIndex, PutFails
<1>2. Running
  BY <1>1 DEF Running
<1>3. job'.packed = job.packed
  <2>1. CASE BeginMine
    <3>1. job = NoJob /\ job' = [NoJob EXCEPT !.parent = chain[Len(chain)], !.bytes = BlockAllowance]
      BY <2>1 DEF BeginMine, BooksKnown, ReplayKnown
    <3>2. QED
      BY <3>1 DEF NoJob
  <2>2. CASE SkipTransfer
    <3>1. job' = [job EXCEPT !.next = @ + 1]
      BY <2>2 DEF SkipTransfer
    <3>2. QED
      BY <1>1, <3>1 DEF Job
  <2>3. CASE AssembleBlock
    BY <1>1, <2>3, ApiAssembled
  <2>4. CASE EndSelect \/ FindBlock \/ AppendBlock \/ PutBlock \/ PutLastIndex \/ PutFails
    BY <2>4 DEF EndSelect, FindBlock, AppendBlock, PutBlock, PutLastIndex, PutFails
  <2>5. QED
    BY <2>1, <2>2, <2>3, <2>4
<1>4. CreditedChain' = CreditedChain
  <2>1. CASE BeginMine \/ SkipTransfer \/ EndSelect \/ AssembleBlock \/ FindBlock
    <3>1. /\ pc \notin {"save", "index", "credit"} /\ pc' \notin {"save", "index", "credit"}
          /\ chain' = chain
      BY <2>1 DEF BeginMine, SkipTransfer, EndSelect, AssembleBlock, FindBlock
    <3>2. QED
      BY <3>1 DEF CreditedChain
  <2>2. CASE AppendBlock
    <3>1. /\ pc = "commit" /\ pc' = "save" /\ newBlock' = newBlock
          /\ Front(chain') = chain /\ newBlock.index > 0
      BY <1>1, <2>2, ApiAppend DEF AppendBlock
    <3>2. QED
      BY <3>1 DEF CreditedChain
  <2>3. CASE PutBlock \/ PutLastIndex \/ PutFails
    <3>1. /\ pc \in {"save", "index"} /\ UNCHANGED <<chain, newBlock>>
          /\ pc' \in {"index", IF newBlock.index = 0 THEN "ready" ELSE "credit"}
      BY <2>3 DEF PutBlock, PutLastIndex, PutFails
    <3>2. newBlock \in Block /\ newBlock.index \in Nat
      BY <1>1, <3>1, BlockFields DEF LedgerKnown, BlockKnown
    <3>3. QED
      BY <3>1, <3>2 DEF CreditedChain
  <2>4. QED
    BY <2>1, <2>2, <2>3
<1>5. Booked' = Booked
  BY <1>4 DEF Booked
<1>6. QED
  BY <1>1, <1>2, <1>3, <1>5, FollowsKept

(* A packed transfer is executed as its replay would execute it.             *)
LEMMA PackBalances ==
  ASSUME ApiBase, ReplayFollows, ~overlapped, PackTransfer, call = "none", UNCHANGED <<call, undone>>
  PROVE  ReplayFollows'
<1> DEFINE tx == mempool[job.next]
           base == ReplayChain(CreditedChain)
           s == ReplayTransfers(base, job.packed)
<1>1. /\ LedgerKnown /\ TypeOK /\ job \in Job /\ pc = "select" /\ pc' = "select" /\ UNCHANGED chain
      /\ Affordable(state, tx) /\ state' = ExecuteTransfer(state, tx)
      /\ job' = [job EXCEPT !.next = @ + 1, !.packed = Append(@, tx),
                            !.fees = AddWord(@, tx.fee), !.bytes = @ + tx.size]
  BY DEF ApiBase, LedgerKnown, TypeOK, PackTransfer
<1>2. tx \in Transfers
  BY <1>1, ConsideredIsTransfer DEF PackTransfer
<1>3. base \in Accounts /\ job.packed \in Seq(Transfers) /\ s \in Accounts /\ state \in Accounts
  BY <1>1, FollowsTypes
<1>4. Booked = CreditedChain /\ Booked' = CreditedChain
  BY <1>1 DEF Booked, CreditedChain
<1>5. Comparable \subseteq Account /\ tx.sender \in Comparable
  BY <1>2, ComparableFacts
<1>6. ~undone => SameBalances(Comparable, state, s)
  BY <1>1, <1>4 DEF ReplayFollows, Running
<1> HIDE DEF tx, base, s
<1>7. job'.packed = Append(job.packed, tx)
  BY <1>1 DEF Job
<1>8. ReplayTransfers(base, Append(job.packed, tx)) = ReplayTransfer(s, tx)
  BY <1>2, <1>3, ReplayTransfersAppend DEF s
<1>9. ~undone => SameBalances(Comparable, state', ReplayTransfer(s, tx))
  <2>1. state' = ReplayTransfer(state, tx)
    BY <1>1, ExecuteIsReplay
  <2>2. QED
    BY <1>2, <1>3, <1>5, <1>6, <2>1, TransferAgrees
<1>10. QED
  BY <1>4, <1>7, <1>8, <1>9 DEF ReplayFollows, base

(* MineBlock credits its miner as a replay of the block would.               *)
LEMMA CreditBalances ==
  ASSUME ApiBase, Alone, BooksKnown, ReplayFollows, ~overlapped, CreditMiner,
         call = "none", UNCHANGED <<call, undone>>
  PROVE  ReplayFollows'
<1> DEFINE base == ReplayChain(Front(chain))
           s == ReplayTransfers(base, newBlock.transfers)
           amount == AddWord(newBlock.reward, job.fees)
<1>1. /\ LedgerKnown /\ pc = "credit" /\ pc' = "ready" /\ chain' = chain
      /\ job \in Job /\ minerAddress \in Account
      /\ job' = NoJob /\ state' = Credit(state, minerAddress, amount)
  BY DEF ApiBase, LedgerKnown, TypeOK, CreditMiner
<1>2. /\ chain \in Seq(Block) /\ chain # <<>> /\ newBlock \in Block /\ newBlock.index > 0
      /\ newBlock = chain[Len(chain)]
  BY <1>1 DEF LedgerKnown, MemoryKnown, BlockKnown, TypeOK, Alone, AfterSpawn, Loaded
<1>3. /\ newBlock.transfers = job.packed /\ newBlock.miner = minerAddress
      /\ job.fees = TotalFee(job.packed) /\ minerAddress \in MinerAddresses
  BY <1>1, <1>2 DEF BooksKnown, JobKnown
<1>4. Front(chain) \in Seq(Block) /\ newBlock.transfers \in Seq(Transfers) /\ newBlock.reward \in Amount
  BY <1>2, FrontFacts, BlockFields
<1>5. Booked = Front(chain) /\ Booked' = chain
  BY <1>1, <1>2 DEF Booked, CreditedChain
<1>6. base \in Accounts /\ s \in Accounts /\ state \in Accounts /\ amount \in Amount
  BY <1>1, <1>4, ReplayChainType, ReplayTransfersType, AddWordType
     DEF LedgerKnown, TypeOK, Accounts, Job
<1>7. ReplayChain(chain) = (IF minerAddress = SystemGenesis THEN s ELSE Credit(s, minerAddress, amount))
  BY <1>2, <1>3, ReplayTip DEF ReplayBlock, ReplayReward
<1>8. ~undone => SameBalances(Comparable, state, s)
  BY <1>1, <1>3, <1>5 DEF ReplayFollows, Running
<1> HIDE DEF base, s, amount
<1>9. ~undone => SameBalances(Comparable, state', ReplayChain(chain))
  <2>1. minerAddress = SystemGenesis => minerAddress \notin Comparable
    BY <1>3 DEF Comparable
  <2>2. QED
    BY <1>1, <1>6, <1>7, <1>8, <2>1, ComparableFacts, CreditAgrees
<1>10. CASE undone
  BY <1>10 DEF ReplayFollows
<1>11. CASE ~undone
  <2>1. job'.packed = <<>>
    BY <1>1 DEF NoJob
  <2>2. QED
    BY <1>1, <1>2, <1>5, <1>9, <1>11, <2>1, FollowsReplayed
<1>12. QED
  BY <1>10, <1>11

(* What a call has to do with while it is alone.                             *)
LEMMA CallAlone ==
  ASSUME ApiBase, Alone, BooksKnown, ~overlapped, call # "none"
  PROVE  /\ pc = "ready" /\ Running /\ job = NoJob /\ job.packed = <<>> /\ CreditedChain = chain
         /\ chain \in Seq(Block) /\ chain # <<>> /\ state \in Accounts /\ hand \in Block
<1>1. pc = "ready" /\ hand \in Block
  BY DEF Alone, ApiBase, CallKnown
<1>2. job = NoJob
  BY <1>1 DEF BooksKnown, ReplayKnown
<1>3. QED
  BY <1>1, <1>2 DEF Running, NoJob, CreditedChain, ApiBase, LedgerKnown, TypeOK, MemoryKnown,
     AfterSpawn, Loaded, Accounts

(* RollbackBlock, up to the replay, moves no coins.                          *)
LEMMA RollbackBalances ==
  ASSUME ApiBase, Alone, BooksKnown, ReplayFollows, ~overlapped, ~overlapped',
         \/ BeginRollback \/ ReadMempool \/ PushTransfer \/ CutChain \/ DeleteBlock
         \/ DecrementLastIndex \/ DeleteFails
  PROVE  ReplayFollows'
<1>1. CASE BeginRollback
  <2>1. /\ call = "none" /\ call' \in {"cut", "read"} /\ pc = "ready"
        /\ UNCHANGED <<vars, undone>>
    BY <1>1 DEF BeginRollback, Meet
  <2>2. Booked' = Booked /\ UNCHANGED <<job, state>>
    BY <2>1 DEF Booked, CreditedChain, vars
  <2>3. Running
    BY <2>1 DEF Running
  <2>4. QED
    BY <2>1, <2>2, <2>3, FollowsKept
<1>2. CASE ReadMempool \/ PushTransfer
  <2>1. /\ call \in {"read", "write"} /\ call' \in {"read", "write", "cut"}
        /\ UNCHANGED <<pc, chain, state, job, newBlock, undone>>
    BY <1>2 DEF ReadMempool, PushTransfer, vars, apiHistory
  <2>2. Booked' = Booked
    BY <2>1 DEF Booked, CreditedChain
  <2>3. Running
    BY <2>1, CallAlone
  <2>4. QED
    BY <2>1, <2>2, <2>3, FollowsKept
<1>3. CASE CutChain \/ DeleteBlock \/ DecrementLastIndex
  <2>1. call' \in {"delete", "pointer", "clear"}
    BY <1>3 DEF CutChain, DeleteBlock, DecrementLastIndex
  <2>2. QED
    BY <2>1 DEF ReplayFollows
<1>4. CASE DeleteFails
  <2>1. undone' /\ call' = "none"
    BY <1>4 DEF DeleteFails, CallerLost
  <2>2. QED
    BY <2>1 DEF ReplayFollows
<1>5. QED
  BY <1>1, <1>2, <1>3, <1>4

(* A sequence that has a first, without it.                                  *)
LEMMA TailFacts ==
  ASSUME NEW S, NEW t \in Seq(S), Len(t) > 0
  PROVE  /\ t # <<>> /\ Tail(t) \in Seq(S) /\ Len(Tail(t)) = Len(t) - 1
         /\ Head(t) = t[1] /\ \A i \in 1 .. Len(t) - 1 : Tail(t)[i] = t[i + 1]
<1>1. t # <<>>
  OBVIOUS
<1>2. QED
  BY <1>1

(* The rest of a sequence, without its first.                                *)
LEMMA RestFacts ==
  ASSUME NEW S, NEW s \in Seq(S), NEW k \in Nat, k < Len(s),
         NEW t \in Seq(S), t = SubSeq(s, k + 1, Len(s))
  PROVE  /\ Head(t) = s[k + 1] /\ Len(t) = Len(s) - k
         /\ Tail(t) = SubSeq(s, k + 2, Len(s))
<1>1. /\ Len(s) \in Nat /\ Len(t) = Len(s) - k
      /\ \A i \in 1 .. Len(s) - k : t[i] = s[k + i]
  OBVIOUS
<1>2. /\ Len(SubSeq(s, k + 2, Len(s))) = Len(s) - k - 1
      /\ SubSeq(s, k + 2, Len(s)) \in Seq(S)
      /\ \A i \in 1 .. Len(s) - k - 1 : SubSeq(s, k + 2, Len(s))[i] = s[k + 1 + i]
  OBVIOUS
<1>3. /\ t # <<>> /\ Tail(t) \in Seq(S) /\ Len(Tail(t)) = Len(t) - 1
      /\ Head(t) = t[1] /\ \A i \in 1 .. Len(t) - 1 : Tail(t)[i] = t[i + 1]
  <2>1. Len(t) > 0
    BY <1>1
  <2>2. QED
    BY <2>1, TailFacts
<1>4. Head(t) = s[k + 1]
  BY <1>1, <1>3
<1>5. \A i \in 1 .. Len(s) - k - 1 : Tail(t)[i] = s[k + 1 + i]
  <2>1. TAKE i \in 1 .. Len(s) - k - 1
  <2>2. i + 1 \in 1 .. Len(s) - k /\ k + (i + 1) = k + 1 + i /\ i \in 1 .. Len(t) - 1
    BY <1>1
  <2>3. QED
    BY <1>1, <1>3, <2>2
<1>6. QED
  BY <1>1, <1>2, <1>3, <1>4, <1>5

(* Its place in the whole.                                                   *)
LEMMA RestPlace ==
  ASSUME NEW n \in Nat, NEW m \in Nat, m > 0, m <= n, NEW k, k = n - m
  PROVE  /\ k \in Nat /\ k < n /\ k \in 0 .. n - 1
         /\ \A l \in Nat : l = m - 1 => l <= n /\ n - l = k + 1 /\ n - l + 1 = k + 2
OBVIOUS

(* Its replay starts from nothing, and goes from the first block to the last. *)
LEMMA ReplayBalances ==
  ASSUME ApiBase, Alone, BooksKnown, ReplayFollows, ~overlapped, ~overlapped',
         ClearState \/ ReplayNext \/ ReturnFromRollback
  PROVE  ReplayFollows'
<1>1. /\ pc = "ready" /\ job = NoJob /\ CreditedChain = chain /\ chain \in Seq(Block)
      /\ state \in Accounts /\ call # "none"
  BY CallAlone DEF ClearState, ReplayNext, ReturnFromRollback
<1>2. Len(chain) \in Nat /\ SubSeq(chain, 1, Len(chain)) = chain /\ SubSeq(chain, 1, 0) = <<>>
  BY <1>1, PrefixFacts
<1>3. CASE ClearState
  <2>1. call' = "replay" /\ todo' = chain /\ chain' = chain /\ state' = ZeroState
    BY <1>3 DEF ClearState
  <2>2. Len(chain) - Len(chain) = 0 /\ Len(chain) - Len(chain) + 1 = 1
    BY <1>2
  <2>3. SameBalances(Comparable, state', ReplayChain(SubSeq(chain', 1, Len(chain') - Len(todo'))))
    BY <1>2, <2>1, <2>2, ReplayNoBlocks DEF SameBalances
  <2>4. QED
    BY <1>2, <2>1, <2>2, <2>3 DEF ReplayFollows
<1>4. CASE ReplayNext
  <2>1. PICK k : k = Len(chain) - Len(todo)
    OBVIOUS
  <2>2. /\ call = "replay" /\ call' = "replay" /\ chain' = chain /\ todo # <<>>
        /\ state' = ReplayBlock(state, Head(todo)) /\ todo' = Tail(todo)
    BY <1>4 DEF ReplayNext
  <2>3. /\ Len(todo) <= Len(chain) /\ todo = SubSeq(chain, k + 1, Len(chain))
        /\ SameBalances(Comparable, state, ReplayChain(SubSeq(chain, 1, k)))
    BY <2>1, <2>2 DEF ReplayFollows
  <2>4. todo \in Seq(Block)
    BY DEF ApiBase, CallKnown
  <2>5. Len(todo) \in Nat /\ Len(todo) > 0
    BY <2>2, <2>4
  <2>6. k \in Nat /\ k < Len(chain) /\ k \in 0 .. Len(chain) - 1
    BY <1>2, <2>1, <2>3, <2>5, RestPlace
  <2>7. /\ Head(todo) = chain[k + 1] /\ Len(todo) = Len(chain) - k
        /\ Tail(todo) = SubSeq(chain, k + 2, Len(chain))
    BY <1>1, <2>3, <2>4, <2>6, RestFacts
  <2>8. Len(Tail(todo)) = Len(todo) - 1 /\ Len(Tail(todo)) \in Nat
    BY <2>2, <2>4
  <2>9. chain[k + 1] \in Block
    BY <1>1, <2>6
  <2>10. /\ SubSeq(chain, 1, k) \in Seq(Block)
         /\ ReplayChain(SubSeq(chain, 1, k + 1)) = ReplayBlock(ReplayChain(SubSeq(chain, 1, k)), chain[k + 1])
    BY <1>1, <2>6, ReplayPrefix
  <2>11. SameBalances(Comparable, state', ReplayChain(SubSeq(chain, 1, k + 1)))
    BY <1>1, <2>2, <2>3, <2>7, <2>9, <2>10, ReplayChainType, BlocksAgree
  <2>12. /\ Len(todo') <= Len(chain') /\ Len(chain') - Len(todo') = k + 1
         /\ Len(chain') - Len(todo') + 1 = k + 2
    <3>1. todo' = Tail(todo) /\ chain' = chain
      BY <2>2
    <3>2. Len(todo') = Len(todo) - 1 /\ Len(todo') \in Nat
      BY <2>8, <3>1
    <3>3. Len(todo) <= Len(chain)
      BY <2>3
    <3>4. /\ Len(todo') <= Len(chain) /\ Len(chain) - Len(todo') = k + 1
          /\ Len(chain) - Len(todo') + 1 = k + 2
      BY <1>2, <2>1, <2>5, <3>2, <3>3, RestPlace
    <3>5. QED
      BY <3>1, <3>4
  <2>13. todo' = SubSeq(chain', Len(chain') - Len(todo') + 1, Len(chain'))
    BY <2>2, <2>7, <2>12
  <2>14. SameBalances(Comparable, state', ReplayChain(SubSeq(chain', 1, Len(chain') - Len(todo'))))
    BY <2>2, <2>11, <2>12
  <2>15. QED
    BY <2>2, <2>12, <2>13, <2>14 DEF ReplayFollows
<1>5. CASE ReturnFromRollback
  <2>1. /\ call = "replay" /\ call' = "none" /\ todo = <<>> /\ UNCHANGED <<pc, chain, state, job, newBlock>>
    BY <1>5 DEF ReturnFromRollback, CallerLost, vars
  <2>2. SameBalances(Comparable, state, ReplayChain(SubSeq(chain, 1, Len(chain) - Len(todo))))
    BY <2>1 DEF ReplayFollows
  <2>3. SameBalances(Comparable, state', ReplayChain(chain'))
    <3>1. Len(todo) = 0 /\ Len(chain) - 0 = Len(chain)
      BY <1>2, <2>1
    <3>2. QED
      BY <1>2, <2>1, <2>2, <3>1
  <2>4. Booked' = chain' /\ job'.packed = <<>>
    BY <1>1, <2>1 DEF Booked, CreditedChain, NoJob
  <2>5. QED
    BY <1>1, <2>1, <2>3, <2>4, FollowsReplayed
<1>6. QED
  BY <1>3, <1>4, <1>5

(* AppendBlockDirectly credits the block as its replay would, once it is on  *)
(* the chain.                                                                *)
LEMMA AppendBalances ==
  ASSUME ApiBase, Alone, BooksKnown, ReplayFollows, ~overlapped, ~overlapped', AppendBlockDirectly
  PROVE  ReplayFollows'
<1>1. CASE CheckBlock
  <2>1. PICK block : Accept(block)
    BY <1>1 DEF CheckBlock
  <2>2. pc = "ready" /\ UNCHANGED <<chain, state, job, newBlock, pc, undone>>
    BY <1>1, <2>1, ApiCheck DEF Accept, Meet
  <2>3. call = "none" /\ call' = "append" /\ Running
    BY <1>1, <2>2, ApiCheck DEF Running
  <2>4. Booked' = Booked
    BY <2>2, <2>3 DEF Booked, CreditedChain
  <2>5. QED
    BY <2>2, <2>3, <2>4, FollowsKept
<1>2. CASE AppendChecked \/ SaveChecked \/ SaveFails
  <2>1. /\ call \in {"append", "save", "index"} /\ call' \in {"save", "index", "credit"}
        /\ UNCHANGED <<pc, state, job, newBlock, undone>>
    BY <1>2 DEF AppendChecked, SaveChecked, SaveFails, vars, apiHistory
  <2>2. pc = "ready" /\ Running /\ CreditedChain = chain
    BY <2>1, CallAlone
  <2>3. Booked' = Booked
    <3>1. CASE AppendChecked
      <4>1. call = "append" /\ Front(chain') = chain
        BY <3>1, ApiAppendChecked DEF AppendChecked
      <4>2. QED
        BY <2>1, <2>2, <4>1 DEF Booked
    <3>2. CASE SaveChecked \/ SaveFails
      BY <2>1, <3>2 DEF Booked, SaveChecked, SaveFails, vars
    <3>3. QED
      BY <1>2, <3>1, <3>2
  <2>4. QED
    BY <2>1, <2>2, <2>3, FollowsKept
<1>3. CASE RebuildState
  <2>1. /\ call = "credit" /\ call' = "none" /\ UNCHANGED <<pc, chain, job, newBlock, undone>>
        /\ state' = ReplayBlock(state, hand)
    BY <1>3 DEF RebuildState, CallerLost, apiHistory
  <2>2. /\ pc = "ready" /\ Running /\ job.packed = <<>> /\ CreditedChain = chain
        /\ chain \in Seq(Block) /\ chain # <<>> /\ state \in Accounts /\ hand \in Block
    BY <2>1, CallAlone
  <2>3. hand = chain[Len(chain)]
    BY <2>1 DEF Alone
  <2>4. /\ Front(chain) \in Seq(Block)
        /\ ReplayChain(chain) = ReplayBlock(ReplayChain(Front(chain)), hand)
    BY <2>2, <2>3, ReplayTip
  <2>5. CASE undone
    BY <2>1, <2>5 DEF ReplayFollows
  <2>6. CASE ~undone
    <3>1. SameBalances(Comparable, state, ReplayTransfers(ReplayChain(Front(chain)), job.packed))
      BY <2>1, <2>2, <2>6 DEF ReplayFollows, Booked
    <3>2. SameBalances(Comparable, state, ReplayChain(Front(chain)))
      BY <2>2, <2>4, <3>1, ReplayChainType, ReplayNoTransfers
    <3>3. SameBalances(Comparable, state', ReplayChain(chain'))
      BY <2>1, <2>2, <2>4, <3>2, ReplayChainType, BlocksAgree
    <3>4. Booked' = chain'
      BY <2>1, <2>2 DEF Booked, CreditedChain
    <3>5. QED
      BY <2>1, <2>2, <3>3, <3>4, FollowsReplayed
  <2>7. QED
    BY <2>5, <2>6
<1>4. QED
  BY <1>1, <1>2, <1>3 DEF AppendBlockDirectly

(* The balances stay those of the replay, as long as nothing overlaps.     *)
LEMMA BalancesStep ==
  ASSUME ApiBase, HistoryTyped, Alone, BooksKnown, ReplayFollows, [ApiNext]_apiVars
  PROVE  ReplayFollows'
<1>1. CASE overlapped'
  BY <1>1 DEF ReplayFollows
<1>2. CASE Die
  <2>1. pc' = "off" /\ call' = "none"
    BY <1>2 DEF Die, Stop, MemoryLost, CallerLost
  <2>2. QED
    BY <2>1 DEF ReplayFollows, Running
<1>3. SUFFICES ASSUME ~overlapped', ~Die PROVE ReplayFollows'
  BY <1>1, <1>2
<1>4. ~overlapped
  BY <1>3, HistoryStep
<1>5. CASE Mining
  <2>1. call = "none" /\ UNCHANGED call
    BY <1>3, <1>4, <1>5, AloneMining, ApiMining DEF caller
  <2>2. UNCHANGED undone
    BY <1>5 DEF Mining, CallMineBlock, LedgerStep, CutPanics, Skip, PutFails, apiHistory
  <2>3. CASE LedgerStep
    <3>1. CASE InitializeLedger \/ SpawnGenesis
                 \/ RebuildTransfer \/ RebuildReward \/ VerifyConsensusIntegrity
      BY <2>1, <3>1, LoadBalances
    <3>2. CASE EndSelect \/ AssembleBlock \/ FindBlock \/ AppendBlock \/ PutBlock \/ PutLastIndex
      BY <1>4, <2>1, <2>2, <3>2, MiningBalances
    <3>3. CASE PackTransfer
      BY <1>4, <2>1, <2>2, <3>3, PackBalances
    <3>4. CASE CreditMiner
      BY <1>4, <2>1, <2>2, <3>4, CreditBalances
    <3>5. QED
      BY <2>3, <3>1, <3>2, <3>3, <3>4, LedgerSteps
  <2>4. CASE CallMineBlock \/ Skip \/ PutFails
    BY <1>4, <2>1, <2>2, <2>4, MiningBalances DEF CallMineBlock, Skip
  <2>5. CASE CutPanics
    <3>1. ~Running' /\ call' = "none"
      BY <2>1, <2>5 DEF CutPanics, Running
    <3>2. QED
      BY <3>1 DEF ReplayFollows
  <2>6. QED
    BY <1>5, <2>3, <2>4, <2>5 DEF Mining
<1>6. CASE \E tx \in Transfers : AddToMempool(tx)
  <2>1. PICK tx \in Transfers : AddToMempool(tx)
    BY <1>6
  <2>2. /\ UNCHANGED <<pc, chain, job, newBlock, call, undone>> /\ InUse /\ Unlocked
    BY <2>1 DEF AddToMempool, Enqueue, caller
  <2>3. \A a \in Account : state'[a].balance = state[a].balance
    BY <2>1, ApiAdd
  <2>4. Booked' = Booked /\ Running
    BY <2>2 DEF Booked, CreditedChain, InUse, Running
  <2>5. CASE call \in {"delete", "pointer", "clear"}
    BY <2>2, <2>5 DEF ReplayFollows
  <2>6. CASE call = "replay"
    <3>1. /\ UNCHANGED todo /\ Len(todo) <= Len(chain)
          /\ todo = SubSeq(chain, Len(chain) - Len(todo) + 1, Len(chain))
          /\ SameBalances(Comparable, state, ReplayChain(SubSeq(chain, 1, Len(chain) - Len(todo))))
      BY <1>4, <2>1, <2>6 DEF ReplayFollows, AddToMempool, Enqueue, caller
    <3>2. SameBalances(Comparable, state', ReplayChain(SubSeq(chain, 1, Len(chain) - Len(todo))))
      BY <2>3, <3>1, ComparableFacts DEF SameBalances
    <3>3. QED
      BY <2>2, <2>6, <3>1, <3>2 DEF ReplayFollows
  <2>7. CASE call \notin {"delete", "pointer", "clear", "replay"}
    BY <1>4, <2>2, <2>3, <2>4, <2>7, FollowsKept
  <2>8. QED
    BY <2>5, <2>6, <2>7
<1>7. CASE RollbackBlock
  BY <1>3, <1>4, <1>7, RollbackBalances, ReplayBalances DEF RollbackBlock
<1>8. CASE AppendBlockDirectly
  BY <1>3, <1>4, <1>8, AppendBalances
<1>9. CASE UNCHANGED apiVars
  <2>1. /\ UNCHANGED <<pc, chain, state, job, newBlock, call, todo, undone>>
    BY <1>9 DEF apiVars, vars, caller, apiHistory
  <2>2. Booked' = Booked
    BY <2>1 DEF Booked, CreditedChain
  <2>3. QED
    BY <1>4, <2>1, <2>2 DEF ReplayFollows, Running
<1>10. QED
  BY <1>3, <1>5, <1>6, <1>7, <1>8, <1>9 DEF ApiNext

(* The balances of a loaded chain are those its replay gives, with the       *)
(* transfers being packed.                                                   *)
LEMMA BalancesInvariant == ApiSpec => []ReplayFollows
<1>1. ApiInit => ReplayFollows
  BY DEF ApiInit, Init, ReplayFollows, Running
<1>2. ApiBase /\ HistoryTyped /\ Alone /\ BooksKnown /\ ReplayFollows /\ [ApiNext]_apiVars
        => ReplayFollows'
  BY BalancesStep
<1>3. QED
  BY <1>1, <1>2, ApiBaseInvariant, AloneInvariant, BooksInvariant, PTL DEF ApiSpec

(* BalancesAreReplay: however blocks were mined, appended and rolled back,   *)
(* with transfers added beside all of it, the balances between two calls are *)
(* those a restart would replay from the chain; unless a rollback could not  *)
(* be finished, or MineBlock met a call that takes no mutex.                 *)
THEOREM ApiBalances == ApiSpec => []BalancesAreReplay
<1>1. ApiBase /\ BooksKnown /\ ReplayFollows => BalancesAreReplay
  <2>1. SUFFICES ASSUME ApiBase, BooksKnown, ReplayFollows, Idle, ~undone, ~overlapped,
                        NEW a \in Prefixed
                 PROVE  state[a].balance = ReplayChain(chain)[a].balance
    BY DEF BalancesAreReplay
  <2>2. /\ job = NoJob /\ CreditedChain = chain /\ Booked = chain /\ Running /\ call = "none"
        /\ LedgerKnown /\ chain \in Seq(Block)
    BY <2>1 DEF Idle, BooksKnown, ReplayKnown, Booked, CreditedChain, Running,
       ApiBase, LedgerKnown, TypeOK
  <2>3. ReplayTransfers(ReplayChain(chain), job.packed) = ReplayChain(chain)
    BY <2>2, ReplayChainType, ReplayNoTransfers DEF NoJob
  <2>4. a \in Comparable
    BY ComparableFacts
  <2>5. QED
    BY <2>1, <2>2, <2>3, <2>4 DEF ReplayFollows, SameBalances
<1>2. QED
  BY <1>1, ApiBaseInvariant, BooksInvariant, BalancesInvariant, PTL

----------------------------------------------------------------------------
(* What is on disk, while no call without the mutex met MineBlock *)

DiskBase == ApiBase /\ HistoryTyped /\ Alone /\ ~overlapped /\ FirstLoad /\ BlockValid /\ DiskSound

Undoing == {"delete", "pointer", "clear", "replay"}

(* What SaveBlock writes is the end of the chain, and nothing runs beside it. *)
LEMMA SavedIsTip ==
  ASSUME DiskBase, pc \in {"save", "index"} \/ call \in {"save", "index"}
  PROVE  /\ chain \in Seq(Block) /\ chain # <<>> /\ Len(chain) \in Nat \ {0}
         /\ chain[Len(chain)] \in Block /\ chain[Len(chain)].index = Len(chain) - 1
         /\ Front(chain) \in Seq(Block) /\ Len(Front(chain)) = Len(chain) - 1
         /\ \A i \in 1 .. Len(chain) - 1 : Front(chain)[i] = chain[i]
         /\ chain = Append(Front(chain), chain[Len(chain)])
         /\ pc \in AfterSpawn
         /\ pc \in {"save", "index"} => newBlock = chain[Len(chain)] /\ call = "none"
         /\ call \in {"save", "index"} => hand = chain[Len(chain)] /\ pc = "ready"
<1>1. /\ call # "none" => pc = "ready"
      /\ \A i \in 1 .. Len(chain) : chain[i].index = i - 1
      /\ pc \in {"save", "index", "credit"} => newBlock = chain[Len(chain)]
      /\ call \in {"save", "index"} => hand = chain[Len(chain)]
  BY DEF DiskBase, Alone
<1>2. pc \in {"ready", "save", "index"} /\ pc \in AfterSpawn
  BY <1>1 DEF AfterSpawn, Loaded
<1>3. chain \in Seq(Block) /\ chain # <<>>
  BY <1>2 DEF DiskBase, ApiBase, LedgerKnown, TypeOK, MemoryKnown
<1>4. /\ Front(chain) \in Seq(Block) /\ Len(Front(chain)) = Len(chain) - 1
      /\ \A i \in 1 .. Len(chain) - 1 : Front(chain)[i] = chain[i]
      /\ chain[Len(chain)] \in Block /\ Len(chain) \in Nat \ {0}
      /\ chain = Append(Front(chain), chain[Len(chain)])
  BY <1>3, FrontFacts
<1>5. chain[Len(chain)].index = Len(chain) - 1
  BY <1>1, <1>4
<1>6. call \in {"save", "index"} => pc = "ready"
  BY <1>1
<1>7. pc \in {"save", "index"} => call = "none"
  BY <1>1
<1>8. QED
  BY <1>1, <1>2, <1>3, <1>4, <1>5, <1>6, <1>7

(* What has been written is the chain, but for a block that is being saved.  *)
LEMMA WrittenFacts ==
  ASSUME DiskBase
  PROVE  /\ Written \in Seq(Block) /\ Len(Written) \in Nat /\ chain \in Seq(Block)
         /\ pc # "save" /\ call # "save" => Written = chain
         /\ pc = "save" \/ call = "save" => Written = Front(chain)
         /\ lastIndex \in Nat \cup {-1} /\ DOMAIN blocks \subseteq Nat
         /\ Len(Written) <= Len(chain) /\ \A i \in 1 .. Len(Written) : Written[i] = chain[i]
         /\ call \in Undoing => pc = "ready" /\ hand \in Block /\ hand.index = Len(Written) /\ Written = chain
<1>1. TypeOK /\ chain \in Seq(Block)
  BY DEF DiskBase, ApiBase, LedgerKnown, TypeOK
<1>2. pc = "save" \/ call = "save" =>
        /\ Front(chain) \in Seq(Block) /\ Len(Front(chain)) <= Len(chain)
        /\ \A i \in 1 .. Len(Front(chain)) : Front(chain)[i] = chain[i]
  BY SavedIsTip
<1>3. call \in Undoing => pc = "ready" /\ hand \in Block /\ hand.index = Len(chain)
  BY DEF DiskBase, Alone, ApiBase, CallKnown, Undoing
<1>4. /\ Written \in Seq(Block) /\ Len(Written) <= Len(chain)
      /\ \A i \in 1 .. Len(Written) : Written[i] = chain[i]
  BY <1>1, <1>2 DEF Written
<1>5. call \in Undoing => Written = chain
  BY <1>3 DEF Written, Undoing
<1>6. Len(Written) \in Nat
  BY <1>4
<1>7. QED
  BY <1>1, <1>3, <1>4, <1>5, <1>6 DEF Written, TypeOK

(* A sequence that goes on by one element.                                   *)
LEMMA AppendedIs ==
  ASSUME NEW S, NEW s \in Seq(S), NEW t \in Seq(S), NEW x \in S,
         Len(s) = Len(t) + 1, s[Len(s)] = x, \A i \in 1 .. Len(t) : s[i] = t[i]
  PROVE  s = Append(t, x)
<1>1. Append(t, x) \in Seq(S) /\ Len(Append(t, x)) = Len(s) /\ Len(t) \in Nat
  OBVIOUS
<1>2. \A i \in 1 .. Len(s) : s[i] = Append(t, x)[i]
  BY <1>1
<1>3. QED
  BY <1>1, <1>2, SeqEqual

(* While no write failed, nothing that last_index reaches lies behind a gap. *)
LEMMA ReachedIsStored ==
  ASSUME DiskBase, Failures = 0
  PROVE  \A i \in DOMAIN blocks : i <= lastIndex => i < Len(Stored)
<1>1. CASE pc \in {"off", "spawn", "panic"}
  BY <1>1 DEF DiskBase, DiskSound, DiskComplete
<1>2. CASE pc \in AfterSpawn
  <2>1. SUFFICES ASSUME NEW i \in DOMAIN blocks, i <= lastIndex, ~(i < Len(Stored))
                 PROVE  FALSE
    OBVIOUS
  <2>2. ~undone /\ OneKindOfTrouble
    BY DEF DiskBase, FirstLoad, HistoryTyped, Failures, OneKindOfTrouble
  <2>3. /\ Len(Stored) \in 0 .. lastIndex + 1 /\ lastIndex \in Int /\ i \in Nat
        /\ Len(Stored) = lastIndex + 1 \/ Len(Stored) \notin DOMAIN blocks
    BY <2>1, StoredIsRead DEF DiskBase, ApiBase, LedgerKnown, TypeOK
  <2>4. Len(Stored) \notin DOMAIN blocks /\ Len(Stored) < i
    <3>1. Len(Stored) # lastIndex + 1
      BY <2>1, <2>3
    <3>2. Len(Stored) # i
      BY <2>1, <2>3, <3>1
    <3>3. QED
      BY <2>1, <2>3, <3>1, <3>2
  <2>5. Len(Written) \in Nat /\ \A k \in 0 .. Len(Written) - 1 : k \in DOMAIN blocks
    BY <1>2, WrittenFacts DEF DiskBase, DiskSound, DiskComplete
  <2>6. Len(Stored) >= Len(Written)
    BY <2>3, <2>4, <2>5
  <2>7. i >= Len(Written)
    BY <2>3, <2>4, <2>5, <2>6
  <2>8. call = "delete" /\ i = hand.index
    BY <1>2, <2>1, <2>2, <2>7 DEF DiskBase, DiskSound, DiskFollows
  <2>9. i = Len(Written)
    BY <2>8, WrittenFacts DEF Undoing
  <2>10. QED
    BY <2>3, <2>4, <2>5, <2>6, <2>9
<1>3. QED
  BY <1>1, <1>2 DEF DiskBase, ApiBase, LedgerKnown, MemoryKnown, TypeOK, Locations, AfterSpawn, Loaded

(* What the disk has to do with, but for the locations.                      *)
DiskSame == UNCHANGED <<blocks, lastIndex, failedPuts, failedDeletes, deaths, undone>>

(* Where no trouble comes, no kind of trouble does.                        *)
LEMMA SameTroubles ==
  ASSUME UNCHANGED <<failedPuts, failedDeletes, deaths>>
  PROVE  Failures' = Failures /\ (OneKindOfTrouble' <=> OneKindOfTrouble)
BY DEF Failures, OneKindOfTrouble

(* Steps that write nothing and take nothing back.                           *)
LEMMA DiskQuiet ==
  ASSUME DiskSound, Written' = Written, DiskSame,
         pc \in AfterSpawn \ {"index"}, pc' \in AfterSpawn \ {"index"},
         call \notin Undoing \cup {"index"}, call' \notin Undoing \cup {"index"}
  PROVE  DiskSound'
<1>1. Failures' = Failures /\ (OneKindOfTrouble' <=> OneKindOfTrouble)
  BY SameTroubles DEF DiskSame
<1>2. DiskFollows'
  BY <1>1 DEF DiskSound, DiskSame, DiskFollows, Undoing
<1>3. NothingLeft'
  BY DEF DiskSound, DiskSame, NothingLeft, Undoing
<1>4. DiskComplete'
  <2>1. SUFFICES ASSUME Failures = 0 PROVE DiskComplete'
    BY <1>1 DEF DiskComplete
  <2>2. pc' \notin {"off", "spawn", "panic"} /\ call' # "delete"
    BY DEF AfterSpawn, Loaded, Undoing
  <2>3. /\ \A i \in 0 .. Len(Written) - 1 : i \in DOMAIN blocks
        /\ lastIndex >= Len(Written) - 1
    BY <2>1 DEF DiskSound, DiskComplete
  <2>4. QED
    BY <1>1, <2>2, <2>3 DEF DiskComplete, DiskSame
<1>5. QED
  BY <1>2, <1>3, <1>4 DEF DiskSound

(* Steps that change nothing of it.                                          *)
LEMMA DiskStays ==
  ASSUME DiskSound, Written' = Written, DiskSame, UNCHANGED <<pc, call, hand>>
  PROVE  DiskSound'
<1>1. /\ Failures' = Failures /\ (OneKindOfTrouble' <=> OneKindOfTrouble) /\ Stored' = Stored
  BY SameTroubles, StoredUnchanged DEF DiskSame, disk
<1>2. QED
  BY <1>1 DEF DiskSound, DiskSame, DiskFollows, NothingLeft, DiskComplete

(* The process dies, or panics.                                              *)
LEMMA DiskDown ==
  ASSUME DiskBase, UNCHANGED <<blocks, lastIndex, failedPuts, failedDeletes>>,
         pc' \in {"off", "panic"}, call' = "none"
  PROVE  DiskSound'
<1>1. Failures' = Failures /\ Stored' = Stored
  BY StoredUnchanged DEF Failures, disk
<1>2. pc' \notin AfterSpawn
  BY DEF AfterSpawn, Loaded
<1>3. DiskComplete'
  BY <1>1, <1>2, ReachedIsStored DEF DiskComplete
<1>4. QED
  BY <1>2, <1>3 DEF DiskSound, DiskFollows, NothingLeft

(* Only what came after a death is loaded, and only a DeleteBlock that fails *)
(* leaves a rollback half done.                                              *)
LEMMA FirstLoadStep ==
  ASSUME ApiBase, HistoryTyped, FirstLoad, [ApiNext]_apiVars
  PROVE  FirstLoad'
<1>1. FirstLoad /\ HistoryTyped /\ TypeOK
  BY DEF ApiBase, LedgerKnown
<1>2. CASE LedgerStep
  <2>1. UNCHANGED <<failedDeletes, deaths, overlaps, overlapped, undone, accepted>>
    BY <1>2 DEF LedgerStep, apiHistory, counts
  <2>2. CASE InitializeLedger
    <3>1. pc = "off" /\ blocks' = blocks /\ pc' \in {"spawn", "rebuild", "wipe"}
      BY <2>2 DEF InitializeLedger, disk
    <3>2. deaths = 0 => accepted = {} /\ DOMAIN blocks = {}
      BY <1>1, <3>1 DEF FirstLoad
    <3>3. deaths = 0 => Len(Stored) = 0
      <4>1. \A i \in 0 .. Len(Stored) - 1 : i \in DOMAIN blocks
        BY <1>1, StoredIsRead
      <4>2. Len(Stored) \in Nat
        BY <1>1, StoredIsRead
      <4>3. QED
        BY <3>2, <4>1, <4>2
    <3>4. deaths = 0 => pc' = "spawn"
      BY <2>2, <3>3 DEF InitializeLedger
    <3>5. QED
      BY <1>1, <2>1, <3>1, <3>2, <3>4 DEF FirstLoad
  <2>3. CASE ~InitializeLedger
    <3>1. /\ pc' \notin {"off", "spawn"}
          /\ pc' \in {"rebuild", "verify"} => pc \in {"rebuild", "verify"}
      BY <1>2, <2>3, LedgerSteps DEF SpawnGenesis, RebuildTransfer, RebuildReward,
         VerifyConsensusIntegrity, BeginMine, PackTransfer, EndSelect, AssembleBlock, FindBlock,
         AppendBlock, PutBlock, PutLastIndex, CreditMiner
    <3>2. QED
      BY <1>1, <2>1, <3>1 DEF FirstLoad
  <2>4. QED
    BY <2>2, <2>3
<1>3. CASE Die
  <2>1. deaths' # 0 /\ ~undone' /\ ~overlapped'
    BY <1>1, <1>3 DEF Die, HistoryTyped
  <2>2. QED
    BY <2>1 DEF FirstLoad
<1>4. CASE CallMineBlock \/ Skip \/ CutPanics \/ PutFails
  <2>1. /\ pc \notin {"off", "spawn", "rebuild", "verify"}
        /\ pc' \notin {"off", "spawn", "rebuild", "verify"}
        /\ UNCHANGED <<failedDeletes, undone>>
        /\ UNCHANGED <<overlaps, overlapped>> \/ overlaps' = overlaps + 1
    BY <1>4 DEF CallMineBlock, BeginMine, Meet, Skip, SkipTransfer, CutPanics, PutFails, apiHistory, counts
  <2>2. overlaps \in Nat
    BY <1>1 DEF HistoryTyped
  <2>3. QED
    BY <1>1, <2>1, <2>2 DEF FirstLoad
<1>5. CASE (\E tx \in Transfers : AddToMempool(tx)) \/ RollbackBlock \/ AppendBlockDirectly
  <2>1. pc' = pc /\ pc \notin {"off", "spawn", "rebuild", "verify"}
    BY <1>5, CallsKeep DEF InUse
  <2>2. /\ UNCHANGED <<overlaps, overlapped>> \/ overlaps' = overlaps + 1
        /\ UNCHANGED <<failedDeletes, undone>> \/ failedDeletes' = failedDeletes + 1 \/
             (~undone' /\ UNCHANGED failedDeletes)
    <3>1. CASE \E tx \in Transfers : AddToMempool(tx)
      BY <3>1 DEF AddToMempool, Enqueue
    <3>2. CASE BeginRollback
      BY <3>2 DEF BeginRollback, Meet
    <3>3. CASE ReadMempool \/ PushTransfer \/ CutChain \/ DeleteBlock \/ DecrementLastIndex
                 \/ DeleteFails \/ ClearState \/ ReplayNext \/ ReturnFromRollback
      BY <3>3 DEF ReadMempool, PushTransfer, CutChain, DeleteBlock, DecrementLastIndex,
         DeleteFails, ClearState, ReplayNext, ReturnFromRollback, apiHistory, counts
    <3>4. CASE CheckBlock
      <4>1. PICK block : Accept(block)
        BY <3>4 DEF CheckBlock
      <4>2. QED
        BY <4>1 DEF Accept, Meet
    <3>5. CASE AppendChecked \/ SaveChecked \/ SaveFails \/ RebuildState
      BY <3>5 DEF AppendChecked, SaveChecked, SaveFails, RebuildState, apiHistory, counts
    <3>6. QED
      BY <1>5, <3>1, <3>2, <3>3, <3>4, <3>5 DEF RollbackBlock, AppendBlockDirectly
  <2>3. overlaps \in Nat /\ failedDeletes \in Nat
    BY <1>1 DEF HistoryTyped
  <2>4. overlaps' = 0 => ~overlapped'
    BY <1>1, <2>2, <2>3 DEF FirstLoad
  <2>5. failedDeletes' = 0 => ~undone'
    BY <1>1, <2>2, <2>3 DEF FirstLoad
  <2>6. QED
    BY <2>1, <2>4, <2>5 DEF FirstLoad
<1>6. CASE UNCHANGED apiVars
  BY <1>1, <1>6 DEF apiVars, vars, apiHistory, counts, disk, FirstLoad
<1>7. QED
  BY <1>2, <1>3, <1>4, <1>5, <1>6 DEF ApiNext, Mining

(* It is so from the start on.                                               *)
LEMMA FirstLoadInvariant == ApiSpec => []FirstLoad
<1>1. ApiInit => FirstLoad
  <2>1. SUFFICES ASSUME ApiInit PROVE FirstLoad
    OBVIOUS
  <2>2. /\ pc = "off" /\ blocks = <<>> /\ ~undone /\ accepted = {} /\ ~overlapped
    BY <2>1 DEF ApiInit, Init
  <2>3. DOMAIN blocks = {}
    BY <2>2
  <2>4. QED
    BY <2>2, <2>3 DEF FirstLoad
<1>2. ApiBase /\ HistoryTyped /\ FirstLoad /\ [ApiNext]_apiVars => FirstLoad'
  BY FirstLoadStep
<1>3. QED
  BY <1>1, <1>2, ApiBaseInvariant, PTL DEF ApiSpec

(* MineBlock puts valid blocks on the tip ...                                *)
LEMMA BlockValidMining ==
  ASSUME DiskBase, Mining, ~overlapped'
  PROVE  BlockValid'
<1>1. ApiBase /\ Alone /\ BlockValid /\ call = "none" /\ call' = "none"
  BY AloneMining, ApiMining DEF DiskBase, caller
<1>2. LedgerKnown /\ job \in Job
  BY <1>1 DEF ApiBase, LedgerKnown, TypeOK
<1>3. CASE pc' \notin {"mining", "commit", "save", "index"}
  BY <1>1, <1>3 DEF BlockValid, SavesTip
<1>4. CASE AssembleBlock
  <2>1. pc' = "mining" /\ chain' = chain /\ params' = params
    BY <1>4 DEF AssembleBlock
  <2>2. QED
    BY <1>1, <1>2, <1>4, <2>1, ApiAssembled DEF BlockValid, SavesTip
<1>5. CASE FindBlock
  <2> DEFINE tip == chain[Len(chain)]
             supply == GetTotalCirculatingSupply(chain)
  <2>1. SUFFICES ASSUME pc' = "commit" PROVE B!IsSuccessor(params, newBlock', tip, supply)
    BY <1>1, <1>5 DEF FindBlock, BlockValid, SavesTip
  <2>2. pc = "mining" /\ ValidateBlockConsensus(params, newBlock', job.parent, job.supply)
    BY <1>5, <2>1 DEF FindBlock
  <2>3. /\ job.parent = tip /\ job.supply = supply
        /\ newBlock.maxSupply = params.maxSupply
        /\ newBlock.halvingInterval = params.halvingInterval
        /\ newBlock.difficulty = CalculateNextDifficulty(tip.timestamp, newBlock.timestamp,
                                                         tip.difficulty)
    <3>1. job.parent = tip
      BY <2>2 DEF DiskBase, Alone, ParentKnown
    <3>2. QED
      BY <1>1, <2>2, <3>1 DEF BlockValid
  <2>4. /\ newBlock'.timestamp = newBlock.timestamp /\ newBlock'.difficulty = newBlock.difficulty
        /\ newBlock'.maxSupply = newBlock.maxSupply
        /\ newBlock'.halvingInterval = newBlock.halvingInterval
    BY <1>2, <1>5, ApiFound
  <2>5. newBlock' \in Block
    <3>1. LedgerKnown'
      BY <1>2, <1>5, ApiFound
    <3>2. QED
      BY <2>1, <3>1 DEF LedgerKnown, BlockKnown
  <2> HIDE DEF tip, supply
  <2>6. QED
    BY <2>2, <2>3, <2>4, <2>5, SameRules DEF B!IsSuccessor
<1>6. CASE AppendBlock
  <2>1. /\ pc = "commit" /\ pc' = "save" /\ params' = params /\ newBlock' = newBlock
        /\ Front(chain') = chain /\ chain' = Append(chain, newBlock) /\ newBlock \in Block
    BY <1>2, <1>6, ApiAppend DEF AppendBlock
  <2>2. B!IsSuccessor(params, newBlock, chain[Len(chain)], GetTotalCirculatingSupply(chain))
    BY <1>1, <2>1 DEF BlockValid
  <2>3. chain \in Seq(Block) /\ chain # <<>>
    BY <1>2, <2>1 DEF LedgerKnown, TypeOK, MemoryKnown, AfterSpawn, Loaded
  <2>4. chain'[Len(chain') - 1] = chain[Len(chain)] /\ chain'[Len(chain')] = newBlock
    BY <2>1, <2>3
  <2>5. QED
    BY <1>1, <2>1, <2>2, <2>4 DEF BlockValid, SavesTip
<1>7. CASE PutBlock
  BY <1>1, <1>7 DEF PutBlock, BlockValid, SavesTip
<1>8. CASE SpawnGenesis
  <2>1. pc' = "save" /\ newBlock'.index = 0
    BY <1>8 DEF SpawnGenesis, GenesisBlock
  <2>2. QED
    BY <1>1, <2>1 DEF BlockValid, SavesTip
<1>9. CASE LedgerStep
  <2>1. CASE ~(AssembleBlock \/ FindBlock \/ AppendBlock \/ PutBlock \/ SpawnGenesis)
    <3>1. pc' \notin {"mining", "commit", "save", "index"}
      BY <1>1, <1>9, <2>1, LedgerSteps DEF InitializeLedger, RebuildTransfer, RebuildReward,
         VerifyConsensusIntegrity, PackTransfer, EndSelect, PutLastIndex, CreditMiner
    <3>2. QED
      BY <1>3, <3>1
  <2>2. QED
    BY <1>4, <1>5, <1>6, <1>7, <1>8, <2>1
<1>10. CASE CallMineBlock \/ Skip \/ CutPanics \/ PutFails
  <2>1. pc' \notin {"mining", "commit", "save", "index"}
    BY <1>10 DEF CallMineBlock, BeginMine, Skip, SkipTransfer, CutPanics, PutFails
  <2>2. QED
    BY <1>3, <2>1
<1>11. QED
  BY <1>9, <1>10 DEF Mining

(* ... and so does AppendBlockDirectly.                                      *)
LEMMA BlockValidStep ==
  ASSUME DiskBase, [ApiNext]_apiVars, ~overlapped'
  PROVE  BlockValid'
<1>1. ApiBase /\ Alone /\ BlockValid /\ ~overlapped
  BY DEF DiskBase
<1>2. CASE Mining
  BY <1>2, BlockValidMining
<1>3. CASE Die
  <2>1. pc' = "off" /\ call' = "none"
    BY <1>3 DEF Die, Stop, CallerLost
  <2>2. QED
    BY <2>1 DEF BlockValid, SavesTip
<1>4. CASE (\E tx \in Transfers : AddToMempool(tx)) \/ UNCHANGED apiVars
  <2>1. UNCHANGED <<pc, params, chain, job, newBlock, call, hand>>
    BY <1>4 DEF AddToMempool, Enqueue, apiVars, vars, caller
  <2>2. QED
    BY <1>1, <2>1 DEF BlockValid, SavesTip
<1>5. CASE RollbackBlock \/ AppendBlockDirectly
  <2>1. pc' = "ready" /\ UNCHANGED params
    <3>1. UNCHANGED <<pc, params>>
      BY <1>1, <1>5, CallsKeep
    <3>2. Alone'
      BY <1>5, AloneStep DEF DiskBase, ApiNext
    <3>3. call # "none" \/ call' # "none"
      BY <1>5 DEF RollbackBlock, BeginRollback, ReadMempool, PushTransfer, CutChain, DeleteBlock,
         DecrementLastIndex, DeleteFails, ClearState, ReplayNext, ReturnFromRollback,
         AppendBlockDirectly, CheckBlock, Accept, AppendChecked, SaveChecked, SaveFails, RebuildState
    <3>4. (call # "none" => pc = "ready") /\ (call' # "none" => pc' = "ready")
      BY <1>1, <3>2 DEF Alone
    <3>5. QED
      BY <3>1, <3>3, <3>4
  <2>2. CASE call' \notin {"append", "save", "index"}
    BY <2>1, <2>2 DEF BlockValid, SavesTip
  <2>3. CASE CheckBlock
    <3>1. /\ call' = "append" /\ chain' = chain
          /\ \A i \in 1 .. Len(chain) : chain[i].index = i - 1
      BY <1>1, <2>3, ApiCheck DEF Alone
    <3>2. B!IsSuccessor(params, hand', chain[Len(chain)], GetTotalCirculatingSupply(chain))
      BY <1>1, <2>3, <3>1, ApiCheck
    <3>3. QED
      BY <2>1, <3>1, <3>2 DEF BlockValid, SavesTip
  <2>4. CASE AppendChecked
    <3>1. /\ call = "append" /\ call' = "save" /\ Front(chain') = chain /\ Len(chain') = Len(chain) + 1
          /\ chain'[Len(chain')] = hand /\ chain \in Seq(Block) /\ Len(chain) \in Nat \ {0}
          /\ \A i \in 1 .. Len(chain) : chain'[i] = chain[i]
      BY <1>1, <2>4, ApiAppendChecked DEF AppendChecked
    <3>2. B!IsSuccessor(params, hand, chain[Len(chain)], GetTotalCirculatingSupply(chain))
      BY <1>1, <3>1 DEF BlockValid
    <3>3. chain'[Len(chain') - 1] = chain[Len(chain)]
      BY <3>1
    <3>4. QED
      BY <2>1, <3>1, <3>2, <3>3 DEF BlockValid, SavesTip
  <2>5. CASE SaveChecked \/ SaveFails
    <3>1. call \in {"save", "index"} /\ call' \in {"index", "credit"} /\ chain' = chain
      BY <2>5 DEF SaveChecked, SaveFails, vars
    <3>2. QED
      BY <1>1, <2>1, <3>1 DEF BlockValid, SavesTip
  <2>6. CASE RollbackBlock \/ RebuildState
    <3>1. call' \notin {"append", "save", "index"}
      BY <2>6 DEF RollbackBlock, BeginRollback, ReadMempool, PushTransfer, CutChain, DeleteBlock,
         DecrementLastIndex, DeleteFails, ClearState, ReplayNext, ReturnFromRollback, RebuildState,
         CallerLost
    <3>2. QED
      BY <2>2, <3>1
  <2>7. QED
    BY <1>5, <2>3, <2>4, <2>5, <2>6 DEF AppendBlockDirectly
<1>6. QED
  BY <1>2, <1>3, <1>4, <1>5 DEF ApiNext

(* Loading takes over what can be reached; a genesis block is only mined     *)
(* where nothing can be.                                                     *)
LEMMA DiskLoad ==
  ASSUME DiskBase, InitializeLedger \/ SpawnGenesis, call = "none", UNCHANGED call, UNCHANGED apiHistory
  PROVE  DiskSound'
<1>1. /\ TypeOK /\ LedgerKnown /\ pc \in {"off", "spawn"} /\ call = "none" /\ call' = "none"
      /\ UNCHANGED <<blocks, lastIndex, failedPuts, failedDeletes, deaths, undone>>
  BY DEF DiskBase, ApiBase, LedgerKnown, InitializeLedger, SpawnGenesis, disk, apiHistory, counts
<1>2. /\ Stored' = Stored /\ Failures' = Failures /\ (OneKindOfTrouble' <=> OneKindOfTrouble)
  BY <1>1, StoredUnchanged, SameTroubles DEF disk
<1>3. deaths = 0 => DOMAIN blocks = {}
  BY <1>1 DEF DiskBase, FirstLoad
<1>4. /\ Stored \in Seq(Block) /\ Len(Stored) \in 0 .. lastIndex + 1 /\ lastIndex \in Nat \cup {-1}
      /\ Len(Stored) = lastIndex + 1 \/ Len(Stored) \notin DOMAIN blocks
      /\ \A i \in 0 .. Len(Stored) - 1 : i \in DOMAIN blocks /\ blocks[i] = Stored[i + 1]
      /\ DOMAIN blocks \subseteq Nat
  BY <1>1, StoredIsRead DEF TypeOK
<1>5. Failures = 0 => \A i \in DOMAIN blocks : i <= lastIndex => i < Len(Stored)
  BY ReachedIsStored
<1>6. CASE pc' \in {"rebuild", "save"}
  <2>1. Written' = Stored
    <3>1. CASE pc' = "rebuild"
      BY <1>1, <1>2, <3>1 DEF InitializeLedger, SpawnGenesis, Written
    <3>2. CASE pc' = "save"
      <4>1. SpawnGenesis /\ Stored = <<>> /\ chain = <<>>
        BY <1>1, <3>2 DEF InitializeLedger, SpawnGenesis, LedgerKnown, MemoryKnown
      <4>2. chain' = Append(<<>>, newBlock')
        BY <4>1 DEF SpawnGenesis
      <4>3. newBlock' \in Block
        <5>1. LedgerKnown'
          BY <1>1, <4>1, ApiSpawn
        <5>2. QED
          BY <3>2, <5>1 DEF LedgerKnown, BlockKnown
      <4>4. Front(Append(<<>>, newBlock')) = <<>>
        BY <4>3, EmptySeq, PrefixOfAppend
      <4>5. QED
        BY <3>2, <4>1, <4>2, <4>4 DEF Written
    <3>3. QED
      BY <1>6, <3>1, <3>2
  <2>2. \A i \in DOMAIN blocks : i < Len(Stored) => blocks[i] = Stored[i + 1]
    BY <1>4
  <2>3. OneKindOfTrouble => \A i \in DOMAIN blocks : ~(i >= Len(Stored) /\ i <= lastIndex)
    <3>1. CASE Failures = 0
      <4>1. Len(Stored) \in Nat
        BY <1>4
      <4>2. QED
        BY <1>4, <1>5, <3>1, <4>1
    <3>2. CASE Failures # 0
      <4>1. Failures \in Nat
        BY DEF DiskBase, HistoryTyped, Failures
      <4>2. QED
        BY <1>3, <3>2, <4>1 DEF OneKindOfTrouble
    <3>3. QED
      BY <3>1, <3>2
  <2>4. DiskFollows'
    BY <1>1, <1>2, <2>1, <2>2, <2>3 DEF DiskFollows
  <2>5. NothingLeft'
    BY <1>1, <1>3 DEF NothingLeft
  <2>6. DiskComplete'
    <3>1. SUFFICES ASSUME Failures = 0 PROVE DiskComplete'
      BY <1>2 DEF DiskComplete
    <3>2. /\ \A i \in 0 .. Len(Stored) - 1 : i \in DOMAIN blocks
          /\ lastIndex >= Len(Stored) - 1
      BY <1>4
    <3>3. QED
      BY <1>1, <1>6, <2>1, <3>2 DEF DiskComplete
  <2>7. QED
    BY <2>4, <2>5, <2>6 DEF DiskSound
<1>7. CASE pc' = "spawn"
  <2>1. pc' \notin AfterSpawn
    BY <1>7 DEF AfterSpawn, Loaded
  <2>2. DiskComplete'
    BY <1>1, <1>2, <1>5, <2>1 DEF DiskComplete
  <2>3. QED
    BY <1>1, <2>1, <2>2 DEF DiskSound, DiskFollows, NothingLeft
<1>8. pc' \in {"rebuild", "save", "spawn"}
  <2>1. CASE InitializeLedger
    <3>1. pc' # "wipe"
      BY <1>1, <2>1, ApiInitialize DEF LedgerKnown, MemoryKnown
    <3>2. QED
      BY <2>1, <3>1 DEF InitializeLedger
  <2>2. CASE SpawnGenesis
    BY <2>2 DEF SpawnGenesis
  <2>3. QED
    BY <2>1, <2>2
<1>9. QED
  BY <1>6, <1>7, <1>8

(* The block comes before the pointer, so that neither passes the other.     *)
LEMMA DiskPutBlock ==
  ASSUME DiskBase, pc = "save" \/ call = "save", pc' = "index" \/ call' = "index",
         pc' \in AfterSpawn \ {"save"}, call' \notin Undoing \cup {"save"},
         blocks' = WithBlock(blocks, chain[Len(chain)]),
         UNCHANGED <<lastIndex, chain, failedPuts, failedDeletes, deaths, undone>>
  PROVE  DiskSound'
<1> DEFINE tip == chain[Len(chain)]
<1>1. /\ chain \in Seq(Block) /\ Len(chain) \in Nat \ {0}
      /\ tip \in Block /\ tip.index = Len(chain) - 1
      /\ Len(Front(chain)) = Len(chain) - 1
      /\ \A i \in 1 .. Len(chain) - 1 : Front(chain)[i] = chain[i]
      /\ pc \in AfterSpawn
      /\ call \notin Undoing
  <2>1. call \in {"save", "none"}
    BY SavedIsTip
  <2>2. QED
    BY <2>1, SavedIsTip DEF Undoing
<1>2. Failures' = Failures /\ (OneKindOfTrouble' <=> OneKindOfTrouble)
  BY SameTroubles
<1>3. /\ DOMAIN blocks \subseteq Nat /\ lastIndex \in Nat \cup {-1}
      /\ Written = Front(chain) /\ Written' = chain
  BY WrittenFacts DEF Written
<1>4. /\ DOMAIN blocks' = DOMAIN blocks \cup {tip.index}
      /\ \A i \in DOMAIN blocks' : blocks'[i] = IF i = tip.index THEN tip ELSE blocks[i]
  BY DEF WithBlock
<1> HIDE DEF tip
<1>5. tip = chain[Len(chain)]
  BY DEF tip
<1>6. DiskFollows'
  <2>1. SUFFICES ASSUME OneKindOfTrouble PROVE DiskFollows'
    BY <1>2 DEF DiskFollows
  <2>2. ASSUME NEW i \in DOMAIN blocks', i < Len(chain)
        PROVE  blocks'[i] = chain[i + 1]
    <3>1. CASE i = tip.index
      BY <1>1, <1>4, <1>5, <3>1
    <3>2. CASE i # tip.index
      <4>1. i \in DOMAIN blocks /\ i \in Nat /\ i < Len(Front(chain)) /\ i + 1 \in 1 .. Len(chain) - 1
        BY <1>1, <1>3, <1>4, <2>2, <3>2
      <4>2. blocks[i] = Front(chain)[i + 1]
        BY <1>1, <1>3, <2>1, <4>1 DEF DiskBase, DiskSound, DiskFollows
      <4>3. QED
        BY <1>1, <1>4, <3>2, <4>1, <4>2
    <3>3. QED
      BY <3>1, <3>2
  <2>3. ASSUME NEW i \in DOMAIN blocks', i >= Len(chain), i <= lastIndex, ~undone
        PROVE  FALSE
    <3>1. i \in DOMAIN blocks /\ i >= Len(Front(chain))
      BY <1>1, <1>3, <1>4, <2>3
    <3>2. call = "delete"
      BY <1>1, <1>3, <2>1, <2>3, <3>1 DEF DiskBase, DiskSound, DiskFollows
    <3>3. QED
      BY <1>1, <3>2 DEF Undoing
  <2>4. QED
    BY <1>1, <1>3, <2>2, <2>3 DEF DiskFollows, Undoing
<1>7. NothingLeft'
  <2>1. SUFFICES ASSUME deaths = 0, failedDeletes = 0, NEW i \in DOMAIN blocks' PROVE i < Len(chain)
    BY <1>3 DEF NothingLeft
  <2>2. CASE i = tip.index
    BY <1>1, <2>2
  <2>3. CASE i # tip.index
    <3>1. i \in DOMAIN blocks /\ i \in Nat
      BY <1>3, <1>4, <2>3
    <3>2. i < Len(Front(chain))
      BY <1>1, <1>3, <2>1, <3>1 DEF DiskBase, DiskSound, NothingLeft, Undoing
    <3>3. QED
      BY <1>1, <3>1, <3>2
  <2>4. QED
    BY <2>2, <2>3
<1>8. DiskComplete'
  <2>1. SUFFICES ASSUME Failures = 0 PROVE DiskComplete'
    BY <1>2 DEF DiskComplete
  <2>2. \A i \in 0 .. Len(Front(chain)) - 1 : i \in DOMAIN blocks
    BY <1>1, <1>3, <2>1 DEF DiskBase, DiskSound, DiskComplete
  <2>3. lastIndex >= Len(Front(chain)) - 1
    <3>1. pc # "index" /\ call # "index"
      BY SavedIsTip
    <3>2. QED
      BY <1>1, <1>3, <2>1, <3>1 DEF DiskBase, DiskSound, DiskComplete
  <2>4. lastIndex >= Len(chain) - 2
    BY <1>1, <1>3, <2>3
  <2>5. \A i \in 0 .. Len(chain) - 1 : i \in DOMAIN blocks'
    BY <1>1, <1>4, <2>2
  <2>6. pc' \notin {"off", "spawn", "panic"} /\ call' # "delete"
    BY DEF AfterSpawn, Loaded, Undoing
  <2>7. QED
    BY <1>1, <1>3, <2>4, <2>5, <2>6 DEF DiskComplete
<1>9. QED
  BY <1>6, <1>7, <1>8 DEF DiskSound

(* The second Put of SaveBlock makes the new block count.                  *)
LEMMA DiskPutIndex ==
  ASSUME DiskBase, pc = "index" \/ call = "index",
         pc' \in AfterSpawn \ {"save", "index"}, call' \notin Undoing \cup {"save", "index"},
         lastIndex' = Len(chain) - 1,
         UNCHANGED <<blocks, chain, failedPuts, failedDeletes, deaths, undone>>
  PROVE  DiskSound'
<1>1. /\ chain \in Seq(Block) /\ Len(chain) \in Nat \ {0} /\ pc \in AfterSpawn
      /\ pc # "save" /\ call # "save" /\ call \notin Undoing
  <2>1. call \in {"index", "none"} /\ pc \in {"index", "ready"}
    BY SavedIsTip
  <2>2. QED
    BY <2>1, SavedIsTip DEF Undoing
<1>2. Failures' = Failures /\ (OneKindOfTrouble' <=> OneKindOfTrouble)
  BY SameTroubles
<1>3. DOMAIN blocks \subseteq Nat /\ Written = chain /\ Written' = chain
  BY <1>1, WrittenFacts DEF Written
<1>4. \A i \in DOMAIN blocks : ~(i >= Len(chain) /\ i <= Len(chain) - 1)
  BY <1>1, <1>3
<1>5. DiskFollows'
  BY <1>1, <1>2, <1>3, <1>4 DEF DiskBase, DiskSound, DiskFollows, Undoing
<1>6. NothingLeft'
  BY <1>1, <1>3 DEF DiskBase, DiskSound, NothingLeft, Undoing
<1>7. DiskComplete'
  <2>1. SUFFICES ASSUME Failures = 0 PROVE DiskComplete'
    BY <1>2 DEF DiskComplete
  <2>2. \A i \in 0 .. Len(chain) - 1 : i \in DOMAIN blocks
    BY <1>1, <1>3, <2>1 DEF DiskBase, DiskSound, DiskComplete
  <2>3. pc' \notin {"off", "spawn", "panic"} /\ call' # "delete"
    BY DEF AfterSpawn, Loaded, Undoing
  <2>4. QED
    BY <1>1, <1>3, <2>2, <2>3 DEF DiskComplete
<1>8. QED
  BY <1>5, <1>6, <1>7 DEF DiskSound

(* A Put that fails leaves a gap, and nothing behind it.                     *)
LEMMA DiskPutFails ==
  ASSUME DiskBase, pc \in {"save", "index"} \/ call \in {"save", "index"},
         pc' \in AfterSpawn \ {"save", "index"}, call' \notin Undoing \cup {"save", "index"},
         failedPuts' = failedPuts + 1,
         UNCHANGED <<blocks, lastIndex, chain, failedDeletes, deaths, undone>>
  PROVE  DiskSound'
<1>1. /\ chain \in Seq(Block) /\ pc \in AfterSpawn /\ call \notin Undoing
  <2>1. call \in {"save", "index", "none"}
    BY SavedIsTip
  <2>2. QED
    BY <2>1, SavedIsTip DEF Undoing
<1>2. /\ Written \in Seq(Block) /\ Len(Written) <= Len(chain)
      /\ \A i \in 1 .. Len(Written) : Written[i] = chain[i]
      /\ DOMAIN blocks \subseteq Nat /\ Len(Written) \in Nat /\ Len(chain) \in Nat
  BY <1>1, WrittenFacts
<1>3. failedPuts \in Nat /\ failedDeletes \in Nat
  BY DEF DiskBase, HistoryTyped
<1>4. /\ Failures' # 0 /\ Failures' > 0 /\ failedPuts' # 0
      /\ OneKindOfTrouble' => deaths = 0 /\ failedDeletes = 0 /\ OneKindOfTrouble
  BY <1>3 DEF Failures, OneKindOfTrouble
<1>5. Written' = chain
  BY DEF Written
<1>6. deaths = 0 /\ failedDeletes = 0 => \A i \in DOMAIN blocks : i < Len(Written)
  BY <1>1 DEF DiskBase, DiskSound, NothingLeft, Undoing
<1>7. DiskFollows'
  <2>1. SUFFICES ASSUME OneKindOfTrouble' PROVE DiskFollows'
    BY DEF DiskFollows
  <2>2. ASSUME NEW i \in DOMAIN blocks
        PROVE  blocks[i] = chain[i + 1] /\ ~(i >= Len(chain))
    <3>1. i < Len(Written) /\ i \in Nat /\ i + 1 \in 1 .. Len(Written)
      BY <1>2, <1>4, <1>6, <2>1
    <3>2. blocks[i] = Written[i + 1]
      BY <1>1, <1>4, <2>1, <3>1 DEF DiskBase, DiskSound, DiskFollows
    <3>3. QED
      BY <1>2, <3>1, <3>2
  <2>3. QED
    BY <1>5, <2>2 DEF DiskFollows, Undoing
<1>8. NothingLeft'
  <2>1. SUFFICES ASSUME deaths = 0, failedDeletes = 0, NEW i \in DOMAIN blocks PROVE i < Len(chain)
    BY <1>5 DEF NothingLeft
  <2>2. i < Len(Written) /\ i \in Nat
    BY <1>2, <1>6, <2>1
  <2>3. QED
    BY <1>2, <2>2
<1>9. QED
  BY <1>4, <1>7, <1>8 DEF DiskSound, DiskComplete

(* RollbackBlock: what is behind the chain is the block being deleted, or    *)
(* what a DeleteBlock that failed has left.                                  *)
LEMMA DiskCut ==
  ASSUME DiskBase, CutChain
  PROVE  DiskSound'
<1>1. /\ pc = "ready" /\ pc' = "ready" /\ call = "cut" /\ call' = "delete" /\ hand' = hand
      /\ chain' = Front(chain) /\ hand = chain[Len(chain)]
      /\ UNCHANGED <<blocks, lastIndex, failedPuts, failedDeletes, deaths, undone>>
  BY DEF DiskBase, Alone, CutChain, disk, apiHistory, counts
<1>2. /\ Written = chain /\ Written' = chain' /\ chain \in Seq(Block) /\ Len(chain) \in Nat
      /\ DOMAIN blocks \subseteq Nat /\ lastIndex \in Nat \cup {-1}
  BY <1>1, WrittenFacts DEF Written
<1>3. pc \in AfterSpawn /\ pc' \in AfterSpawn
  BY <1>1 DEF AfterSpawn, Loaded
<1>4. Len(chain) > 1 /\ \A i \in 1 .. Len(chain) : chain[i].index = i - 1
  BY <1>1 DEF DiskBase, ApiBase, CallKnown, Alone
<1>5. /\ chain' \in Seq(Block) /\ Len(chain') = Len(chain) - 1
      /\ \A i \in 1 .. Len(chain) - 1 : chain'[i] = chain[i]
  <2>1. chain # <<>>
    BY <1>4
  <2>2. QED
    BY <1>1, <1>2, <2>1, FrontFacts
<1>6. hand.index = Len(chain) - 1 /\ hand.index = Len(chain')
  BY <1>1, <1>2, <1>4, <1>5
<1>7. \A i \in 0 .. Len(chain') - 1 : chain'[i + 1] = chain[i + 1]
  BY <1>2, <1>5
<1>8. Failures' = Failures /\ (OneKindOfTrouble' <=> OneKindOfTrouble)
  BY <1>1, SameTroubles
<1>9. /\ OneKindOfTrouble => \A i \in DOMAIN blocks : i < Len(chain) => blocks[i] = chain[i + 1]
      /\ OneKindOfTrouble /\ ~undone => \A i \in DOMAIN blocks : ~(i >= Len(chain) /\ i <= lastIndex)
      /\ deaths = 0 /\ failedDeletes = 0 => \A i \in DOMAIN blocks : i < Len(chain)
      /\ Failures = 0 => /\ \A i \in 0 .. Len(chain) - 1 : i \in DOMAIN blocks
                         /\ lastIndex >= Len(chain) - 1
  BY <1>1, <1>2, <1>3 DEF DiskBase, DiskSound, DiskFollows, NothingLeft, DiskComplete
<1>10. DiskFollows'
  <2>1. SUFFICES ASSUME OneKindOfTrouble PROVE DiskFollows'
    BY <1>8 DEF DiskFollows
  <2>2. ASSUME NEW i \in DOMAIN blocks, i < Len(chain') PROVE blocks[i] = chain'[i + 1]
    <3>1. i \in 0 .. Len(chain') - 1 /\ i < Len(chain)
      BY <1>2, <1>5, <2>2
    <3>2. QED
      BY <1>7, <1>9, <2>1, <3>1
  <2>3. ASSUME ~undone, NEW i \in DOMAIN blocks, i >= Len(chain'), i <= lastIndex
        PROVE  i = hand.index
    <3>1. ~(i >= Len(chain))
      BY <1>9, <2>1, <2>3
    <3>2. QED
      BY <1>2, <1>5, <1>6, <2>3, <3>1
  <2>4. hand.index \in DOMAIN blocks => blocks[hand.index] = hand
    <3>1. hand.index < Len(chain) /\ hand.index + 1 = Len(chain)
      BY <1>2, <1>6
    <3>2. QED
      BY <1>1, <1>9, <2>1, <3>1
  <2>5. QED
    BY <1>1, <1>2, <2>2, <2>3, <2>4 DEF DiskFollows
<1>11. NothingLeft'
  <2>1. SUFFICES ASSUME deaths = 0, failedDeletes = 0, NEW i \in DOMAIN blocks
                 PROVE  i < Len(chain') \/ i = hand.index
    BY <1>1, <1>2 DEF NothingLeft
  <2>2. i < Len(chain) /\ i \in Nat
    BY <1>2, <1>9, <2>1
  <2>3. QED
    BY <1>2, <1>5, <1>6, <2>2
<1>12. DiskComplete'
  <2>1. SUFFICES ASSUME Failures = 0 PROVE DiskComplete'
    BY <1>8 DEF DiskComplete
  <2>2. /\ \A i \in 0 .. Len(chain') - 1 : i \in DOMAIN blocks
        /\ lastIndex >= Len(chain') - 1
        /\ hand.index \in DOMAIN blocks /\ lastIndex >= hand.index
    BY <1>2, <1>4, <1>5, <1>6, <1>9, <2>1
  <2>3. QED
    BY <1>1, <1>2, <2>2 DEF DiskComplete
<1>13. QED
  BY <1>10, <1>11, <1>12 DEF DiskSound

(* The rest of RollbackBlock, behind the cut.                                *)
LEMMA DiskUndo ==
  ASSUME DiskBase, DeleteBlock \/ DecrementLastIndex \/ DeleteFails \/ ClearState \/ ReplayNext
                     \/ ReturnFromRollback
  PROVE  DiskSound'
<1>1. /\ call \in Undoing /\ call' \notin {"save", "index"} /\ pc' = pc /\ chain' = chain
      /\ UNCHANGED <<failedPuts, deaths>>
  BY DEF DeleteBlock, DecrementLastIndex, DeleteFails, ClearState, ReplayNext, ReturnFromRollback,
     CallerLost, Undoing, vars, apiHistory, counts
<1>2. /\ pc = "ready" /\ Written = chain /\ chain \in Seq(Block) /\ Len(chain) \in Nat
      /\ DOMAIN blocks \subseteq Nat /\ lastIndex \in Nat \cup {-1} /\ hand.index = Len(chain)
  BY <1>1, WrittenFacts DEF Undoing
<1>3. Written' = chain /\ pc \in AfterSpawn /\ pc' \in AfterSpawn
  BY <1>1, <1>2 DEF Written, AfterSpawn, Loaded
<1>4. failedDeletes \in Nat /\ failedPuts \in Nat
  BY DEF DiskBase, HistoryTyped
<1>5. /\ OneKindOfTrouble => \A i \in DOMAIN blocks : i < Len(chain) => blocks[i] = chain[i + 1]
      /\ OneKindOfTrouble /\ (~undone \/ call \in {"clear", "replay"}) =>
           \A i \in DOMAIN blocks : i >= Len(chain) /\ i <= lastIndex =>
             call = "delete" /\ i = hand.index
      /\ OneKindOfTrouble /\ call = "pointer" => hand.index \notin DOMAIN blocks
      /\ deaths = 0 /\ failedDeletes = 0 =>
           \A i \in DOMAIN blocks : i < Len(chain) \/ (call = "delete" /\ i = hand.index)
      /\ Failures = 0 => /\ \A i \in 0 .. Len(chain) - 1 : i \in DOMAIN blocks
                         /\ lastIndex >= Len(chain) - 1
  BY <1>1, <1>2, <1>3 DEF DiskBase, DiskSound, DiskFollows, NothingLeft, DiskComplete, Undoing
<1>6. CASE DeleteBlock \/ DecrementLastIndex \/ ClearState \/ ReplayNext \/ ReturnFromRollback
  <2>1. failedDeletes' = failedDeletes
    BY <1>6 DEF DeleteBlock, DecrementLastIndex, ClearState, ReplayNext, ReturnFromRollback,
       apiHistory, counts
  <2>2. Failures' = Failures /\ (OneKindOfTrouble' <=> OneKindOfTrouble)
    BY <1>1, <2>1, SameTroubles
  <2>3. CASE DeleteBlock
    <3>1. /\ call = "delete" /\ call' = "pointer" /\ hand' = hand
          /\ lastIndex' = lastIndex /\ undone' = undone
          /\ DOMAIN blocks' = DOMAIN blocks \ {hand.index}
          /\ \A i \in DOMAIN blocks' : blocks'[i] = blocks[i]
      BY <2>3 DEF DeleteBlock, apiHistory
    <3>2. DiskFollows'
      BY <1>1, <1>2, <1>3, <1>5, <2>2, <3>1 DEF DiskFollows
    <3>3. NothingLeft'
      BY <1>1, <1>2, <1>3, <1>5, <2>1, <3>1 DEF NothingLeft
    <3>4. DiskComplete'
      <4>1. \A i \in 0 .. Len(chain) - 1 : i # hand.index
        BY <1>2
      <4>2. QED
        BY <1>1, <1>2, <1>3, <1>5, <2>2, <3>1, <4>1 DEF DiskComplete
    <3>5. QED
      BY <3>2, <3>3, <3>4 DEF DiskSound
  <2>4. CASE DecrementLastIndex
    <3>1. /\ call = "pointer" /\ call' = "clear" /\ hand' = hand
          /\ lastIndex' = Len(chain) - 1 /\ undone' = undone /\ blocks' = blocks
      BY <1>2, <2>4 DEF DecrementLastIndex, apiHistory
    <3>2. \A i \in DOMAIN blocks : ~(i >= Len(chain) /\ i <= Len(chain) - 1)
      BY <1>2
    <3>3. DiskFollows'
      BY <1>1, <1>2, <1>3, <1>5, <2>2, <3>1, <3>2 DEF DiskFollows
    <3>4. NothingLeft'
      BY <1>1, <1>2, <1>3, <1>5, <2>1, <3>1 DEF NothingLeft
    <3>5. DiskComplete'
      <4>1. Len(chain) - 1 >= Len(chain) - 1
        BY <1>2
      <4>2. QED
        BY <1>1, <1>2, <1>3, <1>5, <2>2, <3>1, <4>1 DEF DiskComplete
    <3>6. QED
      BY <3>3, <3>4, <3>5 DEF DiskSound
  <2>5. CASE ClearState \/ ReplayNext \/ ReturnFromRollback
    <3>1. /\ call \in {"clear", "replay"} /\ call' \in {"replay", "none"} /\ lastIndex' = lastIndex
          /\ blocks' = blocks
      BY <2>5 DEF ClearState, ReplayNext, ReturnFromRollback, CallerLost, disk, vars
    <3>2. DiskFollows'
      BY <1>1, <1>2, <1>3, <1>5, <2>2, <3>1 DEF DiskFollows
    <3>3. NothingLeft'
      BY <1>1, <1>2, <1>3, <1>5, <2>1, <3>1 DEF NothingLeft
    <3>4. DiskComplete'
      BY <1>1, <1>2, <1>3, <1>5, <2>2, <3>1 DEF DiskComplete
    <3>5. QED
      BY <3>2, <3>3, <3>4 DEF DiskSound
  <2>6. QED
    BY <1>6, <2>3, <2>4, <2>5
<1>7. CASE DeleteFails
  <2>1. /\ call' = "none" /\ undone' /\ failedDeletes' = failedDeletes + 1
        /\ blocks' = blocks
    BY <1>7 DEF DeleteFails, disk, vars, CallerLost
  <2>2. Failures' # 0 /\ failedDeletes' # 0 /\ (OneKindOfTrouble' => OneKindOfTrouble)
    BY <1>1, <1>4, <2>1 DEF Failures, OneKindOfTrouble
  <2>3. DiskFollows'
    BY <1>2, <1>3, <1>5, <2>1, <2>2 DEF DiskFollows
  <2>4. NothingLeft' /\ DiskComplete'
    BY <2>2 DEF NothingLeft, DiskComplete
  <2>5. QED
    BY <2>3, <2>4 DEF DiskSound
<1>8. QED
  BY <1>6, <1>7

(* MineBlock is at rest while one of them is at work.                        *)
LEMMA CallsReady ==
  ASSUME DiskBase, RollbackBlock \/ AppendBlockDirectly, ~overlapped'
  PROVE  pc = "ready" /\ pc' = "ready"
<1>1. UNCHANGED pc
  BY CallsKeep DEF DiskBase
<1>2. Alone'
  BY AloneStep DEF DiskBase, ApiNext
<1>3. call # "none" \/ call' # "none"
  BY DEF RollbackBlock, BeginRollback, ReadMempool, PushTransfer, CutChain, DeleteBlock,
     DecrementLastIndex, DeleteFails, ClearState, ReplayNext, ReturnFromRollback,
     AppendBlockDirectly, CheckBlock, Accept, AppendChecked, SaveChecked, SaveFails, RebuildState
<1>4. (call # "none" => pc = "ready") /\ (call' # "none" => pc' = "ready")
  BY <1>2 DEF Alone, DiskBase
<1>5. QED
  BY <1>1, <1>3, <1>4

(* MineBlock, and loading before it.                                         *)
LEMMA DiskMining ==
  ASSUME DiskBase, Mining, ~overlapped'
  PROVE  DiskSound'
<1>1. /\ ApiBase /\ DiskSound /\ call = "none" /\ call' = "none" /\ hand' = hand
      /\ call \notin Undoing /\ call' \notin Undoing
  BY AloneMining, ApiMining DEF DiskBase, caller, Undoing
<1>2. LedgerKnown
  BY <1>1 DEF ApiBase
<1>3. CASE LedgerStep
  <2>1. UNCHANGED apiHistory /\ UNCHANGED <<failedPuts, failedDeletes, deaths, undone>>
    BY <1>3 DEF LedgerStep, apiHistory, counts
  <2>2. CASE InitializeLedger \/ SpawnGenesis
    BY <1>1, <2>1, <2>2, DiskLoad
  <2>3. CASE PutBlock
    <3>1. /\ pc = "save" /\ pc' = "index" /\ chain' = chain /\ lastIndex' = lastIndex
          /\ blocks' = WithBlock(blocks, newBlock)
      BY <2>3 DEF PutBlock
    <3>2. newBlock = chain[Len(chain)] /\ pc' \in AfterSpawn \ {"save"}
      BY <3>1, SavedIsTip DEF AfterSpawn
    <3>3. QED
      BY <1>1, <2>1, <3>1, <3>2, DiskPutBlock
  <2>4. CASE PutLastIndex
    <3>1. /\ pc = "index" /\ pc' \in {"ready", "credit"} /\ chain' = chain /\ blocks' = blocks
          /\ lastIndex' = newBlock.index
      BY <2>4 DEF PutLastIndex
    <3>2. newBlock.index = Len(chain) - 1 /\ pc' \in AfterSpawn \ {"save", "index"}
      BY <3>1, SavedIsTip DEF AfterSpawn, Loaded
    <3>3. QED
      BY <1>1, <2>1, <3>1, <3>2, DiskPutIndex
  <2>5. CASE RebuildTransfer \/ RebuildReward \/ VerifyConsensusIntegrity \/ PackTransfer \/ EndSelect
               \/ AssembleBlock \/ FindBlock \/ CreditMiner
    <3>1. /\ pc \in {"rebuild", "verify", "select", "assemble", "mining", "credit"}
          /\ pc' \in {"rebuild", "verify", "ready", "select", "assemble", "mining", "commit", "panic"}
          /\ chain' = chain /\ blocks' = blocks /\ lastIndex' = lastIndex
      BY <2>5 DEF RebuildTransfer, RebuildReward, VerifyConsensusIntegrity, PackTransfer, EndSelect,
         AssembleBlock, FindBlock, CreditMiner, disk
    <3>2. Written' = Written
      BY <1>1, <3>1 DEF Written
    <3>3. CASE pc' = "panic"
      BY <1>1, <2>1, <3>1, <3>3, DiskDown
    <3>4. CASE pc' # "panic"
      <4>1. pc \in AfterSpawn \ {"index"} /\ pc' \in AfterSpawn \ {"index"}
        BY <3>1, <3>4 DEF AfterSpawn, Loaded
      <4>2. QED
        BY <1>1, <2>1, <3>1, <3>2, <4>1, DiskQuiet DEF DiskSame
    <3>5. QED
      BY <3>3, <3>4
  <2>6. CASE AppendBlock
    <3>1. /\ pc = "commit" /\ pc' = "save" /\ Front(chain') = chain
          /\ blocks' = blocks /\ lastIndex' = lastIndex
      BY <1>2, <2>6, ApiAppend DEF AppendBlock, disk
    <3>2. Written' = Written
      BY <1>1, <3>1 DEF Written
    <3>3. pc \in AfterSpawn \ {"index"} /\ pc' \in AfterSpawn \ {"index"}
      BY <3>1 DEF AfterSpawn, Loaded
    <3>4. QED
      BY <1>1, <2>1, <3>1, <3>2, <3>3, DiskQuiet DEF DiskSame
  <2>7. QED
    BY <1>1, <1>3, <2>2, <2>3, <2>4, <2>5, <2>6, LedgerSteps
<1>4. CASE CallMineBlock \/ Skip
  <2>1. /\ pc \in {"ready", "select"} /\ pc' = "select" /\ chain' = chain
        /\ UNCHANGED <<blocks, lastIndex, failedPuts, failedDeletes, deaths, undone>>
    BY <1>4 DEF CallMineBlock, BeginMine, Skip, SkipTransfer, disk, counts
  <2>2. Written' = Written
    BY <1>1, <2>1 DEF Written
  <2>3. pc \in AfterSpawn \ {"index"} /\ pc' \in AfterSpawn \ {"index"}
    BY <2>1 DEF AfterSpawn, Loaded
  <2>4. QED
    BY <1>1, <2>1, <2>2, <2>3, DiskQuiet DEF DiskSame
<1>5. CASE CutPanics
  <2>1. pc' = "panic" /\ UNCHANGED <<blocks, lastIndex, failedPuts, failedDeletes>>
    BY <1>5 DEF CutPanics, disk, apiHistory, counts
  <2>2. QED
    BY <1>1, <2>1, DiskDown
<1>6. CASE PutFails
  <2>1. /\ pc \in {"save", "index"} /\ pc' \in {"ready", "credit"} /\ failedPuts' = failedPuts + 1
        /\ UNCHANGED <<blocks, lastIndex, chain, failedDeletes, deaths, undone>>
    BY <1>6 DEF PutFails, disk
  <2>2. pc' \in AfterSpawn \ {"save", "index"}
    BY <2>1 DEF AfterSpawn, Loaded
  <2>3. QED
    BY <1>1, <2>1, <2>2, DiskPutFails
<1>7. QED
  BY <1>3, <1>4, <1>5, <1>6 DEF Mining

(* AppendBlockDirectly, and RollbackBlock.                                   *)
LEMMA DiskCalls ==
  ASSUME DiskBase, RollbackBlock \/ AppendBlockDirectly, ~overlapped'
  PROVE  DiskSound'
<1>1. /\ ApiBase /\ DiskSound /\ pc = "ready" /\ pc' = "ready"
      /\ pc \in AfterSpawn \ {"save", "index"} /\ pc' \in AfterSpawn \ {"save", "index"}
  BY CallsReady DEF DiskBase, AfterSpawn, Loaded
<1>2. CASE BeginRollback \/ ReadMempool \/ PushTransfer
  <2>1. /\ call \notin Undoing \cup {"save", "index"} /\ call' \notin Undoing \cup {"save", "index"}
        /\ chain' = chain
        /\ UNCHANGED <<blocks, lastIndex, failedPuts, failedDeletes, deaths, undone>>
    BY <1>2 DEF BeginRollback, ReadMempool, PushTransfer, Undoing, vars, disk, apiHistory, counts
  <2>2. Written' = Written
    BY <1>1, <2>1 DEF Written
  <2>3. QED
    BY <1>1, <2>1, <2>2, DiskQuiet DEF DiskSame
<1>3. CASE CutChain
  BY <1>3, DiskCut
<1>4. CASE DeleteBlock \/ DecrementLastIndex \/ DeleteFails \/ ClearState \/ ReplayNext \/ ReturnFromRollback
  BY <1>4, DiskUndo
<1>5. CASE CheckBlock
  <2>1. /\ call = "none" /\ call' = "append" /\ chain' = chain
        /\ UNCHANGED <<blocks, lastIndex, failedPuts, failedDeletes, deaths, undone>>
    <3>1. PICK block : Accept(block)
      BY <1>5 DEF CheckBlock
    <3>2. QED
      BY <1>5, <3>1 DEF CheckBlock, Accept, disk
  <2>2. Written' = Written
    BY <1>1, <2>1 DEF Written
  <2>3. QED
    BY <1>1, <2>1, <2>2, DiskQuiet DEF DiskSame, Undoing
<1>6. CASE AppendChecked
  <2>1. /\ call = "append" /\ call' = "save" /\ Front(chain') = chain
        /\ UNCHANGED <<blocks, lastIndex, failedPuts, failedDeletes, deaths, undone>>
    BY <1>1, <1>6, ApiAppendChecked DEF AppendChecked, disk, apiHistory, counts
  <2>2. Written' = Written
    BY <1>1, <2>1 DEF Written
  <2>3. QED
    BY <1>1, <2>1, <2>2, DiskQuiet DEF DiskSame, Undoing
<1>7. CASE SaveChecked
  <2>1. /\ chain' = chain
        /\ UNCHANGED <<failedPuts, failedDeletes, deaths, undone>>
        /\ \/ /\ call = "save" /\ call' = "index" /\ lastIndex' = lastIndex
              /\ blocks' = WithBlock(blocks, hand)
           \/ call = "index" /\ call' = "credit" /\ blocks' = blocks /\ lastIndex' = hand.index
    BY <1>7 DEF SaveChecked, apiHistory, counts
  <2>2. hand = chain[Len(chain)] /\ chain[Len(chain)].index = Len(chain) - 1
    BY <2>1, SavedIsTip
  <2>3. CASE call = "save"
    <3>1. call' = "index" /\ lastIndex' = lastIndex /\ blocks' = WithBlock(blocks, chain[Len(chain)])
      BY <2>1, <2>2, <2>3
    <3>2. QED
      BY <1>1, <2>1, <2>3, <3>1, DiskPutBlock DEF Undoing
  <2>4. CASE call = "index"
    <3>1. call' = "credit" /\ blocks' = blocks /\ lastIndex' = Len(chain) - 1
      BY <2>1, <2>2, <2>4
    <3>2. QED
      BY <1>1, <2>1, <2>4, <3>1, DiskPutIndex DEF Undoing
  <2>5. QED
    BY <2>1, <2>3, <2>4
<1>8. CASE SaveFails
  <2>1. /\ call \in {"save", "index"} /\ call' = "credit" /\ failedPuts' = failedPuts + 1
        /\ UNCHANGED <<blocks, lastIndex, chain, failedDeletes, deaths, undone>>
    BY <1>8 DEF SaveFails, vars, disk
  <2>2. QED
    BY <1>1, <2>1, DiskPutFails DEF Undoing
<1>9. CASE RebuildState
  <2>1. /\ call = "credit" /\ call' = "none" /\ chain' = chain
        /\ UNCHANGED <<blocks, lastIndex, failedPuts, failedDeletes, deaths, undone>>
    BY <1>9 DEF RebuildState, CallerLost, disk, apiHistory, counts
  <2>2. Written' = Written
    BY <1>1, <2>1 DEF Written
  <2>3. QED
    BY <1>1, <2>1, <2>2, DiskQuiet DEF DiskSame, Undoing
<1>10. QED
  BY <1>2, <1>3, <1>4, <1>5, <1>6, <1>7, <1>8, <1>9 DEF RollbackBlock, AppendBlockDirectly

(* Every step keeps what is known of the disk.                               *)
LEMMA DiskStep ==
  ASSUME ApiBase, HistoryTyped, Alone, FirstLoad, DiskKnown, [ApiNext]_apiVars
  PROVE  DiskKnown'
<1>1. HistoryTyped' /\ FirstLoad' /\ overlaps' >= overlaps
  BY HistoryStep, FirstLoadStep
<1>2. SUFFICES ASSUME overlaps' = 0 PROVE BlockValid' /\ DiskSound'
  BY DEF DiskKnown
<1>3. overlaps = 0
  <2>1. overlaps \in Nat
    BY DEF HistoryTyped
  <2>2. QED
    BY <1>1, <1>2, <2>1
<1>4. DiskBase /\ ~overlapped'
  BY <1>1, <1>2, <1>3 DEF FirstLoad, DiskKnown, DiskBase
<1>5. BlockValid'
  BY <1>4, BlockValidStep
<1>6. DiskSound /\ call \in Calls
  BY <1>4 DEF DiskBase, ApiBase, CallKnown
<1>7. CASE Mining
  BY <1>4, <1>5, <1>7, DiskMining
<1>8. CASE RollbackBlock \/ AppendBlockDirectly
  BY <1>4, <1>5, <1>8, DiskCalls
<1>9. CASE (\E tx \in Transfers : AddToMempool(tx)) \/ UNCHANGED apiVars
  <2>1. UNCHANGED <<pc, call, hand, chain, blocks, lastIndex, failedPuts, failedDeletes, deaths, undone>>
    BY <1>9 DEF AddToMempool, Enqueue, apiVars, vars, caller, disk, apiHistory, counts
  <2>2. Written' = Written
    BY <2>1 DEF Written
  <2>3. QED
    BY <1>5, <1>6, <2>1, <2>2, DiskStays DEF DiskSame
<1>10. CASE Die
  <2>1. /\ pc' = "off" /\ call' = "none"
        /\ UNCHANGED <<blocks, lastIndex, failedPuts, failedDeletes>>
    BY <1>10 DEF Die, Stop, CallerLost, disk
  <2>2. QED
    BY <1>4, <1>5, <2>1, DiskDown
<1>11. QED
  BY <1>5, <1>7, <1>8, <1>9, <1>10 DEF ApiNext

(* The invariant of the disk.                                                *)
LEMMA DiskInvariant == ApiSpec => []DiskKnown
<1>1. ApiInit => DiskKnown
  <2>1. SUFFICES ASSUME ApiInit PROVE DiskKnown
    OBVIOUS
  <2>2. /\ pc = "off" /\ call = "none" /\ blocks = <<>>
    BY <2>1 DEF ApiInit, Init
  <2>3. DOMAIN blocks = {} /\ pc \notin AfterSpawn
    BY <2>2 DEF AfterSpawn, Loaded
  <2>4. QED
    BY <2>2, <2>3 DEF BlockValid, SavesTip, DiskKnown, DiskSound, DiskFollows, NothingLeft, DiskComplete
<1>2. ApiBase /\ HistoryTyped /\ Alone /\ FirstLoad /\ DiskKnown /\ [ApiNext]_apiVars => DiskKnown'
  BY DiskStep
<1>3. QED
  BY <1>1, <1>2, ApiBaseInvariant, AloneInvariant, FirstLoadInvariant, PTL DEF ApiSpec

(* StoredIsPrefix: whatever is killed, and whatever writes of one kind fail, *)
(* a restart loads a beginning of the chain in memory, with the block that   *)
(* is just being deleted at most, if no call without the mutex ever ran      *)
(* beside MineBlock.                                                         *)
THEOREM ApiStoredIsPrefix == ApiSpec => []StoredIsPrefix
<1>1. ASSUME ApiBase, HistoryTyped, Alone, FirstLoad, DiskKnown PROVE StoredIsPrefix
  <2>1. SUFFICES ASSUME Running, overlaps = 0, OneKindOfTrouble, Failures > 0 => ~undone
                 PROVE  \/ IsPrefix(Stored, chain)
                        \/ call = "delete" /\ Stored = Append(chain, hand)
    BY DEF StoredIsPrefix
  <2>2. DiskBase
    BY <1>1, <2>1 DEF FirstLoad, DiskKnown, DiskBase
  <2>3. ~undone
    <3>1. failedDeletes = 0 => ~undone
      BY <1>1 DEF FirstLoad
    <3>2. failedDeletes \in Nat /\ failedPuts \in Nat
      BY <1>1 DEF HistoryTyped
    <3>3. Failures = 0 \/ Failures > 0
      BY <3>2 DEF Failures
    <3>4. Failures = 0 => failedDeletes = 0
      BY <3>2 DEF Failures
    <3>5. QED
      BY <2>1, <3>1, <3>3, <3>4
  <2>4. pc \in AfterSpawn
    BY <2>1 DEF Running, AfterSpawn, Loaded
  <2> DEFINE n == Len(Stored)
             m == Len(Written)
  <2>5. /\ Stored \in Seq(Block) /\ n \in 0 .. lastIndex + 1 /\ lastIndex \in Nat \cup {-1}
        /\ \A i \in 0 .. n - 1 : i \in DOMAIN blocks /\ blocks[i] = Stored[i + 1] /\ i <= lastIndex
    BY <1>1, StoredIsRead DEF ApiBase, LedgerKnown, TypeOK
  <2>6. /\ Written \in Seq(Block) /\ m \in Nat /\ chain \in Seq(Block)
        /\ m <= Len(chain) /\ \A i \in 1 .. m : Written[i] = chain[i]
    BY <2>2, WrittenFacts
  <2>7. /\ \A i \in 0 .. n - 1 : i < m => Stored[i + 1] = chain[i + 1]
        /\ \A i \in 0 .. n - 1 : i >= m => call = "delete" /\ i = hand.index
    <3>1. ASSUME NEW i \in 0 .. n - 1, i < m PROVE Stored[i + 1] = chain[i + 1]
      <4>1. blocks[i] = Written[i + 1]
        BY <2>1, <2>2, <2>4, <2>5, <3>1 DEF DiskBase, DiskSound, DiskFollows
      <4>2. i + 1 \in 1 .. m
        BY <2>5, <2>6, <3>1
      <4>3. QED
        BY <2>5, <2>6, <3>1, <4>1, <4>2
    <3>2. ASSUME NEW i \in 0 .. n - 1, i >= m PROVE call = "delete" /\ i = hand.index
      BY <2>1, <2>2, <2>3, <2>4, <2>5, <3>2 DEF DiskBase, DiskSound, DiskFollows
    <3>3. QED
      BY <3>1, <3>2
  <2> HIDE DEF m
  <2>8. CASE n <= m
    <3>1. \A i \in 1 .. n : Stored[i] = chain[i]
      <4>1. TAKE i \in 1 .. n
      <4>2. i - 1 \in 0 .. n - 1 /\ i - 1 < m /\ (i - 1) + 1 = i
        BY <2>5, <2>6, <2>8
      <4>3. QED
        BY <2>7, <4>2
    <3>2. n <= Len(chain) /\ SubSeq(Stored, 1, n) = SubSeq(chain, 1, n)
      <4>1. n \in Nat /\ n <= Len(chain) /\ Len(chain) \in Nat
        <5>1. n \in Nat /\ m \in Nat /\ Len(chain) \in Nat /\ m <= Len(chain)
          BY <2>5, <2>6
        <5>2. QED
          BY <5>1, <2>8
      <4>2. /\ SubSeq(Stored, 1, n) \in Seq(Block) /\ Len(SubSeq(Stored, 1, n)) = n
            /\ \A i \in 1 .. n : SubSeq(Stored, 1, n)[i] = Stored[i]
        BY <2>5, <4>1
      <4>3. /\ SubSeq(chain, 1, n) \in Seq(Block) /\ Len(SubSeq(chain, 1, n)) = n
            /\ \A i \in 1 .. n : SubSeq(chain, 1, n)[i] = chain[i]
        BY <2>6, <4>1
      <4>4. QED
        BY <3>1, <4>1, <4>2, <4>3, SeqEqual
    <3>3. QED
      BY <3>2 DEF IsPrefix
  <2>9. CASE ~(n <= m)
    <3>1. m \in 0 .. n - 1
      BY <2>5, <2>6, <2>9
    <3>2. call = "delete" /\ m = hand.index
      BY <2>6, <2>7, <3>1
    <3>3. m = Len(chain) /\ hand \in Block
      BY <2>2, <3>2, WrittenFacts DEF Undoing
    <3>4. n = m + 1
      <4>1. ~(m + 1 <= n - 1)
        <5>1. SUFFICES ASSUME m + 1 <= n - 1 PROVE FALSE
          OBVIOUS
        <5>2. m + 1 \in 0 .. n - 1 /\ m + 1 >= m /\ m + 1 # m
          BY <2>5, <2>6, <5>1
        <5>3. QED
          BY <2>7, <3>2, <5>2
      <4>2. QED
        BY <2>5, <2>6, <2>9, <4>1
    <3>5. Stored[n] = hand
      <4>1. m \in DOMAIN blocks /\ blocks[m] = Stored[m + 1]
        BY <2>5, <3>1
      <4>2. blocks[m] = hand
        BY <2>1, <2>2, <3>2, <4>1 DEF DiskBase, DiskSound, DiskFollows
      <4>3. QED
        BY <3>4, <4>1, <4>2
    <3>6. \A i \in 1 .. m : Stored[i] = chain[i]
      <4>1. TAKE i \in 1 .. m
      <4>2. i - 1 \in 0 .. n - 1 /\ i - 1 < m /\ (i - 1) + 1 = i
        BY <2>5, <2>6, <2>9
      <4>3. QED
        BY <2>7, <4>2
    <3>7. Stored = Append(chain, hand)
      BY <2>5, <2>6, <3>3, <3>4, <3>5, <3>6, AppendedIs
    <3>8. QED
      BY <3>2, <3>7
  <2>10. QED
    BY <2>8, <2>9
<1>2. QED
  BY <1>1, ApiBaseInvariant, AloneInvariant, FirstLoadInvariant, DiskInvariant, PTL

----------------------------------------------------------------------------
(* How what is stored changes *)

(* While no write failed, a restart would load what is written, and a block  *)
(* only counts once last_index reaches it.                                   *)
SoundlyStored ==
  Failures = 0 /\ overlaps = 0 /\ pc \in AfterSpawn =>
    /\ call \notin {"delete", "save", "index"} /\ pc \notin {"save", "index"} => Stored = chain
    /\ call = "delete" => Stored = Append(chain, hand)
    /\ pc = "save" \/ call = "save" => Stored = Front(chain)
    /\ pc = "index" \/ call = "index" => Stored \in {chain, Front(chain)}

(* What is known of the disk says what a restart would load.               *)
LEMMA StoredSoundly ==
  ASSUME ApiBase, HistoryTyped, Alone, FirstLoad, DiskKnown
  PROVE  SoundlyStored
<1>1. SUFFICES ASSUME Failures = 0, overlaps = 0, pc \in AfterSpawn
               PROVE  /\ call \notin {"delete", "save", "index"} /\ pc \notin {"save", "index"} =>
                           Stored = chain
                      /\ call = "delete" => Stored = Append(chain, hand)
                      /\ pc = "save" \/ call = "save" => Stored = Front(chain)
                      /\ pc = "index" \/ call = "index" => Stored \in {chain, Front(chain)}
  BY DEF SoundlyStored
<1> DEFINE m == Len(Written)
           saving == pc = "save" \/ call = "save"
           halfway == pc = "index" \/ call = "index"
<1>2. DiskBase /\ TypeOK
  BY <1>1 DEF FirstLoad, DiskKnown, DiskBase, ApiBase, LedgerKnown
<1>3. ~undone /\ OneKindOfTrouble
  BY <1>1 DEF FirstLoad, HistoryTyped, Failures, OneKindOfTrouble
<1>4. /\ Written \in Seq(Block) /\ m \in Nat /\ lastIndex \in Nat \cup {-1}
      /\ DOMAIN blocks \subseteq Nat /\ chain \in Seq(Block)
      /\ ~saving => Written = chain
      /\ saving => Written = Front(chain)
      /\ call = "delete" => pc = "ready" /\ hand.index = m /\ hand \in Block /\ Written = chain
  BY <1>2, WrittenFacts DEF Undoing
<1>5. \A i \in 0 .. m - 1 : i \in DOMAIN blocks /\ blocks[i] = Written[i + 1]
  <2>1. TAKE i \in 0 .. m - 1
  <2>2. i \in DOMAIN blocks
    BY <1>1, <1>2 DEF DiskBase, DiskSound, DiskComplete
  <2>3. i < m
    BY <1>4
  <2>4. QED
    BY <1>1, <1>2, <1>3, <2>2, <2>3 DEF DiskBase, DiskSound, DiskFollows
<1>6. \A i \in DOMAIN blocks : i >= m /\ i <= lastIndex => call = "delete" /\ i = hand.index
  BY <1>1, <1>2, <1>3 DEF DiskBase, DiskSound, DiskFollows
<1>7. lastIndex >= m - (IF halfway THEN 2 ELSE 1)
  BY <1>1, <1>2 DEF DiskBase, DiskSound, DiskComplete
<1>8. call # "delete" /\ lastIndex >= m - 1 => Stored = Written
  <2>1. SUFFICES ASSUME call # "delete", lastIndex >= m - 1 PROVE Stored = Written
    OBVIOUS
  <2>2. lastIndex = m - 1 \/ m \notin DOMAIN blocks
    <3>1. m \in DOMAIN blocks => ~(m <= lastIndex)
      BY <1>4, <1>6, <2>1
    <3>2. QED
      BY <1>4, <2>1, <3>1
  <2>3. QED
    BY <1>2, <1>4, <1>5, <2>1, <2>2, StoredIs
<1>9. CASE call = "delete"
  <2> DEFINE c == Append(chain, hand)
  <2>1. /\ pc = "ready" /\ hand \in Block /\ chain \in Seq(Block) /\ Written = chain
        /\ hand.index = m
    BY <1>4, <1>9
  <2>2. m \in DOMAIN blocks /\ blocks[m] = hand /\ lastIndex >= m
    BY <1>1, <1>2, <1>3, <1>9, <2>1 DEF DiskBase, DiskSound, DiskComplete, DiskFollows
  <2>3. c \in Seq(Block) /\ Len(c) = m + 1 /\ c[m + 1] = hand
        /\ \A i \in 1 .. m : c[i] = Written[i]
    BY <1>4, <2>1
  <2>4. \A i \in 0 .. Len(c) - 1 : i \in DOMAIN blocks /\ blocks[i] = c[i + 1]
    <3>1. TAKE i \in 0 .. Len(c) - 1
    <3>2. CASE i = m
      BY <2>2, <2>3, <3>2
    <3>3. CASE i # m
      <4>1. i \in 0 .. m - 1 /\ i + 1 \in 1 .. m
        BY <1>4, <2>3, <3>3
      <4>2. QED
        BY <1>5, <2>3, <4>1
    <3>4. QED
      BY <3>2, <3>3
  <2> HIDE DEF c
  <2>5. lastIndex >= Len(c) - 1 /\ (lastIndex = Len(c) - 1 \/ Len(c) \notin DOMAIN blocks)
    <3>1. Len(c) = m + 1 /\ m \in Nat /\ lastIndex \in Int /\ lastIndex >= m
      BY <1>4, <2>2, <2>3
    <3>2. m + 1 \in DOMAIN blocks => ~(m + 1 <= lastIndex)
      BY <1>4, <1>6, <2>1
    <3>3. QED
      BY <3>1, <3>2
  <2>6. Stored = c
    BY <1>2, <2>3, <2>4, <2>5, StoredIs
  <2>7. QED
    BY <1>9, <2>1, <2>6 DEF c
<1>10. CASE call # "delete" /\ ~halfway
  <2>1. Stored = Written
    BY <1>4, <1>7, <1>8, <1>10
  <2>2. QED
    BY <1>4, <1>10, <2>1
<1>11. CASE call # "delete" /\ halfway
  <2>1. /\ Written = chain /\ ~saving
    <3>1. (pc = "index" => call = "none") /\ (call = "index" => pc = "ready")
      BY <1>2, SavedIsTip
    <3>2. ~saving
      BY <1>11, <3>1
    <3>3. QED
      BY <1>4, <3>2
  <2>2. Stored \in {chain, Front(chain)}
    <3>1. CASE lastIndex >= m - 1
      BY <1>8, <1>11, <2>1, <3>1
    <3>2. CASE ~(lastIndex >= m - 1)
      <4>1. lastIndex = m - 2
        BY <1>4, <1>7, <1>11, <3>2
      <4>2. /\ Front(chain) \in Seq(Block) /\ Len(Front(chain)) = m - 1
            /\ \A i \in 1 .. m - 1 : Front(chain)[i] = chain[i]
        BY <1>2, <1>11, <2>1, SavedIsTip
      <4>3. \A i \in 0 .. Len(Front(chain)) - 1 :
              i \in DOMAIN blocks /\ blocks[i] = Front(chain)[i + 1]
        <5>1. TAKE i \in 0 .. Len(Front(chain)) - 1
        <5>2. i \in 0 .. m - 1 /\ i + 1 \in 1 .. m - 1
          BY <1>4, <4>2
        <5>3. QED
          BY <1>5, <2>1, <4>2, <5>2
      <4>4. lastIndex >= Len(Front(chain)) - 1 /\ lastIndex = Len(Front(chain)) - 1
        BY <1>4, <4>1, <4>2
      <4>5. Stored = Front(chain)
        BY <1>2, <4>2, <4>3, <4>4, StoredIs
      <4>6. QED
        BY <4>5
    <3>3. QED
      BY <3>1, <3>2
  <2>3. QED
    BY <1>11, <2>1, <2>2
<1>12. QED
  BY <1>9, <1>10, <1>11

(* A block that SaveBlock has written is a genesis block or a successor.     *)
LEMMA GrownByBlock ==
  ASSUME DiskBase, pc \in {"save", "index"} \/ call \in {"save", "index"}, params' = params,
         Stored = Front(chain), Stored' = chain
  PROVE  B!Create \/ B!Extend
<1> DEFINE tip == chain[Len(chain)]
<1>1. /\ chain \in Seq(Block) /\ chain # <<>> /\ Len(chain) \in Nat \ {0}
      /\ tip \in Block /\ tip.index = Len(chain) - 1
      /\ Front(chain) \in Seq(Block) /\ Len(Front(chain)) = Len(chain) - 1
      /\ \A i \in 1 .. Len(chain) - 1 : Front(chain)[i] = chain[i]
      /\ chain = Append(Front(chain), tip)
      /\ pc \in {"save", "index"} => newBlock = tip
      /\ call \in {"save", "index"} => hand = tip
  BY SavedIsTip
<1>2. CASE Len(chain) = 1
  <2>1. Front(chain) = <<>> /\ tip.index = 0 /\ chain = <<tip>> /\ chain[1] = tip
    <3>1. Front(chain) = <<>>
      BY <1>1, <1>2, EmptySeq
    <3>2. QED
      BY <1>1, <1>2, <3>1
  <2> HIDE DEF tip
  <2>2. call \notin {"save", "index"}
    BY <1>1, <2>1 DEF DiskBase, ApiBase, CallKnown
  <2>3. B!IsGenesis(params, tip)
    BY <1>1, <2>1, <2>2 DEF DiskBase, ApiBase, LedgerKnown, BlockKnown
  <2>4. B!Create
    BY <1>2, <2>1, <2>3 DEF B!Create
  <2>5. QED
    BY <2>4
<1>3. CASE Len(chain) # 1
  <2>1. /\ Len(chain) - 1 \in Nat \ {0} /\ Len(Front(chain)) = Len(chain) - 1
        /\ tip.index > 0
    BY <1>1, <1>3
  <2>2. Front(chain) # <<>> /\ Front(chain)[1] = chain[1]
    <3>1. Front(chain) # <<>>
      BY <2>1
    <3>2. 1 \in 1 .. Len(chain) - 1
      BY <2>1
    <3>3. QED
      BY <1>1, <3>1, <3>2
  <2>3. Front(chain)[Len(Front(chain))] = chain[Len(chain) - 1]
    <3>1. Len(chain) - 1 \in 1 .. Len(chain) - 1
      BY <2>1
    <3>2. QED
      BY <1>1, <3>1
  <2>4. SameGenesisPolicy(params, chain[1])
    BY <1>1 DEF DiskBase, ApiBase, LedgerKnown, OnePolicy
  <2>5. B!IsSuccessor(params, tip, chain[Len(chain) - 1],
                      GetTotalCirculatingSupply(Front(chain)))
    <3>1. SavesTip
      BY <1>1, <2>1 DEF SavesTip
    <3>2. QED
      BY <3>1 DEF DiskBase, BlockValid
  <2>6. Len(chain) = Len(Front(chain)) + 1
    BY <1>1
  <2> HIDE DEF tip
  <2>7. tip = chain[Len(chain)]
    BY DEF tip
  <2>8. B!Extend
    <3>1. /\ Stored # <<>> /\ SameGenesisPolicy(params, Stored[1]) /\ Len(Stored') = Len(Stored) + 1
          /\ Stored'[Len(Stored')] = tip /\ Stored' = Append(Stored, tip)
      BY <1>1, <2>2, <2>4, <2>6, <2>7
    <3>2. B!IsSuccessor(params, tip, Stored[Len(Stored)], GetTotalCirculatingSupply(Stored))
      BY <2>3, <2>5
    <3>3. QED
      BY <3>1, <3>2, SameRules DEF B!Extend
  <2>9. QED
    BY <2>8
<1>4. QED
  BY <1>2, <1>3

(* None of either kind failed if none failed.                              *)
LEMMA NoneOfBoth ==
  ASSUME NEW n \in Nat, NEW m \in Nat, n + m = 0
  PROVE  n = 0 /\ m = 0
OBVIOUS

(* DurableByBlocks: while no write fails and no call without the mutex runs  *)
(* beside MineBlock, a restart at any moment would find the chain changed by *)
(* one valid block on top, or by its last one taken off, whatever is killed  *)
(* in between.                                                               *)
THEOREM ApiDurableByBlocks == ApiSpec => DurableByBlocks
<1> DEFINE Durable == Failures' = 0 /\ overlaps' = 0 => B!Create \/ B!Extend \/ Stored' = Front(Stored)
           Known == ApiBase /\ HistoryTyped /\ Alone /\ FirstLoad /\ DiskKnown
<1>1. ASSUME Known, SoundlyStored, SoundlyStored', [ApiNext]_apiVars
      PROVE  [Durable]_Stored
  <2>1. SUFFICES ASSUME Failures' = 0, overlaps' = 0
                 PROVE  B!Create \/ B!Extend \/ Stored' = Front(Stored) \/ Stored' = Stored
    OBVIOUS
  <2>2. /\ Failures = 0 /\ overlaps = 0 /\ ~overlapped'
    <3>1. /\ HistoryTyped' /\ FirstLoad' /\ overlaps' >= overlaps
          /\ failedPuts' >= failedPuts /\ failedDeletes' >= failedDeletes
      BY <1>1, HistoryStep, FirstLoadStep
    <3>2. /\ overlaps \in Nat /\ failedPuts \in Nat /\ failedDeletes \in Nat
          /\ failedPuts' \in Nat /\ failedDeletes' \in Nat
      BY <1>1, <3>1 DEF HistoryTyped
    <3>3. failedPuts' = 0 /\ failedDeletes' = 0
      <4>1. failedPuts' + failedDeletes' = 0
        BY <2>1 DEF Failures
      <4>2. failedPuts' \in Nat /\ failedDeletes' \in Nat
        BY <3>2
      <4>3. QED
        BY <4>1, <4>2, NoneOfBoth
    <3>4. QED
      BY <2>1, <3>1, <3>2, <3>3 DEF Failures, FirstLoad
  <2>3. DiskBase
    BY <1>1, <2>2 DEF DiskBase, FirstLoad, DiskKnown
  <2>4. CASE PutBlock /\ UNCHANGED caller
    <3>1. /\ pc = "save" /\ pc' = "index" /\ chain' = chain /\ params' = params
      BY <2>4 DEF PutBlock
    <3>2. Stored = Front(chain) /\ Stored' \in {chain, Front(chain)}
      BY <1>1, <2>1, <2>2, <3>1 DEF SoundlyStored, AfterSpawn, Loaded
    <3>3. QED
      BY <2>3, <3>1, <3>2, GrownByBlock
  <2>5. CASE PutLastIndex /\ UNCHANGED caller
    <3>1. /\ pc = "index" /\ pc' \in {"ready", "credit"} /\ chain' = chain /\ params' = params
          /\ call' = call /\ call = "none"
      BY <2>3, <2>5, SavedIsTip DEF PutLastIndex, caller
    <3>2. Stored \in {chain, Front(chain)} /\ Stored' = chain
      BY <1>1, <2>1, <2>2, <3>1 DEF SoundlyStored, AfterSpawn, Loaded
    <3>3. QED
      BY <2>3, <3>1, <3>2, GrownByBlock
  <2>6. CASE SaveChecked
    <3>1. pc = "ready" /\ pc' = "ready"
      BY <2>2, <2>3, <2>6, CallsReady DEF AppendBlockDirectly
    <3>2. chain' = chain /\ params' = params
      BY <2>6 DEF SaveChecked
    <3>3. CASE call = "save"
      <4>1. call' = "index"
        BY <2>6, <3>3 DEF SaveChecked
      <4>2. Stored = Front(chain) /\ Stored' \in {chain, Front(chain)}
        BY <1>1, <2>1, <2>2, <3>1, <3>2, <3>3, <4>1 DEF SoundlyStored, AfterSpawn, Loaded
      <4>3. QED
        BY <2>3, <3>2, <3>3, <4>2, GrownByBlock
    <3>4. CASE call = "index"
      <4>1. call' = "credit"
        BY <2>6, <3>4 DEF SaveChecked
      <4>2. Stored \in {chain, Front(chain)} /\ Stored' = chain
        BY <1>1, <2>1, <2>2, <3>1, <3>2, <3>4, <4>1 DEF SoundlyStored, AfterSpawn, Loaded
      <4>3. QED
        BY <2>3, <3>2, <3>4, <4>2, GrownByBlock
    <3>5. QED
      BY <2>6, <3>3, <3>4 DEF SaveChecked
  <2>7. CASE DeleteBlock
    <3>1. pc = "ready" /\ pc' = "ready"
      BY <2>2, <2>3, <2>7, CallsReady DEF RollbackBlock
    <3>2. /\ call = "delete" /\ call' = "pointer"
          /\ chain' = chain /\ hand \in Block /\ chain \in Seq(Block)
      BY <1>1, <2>7 DEF DeleteBlock, ApiBase, LedgerKnown, CallKnown, TypeOK
    <3>3. Stored = Append(chain, hand) /\ Stored' = chain
      BY <1>1, <2>1, <2>2, <3>1, <3>2 DEF SoundlyStored, AfterSpawn, Loaded
    <3>4. Front(Stored) = chain
      BY <3>2, <3>3, PrefixOfAppend
    <3>5. QED
      BY <3>3, <3>4
  <2>8. CASE DecrementLastIndex
    <3>1. pc = "ready" /\ pc' = "ready"
      BY <2>2, <2>3, <2>8, CallsReady DEF RollbackBlock
    <3>2. /\ call = "pointer" /\ call' = "clear" /\ chain' = chain
      BY <2>8 DEF DecrementLastIndex
    <3>3. Stored = chain /\ Stored' = chain
      BY <1>1, <2>1, <2>2, <3>1, <3>2 DEF SoundlyStored, AfterSpawn, Loaded
    <3>4. QED
      BY <3>3
  <2>9. CASE UNCHANGED disk
    BY <2>9, StoredUnchanged
  <2>10. LedgerStep => UNCHANGED disk \/ ((PutBlock \/ PutLastIndex) /\ UNCHANGED caller)
    <3>1. SUFFICES ASSUME LedgerStep
                   PROVE  UNCHANGED disk \/ ((PutBlock \/ PutLastIndex) /\ UNCHANGED caller)
      OBVIOUS
    <3>2. UNCHANGED caller
      BY <3>1 DEF LedgerStep
    <3>3. CASE ~(PutBlock \/ PutLastIndex)
      BY <1>1, <3>1, <3>3, LedgerSteps DEF InitializeLedger, SpawnGenesis, RebuildTransfer, RebuildReward,
         VerifyConsensusIntegrity, PackTransfer, EndSelect, AssembleBlock, FindBlock,
         AppendBlock, CreditMiner, disk
    <3>4. QED
      BY <3>2, <3>3
  <2>11. CallMineBlock \/ CutPanics \/ Skip \/ PutFails => UNCHANGED disk
    BY DEF CallMineBlock, BeginMine, CutPanics, Skip, SkipTransfer, PutFails
  <2>12. RollbackBlock => UNCHANGED disk \/ DeleteBlock \/ DecrementLastIndex
    BY DEF RollbackBlock, BeginRollback, ReadMempool, PushTransfer, CutChain, DeleteFails, ClearState, disk,
       ReplayNext, ReturnFromRollback, vars
  <2>13. AppendBlockDirectly => UNCHANGED disk \/ SaveChecked
    BY DEF AppendBlockDirectly, CheckBlock, Accept, AppendChecked, SaveFails, RebuildState, vars, disk
  <2>14. Die \/ (\E tx \in Transfers : AddToMempool(tx)) \/ UNCHANGED apiVars => UNCHANGED disk
    BY DEF Die, Stop, AddToMempool, Enqueue, apiVars, vars, disk
  <2>15. QED
    BY <1>1, <2>4, <2>5, <2>6, <2>7, <2>8, <2>9, <2>10, <2>11, <2>12, <2>13, <2>14 DEF ApiNext, Mining
<1>2. ApiSpec => [][Durable]_Stored
  <2>1. Known => SoundlyStored
    BY StoredSoundly
  <2>2. Known /\ SoundlyStored /\ SoundlyStored' /\ [ApiNext]_apiVars => [Durable]_Stored
    BY <1>1
  <2>3. ApiSpec => []Known
    BY ApiBaseInvariant, AloneInvariant, FirstLoadInvariant, DiskInvariant, PTL
  <2> HIDE DEF Known, Durable
  <2>4. QED
    BY <2>1, <2>2, <2>3, PTL DEF ApiSpec
<1>3. QED
  BY <1>2 DEF DurableByBlocks

----------------------------------------------------------------------------
(* Where a transfer is *)

(* What the places are.                                                     *)
LEMMA SpotsAre ==
  ASSUME NEW k, NEW tx, NEW transfers, NEW p
  PROVE  p \in Spots(k, tx, transfers) <=>
           \E i \in DOMAIN transfers : transfers[i] = tx /\ p = <<k, i>>
BY DEF Spots, Positions

(* The places in a chain ...                                               *)
LEMMA ChainSpotsAre ==
  ASSUME NEW tx, NEW c, NEW p
  PROVE  p \in ChainSpots(tx, c) <=>
           \E k \in DOMAIN c : p \in Spots(k, tx, c[k].transfers)
BY DEF ChainSpots

(* ... and in the database.                                                *)
LEMMA DiskSpotsAre ==
  ASSUME NEW tx, NEW store, NEW indices, NEW p
  PROVE  p \in DiskSpots(tx, store, indices) <=>
           \E i \in indices : p \in Spots(i + 1, tx, store[i].transfers)
BY DEF DiskSpots

(* A place is a pair: the mempool's number, the hand's or that of a block.  *)
LEMMA SpotIsPair ==
  ASSUME NEW k, NEW tx, NEW transfers \in Seq(Transfers), NEW p \in Spots(k, tx, transfers)
  PROVE  p = <<k, p[2]>> /\ p[1] = k /\ p[2] \in 1 .. Len(transfers) /\ transfers[p[2]] = tx
BY SpotsAre

(* Places of the chain.                                                     *)
LEMMA ChainSpotIsPair ==
  ASSUME NEW tx, NEW c \in Seq(Block), NEW p \in ChainSpots(tx, c)
  PROVE  /\ p = <<p[1], p[2]>> /\ p[1] \in 1 .. Len(c) /\ p[2] \in Nat \ {0}
         /\ p \in Spots(p[1], tx, c[p[1]].transfers)
<1>1. PICK k \in 1 .. Len(c) : p \in Spots(k, tx, c[k].transfers)
  BY ChainSpotsAre
<1>2. c[k].transfers \in Seq(Transfers)
  BY BlockFields
<1>3. p = <<k, p[2]>> /\ p[1] = k /\ p[2] \in 1 .. Len(c[k].transfers)
  BY <1>1, <1>2, SpotIsPair
<1>4. QED
  BY <1>1, <1>2, <1>3

(* Places in the database.                                                  *)
LEMMA DiskSpotIsPair ==
  ASSUME TypeOK, NEW tx, NEW indices \in SUBSET DOMAIN blocks,
         NEW p \in DiskSpots(tx, blocks, indices)
  PROVE  /\ p = <<p[1], p[2]>> /\ p[1] \in Nat \ {0} /\ p[1] - 1 \in indices /\ p[2] \in Nat \ {0}
<1>1. PICK i \in indices : p \in Spots(i + 1, tx, blocks[i].transfers)
  BY DiskSpotsAre
<1>2. i \in Nat /\ blocks[i] \in Block
  BY DEF TypeOK
<1>3. blocks[i].transfers \in Seq(Transfers)
  BY <1>2, BlockFields
<1>4. p = <<i + 1, p[2]>> /\ p[1] = i + 1 /\ p[2] \in 1 .. Len(blocks[i].transfers)
  BY <1>1, <1>3, SpotIsPair
<1>5. QED
  BY <1>2, <1>3, <1>4

(* A chain that grows has the places of its new block as well.              *)
LEMMA ChainSpotsGrow ==
  ASSUME NEW tx, NEW c \in Seq(Block), NEW b \in Block
  PROVE  ChainSpots(tx, Append(c, b)) = ChainSpots(tx, c) \cup Spots(Len(c) + 1, tx, b.transfers)
<1> DEFINE d == Append(c, b)
<1>1. /\ DOMAIN c = 1 .. Len(c) /\ DOMAIN d = 1 .. Len(c) + 1 /\ Len(c) \in Nat
      /\ d[Len(c) + 1] = b /\ \A k \in 1 .. Len(c) : d[k] = c[k]
  OBVIOUS
<1> HIDE DEF d
<1>2. ASSUME NEW p
      PROVE  p \in ChainSpots(tx, d) <=>
               p \in ChainSpots(tx, c) \/ p \in Spots(Len(c) + 1, tx, b.transfers)
  <2>1. p \in ChainSpots(tx, d) <=> \E k \in 1 .. Len(c) + 1 : p \in Spots(k, tx, d[k].transfers)
    BY <1>1, ChainSpotsAre
  <2>2. p \in ChainSpots(tx, c) <=> \E k \in 1 .. Len(c) : p \in Spots(k, tx, c[k].transfers)
    BY <1>1, ChainSpotsAre
  <2>3. \A k \in 1 .. Len(c) + 1 : k \in 1 .. Len(c) \/ k = Len(c) + 1
    BY <1>1
  <2>4. \A k \in 1 .. Len(c) : k \in 1 .. Len(c) + 1
    BY <1>1
  <2>5. Len(c) + 1 \in 1 .. Len(c) + 1
    BY <1>1
  <2>6. QED
    BY <1>1, <2>1, <2>2, <2>3, <2>4, <2>5
<1>3. QED
  BY <1>2 DEF d

(* Fewer blocks have fewer places.                                          *)
LEMMA DiskSpotsMonotone ==
  ASSUME NEW tx, NEW store, NEW indices, NEW fewer \in SUBSET indices
  PROVE  DiskSpots(tx, store, fewer) \subseteq DiskSpots(tx, store, indices)
BY DiskSpotsAre

(* Only the blocks that count make a difference.                            *)
LEMMA DiskSpotsSame ==
  ASSUME NEW tx, NEW store, NEW other, NEW indices, \A i \in indices : store[i] = other[i]
  PROVE  DiskSpots(tx, store, indices) = DiskSpots(tx, other, indices)
BY DEF DiskSpots

(* What a restart would load is in places of the database.                  *)
LEMMA StoredSpots ==
  ASSUME TypeOK, NEW tx
  PROVE  ChainSpots(tx, Stored) \subseteq EverStored(tx)
<1>1. Stored \in Seq(Block) /\ \A i \in 0 .. Len(Stored) - 1 : i \in DOMAIN blocks /\ blocks[i] = Stored[i + 1]
  BY StoredIsRead
<1>2. SUFFICES ASSUME NEW p \in ChainSpots(tx, Stored) PROVE p \in EverStored(tx)
  OBVIOUS
<1>3. PICK k \in 1 .. Len(Stored) : p \in Spots(k, tx, Stored[k].transfers)
  BY <1>1, ChainSpotsAre
<1>4. k - 1 \in 0 .. Len(Stored) - 1 /\ (k - 1) + 1 = k
  BY <1>1
<1>5. p \in Spots((k - 1) + 1, tx, blocks[k - 1].transfers) /\ k - 1 \in DOMAIN blocks
  BY <1>1, <1>3, <1>4
<1>6. QED
  BY <1>5, DiskSpotsAre DEF EverStored

TakingOff == {"read", "write", "cut", "delete"}

(* What counts on disk is part of what is there.                             *)
LEMMA OnDiskIsStored ==
  ASSUME NEW tx
  PROVE  /\ OnDisk(tx) \subseteq EverStored(tx) /\ Remaining \in SUBSET DOMAIN blocks
         /\ call \notin TakingOff => OnDisk(tx) = EverStored(tx)
<1>1. Remaining \in SUBSET DOMAIN blocks
  BY DEF Remaining
<1>2. OnDisk(tx) \subseteq EverStored(tx)
  BY <1>1, DiskSpotsMonotone DEF OnDisk, EverStored
<1>3. call \notin TakingOff => Remaining = DOMAIN blocks
  BY DEF Remaining, TakingOff
<1>4. QED
  BY <1>1, <1>2, <1>3 DEF OnDisk, EverStored

(* A transfer no step moves to a new place stays in one place.              *)
LEMMA TransferStays ==
  ASSUME NEW tx, TransferKnown(tx),
         tx \in accepted' <=> tx \in accepted,
         skipped' \/ ~skipped, deaths' = 0 => deaths = 0, failedDeletes' = 0 => failedDeletes = 0,
         InMemory(tx)' \cup EverStored(tx)' \subseteq InMemory(tx) \cup EverStored(tx),
         job'.packed \in {job.packed, <<>>},
         deaths' # 0 \/ InMemory(tx)' \subseteq InMemory(tx),
         deaths' = 0 /\ pc' # "panic" => pc # "panic" /\ InMemory(tx) \subseteq InMemory(tx)',
         failedDeletes' = 0 =>
           /\ \/ InMemory(tx)' \cup OnDisk(tx)' \subseteq InMemory(tx) \cup OnDisk(tx)
              \/ InMemory(tx)' \cup OnDisk(tx)' \subseteq EverStored(tx)
           /\ \/ EverStored(tx)' \subseteq EverStored(tx)
              \/ EverStored(tx)' \subseteq InMemory(tx) \cup OnDisk(tx)
  PROVE  TransferKnown(tx)'
<1>1. ASSUME tx \notin accepted'
      PROVE  InMemory(tx)' \cup EverStored(tx)' = {} /\ Positions(tx, job'.packed) = {}
  <2>1. InMemory(tx) \cup EverStored(tx) = {} /\ Positions(tx, job.packed) = {}
    BY <1>1 DEF TransferKnown
  <2>2. Positions(tx, <<>>) = {}
    BY DEF Positions
  <2>3. QED
    BY <2>1, <2>2
<1>2. ASSUME ~skipped'
      PROVE  /\ deaths' = 0 => AtMostOne(InMemory(tx)')
             /\ deaths' = 0 /\ pc' # "panic" /\ tx \in accepted' => InMemory(tx)' # {}
             /\ failedDeletes' = 0 =>
                  /\ AtMostOne(InMemory(tx)' \cup OnDisk(tx)')
                  /\ AtMostOne(EverStored(tx)')
  <2>1. /\ deaths = 0 => AtMostOne(InMemory(tx))
        /\ deaths = 0 /\ pc # "panic" /\ tx \in accepted => InMemory(tx) # {}
        /\ failedDeletes = 0 =>
             AtMostOne(InMemory(tx) \cup OnDisk(tx)) /\ AtMostOne(EverStored(tx))
    BY <1>2 DEF TransferKnown
  <2>2. deaths' = 0 => AtMostOne(InMemory(tx)')
    BY <2>1 DEF AtMostOne
  <2>3. deaths' = 0 /\ pc' # "panic" /\ tx \in accepted' => InMemory(tx)' # {}
    BY <2>1
  <2>4. failedDeletes' = 0 => AtMostOne(InMemory(tx)' \cup OnDisk(tx)') /\ AtMostOne(EverStored(tx)')
    BY <2>1 DEF AtMostOne
  <2>5. QED
    BY <2>2, <2>3, <2>4
<1>3. QED
  BY <1>1, <1>2 DEF TransferKnown, AtMostOne

(* A transfer whose places a step maps one for one to others stays in one.  *)
LEMMA TransferMoves ==
  ASSUME NEW tx, NEW g, TransferKnown(tx),
         UNCHANGED <<skipped, deaths, failedDeletes, job>>, tx \in accepted' <=> tx \in accepted,
         pc # "panic",
         EverStored(tx)' = EverStored(tx),
         \A p \in InMemory(tx)' : g[p] \in InMemory(tx),
         \A p \in OnDisk(tx)' : g[p] \in InMemory(tx) \cup OnDisk(tx),
         \A p, q \in InMemory(tx)' \cup OnDisk(tx)' : g[p] = g[q] => p = q,
         InMemory(tx) # {} => InMemory(tx)' # {}
  PROVE  TransferKnown(tx)'
<1>1. tx \notin accepted' => InMemory(tx)' \cup EverStored(tx)' = {} /\ Positions(tx, job'.packed) = {}
  BY DEF TransferKnown
<1>2. ASSUME ~skipped'
      PROVE  /\ deaths' = 0 => AtMostOne(InMemory(tx)')
             /\ deaths' = 0 /\ pc' # "panic" /\ tx \in accepted' => InMemory(tx)' # {}
             /\ failedDeletes' = 0 =>
                  /\ AtMostOne(InMemory(tx)' \cup OnDisk(tx)')
                  /\ AtMostOne(EverStored(tx)')
  <2>1. /\ deaths = 0 => AtMostOne(InMemory(tx))
        /\ deaths = 0 /\ tx \in accepted => InMemory(tx) # {}
        /\ failedDeletes = 0 =>
             AtMostOne(InMemory(tx) \cup OnDisk(tx)) /\ AtMostOne(EverStored(tx))
    BY <1>2 DEF TransferKnown
  <2>2. deaths' = 0 => AtMostOne(InMemory(tx)')
    BY <2>1 DEF AtMostOne
  <2>3. deaths' = 0 /\ pc' # "panic" /\ tx \in accepted' => InMemory(tx)' # {}
    BY <2>1
  <2>4. failedDeletes' = 0 => AtMostOne(InMemory(tx)' \cup OnDisk(tx)') /\ AtMostOne(EverStored(tx)')
    BY <2>1 DEF AtMostOne
  <2>5. QED
    BY <2>2, <2>3, <2>4
<1>3. QED
  BY <1>1, <1>2 DEF TransferKnown, AtMostOne

HandLocations == {"assemble", "mining", "commit"}

(* Steps that move no transfer.                                              *)
LEMMA TransferQuiet ==
  ASSUME NEW tx, TransferKnown(tx),
         UNCHANGED <<blocks, mempool, deaths, accepted>>,
         ChainSpots(tx, Kept') = ChainSpots(tx, Kept),
         skipped' \/ ~skipped, failedDeletes' = 0 => failedDeletes = 0,
         failedDeletes' = 0 => Remaining' = Remaining,
         job'.packed \in {job.packed, <<>>},
         InHand(tx)' = InHand(tx) \/ (pc' = "panic" /\ InHand(tx)' = {}),
         pc = "panic" => pc' = "panic"
  PROVE  TransferKnown(tx)'
<1>1. EverStored(tx)' = EverStored(tx) /\ (failedDeletes' = 0 => OnDisk(tx)' = OnDisk(tx))
  BY DEF EverStored, OnDisk
<1>2. Spots(0, tx, mempool') = Spots(0, tx, mempool)
  OBVIOUS
<1>3. InMemory(tx)' \subseteq InMemory(tx) /\ (pc' # "panic" => InMemory(tx)' = InMemory(tx))
  BY <1>2 DEF InMemory
<1>4. QED
  BY <1>1, <1>3, TransferStays

(* Nothing is in hand but in these locations.                               *)
LEMMA HandEmpty ==
  ASSUME NEW tx
  PROVE  /\ pc \notin HandLocations /\ call \notin {"read", "write"} => InHand(tx) = {}
         /\ call \notin {"read", "write", "cut"} => Kept = chain
         /\ call \notin TakingOff => Remaining = DOMAIN blocks
         /\ call \in TakingOff => Remaining = DOMAIN blocks \ {hand.index}
BY DEF InHand, HandLocations, Kept, Remaining, TakingOff

MoveBase == DiskBase /\ JobKnown

Packed(tx) == IF pc \in HandLocations THEN Spots(-1, tx, job.packed) ELSE {}

(* While no call is at work only MineBlock has transfers in hand.            *)
LEMMA NoCallSpots ==
  ASSUME NEW tx
  PROVE  /\ call = "none" =>
              /\ InMemory(tx) = Spots(0, tx, mempool) \cup Packed(tx) \cup ChainSpots(tx, chain)
              /\ OnDisk(tx) = EverStored(tx) /\ InHand(tx) = Packed(tx)
              /\ Kept = chain /\ Remaining = DOMAIN blocks
         /\ call' = "none" =>
              /\ InMemory(tx)' = Spots(0, tx, mempool') \cup Packed(tx)' \cup ChainSpots(tx, chain')
              /\ OnDisk(tx)' = EverStored(tx)' /\ InHand(tx)' = Packed(tx)'
              /\ Kept' = chain' /\ Remaining' = DOMAIN blocks'
<1>1. call = "none" =>
        /\ InHand(tx) = Packed(tx) /\ Kept = chain /\ Remaining = DOMAIN blocks
  BY DEF InHand, Packed, HandLocations, Kept, Remaining
<1>2. call' = "none" =>
        /\ InHand(tx)' = Packed(tx)' /\ Kept' = chain' /\ Remaining' = DOMAIN blocks'
  BY DEF InHand, Packed, HandLocations, Kept, Remaining
<1>3. QED
  BY <1>1, <1>2 DEF InMemory, OnDisk, EverStored

(* MineBlock meets no call.                                                  *)
LEMMA MiningAlone ==
  ASSUME MoveBase, Mining, ~overlapped'
  PROVE  call = "none" /\ call' = "none" /\ LedgerKnown /\ TypeOK
<1>1. call = "none" /\ ApiBase
  BY AloneMining DEF MoveBase, DiskBase
<1>2. QED
  BY <1>1, ApiMining DEF ApiBase, LedgerKnown, caller

(* Steps of MineBlock that move no transfer. *)
LEMMA MiningQuiet ==
  ASSUME NEW tx, TransferKnown(tx), call = "none", call' = "none",
         UNCHANGED <<blocks, mempool, deaths, accepted, failedDeletes, skipped>>,
         ChainSpots(tx, chain') = ChainSpots(tx, chain),
         job'.packed \in {job.packed, <<>>},
         \/ pc' = "panic"
         \/ pc \in HandLocations /\ pc' \in HandLocations /\ job'.packed = job.packed
         \/ pc \notin HandLocations /\ pc' \notin HandLocations,
         pc = "panic" => pc' = "panic"
  PROVE  TransferKnown(tx)'
<1>1. /\ Kept = chain /\ Kept' = chain' /\ Remaining' = Remaining
      /\ InHand(tx) = Packed(tx) /\ InHand(tx)' = Packed(tx)'
  BY NoCallSpots
<1>2. Packed(tx)' = Packed(tx) \/ (pc' = "panic" /\ Packed(tx)' = {})
  BY DEF Packed, HandLocations
<1>3. QED
  BY <1>1, <1>2, TransferQuiet

(* Loading, the start of the selection, the proof of work, the pointer and   *)
(* the credit move none.                                                     *)
LEMMA TransferLedger ==
  ASSUME MoveBase, NEW tx, TransferKnown(tx), call = "none", call' = "none",
         UNCHANGED <<skipped, deaths, failedDeletes, accepted>>,
         \/ InitializeLedger \/ SpawnGenesis
         \/ RebuildTransfer \/ RebuildReward \/ VerifyConsensusIntegrity
         \/ BeginMine \/ AssembleBlock \/ FindBlock \/ PutLastIndex
         \/ CreditMiner \/ CutPanics \/ PutFails
  PROVE  TransferKnown(tx)'
<1>1. TypeOK /\ MemoryKnown /\ FirstLoad
  BY DEF MoveBase, DiskBase, ApiBase, LedgerKnown
<1>2. CASE InitializeLedger
  <2>1. /\ pc = "off" /\ pc' \notin HandLocations /\ chain' \in {<<>>, Stored}
        /\ UNCHANGED <<blocks, mempool, newBlock, job>> /\ mempool = <<>> /\ chain = <<>>
        /\ pc' # "panic" /\ pc \notin HandLocations
    BY <1>1, <1>2 DEF MemoryKnown, InitializeLedger, disk, HandLocations
  <2>2. Spots(0, tx, <<>>) = {} /\ ChainSpots(tx, <<>>) = {}
    BY DEF Spots, Positions, ChainSpots
  <2>3. InMemory(tx) = {} /\ InMemory(tx)' = ChainSpots(tx, chain')
    BY <2>1, <2>2, NoCallSpots DEF Packed
  <2>4. EverStored(tx)' = EverStored(tx) /\ OnDisk(tx)' = OnDisk(tx) /\ OnDisk(tx) = EverStored(tx)
    BY <2>1, NoCallSpots DEF EverStored
  <2>5. InMemory(tx)' \subseteq EverStored(tx)
    BY <1>1, <2>1, <2>2, <2>3, StoredSpots
  <2>6. CASE deaths # 0
    BY <2>1, <2>3, <2>4, <2>5, <2>6, TransferStays
  <2>7. CASE deaths = 0
    <3>1. DOMAIN blocks = {}
      BY <1>1, <2>1, <2>7 DEF FirstLoad
    <3>2. EverStored(tx) = {}
      BY <3>1, DiskSpotsAre DEF EverStored
    <3>3. QED
      BY <2>1, <2>3, <2>4, <2>5, <3>2, TransferStays
  <2>8. QED
    BY <2>6, <2>7
<1>3. CASE SpawnGenesis
  <2>1. /\ pc = "spawn" /\ pc' = "save" /\ chain = <<>>
        /\ UNCHANGED <<blocks, mempool, job>>
    BY <1>1, <1>3 DEF MemoryKnown, SpawnGenesis, disk
  <2>2. newBlock'.transfers = <<>> /\ chain' = Append(<<>>, newBlock')
    BY <1>3, <2>1 DEF SpawnGenesis, GenesisBlock
  <2>3. chain' = <<newBlock'>> /\ DOMAIN chain' = 1 .. 1 /\ chain'[1].transfers = <<>>
    BY <2>2
  <2>4. ChainSpots(tx, chain') = {} /\ ChainSpots(tx, chain) = {}
    <3>1. Spots(1, tx, <<>>) = {}
      BY DEF Spots, Positions
    <3>2. \A k \in DOMAIN chain' : k = 1
      BY <2>3
    <3>3. \A k \in DOMAIN chain' : Spots(k, tx, chain'[k].transfers) = {}
      BY <2>3, <3>1, <3>2
    <3>4. ChainSpots(tx, chain) = {}
      BY <2>1 DEF ChainSpots
    <3>5. QED
      BY <3>3, <3>4, ChainSpotsAre
  <2>5. QED
    BY <2>1, <2>4, MiningQuiet DEF HandLocations
<1>4. CASE RebuildTransfer \/ RebuildReward \/ VerifyConsensusIntegrity \/ PutLastIndex \/ PutFails
  <2>1. /\ pc \notin HandLocations /\ pc' \notin HandLocations /\ pc # "panic"
        /\ UNCHANGED <<blocks, chain, mempool, job>>
    BY <1>4 DEF RebuildTransfer, RebuildReward, VerifyConsensusIntegrity, PutLastIndex, PutFails,
       disk, HandLocations
  <2>2. QED
    BY <2>1, MiningQuiet
<1>5. CASE BeginMine \/ CreditMiner
  <2>1. /\ pc \in {"ready", "credit"} /\ pc' \in {"select", "ready"}
        /\ UNCHANGED <<blocks, chain, mempool>>
    BY <1>5 DEF BeginMine, CreditMiner, disk
  <2>2. job'.packed = <<>>
    <3>1. CASE BeginMine
      <4>1. job' = [NoJob EXCEPT !.parent = chain[Len(chain)], !.bytes = BlockAllowance]
        BY <3>1 DEF BeginMine
      <4>2. QED
        BY <4>1 DEF NoJob
    <3>2. CASE CreditMiner
      BY <3>2 DEF CreditMiner, NoJob
    <3>3. QED
      BY <1>5, <3>1, <3>2
  <2>3. QED
    BY <2>1, <2>2, MiningQuiet DEF HandLocations
<1>6. CASE AssembleBlock \/ FindBlock
  <2>1. /\ pc \in {"assemble", "mining"} /\ pc' \in {"mining", "commit", "panic"}
        /\ UNCHANGED <<blocks, chain, mempool>> /\ job \in Job
    BY <1>1, <1>6 DEF TypeOK, AssembleBlock, FindBlock, disk
  <2>2. job'.packed = job.packed
    BY <1>6, <2>1 DEF AssembleBlock, FindBlock, Job
  <2>3. QED
    BY <2>1, <2>2, MiningQuiet DEF HandLocations
<1>7. CASE CutPanics
  <2>1. /\ pc = "select" /\ pc' = "panic" /\ UNCHANGED <<blocks, chain, mempool, job>>
    BY <1>7 DEF CutPanics, disk
  <2>2. QED
    BY <2>1, MiningQuiet
<1>8. QED
  BY <1>2, <1>3, <1>4, <1>5, <1>6, <1>7

(* SaveBlock makes a copy of what is in the chain, in its place.            *)
LEMMA TransferPut ==
  ASSUME MoveBase, NEW tx, TransferKnown(tx),
         UNCHANGED <<skipped, deaths, failedDeletes, accepted, chain, mempool, job>>,
         NEW b \in Block, b = chain[Len(chain)], b.index + 1 = Len(chain), Len(chain) \in DOMAIN chain,
         DOMAIN blocks' = DOMAIN blocks \cup {b.index},
         \A i \in DOMAIN blocks' : blocks'[i] = IF i = b.index THEN b ELSE blocks[i],
         pc \notin HandLocations, pc' \notin HandLocations, pc # "panic",
         call \notin TakingOff, call' \notin TakingOff
  PROVE  TransferKnown(tx)'
<1>1. /\ Kept = chain /\ Kept' = chain' /\ InHand(tx) = {} /\ InHand(tx)' = {}
      /\ Remaining = DOMAIN blocks /\ Remaining' = DOMAIN blocks'
  BY DEF Kept, InHand, Remaining, HandLocations, TakingOff
<1>2. InMemory(tx)' = InMemory(tx)
  BY <1>1 DEF InMemory
<1>3. EverStored(tx)' \subseteq EverStored(tx) \cup ChainSpots(tx, chain)
  <2>1. SUFFICES ASSUME NEW p \in EverStored(tx)', p \notin EverStored(tx)
                 PROVE  p \in ChainSpots(tx, chain)
    OBVIOUS
  <2>2. PICK i \in DOMAIN blocks' : p \in Spots(i + 1, tx, blocks'[i].transfers)
    BY <2>1, DiskSpotsAre DEF EverStored
  <2>3. i = b.index /\ blocks'[i] = b
    <3>1. i # b.index => i \in DOMAIN blocks /\ blocks'[i] = blocks[i]
      OBVIOUS
    <3>2. i # b.index => p \in EverStored(tx)
      BY <2>2, <3>1, DiskSpotsAre DEF EverStored
    <3>3. QED
      BY <2>1, <3>2
  <2>4. p \in Spots(Len(chain), tx, chain[Len(chain)].transfers)
    BY <2>2, <2>3
  <2>5. QED
    BY <2>4, ChainSpotsAre
<1>4. OnDisk(tx)' = EverStored(tx)' /\ OnDisk(tx) = EverStored(tx)
  BY <1>1 DEF OnDisk, EverStored
<1>5. ChainSpots(tx, chain) \subseteq InMemory(tx)
  BY <1>1 DEF InMemory
<1>6. QED
  BY <1>2, <1>3, <1>4, <1>5, TransferStays

(* A death loses what is in memory.                                         *)
LEMMA TransferDie ==
  ASSUME NEW tx, TransferKnown(tx), HistoryTyped, Die
  PROVE  TransferKnown(tx)'
<1>1. /\ pc' = "off" /\ chain' = <<>> /\ mempool' = <<>> /\ job'.packed = <<>> /\ blocks' = blocks
      /\ call' = "none" /\ deaths' = deaths + 1 /\ UNCHANGED <<failedDeletes, accepted, skipped>>
      /\ deaths \in Nat
  BY DEF Die, Stop, MemoryLost, NoJob, disk, CallerLost, HistoryTyped
<1>2. Spots(0, tx, <<>>) = {} /\ ChainSpots(tx, <<>>) = {} /\ deaths' # 0
  BY <1>1 DEF Spots, Positions, ChainSpots
<1>3. InMemory(tx)' = {} /\ OnDisk(tx)' = EverStored(tx)'
  BY <1>1, <1>2, NoCallSpots DEF Packed, HandLocations
<1>4. EverStored(tx)' = EverStored(tx)
  BY <1>1 DEF EverStored
<1>5. QED
  BY <1>1, <1>2, <1>3, <1>4, TransferStays

(* Once a transfer was skipped, only one that nobody submitted matters, and *)
(* that is nowhere.                                                         *)
LEMMA TransferSkipped ==
  ASSUME NEW tx, TransferKnown(tx), skipped',
         tx \in accepted' <=> tx \in accepted,
         InMemory(tx) \cup EverStored(tx) = {} => InMemory(tx)' \cup EverStored(tx)' = {},
         tx \notin accepted => Positions(tx, job'.packed) = {}
  PROVE  TransferKnown(tx)'
BY DEF TransferKnown

(* One by one the transfers go from the mempool to the selection, which     *)
(* takes them from the front.                                               *)
LEMMA TransferPacked ==
  ASSUME MoveBase, NEW tx, TransferKnown(tx), call = "none", call' = "none",
         UNCHANGED <<skipped, deaths, failedDeletes, accepted>>, PackTransfer
  PROVE  TransferKnown(tx)'
<1> DEFINE t == mempool[job.next]
<1>1. /\ UNCHANGED <<blocks, chain, mempool, pc>>
      /\ pc = "select" /\ job.next <= Len(mempool)
      /\ job' = [job EXCEPT !.next = @ + 1, !.packed = Append(@, t),
                            !.fees = AddWord(@, t.fee), !.bytes = @ + t.size]
  BY DEF PackTransfer, Considered, disk
<1>2. job \in Job /\ job.next \in 1 .. Len(mempool) /\ t \in Transfers
  BY <1>1 DEF MoveBase, DiskBase, ApiBase, LedgerKnown, TypeOK, Job
<1>3. job.packed \in Seq(Transfers) /\ job'.packed = Append(job.packed, t)
  BY <1>1, <1>2 DEF Job
<1>4. InMemory(tx)' = InMemory(tx) /\ EverStored(tx)' = EverStored(tx) /\ OnDisk(tx)' = OnDisk(tx)
  BY <1>1, NoCallSpots DEF Packed, HandLocations, EverStored
<1>5. tx \notin accepted => Positions(tx, job'.packed) = {}
  <2>1. SUFFICES ASSUME tx \notin accepted PROVE Positions(tx, job'.packed) = {}
    OBVIOUS
  <2>2. Positions(tx, job.packed) = {} /\ Spots(0, tx, mempool) = {}
    BY <2>1 DEF TransferKnown, InMemory
  <2>3. t # tx
    <3>1. job.next \in DOMAIN mempool
      BY <1>2 DEF MoveBase, DiskBase, ApiBase, LedgerKnown, TypeOK
    <3>2. t = tx => <<0, job.next>> \in Spots(0, tx, mempool)
      BY <3>1, SpotsAre
    <3>3. QED
      BY <2>2, <3>2
  <2>4. \A i \in 1 .. Len(job.packed) : job.packed[i] # tx
    BY <1>3, <2>2 DEF Positions
  <2>5. \A i \in DOMAIN job'.packed : job'.packed[i] # tx
    <3> HIDE DEF t
    <3> QED  BY <1>2, <1>3, <2>3, <2>4
  <2>6. QED
    BY <2>5 DEF Positions
<1>6. QED
  BY <1>1, <1>4, <1>5 DEF TransferKnown

(* When the selection ends, what was packed is cut off the mempool.         *)
LEMMA TransferSelected ==
  ASSUME MoveBase, SelectionKnown, NEW tx, TransferKnown(tx), call = "none", call' = "none",
         UNCHANGED <<skipped, deaths, failedDeletes, accepted>>, EndSelect
  PROVE  TransferKnown(tx)'
<1> DEFINE n == Len(job.packed)
           C == ChainSpots(tx, chain)
<1>1. /\ UNCHANGED <<blocks, chain, job>>
      /\ pc = "select" /\ pc' = "assemble" /\ mempool' = SubSeq(mempool, n + 1, Len(mempool))
  BY DEF EndSelect, RemainingMempool, disk
<1>2. /\ mempool \in Seq(Transfers) /\ job.packed \in Seq(Transfers) /\ n \in Nat /\ Len(mempool) \in Nat
      /\ job.next \in Nat \ {0} /\ chain \in Seq(Block) /\ TypeOK
  BY DEF MoveBase, DiskBase, ApiBase, LedgerKnown, TypeOK, Job
<1> HIDE DEF n
<1>3. /\ mempool' \in Seq(Transfers)
      /\ Len(mempool') = IF n + 1 <= Len(mempool) THEN Len(mempool) - n ELSE 0
      /\ \A i \in 1 .. Len(mempool') : mempool'[i] = mempool[n + i] /\ n + i \in 1 .. Len(mempool)
  <2>1. \A i \in n + 1 .. Len(mempool) : mempool[i] \in Transfers
    BY <1>2
  <2>2. /\ mempool' \in Seq(Transfers)
        /\ Len(mempool') = IF n + 1 <= Len(mempool) THEN Len(mempool) - (n + 1) + 1 ELSE 0
        /\ \A i \in 1 .. Len(mempool) - (n + 1) + 1 : mempool'[i] = mempool[(n + 1) + i - 1]
    BY <1>1, <1>2, <2>1, SubSeqProperties
  <2>3. ASSUME NEW i \in 1 .. Len(mempool') PROVE mempool'[i] = mempool[n + i] /\ n + i \in 1 .. Len(mempool)
    <3>1. n + 1 <= Len(mempool) /\ i \in 1 .. Len(mempool) - (n + 1) + 1 /\ (n + 1) + i - 1 = n + i
      BY <1>2, <2>2, <2>3
    <3>2. QED
      BY <1>2, <2>2, <3>1
  <2>4. QED
    BY <1>2, <2>2, <2>3
<1>4. /\ EverStored(tx)' = EverStored(tx) /\ OnDisk(tx)' = OnDisk(tx)
      /\ InMemory(tx) = Spots(0, tx, mempool) \cup C
      /\ InMemory(tx)' = Spots(0, tx, mempool') \cup Spots(-1, tx, job.packed) \cup C
  BY <1>1, NoCallSpots DEF Packed, HandLocations, EverStored
<1> HIDE DEF C
<1>5. \A p \in Spots(0, tx, mempool') :
        p = <<0, p[2]>> /\ p[2] \in Nat \ {0} /\ <<0, n + p[2]>> \in Spots(0, tx, mempool)
  <2>1. TAKE p \in Spots(0, tx, mempool')
  <2>2. PICK i \in DOMAIN mempool' : mempool'[i] = tx /\ p = <<0, i>>
    BY SpotsAre
  <2>3. i \in 1 .. Len(mempool') /\ Len(mempool') \in Nat
    BY <1>3, <2>2
  <2>4. mempool[n + i] = tx /\ n + i \in DOMAIN mempool /\ i \in Nat \ {0}
    <3>1. mempool'[i] = mempool[n + i] /\ n + i \in 1 .. Len(mempool)
      BY <1>3, <2>3
    <3>2. DOMAIN mempool = 1 .. Len(mempool)
      BY <1>2
    <3>3. i \in Nat \ {0}
      BY <2>3
    <3>4. QED
      BY <2>2, <3>1, <3>2, <3>3
  <2>5. <<0, n + i>> \in Spots(0, tx, mempool)
    BY <2>4, SpotsAre
  <2>6. QED
    BY <2>2, <2>4, <2>5
<1>6. CASE skipped
  <2>1. Spots(-1, tx, job.packed) = {} \/ tx \in accepted
    BY DEF TransferKnown, Spots
  <2>2. tx \notin accepted => InMemory(tx)' \cup EverStored(tx)' = {} /\ Positions(tx, job'.packed) = {}
    BY <1>1, <1>4, <1>5, <2>1 DEF TransferKnown
  <2>3. QED
    BY <1>1, <1>6, <2>2 DEF TransferKnown
<1>7. CASE ~skipped
  <2>1. /\ n = job.next - 1 /\ job.next \in 1 .. Len(mempool) + 1
        /\ \A i \in 1 .. n : job.packed[i] = mempool[i]
    BY <1>1, <1>7 DEF SelectionKnown, n
  <2>2. \A p \in Spots(-1, tx, job.packed) :
          p = <<-1, p[2]>> /\ p[2] \in 1 .. n /\ <<0, p[2]>> \in Spots(0, tx, mempool)
    <3>1. TAKE p \in Spots(-1, tx, job.packed)
    <3>2. p = <<-1, p[2]>> /\ p[2] \in 1 .. n /\ job.packed[p[2]] = tx
      BY <1>2, SpotIsPair DEF n
    <3>3. mempool[p[2]] = tx /\ p[2] \in DOMAIN mempool
      BY <1>2, <2>1, <3>2
    <3>4. QED
      BY <3>2, <3>3, SpotsAre
  <2>3. \A p \in C \cup OnDisk(tx) : p = <<p[1], p[2]>> /\ p[1] \in Nat \ {0} /\ p[2] \in Nat \ {0}
    <3>1. \A p \in C : p = <<p[1], p[2]>> /\ p[1] \in Nat \ {0} /\ p[2] \in Nat \ {0}
      BY <1>2, ChainSpotIsPair DEF C
    <3>2. \A p \in OnDisk(tx) : p = <<p[1], p[2]>> /\ p[1] \in Nat \ {0} /\ p[2] \in Nat \ {0}
      BY <1>2, NoCallSpots, DiskSpotIsPair DEF OnDisk
    <3>3. QED
      BY <3>1, <3>2
  <2> DEFINE Q == InMemory(tx)' \cup OnDisk(tx)'
             g == [p \in Q |-> IF p[1] = 0 THEN <<0, n + p[2]>>
                               ELSE IF p[1] = -1 THEN <<0, p[2]>> ELSE p]
  <2>4. Q = Spots(0, tx, mempool') \cup Spots(-1, tx, job.packed) \cup (C \cup OnDisk(tx))
    BY <1>4
  <2>5. \A p \in Spots(0, tx, mempool') : g[p] = <<0, n + p[2]>> /\ p[1] = 0
    BY <1>5, <2>4
  <2>6. \A p \in Spots(-1, tx, job.packed) : g[p] = <<0, p[2]>> /\ p[1] = -1
    <3>1. TAKE p \in Spots(-1, tx, job.packed)
    <3>2. p \in Q /\ p[1] = -1
      <4>1. p \in Q
        BY <2>4
      <4>2. p[1] = -1
        BY <1>2, SpotIsPair
      <4>3. QED
        BY <4>1, <4>2
    <3>3. QED
      BY <3>2
  <2>7. \A p \in C \cup OnDisk(tx) : g[p] = p /\ p[1] # 0 /\ p[1] # -1
    BY <2>3, <2>4
  <2> HIDE DEF g
  <2>8. \A p \in InMemory(tx)' : g[p] \in InMemory(tx)
    <3>1. \A p \in Spots(0, tx, mempool') \cup Spots(-1, tx, job.packed) : g[p] \in Spots(0, tx, mempool)
      BY <1>5, <2>2, <2>5, <2>6
    <3>2. \A p \in C : g[p] \in C
      BY <2>7
    <3>3. QED
      BY <1>4, <3>1, <3>2
  <2>9. \A p \in OnDisk(tx)' : g[p] \in InMemory(tx) \cup OnDisk(tx)
    BY <1>4, <2>7
  <2>10. \A p, q \in Q : g[p] = g[q] => p = q
    <3>1. SUFFICES ASSUME NEW p \in Q, NEW q \in Q, g[p] = g[q] PROVE p = q
      OBVIOUS
    <3>2. \A r \in C \cup OnDisk(tx) : g[r] = r /\ r[1] # 0
      BY <2>7
    <3>3. \A r \in Spots(0, tx, mempool') :
            g[r] = <<0, n + r[2]>> /\ r[2] \in Nat \ {0} /\ r = <<0, r[2]>>
      BY <1>5, <2>5
    <3>4. \A r \in Spots(-1, tx, job.packed) : g[r] = <<0, r[2]>> /\ r[2] \in 1 .. n /\ r = <<-1, r[2]>>
      BY <2>2, <2>6
    <3>5. CASE p \in C \cup OnDisk(tx) /\ q \in C \cup OnDisk(tx)
      BY <3>1, <3>2, <3>5
    <3>6. CASE (p \in C \cup OnDisk(tx)) # (q \in C \cup OnDisk(tx))
      BY <2>4, <3>1, <3>2, <3>3, <3>4, <3>6
    <3>7. CASE p \in Spots(0, tx, mempool') /\ q \in Spots(0, tx, mempool')
      <4>1. n + p[2] = n + q[2]
        BY <3>1, <3>3, <3>7
      <4>2. p[2] = q[2]
        BY <1>2, <3>3, <3>7, <4>1
      <4>3. QED
        BY <3>3, <3>7, <4>2
    <3>8. CASE p \in Spots(-1, tx, job.packed) /\ q \in Spots(-1, tx, job.packed)
      BY <3>1, <3>4, <3>8
    <3>9. ASSUME NEW r \in Spots(0, tx, mempool'), NEW s \in Spots(-1, tx, job.packed) PROVE g[r] # g[s]
      <4>1. n + r[2] # s[2]
        BY <1>2, <3>3, <3>4
      <4>2. QED
        BY <3>3, <3>4, <4>1
    <3>10. QED
      BY <2>4, <3>1, <3>5, <3>6, <3>7, <3>8, <3>9
  <2>11. ASSUME NEW p \in InMemory(tx) PROVE InMemory(tx)' # {}
    <3>1. CASE p \in C
      BY <1>4, <3>1
    <3>2. CASE p \in Spots(0, tx, mempool)
      <4>1. p = <<0, p[2]>> /\ p[2] \in 1 .. Len(mempool) /\ mempool[p[2]] = tx
        BY <1>2, <3>2, SpotIsPair
      <4>2. CASE p[2] <= n
        <5>1. p[2] \in DOMAIN job.packed /\ job.packed[p[2]] = tx
          BY <1>2, <2>1, <4>1, <4>2 DEF n
        <5>2. <<-1, p[2]>> \in Spots(-1, tx, job.packed)
          BY <5>1, SpotsAre
        <5>3. QED
          BY <1>4, <5>2
      <4>3. CASE ~(p[2] <= n)
        <5>1. p[2] - n \in 1 .. Len(mempool') /\ n + (p[2] - n) = p[2]
          BY <1>2, <1>3, <4>1, <4>3
        <5>2. p[2] - n \in DOMAIN mempool' /\ mempool'[p[2] - n] = tx
          BY <1>3, <4>1, <5>1
        <5>3. <<0, p[2] - n>> \in Spots(0, tx, mempool')
          BY <5>2, SpotsAre
        <5>4. QED
          BY <1>4, <5>3
      <4>4. QED
        BY <4>2, <4>3
    <3>3. QED
      BY <1>4, <3>1, <3>2
  <2>12. QED
    BY <1>1, <1>4, <1>7, <2>8, <2>9, <2>10, <2>11, TransferMoves
<1>8. QED
  BY <1>6, <1>7

(* MineBlock's append moves the block in hand to the end of the chain.      *)
LEMMA TransferAppended ==
  ASSUME MoveBase, NEW tx, TransferKnown(tx), call = "none", call' = "none",
         UNCHANGED <<skipped, deaths, failedDeletes, accepted>>, AppendBlock
  PROVE  TransferKnown(tx)'
<1> DEFINE C == ChainSpots(tx, chain)
           P == Spots(0, tx, mempool)
           H == Spots(-1, tx, job.packed)
           N == Spots(Len(chain) + 1, tx, job.packed)
<1>1. /\ UNCHANGED <<blocks, mempool, job>>
      /\ pc = "commit" /\ pc' = "save" /\ chain' = Append(chain, newBlock)
      /\ newBlock \in Block /\ newBlock.transfers = job.packed
  BY DEF AppendBlock, disk, MoveBase, DiskBase, ApiBase, LedgerKnown, BlockKnown, JobKnown
<1>2. /\ mempool \in Seq(Transfers) /\ job.packed \in Seq(Transfers) /\ chain \in Seq(Block) /\ TypeOK
      /\ Len(chain) \in Nat
  BY DEF MoveBase, DiskBase, ApiBase, LedgerKnown, TypeOK, Job
<1>3. /\ EverStored(tx)' = EverStored(tx) /\ OnDisk(tx)' = OnDisk(tx)
      /\ InMemory(tx) = P \cup H \cup C
  BY <1>1, NoCallSpots DEF Packed, HandLocations, EverStored
<1>4. InMemory(tx)' = P \cup N \cup C
  <2>1. ChainSpots(tx, chain') = C \cup N
    BY <1>1, <1>2, ChainSpotsGrow
  <2>2. QED
    BY <1>1, <2>1, NoCallSpots DEF Packed, HandLocations
<1>5. \A p \in N : p = <<Len(chain) + 1, p[2]>> /\ <<-1, p[2]>> \in H
  BY SpotsAre
<1>6. \A p \in P : p[1] # -1
  <2>1. \A p \in P : p[1] = 0
    BY <1>2, SpotIsPair
  <2>2. QED
    BY <2>1
<1>7. \A p \in C : p[1] # -1
  <2>1. \A p \in C : p[1] \in Nat
    BY <1>2, ChainSpotIsPair
  <2>2. QED
    BY <2>1
<1>8. \A p \in OnDisk(tx) : p[1] # -1
  <2>1. \A p \in OnDisk(tx) : p[1] \in Nat
    BY <1>2, NoCallSpots, DiskSpotIsPair DEF OnDisk
  <2>2. QED
    BY <2>1
<1> HIDE DEF C, P, H, N
<1> DEFINE Q == InMemory(tx)' \cup OnDisk(tx)'
           g == [p \in Q |-> IF p \in N THEN <<-1, p[2]>> ELSE p]
<1>9. /\ \A p \in Q : p \in N => g[p] = <<-1, p[2]>> /\ g[p] \in H
      /\ \A p \in Q : p \notin N => g[p] = p /\ p[1] # -1 /\ p \in P \cup C \cup OnDisk(tx)
  BY <1>3, <1>4, <1>5, <1>6, <1>7, <1>8
<1> HIDE DEF g
<1>10. \A p \in InMemory(tx)' : g[p] \in InMemory(tx)
  BY <1>3, <1>4, <1>9
<1>11. \A p \in OnDisk(tx)' : g[p] \in InMemory(tx) \cup OnDisk(tx)
  BY <1>3, <1>9
<1>12. \A p, q \in Q : g[p] = g[q] => p = q
  <2>1. SUFFICES ASSUME NEW p \in Q, NEW q \in Q, g[p] = g[q] PROVE p = q
    OBVIOUS
  <2>2. ASSUME NEW r \in Q, r \in N PROVE g[r][1] = -1 /\ g[r][2] = r[2]
    BY <1>9, <2>2
  <2>3. CASE p \in N /\ q \in N
    BY <1>5, <2>1, <2>2, <2>3
  <2>4. CASE p \notin N /\ q \notin N
    BY <1>9, <2>1, <2>4
  <2>5. CASE (p \in N) # (q \in N)
    BY <1>9, <2>1, <2>2, <2>5
  <2>6. QED
    BY <2>3, <2>4, <2>5
<1>13. InMemory(tx) # {} => InMemory(tx)' # {}
  <2>1. ASSUME NEW p \in H PROVE N # {}
    <3>1. PICK i \in DOMAIN job.packed : job.packed[i] = tx
      BY <2>1, SpotsAre DEF H
    <3>2. <<Len(chain) + 1, i>> \in N
      BY <3>1, SpotsAre DEF N
    <3>3. QED
      BY <3>2
  <2>2. QED
    BY <1>3, <1>4, <2>1
<1>14. QED
  BY <1>1, <1>3, <1>10, <1>11, <1>12, <1>13, TransferMoves

(* What RollbackBlock leaves of the chain.                                   *)
LEMMA KeptFacts ==
  ASSUME ApiBase
  PROVE  Kept \in Seq(Block) /\ chain \in Seq(Block)
<1>1. chain \in Seq(Block)
  BY DEF ApiBase, LedgerKnown, TypeOK
<1>2. CASE call \in {"read", "write", "cut"}
  <2>1. Len(chain) > 1
    BY <1>2 DEF ApiBase, CallKnown
  <2>2. chain # <<>>
    BY <1>1, <2>1
  <2>3. Front(chain) \in Seq(Block)
    BY <1>1, <2>2, FrontFacts
  <2>4. QED
    BY <1>1, <1>2, <2>3 DEF Kept
<1>3. CASE call \notin {"read", "write", "cut"}
  BY <1>1, <1>3 DEF Kept
<1>4. QED
  BY <1>2, <1>3

(* Sorting moves the transfers of the mempool about, and the new one.       *)
LEMMA SortedMempool ==
  ASSUME ApiBase, NEW t \in Transfers, AddToMempool(t)
  PROVE  \E f :
           /\ \A i \in DOMAIN mempool' :
                \/ f[i] = 0 /\ mempool'[i] = t
                \/ f[i] \in DOMAIN mempool /\ mempool'[i] = mempool[f[i]] /\ f[i] # 0
           /\ \A i, k \in DOMAIN mempool' : f[i] = f[k] => i = k
           /\ \A k \in DOMAIN mempool \cup {0} : \E i \in DOMAIN mempool' : f[i] = k
           /\ mempool' \in Seq(Transfers)
<1> DEFINE m == Append(mempool, t)
           n == Len(m)
<1>1. mempool \in Seq(Transfers) /\ Len(mempool) \in Nat /\ DOMAIN mempool = 1 .. Len(mempool)
  BY DEF ApiBase, LedgerKnown, TypeOK
<1>2. /\ m \in Seq(Transfers) /\ n = Len(mempool) + 1 /\ m[n] = t /\ n \in Nat \ {0}
      /\ \A i \in 1 .. Len(mempool) : m[i] = mempool[i]
  BY <1>1
<1>3. mempool' \in Sortings(m)
  BY DEF AddToMempool, Enqueue
<1> HIDE DEF m
<1>4. /\ mempool' \in Seq(Transfers) /\ Len(mempool') = n
      /\ \E p \in [1 .. n -> 1 .. n] :
           /\ \A i \in 1 .. n : mempool'[i] = m[p[i]]
           /\ \A i, k \in 1 .. n : p[i] = p[k] => i = k
           /\ \A k \in 1 .. n : \E i \in 1 .. n : p[i] = k
  BY <1>2, <1>3, SortingFacts
<1> HIDE DEF n
<1>5. PICK p \in [1 .. n -> 1 .. n] :
        /\ \A i \in 1 .. n : mempool'[i] = m[p[i]]
        /\ \A i, k \in 1 .. n : p[i] = p[k] => i = k
        /\ \A k \in 1 .. n : \E i \in 1 .. n : p[i] = k
  BY <1>4
<1>6. DOMAIN mempool' = 1 .. n
  BY <1>4
<1> DEFINE f == [i \in 1 .. n |-> IF p[i] = n THEN 0 ELSE p[i]]
<1>7. ASSUME NEW i \in 1 .. n
      PROVE  \/ f[i] = 0 /\ mempool'[i] = t /\ p[i] = n
             \/ f[i] \in DOMAIN mempool /\ mempool'[i] = mempool[f[i]] /\ f[i] # 0 /\ f[i] = p[i]
  <2>1. p[i] \in 1 .. n /\ mempool'[i] = m[p[i]]
    BY <1>5
  <2>2. CASE p[i] = n
    BY <1>2, <2>1, <2>2
  <2>3. CASE p[i] # n
    <3>1. p[i] \in 1 .. Len(mempool) /\ p[i] # 0
      BY <1>1, <1>2, <2>1, <2>3
    <3>2. QED
      BY <1>1, <1>2, <2>1, <2>3, <3>1
  <2>4. QED
    BY <2>2, <2>3
<1> HIDE DEF f
<1>8. ASSUME NEW i \in 1 .. n, NEW k \in 1 .. n, f[i] = f[k] PROVE i = k
  <2>1. p[i] = p[k]
    BY <1>7, <1>8
  <2>2. QED
    BY <1>5, <2>1
<1>9. ASSUME NEW k \in DOMAIN mempool \cup {0} PROVE \E i \in 1 .. n : f[i] = k
  <2>1. CASE k = 0
    <3>1. n \in 1 .. n
      BY <1>2
    <3>2. PICK i \in 1 .. n : p[i] = n
      BY <1>5, <3>1
    <3>3. f[i] = 0
      BY <3>2 DEF f
    <3>4. QED
      BY <2>1, <3>3
  <2>2. CASE k # 0
    <3>1. k \in 1 .. n /\ k # n
      BY <1>1, <1>2, <1>9, <2>2
    <3>2. PICK i \in 1 .. n : p[i] = k
      BY <1>5, <3>1
    <3>3. f[i] = k
      BY <3>1, <3>2 DEF f
    <3>4. QED
      BY <3>3
  <2>3. QED
    BY <2>1, <2>2
<1>10. WITNESS f
<1>11. QED
  BY <1>4, <1>6, <1>7, <1>8, <1>9

(* So a transfer that was in the mempool stays in one place of it.          *)
LEMMA TransferSorted ==
  ASSUME ApiBase, NEW tx, TransferKnown(tx), NEW t \in Transfers, t # tx, AddToMempool(t)
  PROVE  TransferKnown(tx)'
<1> DEFINE C == ChainSpots(tx, Kept)
           P == Spots(0, tx, mempool)
           S == Spots(0, tx, mempool')
           H == InHand(tx)
<1>1. /\ UNCHANGED <<skipped, deaths, failedDeletes, call, hand, rest, blocks, chain, job, pc>>
      /\ pc # "panic" /\ mempool' \in Sortings(Append(mempool, t)) /\ accepted' = accepted \cup {t}
  BY DEF AddToMempool, Enqueue, InUse, disk, caller
<1>2. /\ mempool \in Seq(Transfers) /\ job.packed \in Seq(Transfers) /\ Kept \in Seq(Block) /\ TypeOK
      /\ Len(mempool) \in Nat /\ rest \in Seq(Transfers)
  BY KeptFacts DEF ApiBase, LedgerKnown, CallKnown, TypeOK, Job
<1>3. PICK f :
        /\ \A i \in DOMAIN mempool' :
             \/ f[i] = 0 /\ mempool'[i] = t
             \/ f[i] \in DOMAIN mempool /\ mempool'[i] = mempool[f[i]] /\ f[i] # 0
        /\ \A i, k \in DOMAIN mempool' : f[i] = f[k] => i = k
        /\ \A k \in DOMAIN mempool \cup {0} : \E i \in DOMAIN mempool' : f[i] = k
  BY SortedMempool
<1>6. /\ EverStored(tx)' = EverStored(tx) /\ OnDisk(tx)' = OnDisk(tx)
      /\ InMemory(tx) = P \cup H \cup C /\ InMemory(tx)' = S \cup H \cup C
  BY <1>1 DEF InMemory, InHand, Kept, EverStored, OnDisk, Remaining
<1>7. \A p \in S : p = <<0, p[2]>> /\ p[1] = 0 /\ p[2] \in DOMAIN mempool' /\ <<0, f[p[2]]>> \in P
  <2>1. TAKE p \in S
  <2>2. PICK i \in DOMAIN mempool' : mempool'[i] = tx /\ p = <<0, i>>
    BY SpotsAre
  <2>3. f[i] \in DOMAIN mempool /\ mempool[f[i]] = tx
    BY <1>3, <2>2
  <2>4. <<0, f[i]>> \in P
    BY <2>3, SpotsAre
  <2>5. QED
    BY <2>2, <2>4
<1>8. \A p \in H : p[1] # 0
  <2>1. \A p \in Spots(-1, tx, job.packed) : p[1] = -1
    BY <1>2, SpotIsPair
  <2>2. \A p \in Spots(-2, tx, rest) : p[1] = -2
    BY <1>2, SpotIsPair
  <2>3. QED
    BY <2>1, <2>2 DEF InHand
<1>9. \A p \in C \cup OnDisk(tx) : p[1] # 0
  <2>1. \A p \in C : p[1] \in Nat \ {0}
    BY <1>2, ChainSpotIsPair
  <2>2. \A p \in OnDisk(tx) : p[1] \in Nat \ {0}
    BY <1>2, DiskSpotIsPair DEF OnDisk, Remaining
  <2>3. QED
    BY <2>1, <2>2
<1>10. P # {} => S # {}
  <2>1. SUFFICES ASSUME NEW p \in P PROVE S # {}
    OBVIOUS
  <2>2. PICK k \in DOMAIN mempool : mempool[k] = tx
    BY SpotsAre
  <2>3. PICK i \in DOMAIN mempool' : f[i] = k
    BY <1>3, <2>2
  <2>4. k # 0
    BY <1>2, <2>2
  <2>5. mempool'[i] = tx
    BY <1>3, <2>2, <2>3, <2>4
  <2>6. <<0, i>> \in S
    BY <2>5, SpotsAre
  <2>7. QED
    BY <2>6
<1> HIDE DEF C, P, S, H
<1> DEFINE Q == InMemory(tx)' \cup OnDisk(tx)'
           g == [p \in Q |-> IF p[1] = 0 THEN <<0, f[p[2]]>> ELSE p]
<1>11. \A p \in S : g[p] = <<0, f[p[2]]>> /\ g[p] \in P
  BY <1>6, <1>7
<1>12. \A p \in H \cup C \cup OnDisk(tx) : g[p] = p /\ p[1] # 0
  BY <1>6, <1>8, <1>9
<1> HIDE DEF g
<1>13. \A p \in InMemory(tx)' : g[p] \in InMemory(tx)
  BY <1>6, <1>11, <1>12
<1>14. \A p \in OnDisk(tx)' : g[p] \in InMemory(tx) \cup OnDisk(tx)
  BY <1>6, <1>12
<1>15. \A p, q \in Q : g[p] = g[q] => p = q
  <2>1. SUFFICES ASSUME NEW p \in Q, NEW q \in Q, g[p] = g[q] PROVE p = q
    OBVIOUS
  <2>2. ASSUME NEW r \in S PROVE g[r][1] = 0 /\ g[r][2] = f[r[2]]
    BY <1>11
  <2>3. CASE p \in S /\ q \in S
    <3>1. f[p[2]] = f[q[2]]
      BY <2>1, <2>2, <2>3
    <3>2. p[2] = q[2]
      <4>1. p[2] \in DOMAIN mempool' /\ q[2] \in DOMAIN mempool'
        BY <1>7, <2>3
      <4>2. QED
        BY <1>3, <3>1, <4>1
    <3>3. QED
      BY <1>7, <2>3, <3>2
  <2>4. CASE p \notin S /\ q \notin S
    BY <1>6, <1>12, <2>1, <2>4
  <2>5. CASE (p \in S) # (q \in S)
    BY <1>6, <1>12, <2>1, <2>2, <2>5
  <2>6. QED
    BY <2>3, <2>4, <2>5
<1>16. InMemory(tx) # {} => InMemory(tx)' # {}
  BY <1>6, <1>10
<1>17. tx \in accepted' <=> tx \in accepted
  BY <1>1
<1>18. QED
  BY <1>1, <1>6, <1>13, <1>14, <1>15, <1>16, <1>17, TransferMoves

(* A transfer that is submitted was nowhere, and is in the mempool then.    *)
LEMMA TransferAdded ==
  ASSUME ApiBase, NEW tx \in Transfers, TransferKnown(tx), AddToMempool(tx)
  PROVE  TransferKnown(tx)'
<1> DEFINE S == Spots(0, tx, mempool')
<1>1. /\ UNCHANGED <<skipped, deaths, failedDeletes, call, hand, rest, blocks, chain, job, pc>>
      /\ tx \notin accepted /\ tx \in accepted'
  BY DEF AddToMempool, Enqueue, disk, caller
<1>2. PICK f :
        /\ \A i \in DOMAIN mempool' :
             \/ f[i] = 0 /\ mempool'[i] = tx
             \/ f[i] \in DOMAIN mempool /\ mempool'[i] = mempool[f[i]] /\ f[i] # 0
        /\ \A i, k \in DOMAIN mempool' : f[i] = f[k] => i = k
        /\ \A k \in DOMAIN mempool \cup {0} : \E i \in DOMAIN mempool' : f[i] = k
  BY SortedMempool
<1>6. InMemory(tx) = {} /\ EverStored(tx) = {} /\ Positions(tx, job.packed) = {}
  BY <1>1 DEF TransferKnown
<1>7. Spots(0, tx, mempool) = {} /\ ChainSpots(tx, Kept) = {} /\ InHand(tx) = {}
  BY <1>6 DEF InMemory
<1>8. InMemory(tx)' = S
  <2>1. InHand(tx)' = {} /\ Kept' = Kept
    BY <1>1, <1>7 DEF InHand, Kept
  <2>2. QED
    BY <1>1, <1>7, <2>1 DEF InMemory
<1>9. EverStored(tx)' = {} /\ OnDisk(tx)' = {}
  <2>1. EverStored(tx)' = {} /\ OnDisk(tx)' = OnDisk(tx)
    BY <1>1, <1>6 DEF EverStored, OnDisk, Remaining
  <2>2. QED
    BY <1>6, <2>1, OnDiskIsStored
<1>10. \A p \in S : p = <<0, p[2]>> /\ p[2] \in DOMAIN mempool' /\ f[p[2]] = 0
  <2>1. TAKE p \in S
  <2>2. PICK i \in DOMAIN mempool' : mempool'[i] = tx /\ p = <<0, i>>
    BY SpotsAre
  <2>3. ~(f[i] \in DOMAIN mempool /\ mempool[f[i]] = tx)
    <3>1. SUFFICES ASSUME f[i] \in DOMAIN mempool, mempool[f[i]] = tx PROVE FALSE
      OBVIOUS
    <3>2. <<0, f[i]>> \in Spots(0, tx, mempool)
      BY <3>1, SpotsAre
    <3>3. QED
      BY <1>7, <3>2
  <2>4. f[i] = 0
    BY <1>2, <2>2, <2>3
  <2>5. QED
    BY <2>2, <2>4
<1>11. AtMostOne(S)
  <2>1. SUFFICES ASSUME NEW p \in S, NEW q \in S PROVE p = q
    BY DEF AtMostOne
  <2>2. p[2] = q[2]
    BY <1>2, <1>10
  <2>3. QED
    BY <1>10, <2>2
<1>12. S # {}
  <2>1. PICK i \in DOMAIN mempool' : f[i] = 0
    BY <1>2
  <2>2. mempool'[i] = tx
    BY <1>2, <2>1
  <2>3. <<0, i>> \in S
    BY <2>2, SpotsAre
  <2>4. QED
    BY <2>3
<1> HIDE DEF S
<1>13. InMemory(tx)' \cup OnDisk(tx)' = S
  BY <1>8, <1>9
<1>14. AtMostOne(EverStored(tx)') /\ AtMostOne(InMemory(tx)') /\ AtMostOne(InMemory(tx)' \cup OnDisk(tx)')
  BY <1>8, <1>9, <1>11, <1>13 DEF AtMostOne
<1>15. QED
  BY <1>1, <1>8, <1>12, <1>14 DEF TransferKnown, AtMostOne

(* RollbackBlock takes the tip in hand; what is stored of it does not count  *)
(* from here on.                                                             *)
LEMMA TransferReturned ==
  ASSUME MoveBase, NEW tx, TransferKnown(tx), BeginRollback, ~overlapped'
  PROVE  TransferKnown(tx)'
<1> DEFINE last == Len(chain)
           tip == chain[last]
           P == Spots(0, tx, mempool)
           K == ChainSpots(tx, Front(chain))
           T == Spots(last, tx, tip.transfers)
           R == Spots(-2, tx, tip.transfers)
<1>1. /\ pc = "ready" /\ pc' = "ready" /\ ApiBase /\ TypeOK
      /\ \A i \in 1 .. Len(chain) : chain[i].index = i - 1
  BY CallsReady DEF MoveBase, DiskBase, Alone, RollbackBlock, ApiBase, LedgerKnown
<1>2. /\ call = "none" /\ Len(chain) > 1 /\ hand' = tip /\ rest' = tip.transfers
      /\ call' = IF tip.transfers = <<>> THEN "cut" ELSE "read"
      /\ UNCHANGED <<chain, mempool, blocks, job, skipped, deaths, failedDeletes, accepted>>
  BY DEF BeginRollback, vars, disk
<1>3. /\ chain \in Seq(Block) /\ mempool \in Seq(Transfers)
      /\ last \in Nat /\ last > 1 /\ chain # <<>>
  BY <1>1, <1>2 DEF TypeOK
<1>4. /\ Front(chain) \in Seq(Block) /\ Len(Front(chain)) = last - 1
      /\ chain = Append(Front(chain), tip) /\ tip \in Block
  BY <1>3, FrontFacts
<1>5. last \in 1 .. Len(chain)
  BY <1>3
<1>6. tip.index = last - 1 /\ tip.transfers \in Seq(Transfers)
  BY <1>1, <1>4, <1>5, BlockFields
<1>7. ChainSpots(tx, chain) = K \cup T
  <2>1. Len(Front(chain)) + 1 = last
    BY <1>3, <1>4
  <2>2. ChainSpots(tx, Append(Front(chain), tip)) = K \cup Spots(Len(Front(chain)) + 1, tx, tip.transfers)
    <3> HIDE DEF tip
    <3> QED  BY <1>4, ChainSpotsGrow
  <2>3. QED
    BY <1>4, <2>1, <2>2
<1>8. /\ InMemory(tx) = P \cup K \cup T /\ InMemory(tx)' = P \cup R \cup K
      /\ EverStored(tx)' = EverStored(tx) /\ OnDisk(tx)' \subseteq OnDisk(tx)
  <2>1. InMemory(tx) = P \cup K \cup T
    BY <1>1, <1>2, <1>7, NoCallSpots DEF Packed, HandLocations
  <2>2. InHand(tx)' = R
    <3>1. Spots(-2, tx, <<>>) = {}
      BY DEF Spots, Positions
    <3>2. CASE tip.transfers = <<>>
      BY <1>1, <1>2, <3>1, <3>2 DEF InHand
    <3>3. CASE tip.transfers # <<>>
      BY <1>1, <1>2, <3>3 DEF InHand
    <3>4. QED
      BY <3>2, <3>3
  <2>3. Kept' = Front(chain) /\ Remaining' = DOMAIN blocks \ {tip.index}
    BY <1>2 DEF Kept, Remaining
  <2>4. InMemory(tx)' = P \cup R \cup K
    BY <1>2, <2>2, <2>3 DEF InMemory
  <2>5. Remaining = DOMAIN blocks
    BY <1>2, NoCallSpots
  <2>6. OnDisk(tx)' \subseteq OnDisk(tx)
    BY <1>2, <2>3, <2>5, DiskSpotsMonotone DEF OnDisk
  <2>7. QED
    BY <1>2, <2>1, <2>4, <2>6 DEF EverStored
<1>9. \A p \in P : p[1] # -2 /\ p[1] # last
  <2>1. \A p \in P : p[1] = 0
    BY <1>3, SpotIsPair
  <2>2. QED
    BY <1>3, <2>1
<1>10. \A p \in K : p[1] # -2 /\ p[1] # last
  <2>1. \A p \in K : p[1] \in 1 .. last - 1
    BY <1>4, ChainSpotIsPair
  <2>2. QED
    BY <1>3, <2>1
<1>11. \A p \in OnDisk(tx)' : p[1] # -2 /\ p[1] # last
  <2>1. Remaining' \in SUBSET DOMAIN blocks /\ tip.index \notin Remaining'
    BY <1>2 DEF Remaining
  <2>2. OnDisk(tx)' = DiskSpots(tx, blocks, Remaining')
    BY <1>2 DEF OnDisk
  <2>3. \A p \in OnDisk(tx)' : p[1] \in Nat \ {0} /\ p[1] - 1 \in Remaining'
    BY <1>1, <2>1, <2>2, DiskSpotIsPair
  <2>4. QED
    BY <1>3, <1>6, <2>1, <2>3
<1>12. \A p \in R : p = <<-2, p[2]>> /\ <<last, p[2]>> \in T
  BY SpotsAre
<1>13. T # {} => R # {}
  <2>1. ASSUME NEW p \in T PROVE R # {}
    <3>1. PICK i \in DOMAIN tip.transfers : tip.transfers[i] = tx
      BY <2>1, SpotsAre
    <3>2. <<-2, i>> \in R
      BY <3>1, SpotsAre
    <3>3. QED
      BY <3>2
  <2>2. QED
    BY <2>1
<1> HIDE DEF P, K, T, R, tip, last
<1> DEFINE Q == InMemory(tx)' \cup OnDisk(tx)'
           g == [p \in Q |-> IF p \in R THEN <<last, p[2]>> ELSE p]
<1>14. /\ \A p \in R : g[p] = <<last, p[2]>> /\ g[p] \in T
       /\ \A p \in Q : p \notin R => g[p] = p /\ p[1] # last /\ p \in P \cup K \cup OnDisk(tx)'
  <2>1. \A p \in R : p \in Q /\ <<last, p[2]>> \in T
    BY <1>8, <1>12
  <2>2. \A p \in Q : p \notin R => p \in P \cup K \cup OnDisk(tx)'
    BY <1>8
  <2>3. \A p \in P \cup K \cup OnDisk(tx)' : p[1] # last
    BY <1>9, <1>10, <1>11
  <2>4. QED
    BY <2>1, <2>2, <2>3
<1> HIDE DEF g
<1>15. \A p \in InMemory(tx)' : g[p] \in InMemory(tx)
  BY <1>8, <1>14
<1>16. \A p \in OnDisk(tx)' : g[p] \in InMemory(tx) \cup OnDisk(tx)
  BY <1>8, <1>14
<1>17. \A p, q \in Q : g[p] = g[q] => p = q
  <2>1. SUFFICES ASSUME NEW p \in Q, NEW q \in Q, g[p] = g[q] PROVE p = q
    OBVIOUS
  <2>2. ASSUME NEW r \in Q, r \in R PROVE g[r][1] = last /\ g[r][2] = r[2]
    BY <1>14, <2>2
  <2>3. CASE p \in R /\ q \in R
    BY <1>12, <2>1, <2>2, <2>3
  <2>4. CASE p \notin R /\ q \notin R
    BY <1>14, <2>1, <2>4
  <2>5. CASE (p \in R) # (q \in R)
    BY <1>14, <2>1, <2>2, <2>5
  <2>6. QED
    BY <2>3, <2>4, <2>5
<1>18. InMemory(tx) # {} => InMemory(tx)' # {}
  BY <1>8, <1>13
<1>19. QED
  BY <1>1, <1>2, <1>8, <1>15, <1>16, <1>17, <1>18, TransferMoves

(* What is in front of a sequence, and what is behind the first.             *)
LEMMA PushedFacts ==
  ASSUME NEW r \in Seq(Transfers), r # <<>>, NEW m \in Seq(Transfers)
  PROVE  /\ <<Head(r)>> \o m \in Seq(Transfers)
         /\ DOMAIN (<<Head(r)>> \o m) = 1 .. Len(m) + 1
         /\ (<<Head(r)>> \o m)[1] = r[1]
         /\ \A i \in 2 .. Len(m) + 1 : i - 1 \in DOMAIN m /\ (<<Head(r)>> \o m)[i] = m[i - 1]
         /\ \A i \in DOMAIN m : i + 1 \in 2 .. Len(m) + 1 /\ (i + 1) - 1 = i
         /\ Tail(r) \in Seq(Transfers) /\ DOMAIN Tail(r) = 1 .. Len(r) - 1
         /\ \A i \in DOMAIN Tail(r) : i + 1 \in DOMAIN r /\ Tail(r)[i] = r[i + 1] /\ i + 1 # 1
         /\ \A i \in DOMAIN r : i # 1 => i - 1 \in DOMAIN Tail(r) /\ (i - 1) + 1 = i
         /\ 1 \in DOMAIN r /\ DOMAIN r \subseteq Nat /\ DOMAIN m \subseteq Nat
<1> DEFINE h == <<Head(r)>>
<1>1. h \in Seq(Transfers) /\ Len(h) = 1 /\ h[1] = r[1]
  OBVIOUS
<1> HIDE DEF h
<1>2. /\ h \o m \in Seq(Transfers) /\ Len(h \o m) = 1 + Len(m)
      /\ \A i \in 1 .. 1 + Len(m) : (h \o m)[i] = IF i <= 1 THEN h[i] ELSE m[i - 1]
  <2>1. /\ h \o m \in Seq(Transfers) /\ Len(h \o m) = Len(h) + Len(m)
        /\ \A i \in 1 .. Len(h) + Len(m) :
             (h \o m)[i] = IF i <= Len(h) THEN h[i] ELSE m[i - Len(h)]
    BY <1>1, ConcatProperties
  <2>2. QED
    BY <1>1, <2>1
<1>3. DOMAIN m = 1 .. Len(m) /\ Len(m) \in Nat /\ DOMAIN r = 1 .. Len(r) /\ Len(r) \in Nat \ {0}
  OBVIOUS
<1>4. 1 \in 1 .. 1 + Len(m) /\ (h \o m)[1] = r[1] /\ DOMAIN (h \o m) = 1 .. Len(m) + 1
  BY <1>1, <1>2, <1>3
<1>5. \A i \in 2 .. Len(m) + 1 : i - 1 \in DOMAIN m /\ (h \o m)[i] = m[i - 1]
  BY <1>2, <1>3
<1>6. /\ Tail(r) \in Seq(Transfers) /\ DOMAIN Tail(r) = 1 .. Len(r) - 1
      /\ \A i \in DOMAIN Tail(r) : Tail(r)[i] = r[i + 1]
  BY <1>3
<1>7. \A i \in DOMAIN Tail(r) : i + 1 \in DOMAIN r /\ i + 1 # 1
  BY <1>3, <1>6
<1>8. \A i \in DOMAIN r : i # 1 => i - 1 \in DOMAIN Tail(r) /\ (i - 1) + 1 = i
  BY <1>3, <1>6
<1>9. \A i \in DOMAIN m : i + 1 \in 2 .. Len(m) + 1 /\ (i + 1) - 1 = i
  BY <1>3
<1>10. QED
  BY <1>2, <1>3, <1>4, <1>5, <1>6, <1>7, <1>8, <1>9 DEF h

(* One transfer moves from the hand to the front of the mempool.             *)
LEMMA TransferPushed ==
  ASSUME MoveBase, NEW tx, TransferKnown(tx), call = "write" => pool = mempool,
         PushTransfer, ~overlapped'
  PROVE  TransferKnown(tx)'
<1> DEFINE P == Spots(0, tx, mempool)
           R == Spots(-2, tx, rest)
           K == ChainSpots(tx, Kept)
           S == Spots(0, tx, mempool')
           tail == Tail(rest)
           U == Spots(-2, tx, tail)
<1>1. pc = "ready" /\ pc' = "ready" /\ ApiBase /\ TypeOK
  BY CallsReady DEF MoveBase, DiskBase, RollbackBlock, ApiBase, LedgerKnown
<1>2. /\ call = "write" /\ rest' = tail /\ mempool' = <<Head(rest)>> \o mempool
      /\ call' = IF tail = <<>> THEN "cut" ELSE "read"
      /\ UNCHANGED <<chain, blocks, job, hand, skipped, deaths, failedDeletes, accepted>>
  BY DEF PushTransfer, disk, counts, tail
<1>3. rest \in Seq(Transfers) /\ rest # <<>> /\ mempool \in Seq(Transfers) /\ Kept \in Seq(Block)
  BY <1>1, <1>2, KeptFacts DEF ApiBase, CallKnown, TypeOK
<1>4. /\ DOMAIN mempool' = 1 .. Len(mempool) + 1 /\ mempool'[1] = rest[1]
      /\ \A i \in 2 .. Len(mempool) + 1 : i - 1 \in DOMAIN mempool /\ mempool'[i] = mempool[i - 1]
      /\ \A i \in DOMAIN mempool : i + 1 \in 2 .. Len(mempool) + 1 /\ (i + 1) - 1 = i
      /\ \A i \in DOMAIN tail : i + 1 \in DOMAIN rest /\ tail[i] = rest[i + 1] /\ i + 1 # 1
      /\ \A i \in DOMAIN rest : i # 1 => i - 1 \in DOMAIN tail /\ (i - 1) + 1 = i
      /\ 1 \in DOMAIN rest /\ DOMAIN rest \subseteq Nat /\ DOMAIN mempool \subseteq Nat
      /\ DOMAIN tail = 1 .. Len(rest) - 1
  BY <1>2, <1>3, PushedFacts DEF tail
<1> HIDE DEF tail
<1>5. Len(mempool) \in Nat /\ Len(rest) \in Nat
  BY <1>3
<1>6. /\ InMemory(tx) = P \cup R \cup K /\ InMemory(tx)' = S \cup U \cup K
      /\ EverStored(tx)' = EverStored(tx) /\ OnDisk(tx)' = OnDisk(tx)
  <2>1. InHand(tx) = R /\ Kept' = Kept /\ Remaining' = Remaining
    BY <1>1, <1>2 DEF InHand, Kept, Remaining
  <2>2. InHand(tx)' = U
    <3>1. Spots(-2, tx, <<>>) = {}
      BY DEF Spots, Positions
    <3>2. CASE tail = <<>>
      BY <1>1, <1>2, <3>1, <3>2 DEF InHand
    <3>3. CASE tail # <<>>
      BY <1>1, <1>2, <3>3 DEF InHand
    <3>4. QED
      BY <3>2, <3>3
  <2>3. QED
    BY <1>2, <2>1, <2>2 DEF InMemory, EverStored, OnDisk
<1>7. \A p \in K \cup OnDisk(tx) : p[1] # 0 /\ p[1] # -2
  <2>1. \A p \in K : p[1] \in Nat \ {0}
    <3>1. \A p \in K : p[1] \in 1 .. Len(Kept)
      BY <1>3, ChainSpotIsPair
    <3>2. QED
      BY <3>1
  <2>2. \A p \in OnDisk(tx) : p[1] \in Nat \ {0}
    BY <1>1, OnDiskIsStored, DiskSpotIsPair DEF OnDisk
  <2>3. QED
    BY <2>1, <2>2
<1>8. \A p \in S : \/ p = <<0, 1>> /\ <<-2, 1>> \in R
                   \/ p = <<0, p[2]>> /\ p[2] \in Nat /\ p[2] # 1 /\ <<0, p[2] - 1>> \in P
  <2>1. TAKE p \in S
  <2>2. PICK i \in DOMAIN mempool' : mempool'[i] = tx /\ p = <<0, i>>
    BY SpotsAre
  <2>3. CASE i = 1
    BY <1>4, <2>2, <2>3, SpotsAre
  <2>4. CASE i # 1
    <3>1. i \in 2 .. Len(mempool) + 1 /\ i \in Nat
      BY <1>4, <1>5, <2>2, <2>4
    <3>2. i - 1 \in DOMAIN mempool /\ mempool[i - 1] = tx
      BY <1>4, <2>2, <3>1
    <3>3. <<0, i - 1>> \in P
      BY <3>2, SpotsAre
    <3>4. QED
      BY <2>2, <2>4, <3>1, <3>3
  <2>5. QED
    BY <2>3, <2>4
<1>9. \A p \in U : p = <<-2, p[2]>> /\ p[2] \in Nat /\ p[2] # 0 /\ <<-2, p[2] + 1>> \in R
  <2>1. TAKE p \in U
  <2>2. PICK i \in DOMAIN tail : tail[i] = tx /\ p = <<-2, i>>
    BY SpotsAre
  <2>3. i \in Nat /\ i # 0
    <3>1. i \in 1 .. Len(rest) - 1
      BY <1>4, <2>2
    <3>2. QED
      BY <1>5, <3>1
  <2>4. i + 1 \in DOMAIN rest /\ rest[i + 1] = tx
    BY <1>4, <2>2
  <2>5. <<-2, i + 1>> \in R
    BY <2>4, SpotsAre
  <2>6. QED
    BY <2>2, <2>3, <2>5
<1>10. P \cup R # {} => S \cup U # {}
  <2>1. ASSUME NEW p \in P PROVE S # {}
    <3>1. PICK i \in DOMAIN mempool : mempool[i] = tx
      BY <2>1, SpotsAre
    <3>2. i + 1 \in 2 .. Len(mempool) + 1 /\ mempool'[i + 1] = mempool[(i + 1) - 1] /\ (i + 1) - 1 = i
      BY <1>4, <3>1
    <3>3. i + 1 \in DOMAIN mempool'
      BY <1>4, <1>5, <3>2
    <3>4. mempool'[i + 1] = tx
      BY <3>1, <3>2
    <3>5. <<0, i + 1>> \in S
      BY <3>3, <3>4, SpotsAre
    <3>6. QED
      BY <3>5
  <2>2. ASSUME NEW p \in R PROVE S \cup U # {}
    <3>1. PICK i \in DOMAIN rest : rest[i] = tx
      BY <2>2, SpotsAre
    <3>2. CASE i = 1
      <4>1. 1 \in DOMAIN mempool' /\ mempool'[1] = tx
        BY <1>4, <1>5, <3>1, <3>2
      <4>2. <<0, 1>> \in S
        BY <4>1, SpotsAre
      <4>3. QED
        BY <4>2
    <3>3. CASE i # 1
      <4>1. i - 1 \in DOMAIN tail /\ (i - 1) + 1 = i
        BY <1>4, <3>1, <3>3
      <4>2. tail[i - 1] = tx
        BY <1>4, <3>1, <4>1
      <4>3. <<-2, i - 1>> \in U
        BY <4>1, <4>2, SpotsAre
      <4>4. QED
        BY <4>3
    <3>4. QED
      BY <3>2, <3>3
  <2>3. QED
    BY <2>1, <2>2
<1> HIDE DEF P, K, R, S, U
<1> DEFINE Q == InMemory(tx)' \cup OnDisk(tx)'
           g == [p \in Q |-> IF p[1] = 0 THEN IF p[2] = 1 THEN <<-2, 1>> ELSE <<0, p[2] - 1>>
                             ELSE IF p[1] = -2 THEN <<-2, p[2] + 1>> ELSE p]
<1>11. \A p \in S : \/ p = <<0, 1>> /\ g[p] = <<-2, 1>> /\ g[p] \in R
                    \/ /\ p = <<0, p[2]>> /\ p[2] \in Nat /\ p[2] # 1 /\ g[p] = <<0, p[2] - 1>>
                       /\ g[p] \in P
  <2>1. TAKE p \in S
  <2>2. p \in Q
    BY <1>6
  <2>3. CASE p = <<0, 1>> /\ <<-2, 1>> \in R
    <3>1. p[1] = 0 /\ p[2] = 1
      BY <2>3
    <3>2. QED
      BY <2>2, <2>3, <3>1
  <2>4. CASE p = <<0, p[2]>> /\ p[2] \in Nat /\ p[2] # 1 /\ <<0, p[2] - 1>> \in P
    <3>1. p[1] = 0
      BY <2>4
    <3>2. QED
      BY <2>2, <2>4, <3>1
  <2>5. QED
    BY <1>8, <2>3, <2>4
<1>12. \A p \in U : p = <<-2, p[2]>> /\ p[2] \in Nat /\ p[2] # 0 /\ g[p] = <<-2, p[2] + 1>> /\ g[p] \in R
  <2>1. TAKE p \in U
  <2>2. p \in Q /\ p = <<-2, p[2]>>
    BY <1>6, <1>9
  <2>3. p[1] = -2 /\ p[1] # 0
    BY <2>2
  <2>4. QED
    BY <1>9, <2>2, <2>3
<1>13. \A p \in K \cup OnDisk(tx)' : g[p] = p /\ p[1] # 0 /\ p[1] # -2
  BY <1>6, <1>7
<1> HIDE DEF g
<1>14. \A p \in InMemory(tx)' : g[p] \in InMemory(tx)
  BY <1>6, <1>11, <1>12, <1>13
<1>15. \A p \in OnDisk(tx)' : g[p] \in InMemory(tx) \cup OnDisk(tx)
  BY <1>6, <1>13
<1>16. \A p, q \in Q : g[p] = g[q] => p = q
  <2>1. SUFFICES ASSUME NEW p \in Q, NEW q \in Q, g[p] = g[q] PROVE p = q
    OBVIOUS
  <2>2. Q = S \cup U \cup (K \cup OnDisk(tx)')
    BY <1>6
  <2>3. ASSUME NEW r \in S \cup U PROVE g[r][1] \in {0, -2}
    BY <1>11, <1>12
  <2>4. CASE p \in K \cup OnDisk(tx)' /\ q \in K \cup OnDisk(tx)'
    BY <1>13, <2>1, <2>4
  <2>5. CASE (p \in K \cup OnDisk(tx)') # (q \in K \cup OnDisk(tx)')
    BY <1>13, <2>1, <2>2, <2>3, <2>5
  <2>6. ASSUME NEW r \in S \cup U, NEW s \in S \cup U, g[r] = g[s] PROVE r = s
    <3>1. CASE r \in S /\ s \in S
      <4>1. CASE r # <<0, 1>> /\ s # <<0, 1>>
        <5>1. /\ r = <<0, r[2]>> /\ r[2] \in Nat /\ g[r] = <<0, r[2] - 1>>
              /\ s = <<0, s[2]>> /\ s[2] \in Nat /\ g[s] = <<0, s[2] - 1>>
          BY <1>11, <3>1, <4>1
        <5>2. r[2] - 1 = s[2] - 1
          <6>1. g[r][2] = r[2] - 1 /\ g[s][2] = s[2] - 1
            BY <5>1
          <6>2. QED
            BY <2>6, <6>1
        <5>3. r[2] = s[2]
          BY <5>1, <5>2
        <5>4. QED
          BY <5>1, <5>3
      <4>2. CASE r = <<0, 1>> /\ s = <<0, 1>>
        BY <4>2
      <4>3. CASE (r = <<0, 1>>) # (s = <<0, 1>>)
        <5>1. ASSUME NEW x \in S PROVE g[x][1] = IF x = <<0, 1>> THEN -2 ELSE 0
          <6>1. CASE x = <<0, 1>> /\ g[x] = <<-2, 1>>
            BY <6>1
          <6>2. CASE x = <<0, x[2]>> /\ x[2] # 1 /\ g[x] = <<0, x[2] - 1>>
            <7>1. x # <<0, 1>>
              BY <6>2
            <7>2. QED
              BY <6>2, <7>1
          <6>3. QED
            BY <1>11, <6>1, <6>2
        <5>2. QED
          BY <2>6, <3>1, <4>3, <5>1
      <4>4. QED
        BY <4>1, <4>2, <4>3
    <3>2. CASE r \in U /\ s \in U
      <4>1. /\ r = <<-2, r[2]>> /\ r[2] \in Nat /\ g[r] = <<-2, r[2] + 1>>
            /\ s = <<-2, s[2]>> /\ s[2] \in Nat /\ g[s] = <<-2, s[2] + 1>>
        BY <1>12, <3>2
      <4>2. r[2] + 1 = s[2] + 1
        <5>1. g[r][2] = r[2] + 1 /\ g[s][2] = s[2] + 1
          BY <4>1
        <5>2. QED
          BY <2>6, <5>1
      <4>3. r[2] = s[2]
        BY <4>1, <4>2
      <4>4. QED
        BY <4>1, <4>3
    <3>3. ASSUME NEW x \in S, NEW y \in U PROVE g[x] # g[y]
      <4>1. g[y] = <<-2, y[2] + 1>> /\ y[2] \in Nat /\ y[2] # 0
        BY <1>12
      <4>2. y[2] + 1 # 1
        BY <4>1
      <4>3. CASE g[x] = <<-2, 1>>
        BY <4>1, <4>2, <4>3
      <4>4. CASE g[x] = <<0, x[2] - 1>>
        BY <4>1, <4>4
      <4>5. QED
        BY <1>11, <4>3, <4>4
    <3>4. QED
      BY <2>6, <3>1, <3>2, <3>3
  <2>7. QED
    BY <2>1, <2>2, <2>4, <2>5, <2>6
<1>17. InMemory(tx) # {} => InMemory(tx)' # {}
  BY <1>6, <1>10
<1>18. QED
  BY <1>1, <1>2, <1>6, <1>14, <1>15, <1>16, <1>17, TransferMoves

ForeignHand == call = "append" => hand.transfers \in Alternatives

(* Steps of the calls that move no transfer. *)
LEMMA TransferCalls ==
  ASSUME MoveBase, NEW tx, TransferKnown(tx), ~overlapped',
         \/ ReadMempool \/ CutChain \/ DecrementLastIndex \/ DeleteFails \/ ClearState
         \/ ReplayNext \/ ReturnFromRollback
         \/ CheckBlock \/ SaveFails \/ RebuildState
  PROVE  TransferKnown(tx)'
<1>1. pc = "ready" /\ pc' = "ready" /\ ApiBase /\ HistoryTyped
  BY CallsReady DEF MoveBase, DiskBase, RollbackBlock, AppendBlockDirectly
<1>2. CASE ReadMempool
  <2>1. /\ call = "read" /\ call' = "write"
        /\ UNCHANGED <<blocks, chain, mempool, job, hand, rest, deaths, accepted, skipped, failedDeletes>>
    BY <1>2 DEF ReadMempool, vars, disk, apiHistory, counts
  <2>2. Kept' = Kept /\ InHand(tx)' = InHand(tx) /\ Remaining' = Remaining
    BY <1>1, <2>1 DEF Kept, InHand, Remaining
  <2>3. QED
    BY <1>1, <2>1, <2>2, TransferQuiet
<1>3. CASE CutChain
  <2>1. /\ call = "cut" /\ call' = "delete" /\ chain' = Front(chain)
        /\ UNCHANGED <<blocks, mempool, job, hand, rest, deaths, accepted, skipped, failedDeletes>>
    BY <1>3 DEF CutChain, disk, apiHistory, counts
  <2>2. Kept' = Kept /\ InHand(tx)' = InHand(tx) /\ Remaining' = Remaining
    BY <1>1, <2>1 DEF Kept, InHand, Remaining
  <2>3. QED
    BY <1>1, <2>1, <2>2, TransferQuiet
<1>4. CASE DeleteFails
  <2>1. /\ call \notin {"read", "write", "cut"} /\ call' = "none"
        /\ UNCHANGED <<blocks, chain, mempool, job, deaths, accepted, skipped>>
        /\ failedDeletes' = failedDeletes + 1
    BY <1>4 DEF DeleteFails, CallerLost, vars, disk
  <2>2. failedDeletes' # 0
    BY <1>1, <2>1 DEF HistoryTyped
  <2>3. Kept' = Kept /\ InHand(tx)' = InHand(tx)
    BY <1>1, <2>1 DEF Kept, InHand
  <2>4. QED
    BY <1>1, <2>1, <2>2, <2>3, TransferQuiet
<1>5. CASE DecrementLastIndex \/ ClearState \/ ReplayNext \/ ReturnFromRollback
             \/ CheckBlock \/ SaveFails \/ RebuildState
  <2>1. /\ call \notin TakingOff /\ call' \notin TakingOff
        /\ UNCHANGED <<blocks, chain, mempool, job, deaths, accepted, skipped, failedDeletes>>
    <3>1. CASE DecrementLastIndex \/ ClearState \/ ReplayNext
      BY <3>1 DEF DecrementLastIndex, ClearState, ReplayNext, disk, apiHistory, counts, TakingOff
    <3>2. CASE ReturnFromRollback \/ SaveFails \/ RebuildState
      BY <3>2 DEF ReturnFromRollback, SaveFails, RebuildState, CallerLost, vars, disk, apiHistory,
         counts, TakingOff
    <3>3. CASE CheckBlock
      <4>1. call = "none" /\ \E block : Accept(block)
        BY <3>3 DEF CheckBlock
      <4>2. QED
        BY <4>1 DEF Accept, disk, TakingOff
    <3>4. QED
      BY <1>5, <3>1, <3>2, <3>3
  <2>2. Kept' = Kept /\ InHand(tx)' = InHand(tx) /\ Remaining' = Remaining
    BY <1>1, <2>1 DEF Kept, InHand, Remaining, TakingOff
  <2>3. QED
    BY <1>1, <2>1, <2>2, TransferQuiet
<1>6. QED
  BY <1>2, <1>3, <1>4, <1>5

(* DeleteBlock of the database takes away what did not count any more.       *)
LEMMA TransferDeleted ==
  ASSUME MoveBase, NEW tx, TransferKnown(tx), ~overlapped', DeleteBlock
  PROVE  TransferKnown(tx)'
<1>1. pc = "ready" /\ pc' = "ready"
  BY CallsReady DEF MoveBase, RollbackBlock
<1>2. /\ call = "delete" /\ call' = "pointer" /\ DOMAIN blocks' = Remaining
      /\ \A i \in Remaining : blocks'[i] = blocks[i]
      /\ UNCHANGED <<chain, mempool, job, deaths, accepted, skipped, failedDeletes>>
  BY DEF DeleteBlock, Remaining, apiHistory, counts
<1>3. /\ Remaining' = Remaining /\ Kept' = Kept /\ InHand(tx)' = InHand(tx)
  BY <1>1, <1>2 DEF Remaining, Kept, InHand
<1>4. EverStored(tx)' = OnDisk(tx) /\ OnDisk(tx)' = OnDisk(tx)
  BY <1>2, <1>3, DiskSpotsSame DEF EverStored, OnDisk
<1>5. InMemory(tx)' = InMemory(tx)
  BY <1>2, <1>3 DEF InMemory
<1>6. OnDisk(tx) \subseteq EverStored(tx)
  BY OnDiskIsStored
<1>7. QED
  BY <1>1, <1>2, <1>4, <1>5, <1>6, TransferStays

(* A block of another miner brings only transfers of its own.                *)
LEMMA TransferDirectly ==
  ASSUME MoveBase, ForeignHand, NEW tx \in Transfers \ Foreign, TransferKnown(tx), ~overlapped',
         AppendChecked
  PROVE  TransferKnown(tx)'
<1>1. pc = "ready" /\ pc' = "ready" /\ ApiBase
  BY CallsReady DEF MoveBase, DiskBase, AppendBlockDirectly
<1>2. /\ call = "append" /\ call' = "save" /\ chain' = Append(chain, hand)
      /\ UNCHANGED <<blocks, mempool, job, deaths, accepted, skipped, failedDeletes>>
      /\ chain \in Seq(Block) /\ hand \in Block
  BY <1>1, ApiAppendChecked DEF AppendChecked, disk, apiHistory, counts
<1>3. /\ Kept = chain /\ Kept' = chain' /\ InHand(tx)' = InHand(tx) /\ Remaining' = Remaining
  BY <1>1, <1>2 DEF Kept, InHand, Remaining
<1>4. Spots(Len(chain) + 1, tx, hand.transfers) = {}
  <2>1. hand.transfers \in Alternatives
    BY <1>2 DEF ForeignHand
  <2>2. tx \notin Range(hand.transfers)
    BY <2>1 DEF Foreign
  <2>3. QED
    BY <2>2 DEF Range, Positions, Spots
<1>5. ChainSpots(tx, chain') = ChainSpots(tx, chain)
  <2>1. ChainSpots(tx, Append(chain, hand)) =
          ChainSpots(tx, chain) \cup Spots(Len(chain) + 1, tx, hand.transfers)
    BY <1>2, ChainSpotsGrow
  <2>2. QED
    BY <1>2, <1>4, <2>1
<1>6. QED
  BY <1>1, <1>2, <1>3, <1>5, TransferQuiet

(* Its first Put copies the end of the chain; its second moves the pointer.  *)
LEMMA TransferSaved ==
  ASSUME MoveBase, NEW tx, TransferKnown(tx), ~overlapped', SaveChecked
  PROVE  TransferKnown(tx)'
<1>1. pc = "ready" /\ pc' = "ready" /\ ApiBase
  BY CallsReady DEF MoveBase, DiskBase, AppendBlockDirectly
<1>2. /\ call \in {"save", "index"} /\ call' \in {"index", "credit"}
      /\ UNCHANGED <<chain, mempool, job, deaths, accepted, skipped, failedDeletes>>
      /\ call \notin TakingOff /\ call' \notin TakingOff
  BY DEF SaveChecked, apiHistory, counts, TakingOff
<1>3. CASE call = "save"
  <2>1. /\ hand \in Block /\ DOMAIN blocks' = DOMAIN blocks \cup {hand.index}
        /\ \A i \in DOMAIN blocks' : blocks'[i] = IF i = hand.index THEN hand ELSE blocks[i]
    BY <1>1, <1>3, ApiSaveChecked
  <2>2. /\ hand = chain[Len(chain)] /\ hand.index = Len(chain) - 1 /\ Len(chain) \in Nat \ {0}
        /\ chain \in Seq(Block)
    BY <1>3, SavedIsTip DEF MoveBase
  <2>3. hand.index + 1 = Len(chain) /\ Len(chain) \in DOMAIN chain
    BY <2>2
  <2>4. QED
    BY <1>1, <1>2, <2>1, <2>2, <2>3, TransferPut DEF HandLocations
<1>4. CASE call = "index"
  <2>1. blocks' = blocks
    BY <1>4 DEF SaveChecked
  <2>2. Kept' = Kept /\ InHand(tx)' = InHand(tx) /\ Remaining' = Remaining
    BY <1>1, <1>2, <2>1 DEF Kept, InHand, Remaining, TakingOff
  <2>3. QED
    BY <1>1, <1>2, <2>1, <2>2, TransferQuiet
<1>5. QED
  BY <1>2, <1>3, <1>4

(* What AppendBlockDirectly is about to append has the transfers of others.  *)
LEMMA ForeignInvariant == ApiSpec => []ForeignHand
<1>1. ApiInit => ForeignHand
  BY DEF ApiInit, ForeignHand
<1>2. ApiBase /\ ForeignHand /\ [ApiNext]_apiVars => ForeignHand'
  <2>1. SUFFICES ASSUME ApiBase, ForeignHand, [ApiNext]_apiVars, call' = "append"
                 PROVE  hand'.transfers \in Alternatives
    BY DEF ForeignHand
  <2>2. CASE UNCHANGED <<call, hand>>
    BY <2>1, <2>2 DEF ForeignHand
  <2>3. CASE Mining \/ (\E tx \in Transfers : AddToMempool(tx)) \/ UNCHANGED apiVars
    <3>1. UNCHANGED caller
      BY <2>1, <2>3, ApiMining DEF AddToMempool, Enqueue, apiVars
    <3>2. QED
      BY <2>2, <3>1 DEF caller
  <2>4. CASE CheckBlock
    BY <2>1, <2>4, ApiCheck
  <2>5. ~Die
    BY <2>1 DEF Die, CallerLost
  <2>6. ~RollbackBlock
    BY <2>1 DEF RollbackBlock, BeginRollback, ReadMempool, PushTransfer, CutChain, DeleteBlock,
       DecrementLastIndex, DeleteFails, ClearState, ReplayNext, ReturnFromRollback, CallerLost
  <2>7. ~(AppendChecked \/ SaveChecked \/ SaveFails \/ RebuildState)
    BY <2>1 DEF AppendChecked, SaveChecked, SaveFails, RebuildState, CallerLost
  <2>8. QED
    BY <2>1, <2>3, <2>4, <2>5, <2>6, <2>7 DEF ApiNext, AppendBlockDirectly
<1>3. QED
  BY <1>1, <1>2, ApiBaseInvariant, PTL DEF ApiSpec

(* While RollbackBlock is between its read of the mempool and its write, it  *)
(* is the mempool it has read.                                               *)
LEMMA PoolStep ==
  ASSUME MoveBase, call = "write" => pool = mempool, [ApiNext]_apiVars, ~overlapped',
         races' = 0, ~Die
  PROVE  call' = "write" => pool' = mempool'
<1>1. SUFFICES ASSUME call' = "write" PROVE pool' = mempool'
  OBVIOUS
<1>2. CASE Mining
  <2>1. call' = "none"
    BY <1>2, MiningAlone
  <2>2. QED
    BY <1>1, <2>1
<1>3. CASE \E tx \in Transfers : AddToMempool(tx)
  <2>1. PICK tx \in Transfers : AddToMempool(tx)
    BY <1>3
  <2>2. call' = call /\ (call # "write" \/ mempool # pool \/ races' = races + 1) /\ races \in Nat
    BY <2>1 DEF AddToMempool, Enqueue, caller, MoveBase, DiskBase, HistoryTyped
  <2>3. QED
    BY <1>1, <2>2
<1>4. CASE ReadMempool
  BY <1>4 DEF ReadMempool, vars
<1>5. CASE RollbackBlock /\ ~ReadMempool
  BY <1>1, <1>5 DEF RollbackBlock, BeginRollback, PushTransfer, CutChain, DeleteBlock,
     DecrementLastIndex, DeleteFails, ClearState, ReplayNext, ReturnFromRollback, CallerLost
<1>6. CASE AppendBlockDirectly
  BY <1>1, <1>6 DEF AppendBlockDirectly, CheckBlock, Accept, AppendChecked, SaveChecked, SaveFails,
     RebuildState, CallerLost
<1>7. CASE UNCHANGED apiVars
  BY <1>1, <1>7 DEF apiVars, vars, caller
<1>8. QED
  BY <1>2, <1>3, <1>4, <1>5, <1>6, <1>7 DEF ApiNext

(* The selection goes through the mempool from the front; while it runs the  *)
(* mempool is left alone.                                                    *)
LEMMA SelectionStep ==
  ASSUME MoveBase, SelectionKnown, [ApiNext]_apiVars, ~overlapped', ~Die
  PROVE  SelectionKnown'
<1>1. SUFFICES ASSUME pc' = "select", ~skipped'
               PROVE  /\ job'.next \in 1 .. Len(mempool') + 1
                      /\ Len(job'.packed) = job'.next - 1
                      /\ \A i \in 1 .. job'.next - 1 : job'.packed[i] = mempool'[i]
  BY DEF SelectionKnown
<1>2. mempool \in Seq(Transfers) /\ Len(mempool) \in Nat /\ job \in Job /\ ApiBase
  BY DEF MoveBase, DiskBase, ApiBase, LedgerKnown, TypeOK
<1>3. CASE CallMineBlock
  <2>1. job' = [NoJob EXCEPT !.parent = chain[Len(chain)], !.bytes = BlockAllowance] /\ mempool' = mempool
    BY <1>3 DEF CallMineBlock, BeginMine
  <2>2. job'.next = 1 /\ job'.packed = <<>>
    BY <2>1 DEF NoJob
  <2>3. QED
    BY <1>2, <2>1, <2>2
<1>4. CASE LedgerStep /\ PackTransfer
  <2> DEFINE t == mempool[job.next]
             n == job.next
  <2>1. /\ job' = [job EXCEPT !.next = @ + 1, !.packed = Append(@, t),
                              !.fees = AddWord(@, t.fee), !.bytes = @ + t.size]
        /\ mempool' = mempool /\ pc = "select" /\ n <= Len(mempool)
    BY <1>4 DEF PackTransfer, Considered
  <2>2. ~skipped
    BY <1>1, <1>4 DEF LedgerStep, apiHistory
  <2>3. /\ n \in 1 .. Len(mempool) /\ job.packed \in Seq(Transfers) /\ Len(job.packed) = n - 1
        /\ \A i \in 1 .. n - 1 : job.packed[i] = mempool[i]
    BY <1>2, <2>1, <2>2 DEF SelectionKnown, Job
  <2>4. t \in Transfers
    BY <1>2, <2>3
  <2>5. job'.next = n + 1 /\ job'.packed = Append(job.packed, t)
    BY <1>2, <2>1 DEF Job
  <2>6. /\ Len(Append(job.packed, t)) = n /\ Append(job.packed, t)[n] = mempool[n]
        /\ \A i \in 1 .. n - 1 : Append(job.packed, t)[i] = mempool[i]
    <3> HIDE DEF n
    <3>1. n \in Nat /\ Len(job.packed) = n - 1
      BY <1>2, <2>3
    <3> QED  BY <2>3, <2>4, <3>1 DEF n
  <2> HIDE DEF t, n
  <2>7. \A i \in 1 .. n : i = n \/ i \in 1 .. n - 1
    BY <1>2, <2>3
  <2>8. n + 1 \in 1 .. Len(mempool) + 1 /\ (n + 1) - 1 = n
    BY <1>2, <2>3
  <2>9. QED
    BY <2>1, <2>5, <2>6, <2>7, <2>8
<1>5. CASE LedgerStep /\ ~PackTransfer
  <2>1. pc' # "select"
    BY <1>2, <1>5, LedgerSteps DEF InitializeLedger, SpawnGenesis, RebuildTransfer, RebuildReward,
       VerifyConsensusIntegrity, EndSelect, AssembleBlock, FindBlock, AppendBlock, PutBlock,
       PutLastIndex, CreditMiner
  <2>2. QED
    BY <1>1, <2>1
<1>6. CASE Skip \/ PutFails \/ CutPanics
  BY <1>1, <1>6 DEF Skip, PutFails, CutPanics
<1>7. CASE \E tx \in Transfers : AddToMempool(tx)
  BY <1>1, <1>7 DEF AddToMempool, Enqueue, Unlocked
<1>8. CASE RollbackBlock \/ AppendBlockDirectly
  BY <1>1, <1>8, CallsReady DEF MoveBase
<1>9. CASE UNCHANGED apiVars
  BY <1>1, <1>9 DEF apiVars, vars, apiHistory, SelectionKnown
<1>10. QED
  BY <1>3, <1>4, <1>5, <1>6, <1>7, <1>8, <1>9 DEF ApiNext, Mining

(* Neither MineBlock nor the load doubles a transfer or loses one.           *)
LEMMA TransferMined ==
  ASSUME MoveBase, SelectionKnown, NEW tx, TransferKnown(tx), Mining, ~overlapped'
  PROVE  TransferKnown(tx)'
<1>1. call = "none" /\ call' = "none" /\ TypeOK
  BY MiningAlone
<1>2. CASE Skip
  <2>1. /\ skipped' /\ UNCHANGED <<accepted, blocks, chain, mempool, pc>>
        /\ job' = [job EXCEPT !.next = @ + 1] /\ job \in Job
    BY <1>1, <1>2 DEF Skip, SkipTransfer, TypeOK, disk
  <2>2. job'.packed = job.packed
    BY <2>1 DEF Job
  <2>3. InMemory(tx)' = InMemory(tx) /\ EverStored(tx)' = EverStored(tx)
    BY <1>1, <2>1, <2>2, NoCallSpots DEF Packed, EverStored
  <2>4. tx \notin accepted => Positions(tx, job'.packed) = {}
    BY <2>2 DEF TransferKnown
  <2>5. QED
    BY <2>1, <2>3, <2>4, TransferSkipped
<1>3. CASE ~Skip
  <2>1. UNCHANGED <<skipped, deaths, failedDeletes, accepted>>
    BY <1>3 DEF Mining, CallMineBlock, LedgerStep, CutPanics, PutFails, apiHistory, counts
  <2>2. ApiBase /\ LedgerKnown
    BY DEF MoveBase, DiskBase, ApiBase
  <2>3. CASE CallMineBlock \/ CutPanics \/ PutFails
    BY <1>1, <2>1, <2>3, TransferLedger DEF CallMineBlock
  <2>4. CASE LedgerStep
    <3>1. CASE \/ InitializeLedger \/ SpawnGenesis
               \/ RebuildTransfer \/ RebuildReward \/ VerifyConsensusIntegrity
               \/ AssembleBlock \/ FindBlock \/ PutLastIndex
               \/ CreditMiner
      BY <1>1, <2>1, <3>1, TransferLedger
    <3>2. CASE PackTransfer
      BY <1>1, <2>1, <3>2, TransferPacked
    <3>3. CASE EndSelect
      BY <1>1, <2>1, <3>3, TransferSelected
    <3>4. CASE AppendBlock
      BY <1>1, <2>1, <3>4, TransferAppended
    <3>5. CASE PutBlock
      <4>1. /\ pc = "save" /\ pc' = "index" /\ blocks' = WithBlock(blocks, newBlock)
            /\ UNCHANGED <<chain, mempool, job>>
        BY <3>5 DEF PutBlock
      <4>2. /\ newBlock = chain[Len(chain)] /\ newBlock.index = Len(chain) - 1
            /\ Len(chain) \in Nat \ {0} /\ chain \in Seq(Block) /\ newBlock \in Block
        BY <4>1, SavedIsTip DEF MoveBase
      <4>3. newBlock.index + 1 = Len(chain) /\ Len(chain) \in DOMAIN chain
        BY <4>2
      <4>4. /\ DOMAIN blocks' = DOMAIN blocks \cup {newBlock.index}
            /\ \A i \in DOMAIN blocks' : blocks'[i] = IF i = newBlock.index THEN newBlock ELSE blocks[i]
        BY <4>1 DEF WithBlock
      <4>5. QED
        BY <1>1, <2>1, <4>1, <4>2, <4>3, <4>4, TransferPut DEF HandLocations, TakingOff
    <3>6. QED
      BY <2>2, <2>4, <3>1, <3>2, <3>3, <3>4, <3>5, LedgerSteps
  <2>5. QED
    BY <1>3, <2>3, <2>4 DEF Mining
<1>4. QED
  BY <1>2, <1>3

(* No step doubles a transfer or loses one.                                  *)
LEMMA TransferStep ==
  ASSUME MoveBase, ForeignHand, call = "write" => pool = mempool, SelectionKnown,
         NEW tx \in Transfers \ Foreign, TransferKnown(tx), [ApiNext]_apiVars, ~overlapped'
  PROVE  TransferKnown(tx)'
<1>1. ApiBase /\ HistoryTyped
  BY DEF MoveBase, DiskBase
<1>2. CASE Mining
  BY <1>2, TransferMined
<1>3. CASE Die
  BY <1>1, <1>3, TransferDie
<1>4. CASE \E t \in Transfers : AddToMempool(t)
  <2>1. PICK t \in Transfers : AddToMempool(t)
    BY <1>4
  <2>2. CASE t = tx
    BY <1>1, <2>1, <2>2, TransferAdded
  <2>3. CASE t # tx
    BY <1>1, <2>1, <2>3, TransferSorted
  <2>4. QED
    BY <2>2, <2>3
<1>5. CASE RollbackBlock
  BY <1>5, TransferReturned, TransferPushed, TransferCalls, TransferDeleted DEF RollbackBlock
<1>6. CASE AppendBlockDirectly
  BY <1>6, TransferCalls, TransferDirectly, TransferSaved DEF AppendBlockDirectly
<1>7. CASE UNCHANGED apiVars
  <2>1. /\ UNCHANGED <<blocks, pc, chain, mempool, job, call, hand, rest>>
        /\ UNCHANGED <<skipped, deaths, failedDeletes, accepted>>
    BY <1>7 DEF apiVars, vars, disk, caller, apiHistory, counts
  <2>2. Kept' = Kept /\ Remaining' = Remaining /\ InHand(tx)' = InHand(tx)
    BY <2>1 DEF Kept, Remaining, InHand
  <2>3. QED
    BY <2>1, <2>2, TransferQuiet
<1>8. QED
  BY <1>2, <1>3, <1>4, <1>5, <1>6, <1>7 DEF ApiNext

(* At first there is no transfer.                                            *)
LEMMA NoTransferAtFirst ==
  ASSUME ApiInit
  PROVE  TransfersKnown
<1>1. /\ pc = "off" /\ mempool = <<>> /\ chain = <<>> /\ blocks = <<>> /\ job.packed = <<>>
      /\ accepted = {} /\ call = "none"
  BY DEF ApiInit, Init, NoJob
<1>2. SelectionKnown
  BY <1>1 DEF SelectionKnown
<1>3. ASSUME NEW tx PROVE TransferKnown(tx)
  <2>1. Spots(0, tx, <<>>) = {} /\ ChainSpots(tx, <<>>) = {} /\ Positions(tx, <<>>) = {}
    BY DEF Spots, Positions, ChainSpots
  <2>2. InMemory(tx) = {}
    BY <1>1, <2>1, NoCallSpots DEF Packed, HandLocations
  <2>3. DOMAIN blocks = {}
    BY <1>1
  <2>4. EverStored(tx) = {}
    BY <2>3, DiskSpotsAre DEF EverStored
  <2>5. OnDisk(tx) = {}
    BY <2>4, OnDiskIsStored
  <2>6. QED
    BY <1>1, <2>1, <2>2, <2>4, <2>5 DEF TransferKnown, AtMostOne
<1>4. QED
  BY <1>1, <1>2, <1>3 DEF TransfersKnown

(* Where the transfers are, while the mutex was not missed.                  *)
LEMMA TransfersStep ==
  ASSUME ApiBase, HistoryTyped, Alone, FirstLoad, DiskKnown, JobKnown, ForeignHand, TransfersKnown,
         [ApiNext]_apiVars
  PROVE  TransfersKnown'
<1>1. HistoryTyped' /\ FirstLoad' /\ overlaps' >= overlaps /\ races' >= races
  BY HistoryStep, FirstLoadStep
<1>2. SUFFICES ASSUME overlaps' = 0, races' = 0
               PROVE  /\ call' = "write" => pool' = mempool'
                      /\ SelectionKnown'
                      /\ \A tx \in Transfers \ Foreign : TransferKnown(tx)'
  BY DEF TransfersKnown, Foreign
<1>3. overlaps = 0 /\ races = 0
  <2>1. overlaps \in Nat /\ races \in Nat
    BY DEF HistoryTyped
  <2>2. QED
    BY <1>1, <1>2, <2>1
<1>4. MoveBase /\ ~overlapped'
  BY <1>1, <1>2, <1>3 DEF FirstLoad, DiskKnown, DiskBase, MoveBase
<1>5. /\ call = "write" => pool = mempool
      /\ SelectionKnown
      /\ \A tx \in Transfers \ Foreign : TransferKnown(tx)
  BY <1>3 DEF TransfersKnown
<1>6. \A tx \in Transfers \ Foreign : TransferKnown(tx)'
  BY <1>4, <1>5, TransferStep
<1>7. CASE Die
  <2>1. call' = "none" /\ pc' = "off"
    BY <1>7 DEF Die, Stop, CallerLost
  <2>2. QED
    BY <1>6, <2>1 DEF SelectionKnown
<1>8. CASE ~Die
  BY <1>2, <1>4, <1>5, <1>6, <1>8, PoolStep, SelectionStep
<1>9. QED
  BY <1>7, <1>8

(* It is so from the start on.                                             *)
LEMMA TransfersInvariant == ApiSpec => []TransfersKnown
<1>1. ApiInit => TransfersKnown
  BY NoTransferAtFirst
<1>2. ApiBase /\ HistoryTyped /\ Alone /\ FirstLoad /\ DiskKnown /\ BooksKnown /\ ForeignHand
        /\ TransfersKnown /\ [ApiNext]_apiVars => TransfersKnown'
  BY TransfersStep DEF BooksKnown
<1>3. QED
  BY <1>1, <1>2, ApiBaseInvariant, AloneInvariant, FirstLoadInvariant, DiskInvariant,
     BooksInvariant, ForeignInvariant, PTL DEF ApiSpec

(* PendingOrExecuted: while no call without the mutex meets MineBlock, nor   *)
(* AddToMempool RollbackBlock between a read and a write of the mempool,     *)
(* rollbacks, failed writes and deaths between any two steps neither lose an *)
(* accepted transfer nor let it be executed twice, but for what a death      *)
(* loses with the memory.                                                    *)
THEOREM ApiPendingOrExecuted == ApiSpec => []PendingOrExecuted
<1>1. ASSUME HistoryTyped, TransfersKnown PROVE PendingOrExecuted
  <2>1. SUFFICES ASSUME Idle, ~skipped, overlaps = 0, races = 0, failedDeletes > 0 => deaths = 0,
                        NEW tx \in accepted \ Foreign
                 PROVE  Cardinality(Pending(tx) \cup Executed(tx)) \in
                          (IF deaths > 0 THEN {0, 1} ELSE {1})
    BY DEF PendingOrExecuted
  <2> DEFINE places == Pending(tx) \cup Executed(tx)
  <2>2. TransferKnown(tx) /\ deaths \in Nat /\ failedDeletes \in Nat
    BY <1>1, <2>1 DEF TransfersKnown, HistoryTyped
  <2>3. places = InMemory(tx) /\ pc = "ready"
    <3>1. pc = "ready" /\ call = "none"
      BY <2>1 DEF Idle
    <3>2. QED
      BY <3>1, NoCallSpots DEF Pending, Executed, Packed, HandLocations, Spots, ChainSpots
  <2>4. AtMostOne(places)
    <3>1. CASE deaths = 0
      BY <2>1, <2>2, <2>3, <3>1 DEF TransferKnown
    <3>2. CASE deaths # 0
      <4>1. failedDeletes = 0
        BY <2>1, <2>2, <3>2
      <4>2. AtMostOne(InMemory(tx) \cup OnDisk(tx))
        BY <2>1, <2>2, <4>1 DEF TransferKnown
      <4>3. QED
        BY <2>3, <4>2 DEF AtMostOne
    <3>3. QED
      BY <3>1, <3>2
  <2>5. deaths = 0 => places # {}
    BY <2>1, <2>2, <2>3 DEF TransferKnown
  <2>6. deaths > 0 \/ deaths = 0
    BY <2>2
  <2> HIDE DEF places
  <2>7. CASE places = {}
    <3>1. Cardinality(places) = 0
      BY <2>7, FS_EmptySet
    <3>2. QED
      BY <2>5, <2>6, <2>7, <3>1 DEF places
  <2>8. CASE places # {}
    <3>1. PICK p \in places : TRUE
      BY <2>8
    <3>2. places = {p}
      BY <2>4, <3>1 DEF AtMostOne
    <3>3. Cardinality(places) = 1
      BY <3>2, FS_Singleton
    <3>4. QED
      BY <3>3 DEF places
  <2>9. QED
    BY <2>7, <2>8
<1>2. QED
  BY <1>1, ApiBaseInvariant, TransfersInvariant, PTL

=============================================================================
