----------------------------- MODULE LedgerApi -----------------------------
(***************************************************************************)
(* The operations LedgerCore exports and no command calls yet, as three    *)
(* kinds of goroutine would use them over one ledger: one that calls       *)
(* MineBlock (`pc`, `job` and `newBlock` are its), any that call           *)
(* AddToMempool, and one that calls RollbackBlock or AppendBlockDirectly.  *)
(* These two take no mutex: they run at any point of the others.  Writes   *)
(* of the database can fail, every write is a step, and the process can    *)
(* die before it.                                                          *)
(***************************************************************************)
EXTENDS LedgerAccounts

CONSTANTS
  Forged,       \* transfers whose signature does not verify
  Alternatives, \* lists of transfers in blocks that others mined
  OtherMiner,   \* their miner
  MaxTroubles   \* bound: deaths, writes that fail, and calls that meet for want of the mutex

ASSUME ApiAssumption ==
  /\ Forged \subseteq Transfers
  /\ Alternatives \subseteq Seq(Transfers)
  /\ OtherMiner \in Prefixed
  /\ MaxTroubles \in Nat

VARIABLES
  (* the goroutine of RollbackBlock and AppendBlockDirectly *)
  call,    \* where it is
  hand,    \* the block it takes off or puts on
  rest,    \* transfers of `hand` still to be put back
  pool,    \* the mempool as RollbackBlock read it
  todo,    \* blocks still to be replayed
  (* history, for the properties *)
  failedPuts,     \* writes of SaveBlock that failed
  failedDeletes,  \* those of DeleteBlock
  deaths,         \* of the process
  overlaps,       \* times that MineBlock met a call that takes no mutex
  races,          \* times that AddToMempool came between a read and a write of RollbackBlock
  overlapped,     \* there was such an overlap in this process
  undone,         \* RollbackBlock returned before it replayed the chain
  accepted,       \* what AddToMempool returned true for
  skipped,        \* the miner skipped a transfer
  pushed          \* RollbackBlock put transfers in front since the last sort

caller == <<call, hand, rest, pool, todo>>
counts == <<failedPuts, failedDeletes, deaths, overlaps, races>>
apiHistory == <<counts, overlapped, undone, accepted, skipped, pushed>>
apiVars == <<vars, caller, apiHistory>>

Calls == {"none", "read", "write", "cut", "delete", "pointer", "clear", "replay",
          "append", "save", "index", "credit"}

ApiInit ==
  /\ Init
  /\ call = "none"
  /\ hand = NoBlock
  /\ rest = <<>>
  /\ pool = <<>>
  /\ todo = <<>>
  /\ failedPuts = 0
  /\ failedDeletes = 0
  /\ deaths = 0
  /\ overlaps = 0
  /\ races = 0
  /\ overlapped = FALSE
  /\ undone = FALSE
  /\ accepted = {}
  /\ skipped = FALSE
  /\ pushed = FALSE

Failures == failedPuts + failedDeletes
Troubles == Failures + deaths + overlaps + races

(* InitializeLedger has returned, and the process is there.                  *)
InUse ==
  \/ pc \in {"ready", "select", "assemble", "mining", "commit"}
  \/ pc \in {"save", "index", "credit"} /\ newBlock.index > 0

Idle == pc = "ready" /\ call = "none"

----------------------------------------------------------------------------
(* The ledger as module Ledger has it, while nothing else touches its        *)
(* variables.                                                                *)

(* Two goroutines meet, one of them without the mutex. *)
Meet(busy) ==
  \/ ~busy /\ UNCHANGED <<overlaps, overlapped>>
  \/ busy /\ Troubles < MaxTroubles /\ overlaps' = overlaps + 1 /\ overlapped' = TRUE

(* MineBlock is called at any time, on any mempool: the live worker looks    *)
(* whether it is empty without the mutex, and calls whatever became of it.   *)
(* One call at a time, since Ledger has the locals of one.                   *)
CallMineBlock ==
  /\ BeginMine
  /\ Meet(call # "none")
  /\ UNCHANGED caller
  /\ UNCHANGED <<failedPuts, failedDeletes, deaths, races, undone, accepted, skipped, pushed>>

LedgerStep ==
  /\ \/ Load \/ PackTransfer \/ AssembleBlock \/ FindBlock \/ AppendBlock \/ PutBlock \/ PutLastIndex
     \/ CreditMiner
     \/ Len(mempool) >= Len(job.packed) /\ EndSelect
  /\ UNCHANGED <<caller, apiHistory>>

(* The packed transfers are more than the mempool has by now.                *)
CutPanics ==
  /\ pc = "select"
  /\ ~Considered
  /\ Len(mempool) < Len(job.packed)
  /\ pc' = "panic"
  /\ UNCHANGED <<disk, params, chain, state, mempool, settings, job, newBlock, cursor, found>>
  /\ UNCHANGED <<caller, apiHistory>>

Skip ==
  /\ SkipTransfer
  /\ skipped' = TRUE
  /\ UNCHANGED <<caller, counts, overlapped, undone, accepted, pushed>>

(* SaveBlock returns an error, which its callers ignore. *)
PutFails ==
  /\ pc \in {"save", "index"}
  /\ Troubles < MaxTroubles
  /\ failedPuts' = failedPuts + 1
  /\ pc' = IF newBlock.index = 0 THEN "ready" ELSE "credit"
  /\ UNCHANGED <<disk, params, chain, state, mempool, settings, job, newBlock, cursor, found>>
  /\ UNCHANGED caller
  /\ UNCHANGED <<failedDeletes, deaths, overlaps, races, overlapped, undone, accepted, skipped, pushed>>

CallerLost ==
  /\ call' = "none"
  /\ hand' = NoBlock
  /\ rest' = <<>>
  /\ pool' = <<>>
  /\ todo' = <<>>

Die ==
  /\ Stop
  /\ Troubles < MaxTroubles
  /\ deaths' = deaths + 1
  /\ CallerLost
  /\ overlapped' = FALSE
  /\ undone' = FALSE
  /\ pushed' = FALSE
  /\ UNCHANGED <<failedPuts, failedDeletes, overlaps, races, accepted, skipped>>

----------------------------------------------------------------------------
(* AddToMempool.  A transfer's nonce, which nothing compares, is its id.     *)
(* Each transfer is submitted once: nothing looks for one that was before.   *)

ByFee(transfers) == \A i, k \in 1 .. Len(transfers) : i < k => transfers[i].fee >= transfers[k].fee

(* sort.Slice is not stable. *)
Sortings(transfers) ==
  LET positions == DOMAIN transfers
  IN  {s \in {[i \in positions |-> transfers[p[i]]] : p \in Bijection(positions, positions)} :
         ByFee(s)}

(* What the call does once it has the mutex and its checks are passed. *)
Enqueue(tx, queue) ==
  /\ InUse /\ Unlocked
  /\ Len(mempool) < MaxMempool
  /\ tx \notin accepted
  /\ state' = [state EXCEPT ![tx.sender].nonce = tx.id]
  /\ mempool' \in queue
  /\ accepted' = accepted \cup {tx}
  /\ pushed' = FALSE
  /\ \/ (call # "write" \/ mempool # pool) /\ races' = races
     \/ call = "write" /\ mempool = pool /\ Troubles < MaxTroubles /\ races' = races + 1
  /\ UNCHANGED <<disk, params, pc, chain, settings, job, newBlock, cursor, found>>
  /\ UNCHANGED caller
  /\ UNCHANGED <<failedPuts, failedDeletes, deaths, overlaps, overlapped, undone, skipped>>

(* A variant that does not verify the signature. *)
AddUnverified(tx) ==
  /\ tx.recipient \in Prefixed
  /\ Enqueue(tx, Sortings(Append(mempool, tx)))

(* A variant that leaves the order of arrival. *)
AddUnsorted(tx) ==
  /\ tx.recipient \in Prefixed
  /\ tx \notin Forged
  /\ Enqueue(tx, {Append(mempool, tx)})

AddToMempool(tx) ==
  /\ tx.recipient \in Prefixed
  /\ tx \notin Forged
  /\ Enqueue(tx, Sortings(Append(mempool, tx)))

(* GetMempoolFeeStats: the first transfer's fee. *)
HighestFee == IF mempool = <<>> THEN 0 ELSE mempool[1].fee

----------------------------------------------------------------------------
(* RollbackBlock. *)

(* The tip is read, and only then the chain is cut. *)
BeginRollback ==
  /\ InUse
  /\ call = "none"
  /\ Len(chain) > 1
  /\ LET tip == chain[Len(chain)]
     IN  /\ Len(mempool) + Len(tip.transfers) <= MaxMempool
         /\ hand' = tip
         /\ rest' = tip.transfers
         /\ call' = IF tip.transfers = <<>> THEN "cut" ELSE "read"
  /\ Meet(pc # "ready")
  /\ UNCHANGED <<vars, pool, todo>>
  /\ UNCHANGED <<failedPuts, failedDeletes, deaths, races, undone, accepted, skipped, pushed>>

(* The transfers go to the front one by one, which turns them round: each    *)
(* time the mempool is read, copied behind the transfer, and written.        *)
ReadMempool ==
  /\ InUse
  /\ call = "read"
  /\ pool' = mempool
  /\ call' = "write"
  /\ UNCHANGED <<vars, hand, rest, todo, apiHistory>>

(* A variant that drops the transfer. *)
PushForgetful ==
  /\ InUse
  /\ call = "write"
  /\ mempool' = pool
  /\ pushed' = TRUE
  /\ rest' = Tail(rest)
  /\ call' = IF Tail(rest) = <<>> THEN "cut" ELSE "read"
  /\ pool' = <<>>
  /\ UNCHANGED <<disk, params, pc, chain, state, settings, job, newBlock, cursor, found>>
  /\ UNCHANGED <<hand, todo>>
  /\ UNCHANGED <<counts, overlapped, undone, accepted, skipped>>

(* Where another goroutine wrote the mempool meanwhile, either write is lost. *)
PushTransfer ==
  /\ InUse
  /\ call = "write"
  /\ \/ mempool' = <<Head(rest)>> \o pool
     \/ mempool # pool /\ mempool' = mempool
  /\ pushed' = TRUE
  /\ rest' = Tail(rest)
  /\ call' = IF Tail(rest) = <<>> THEN "cut" ELSE "read"
  /\ pool' = <<>>
  /\ UNCHANGED <<disk, params, pc, chain, state, settings, job, newBlock, cursor, found>>
  /\ UNCHANGED <<hand, todo>>
  /\ UNCHANGED <<counts, overlapped, undone, accepted, skipped>>

CutChain ==
  /\ InUse
  /\ call = "cut"
  /\ chain' = Front(chain)
  /\ call' = "delete"
  /\ UNCHANGED <<disk, params, pc, state, mempool, settings, job, newBlock, cursor, found>>
  /\ UNCHANGED <<hand, rest, pool, todo, apiHistory>>

(* A variant that leaves the block and moves the pointer only. *)
DeleteBlockKept ==
  /\ InUse
  /\ call = "delete"
  /\ call' = "pointer"
  /\ lastIndex' = hand.index
  /\ UNCHANGED <<blocks, params, pc, chain, state, mempool, settings, job, newBlock, cursor, found>>
  /\ UNCHANGED <<hand, rest, pool, todo, apiHistory>>

(* DeleteBlock of the database: the block ... *)
DeleteBlock ==
  /\ InUse
  /\ call = "delete"
  /\ blocks' = [i \in DOMAIN blocks \ {hand.index} |-> blocks[i]]
  /\ call' = "pointer"
  /\ UNCHANGED <<lastIndex, params, pc, chain, state, mempool, settings, job, newBlock, cursor, found>>
  /\ UNCHANGED <<hand, rest, pool, todo, apiHistory>>

(* ... and the pointer; a block that is rolled back is never the first. *)
DecrementLastIndex ==
  /\ InUse
  /\ call = "pointer"
  /\ lastIndex' = hand.index - 1
  /\ call' = "clear"
  /\ UNCHANGED <<blocks, params, pc, chain, state, mempool, settings, job, newBlock, cursor, found>>
  /\ UNCHANGED <<hand, rest, pool, todo, apiHistory>>

(* Either fails, and RollbackBlock returns the error. *)
DeleteFails ==
  /\ InUse
  /\ call \in {"delete", "pointer"}
  /\ Troubles < MaxTroubles
  /\ failedDeletes' = failedDeletes + 1
  /\ undone' = TRUE
  /\ CallerLost
  /\ UNCHANGED vars
  /\ UNCHANGED <<failedPuts, deaths, overlaps, races, overlapped, accepted, skipped, pushed>>

(* A variant that keeps the old accounts. *)
ClearNothing ==
  /\ InUse
  /\ call = "clear"
  /\ todo' = chain
  /\ call' = "replay"
  /\ UNCHANGED <<vars, hand, rest, pool, apiHistory>>

(* RebuildState over what is left: a new map, and the range over the chain.  *)
ClearState ==
  /\ InUse
  /\ call = "clear"
  /\ state' = ZeroState
  /\ todo' = chain
  /\ call' = "replay"
  /\ UNCHANGED <<disk, params, pc, chain, mempool, settings, job, newBlock, cursor, found>>
  /\ UNCHANGED <<hand, rest, pool, apiHistory>>

ReplayNext ==
  /\ InUse
  /\ call = "replay"
  /\ todo # <<>>
  /\ state' = ReplayBlock(state, Head(todo))
  /\ todo' = Tail(todo)
  /\ UNCHANGED <<disk, params, pc, chain, mempool, settings, job, newBlock, cursor, found>>
  /\ UNCHANGED <<call, hand, rest, pool, apiHistory>>

ReturnFromRollback ==
  /\ InUse
  /\ call = "replay"
  /\ todo = <<>>
  /\ CallerLost
  /\ undone' = FALSE
  /\ UNCHANGED <<vars, counts, overlapped, accepted, skipped, pushed>>

----------------------------------------------------------------------------
(* AppendBlockDirectly *)

(* A block another node mined on top of `parent`, a second later. *)
Alternative(parent, transfers) ==
  LET time == parent.timestamp + 1
      difficulty == CalculateNextDifficulty(parent.timestamp, time, parent.difficulty)
  IN  [index |-> parent.index + 1, timestamp |-> time, prevHash |-> parent.hash,
       hash |-> [nonce |-> found + 1, work |-> difficulty], transfers |-> transfers,
       miner |-> OtherMiner, difficulty |-> difficulty,
       reward |-> CappedReward(params, parent.index + 1, GetTotalCirculatingSupply(chain)),
       maxSupply |-> params.maxSupply, halvingInterval |-> params.halvingInterval]

(* What becomes of a block that is accepted. *)
Accept(block) ==
  /\ hand' = block
  /\ found' = found + 1
  /\ call' = "append"
  /\ Meet(pc # "ready")
  /\ UNCHANGED <<disk, params, pc, chain, state, mempool, settings, job, newBlock, cursor>>
  /\ UNCHANGED <<rest, pool, todo>>
  /\ UNCHANGED <<failedPuts, failedDeletes, deaths, races, undone, accepted, skipped, pushed>>

(* A variant that trusts the caller. *)
CheckNothing ==
  /\ InUse
  /\ call = "none"
  /\ found < MaxFound
  /\ \E parent \in Range(chain), transfers \in Alternatives : Accept(Alternative(parent, transfers))

(* A block on top of any other than the tip is refused; transfers the sender *)
(* cannot pay are not looked for.                                            *)
CheckBlock ==
  /\ InUse
  /\ call = "none"
  /\ found < MaxFound
  /\ \E parent \in Range(chain), transfers \in Alternatives :
       LET block == Alternative(parent, transfers)
           tip == chain[Len(chain)]
       IN  /\ block.prevHash = tip.hash
           /\ ValidateBlockConsensus(params, block, tip, GetTotalCirculatingSupply(chain))
           /\ Accept(block)

(* What is the tip by now is not looked at again. *)
AppendChecked ==
  /\ InUse
  /\ call = "append"
  /\ chain' = Append(chain, hand)
  /\ call' = "save"
  /\ UNCHANGED <<disk, params, pc, state, mempool, settings, job, newBlock, cursor, found>>
  /\ UNCHANGED <<hand, rest, pool, todo, apiHistory>>

(* SaveBlock, as MineBlock has it. *)
SaveChecked ==
  /\ InUse
  /\ \/ /\ call = "save"
        /\ blocks' = WithBlock(blocks, hand)
        /\ lastIndex' = lastIndex
        /\ call' = "index"
     \/ /\ call = "index"
        /\ blocks' = blocks
        /\ lastIndex' = hand.index
        /\ call' = "credit"
  /\ UNCHANGED <<params, pc, chain, state, mempool, settings, job, newBlock, cursor, found>>
  /\ UNCHANGED <<hand, rest, pool, todo, apiHistory>>

SaveFails ==
  /\ InUse
  /\ call \in {"save", "index"}
  /\ Troubles < MaxTroubles
  /\ failedPuts' = failedPuts + 1
  /\ call' = "credit"
  /\ UNCHANGED <<vars, hand, rest, pool, todo>>
  /\ UNCHANGED <<failedDeletes, deaths, overlaps, races, overlapped, undone, accepted, skipped, pushed>>

(* RebuildState of the block, saved or not. *)
RebuildState ==
  /\ InUse
  /\ call = "credit"
  /\ state' = ReplayBlock(state, hand)
  /\ CallerLost
  /\ UNCHANGED <<disk, params, pc, chain, mempool, settings, job, newBlock, cursor, found>>
  /\ UNCHANGED apiHistory

----------------------------------------------------------------------------

Mining == CallMineBlock \/ LedgerStep \/ CutPanics \/ Skip \/ PutFails

RollbackBlock == BeginRollback \/ ReadMempool \/ PushTransfer \/ CutChain \/ DeleteBlock
                   \/ DecrementLastIndex \/ DeleteFails \/ ClearState \/ ReplayNext \/ ReturnFromRollback

AppendBlockDirectly == CheckBlock \/ AppendChecked \/ SaveChecked \/ SaveFails \/ RebuildState

ApiNext ==
  \/ Mining \/ Die
  \/ \E tx \in Transfers : AddToMempool(tx)
  \/ RollbackBlock \/ AppendBlockDirectly

ApiSpec == ApiInit /\ [][ApiNext]_apiVars

----------------------------------------------------------------------------
(* Properties *)

(* Every variable holds what the code's types allow, whatever overlaps. *)
ApiTypeOK ==
  /\ TypeOK
  /\ call \in Calls
  /\ hand \in Block \cup {NoBlock}
  /\ rest \in Seq(Transfers)
  /\ pool \in Seq(Transfers)
  /\ todo \in Seq(Block)
  /\ {failedPuts, failedDeletes, deaths, overlaps, races} \subseteq Nat
  /\ Troubles <= MaxTroubles
  /\ {overlapped, undone, skipped, pushed} \subseteq BOOLEAN
  /\ accepted \subseteq Transfers \ Forged

(* Between two calls the balances are those a restart would compute from     *)
(* the chain, however often blocks were mined, taken back and appended in    *)
(* between, while AddToMempool ran beside all of it: if MineBlock did not    *)
(* run beside RollbackBlock or AppendBlockDirectly, which only their callers *)
(* can see to.  A process that starts after such an overlap is right again.  *)
(* Only a RollbackBlock whose write fails leaves the balances of the block   *)
(* it has taken off the chain.  (Nonces are left out: AddToMempool           *)
(* overwrites them.)                                                         *)
BalancesAreReplay ==
  Idle /\ ~undone /\ ~overlapped =>
    \A a \in Prefixed : state[a].balance = ReplayChain(chain)[a].balance

(* What the database may be asked to survive: deaths of the process alone,   *)
(* or writes that fail in one process, those of SaveBlock or those of        *)
(* DeleteBlock.  Together they can leave a block with a successor that does  *)
(* not follow it.                                                            *)
OneKindOfTrouble ==
  Failures > 0 => deaths = 0 /\ (failedPuts = 0 \/ failedDeletes = 0)

(* What a restart would load is a beginning of the chain in memory, or it    *)
(* plus the block just being deleted: after any number of deaths, or of      *)
(* writes of one kind that failed, once a RollbackBlock has succeeded since, *)
(* and unless a call without the mutex ever ran beside MineBlock.            *)
StoredIsPrefix ==
  Running /\ overlaps = 0 /\ OneKindOfTrouble /\ (Failures > 0 => ~undone) =>
    \/ IsPrefix(Stored, chain)
    \/ call = "delete" /\ Stored = Append(chain, hand)

(* While no write fails and no call without the mutex runs beside MineBlock, *)
(* the durable chain changes by whole valid blocks: one is added on top or   *)
(* the last is taken off, whatever is killed in between.                     *)
DurableByBlocks ==
  [][Failures' = 0 /\ overlaps' = 0 =>
       B!Create \/ B!Extend \/ Stored' = Front(Stored)]_Stored

(* Transfers that blocks of others brought. *)
Foreign == UNION {Range(transfers) : transfers \in Alternatives}

Positions(tx, transfers) == {i \in DOMAIN transfers : transfers[i] = tx}

(* Where a transfer is: the mempool is place 0, the blocks count from 1.     *)
Pending(tx) == {0} \X Positions(tx, mempool)
Executed(tx) == UNION {{k} \X Positions(tx, chain[k].transfers) : k \in DOMAIN chain}

(* A transfer AddToMempool accepted is pending or executed, and not both,    *)
(* through blocks that are taken back and mined anew and writes that fail;   *)
(* until the miner skips one, when it cuts the wrong ones off the mempool,   *)
(* and unless the mutex was missed: by a call beside MineBlock, or by        *)
(* RollbackBlock when AddToMempool came between its read of the mempool and  *)
(* its write.  A restart loses what was pending and doubles nothing, unless  *)
(* a DeleteBlock failed before it.  (A transfer that also comes in a block   *)
(* of another miner stays in the mempool, and runs again.)                   *)
PendingOrExecuted ==
  Idle /\ ~skipped /\ overlaps = 0 /\ races = 0 /\ (failedDeletes > 0 => deaths = 0) =>
    \A tx \in accepted \ Foreign :
      Cardinality(Pending(tx) \cup Executed(tx)) \in (IF deaths > 0 THEN {0, 1} ELSE {1})

(* The fee shown as the highest is: MineBlock serves the best payers first.  *)
(* RollbackBlock breaks the order until the next AddToMempool.               *)
HighestFeeShown ==
  ~pushed => \A i \in DOMAIN mempool : mempool[i].fee <= HighestFee

=============================================================================
