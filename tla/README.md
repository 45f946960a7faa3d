# Xcosh (eterbit) in TLA+

Specifications of the Xcosh node - its ledger and block database, the proof-of-work
engine, the commands and the daemon with its RPC server, and the files they share
without a lock - with the TLC runs that check them on small instances and TLAPS proofs
for all instances. Paths are relative to the repository (`src/` is its root).

Reading order: `Consensus`, `Ledger`, `LedgerAccounts`, `Blockchain`, `LedgerApi`;
`ProofOfWork`, `MineEngine`; `Node`, `Rpc`; `DataFiles`, `WalletFile`, `Uptime`,
`AddrMan`, `Network`, `DataDir`; then the proofs (`...Proofs`), in the order of section 4.

## 1. The system

| Part | State | Operations | Talks to |
| --- | --- | --- | --- |
| Consensus rules (`internal/consensus/consensus.go`, `core/validator.go`) | constants of the build | reward, cap, difficulty, proof-of-work target, checkpoints, block validation | called by ledger, miner, daemon |
| Ledger (`node/ledger.go`) | chain, account balances and nonces, mempool, miner address, target difficulty | `InitializeLedger`, `LoadFromDisk`, `RebuildState`, `SpawnGenesis`, `VerifyConsensusIntegrity`, `MineBlock`; uncalled: `AddToMempool`, `StartLiveWorker`, `RollbackBlock`, `DeleteBlock`, `AppendBlockDirectly` | database, engine; its mutex is shared with the daemon's handlers |
| Block database (`storage/db.go`) | LevelDB keys `block_<i>`, `last_index` | `SaveBlock` (two Puts), `ClearAll` (one batch), reads | LevelDB locks its directory: one process at a time |
| Blocks, transfers, proof of work (`core/block.go`, `core/tx.go`) | none; workers share a nonce counter | `Mine`, `AssembleBlockData`, `NewTransfer` | ledger |
| Commands (`xcosh.go`, `internal/cli/handlers.go`) | `mempool.json` (no lock) | `send` appends, `mine` installs and empties, `fees` installs, viewers only open the ledger | ledger; the next command through the file |
| Daemon (`internal/daemon/server.go`) | goroutines: mining loop, one handler per connection, dump of peers | loop: read file, install, `MineBlock`, empty file; `onTx`: memory, then read-append-write the file; `onBlock`: check, reorganise | ledger under its mutex; the file without any |
| Reorganisation (`internal/reorg.go`) | none | `HandleReorg`: refuse, or one of two stubs | `onBlock` |
| Transport (`internal/p2p/*`) | peer table, address manager and its file | listen, decode envelopes, connect to seeds; uncalled: `Broadcast` | daemon callbacks |
| Wallet (`storage/wallet/wallet.go`) | `wallet.dat` | load, extend, save | `create`, `send`, `node`, `mine`, `fees` |
| Uptime record (`internal/uptime.go`) | `uptime.json` | `RecordStartTime`, `GetUptime`: create it if it is missing | daemon, `uptime` |
| JSON-RPC server (`internal/rpc/server.go`) | none | reads the chain by reflection, without the mutex; `stop` | ledger; ends the process |
| Settings, traffic, size reports, explorer | small files or none | display | - |

What is hard here: the database is written key by key and a process can be killed
between any two writes; `MineBlock` releases its mutex for the proof of work and uses
what it read before; transfers are executed once while mining and again, by other
code, after a restart; the mempool file is read, extended and emptied by goroutines
and commands that do not exclude each other, and so are the wallet, the record of the
first launch and the addresses of peers; workers of the proof of work outlive the call
that started them, while its caller writes to the block they hash; RPC handlers read the
chain while it grows; and a new build may find a chain of another monetary policy.

What makes each part correct:

- *database and ledger*: whatever is killed when, a restart loads a chain in which
  every block follows its predecessor and the issued coins stay under the cap;
- *accounts*: the balances of a running ledger are those a restart computes, and no
  coin appears or disappears;
- *commands and daemon*: a transfer somebody was told is pending ends in the chain, or
  is reported, and is executed once (with peers this fails, and less holds);
- *proof of work*: no nonce is tried twice or passed over, `Mine` returns a winning hash
  of the block it was given if there is one in reach, and every worker ends;
- *exported operations without a caller*: a rollback and an append leave balances that a
  restart would compute, and a transfer is pending or executed, not both - as far as their
  lack of a mutex allows;
- *RPC*: what an answer says stays true of the chain, and `stop` stops;
- *wallet, uptime record, address manager*: what a user was told is kept stays in the
  file, unless somebody writes back what he read before it was there, or dies half-way.

## 2. Modules

| Module | Models |
| --- | --- |
| `Consensus` | the rules, as operators over blocks; all shared constants and their assumptions |
| `Ledger` | `LedgerCore` and `Database`, one action per step between two writes or lock operations; safety and liveness properties; the inductive invariant |
| `LedgerAccounts` | the replay of a chain as one value, the properties that relate balances, chain and disk, and their inductive invariant (no actions of its own) |
| `Blockchain` | the abstract specification: a log that is created, extended by one valid block, or discarded after a change of policy |
| `LedgerApi` | the exported operations no command calls: `AddToMempool`, the live worker, `RollbackBlock`, `DeleteBlock`, `AppendBlockDirectly`; and writes of the database that fail. Extends `LedgerAccounts`, whose ledger it runs |
| `ProofOfWork` | the abstract engine: one step returns one winning hash |
| `MineEngine` | `Mine`, worker by worker: ranges, counter, channels, the caller; implements `ProofOfWork` |
| `Node` | the commands and the daemon's goroutines over `mempool.json`; extends `Ledger`, whose actions it conjoins with its own; the inductive invariants of a node without peers |
| `Rpc` | the RPC server's handlers and `stop`, beside the goroutines of `Node` |
| `DataFiles` | the other JSON files: reading, truncating, writing, dying in between |
| `WalletFile`, `Uptime`, `AddrMan` | who reads and rewrites `wallet.dat`, `uptime.json`, `peers_addrman.json` |
| `Network` | the goroutines that dial, accept and dump; peer table and `peers.json` |
| `DataDir` | composes the five before it: the daemon's launch and server beside `create`, `uptime` and `addnode` |
| `MCLedger`, `MCNode`, `MCRpc`, `MCLedgerApi`, `MCMineEngine`, `MCDataDir` | values for TLC |
| `ConsensusProofs`, `BlockchainProofs`, `LedgerProofs`, `AccountProofs`, `LedgerApiProofs`, `NodeProofs` (also of `Rpc`), `MineEngineProofs`, `DataDirProofs` | theorems |

### How the state corresponds

*Data.* A hash is `[nonce, work]`: an identity, and the number of bits by which
`PoWLimit` may be shifted before the hash exceeds it (all that `ValidatePoW` asks). A
transfer has an identity, sender, recipient, value, fee and the length of its JSON; its sender, a
hash of a public key with the prefix in front, is never `SYSTEM_GENESIS`. A
block's length is computed from its parts. Amounts are words: `AddWord` wraps at `Word`
(2^64). `Bits` and `Message` take one value per build and stand and fall with the
genesis fields of the parameters. An account without an entry in `State` is one with zero
balance and nonce (the code creates entries exactly so). `difficulty` is not cut to 32
bits, and `params` (the constants compiled into a build) is a variable, so that a build
can be replaced while no process runs (`Upgrade`).

*The ledger* is one process at a time. `pc` is where it is:

| `pc` | code |
| --- | --- |
| `off` | no process |
| `wipe`, `spawn` | `LoadFromDisk` found another policy; `SpawnGenesis` |
| `rebuild`, `verify` | `RebuildState` transfer by transfer; `VerifyConsensusIntegrity` |
| `ready` | no call in progress |
| `select` | the locked loop of `MineBlock` over the mempool |
| `assemble`, `mining` | unlocked: supply, reward, time, difficulty; proof of work |
| `commit`, `save`, `index`, `credit` | append, the two Puts, the miner's credit (`save` and `index` also serve the genesis block) |
| `panic` | a `panic` of the code; the process is gone with the next `Stop` |

`job` holds the locals of `MineBlock`, `newBlock` the block being mined or saved, `cursor`
the position of the replay. `LoadFromDisk` interleaves reading and replay; the model reads
first and replays after (nothing else can see the difference: the process is alone with
the database), and tests the policy between them, where the code replays a chain of another
policy and then throws the result away. `Mine` is one step that returns a new hash which
meets the engine's target.

*The node.* `program` is the command that holds the LevelDB lock, `at` where its goroutine
is, `seen` its `diskMempool`, `left` the blocks `mine` still has to mine, `handlers` where
each connection's `onTx` is. `os.WriteFile` is two steps, truncation and write; when two
writers overlap, `Overwritten` says what the file can hold: transfers of peers have any size, so the
longer list need not be the longer file. A file that is cut or does not parse is read as empty.
`OnBlock` can end the process in two places, over the empty hash of a missing ancestor and over a
hash of less than eight bytes in a block on top of the tip. `submitted`, `filed`, `rejected` and `deaths` are history.

*The exported operations.* `LedgerApi` has three kinds of goroutine over one ledger. `MineBlock`
goes through the locations of module `Ledger` and holds the mutex in those where the code does;
`AddToMempool` needs it for its one step; `RollbackBlock` and `AppendBlockDirectly` (`call`, one of
them at a time) never take it (`node/ledger.go:454-520`), and so each of their steps can come
between any two of the others': the tip is read, the mempool read and written for each transfer,
the chain cut, the block and the pointer deleted, the accounts cleared, each block replayed; a
block is checked against the tip, appended, saved by two Puts, replayed. Where a write of the
mempool meets one of another goroutine, either is lost. The live worker looks at the
mempool without the mutex, so `MineBlock` is called on any mempool. `overlaps` counts the times
that `MineBlock` and an unlocked call were under way together, `races` those when
`AddToMempool` came between a read and a write of `RollbackBlock`; `overlapped` is whether
it happened in this process. Two of the unlocked calls beside each other, two calls of `MineBlock`, and
words torn by a data race (the Go runtime may also end the process, which is `Die`) are not modelled.
`AddToMempool` sorts by fee with an unstable sort, so its result is any sorted order;
verification of a signature is membership in `Forged`. A Put or a Delete that fails returns an
error: `MineBlock` and `AppendBlockDirectly` ignore it, `RollbackBlock` returns before it
has replayed the chain.

*The engine.* A hash is the pair of what was hashed, block and nonce, and a search is the set of
hashes that meet the target. A worker is at `check`, `claim`, `hash`, `send` or `done`; hashing
reads the shared block, so a straggler hashes what the caller has written into it meanwhile.
The counter and both channels are those of one call; `localNonce` grows to `LastNonce`.

*RPC.* A handler counts the blocks in one step and reads the last of them in the next, with any
step of `MineBlock` in between. Of the answers the model keeps those two numbers.

*Files of `~/.xcosh`.* `content` maps a file to its content or to `Missing`, `Empty` or `Torn`. A
process reads (its variables are in `creating`, `stamping`, `adding`), truncates, writes; where the
code drops the error of `os.WriteFile`, the write can fail and leave the truncated file (`WriteFails`).
Two variables are history: `stale` holds who read a file that was written since, `spoiled` the
files that such a process wrote or that a dying process or a failed write left truncated. The properties of the files
are about what is not spoiled: that is how far the code keeps its promises, and each run
reaches both. An address or an account is its identity; time is the number of launches.

## 3. Runs

| Run | States | Checks |
| --- | --- | --- |
| `accounts` (`MCLedger.cfg`) | 108 thousand | `TypeOK`, `StateIsReplay`, `CoinsConserved`, `ReplayNeverFloors`, `LoadEnds`, `MiningAddsBlock` |
| `issuance` (`MCIssuance.cfg`) | 223 thousand | `MemoryMatchesDisk`, `NothingTruncated`, `StoredChainLinked`, `StoredSupplyCapped`, `ImplementsBlockchain`, `OwnBlocksValidate` |
| `commands` (`MCCommands.cfg`) | 148 thousand | `ExecutedOncePerDeath`, `PendingKept` |
| `daemon` (`MCDaemon.cfg`) | 209 thousand | `RpcTypeOK`, `AnswersHold`, `ReadIsMined`, `ImplementsLedger`, `StopEnds` |
| `ledger_api` (`MCLedgerApi.cfg`) | 2.68 million | `ApiTypeOK`, `BalancesAreReplay`, `StoredIsPrefix`, `PendingOrExecuted`, `HighestFeeShown`, `DurableByBlocks` |
| `mine_engine` (`MCMineEngine.cfg`) | 46 thousand | `EngineTypeOK`, `RangesDisjoint`, `NothingSkipped`, `HashCommits`, `ImplementsProofOfWork`, `MineReturns`, `WorkersEnd` |
| `data_dir` (`MCDataDir.cfg`) | 647 thousand | `DirTypeOK`, `AccountsKept`, `MinerIsFirst`, `UptimeRecorded`, `AddedKept`, `MapIsFiled`, `ConnectionShown` |

`accounts` has three mempools: one that starts with a transfer its sender cannot pay yet, one
that holds a transfer twice and overflows the block's estimate, and one with a transfer whose
value and fee wrap, so that it costs one coin and pays out a word more; `CoinsConserved` is
exact until such a transfer is executed, and exact but for whole words after it. Peers may
append while `MineBlock` is unlocked. Three blocks reach a
halving (interval 2), the cap (11: rewards 4, 4, 2 with the genesis block's, and a last 2
cut to 1) and a second selection from what the first left behind.

`issuance` leaves transfers out and varies everything else: two builds that differ in
reward, cap and halving interval but not in the genesis time; a genesis hash that is and
one that is not the expected one; three clock readings, which give blocks in the past of
their parent, within the target spacing and beyond twice of it; miner addresses with and
without the prefix; four blocks, enough to reach either cap and to switch builds in between.

`commands` runs commands one after the other, up to two deaths, two transfers that depend
on each other (one pays the other's sender). Deaths between truncation and write of the file
are left out there: they empty the file, and `PendingKept` would say no more than that.
The `daemon` run includes them. It has two connections, one RPC client, two transfers, blocks with room
for one of them, received blocks that fork, extend the tip, or extend it with a short hash, and one
death or `stop`. With two connections, a handler with an older copy of the file overwrites a
transfer that another has filed, before the loop wakes up: nothing is true of what is *filed*.
`ReadIsMined` therefore begins where the loop has read the file, and says that what the
handlers do to the file and to the mempool from there on does no harm.
`PendingKept` is not checked with connections, because it does not hold (see `lost_transfer`); nor
does it hold when a block is too small for the mempool.

`ledger_api` has a genesis block and two that are found after it, a mempool of two, five transfers
(two payable once the miner has coins, one forged, one to another network, one from
another miner's block), and up to `MaxTroubles` = 2 troubles of any kind: deaths, writes that
fail, overlaps, races. Two found blocks are enough to mine one, take it back and mine its transfers anew, or
to mine one while another is appended. Transfers are submitted once, since nothing looks for one
that was. Each property says up to which trouble it holds, and the run reaches states beyond:

| Premise | Without it |
| --- | --- |
| `~overlapped` of `BalancesAreReplay` | `MineBlock` debits accounts that `RollbackBlock` throws away, or credits a block that is gone |
| `overlaps = 0` of `StoredIsPrefix`, `DurableByBlocks` | a block is taken back during a proof of work: the new one is saved behind a gap, or over another; a block is appended during it: two blocks have one index |
| `overlaps = 0`, `races = 0` of `PendingOrExecuted` | the mempool `RollbackBlock` writes lacks what `AddToMempool` has accepted, or has again what `MineBlock` has cut |
| `~undone`, one kind of trouble | a delete that fails leaves the removed block's balances; one and a failing Put leave a block with a successor of another branch; one and a death bring back a block whose transfers are pending again |

`mine_engine` has three workers, ranges of two nonces and searches with no winner, one below
the first range (`0` to `Chunk - 1`, which the counter never hands out), one in the first and
last range, and as many winners as workers, so that results meet a full channel. Blocks
have a reward, none, or are genesis blocks.

`data_dir` has two launches, two of four commands (two `create`, `uptime`, `addnode`), a peer
that is dialled and connects itself, and one added by hand. Two commands and the daemon give
every kind of overlap of two writers and a reader; three writers of a file were tried in
larger runs and are covered by the proofs.

Runs that find what a comment or document of the repository says otherwise:

| Run | Shows |
| --- | --- |
| `full_block` | the miner's size estimate leaves out the separators between transfers: a full block fails the node's own validation and the process panics |
| `own_genesis` | a genesis block mined with another nonce or difficulty is stored, used, and refused at the next start |
| `two_blocks` | `mine -blocks 2` executes a transfer twice when an unpayable one stands before it |
| `lost_transfer` | the daemon's loop empties a file that has grown since it read it |
| `mined_twice` | a handler writes transfers back that were mined between its read and its write |

**Bounds.** `MaxFound` (blocks ever found), `MaxMempool` (transfers in memory),
`MaxDeaths`, `BlockCounts`; `BlocksAhead` keeps a command from starting that could run
into `MaxFound`, so the bound never makes a running command hang. In `Node` each transfer is
submitted once, so the daemon mines a bounded number of blocks. `MaxTroubles` counts
deaths, failing writes, overlaps and races together, `MaxBoots` launches, `MaxCommands`
commands, and `LastNonce` ends the search.
`CHECK_DEADLOCK` is off in `ledger_api` and `data_dir`, where the system stops when a bound is
used up (no caller calls, all commands have ended and the daemon is down), in `two_blocks`, `lost_transfer`
and `mined_twice`, where no command is started once `MaxFound` leaves it no block, and on elsewhere:
the ledger can always be stopped, the node always launches, polls or dies, and the engine's
last state is a step that changes nothing.

**Fairness.** `LiveSpec` asks weak fairness of the steps of a call in progress
(`Progress`): none of them waits for another thread - the mutex is held across the locked
steps, and the unlocked ones need no lock - and the search for a nonce is taken to end.
Calling an operation, receiving a transfer, stopping and upgrading are not fair.
`NodeLiveSpec` asks it of the mining goroutine and of each handler, separately: the Go
scheduler runs every goroutine that can run. Launching, receiving and dying are not fair.
`RpcLiveSpec` adds the handlers and the goroutine that `stop` starts. `EngineLiveSpec` asks weak
fairness of each worker and of the caller, nothing of the order of results.
`DirLiveSpec` asks strong fairness of goroutines that wait for the address manager's mutex, which
others take again and again: Go's mutex hands itself over to one that has waited for a millisecond.

**Mutants.** Operators whose comment calls them variants (`PutLastIndexOfParent`,
`CappedRewardUntruncated`, `OnTxStale` ...) are slips this code could have had. Each property
of a passing run fails when one of them takes the place of the definition after it. They
are in no specification.

## 4. Proofs

For all values of the constants that meet the assumptions of the modules - any policies,
clocks, addresses, mempools, sizes, number of connections, clients and deaths; any number of
workers, size of ranges and set of winning hashes; any number of commands, launches and peers:

| Theorem | States |
| --- | --- |
| `LedgerInvariant` | `IInv` always |
| `LedgerTypes`, `LedgerMatchesDisk`, `LedgerNotTruncated` | `TypeOK`, `MemoryMatchesDisk`, `NothingTruncated` always |
| `LedgerRefinesBlockchain` | the ledger implements `Blockchain!Spec` under `log <- Stored`, `policy <- params` |
| `BlockchainLinked`, `BlockchainCapped` | of the abstract log: its links and its cap |
| `LedgerChainLinked`, `LedgerSupplyCapped` | the same of the stored chain, through the refinement |
| `LedgerOwnBlocksValidate`, `LedgerRefusesForSize` | `OwnBlocksValidate`, if the reserved bytes suffice; and if they need not, that a block is refused for nothing else |
| `LedgerAccountsInvariant` | `AccountsInv` always |
| `LedgerStateIsReplay`, `LedgerNeverFloors`, `LedgerCoinsConserved` | `StateIsReplay`, `ReplayNeverFloors`, `CoinsConserved` always |
| `ApiTypes`, `ApiHighestFee` | `ApiTypeOK`, `HighestFeeShown` always, whatever overlaps |
| `ApiBalances` | `BalancesAreReplay` always: its premise is that nothing met `MineBlock` in this process |
| `ApiStoredIsPrefix`, `ApiDurableByBlocks` | `StoredIsPrefix` always, and the action property `DurableByBlocks`, both up to the first overlap |
| `ApiPendingOrExecuted` | `PendingOrExecuted` always, up to the first overlap or race |
| `NodeImplementsLedger`, `NodeKeepsChain` | every step of the node is a step of the ledger; hence the two above for the node |
| `NodeTypes` | `NodeTypeOK` always |
| `NodeExecutesOnce` | `ExecutedOncePerDeath` always, without peers |
| `NodeKeepsPending` | `PendingKept` always, without peers |
| `RpcImplementsNode`, `RpcImplementsLedger` | the RPC server adds nothing to what the node does |
| `RpcTypes`, `RpcAnswersHold` | `RpcTypeOK`, `AnswersHold` always |
| `EngineInvariant`, `EngineTypes` | `EngineIInv`, `EngineTypeOK` always |
| `EngineRangesDisjoint`, `EngineNothingSkipped`, `EngineHashCommits` | `RangesDisjoint`, `NothingSkipped`, `HashCommits` always |
| `EngineImplementsProofOfWork` | the workers implement the step `FindBlock` is taken for |
| `DirTypes` | `DirTypeOK` always |
| `WalletAccountsKept`, `WalletMinerIsFirst` | `AccountsKept`, `MinerIsFirst` always |
| `UptimeIsRecorded` | `UptimeRecorded` always |
| `AddrAddedKept`, `AddrMapIsFiled` | `AddedKept`, `MapIsFiled` always |

*Assumptions on constants*: one reward fits under the cap of its own build, the prefix
excludes `SYSTEM_GENESIS`, sizes and spacings are naturals, and the hashes a search for
a genesis nonce returns differ from those of later blocks. The theorems of the node and of RPC
also assume that `MempoolFiles`, which bounds TLC's ledger runs, holds every list of transfers.
`LedgerCoinsConserved` assumes finitely many accounts (to sum over) and that nobody mines for
`SYSTEM_GENESIS`: such a miner (the prefix is checked later) is credited by `MineBlock` and skipped by the
replay. Of the transfers it assumes nothing: one whose value and fee wrap passes the check of the
balance and pays out coins that nobody had, and the property says that these are whole words,
and that there are none as long as no executed transfer wrapped. The other theorems of the balances need
neither assumption.
`LedgerOwnBlocksValidate` assumes a bound on the length of every mempool for which the reserved bytes
hold a header and the separators. The program's 512 do for a hundred transfers and more, the header being
of about 350 bytes, and it has no such bound: `full_block` shows what happens beyond it.
`LedgerRefusesForSize` assumes only that a block without transfers is not too large.
`NodeExecutesOnce` assumes that no peer is connected, and that `mine` is asked for at most one block;
`NodeKeepsPending` that no peer is connected, that `mine` is asked for at least one, that no process
dies between truncation and write of the file, and that any list of different transfers fits a
block by the miner's estimate. TLC finds the property violated without each of these: with peers
`mined_twice` and `lost_transfer`, with more blocks `two_blocks`, and the others in the `commands`
configuration with `BlockCounts = {0, 1}`, `DeathDuringWrite = TRUE` or `MaxBlockSizeBytes = 9`. Deaths
at every other step, and for `NodeExecutesOnce` at all, are covered, as are blocks that are too
small for it.
In the engine every worker's offset is a multiple of the size of a range (in the code
1000000000 and 50000), without which ranges would overlap. In the data directory, contents that
are no JSON differ from every content that is, and processes of different kinds from each other.

*The argument.* `MemoryMatchesDisk` is not inductive: that the second Put extends the stored
chain by a valid block needs what the steps before it established. `IInv` adds, per
location: stored blocks sit at their own index without gaps (`Contiguous`); which policy
the loaded chain has (`PolicyKnown`: only `wipe` sees another one); that `job.parent` is
still the tip, although the mutex was free in between (`ParentKnown`: nothing else
appends blocks); and what is known of `newBlock` before and after validation
(`NewBlockKnown`). Each action has a lemma. The refinement then maps `PutLastIndex` to
`Create` or `Extend`, `ClearAll` to `Discard`, `Upgrade` to `Upgrade`, and the rest to
stuttering - the first Put included: a block beyond `last_index` is not yet loaded. The cap
is proved of the abstract log alone, from `CappedReward` and the sum over the chain.
Sums and shifts are recursive functions; `ConsensusProofs` proves that they are defined and
add up by an induction on sets of naturals (`SetInduction`, from well-foundedness), since an
induction theorem over predicates cannot be instantiated here.

*The balances.* `AccountsInv` says how far a replay in progress has got (`ReplayKnown`: the state is
that of the whole blocks and transfers before the cursor), and that from `ready` to `credit` the
accounts are those of the credited blocks followed by `job.packed`, which replays without a
shortfall (`BalancesKnown`). So a block is stored together with the fact that it replays exactly
from the blocks before it, and `ReplayNeverFloors`, which is part of the invariant, is what the
next load relies on. `BlockInProgressKnown` and `MinersKnown` connect job, new block and stored
miners. Conservation is then a fact about chains: each transfer that is affordable moves its fee
out of the accounts and nothing else, each credit puts fees and reward in, by lemmas on sums over
finite sets; that no balance wraps while no cost does follows from the cap (`StoredSupplyCapped`). Where one
has, the same lemmas hold of the remainders by `Word`.

*The exported operations.* What holds whatever overlaps is `ApiBase`: types, what memory holds at each
location, what `MineBlock` knows of its parent and block and a caller of its locals, although the
chain may be another by now. `HighestFeeShown` needs the whole order besides while a selection cuts and
skips (`OrderKnown`). `BooksKnown` says, unconditionally too, whose transfers and miner the block in
progress has, and how far a load has got. All else is an implication. `Alone`: while nothing
overlapped, an unlocked call is under way only beside `ready`, blocks sit at their index, and each call works on
the chain's end; from it follow the balances (`ReplayFollows`, for a replay by `RollbackBlock`).
`DiskKnown`: while nothing ever overlapped, what each key of the database may hold - below the length of what was
written, a block of the chain; above it, only what a failed delete left, until a `RollbackBlock` succeeds
and then out of reach of `last_index` - and that the block in hand is valid. `FirstLoad` sets a process
that no death preceded apart from one that loads what a death left. `PendingOrExecuted` counts places, and
`TransfersKnown` says which there are between calls and within one - mempool, what a
`RollbackBlock` has still to put back, what `MineBlock` has packed, chain, and the database that a death
would bring back - and that a transfer is never at two. None of these is implied by the properties, and
each was an invariant of a TLC run before it was proved.

*The miner's own block.* `OwnBlockKnown` carries each condition of the validator from where `MineBlock`
establishes it to where it validates: the miner's prefix, the index and time after the parent's, the
reward from the supply that was read, and that the estimate is the allowance and the sizes packed.
The search leaves only the serialized size open, which exceeds the estimate by header and
separators less the allowance.

*The commands.* One goroutine has the file while no peer is connected, yet it spreads a round over
many steps and the ledger's over more. `RoundInv` says which ledger locations go with
each location of a command (`RoundKnown`), that no list has a transfer twice and that the file is empty when it is
about to be written (`ListsKnown`), and that `MineBlock` works on transfers of the file (`BlockOfFile`).
`OnceKnown` adds that what a command may still take from the file has been executed
at most as often as processes have died: a block that is stored makes that false for its transfers, and `Done`
marks the steps until the file is empty; only a death there leaves them behind, and is counted.
`PendingKnown` says that a promised transfer is settled, filed, or about to be written by its
sender, and follows those of the file from the mempool through the selection into the block (`Carried`).
The selection stops early only for size, which `OwnBlockKnown` excludes when all fit. Both theorems use the ledger's
invariants through `NodeImplementsLedger`. TLC checked the three invariants on the `commands` configuration,
with and without deaths during writes, small blocks and other counts, before they were proved.

*The engine.* `EngineIInv` says what the caller's position implies for the block, the answer and
every result under way (`ResultsKnown`: up to `close` each is a winning hash of the block as
given; after the caller has put a zero reward back, a straggler's may be of another, which nobody
reads), and which range each nonce lies in (`RangesKnown`). That two workers' ranges differ
follows from the counter alone, through a few lemmas on quotients; so does that none of their
nonces is passed over (`Ahead` shrinks by exactly the nonce that is hashed).

*RPC.* `AnswersHold` needs that the chain in memory only grows while handlers run, and that
it is the stored one, or one block ahead of it between append and last write (from `IInv`).

*The data directory.* A step concerns one file, and is as nothing for the others (`Untouched`), so
each file has an invariant of its own. They share a shape: what a process holds in memory,
if nobody has written the file since it read it, contains everything users were told but for what
others are about to write (`HolderKnows`, `MapKnows`); a truncation keeps that, since the
truncating process is then one that is about to write; and a write makes all other holders stale.
None of the properties is inductive without the knowledge of the holders.

*Model-checked only*: liveness (`LoadEnds`, `MiningAddsBlock`, `StopEnds`, `ReadIsMined`,
`MineReturns`, `WorkersEnd`, `ConnectionShown`), which the prover does not treat under fairness.
Every invariant and action property of a passing run is stated by a theorem, under the
hypotheses above.

## 5. What the models show of the code

Beside the five violations above, limits that properties state in their comments or bounds:

- `RollbackBlock` puts a block's transfers in front in reverse and unsorted, so the mempool's
  first fee is not the highest; `fees` shows the first of a file nobody sorts at all.
- After the miner skips a transfer, it cuts as many from the front as it packed: the wrong
  ones stay and go (`PendingOrExecuted` holds up to the first skip).
- `AppendBlockDirectly` neither checks that transfers can be paid nor takes them out of the
  mempool, so they run again.
- `RollbackBlock` and `AppendBlockDirectly` take no mutex, and `MineBlock` gives it up for the
  proof of work. Run beside it, or `RollbackBlock` beside `AddToMempool`, they break what each of them
  keeps alone: the table in section 3. `node/ledger.go:453` promises that a rollback "reverts
  account state changes"; whoever calls it has to keep `MineBlock` from running. A restart replays what is
  stored and so repairs the balances; it does not repair the chain on disk. A `MineBlock` that finds its
  mempool shorter than what it has packed panics at the cut (`CutPanics`).
- Two connections' `onTx` that overlap lose one of their transfers in the file; and a
  transfer is not in the ledger's mempool either once the loop has installed the file.
- Value and fee of a transfer may wrap: nothing on the paths that run looks at it, and the
  recipient then has coins beyond `MaxSupply` that no block issued.
- A write that fails is not noticed; with a death or a failing delete besides, `LoadFromDisk` accepts
  a stored block whose successor does not follow it. A delete that fails and a death bring back a
  block whose transfers were put back: they can run twice. A `RollbackBlock` whose delete fails leaves the balances of
  the removed block.
- The live worker's comment (`node/ledger.go:302`) speaks of empty blocks; it calls
  `MineBlock` only when it has seen a transfer.
- Nonces 0 to 49999 are never tried: the counter adds before it answers.
- A truncated `uptime.json` counts as recorded for ever.
- Nothing ever stamps `uptime.json` anew: a restart keeps the time of the first launch, or of the
  first `uptime` before any. The comment at `internal/uptime.go:57` says "do not overwrite unless
  newly restarted" and `doc/cli-commands.md:22` "the active operational duration of the node
  instance": of a restarted node the code shows the time since the first. The model follows the code
  and no property says which time it should be.
- `peers.json` outlives the daemon and its peers; the address manager's list is never dialled.
- `getbestblockhash` always answers with an empty string; `supply` counts 50 coins a block.

## 6. Not modelled

- `Broadcast` and `CreateOrLoadWallet`: nothing calls them.
- A file system that reorders writes across a power loss: kills lose no completed write.
- `addrman_peers.json` (written by the dump, read by nobody); balances in RPC answers (a race
  on the map can end the process: included as a kill); the credentials' file; HTTP.
- Settings, traffic and size reports, the explorer and other viewers that read LevelDB without the
  ledger: they print what they read.
- In the data directory: a write of `wallet.dat` that fails (`create` reports it; the file is as
  after a kill there), a failing write of `peers.json` (the dump repeats it), an open that fails before the
  truncation (the file stays as it was). A second `node` process gets as far as the database's
  lock: before it stamps `uptime.json` as `uptime` does, and reads the wallet, so it is one of `Asks`.
- Cryptography: a hash is what was hashed, a signature verifies or does not; on the paths
  that run nothing verifies one.

## 7. State of the plan

Modelled, checked and, as listed in section 4, proved: the ledger and its refinement; commands and
daemon over the mempool file; the exported operations; the engine and its refinement; wallet,
uptime record, address manager, peer table; RPC.

Left: two unlocked calls of the ledger beside each other, and two of `MineBlock`; and, for a daemon
with peers, what holds of executions and pending transfers in place of
`ExecutedOncePerDeath` and `PendingKept`, which `mined_twice` and `lost_transfer` refute - say, with one
count more for each handler that overlapped the mining loop.
