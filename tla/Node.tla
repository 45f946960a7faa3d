-------------------------------- MODULE Node --------------------------------
(***************************************************************************)
(* The commands of xcosh that use the ledger - the daemon (node), mine,    *)
(* send, fees and the other viewers (view) - and mempool.json, the file    *)
(* through which they hand each other pending transfers.  LevelDB's lock   *)
(* lets one of them run at a time; the file has no lock.  Inside the       *)
(* daemon the mining loop and one handler per connection read and write it *)
(* as they please.                                                         *)
(*                                                                         *)
(* The ledger's own steps are those of module Ledger.  `at` is where the   *)
(* goroutine that reads the file and mines is; MineBlock runs while it is  *)
(* at "mining".  os.WriteFile truncates the file and then writes it.       *)
(***************************************************************************)
EXTENDS Ledger, FiniteSets

CONSTANTS
  Programs,         \* the commands that are run: of those in Commands
  WalletAccounts,   \* the addresses in wallet.dat
  MineTargets,      \* what `mine -address` names
  SystemMiner,      \* the strings "SYSTEM_MINER" and "SYSTEM_VIEWER"
  SystemViewer,
  BlockCounts,      \* what `mine -blocks` asks for
  Connections,      \* peers connected to the daemon
  ReceivedBlocks,   \* index, hash and prevHash of the blocks peers send, and
                    \* whether the hash has eight bytes to show
  Torn,             \* content of a file that is no valid JSON
  MaxDeaths,        \* bound: times a command ends before it is done
  DeathDuringWrite  \* whether that can be between truncation and write

Commands == {"node", "mine", "send", "fees", "view"}

ASSUME NodeAssumption ==
  /\ Programs \subseteq Commands
  /\ WalletAccounts \subseteq Account
  /\ MineTargets \cup {SystemMiner, SystemViewer} \subseteq Account
  /\ {1, 3} \subseteq InitialDifficulties
  /\ WalletAccounts \cup MineTargets \cup {SystemMiner, SystemViewer} \subseteq MinerAddresses
  /\ BlockCounts \subseteq Nat
  /\ Torn \notin Seq(Transfers)
  /\ MaxDeaths \in Nat
  /\ DeathDuringWrite \in BOOLEAN

VARIABLES
  file,       \* mempool.json
  program,    \* the command that runs, or "none"
  at, seen,   \* its goroutine's position and its local diskMempool
  left,       \* blocks the command still has to mine
  handlers,   \* onTx of each connection: position and transfers to write
  (* history, for the properties *)
  submitted,  \* transfers that were ever created or received
  filed,      \* those whose sender was told, or whose handler returned
  rejected,   \* those MineBlock reported as not covered by a balance
  deaths      \* times a command was killed, or crashed over a block

command == <<program, at, seen, left>>
history == <<submitted, filed, rejected, deaths>>
nodeVars == <<file, command, handlers, history>>
allVars == <<vars, nodeVars>>

Idle == [at |-> "idle", buffer |-> <<>>]

Elements(s) == {s[i] : i \in 1 .. Len(s)}

----------------------------------------------------------------------------
(* mempool.json *)

(* LoadMempoolFromDisk: errors of reading and parsing leave an empty list. *)
LoadMempoolFromDisk == IF file = Torn THEN <<>> ELSE file

(* The write of os.WriteFile starts at the beginning of the file.  What     *)
(* another writer put there since the truncation is covered if it is        *)
(* shorter; a longer one leaves its tail behind.  Transfers may have any    *)
(* size, so that either of two lists may be the longer, but for an empty one. *)
Overwritten(old, new) ==
  IF old = new \/ old = <<>> THEN {new}
  ELSE IF new = <<>> /\ old # Torn THEN {Torn}
  ELSE {new, Torn}

----------------------------------------------------------------------------

NodeInit ==
  /\ Init
  /\ file = <<>>
  /\ program = "none"
  /\ at = "exit"
  /\ seen = <<>>
  /\ left = 0
  /\ handlers = [c \in Connections |-> Idle]
  /\ submitted = {}
  /\ filed = {}
  /\ rejected = {}
  /\ deaths = 0

InitialDifficulty(command_) == IF command_ = "node" THEN 3 ELSE 1

(* wf.Accounts[0].Address, or what a command falls back to. *)
FirstAccount(fallback) ==
  IF WalletAccounts = {} THEN fallback ELSE CHOOSE a \in WalletAccounts : TRUE

(* The addresses a command can pass to InitializeLedger. *)
MinerOf(command_) ==
  CASE command_ = "node" -> {FirstAccount(SystemMiner)}
    [] command_ = "mine" -> MineTargets \cup {FirstAccount(SystemMiner)}
    [] command_ = "send" -> WalletAccounts
    [] command_ = "fees" -> {FirstAccount(SystemViewer)}
    [] command_ = "view" -> {SystemViewer}

(* Bound: the blocks a command can come to mine.  The daemon mines at most   *)
(* one for the file it starts with and one for each time a peer fills it.    *)
BlocksAhead(command_, count) ==
  IF command_ = "node" THEN 1 + Cardinality(Transfers \ submitted) ELSE count

(* A command starts with InitializeLedger. *)
Launch(command_) ==
  /\ program = "none"
  /\ InitializeLedger
  /\ targetDifficulty' = InitialDifficulty(command_)
  /\ minerAddress' \in MinerOf(command_)
  /\ program' = command_
  /\ at' = IF command_ = "view" THEN "exit" ELSE "read"
  /\ left' \in (IF command_ = "mine" THEN BlockCounts ELSE {0})
  /\ command_ = "send" => \E tx \in Transfers \ submitted : tx.sender = minerAddress'
  /\ found + BlocksAhead(command_, left') <= MaxFound
  /\ UNCHANGED <<file, seen, handlers, history>>

(* The steps of the ledger in which nothing here takes part. *)
LedgerStep ==
  /\ \/ ClearAll \/ SpawnGenesis \/ RebuildTransfer \/ RebuildReward
     \/ VerifyConsensusIntegrity \/ PackTransfer \/ EndSelect \/ AssembleBlock
     \/ FindBlock \/ AppendBlock \/ PutBlock \/ PutLastIndex
  /\ UNCHANGED nodeVars

(* [MINER REJECTION] Insufficient balance *)
ReportRejection ==
  /\ SkipTransfer
  /\ rejected' = rejected \cup {mempool[job.next]}
  /\ UNCHANGED <<file, command, handlers, submitted, filed, deaths>>

----------------------------------------------------------------------------
(* The goroutine that installs the file's transfers and mines: the loop of  *)
(* RunNodeDaemon, HandleManualMine, and HandleCheckFees, which only counts. *)

(* A variant that mines one block too many. *)
NextMineOneMore == IF left < 0 THEN "truncate" ELSE "mine"

NextMine == IF left = 0 THEN "truncate" ELSE "mine"

AfterInstall ==
  CASE program = "node" -> "mine"
    [] program = "mine" -> NextMine
    [] program = "fees" -> "exit"

ReadPending ==
  /\ program \in {"node", "mine", "fees"}
  /\ at = "read"
  /\ pc = "ready"
  /\ IF Len(LoadMempoolFromDisk) > 0
     THEN seen' = LoadMempoolFromDisk /\ at' = "install"
     ELSE seen' = <<>> /\ at' = IF program = "node" THEN "read" ELSE AfterInstall
  /\ UNCHANGED <<vars, file, program, left, handlers, history>>

(* A variant that empties the file as soon as it is read. *)
InstallAndWipe ==
  /\ at = "install"
  /\ SetMempool(seen)
  /\ file' = <<>>
  /\ seen' = <<>>
  /\ at' = AfterInstall
  /\ UNCHANGED <<program, left, handlers, history>>

Install ==
  /\ at = "install"
  /\ SetMempool(seen)
  /\ seen' = <<>>
  /\ at' = AfterInstall
  /\ UNCHANGED <<file, program, left, handlers, history>>

CallMineBlock ==
  /\ at = "mine"
  /\ BeginMine \/ RejectMiner
  /\ at' = "mining"
  /\ left' = IF program = "mine" THEN left - 1 ELSE 0
  /\ UNCHANGED <<file, program, seen, handlers, history>>

(* A variant that leaves the file alone. *)
ReturnFromMineBlockUnsaved ==
  /\ at = "mining"
  /\ CreditMiner
  /\ at' = IF program = "node" THEN "read" ELSE "exit"
  /\ UNCHANGED <<file, program, seen, left, handlers, history>>

ReturnFromMineBlock ==
  /\ at = "mining"
  /\ CreditMiner
  /\ at' = IF program = "node" THEN "truncate" ELSE NextMine
  /\ UNCHANGED <<file, program, seen, left, handlers, history>>

(* HandleSendTx: the transfer is signed by the account it was started with. *)
ReadAndSign(tx) ==
  /\ program = "send"
  /\ at = "read"
  /\ pc = "ready"
  /\ tx \notin submitted
  /\ tx.sender = minerAddress
  /\ seen' = Append(LoadMempoolFromDisk, tx)
  /\ submitted' = submitted \cup {tx}
  /\ at' = "truncate"
  /\ UNCHANGED <<vars, file, program, left, handlers, filed, rejected, deaths>>

(* SaveMempoolToDisk: of an empty list after mining, of the longer one when  *)
(* sending.  Both leave `seen` to write.                                     *)
TruncateFile ==
  /\ at = "truncate"
  /\ file' = <<>>
  /\ at' = "write"
  /\ UNCHANGED <<vars, program, seen, left, handlers, history>>

WriteFile ==
  /\ at = "write"
  /\ file' \in Overwritten(file, seen)
  /\ seen' = <<>>
  /\ filed' = filed \cup Elements(seen)
  /\ at' = IF program = "node" THEN "read" ELSE "exit"
  /\ UNCHANGED <<vars, program, left, handlers, submitted, rejected, deaths>>

----------------------------------------------------------------------------
(* Connections of the daemon. *)

(* A variant of the next action that does not take the mutex. *)
OnTxUnlocked(c, tx) ==
  /\ program = "node"
  /\ handlers[c].at = "idle"
  /\ tx \notin submitted
  /\ pc \in Loaded
  /\ mempool' = Append(mempool, tx)
  /\ submitted' = submitted \cup {tx}
  /\ handlers' = [handlers EXCEPT ![c] = [at |-> "read", buffer |-> <<tx>>]]
  /\ UNCHANGED <<disk, params, pc, chain, state, settings, job, newBlock, cursor, found>>
  /\ UNCHANGED <<file, command, filed, rejected, deaths>>

(* A variant that appends to the mempool as it was before the loop installed *)
(* the file's.                                                               *)
OnTxStale(c, tx) ==
  /\ program = "node"
  /\ handlers[c].at = "idle"
  /\ tx \notin submitted
  /\ Unlocked
  /\ mempool' = <<tx>>
  /\ submitted' = submitted \cup {tx}
  /\ handlers' = [handlers EXCEPT ![c] = [at |-> "read", buffer |-> <<tx>>]]
  /\ UNCHANGED <<disk, params, pc, chain, state, settings, job, newBlock, cursor, found>>
  /\ UNCHANGED <<file, command, filed, rejected, deaths>>

(* onTx: into the ledger's mempool, under its mutex ... *)
OnTx(c, tx) ==
  /\ program = "node"
  /\ handlers[c].at = "idle"
  /\ tx \notin submitted
  /\ ReceiveTransfer(tx)
  /\ submitted' = submitted \cup {tx}
  /\ handlers' = [handlers EXCEPT ![c] = [at |-> "read", buffer |-> <<tx>>]]
  /\ UNCHANGED <<file, command, filed, rejected, deaths>>

(* ... and then, without it, into the file. *)
OnTxRead(c) ==
  /\ handlers[c].at = "read"
  /\ handlers' = [handlers EXCEPT ![c] =
                    [at |-> "truncate", buffer |-> LoadMempoolFromDisk \o @.buffer]]
  /\ UNCHANGED <<vars, file, command, history>>

OnTxTruncate(c) ==
  /\ handlers[c].at = "truncate"
  /\ file' = <<>>
  /\ handlers' = [handlers EXCEPT ![c].at = "write"]
  /\ UNCHANGED <<vars, command, history>>

OnTxWrite(c) ==
  /\ handlers[c].at = "write"
  /\ file' \in Overwritten(file, handlers[c].buffer)
  /\ filed' = filed \cup Elements(handlers[c].buffer)
  /\ handlers' = [handlers EXCEPT ![c] = Idle]
  /\ UNCHANGED <<vars, command, submitted, rejected, deaths>>

(* The process is gone, with all its goroutines. *)
Die ==
  /\ Stop
  /\ program' = "none"
  /\ at' = "exit"
  /\ seen' = <<>>
  /\ left' = 0
  /\ handlers' = [c \in Connections |-> Idle]

Writing == at = "write" \/ \E c \in Connections : handlers[c].at = "write"

(* ... before the command was done. *)
DieEarly ==
  /\ deaths < MaxDeaths
  /\ DeathDuringWrite \/ ~Writing
  /\ Die
  /\ deaths' = deaths + 1
  /\ UNCHANGED <<file, submitted, filed, rejected>>

(* onBlock and HandleReorg.  A block that forks from the tip, at its height  *)
(* or above, ends in a slice of the empty hash of an empty ancestor, which   *)
(* panics.  One on top of the tip goes to a stub that keeps nothing, but     *)
(* slices the block's own hash to show it; any other is refused.             *)
OnBlock(c, block) ==
  /\ program = "node"
  /\ handlers[c].at = "idle"
  /\ Unlocked
  /\ LET tip == chain[Len(chain)]
         sliced == IF block.prevHash = tip.hash THEN ~block.long ELSE block.index >= tip.index
         panics == VerifyBlockReorgTransition(params, block.index, block.hash) /\ sliced
     IN  \/ panics /\ DieEarly
         \/ ~panics /\ UNCHANGED allVars

----------------------------------------------------------------------------
(* The end of a command. *)

Exit ==
  /\ program \in Commands \ {"node"}
  /\ at = "exit"
  /\ pc = "ready"
  /\ Die
  /\ UNCHANGED <<file, history>>

Panic ==
  /\ pc = "panic"
  /\ Die
  /\ UNCHANGED <<file, history>>

Kill == program # "none" /\ DieEarly

Main == \/ LedgerStep \/ ReportRejection
        \/ ReadPending \/ Install \/ CallMineBlock \/ ReturnFromMineBlock
        \/ TruncateFile \/ WriteFile \/ Exit \/ Panic
        \/ \E tx \in Transfers : ReadAndSign(tx)

Handler(c) == OnTxRead(c) \/ OnTxTruncate(c) \/ OnTxWrite(c)

Receive(c) == \/ \E tx \in Transfers : OnTx(c, tx)
              \/ \E block \in ReceivedBlocks : OnBlock(c, block)

NodeNext == \/ \E command_ \in Programs : Launch(command_)
            \/ Main
            \/ \E c \in Connections : Handler(c) \/ Receive(c)
            \/ Kill

NodeSpec == NodeInit /\ [][NodeNext]_allVars

(* Goroutines that can run do: the scheduler is fair, and none of these      *)
(* steps waits for a lock another thread could take for ever.                *)
NodeLiveSpec == NodeSpec /\ WF_allVars(Main) /\ \A c \in Connections : WF_allVars(Handler(c))

----------------------------------------------------------------------------
(* Properties *)

(* Every variable holds what the code's types allow; a command never has a  *)
(* negative number of blocks left to mine.                                  *)
NodeTypeOK ==
  /\ file \in Seq(Transfers) \cup {Torn}
  /\ program \in Programs \cup {"none"}
  /\ at \in {"read", "install", "mine", "mining", "truncate", "write", "exit"}
  /\ seen \in Seq(Transfers)
  /\ left \in Nat
  /\ handlers \in [Connections -> [at : {"idle", "read", "truncate", "write"},
                                   buffer : Seq(Transfers)]]
  /\ submitted \subseteq Transfers
  /\ filed \subseteq submitted
  /\ rejected \subseteq submitted
  /\ deaths \in 0 .. MaxDeaths

(* The commands use the ledger as module Ledger says its callers do: what is *)
(* proved of the ledger holds of the node.                                   *)
ImplementsLedger == Spec

(* Where a transfer is stored in the chain. *)
Positions(tx) ==
  UNION {{<<i, k>> : k \in {k \in 1 .. Len(Stored[i].transfers) : Stored[i].transfers[k] = tx}} :
           i \in 1 .. Len(Stored)}

(* A transfer is executed once.  Only a death, that can leave the file of a  *)
(* block already saved behind, makes a later command execute it again.       *)
ExecutedOncePerDeath == \A tx \in Transfers : Cardinality(Positions(tx)) <= 1 + deaths

(* A transfer somebody was told is pending, and that no miner reported as    *)
(* not covered, is in the file, in the memory of the command that runs, or   *)
(* in the chain.                                                             *)
PendingKept ==
  \A tx \in filed \ rejected :
    \/ tx \in Elements(LoadMempoolFromDisk) \cup Elements(seen) \cup Elements(mempool)
                \cup Elements(job.packed)
    \/ \E c \in Connections : tx \in Elements(handlers[c].buffer)
    \/ newBlock # NoBlock /\ tx \in Elements(newBlock.transfers)
    \/ Positions(tx) # {}

(* The transfers in front for which one block has room.                      *)
Fitting(transfers) ==
  {transfers[i] : i \in {i \in 1 .. Len(transfers) :
     BlockAllowance + TransfersSize(SubSeq(transfers, 1, i)) <= MaxBlockSizeBytes}}

(* What the daemon's mining loop has read from the file is mined or reported *)
(* as not covered, as far as one block has room for it: though the handlers  *)
(* of all connections go on to append to the ledger's mempool, which the     *)
(* loop replaces, and to overwrite the file, in each other's way.            *)
ReadIsMined ==
  \A tx \in Transfers :
    (program = "node" /\ at = "install" /\ tx \in Fitting(seen))
      ~> (tx \in rejected \/ Positions(tx) # {} \/ program = "none")

----------------------------------------------------------------------------
(* The inductive invariants behind ExecutedOncePerDeath and PendingKept      *)
(* while no peer is connected, so that one goroutine has the file.           *)

Distinct(s) == \A i, k \in 1 .. Len(s) : s[i] = s[k] => i = k

Miners == {"node", "mine"}

(* Where the command is in its round, and the ledger with it.                *)
RoundKnown ==
  /\ program = "none" => at = "exit" /\ pc = "off"
  /\ at \in {"install", "mine", "truncate", "write"} => pc = "ready"
  /\ at = "mining" =>
       /\ pc \in {"select", "assemble", "mining", "commit", "save", "index", "credit", "panic"}
       /\ pc \in {"save", "index"} => newBlock.index > 0
  /\ at \in {"read", "exit"} =>
       /\ pc \in {"off", "wipe", "spawn", "rebuild", "verify", "save", "index", "ready", "panic"}
       /\ pc \in {"save", "index"} => newBlock.index = 0 /\ newBlock.transfers = <<>>
  /\ at \in {"mine", "mining"} => program \in Miners
  /\ at \in {"truncate", "write"} => program \in Miners \cup {"send"}

(* What the round has made of the file so far.                               *)
ListsKnown ==
  /\ Distinct(LoadMempoolFromDisk) /\ Distinct(seen)
  /\ at = "install" => seen = LoadMempoolFromDisk
  /\ at = "write" => file = <<>>
  /\ at \in {"mine", "mining", "truncate", "write"} /\ program # "send" => seen = <<>>
  /\ at = "truncate" /\ program = "send" => Elements(LoadMempoolFromDisk) \subseteq Elements(seen)
  /\ pc = "off" \/ (program = "mine" /\ at = "read") => mempool = <<>>

(* MineBlock works on the transfers of the file.                             *)
BlockOfFile ==
  /\ at \in {"mine", "mining"} =>
       Distinct(mempool) /\ Elements(mempool) \subseteq Elements(LoadMempoolFromDisk)
  /\ at = "mining" /\ pc # "panic" =>
       /\ Distinct(job.packed) /\ Elements(job.packed) \subseteq Elements(LoadMempoolFromDisk)
       /\ pc = "select" =>
            \A i \in job.next .. Len(mempool) : mempool[i] \notin Elements(job.packed)
       /\ pc \in {"mining", "commit", "save", "index"} => newBlock.transfers = job.packed

RoundInv == RoundKnown /\ ListsKnown /\ BlockOfFile

(* The file is still that of a block which is stored.                        *)
Done ==
  /\ program \in Miners
  /\ at \in {"truncate", "write"} \/ (at = "mining" /\ pc = "credit")

(* A command may still take the transfer from the file, or from its sender.  *)
Ahead(tx) ==
  \/ tx \in Elements(LoadMempoolFromDisk) /\ ~Done
  \/ tx \in Elements(seen) /\ program = "send" /\ at \in {"truncate", "write"}

(* Only what is ahead is executed again; that it can be costs a death.       *)
OnceKnown ==
  /\ program = "mine" => left <= 1
  /\ program = "mine" /\ at \in {"mining", "truncate", "write"} => left = 0
  /\ \A tx \in Transfers :
       /\ IsFiniteSet(Positions(tx))
       /\ tx \notin submitted => Positions(tx) = {}
       /\ Cardinality(Positions(tx)) <= 1 + deaths
       /\ Ahead(tx) => Cardinality(Positions(tx)) <= deaths

Settled(tx) == tx \in rejected \/ Positions(tx) # {}

(* A transfer somebody was told is pending waits in the file or for its      *)
(* sender's write, until it is settled.                                      *)
Waiting(tx) ==
  \/ Settled(tx)
  \/ tx \in Elements(LoadMempoolFromDisk)
  \/ program = "send" /\ at = "write" /\ tx \in Elements(seen)

(* What the file holds goes through MineBlock before the file is emptied.    *)
Carried(tx) ==
  /\ at = "mine" => Settled(tx) \/ tx \in Elements(mempool)
  /\ at = "mining" /\ pc = "select" =>
       \/ Settled(tx) \/ tx \in Elements(job.packed)
       \/ \E i \in job.next .. Len(mempool) : mempool[i] = tx
  /\ at = "mining" /\ pc \in {"assemble", "mining", "commit", "save", "index"} =>
       Settled(tx) \/ tx \in Elements(job.packed)
  /\ Done => Settled(tx)

PendingKnown ==
  /\ Stored # <<>> => SameGenesisPolicy(params, Stored[1])
  /\ program = "mine" /\ at \in {"read", "install", "mine"} => left > 0
  /\ \A tx \in filed : Waiting(tx)
  /\ \A tx \in Elements(LoadMempoolFromDisk) : Carried(tx)

=============================================================================
