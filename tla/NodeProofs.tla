----------------------------- MODULE NodeProofs -----------------------------
(***************************************************************************)
(* Every step of the commands and of the daemon's goroutines is a step of  *)
(* the ledger or leaves the ledger alone, so what is proved of the ledger  *)
(* holds in the node, and in the daemon with its RPC server.  While no     *)
(* peer is connected, a command's round of reading mempool.json, mining    *)
(* and emptying it executes no transfer twice and loses none.              *)
(***************************************************************************)
EXTENDS Rpc, LedgerProofs, FiniteSetTheorems

(* The ledger's callers are only bounded by the files they can read.        *)
AnyMempool == Seq(Transfers) \subseteq MempoolFiles

(* What the goroutines hold and the file contains are lists of transfers.   *)
Lists ==
  /\ file \in Seq(Transfers) \cup {Torn}
  /\ seen \in Seq(Transfers)
  /\ handlers \in [Connections -> [at : {"idle", "read", "truncate", "write"},
                                   buffer : Seq(Transfers)]]

(* LoadMempoolFromDisk returns a list whatever is in the file.              *)
LEMMA LoadedList ==
  ASSUME Lists
  PROVE  LoadMempoolFromDisk \in Seq(Transfers)
BY NodeAssumption DEF Lists, LoadMempoolFromDisk

(* Writers leave the file a list, or torn.                                  *)
LEMMA OverwrittenList ==
  ASSUME NEW old \in Seq(Transfers) \cup {Torn}, NEW new \in Seq(Transfers),
         NEW result \in Overwritten(old, new)
  PROVE  result \in Seq(Transfers) \cup {Torn}
BY DEF Overwritten

(* The empty mempool is a list.                                             *)
LEMMA EmptyList == <<>> \in Seq(Transfers)
OBVIOUS

(* A process that ends leaves nothing behind but the file.                  *)
LEMMA DieLists ==
  ASSUME Lists, Die, file' = file
  PROVE  Lists'
BY EmptyList DEF Lists, Die, Idle

(* Every step keeps the lists lists.                                        *)
LEMMA ListsStep ==
  ASSUME Lists, [NodeNext]_allVars
  PROVE  Lists'
<1>1. CASE UNCHANGED nodeVars
  BY <1>1 DEF Lists, nodeVars, command
<1>2. CASE \E command_ \in Programs : Launch(command_)
  BY <1>2 DEF Lists, Launch
<1>3. CASE LedgerStep \/ ReportRejection \/ CallMineBlock \/ ReturnFromMineBlock
  BY <1>3 DEF Lists, LedgerStep, ReportRejection, CallMineBlock, ReturnFromMineBlock,
              nodeVars, command
<1>4. CASE ReadPending
  BY <1>4, LoadedList, EmptyList DEF Lists, ReadPending
<1>5. CASE Install
  BY <1>5, EmptyList DEF Lists, Install
<1>6. CASE \E tx \in Transfers : ReadAndSign(tx)
  BY <1>6, LoadedList DEF Lists, ReadAndSign
<1>7. CASE TruncateFile
  BY <1>7, EmptyList DEF Lists, TruncateFile
<1>8. CASE WriteFile
  <2>1. file' \in Seq(Transfers) \cup {Torn}
    BY <1>8, OverwrittenList DEF Lists, WriteFile
  <2>2. QED
    BY <1>8, <2>1, EmptyList DEF Lists, WriteFile
<1>9. CASE Exit \/ Panic \/ Kill
  BY <1>9, DieLists DEF Exit, Panic, Kill, DieEarly
<1>10. ASSUME NEW c \in Connections, NEW tx \in Transfers, OnTx(c, tx)
       PROVE  Lists'
  BY <1>10 DEF Lists, OnTx, command
<1>11. ASSUME NEW c \in Connections, NEW block \in ReceivedBlocks, OnBlock(c, block)
       PROVE  Lists'
  <2>1. DieEarly \/ UNCHANGED allVars
    BY <1>11 DEF OnBlock
  <2>2. QED
    BY <1>1, <2>1, DieLists DEF DieEarly, allVars
<1>12. ASSUME NEW c \in Connections, OnTxRead(c)
       PROVE  Lists'
  <2>1. LoadMempoolFromDisk \o handlers[c].buffer \in Seq(Transfers)
    BY LoadedList DEF Lists
  <2>2. handlers' = [handlers EXCEPT ![c] =
                       [at |-> "truncate", buffer |-> LoadMempoolFromDisk \o handlers[c].buffer]]
    BY <1>12 DEF OnTxRead
  <2>3. QED
    BY <1>12, <2>1, <2>2 DEF Lists, OnTxRead, command
<1>13. ASSUME NEW c \in Connections, OnTxTruncate(c)
       PROVE  Lists'
  BY <1>13, EmptyList DEF Lists, OnTxTruncate, command
<1>14. ASSUME NEW c \in Connections, OnTxWrite(c)
       PROVE  Lists'
  <2>1. file' \in Seq(Transfers) \cup {Torn}
    BY <1>14, OverwrittenList DEF Lists, OnTxWrite
  <2>2. QED
    BY <1>14, <2>1, EmptyList DEF Lists, OnTxWrite, Idle, command
<1>15. QED
  BY <1>1, <1>2, <1>3, <1>4, <1>5, <1>6, <1>7, <1>8, <1>9, <1>10, <1>11, <1>12, <1>13, <1>14
     DEF NodeNext, Main, Handler, Receive, allVars

(* Every step of a command or a goroutine is a step of the ledger's         *)
(* callers.                                                                 *)
LEMMA LedgerSimulation ==
  ASSUME AnyMempool, Lists, [NodeNext]_allVars
  PROVE  [Next]_vars
<1>1. CASE \E command_ \in Programs : Launch(command_)
  BY <1>1 DEF Launch, Next, Load
<1>2. CASE LedgerStep
  BY <1>2 DEF LedgerStep, Next, Load, MineBlock, Save
<1>3. CASE ReportRejection \/ CallMineBlock \/ ReturnFromMineBlock
  BY <1>3 DEF ReportRejection, CallMineBlock, ReturnFromMineBlock, Next, MineBlock, Save
<1>4. CASE Install
  <2>1. seen \in MempoolFiles /\ SetMempool(seen)
    BY <1>4 DEF AnyMempool, Lists, Install
  <2>2. QED
    BY <2>1 DEF Pool, Next
<1>5. CASE ReadPending \/ TruncateFile \/ WriteFile \/ \E tx \in Transfers : ReadAndSign(tx)
  BY <1>5 DEF ReadPending, TruncateFile, WriteFile, ReadAndSign
<1>6. CASE Exit \/ Panic \/ Kill
  BY <1>6 DEF Exit, Panic, Kill, DieEarly, Die, Next
<1>7. ASSUME NEW c \in Connections, NEW tx \in Transfers, OnTx(c, tx)
      PROVE  Next
  BY <1>7 DEF OnTx, Pool, Next
<1>8. ASSUME NEW c \in Connections, NEW block \in ReceivedBlocks, OnBlock(c, block)
      PROVE  Next \/ UNCHANGED vars
  BY <1>8 DEF OnBlock, DieEarly, Die, Next, allVars
<1>9. ASSUME NEW c \in Connections, Handler(c)
      PROVE  UNCHANGED vars
  BY <1>9 DEF Handler, OnTxRead, OnTxTruncate, OnTxWrite
<1>10. CASE UNCHANGED allVars
  BY <1>10 DEF allVars
<1>11. QED
  BY <1>1, <1>2, <1>3, <1>4, <1>5, <1>6, <1>7, <1>8, <1>9, <1>10 DEF NodeNext, Main, Receive

(* Nothing is pending at first.                                             *)
LEMMA ListsInit ==
  ASSUME NodeInit
  PROVE  Lists
<1>1. file = <<>> /\ seen = <<>> /\ handlers = [c \in Connections |-> Idle]
  BY DEF NodeInit
<1>2. Idle \in [at : {"idle", "read", "truncate", "write"}, buffer : Seq(Transfers)]
  BY EmptyList DEF Idle
<1>3. QED
  BY <1>1, <1>2, EmptyList DEF Lists

(* The daemon, its connections and the other commands use the ledger as its  *)
(* specification says: no interleaving and no death of theirs is a step the  *)
(* ledger does not have.                                                     *)
THEOREM NodeImplementsLedger ==
  ASSUME AnyMempool
  PROVE  NodeSpec => ImplementsLedger
<1>1. NodeInit => Init
  BY DEF NodeInit
<1>2. Lists /\ [NodeNext]_allVars => [Next]_vars
  BY LedgerSimulation
<1>3. Lists /\ [NodeNext]_allVars => Lists'
  BY ListsStep
<1>4. NodeInit => Lists
  BY ListsInit
<1>5. QED
  BY <1>1, <1>2, <1>3, <1>4, PTL DEF NodeSpec, ImplementsLedger, Spec

(* Hence, however the commands follow each other and wherever they die, the  *)
(* stored chain obeys the abstract one, within its cap.                      *)
THEOREM NodeKeepsChain ==
  ASSUME AnyMempool
  PROVE  NodeSpec => []MemoryMatchesDisk /\ []StoredSupplyCapped /\ ImplementsBlockchain
<1>1. NodeSpec => Spec
  BY NodeImplementsLedger DEF ImplementsLedger
<1>2. QED
  BY <1>1, LedgerMatchesDisk, LedgerSupplyCapped, LedgerRefinesBlockchain, PTL

----------------------------------------------------------------------------
(* Types of the commands and goroutines.  That what was filed or rejected   *)
(* was submitted before needs to be known of every place a transfer can be. *)

(* Whoever holds transfers holds submitted ones.                            *)
PendingSubmitted ==
  /\ Elements(mempool) \subseteq submitted
  /\ Elements(LoadMempoolFromDisk) \subseteq submitted
  /\ Elements(seen) \subseteq submitted
  /\ \A c \in Connections : Elements(handlers[c].buffer) \subseteq submitted

(* Which commands come to these locations, and with how many blocks.        *)
CommandKnown ==
  /\ at = "install" => program \in {"node", "mine", "fees"}
  /\ program = "mine" /\ at = "mine" => left # 0

NodeIInv == NodeTypeOK /\ PendingSubmitted /\ CommandKnown

(* What the operators on lists do to the transfers on them.                 *)
LEMMA ElementsFacts ==
  /\ Elements(<<>>) = {}
  /\ \A s \in Seq(Transfers), tx \in Transfers : Elements(Append(s, tx)) = Elements(s) \cup {tx}
  /\ \A s, t \in Seq(Transfers) : Elements(s \o t) = Elements(s) \cup Elements(t)
  /\ \A s \in Seq(Transfers), n \in Nat : Elements(SubSeq(s, n + 1, Len(s))) \subseteq Elements(s)
  /\ \A tx \in Transfers : Elements(<<tx>>) = {tx}
<1>1. Elements(<<>>) = {}
  BY DEF Elements
<1>2. ASSUME NEW s \in Seq(Transfers), NEW tx \in Transfers
      PROVE  Elements(Append(s, tx)) = Elements(s) \cup {tx}
  BY DEF Elements
<1>3. ASSUME NEW s \in Seq(Transfers), NEW t \in Seq(Transfers)
      PROVE  Elements(s \o t) = Elements(s) \cup Elements(t)
  <2>1. Len(s \o t) = Len(s) + Len(t)
    OBVIOUS
  <2>2. \A i \in 1 .. Len(s) + Len(t) :
          (s \o t)[i] = IF i <= Len(s) THEN s[i] ELSE t[i - Len(s)]
    OBVIOUS
  <2>3. \A i \in 1 .. Len(t) : /\ Len(s) + i \in 1 .. Len(s) + Len(t)
                               /\ (s \o t)[Len(s) + i] = t[i]
    BY <2>2
  <2>4. Elements(t) \subseteq Elements(s \o t)
    BY <2>1, <2>3 DEF Elements
  <2>5. Elements(s) \subseteq Elements(s \o t)
    BY <2>1, <2>2 DEF Elements
  <2>6. Elements(s \o t) \subseteq Elements(s) \cup Elements(t)
    BY <2>1, <2>2 DEF Elements
  <2>7. QED
    BY <2>4, <2>5, <2>6
<1>4. ASSUME NEW s \in Seq(Transfers), NEW n \in Nat
      PROVE  Elements(SubSeq(s, n + 1, Len(s))) \subseteq Elements(s)
  BY DEF Elements
<1>5. ASSUME NEW tx \in Transfers
      PROVE  Elements(<<tx>>) = {tx}
  BY DEF Elements
<1>6. QED
  BY <1>1, <1>2, <1>3, <1>4, <1>5

(* The file loads as a list of submitted transfers if what it was written    *)
(* with are submitted.                                                       *)
LEMMA OverwrittenSubmitted ==
  ASSUME NEW old \in Seq(Transfers) \cup {Torn}, NEW new \in Seq(Transfers),
         file' \in Overwritten(old, new), Elements(new) \subseteq submitted'
  PROVE  /\ file' \in Seq(Transfers) \cup {Torn}
         /\ Elements(LoadMempoolFromDisk') \subseteq submitted'
<1>1. file' \in {new, Torn}
  BY DEF Overwritten
<1>2. QED
  BY <1>1, ElementsFacts, NodeAssumption DEF LoadMempoolFromDisk

(* A started command has read nothing yet.                                   *)
LEMMA LaunchTypes ==
  ASSUME NodeIInv, NEW command_ \in Programs, Launch(command_)
  PROVE  NodeIInv'
<1>1. left' \in Nat
  BY NodeAssumption DEF Launch
<1>2. NodeTypeOK'
  BY <1>1 DEF NodeIInv, NodeTypeOK, Launch, history
<1>3. mempool' = mempool
  BY DEF Launch, InitializeLedger
<1>4. PendingSubmitted'
  BY <1>3 DEF NodeIInv, PendingSubmitted, LoadMempoolFromDisk, Launch, history
<1>5. CommandKnown'
  BY DEF CommandKnown, Launch
<1>6. QED
  BY <1>2, <1>4, <1>5 DEF NodeIInv

(* The ledger alone shortens its mempool, or reports what it holds.          *)
LEMMA LedgerStepTypes ==
  ASSUME TypeOK, NodeIInv, LedgerStep \/ ReportRejection
  PROVE  NodeIInv'
<1>1. mempool' = mempool \/ mempool' = RemainingMempool(mempool, job.packed)
  BY DEF LedgerStep, ReportRejection, ClearAll, SpawnGenesis, RebuildTransfer, RebuildReward,
         VerifyConsensusIntegrity, PackTransfer, EndSelect, AssembleBlock, FindBlock,
         AppendBlock, PutBlock, PutLastIndex, SkipTransfer
<1>2. Elements(mempool') \subseteq Elements(mempool)
  <2>1. mempool \in Seq(Transfers) /\ Len(job.packed) \in Nat
    BY DEF TypeOK, Job
  <2>2. Elements(RemainingMempool(mempool, job.packed)) \subseteq Elements(mempool)
    BY <2>1, ElementsFacts DEF RemainingMempool
  <2>3. QED
    BY <1>1, <2>2
<1>3. rejected' \subseteq submitted
  <2>1. CASE LedgerStep
    BY <2>1 DEF LedgerStep, nodeVars, history, NodeIInv, NodeTypeOK
  <2>2. CASE ReportRejection
    <3>1. mempool[job.next] \in Elements(mempool)
      BY <2>2 DEF ReportRejection, SkipTransfer, Considered, Elements, TypeOK, Job
    <3>2. QED
      BY <2>2, <3>1 DEF ReportRejection, NodeIInv, NodeTypeOK, PendingSubmitted
  <2>3. QED
    BY <2>1, <2>2
<1>4. UNCHANGED <<file, command, handlers, submitted, filed, deaths>>
  BY DEF LedgerStep, ReportRejection, nodeVars, history
<1>5. QED
  BY <1>2, <1>3, <1>4 DEF NodeIInv, NodeTypeOK, PendingSubmitted, LoadMempoolFromDisk,
                          CommandKnown, command

(* The goroutine that reads the file and mines.                              *)
LEMMA MinerTypes ==
  ASSUME NodeIInv, ReadPending \/ Install \/ CallMineBlock \/ ReturnFromMineBlock
  PROVE  NodeIInv'
<1>1. CASE ReadPending
  <2>1. LoadMempoolFromDisk \in Seq(Transfers)
    BY LoadedList DEF NodeIInv, NodeTypeOK, Lists
  <2>2. seen' \in {LoadMempoolFromDisk, <<>>} /\ at' \in {"install", "read", AfterInstall}
    BY <1>1 DEF ReadPending
  <2>3. AfterInstall \in {"mine", "truncate", "exit"}
    BY <1>1 DEF ReadPending, AfterInstall, NextMine
  <2>4. NodeTypeOK'
    BY <1>1, <2>1, <2>2, <2>3, EmptyList DEF NodeIInv, NodeTypeOK, ReadPending, history
  <2>5. PendingSubmitted'
    BY <1>1, <2>2, ElementsFacts
       DEF NodeIInv, PendingSubmitted, LoadMempoolFromDisk, ReadPending, history, vars
  <2>6. CommandKnown'
    BY <1>1 DEF CommandKnown, ReadPending, AfterInstall, NextMine
  <2>7. QED
    BY <2>4, <2>5, <2>6 DEF NodeIInv
<1>2. CASE Install
  <2>1. program \in {"node", "mine", "fees"} /\ AfterInstall \in {"mine", "truncate", "exit"}
    BY <1>2 DEF NodeIInv, CommandKnown, Install, AfterInstall, NextMine
  <2>2. mempool' = seen
    BY <1>2 DEF Install, SetMempool
  <2>3. NodeTypeOK'
    BY <1>2, <2>1, EmptyList DEF NodeIInv, NodeTypeOK, Install, history
  <2>4. PendingSubmitted'
    BY <1>2, <2>2, ElementsFacts
       DEF NodeIInv, PendingSubmitted, LoadMempoolFromDisk, Install, history
  <2>5. CommandKnown'
    <3>1. program' = program /\ left' = left /\ at' = AfterInstall
      BY <1>2 DEF Install
    <3>2. program = "mine" => AfterInstall = NextMine
      BY DEF AfterInstall
    <3>3. QED
      BY <2>1, <3>1, <3>2 DEF CommandKnown, NextMine
  <2>6. QED
    BY <2>3, <2>4, <2>5 DEF NodeIInv
<1>3. CASE CallMineBlock
  <2>1. left' \in Nat
    BY <1>3 DEF NodeIInv, NodeTypeOK, CommandKnown, CallMineBlock
  <2>2. mempool' = mempool
    BY <1>3 DEF CallMineBlock, BeginMine, RejectMiner
  <2>3. QED
    BY <1>3, <2>1, <2>2 DEF NodeIInv, NodeTypeOK, PendingSubmitted, LoadMempoolFromDisk,
                            CommandKnown, CallMineBlock, history
<1>4. CASE ReturnFromMineBlock
  <2>1. mempool' = mempool
    BY <1>4 DEF ReturnFromMineBlock, CreditMiner
  <2>2. QED
    BY <1>4, <2>1 DEF NodeIInv, NodeTypeOK, PendingSubmitted, LoadMempoolFromDisk,
                      CommandKnown, ReturnFromMineBlock, NextMine, history
<1>5. QED
  BY <1>1, <1>2, <1>3, <1>4

(* `send`, and whoever writes the file back.                                 *)
LEMMA FileTypes ==
  ASSUME NodeIInv, TruncateFile \/ WriteFile \/ \E tx \in Transfers : ReadAndSign(tx)
  PROVE  NodeIInv'
<1>1. ASSUME NEW tx \in Transfers, ReadAndSign(tx)
      PROVE  NodeIInv'
  <2>1. LoadMempoolFromDisk \in Seq(Transfers)
    BY LoadedList DEF NodeIInv, NodeTypeOK, Lists
  <2>2. seen' \in Seq(Transfers) /\ Elements(seen') = Elements(LoadMempoolFromDisk) \cup {tx}
    BY <1>1, <2>1, ElementsFacts DEF ReadAndSign
  <2>3. NodeTypeOK'
    BY <1>1, <2>2 DEF NodeIInv, NodeTypeOK, ReadAndSign
  <2>4. PendingSubmitted'
    BY <1>1, <2>2 DEF NodeIInv, PendingSubmitted, LoadMempoolFromDisk, ReadAndSign, vars
  <2>5. CommandKnown'
    BY <1>1 DEF CommandKnown, ReadAndSign
  <2>6. QED
    BY <2>3, <2>4, <2>5 DEF NodeIInv
<1>2. CASE TruncateFile
  <2>1. NodeTypeOK'
    BY <1>2, EmptyList DEF NodeIInv, NodeTypeOK, TruncateFile, history
  <2>2. PendingSubmitted'
    BY <1>2, ElementsFacts, NodeAssumption
       DEF NodeIInv, PendingSubmitted, LoadMempoolFromDisk, TruncateFile, history, vars
  <2>3. QED
    BY <1>2, <2>1, <2>2 DEF NodeIInv, CommandKnown, TruncateFile
<1>3. CASE WriteFile
  <2>1. /\ file' \in Seq(Transfers) \cup {Torn}
        /\ Elements(LoadMempoolFromDisk') \subseteq submitted'
    BY <1>3, OverwrittenSubmitted DEF NodeIInv, NodeTypeOK, PendingSubmitted, WriteFile
  <2>2. NodeTypeOK'
    BY <1>3, <2>1, EmptyList DEF NodeIInv, NodeTypeOK, PendingSubmitted, WriteFile
  <2>3. PendingSubmitted'
    BY <1>3, <2>1, ElementsFacts DEF NodeIInv, PendingSubmitted, WriteFile, vars
  <2>4. QED
    BY <1>3, <2>2, <2>3 DEF NodeIInv, CommandKnown, WriteFile
<1>4. QED
  BY <1>1, <1>2, <1>3

(* A connection that receives a transfer, and its handler.                   *)
LEMMA ConnectionTypes ==
  ASSUME TypeOK, NodeIInv, NEW c \in Connections,
         Handler(c) \/ \E tx \in Transfers : OnTx(c, tx)
  PROVE  NodeIInv'
<1>1. ASSUME NEW tx \in Transfers, OnTx(c, tx)
      PROVE  NodeIInv'
  <2>1. mempool' = Append(mempool, tx) /\ mempool \in Seq(Transfers)
    BY <1>1 DEF OnTx, ReceiveTransfer, TypeOK
  <2>2. <<tx>> \in Seq(Transfers) /\ Elements(<<tx>>) = {tx}
    BY ElementsFacts
  <2>3. NodeTypeOK'
    BY <1>1, <2>2 DEF NodeIInv, NodeTypeOK, OnTx, command
  <2>4. PendingSubmitted'
    <3>1. Elements(mempool') \subseteq submitted'
      BY <1>1, <2>1, ElementsFacts DEF NodeIInv, PendingSubmitted, OnTx
    <3>2. ASSUME NEW d \in Connections
          PROVE  Elements(handlers'[d].buffer) \subseteq submitted'
      BY <1>1, <2>2 DEF NodeIInv, NodeTypeOK, PendingSubmitted, OnTx
    <3>3. QED
      BY <1>1, <3>1, <3>2 DEF NodeIInv, PendingSubmitted, LoadMempoolFromDisk, OnTx, command
  <2>5. QED
    BY <1>1, <2>3, <2>4 DEF NodeIInv, CommandKnown, OnTx, command
<1>2. CASE OnTxRead(c)
  <2>1. PICK longer : /\ longer = LoadMempoolFromDisk \o handlers[c].buffer
                      /\ handlers' = [handlers EXCEPT ![c] = [at |-> "truncate",
                                                             buffer |-> longer]]
    BY <1>2 DEF OnTxRead
  <2>2. LoadMempoolFromDisk \in Seq(Transfers) /\ handlers[c].buffer \in Seq(Transfers)
    BY LoadedList DEF NodeIInv, NodeTypeOK, Lists
  <2>3. longer \in Seq(Transfers) /\ Elements(longer) \subseteq submitted
    BY <2>1, <2>2, ElementsFacts DEF NodeIInv, PendingSubmitted
  <2>4. NodeTypeOK'
    BY <1>2, <2>1, <2>3 DEF NodeIInv, NodeTypeOK, OnTxRead, command, history
  <2>5. PendingSubmitted'
    <3>1. ASSUME NEW d \in Connections
          PROVE  Elements(handlers'[d].buffer) \subseteq submitted'
      BY <1>2, <2>1, <2>3 DEF NodeIInv, NodeTypeOK, PendingSubmitted, OnTxRead, history
    <3>2. QED
      BY <1>2, <3>1 DEF NodeIInv, PendingSubmitted, LoadMempoolFromDisk, OnTxRead, command,
                        history, vars
  <2>6. QED
    BY <1>2, <2>4, <2>5 DEF NodeIInv, CommandKnown, OnTxRead, command
<1>3. CASE OnTxTruncate(c)
  <2>1. NodeTypeOK'
    BY <1>3, EmptyList DEF NodeIInv, NodeTypeOK, OnTxTruncate, command, history
  <2>2. ASSUME NEW d \in Connections
        PROVE  Elements(handlers'[d].buffer) \subseteq submitted'
    BY <1>3 DEF NodeIInv, NodeTypeOK, PendingSubmitted, OnTxTruncate, history
  <2>3. PendingSubmitted'
    BY <1>3, <2>2, ElementsFacts, NodeAssumption
       DEF NodeIInv, PendingSubmitted, LoadMempoolFromDisk, OnTxTruncate, command, history, vars
  <2>4. QED
    BY <1>3, <2>1, <2>3 DEF NodeIInv, CommandKnown, OnTxTruncate, command
<1>4. CASE OnTxWrite(c)
  <2>1. /\ file' \in Seq(Transfers) \cup {Torn}
        /\ Elements(LoadMempoolFromDisk') \subseteq submitted'
    BY <1>4, OverwrittenSubmitted DEF NodeIInv, NodeTypeOK, PendingSubmitted, OnTxWrite
  <2>2. Idle \in [at : {"idle", "read", "truncate", "write"}, buffer : Seq(Transfers)]
    BY EmptyList DEF Idle
  <2>3. NodeTypeOK'
    BY <1>4, <2>1, <2>2 DEF NodeIInv, NodeTypeOK, PendingSubmitted, OnTxWrite, command
  <2>4. ASSUME NEW d \in Connections
        PROVE  Elements(handlers'[d].buffer) \subseteq submitted'
    BY <1>4, ElementsFacts DEF NodeIInv, NodeTypeOK, PendingSubmitted, OnTxWrite, Idle
  <2>5. PendingSubmitted'
    BY <1>4, <2>1, <2>4 DEF NodeIInv, PendingSubmitted, OnTxWrite, command, vars
  <2>6. QED
    BY <1>4, <2>3, <2>5 DEF NodeIInv, CommandKnown, OnTxWrite, command
<1>5. QED
  BY <1>1, <1>2, <1>3, <1>4 DEF Handler

(* A process that ends takes its memory with it.                             *)
LEMMA DieTypes ==
  ASSUME NodeIInv, Die, UNCHANGED <<file, submitted, filed, rejected>>,
         deaths' \in 0 .. MaxDeaths
  PROVE  NodeIInv'
<1>1. mempool' = <<>>
  BY DEF Die, Stop, MemoryLost
<1>2. NodeTypeOK'
  BY EmptyList DEF NodeIInv, NodeTypeOK, Die, Idle
<1>3. PendingSubmitted'
  BY <1>1, ElementsFacts DEF NodeIInv, PendingSubmitted, LoadMempoolFromDisk, Die, Idle
<1>4. QED
  BY <1>2, <1>3 DEF NodeIInv, CommandKnown, Die

(* ... and so does one that ends before it is done.                          *)
LEMMA DieEarlyTypes ==
  ASSUME NodeIInv, DieEarly
  PROVE  NodeIInv'
<1>1. deaths' \in 0 .. MaxDeaths
  BY NodeAssumption DEF NodeIInv, NodeTypeOK, DieEarly
<1>2. QED
  BY <1>1, DieTypes DEF DieEarly

(* Nothing happens.                                                          *)
LEMMA StutterTypes ==
  ASSUME NodeIInv, UNCHANGED allVars
  PROVE  NodeIInv'
BY DEF NodeIInv, NodeTypeOK, PendingSubmitted, CommandKnown, LoadMempoolFromDisk, allVars, vars,
       nodeVars, command, history

(* Every step of the node keeps the types.                                   *)
LEMMA NodeIInvStep ==
  ASSUME TypeOK, NodeIInv, [NodeNext]_allVars
  PROVE  NodeIInv'
<1>1. CASE Exit \/ Panic
  <2>1. deaths' \in 0 .. MaxDeaths
    BY <1>1 DEF NodeIInv, NodeTypeOK, Exit, Panic, history
  <2>2. QED
    BY <1>1, <2>1, DieTypes DEF Exit, Panic, history
<1>2. CASE Kill
  BY <1>2, DieEarlyTypes DEF Kill
<1>3. ASSUME NEW c \in Connections, NEW block \in ReceivedBlocks, OnBlock(c, block)
      PROVE  NodeIInv'
  <2>1. DieEarly \/ UNCHANGED allVars
    BY <1>3 DEF OnBlock
  <2>2. QED
    BY <2>1, DieEarlyTypes, StutterTypes
<1>4. CASE Main
  BY <1>1, <1>4, LedgerStepTypes, MinerTypes, FileTypes DEF Main
<1>5. CASE UNCHANGED allVars
  BY <1>5, StutterTypes
<1>6. QED
  BY <1>2, <1>3, <1>4, <1>5, LaunchTypes, ConnectionTypes DEF NodeNext, Receive

(* At first nothing runs.                                                    *)
LEMMA NodeIInvInit ==
  ASSUME NodeInit
  PROVE  NodeIInv
<1>1. NodeTypeOK
  BY EmptyList, NodeAssumption DEF NodeInit, NodeTypeOK, Idle
<1>2. mempool = <<>>
  BY DEF NodeInit, Init
<1>3. PendingSubmitted
  BY <1>2, ElementsFacts, NodeAssumption DEF NodeInit, PendingSubmitted, LoadMempoolFromDisk, Idle
<1>4. QED
  BY <1>1, <1>3 DEF NodeIInv, CommandKnown, NodeInit

(* The commands and the daemon's goroutines keep their variables well typed; *)
(* in particular only a transfer that was sent or received is ever filed, or *)
(* reported as not covered.                                                  *)
THEOREM NodeTypes ==
  ASSUME AnyMempool
  PROVE  NodeSpec => []NodeTypeOK
<1>1. NodeSpec => []TypeOK
  BY NodeImplementsLedger, LedgerTypes, PTL DEF ImplementsLedger
<1>2. NodeInit => NodeIInv
  BY NodeIInvInit
<1>3. TypeOK /\ NodeIInv /\ [NodeNext]_allVars => NodeIInv'
  BY NodeIInvStep
<1>4. NodeIInv => NodeTypeOK
  BY DEF NodeIInv
<1>5. QED
  BY <1>1, <1>2, <1>3, <1>4, PTL DEF NodeSpec

----------------------------------------------------------------------------
(* One round of a command, while no peer is connected: the file is read,     *)
(* mined from, and emptied.                                                  *)

(* Lists without repetitions stay so when they are cut, and when a new       *)
(* transfer comes behind them.                                               *)
LEMMA DistinctFacts ==
  /\ Distinct(<<>>)
  /\ \A s \in Seq(Transfers), tx \in Transfers :
       Distinct(s) /\ tx \notin Elements(s) => Distinct(Append(s, tx))
  /\ \A s \in Seq(Transfers), n \in Nat : Distinct(s) => Distinct(SubSeq(s, n + 1, Len(s)))
<1>1. Distinct(<<>>)
  BY DEF Distinct
<1>2. ASSUME NEW s \in Seq(Transfers), NEW tx \in Transfers, Distinct(s), tx \notin Elements(s)
      PROVE  Distinct(Append(s, tx))
  <2> DEFINE t == Append(s, tx)
  <2>1. Len(t) = Len(s) + 1 /\ t[Len(s) + 1] = tx /\ \A i \in 1 .. Len(s) : t[i] = s[i]
    OBVIOUS
  <2>2. \A i \in 1 .. Len(s) : s[i] # tx
    BY <1>2 DEF Elements
  <2>3. ASSUME NEW i \in 1 .. Len(t), NEW k \in 1 .. Len(t), t[i] = t[k] PROVE i = k
    <3>1. i \in 1 .. Len(s) \/ i = Len(s) + 1
      BY <2>1
    <3>2. k \in 1 .. Len(s) \/ k = Len(s) + 1
      BY <2>1
    <3> HIDE DEF t
    <3>3. QED
      BY <1>2, <2>1, <2>2, <2>3, <3>1, <3>2 DEF Distinct
  <2>4. QED
    BY <2>3 DEF Distinct
<1>3. ASSUME NEW s \in Seq(Transfers), NEW n \in Nat, Distinct(s)
      PROVE  Distinct(SubSeq(s, n + 1, Len(s)))
  <2> DEFINE t == SubSeq(s, n + 1, Len(s))
  <2>1. \A i \in 1 .. Len(t) : n + i \in 1 .. Len(s) /\ t[i] = s[n + i]
    OBVIOUS
  <2>2. ASSUME NEW i \in 1 .. Len(t), NEW k \in 1 .. Len(t), t[i] = t[k] PROVE i = k
    <3>1. n + i \in 1 .. Len(s) /\ n + k \in 1 .. Len(s) /\ s[n + i] = s[n + k]
      BY <2>1, <2>2
    <3>2. n + i = n + k
      BY <1>3, <3>1 DEF Distinct
    <3>3. QED
      BY <3>2
  <2>3. QED
    BY <2>2 DEF Distinct
<1>4. QED
  BY <1>1, <1>2, <1>3

(* Who changes the file: nobody else while no peer is connected.             *)
LEMMA StepsAlone ==
  ASSUME Connections = {}, NodeNext
  PROVE  (\E command_ \in Programs : Launch(command_)) \/ Main \/ Kill
BY DEF NodeNext

(* A command starts on an empty mempool.                                     *)
LEMMA LaunchRound ==
  ASSUME NodeIInv, RoundInv, NEW command_ \in Programs, Launch(command_)
  PROVE  RoundInv'
<1>1. /\ program = "none" /\ pc = "off" /\ pc' \in {"spawn", "rebuild", "wipe"}
      /\ mempool' = mempool /\ mempool = <<>>
  BY DEF Launch, InitializeLedger, RoundInv, RoundKnown, ListsKnown
<1>2. /\ program' \in Commands /\ at' \in {"exit", "read"} /\ file' = file /\ seen' = seen
  BY NodeAssumption DEF Launch
<1>3. RoundKnown'
  BY <1>1, <1>2, NodeAssumption DEF RoundKnown, Commands
<1>4. ListsKnown'
  BY <1>1, <1>2 DEF RoundInv, ListsKnown, LoadMempoolFromDisk
<1>5. BlockOfFile'
  BY <1>2 DEF BlockOfFile
<1>6. QED
  BY <1>3, <1>4, <1>5 DEF RoundInv

(* Loading, up to and including the genesis block, disturbs no list.         *)
LEMMA LoadRound ==
  ASSUME NodeIInv, RoundInv, UNCHANGED nodeVars,
         ClearAll \/ SpawnGenesis \/ RebuildTransfer \/ RebuildReward \/ VerifyConsensusIntegrity
  PROVE  RoundInv'
<1>1. /\ pc \in {"wipe", "spawn", "rebuild", "verify"}
      /\ pc' \in {"spawn", "save", "rebuild", "verify", "ready", "panic"}
      /\ pc' = "save" => newBlock'.index = 0 /\ newBlock'.transfers = <<>>
      /\ mempool' = mempool /\ job' = job
  BY DEF ClearAll, SpawnGenesis, GenesisBlock, RebuildTransfer, RebuildReward,
         VerifyConsensusIntegrity
<1>2. at' = at /\ program' = program /\ file' = file /\ seen' = seen
  BY DEF nodeVars, command
<1>3. at \in {"read", "exit"} /\ program # "none"
  BY <1>1 DEF NodeIInv, NodeTypeOK, RoundInv, RoundKnown
<1>4. RoundKnown'
  BY <1>1, <1>2, <1>3 DEF RoundKnown
<1>5. ListsKnown'
  BY <1>1, <1>2, <1>3 DEF RoundInv, ListsKnown, LoadMempoolFromDisk
<1>6. BlockOfFile'
  BY <1>2, <1>3 DEF BlockOfFile
<1>7. QED
  BY <1>4, <1>5, <1>6 DEF RoundInv

(* So does MineBlock, which leaves the file and what was read alone.         *)
LEMMA MiningFrame ==
  ASSUME NodeIInv, RoundInv, at = "mining", at' = at,
         UNCHANGED <<file, program, seen>>,
         pc' \in {"select", "assemble", "mining", "commit", "save", "index", "credit", "panic"},
         pc' \in {"save", "index"} => newBlock'.index > 0
  PROVE  RoundKnown' /\ ListsKnown' /\ LoadMempoolFromDisk' = LoadMempoolFromDisk
<1>1. LoadMempoolFromDisk' = LoadMempoolFromDisk
  BY DEF LoadMempoolFromDisk
<1>2. RoundKnown'
  BY DEF RoundInv, RoundKnown, Miners
<1>3. ListsKnown'
  BY <1>1 DEF RoundInv, ListsKnown
<1>4. QED
  BY <1>1, <1>2, <1>3

(* The selection packs what it meets first, each transfer once.              *)
LEMMA SelectRound ==
  ASSUME TypeOK, NodeIInv, RoundInv, UNCHANGED <<file, command>>,
         PackTransfer \/ SkipTransfer \/ EndSelect
  PROVE  RoundInv'
<1>1. /\ pc = "select" /\ pc' \in {"select", "assemble"}
      /\ at = "mining" /\ at' = at /\ UNCHANGED <<file, program, seen>>
  BY DEF PackTransfer, SkipTransfer, EndSelect, NodeIInv, NodeTypeOK, RoundInv, RoundKnown, command
<1>2. RoundKnown' /\ ListsKnown' /\ LoadMempoolFromDisk' = LoadMempoolFromDisk
  BY <1>1, MiningFrame
<1>3. /\ mempool \in Seq(Transfers) /\ job \in Job
      /\ job.packed \in Seq(Transfers) /\ job.next \in Nat \ {0}
  BY DEF TypeOK, Job
<1>4. /\ Distinct(mempool) /\ Elements(mempool) \subseteq Elements(LoadMempoolFromDisk)
      /\ Distinct(job.packed) /\ Elements(job.packed) \subseteq Elements(LoadMempoolFromDisk)
      /\ \A i \in job.next .. Len(mempool) : mempool[i] \notin Elements(job.packed)
  BY <1>1 DEF RoundInv, BlockOfFile
<1>5. CASE PackTransfer
  <2> DEFINE tx == mempool[job.next]
  <2>1. /\ mempool' = mempool /\ job.next \in 1 .. Len(mempool) /\ pc' = "select"
        /\ job' = [job EXCEPT !.next = @ + 1, !.packed = Append(@, tx),
                              !.fees = AddWord(@, tx.fee), !.bytes = @ + tx.size]
    BY <1>3, <1>5 DEF PackTransfer, Considered
  <2>2. tx \in Transfers /\ tx \in Elements(mempool) /\ tx \notin Elements(job.packed)
    BY <1>3, <1>4, <2>1 DEF Elements
  <2>3. \A i \in job.next + 1 .. Len(mempool) : mempool[i] # tx
    BY <1>3, <1>4, <2>1 DEF Distinct
  <2>4. \A i \in job.next + 1 .. Len(mempool) : i \in job.next .. Len(mempool)
    BY <1>3
  <2> HIDE DEF tx
  <2>5. job'.next = job.next + 1 /\ job'.packed = Append(job.packed, tx)
    BY <1>3, <2>1 DEF Job
  <2>6. Distinct(job'.packed) /\ Elements(job'.packed) = Elements(job.packed) \cup {tx}
    BY <1>3, <1>4, <2>2, <2>5, DistinctFacts, ElementsFacts
  <2>7. \A i \in job'.next .. Len(mempool') : mempool'[i] \notin Elements(job'.packed)
    BY <1>4, <2>1, <2>3, <2>4, <2>5, <2>6
  <2>8. BlockOfFile'
    BY <1>1, <1>2, <1>4, <2>1, <2>2, <2>6, <2>7 DEF BlockOfFile
  <2>9. QED
    BY <1>2, <2>8 DEF RoundInv
<1>6. CASE SkipTransfer
  <2>1. /\ mempool' = mempool /\ job'.next = job.next + 1 /\ job'.packed = job.packed
        /\ pc' = "select"
    BY <1>3, <1>6 DEF SkipTransfer, Job
  <2>2. \A i \in job.next + 1 .. Len(mempool) : i \in job.next .. Len(mempool)
    BY <1>3
  <2>3. BlockOfFile'
    BY <1>1, <1>2, <1>4, <2>1, <2>2 DEF BlockOfFile
  <2>4. QED
    BY <1>2, <2>3 DEF RoundInv
<1>7. CASE EndSelect
  <2>1. /\ mempool' = SubSeq(mempool, Len(job.packed) + 1, Len(mempool)) /\ job' = job
        /\ pc' = "assemble" /\ Len(job.packed) \in Nat
    BY <1>3, <1>7 DEF EndSelect, RemainingMempool
  <2>2. Distinct(mempool') /\ Elements(mempool') \subseteq Elements(mempool)
    BY <1>3, <1>4, <2>1, DistinctFacts, ElementsFacts
  <2>3. BlockOfFile'
    BY <1>1, <1>2, <1>4, <2>1, <2>2 DEF BlockOfFile
  <2>4. QED
    BY <1>2, <2>3 DEF RoundInv
<1>8. QED
  BY <1>5, <1>6, <1>7

(* The block carries what was packed, up to the disk.                        *)
LEMMA BlockRound ==
  ASSUME IInv, IInv', NodeIInv, RoundInv, UNCHANGED nodeVars,
         AssembleBlock \/ FindBlock \/ AppendBlock
  PROVE  RoundInv'
<1>1. /\ pc \in {"assemble", "mining", "commit"} /\ pc' \in {"mining", "commit", "panic", "save"}
      /\ at = "mining" /\ at' = at /\ UNCHANGED <<file, program, seen>> /\ mempool' = mempool
  BY DEF AssembleBlock, FindBlock, AppendBlock, NodeIInv, NodeTypeOK, RoundInv, RoundKnown,
         nodeVars, command
<1>2. pc' = "save" => newBlock'.index > 0
  <2>1. SUFFICES ASSUME pc' = "save" PROVE newBlock'.index > 0
    OBVIOUS
  <2>2. AppendBlock
    BY <2>1 DEF AssembleBlock, FindBlock
  <2>3. chain = Stored /\ Stored # <<>> /\ chain \in Seq(Block)
    BY <2>2, TipIsBlock DEF AppendBlock, Loaded
  <2>4. Stored' = Stored
    BY <2>2, StoredUnchanged DEF AppendBlock
  <2>5. newBlock'.index = Len(Stored)
    BY <2>1, <2>4 DEF IInv, MemoryMatchesDisk
  <2>6. QED
    BY <2>3, <2>5
<1>3. RoundKnown' /\ ListsKnown' /\ LoadMempoolFromDisk' = LoadMempoolFromDisk
  BY <1>1, <1>2, MiningFrame
<1>4. job'.packed = job.packed
  BY DEF AssembleBlock, FindBlock, AppendBlock, IInv, TypeOK, Job
<1>5. pc' \in {"mining", "commit", "save"} => newBlock'.transfers = job.packed
  <2>1. CASE AssembleBlock
    BY <2>1 DEF AssembleBlock
  <2>2. CASE FindBlock
    <3>1. newBlock' = [newBlock EXCEPT !.hash = FoundHash] /\ newBlock \in Block
      BY <2>2 DEF FindBlock, IInv, NewBlockKnown
    <3>2. newBlock'.transfers = newBlock.transfers
      BY <3>1 DEF Block
    <3>3. QED
      BY <1>1, <2>2, <3>2 DEF FindBlock, RoundInv, BlockOfFile
  <2>3. CASE AppendBlock
    BY <1>1, <2>3 DEF AppendBlock, RoundInv, BlockOfFile
  <2>4. QED
    BY <2>1, <2>2, <2>3
<1>6. BlockOfFile'
  BY <1>1, <1>3, <1>4, <1>5 DEF RoundInv, BlockOfFile
<1>7. QED
  BY <1>3, <1>6 DEF RoundInv

(* The two Puts of SaveBlock, of a genesis block or of a mined one.          *)
LEMMA SaveRound ==
  ASSUME NodeIInv, RoundInv, UNCHANGED nodeVars, PutBlock \/ PutLastIndex
  PROVE  RoundInv'
<1>1. /\ pc \in {"save", "index"} /\ at \in {"mining", "read", "exit"} /\ program # "none"
      /\ UNCHANGED <<mempool, job, newBlock, file, program, seen, at>>
  BY DEF PutBlock, PutLastIndex, NodeIInv, NodeTypeOK, RoundInv, RoundKnown, nodeVars, command
<1>2. LoadMempoolFromDisk' = LoadMempoolFromDisk
  BY <1>1 DEF LoadMempoolFromDisk
<1>3. /\ at = "mining" => pc' \in {"index", "credit"} /\ newBlock.index > 0
      /\ at # "mining" => pc' \in {"index", "ready"} /\ newBlock.index = 0
                          /\ newBlock.transfers = <<>>
  BY <1>1 DEF PutBlock, PutLastIndex, RoundInv, RoundKnown
<1>4. RoundKnown'
  BY <1>1, <1>3 DEF RoundInv, RoundKnown
<1>5. ListsKnown'
  BY <1>1, <1>2, <1>3 DEF RoundInv, ListsKnown
<1>6. BlockOfFile'
  BY <1>1, <1>2, <1>3 DEF RoundInv, BlockOfFile
<1>7. QED
  BY <1>4, <1>5, <1>6 DEF RoundInv

(* The goroutine that reads the file and mines.                              *)
LEMMA MinerRound ==
  ASSUME TypeOK, NodeIInv, RoundInv,
         ReadPending \/ Install \/ CallMineBlock \/ ReturnFromMineBlock
  PROVE  RoundInv'
<1>1. LoadMempoolFromDisk \in Seq(Transfers)
  BY LoadedList DEF NodeIInv, NodeTypeOK, Lists
<1>2. CASE ReadPending
  <2>1. /\ at = "read" /\ pc = "ready" /\ program \in {"node", "mine", "fees"}
        /\ UNCHANGED <<pc, mempool, job, newBlock, file, program>>
    BY <1>2 DEF ReadPending, vars
  <2>2. LoadMempoolFromDisk' = LoadMempoolFromDisk
    BY <2>1 DEF LoadMempoolFromDisk
  <2>3. \/ seen' = LoadMempoolFromDisk /\ at' = "install"
        \/ seen' = <<>> /\ at' = "read" /\ program = "node"
        \/ seen' = <<>> /\ at' \in {"truncate", "mine"} /\ program = "mine"
        \/ seen' = <<>> /\ at' = "exit" /\ program = "fees"
    BY <1>2, <2>1 DEF ReadPending, AfterInstall, NextMine
  <2>4. RoundKnown'
    BY <2>1, <2>3 DEF RoundKnown, Miners
  <2>5. ListsKnown'
    BY <2>1, <2>2, <2>3, DistinctFacts DEF RoundInv, ListsKnown
  <2>6. BlockOfFile'
    <3>1. at' = "mine" => mempool' = <<>>
      BY <2>1, <2>3 DEF RoundInv, ListsKnown
    <3>2. at' # "mining"
      BY <2>3
    <3>3. QED
      BY <3>1, <3>2, DistinctFacts, ElementsFacts DEF BlockOfFile
  <2>7. QED
    BY <2>4, <2>5, <2>6 DEF RoundInv
<1>3. CASE Install
  <2>1. /\ at = "install" /\ pc = "ready" /\ program \in {"node", "mine", "fees"}
        /\ mempool' = seen /\ seen' = <<>> /\ UNCHANGED <<pc, job, newBlock, file, program>>
    BY <1>3 DEF Install, SetMempool, NodeIInv, CommandKnown, disk, settings
  <2>2. LoadMempoolFromDisk' = LoadMempoolFromDisk
    BY <2>1 DEF LoadMempoolFromDisk
  <2>3. \/ at' \in {"truncate", "mine"} /\ program \in Miners
        \/ at' = "exit" /\ program = "fees"
    BY <1>3, <2>1 DEF Install, AfterInstall, NextMine, Miners
  <2>4. RoundKnown'
    BY <2>1, <2>3 DEF RoundKnown, Miners
  <2>5. ListsKnown'
    BY <2>1, <2>2, <2>3, DistinctFacts DEF RoundInv, ListsKnown, Miners
  <2>6. BlockOfFile'
    <3>1. mempool' = LoadMempoolFromDisk /\ Distinct(mempool')
      BY <2>1 DEF RoundInv, ListsKnown
    <3>2. at' # "mining"
      BY <2>3
    <3>3. QED
      BY <2>2, <3>1, <3>2 DEF BlockOfFile
  <2>7. QED
    BY <2>4, <2>5, <2>6 DEF RoundInv
<1>4. CASE CallMineBlock
  <2>1. /\ at = "mine" /\ at' = "mining" /\ pc' \in {"select", "panic"}
        /\ pc' = "select" => job'.packed = <<>>
        /\ pc' = "panic" => job' = job
        /\ UNCHANGED <<mempool, newBlock, file, program, seen>>
    BY <1>4 DEF CallMineBlock, BeginMine, RejectMiner, NoJob
  <2>2. LoadMempoolFromDisk' = LoadMempoolFromDisk
    BY <2>1 DEF LoadMempoolFromDisk
  <2>3. RoundKnown'
    BY <2>1 DEF RoundInv, RoundKnown, Miners
  <2>4. ListsKnown'
    BY <2>1, <2>2 DEF RoundInv, ListsKnown
  <2>5. BlockOfFile'
    <3>1. mempool' = mempool /\ Distinct(mempool) /\ Elements(mempool) \subseteq Elements(LoadMempoolFromDisk)
      BY <2>1 DEF RoundInv, BlockOfFile
    <3>2. pc' = "select" => job'.packed = <<>> /\ Elements(<<>>) = {} /\ Distinct(<<>>)
      BY <2>1, DistinctFacts, ElementsFacts
    <3>3. QED
      BY <2>1, <2>2, <3>1, <3>2 DEF BlockOfFile
  <2>6. QED
    BY <2>3, <2>4, <2>5 DEF RoundInv
<1>5. CASE ReturnFromMineBlock
  <2>1. /\ at = "mining" /\ pc' = "ready" /\ program \in Miners /\ pc = "credit" /\ seen = <<>>
        /\ at' \in {"truncate", "mine"} /\ UNCHANGED <<mempool, file, program, seen>>
    BY <1>5 DEF ReturnFromMineBlock, CreditMiner, NextMine, RoundInv, RoundKnown, ListsKnown, Miners
  <2>2. LoadMempoolFromDisk' = LoadMempoolFromDisk
    BY <2>1 DEF LoadMempoolFromDisk
  <2>3. RoundKnown'
    BY <2>1 DEF RoundKnown, Miners
  <2>4. ListsKnown'
    BY <2>1, <2>2 DEF RoundInv, ListsKnown, Miners
  <2>5. BlockOfFile'
    BY <2>1, <2>2 DEF RoundInv, BlockOfFile
  <2>6. QED
    BY <2>3, <2>4, <2>5 DEF RoundInv
<1>6. QED
  BY <1>2, <1>3, <1>4, <1>5

(* Whoever writes the file has truncated it, and adds at most a new transfer *)
(* to what it held.                                                          *)
LEMMA FileRound ==
  ASSUME NodeIInv, RoundInv, TruncateFile \/ WriteFile \/ \E tx \in Transfers : ReadAndSign(tx)
  PROVE  RoundInv'
<1>1. LoadMempoolFromDisk \in Seq(Transfers)
  BY LoadedList DEF NodeIInv, NodeTypeOK, Lists
<1>2. ASSUME NEW tx \in Transfers, ReadAndSign(tx)
      PROVE  RoundInv'
  <2>1. /\ at' = "truncate" /\ pc' = "ready" /\ program = "send"
        /\ UNCHANGED <<file, program, mempool>> /\ seen' = Append(LoadMempoolFromDisk, tx)
    BY <1>2 DEF ReadAndSign, vars
  <2>2. LoadMempoolFromDisk' = LoadMempoolFromDisk
    BY <2>1 DEF LoadMempoolFromDisk
  <2>3. tx \notin Elements(LoadMempoolFromDisk)
    BY <1>2 DEF ReadAndSign, NodeIInv, PendingSubmitted
  <2>4. /\ Distinct(seen')
        /\ Elements(LoadMempoolFromDisk) \subseteq Elements(seen')
    BY <1>1, <2>1, <2>3, DistinctFacts, ElementsFacts DEF RoundInv, ListsKnown
  <2>5. RoundKnown' /\ BlockOfFile'
    BY <2>1 DEF RoundKnown, BlockOfFile
  <2>6. ListsKnown'
    BY <2>1, <2>2, <2>4 DEF RoundInv, ListsKnown
  <2>7. QED
    BY <2>5, <2>6 DEF RoundInv
<1>3. CASE TruncateFile
  <2>1. /\ at = "truncate" /\ at' = "write" /\ file' = <<>>
        /\ UNCHANGED <<pc, program, mempool, seen>>
    BY <1>3 DEF TruncateFile, vars
  <2>2. LoadMempoolFromDisk' = <<>>
    BY <2>1 DEF LoadMempoolFromDisk
  <2>3. RoundKnown' /\ BlockOfFile'
    BY <2>1 DEF RoundInv, RoundKnown, BlockOfFile
  <2>4. ListsKnown'
    BY <2>1, <2>2, DistinctFacts DEF RoundInv, ListsKnown
  <2>5. QED
    BY <2>3, <2>4 DEF RoundInv
<1>4. CASE WriteFile
  <2>1. /\ at = "write" /\ at' \in {"read", "exit"} /\ file = <<>> /\ seen' = <<>>
        /\ program = "mine" => at' = "exit"
        /\ pc = "ready" /\ program # "none" /\ UNCHANGED <<pc, program, mempool>>
    BY <1>4 DEF WriteFile, vars, RoundInv, RoundKnown, ListsKnown
  <2>2. file' = seen
    BY <1>4, <2>1 DEF WriteFile, Overwritten
  <2>3. LoadMempoolFromDisk' \in {seen, <<>>}
    BY <2>2 DEF LoadMempoolFromDisk
  <2>4. RoundKnown' /\ BlockOfFile'
    BY <2>1 DEF RoundKnown, BlockOfFile
  <2>5. ListsKnown'
    BY <2>1, <2>3, DistinctFacts DEF RoundInv, ListsKnown
  <2>6. QED
    BY <2>4, <2>5 DEF RoundInv
<1>5. QED
  BY <1>2, <1>3, <1>4

(* Every step of a node without peers keeps to the round.                    *)
LEMMA RoundInvStep ==
  ASSUME Connections = {}, IInv, IInv', NodeIInv, RoundInv, [NodeNext]_allVars
  PROVE  RoundInv'
<1>1. CASE Die /\ file' = file
  <2>1. program' = "none" /\ at' = "exit" /\ pc' = "off" /\ mempool' = <<>> /\ seen' = <<>>
    BY <1>1 DEF Die, Stop, MemoryLost
  <2>2. LoadMempoolFromDisk' = LoadMempoolFromDisk
    BY <1>1 DEF LoadMempoolFromDisk
  <2>3. RoundKnown' /\ BlockOfFile'
    BY <2>1 DEF RoundKnown, BlockOfFile
  <2>4. ListsKnown'
    BY <2>1, <2>2, DistinctFacts DEF RoundInv, ListsKnown
  <2>5. QED
    BY <2>3, <2>4 DEF RoundInv
<1>2. CASE UNCHANGED allVars
  BY <1>2 DEF RoundInv, RoundKnown, ListsKnown, BlockOfFile, LoadMempoolFromDisk, allVars, vars,
              nodeVars, command
<1>3. CASE LedgerStep
  <2>1. CASE ClearAll \/ SpawnGenesis \/ RebuildTransfer \/ RebuildReward \/ VerifyConsensusIntegrity
    BY <1>3, <2>1, LoadRound DEF LedgerStep
  <2>2. CASE PackTransfer \/ EndSelect
    BY <1>3, <2>2, SelectRound DEF LedgerStep, IInv, nodeVars
  <2>3. CASE AssembleBlock \/ FindBlock \/ AppendBlock
    BY <1>3, <2>3, BlockRound DEF LedgerStep
  <2>4. CASE PutBlock \/ PutLastIndex
    BY <1>3, <2>4, SaveRound DEF LedgerStep
  <2>5. QED
    BY <1>3, <2>1, <2>2, <2>3, <2>4 DEF LedgerStep
<1>4. CASE ReportRejection
  BY <1>4, SelectRound DEF ReportRejection, IInv
<1>5. CASE \E command_ \in Programs : Launch(command_)
  BY <1>5, LaunchRound
<1>6. CASE ReadPending \/ Install \/ CallMineBlock \/ ReturnFromMineBlock
  BY <1>6, MinerRound DEF IInv
<1>7. CASE TruncateFile \/ WriteFile \/ \E tx \in Transfers : ReadAndSign(tx)
  BY <1>7, FileRound
<1>8. CASE Exit \/ Panic \/ Kill
  BY <1>1, <1>8 DEF Exit, Panic, Kill, DieEarly
<1>9. QED
  BY <1>2, <1>3, <1>4, <1>5, <1>6, <1>7, <1>8, StepsAlone DEF Main

(* No command has run: everything is empty.                                  *)
LEMMA RoundInvInit ==
  ASSUME NodeInit
  PROVE  RoundInv
<1>1. /\ program = "none" /\ at = "exit" /\ pc = "off" /\ mempool = <<>> /\ seen = <<>>
      /\ file = <<>>
  BY DEF NodeInit, Init
<1>2. LoadMempoolFromDisk = <<>>
  BY <1>1 DEF LoadMempoolFromDisk
<1>3. RoundKnown /\ BlockOfFile
  BY <1>1 DEF RoundKnown, BlockOfFile
<1>4. ListsKnown
  BY <1>1, <1>2, DistinctFacts DEF ListsKnown
<1>5. QED
  BY <1>3, <1>4 DEF RoundInv

----------------------------------------------------------------------------
(* How often a transfer is in the stored chain. *)

(* A position is a block and a place in its list.                            *)
LEMMA PositionsFacts ==
  ASSUME NEW tx
  PROVE  \A p : p \in Positions(tx) <=>
           \E i \in 1 .. Len(Stored) : \E k \in 1 .. Len(Stored[i].transfers) :
             p = <<i, k>> /\ Stored[i].transfers[k] = tx
BY DEF Positions

(* The same positions as long as the same blocks are stored.                 *)
LEMMA PositionsUnchanged ==
  ASSUME NEW tx, Stored' = Stored
  PROVE  Positions(tx)' = Positions(tx)
BY DEF Positions

(* A block adds the places that the transfer has in it.                      *)
LEMMA PositionsGrow ==
  ASSUME NEW tx, IInv, PutLastIndex
  PROVE  /\ Positions(tx) \subseteq Positions(tx)'
         /\ tx \notin Elements(newBlock.transfers) => Positions(tx)' = Positions(tx)
         /\ tx \in Elements(newBlock.transfers) => Positions(tx)' # {}
         /\ \A p \in Positions(tx)' \ Positions(tx) :
              \E k \in 1 .. Len(newBlock.transfers) :
                p = <<Len(Stored) + 1, k>> /\ newBlock.transfers[k] = tx
<1>1. /\ Stored' = Append(Stored, newBlock) /\ Stored \in Seq(Block) /\ newBlock \in Block
  BY PutLastIndexStep, SavedAtEnd, StoredFacts DEF IInv, PutLastIndex
<1>2. /\ Len(Stored') = Len(Stored) + 1 /\ Stored'[Len(Stored) + 1] = newBlock
      /\ Len(Stored) \in Nat /\ \A i \in 1 .. Len(Stored) : Stored'[i] = Stored[i]
  BY <1>1
<1> DEFINE In(s, p) ==
      \E i \in 1 .. Len(s) : \E k \in 1 .. Len(s[i].transfers) :
        p = <<i, k>> /\ s[i].transfers[k] = tx
<1>3. \A p : p \in Positions(tx) <=> In(Stored, p)
  BY PositionsFacts
<1>4. \A p : p \in Positions(tx)' <=> In(Stored', p)
  BY DEF Positions
<1>5. \A i : i \in 1 .. Len(Stored') <=> i \in 1 .. Len(Stored) \/ i = Len(Stored) + 1
  BY <1>2
<1>6. \A p : In(Stored', p) <=>
               \/ In(Stored, p)
               \/ \E k \in 1 .. Len(newBlock.transfers) :
                    p = <<Len(Stored) + 1, k>> /\ newBlock.transfers[k] = tx
  BY <1>2, <1>5, Zenon
<1> HIDE DEF In
<1>7. tx \in Elements(newBlock.transfers) <=>
        \E k \in 1 .. Len(newBlock.transfers) : newBlock.transfers[k] = tx
  BY DEF Elements
<1>8. QED
  BY <1>3, <1>4, <1>6, <1>7

(* A block without repetitions adds at most one.                             *)
LEMMA PositionsCount ==
  ASSUME NEW tx, IInv, PutLastIndex, Distinct(newBlock.transfers), IsFiniteSet(Positions(tx))
  PROVE  /\ IsFiniteSet(Positions(tx)')
         /\ Cardinality(Positions(tx)') <= Cardinality(Positions(tx)) + 1
<1>1. Cardinality(Positions(tx)) \in Nat
  BY FS_CardinalityType
<1>2. CASE tx \notin Elements(newBlock.transfers)
  BY <1>1, <1>2, PositionsGrow
<1>3. CASE tx \in Elements(newBlock.transfers)
  <2>1. PICK k \in 1 .. Len(newBlock.transfers) : newBlock.transfers[k] = tx
    BY <1>3 DEF Elements
  <2> DEFINE added == <<Len(Stored) + 1, k>>
  <2>2. \A p \in Positions(tx)' \ Positions(tx) : p = added
    BY <2>1, PositionsGrow DEF Distinct
  <2> HIDE DEF added
  <2>3. /\ IsFiniteSet(Positions(tx) \cup {added})
        /\ Cardinality(Positions(tx) \cup {added}) \in
             {Cardinality(Positions(tx)), Cardinality(Positions(tx)) + 1}
    BY FS_AddElement
  <2>4. Positions(tx)' \in SUBSET (Positions(tx) \cup {added})
    BY <2>2
  <2>5. /\ IsFiniteSet(Positions(tx)')
        /\ Cardinality(Positions(tx)') <= Cardinality(Positions(tx) \cup {added})
    BY <2>3, <2>4, FS_Subset
  <2>6. Cardinality(Positions(tx)') \in Nat
    BY <2>5, FS_CardinalityType
  <2>7. QED
    BY <1>1, <2>3, <2>5, <2>6
<1>4. QED
  BY <1>2, <1>3

(* Nothing is stored after a wipe.                                           *)
LEMMA PositionsWiped ==
  ASSUME NEW tx, ClearAll
  PROVE  Positions(tx)' = {}
<1>1. lastIndex' = -1 /\ Stored' = ReadBlocks(blocks', -1)
  BY DEF ClearAll, Stored
<1>2. ReadBlocks(blocks', -1) \in Seq(Block) /\ Len(ReadBlocks(blocks', -1)) = 0
  BY ReadBlocksType
<1>3. Len(Stored') = 0
  BY <1>1, <1>2
<1>4. QED
  BY <1>3 DEF Positions

----------------------------------------------------------------------------
(* A transfer is executed once, and once more for each death. *)

(* Steps that store nothing and bring nothing ahead.                         *)
LEMMA OnceFrame ==
  ASSUME OnceKnown, Stored' = Stored, deaths' = deaths, submitted \subseteq submitted',
         program' = "mine" => left' <= 1,
         program' = "mine" /\ at' \in {"mining", "truncate", "write"} => left' = 0,
         \A tx \in Transfers : Ahead(tx)' => Cardinality(Positions(tx)) <= deaths
  PROVE  OnceKnown'
<1>1. \A tx : Positions(tx)' = Positions(tx)
  BY PositionsUnchanged
<1>2. QED
  BY <1>1 DEF OnceKnown

(* What is ahead of an unstored step is still what was ahead.                *)
LEMMA AheadKept ==
  ASSUME UNCHANGED <<file, seen, program, at>>, pc # "credit", pc' # "credit", NEW tx
  PROVE  Ahead(tx)' <=> Ahead(tx)
BY DEF Ahead, Done, LoadMempoolFromDisk

(* The ledger's own steps that store nothing.                                *)
LEMMA LedgerOnce ==
  ASSUME OnceKnown, UNCHANGED <<file, command, submitted, deaths>>,
         Stored' = Stored, pc # "credit", pc' # "credit"
  PROVE  OnceKnown'
<1>1. \A tx \in Transfers : Ahead(tx)' <=> Ahead(tx)
  BY AheadKept DEF command
<1>2. QED
  BY <1>1, OnceFrame DEF OnceKnown, command

(* The block that is stored was the file's, which is behind it from then on. *)
LEMMA StoreOnce ==
  ASSUME IInv, NodeIInv, RoundInv, OnceKnown, PutLastIndex, UNCHANGED nodeVars
  PROVE  OnceKnown'
<1>1. /\ pc = "index" /\ at \in {"mining", "read", "exit"} /\ program # "none"
      /\ UNCHANGED <<file, program, at, seen, left, submitted, deaths, newBlock>>
  BY DEF PutLastIndex, NodeIInv, NodeTypeOK, RoundInv, RoundKnown, nodeVars, command, history
<1>2. deaths \in Nat
  BY NodeAssumption DEF NodeIInv, NodeTypeOK
<1>3. SUFFICES ASSUME NEW tx \in Transfers
               PROVE  /\ IsFiniteSet(Positions(tx)')
                      /\ tx \notin submitted => Positions(tx)' = {}
                      /\ Cardinality(Positions(tx)') <= 1 + deaths
                      /\ Ahead(tx)' => Cardinality(Positions(tx)') <= deaths
  BY <1>1 DEF OnceKnown
<1>4. CASE at = "mining"
  <2>1. /\ pc' = "credit" /\ program \in Miners /\ newBlock.transfers = job.packed
        /\ Distinct(newBlock.transfers)
        /\ Elements(newBlock.transfers) \subseteq Elements(LoadMempoolFromDisk)
    BY <1>1, <1>4 DEF PutLastIndex, RoundInv, RoundKnown, BlockOfFile
  <2>2. ~Ahead(tx)'
    BY <1>1, <1>4, <2>1 DEF Ahead, Done, Miners
  <2>3. CASE tx \in Elements(newBlock.transfers)
    <3>1. ~Done
      BY <1>1, <1>4 DEF Done
    <3>2. /\ IsFiniteSet(Positions(tx)) /\ Cardinality(Positions(tx)) <= deaths
          /\ tx \in submitted
      BY <2>1, <2>3, <3>1 DEF OnceKnown, Ahead, NodeIInv, PendingSubmitted
    <3>3. /\ IsFiniteSet(Positions(tx)')
          /\ Cardinality(Positions(tx)') <= Cardinality(Positions(tx)) + 1
      BY <2>1, <3>2, PositionsCount
    <3>4. Cardinality(Positions(tx)) \in Nat /\ Cardinality(Positions(tx)') \in Nat
      BY <3>2, <3>3, FS_CardinalityType
    <3>5. QED
      BY <1>2, <2>2, <3>2, <3>3, <3>4
  <2>4. CASE tx \notin Elements(newBlock.transfers)
    <3>1. Positions(tx)' = Positions(tx)
      BY <2>4, PositionsGrow
    <3>2. QED
      BY <2>2, <3>1 DEF OnceKnown
  <2>5. QED
    BY <2>3, <2>4
<1>5. CASE at # "mining"
  <2>1. newBlock.transfers = <<>> /\ pc' = "ready"
    BY <1>1, <1>5 DEF PutLastIndex, RoundInv, RoundKnown
  <2>2. Positions(tx)' = Positions(tx)
    BY <2>1, ElementsFacts, PositionsGrow
  <2>3. Ahead(tx)' <=> Ahead(tx)
    BY <1>1, <2>1, AheadKept
  <2>4. QED
    BY <2>2, <2>3 DEF OnceKnown
<1>6. QED
  BY <1>4, <1>5

(* A wiped chain holds no transfer.                                          *)
LEMMA WipeOnce ==
  ASSUME NodeIInv, OnceKnown, ClearAll, UNCHANGED nodeVars
  PROVE  OnceKnown'
<1>1. \A tx : Positions(tx)' = {}
  BY PositionsWiped
<1>2. UNCHANGED <<program, at, left, submitted, deaths>>
  BY DEF nodeVars, command, history
<1>3. deaths \in Nat /\ IsFiniteSet({}) /\ Cardinality({}) = 0
  BY FS_EmptySet, NodeAssumption DEF NodeIInv, NodeTypeOK
<1>4. QED
  BY <1>1, <1>2, <1>3 DEF OnceKnown

(* A command brings at most one block with it.                               *)
LEMMA LaunchOnce ==
  ASSUME RoundInv, OnceKnown, BlockCounts \subseteq {0, 1},
         NEW command_ \in Programs, Launch(command_)
  PROVE  OnceKnown'
<1>1. /\ program = "none" /\ at' \in {"exit", "read"} /\ Stored' = Stored
      /\ UNCHANGED <<file, seen, submitted, deaths>>
      /\ program' = "mine" => left' \in BlockCounts
  BY StoredUnchanged DEF Launch, InitializeLedger, history
<1>2. at = "exit"
  BY <1>1 DEF RoundInv, RoundKnown
<1>3. \A tx \in Transfers : Ahead(tx)' => Ahead(tx)
  BY <1>1, <1>2 DEF Ahead, Done, LoadMempoolFromDisk, Miners
<1>4. /\ program' = "mine" => left' <= 1
      /\ at' \notin {"mining", "truncate", "write"}
  <2>1. program' = "mine" => left' \in {0, 1}
    BY <1>1
  <2>2. \A n \in {0, 1} : n <= 1
    OBVIOUS
  <2>3. QED
    BY <1>1, <2>1, <2>2
<1>5. \A tx \in Transfers : Ahead(tx)' => Cardinality(Positions(tx)) <= deaths
  BY <1>3 DEF OnceKnown
<1>6. QED
  BY <1>1, <1>4, <1>5, OnceFrame

(* The mining goroutine between the ledger's calls.                          *)
LEMMA MinerOnce ==
  ASSUME TypeOK, NodeIInv, RoundInv, OnceKnown,
         ReadPending \/ Install \/ CallMineBlock \/ ReturnFromMineBlock
  PROVE  OnceKnown'
<1>1. /\ Stored' = Stored
      /\ UNCHANGED <<file, program, submitted, deaths>>
  <2>1. UNCHANGED <<disk, file, program, submitted, deaths>>
    BY DEF ReadPending, Install, SetMempool, CallMineBlock, BeginMine, RejectMiner,
           ReturnFromMineBlock, CreditMiner, vars, disk, history
  <2>2. QED
    BY <2>1, StoredUnchanged
<1>2. LoadMempoolFromDisk' = LoadMempoolFromDisk
  BY <1>1 DEF LoadMempoolFromDisk
<1>3. /\ program' = "mine" => left' <= 1
      /\ program' = "mine" /\ at' \in {"mining", "truncate", "write"} => left' = 0
  <2>1. CASE ReadPending \/ Install
    BY <1>1, <2>1 DEF ReadPending, Install, AfterInstall, NextMine, OnceKnown
  <2>2. CASE CallMineBlock
    BY <1>1, <2>2 DEF CallMineBlock, OnceKnown, NodeIInv, NodeTypeOK, CommandKnown
  <2>3. CASE ReturnFromMineBlock
    BY <1>1, <2>3 DEF ReturnFromMineBlock, OnceKnown
  <2>4. QED
    BY <2>1, <2>2, <2>3
<1>4. program # "send"
  BY DEF ReadPending, Install, CallMineBlock, ReturnFromMineBlock, NodeIInv, CommandKnown,
         RoundInv, RoundKnown, Miners
<1>5. ASSUME NEW tx \in Transfers, Ahead(tx)' PROVE Ahead(tx)
  <2>1. tx \in Elements(LoadMempoolFromDisk) /\ ~Done'
    BY <1>1, <1>2, <1>4, <1>5 DEF Ahead
  <2>2. CASE ReadPending \/ Install \/ CallMineBlock
    <3>1. at \notin {"mining", "truncate", "write"}
      BY <2>2 DEF ReadPending, Install, CallMineBlock
    <3>2. QED
      BY <2>1, <3>1 DEF Ahead, Done
  <2>3. CASE ReturnFromMineBlock
    <3>1. at' = "truncate" /\ program \in Miners
      BY <2>3 DEF ReturnFromMineBlock, NextMine, OnceKnown, RoundInv, RoundKnown, Miners
    <3>2. QED
      BY <1>1, <2>1, <3>1 DEF Done
  <2>4. QED
    BY <2>2, <2>3
<1>6. QED
  BY <1>1, <1>3, <1>5, OnceFrame DEF OnceKnown

(* Only a new transfer comes into the file, by way of its sender.            *)
LEMMA FileOnce ==
  ASSUME NodeIInv, RoundInv, OnceKnown,
         TruncateFile \/ WriteFile \/ \E tx \in Transfers : ReadAndSign(tx)
  PROVE  OnceKnown'
<1>1. Stored' = Stored
  <2>1. UNCHANGED disk
    BY DEF TruncateFile, WriteFile, ReadAndSign, vars, disk
  <2>2. QED
    BY <2>1, StoredUnchanged
<1>2. /\ UNCHANGED <<program, left, deaths>> /\ submitted \subseteq submitted'
      /\ program = "mine" => at \in {"truncate", "write"}
  BY DEF TruncateFile, WriteFile, ReadAndSign, history
<1>3. /\ program' = "mine" => left' <= 1
      /\ program' = "mine" /\ at' \in {"mining", "truncate", "write"} => left' = 0
  BY <1>2 DEF OnceKnown
<1>4. ASSUME NEW tx \in Transfers, Ahead(tx)'
      PROVE  Cardinality(Positions(tx)) <= deaths
  <2>1. CASE TruncateFile
    <3>1. file' = <<>> /\ at = "truncate" /\ UNCHANGED <<seen, program>>
      BY <2>1 DEF TruncateFile
    <3>2. LoadMempoolFromDisk' = <<>>
      BY <3>1 DEF LoadMempoolFromDisk
    <3>3. Ahead(tx)
      BY <1>4, <3>1, <3>2, ElementsFacts DEF Ahead
    <3>4. QED
      BY <3>3 DEF OnceKnown
  <2>2. CASE WriteFile
    <3>1. /\ at = "write" /\ at' \in {"read", "exit"} /\ file = <<>> /\ seen' = <<>>
          /\ program # "send" => seen = <<>>
      BY <2>2 DEF WriteFile, RoundInv, ListsKnown
    <3>2. file' = seen
      BY <2>2, <3>1 DEF WriteFile, Overwritten
    <3>3. LoadMempoolFromDisk' \in {seen, <<>>}
      BY <3>2 DEF LoadMempoolFromDisk
    <3>4. tx \in Elements(seen)
      BY <1>4, <3>1, <3>3, ElementsFacts DEF Ahead
    <3>5. Ahead(tx)
      BY <3>1, <3>4, ElementsFacts DEF Ahead
    <3>6. QED
      BY <3>5 DEF OnceKnown
  <2>3. ASSUME NEW signed \in Transfers, ReadAndSign(signed)
        PROVE  Cardinality(Positions(tx)) <= deaths
    <3>1. /\ program = "send" /\ at = "read" /\ file' = file /\ signed \notin submitted
          /\ seen' = Append(LoadMempoolFromDisk, signed)
      BY <2>3 DEF ReadAndSign
    <3>2. LoadMempoolFromDisk \in Seq(Transfers)
      BY LoadedList DEF NodeIInv, NodeTypeOK, Lists
    <3>3. Elements(seen') = Elements(LoadMempoolFromDisk) \cup {signed}
      BY <3>1, <3>2, ElementsFacts
    <3>4. LoadMempoolFromDisk' = LoadMempoolFromDisk
      BY <3>1 DEF LoadMempoolFromDisk
    <3>5. tx \in Elements(LoadMempoolFromDisk) \/ tx = signed
      BY <1>4, <3>3, <3>4 DEF Ahead
    <3>6. CASE tx \in Elements(LoadMempoolFromDisk)
      <4>1. Ahead(tx)
        BY <3>1, <3>6 DEF Ahead, Done, Miners
      <4>2. QED
        BY <4>1 DEF OnceKnown
    <3>7. CASE tx = signed
      <4>1. Positions(tx) = {}
        BY <3>1, <3>7 DEF OnceKnown
      <4>2. Cardinality({}) = 0 /\ deaths \in Nat
        BY FS_EmptySet, NodeAssumption DEF NodeIInv, NodeTypeOK
      <4>3. QED
        BY <4>1, <4>2
    <3>8. QED
      BY <3>5, <3>6, <3>7
  <2>4. QED
    BY <2>1, <2>2, <2>3
<1>5. QED
  BY <1>1, <1>2, <1>3, <1>4, OnceFrame

(* A command that ends of itself leaves nothing ahead that was done; one     *)
(* that is killed may, and it is counted.                                    *)
LEMMA DieOnce ==
  ASSUME NodeIInv, RoundInv, OnceKnown, Exit \/ Panic \/ DieEarly
  PROVE  OnceKnown'
<1>1. /\ program' = "none" /\ at' = "exit" /\ Stored' = Stored /\ submitted' = submitted
      /\ file' = file
  BY StoredUnchanged DEF Exit, Panic, DieEarly, Die, Stop, history
<1>2. CASE Exit \/ Panic
  <2>1. deaths' = deaths /\ ~Done
    BY <1>2 DEF Exit, Panic, Done, history, RoundInv, RoundKnown
  <2>2. \A tx : Ahead(tx)' => Ahead(tx)
    BY <1>1, <2>1 DEF Ahead, LoadMempoolFromDisk
  <2>3. \A tx \in Transfers : Ahead(tx)' => Cardinality(Positions(tx)) <= deaths
    BY <2>2 DEF OnceKnown
  <2>4. QED
    BY <1>1, <2>1, <2>3, OnceFrame
<1>3. CASE DieEarly
  <2>1. deaths' = deaths + 1 /\ deaths \in Nat
    BY <1>3, NodeAssumption DEF DieEarly, NodeIInv, NodeTypeOK
  <2>2. SUFFICES ASSUME NEW tx \in Transfers
                 PROVE  /\ IsFiniteSet(Positions(tx)')
                        /\ tx \notin submitted => Positions(tx)' = {}
                        /\ Cardinality(Positions(tx)') <= 1 + deaths'
                        /\ Cardinality(Positions(tx)') <= deaths'
    BY <1>1 DEF OnceKnown
  <2>3. Positions(tx)' = Positions(tx)
    BY <1>1, PositionsUnchanged
  <2>4. /\ IsFiniteSet(Positions(tx)) /\ Cardinality(Positions(tx)) <= 1 + deaths
        /\ tx \notin submitted => Positions(tx) = {}
    BY DEF OnceKnown
  <2>5. Cardinality(Positions(tx)) \in Nat
    BY <2>4, FS_CardinalityType
  <2>6. QED
    BY <2>1, <2>3, <2>4, <2>5
<1>4. QED
  BY <1>2, <1>3

(* Every step of a node without peers.                                       *)
LEMMA OnceKnownStep ==
  ASSUME Connections = {}, BlockCounts \subseteq {0, 1},
         IInv, NodeIInv, RoundInv, OnceKnown, [NodeNext]_allVars
  PROVE  OnceKnown'
<1>1. CASE UNCHANGED allVars
  <2>1. UNCHANGED <<disk, file, program, at, seen, left, submitted, deaths, pc>>
    BY <1>1 DEF allVars, vars, disk, nodeVars, command, history
  <2>2. Stored' = Stored
    BY <2>1, StoredUnchanged
  <2>3. \A tx : Ahead(tx)' => Ahead(tx)
    BY <2>1 DEF Ahead, Done, LoadMempoolFromDisk
  <2>4. \A tx \in Transfers : Ahead(tx)' => Cardinality(Positions(tx)) <= deaths
    BY <2>3 DEF OnceKnown
  <2>5. /\ program' = "mine" => left' <= 1
        /\ program' = "mine" /\ at' \in {"mining", "truncate", "write"} => left' = 0
    BY <2>1 DEF OnceKnown
  <2>6. QED
    BY <2>1, <2>2, <2>4, <2>5, OnceFrame
<1>2. CASE LedgerStep
  <2>1. CASE ClearAll
    BY <1>2, <2>1, WipeOnce DEF LedgerStep
  <2>2. CASE PutLastIndex
    BY <1>2, <2>2, StoreOnce DEF LedgerStep
  <2>3. CASE ~ClearAll /\ ~PutLastIndex
    <3>1. /\ pc # "credit" /\ pc' # "credit" /\ UNCHANGED nodeVars
          /\ UNCHANGED disk \/ PutBlock
      BY <1>2, <2>3 DEF LedgerStep, SpawnGenesis, RebuildTransfer, RebuildReward,
                        VerifyConsensusIntegrity, PackTransfer, EndSelect, AssembleBlock,
                        FindBlock, AppendBlock, PutBlock
    <3>2. Stored' = Stored
      BY <3>1, StoredUnchanged, PutBlockStep
    <3>3. QED
      BY <3>1, <3>2, LedgerOnce DEF nodeVars, history
  <2>4. QED
    BY <2>1, <2>2, <2>3
<1>3. CASE ReportRejection
  <2>1. /\ pc = "select" /\ pc' = "select" /\ UNCHANGED disk
        /\ UNCHANGED <<file, command, submitted, deaths>>
    BY <1>3 DEF ReportRejection, SkipTransfer
  <2>2. QED
    BY <2>1, StoredUnchanged, LedgerOnce
<1>4. CASE \E command_ \in Programs : Launch(command_)
  BY <1>4, LaunchOnce
<1>5. CASE ReadPending \/ Install \/ CallMineBlock \/ ReturnFromMineBlock
  BY <1>5, MinerOnce DEF IInv
<1>6. CASE TruncateFile \/ WriteFile \/ \E tx \in Transfers : ReadAndSign(tx)
  BY <1>6, FileOnce
<1>7. CASE Exit \/ Panic \/ Kill
  BY <1>7, DieOnce DEF Kill
<1>8. QED
  BY <1>1, <1>2, <1>3, <1>4, <1>5, <1>6, <1>7, StepsAlone DEF Main

(* Nothing is stored at the start.                                           *)
LEMMA OnceKnownInit ==
  ASSUME NodeInit
  PROVE  OnceKnown
<1>1. program = "none" /\ deaths = 0 /\ Init
  BY DEF NodeInit
<1>2. Stored = <<>>
  BY <1>1, IInvInit, StoredFacts DEF Init, IInv
<1>3. \A tx : Positions(tx) = {}
  BY <1>2 DEF Positions
<1>4. IsFiniteSet({}) /\ Cardinality({}) = 0
  BY FS_EmptySet
<1>5. QED
  BY <1>1, <1>3, <1>4 DEF OnceKnown

(* The invariants of ledger, node and round together.                        *)
LEMMA RoundInvariant ==
  ASSUME AnyMempool, Connections = {}
  PROVE  NodeSpec => [](IInv /\ NodeIInv /\ RoundInv)
<1>1. NodeSpec => []IInv
  BY NodeImplementsLedger, LedgerInvariant, PTL DEF ImplementsLedger
<1>2. NodeInit => NodeIInv /\ RoundInv
  BY NodeIInvInit, RoundInvInit
<1>3. TypeOK /\ NodeIInv /\ [NodeNext]_allVars => NodeIInv'
  BY NodeIInvStep
<1>4. IInv => TypeOK
  BY DEF IInv
<1>5. IInv /\ IInv' /\ NodeIInv /\ RoundInv /\ [NodeNext]_allVars => RoundInv'
  BY RoundInvStep
<1>6. QED
  BY <1>1, <1>2, <1>3, <1>4, <1>5, PTL DEF NodeSpec

(* While no peer is connected and `mine` is asked for at most one block, no  *)
(* transfer is executed twice, but for what each death leaves in the file.   *)
THEOREM NodeExecutesOnce ==
  ASSUME AnyMempool, Connections = {}, BlockCounts \subseteq {0, 1}
  PROVE  NodeSpec => []ExecutedOncePerDeath
<1>1. NodeSpec => [](IInv /\ NodeIInv /\ RoundInv)
  BY RoundInvariant
<1>2. NodeInit => OnceKnown
  BY OnceKnownInit
<1>3. IInv /\ NodeIInv /\ RoundInv /\ OnceKnown /\ [NodeNext]_allVars => OnceKnown'
  BY OnceKnownStep
<1>4. OnceKnown => ExecutedOncePerDeath
  BY DEF OnceKnown, ExecutedOncePerDeath
<1>5. QED
  BY <1>1, <1>2, <1>3, <1>4, PTL DEF NodeSpec

----------------------------------------------------------------------------
(* No pending transfer is lost. *)

(* Every set of pending transfers fits a block, by the miner's estimate.     *)
AllFit ==
  \A list \in Seq(Transfers) :
    Distinct(list) => BlockAllowance + TransfersSize(list) <= MaxBlockSizeBytes

(* What is settled stays so, as the chain only grows.                        *)
LEMMA SettledStays ==
  ASSUME Stored' = Stored, rejected \subseteq rejected', NEW tx, Settled(tx)
  PROVE  Settled(tx)'
BY PositionsUnchanged DEF Settled

(* Steps that leave file and chain as they are.                              *)
LEMMA PendingFrame ==
  ASSUME PendingKnown, UNCHANGED <<Stored, params, file, filed>>, rejected \subseteq rejected',
         UNCHANGED <<program, at, seen>> \/ at # "write",
         program' = "mine" /\ at' \in {"read", "install", "mine"} => left' > 0,
         \A tx \in Elements(LoadMempoolFromDisk) : Carried(tx)'
  PROVE  PendingKnown'
<1>1. LoadMempoolFromDisk' = LoadMempoolFromDisk
  BY DEF LoadMempoolFromDisk
<1>2. ASSUME NEW tx \in filed PROVE Waiting(tx)'
  <2>1. CASE Settled(tx)
    BY <2>1, SettledStays DEF Waiting
  <2>2. CASE ~Settled(tx)
    BY <1>1, <2>2 DEF PendingKnown, Waiting
  <2>3. QED
    BY <2>1, <2>2
<1>3. Stored' # <<>> => SameGenesisPolicy(params', Stored'[1])
  BY DEF PendingKnown
<1>4. QED
  BY <1>1, <1>2, <1>3 DEF PendingKnown

(* Between two rounds nothing is under way.                                  *)
LEMMA NothingCarried ==
  ASSUME at \in {"read", "install", "exit"}, NEW tx
  PROVE  Carried(tx)
BY DEF Carried, Done

(* The selection leaves no transfer of the file out: it is packed, or        *)
(* reported, and all of them fit.                                            *)
LEMMA SelectPending ==
  ASSUME AllFit, TypeOK, OwnBlockKnown, NodeIInv, RoundInv, PendingKnown,
         ((PackTransfer \/ EndSelect) /\ UNCHANGED nodeVars) \/ ReportRejection
  PROVE  PendingKnown'
<1>1. /\ pc = "select" /\ at = "mining" /\ UNCHANGED <<disk, params, file, filed, command>>
      /\ UNCHANGED <<at, program, seen, left>> /\ rejected \subseteq rejected'
  BY DEF PackTransfer, EndSelect, ReportRejection, SkipTransfer, nodeVars, command, history,
         NodeIInv, NodeTypeOK, RoundInv, RoundKnown
<1>2. /\ mempool \in Seq(Transfers) /\ job \in Job
      /\ job.packed \in Seq(Transfers) /\ job.next \in Nat \ {0}
  BY DEF TypeOK, Job
<1>3. Stored' = Stored
  BY <1>1, StoredUnchanged
<1>4. ~Done /\ (pc' # "credit" => ~Done')
  BY <1>1 DEF Done
<1>5. ASSUME NEW tx \in Elements(LoadMempoolFromDisk) PROVE Carried(tx)'
  <2>1. CASE Settled(tx)
    BY <1>3, <1>1, <2>1, SettledStays DEF Carried
  <2>2. CASE ~Settled(tx)
    <3>1. \/ tx \in Elements(job.packed)
          \/ \E i \in job.next .. Len(mempool) : mempool[i] = tx
      BY <1>1, <2>2 DEF PendingKnown, Carried
    <3>2. CASE PackTransfer
      <4> DEFINE first == mempool[job.next]
      <4>1. /\ mempool' = mempool /\ job.next \in 1 .. Len(mempool) /\ pc' = "select"
            /\ job' = [job EXCEPT !.next = @ + 1, !.packed = Append(@, first),
                                  !.fees = AddWord(@, first.fee), !.bytes = @ + first.size]
        BY <1>2, <3>2 DEF PackTransfer, Considered
      <4>2. first \in Transfers
        BY <1>2, <4>1
      <4>3. \A i \in job.next .. Len(mempool) : i = job.next \/ i \in job.next + 1 .. Len(mempool)
        BY <1>2
      <4>4. mempool[job.next] = first
        OBVIOUS
      <4> HIDE DEF first
      <4>5. job'.next = job.next + 1 /\ job'.packed = Append(job.packed, first)
        BY <1>2, <4>1 DEF Job
      <4>6. Elements(job'.packed) = Elements(job.packed) \cup {first}
        BY <1>2, <4>2, <4>5, ElementsFacts
      <4>7. \/ tx \in Elements(job'.packed)
            \/ \E i \in job'.next .. Len(mempool') : mempool'[i] = tx
        BY <3>1, <4>1, <4>3, <4>4, <4>5, <4>6
      <4>8. QED
        BY <1>1, <1>4, <4>1, <4>7 DEF Carried
    <3>3. CASE ReportRejection
      <4>1. /\ mempool' = mempool /\ job.next \in 1 .. Len(mempool) /\ pc' = "select"
            /\ job'.next = job.next + 1 /\ job'.packed = job.packed
            /\ rejected' = rejected \cup {mempool[job.next]}
        BY <1>2, <3>3 DEF ReportRejection, SkipTransfer, Considered, Job
      <4>2. \A i \in job.next .. Len(mempool) : i = job.next \/ i \in job.next + 1 .. Len(mempool)
        BY <1>2
      <4>3. \/ tx \in Elements(job'.packed) \/ tx \in rejected'
            \/ \E i \in job'.next .. Len(mempool') : mempool'[i] = tx
        BY <3>1, <4>1, <4>2
      <4>4. QED
        BY <1>1, <1>4, <4>1, <4>3 DEF Carried, Settled
    <3>4. CASE EndSelect
      <4>1. pc' = "assemble" /\ job' = job /\ ~Considered
        BY <3>4 DEF EndSelect
      <4>2. job.next > Len(mempool)
        <5>1. SUFFICES ASSUME job.next <= Len(mempool) PROVE FALSE
          BY <1>2
        <5> DEFINE first == mempool[job.next]
        <5>2. first \in Transfers /\ first \notin Elements(job.packed)
          BY <1>1, <1>2, <5>1 DEF RoundInv, BlockOfFile
        <5>3. job.bytes + first.size > MaxBlockSizeBytes
          <6>1. job.bytes + first.size \in Nat /\ MaxBlockSizeBytes \in Nat
            BY <1>2, <5>2, TransferFields, SizeAssumption DEF Job
          <6>2. QED
            BY <4>1, <5>1, <6>1 DEF Considered
        <5> HIDE DEF first
        <5>4. job.bytes = BlockAllowance + TransfersSize(job.packed)
          BY <1>1 DEF OwnBlockKnown
        <5>5. /\ TransfersSize(Append(job.packed, first)) = TransfersSize(job.packed) + first.size
              /\ TransfersSize(job.packed) \in Nat /\ first.size \in Nat
          BY <1>2, <5>2, SizeFacts, TransferFields
        <5>6. /\ Distinct(Append(job.packed, first))
              /\ Append(job.packed, first) \in Seq(Transfers)
          BY <1>1, <1>2, <5>2, DistinctFacts DEF RoundInv, BlockOfFile
        <5>7. BlockAllowance + TransfersSize(Append(job.packed, first)) <= MaxBlockSizeBytes
          BY <5>6 DEF AllFit
        <5>8. QED
          BY <5>3, <5>4, <5>5, <5>7, LedgerAssumption, SizeAssumption
      <4>3. tx \in Elements(job.packed)
        BY <1>2, <3>1, <4>2
      <4>4. QED
        BY <1>1, <1>4, <4>1, <4>3 DEF Carried
    <3>5. QED
      BY <3>2, <3>3, <3>4
  <2>3. QED
    BY <2>1, <2>2
<1>6. program' = "mine" /\ at' \in {"read", "install", "mine"} => left' > 0
  BY <1>1
<1>7. QED
  BY <1>1, <1>3, <1>5, <1>6, PendingFrame

(* From the selection to the disk the block keeps what was packed; loading   *)
(* carries nothing.                                                          *)
LEMMA LedgerPending ==
  ASSUME IInv, NodeIInv, RoundInv, PendingKnown, LedgerStep,
         ~ClearAll, ~PutLastIndex, ~PackTransfer, ~EndSelect
  PROVE  PendingKnown'
<1>1. /\ UNCHANGED nodeVars
      /\ UNCHANGED disk \/ PutBlock
      /\ \/ pc \in {"spawn", "rebuild", "verify"} /\ pc' \in {"save", "rebuild", "verify", "ready", "panic"}
         \/ /\ pc \in {"assemble", "mining", "commit", "save"}
            /\ pc' \in {"mining", "commit", "save", "index", "panic"}
      /\ params' = params
  BY DEF LedgerStep, SpawnGenesis, RebuildTransfer, RebuildReward, VerifyConsensusIntegrity,
         AssembleBlock, FindBlock, AppendBlock, PutBlock
<1>2. Stored' = Stored
  BY <1>1, StoredUnchanged, PutBlockStep
<1>3. UNCHANGED <<file, filed, rejected, program, at, seen, left>>
  BY <1>1 DEF nodeVars, command, history
<1>4. job'.packed = job.packed
  <2>1. CASE AssembleBlock
    BY <2>1 DEF AssembleBlock, IInv, TypeOK, Job
  <2>2. CASE ~AssembleBlock
    <3>1. job' = job
      BY <2>2 DEF LedgerStep, SpawnGenesis, RebuildTransfer, RebuildReward,
                  VerifyConsensusIntegrity, FindBlock, AppendBlock, PutBlock
    <3>2. QED
      BY <3>1
  <2>3. QED
    BY <2>1, <2>2
<1>5. ASSUME NEW tx \in Elements(LoadMempoolFromDisk) PROVE Carried(tx)'
  <2>1. at \notin {"mine", "truncate", "write"} /\ (at = "mining" => pc \in {"assemble", "mining", "commit", "save"})
    BY <1>1 DEF RoundInv, RoundKnown
  <2>2. ~Done'
    BY <1>1, <1>3, <2>1 DEF Done
  <2>3. CASE at = "mining"
    <3>1. Settled(tx) \/ tx \in Elements(job.packed)
      BY <2>1, <2>3 DEF PendingKnown, Carried
    <3>2. Settled(tx)' \/ tx \in Elements(job.packed)
      BY <1>2, <1>3, <3>1, SettledStays
    <3>3. pc' # "select"
      BY <1>1
    <3>4. QED
      BY <1>3, <1>4, <2>2, <2>3, <3>2, <3>3 DEF Carried
  <2>4. CASE at # "mining"
    BY <1>3, <2>1, <2>2, <2>4 DEF Carried
  <2>5. QED
    BY <2>3, <2>4
<1>6. program' = "mine" /\ at' \in {"read", "install", "mine"} => left' > 0
  BY <1>3 DEF PendingKnown
<1>7. QED
  BY <1>1, <1>2, <1>3, <1>5, <1>6, PendingFrame

(* The block that is stored settles what was packed.                         *)
LEMMA StorePending ==
  ASSUME IInv, IInv', NodeIInv, RoundInv, PendingKnown, PutLastIndex, UNCHANGED nodeVars
  PROVE  PendingKnown'
<1>1. /\ pc = "index" /\ pc' \in {"ready", "credit"} /\ UNCHANGED <<file, filed, rejected, program, at, seen, left>>
      /\ at \in {"mining", "read", "exit"}
  BY DEF PutLastIndex, nodeVars, command, history, NodeIInv, NodeTypeOK, RoundInv, RoundKnown
<1>2. Stored' # <<>> => SameGenesisPolicy(params', Stored'[1])
  BY <1>1 DEF IInv, PolicyKnown, Loaded
<1>3. \A tx : Settled(tx) => Settled(tx)'
  BY <1>1, PositionsGrow DEF Settled
<1>4. LoadMempoolFromDisk' = LoadMempoolFromDisk
  BY <1>1 DEF LoadMempoolFromDisk
<1>5. ASSUME NEW tx \in Elements(LoadMempoolFromDisk) PROVE Carried(tx)'
  <2>1. CASE at = "mining"
    <3>1. newBlock.transfers = job.packed /\ pc' = "credit"
      BY <1>1, <2>1 DEF RoundInv, BlockOfFile, RoundKnown, PutLastIndex
    <3>2. Settled(tx) \/ tx \in Elements(newBlock.transfers)
      BY <1>1, <2>1, <3>1 DEF PendingKnown, Carried
    <3>3. Settled(tx)'
      BY <1>3, <3>2, PositionsGrow DEF Settled
    <3>4. QED
      BY <3>3 DEF Carried
  <2>2. CASE at # "mining"
    BY <1>1, <2>2 DEF Carried, Done
  <2>3. QED
    BY <2>1, <2>2
<1>6. \A tx \in filed : Waiting(tx)'
  BY <1>1, <1>3, <1>4 DEF PendingKnown, Waiting
<1>7. QED
  BY <1>1, <1>2, <1>4, <1>5, <1>6 DEF PendingKnown

(* A command starts with blocks to mine, or without mining.                  *)
LEMMA LaunchPending ==
  ASSUME RoundInv, PendingKnown, 0 \notin BlockCounts,
         NEW command_ \in Programs, Launch(command_)
  PROVE  PendingKnown'
<1>1. /\ program = "none" /\ at' \in {"exit", "read"} /\ UNCHANGED <<disk, params>>
      /\ UNCHANGED <<file, filed, rejected>>
      /\ program' = "mine" => left' \in BlockCounts
  BY DEF Launch, InitializeLedger, history
<1>2. Stored' = Stored /\ at = "exit"
  BY <1>1, StoredUnchanged DEF RoundInv, RoundKnown
<1>3. program' = "mine" /\ at' \in {"read", "install", "mine"} => left' > 0
  <2>1. SUFFICES ASSUME program' = "mine" PROVE left' > 0
    OBVIOUS
  <2>2. left' \in BlockCounts /\ BlockCounts \subseteq Nat
    BY <1>1, <2>1, NodeAssumption
  <2>3. left' \in Nat /\ left' # 0
    BY <2>2
  <2>4. QED
    BY <2>3
<1>4. \A tx \in Elements(LoadMempoolFromDisk) : Carried(tx)'
  BY <1>1 DEF Carried, Done
<1>5. UNCHANGED <<Stored, params, file, filed>> /\ rejected \subseteq rejected' /\ at # "write"
  BY <1>1, <1>2
<1>6. QED
  BY <1>3, <1>4, <1>5, PendingFrame

(* The mining goroutine reads all of the file, hands it to MineBlock, and    *)
(* empties the file only after a block.                                      *)
LEMMA MinerPending ==
  ASSUME TypeOK, NodeIInv, RoundInv, PendingKnown,
         ReadPending \/ Install \/ CallMineBlock \/ ReturnFromMineBlock
  PROVE  PendingKnown'
<1>1. /\ UNCHANGED <<disk, params>>
      /\ UNCHANGED <<file, program, filed, rejected>> /\ at # "write"
  BY DEF ReadPending, Install, SetMempool, CallMineBlock, BeginMine, RejectMiner,
         ReturnFromMineBlock, CreditMiner, vars, disk, history
<1>2. Stored' = Stored /\ LoadMempoolFromDisk' = LoadMempoolFromDisk
  BY <1>1, StoredUnchanged DEF LoadMempoolFromDisk
<1>3. LoadMempoolFromDisk \in Seq(Transfers) /\ left \in Nat
  BY LoadedList DEF NodeIInv, NodeTypeOK, Lists
<1>4. program' = "mine" /\ at' \in {"read", "install", "mine"} => left' > 0
  <2>1. CASE ReadPending \/ Install
    BY <1>1, <2>1 DEF ReadPending, Install, PendingKnown
  <2>2. CASE CallMineBlock
    BY <2>2 DEF CallMineBlock
  <2>3. CASE ReturnFromMineBlock
    BY <1>1, <1>3, <2>3 DEF ReturnFromMineBlock, NextMine
  <2>4. QED
    BY <2>1, <2>2, <2>3
<1>5. ASSUME NEW tx \in Elements(LoadMempoolFromDisk) PROVE Carried(tx)'
  <2>1. CASE ReadPending
    <3>1. Len(LoadMempoolFromDisk) > 0
      BY <1>3 DEF Elements
    <3>2. at' = "install"
      BY <2>1, <3>1 DEF ReadPending
    <3>3. QED
      BY <3>2 DEF Carried, Done
  <2>2. CASE Install
    <3>1. mempool' = LoadMempoolFromDisk /\ at = "install"
      BY <2>2 DEF Install, SetMempool, RoundInv, ListsKnown
    <3>2. at' \in {"mine", "exit"}
      BY <2>2, <3>1 DEF Install, AfterInstall, NextMine, PendingKnown, NodeIInv, CommandKnown
    <3>3. QED
      BY <3>1, <3>2 DEF Carried, Done
  <2>3. CASE CallMineBlock
    <3>1. at = "mine" /\ at' = "mining" /\ pc' \in {"select", "panic"} /\ mempool' = mempool
      BY <2>3 DEF CallMineBlock, BeginMine, RejectMiner
    <3>2. Settled(tx) \/ tx \in Elements(mempool)
      BY <3>1 DEF PendingKnown, Carried
    <3>3. ~Done' /\ (Settled(tx) => Settled(tx)')
      BY <1>1, <1>2, <3>1, SettledStays DEF Done
    <3>4. pc' = "select" => job'.next = 1
      BY <2>3 DEF CallMineBlock, BeginMine, RejectMiner, NoJob
    <3>5. tx \in Elements(mempool) => \E i \in 1 .. Len(mempool) : mempool[i] = tx
      BY DEF Elements
    <3>6. QED
      BY <3>1, <3>2, <3>3, <3>4, <3>5 DEF Carried
  <2>4. CASE ReturnFromMineBlock
    <3>1. Done
      BY <2>4 DEF ReturnFromMineBlock, CreditMiner, Done, RoundInv, RoundKnown
    <3>2. Settled(tx)
      BY <3>1 DEF PendingKnown, Carried
    <3>3. Settled(tx)'
      BY <1>1, <1>2, <3>2, SettledStays
    <3>4. QED
      BY <3>3 DEF Carried
  <2>5. QED
    BY <2>1, <2>2, <2>3, <2>4
<1>6. QED
  BY <1>1, <1>2, <1>4, <1>5, PendingFrame

(* What is cut off the file is settled, or in the sender's hands.            *)
LEMMA FilePending ==
  ASSUME NodeIInv, RoundInv, PendingKnown,
         TruncateFile \/ WriteFile \/ \E tx \in Transfers : ReadAndSign(tx)
  PROVE  PendingKnown'
<1>1. /\ UNCHANGED <<disk, params>> /\ UNCHANGED <<program, left, rejected>>
  BY DEF TruncateFile, WriteFile, ReadAndSign, vars, disk, history
<1>2. Stored' = Stored
  BY <1>1, StoredUnchanged
<1>3. \A tx : Settled(tx) => Settled(tx)'
  BY <1>1, <1>2, SettledStays
<1>4. Stored' # <<>> => SameGenesisPolicy(params', Stored'[1])
  BY <1>1, <1>2 DEF PendingKnown
<1>5. CASE TruncateFile
  <2>1. /\ file' = <<>> /\ at = "truncate" /\ at' = "write" /\ UNCHANGED <<seen, filed>>
    BY <1>5 DEF TruncateFile, history
  <2>2. LoadMempoolFromDisk' = <<>> /\ Elements(<<>>) = {}
    BY <2>1, ElementsFacts DEF LoadMempoolFromDisk
  <2>3. ASSUME NEW tx \in filed PROVE Waiting(tx)'
    <3>1. Settled(tx) \/ tx \in Elements(LoadMempoolFromDisk)
      BY <2>1 DEF PendingKnown, Waiting
    <3>2. CASE program = "send"
      BY <1>1, <1>3, <2>1, <3>1, <3>2 DEF Waiting, RoundInv, ListsKnown
    <3>3. CASE program # "send"
      <4>1. Done
        BY <2>1, <3>3 DEF Done, RoundInv, RoundKnown
      <4>2. Settled(tx)
        BY <3>1, <4>1 DEF PendingKnown, Carried
      <4>3. QED
        BY <1>3, <4>2 DEF Waiting
    <3>4. QED
      BY <3>2, <3>3
  <2>4. QED
    BY <1>4, <2>1, <2>2, <2>3 DEF PendingKnown
<1>6. CASE WriteFile
  <2>1. /\ at = "write" /\ at' \in {"read", "exit"} /\ file = <<>>
        /\ program = "mine" => at' = "exit"
        /\ filed' = filed \cup Elements(seen) /\ seen \in Seq(Transfers)
    BY <1>6 DEF WriteFile, RoundInv, ListsKnown, NodeIInv, NodeTypeOK
  <2>2. file' = seen
    BY <1>6, <2>1 DEF WriteFile, Overwritten
  <2>3. LoadMempoolFromDisk' = seen
    BY <2>1, <2>2, NodeAssumption DEF LoadMempoolFromDisk
  <2>4. Elements(LoadMempoolFromDisk) = {}
    BY <2>1, ElementsFacts DEF LoadMempoolFromDisk
  <2>5. \A tx \in filed' : Waiting(tx)'
    BY <1>3, <2>1, <2>3, <2>4 DEF PendingKnown, Waiting
  <2>6. \A tx : Carried(tx)'
    BY <2>1 DEF Carried, Done
  <2>7. QED
    BY <1>1, <1>4, <2>1, <2>5, <2>6 DEF PendingKnown
<1>7. ASSUME NEW signed \in Transfers, ReadAndSign(signed) PROVE PendingKnown'
  <2>1. /\ program = "send" /\ at = "read" /\ at' = "truncate" /\ UNCHANGED <<file, filed>>
    BY <1>7 DEF ReadAndSign
  <2>2. \A tx : Carried(tx)'
    BY <1>1, <2>1 DEF Carried, Done, Miners
  <2>3. QED
    BY <1>1, <1>2, <2>1, <2>2, PendingFrame
<1>8. QED
  BY <1>5, <1>6, <1>7

(* Wherever a command ends, but between truncation and write, the file still *)
(* holds what is not settled.                                                *)
LEMMA DiePending ==
  ASSUME RoundInv, PendingKnown, DeathDuringWrite = FALSE, Exit \/ Panic \/ DieEarly
  PROVE  PendingKnown'
<1>1. /\ program' = "none" /\ at' = "exit" /\ UNCHANGED <<disk, params>>
      /\ UNCHANGED <<file, filed, rejected>>
  BY DEF Exit, Panic, DieEarly, Die, Stop, history
<1>2. at # "write"
  BY DEF Exit, Panic, DieEarly, Writing, RoundInv, RoundKnown
<1>3. UNCHANGED <<Stored, params, file, filed>> /\ rejected \subseteq rejected'
  BY <1>1, StoredUnchanged
<1>4. \A tx \in Elements(LoadMempoolFromDisk) : Carried(tx)'
  BY <1>1 DEF Carried, Done
<1>5. QED
  BY <1>1, <1>2, <1>3, <1>4, PendingFrame

(* Every step of a node without peers.                                       *)
LEMMA PendingKnownStep ==
  ASSUME Connections = {}, 0 \notin BlockCounts, DeathDuringWrite = FALSE, AllFit,
         IInv, IInv', OwnBlockKnown, NodeIInv, RoundInv, PendingKnown, [NodeNext]_allVars
  PROVE  PendingKnown'
<1>1. CASE UNCHANGED allVars
  <2>1. /\ UNCHANGED <<disk, params, job, mempool, pc>>
        /\ UNCHANGED <<file, filed, rejected, program, at, seen, left>>
    BY <1>1 DEF allVars, vars, disk, nodeVars, command, history
  <2>2. UNCHANGED <<Stored, params, file, filed>>
    BY <2>1, StoredUnchanged
  <2>3. ASSUME NEW tx \in Elements(LoadMempoolFromDisk) PROVE Carried(tx)'
    <3>1. Settled(tx) => Settled(tx)'
      BY <2>1, <2>2, SettledStays
    <3>2. QED
      BY <2>1, <3>1 DEF PendingKnown, Carried, Done
  <2>4. program' = "mine" /\ at' \in {"read", "install", "mine"} => left' > 0
    BY <2>1 DEF PendingKnown
  <2>5. QED
    BY <2>1, <2>2, <2>3, <2>4, PendingFrame
<1>2. CASE LedgerStep
  <2>1. ~ClearAll
    BY DEF ClearAll, IInv, PolicyKnown, PendingKnown
  <2>2. CASE PackTransfer \/ EndSelect
    BY <1>2, <2>2, SelectPending DEF LedgerStep, IInv
  <2>3. CASE PutLastIndex
    BY <1>2, <2>3, StorePending DEF LedgerStep
  <2>4. CASE ~PutLastIndex /\ ~PackTransfer /\ ~EndSelect
    BY <1>2, <2>1, <2>4, LedgerPending
  <2>5. QED
    BY <2>2, <2>3, <2>4
<1>3. CASE ReportRejection
  BY <1>3, SelectPending DEF IInv
<1>4. CASE \E command_ \in Programs : Launch(command_)
  BY <1>4, LaunchPending
<1>5. CASE ReadPending \/ Install \/ CallMineBlock \/ ReturnFromMineBlock
  BY <1>5, MinerPending DEF IInv
<1>6. CASE TruncateFile \/ WriteFile \/ \E tx \in Transfers : ReadAndSign(tx)
  BY <1>6, FilePending
<1>7. CASE Exit \/ Panic \/ Kill
  BY <1>7, DiePending DEF Kill
<1>8. QED
  BY <1>1, <1>2, <1>3, <1>4, <1>5, <1>6, <1>7, StepsAlone DEF Main

(* Nothing is filed at the start.                                            *)
LEMMA PendingKnownInit ==
  ASSUME NodeInit
  PROVE  PendingKnown
<1>1. /\ program = "none" /\ filed = {} /\ file = <<>> /\ Init
  BY DEF NodeInit
<1>2. Stored = <<>>
  BY <1>1, IInvInit, StoredFacts DEF Init, IInv
<1>3. Elements(LoadMempoolFromDisk) = {}
  BY <1>1, ElementsFacts DEF LoadMempoolFromDisk
<1>4. QED
  BY <1>1, <1>2, <1>3 DEF PendingKnown

(* While no peer is connected, `mine` is asked for at least one block, the   *)
(* process does not die between truncation and write, and all that is        *)
(* pending fits a block, no transfer that was promised is lost.              *)
THEOREM NodeKeepsPending ==
  ASSUME AnyMempool, Connections = {}, 0 \notin BlockCounts, DeathDuringWrite = FALSE, AllFit
  PROVE  NodeSpec => []PendingKept
<1>1. NodeSpec => [](IInv /\ NodeIInv /\ RoundInv)
  BY RoundInvariant
<1>2. NodeSpec => []OwnBlockKnown
  BY NodeImplementsLedger, OwnBlockInvariant, PTL DEF ImplementsLedger
<1>3. NodeInit => PendingKnown
  BY PendingKnownInit
<1>4. /\ IInv /\ IInv' /\ OwnBlockKnown /\ NodeIInv /\ RoundInv /\ PendingKnown
      /\ [NodeNext]_allVars
      => PendingKnown'
  BY PendingKnownStep
<1>5. PendingKnown => PendingKept
  <2>1. SUFFICES ASSUME PendingKnown, NEW tx \in filed \ rejected
                 PROVE  \/ tx \in Elements(LoadMempoolFromDisk) \cup Elements(seen)
                        \/ Positions(tx) # {}
    BY DEF PendingKept
  <2>2. Waiting(tx)
    BY <2>1 DEF PendingKnown
  <2>3. QED
    BY <2>1, <2>2 DEF Waiting, Settled
<1>6. QED
  BY <1>1, <1>2, <1>3, <1>4, <1>5, PTL DEF NodeSpec

----------------------------------------------------------------------------
(* What the RPC server answers, for any number of clients, beside any       *)
(* interleaving of the daemon's goroutines: its steps are steps of the node  *)
(* or leave it alone, and while a handler can be at work the chain in memory *)
(* only grows.                                                               *)

(* Where the daemon is once its ledger is loaded.                           *)
AfterLoad == {"ready", "select", "assemble", "mining", "commit", "save", "index", "credit"}

(* A process is somewhere; a panic leaves the chain as it is on disk.       *)
ProcessKnown ==
  /\ program # "none" => pc # "off"
  /\ pc = "panic" => chain = Stored

(* Only a daemon that has loaded its ledger has handlers, which have counted *)
(* and answered what is in the chain.                                        *)
AnswersKnown ==
  /\ answers # {} \/ requests # NoRequests => program = "node" /\ pc \in AfterLoad \cup {"panic"}
  /\ \A c \in Clients : requests[c] <= Len(chain)
  /\ \A answer \in answers :
       answer[1] \in 1 .. Len(chain) /\ chain[answer[1]].difficulty = answer[2]

RpcVariablesTyped ==
  /\ requests \in [Clients -> Nat]
  /\ stopping \in BOOLEAN
  /\ answers \subseteq Nat \X Nat

RpcIInv == RpcVariablesTyped /\ ProcessKnown /\ AnswersKnown

(* The server takes no step of the node that the node does not have.         *)
LEMMA NodeSimulation == [RpcNext]_rpcAllVars => [NodeNext]_allVars
<1>1. Kill => NodeNext
  BY DEF NodeNext
<1>2. QED
  BY <1>1 DEF RpcNext, DaemonStep, Asked, AskStop, CountBlocks, AnswerInfo, ExitLate, rpcAllVars

(* Only with its process does the ledger go away.                            *)
LEMMA ProcessStep ==
  ASSUME IInv, IInv', AnyMempool, Lists, ProcessKnown, [NodeNext]_allVars
  PROVE  ProcessKnown'
<1>1. program' # "none" => pc' # "off"
  <2>1. CASE LedgerStep
    BY <2>1 DEF LedgerStep, nodeVars, command, ProcessKnown, ClearAll, SpawnGenesis,
                RebuildTransfer, RebuildReward, VerifyConsensusIntegrity, PackTransfer, EndSelect,
                AssembleBlock, FindBlock, AppendBlock, PutBlock, PutLastIndex
  <2>2. CASE ReportRejection \/ CallMineBlock \/ ReturnFromMineBlock \/ Install
    BY <2>2 DEF ReportRejection, CallMineBlock, ReturnFromMineBlock, Install, SkipTransfer,
                BeginMine, RejectMiner, CreditMiner, SetMempool, command
  <2>3. CASE ReadPending \/ TruncateFile \/ WriteFile \/ \E tx \in Transfers : ReadAndSign(tx)
    BY <2>3 DEF ReadPending, TruncateFile, WriteFile, ReadAndSign, ProcessKnown, vars
  <2>4. CASE Exit \/ Panic \/ Kill
    BY <2>4 DEF Exit, Panic, Kill, DieEarly, Die
  <2>5. CASE \E command_ \in Programs : Launch(command_)
    BY <2>5 DEF Launch, InitializeLedger
  <2>6. ASSUME NEW c \in Connections, Handler(c)
        PROVE  program' # "none" => pc' # "off"
    BY <2>6 DEF Handler, OnTxRead, OnTxTruncate, OnTxWrite, ProcessKnown, vars, command
  <2>7. ASSUME NEW c \in Connections, Receive(c)
        PROVE  program' # "none" => pc' # "off"
    BY <2>7 DEF Receive, OnTx, OnBlock, DieEarly, Die, ReceiveTransfer, Unlocked, ProcessKnown,
                allVars, vars, nodeVars, command
  <2>8. CASE UNCHANGED allVars
    BY <2>8 DEF ProcessKnown, allVars, vars, nodeVars, command
  <2>9. QED
    BY <2>1, <2>2, <2>3, <2>4, <2>5, <2>6, <2>7, <2>8 DEF NodeNext, Main
<1>2. pc' = "panic" => chain' = Stored'
  <2>1. SUFFICES ASSUME pc' = "panic"
                 PROVE  chain' = Stored'
    OBVIOUS
  <2>2. [Next]_vars
    BY LedgerSimulation
  <2>3. /\ pc \in {"verify", "ready", "mining", "panic"}
        /\ UNCHANGED <<blocks, lastIndex, chain>>
    <3>1. CASE Load
      BY <2>1, <3>1 DEF Load, InitializeLedger, ClearAll, SpawnGenesis, RebuildTransfer,
                        RebuildReward, VerifyConsensusIntegrity, disk
    <3>2. CASE MineBlock
      BY <2>1, <3>2 DEF MineBlock, RejectMiner, BeginMine, PackTransfer, SkipTransfer, EndSelect,
                        AssembleBlock, FindBlock, AppendBlock, disk
    <3>3. CASE Save \/ Pool
      BY <2>1, <3>3 DEF Save, PutBlock, PutLastIndex, CreditMiner, Pool, SetMempool,
                        ReceiveTransfer, Unlocked, disk
    <3>4. CASE Stop \/ Upgrade \/ UNCHANGED vars
      BY <2>1, <3>4 DEF Stop, Upgrade, vars, disk
    <3>5. QED
      BY <2>2, <3>1, <3>2, <3>3, <3>4 DEF Next
  <2>4. chain = Stored
    BY <2>3 DEF IInv, MemoryMatchesDisk, ProcessKnown
  <2>5. QED
    BY <2>3, <2>4, StoredUnchanged DEF disk
<1>3. QED
  BY <1>1, <1>2 DEF ProcessKnown

(* While handlers are at work the chain grows, if it changes at all.         *)
LEMMA ChainGrows ==
  ASSUME [Next]_vars, pc \in AfterLoad \cup {"panic"}, pc' # "off"
  PROVE  /\ pc' \in AfterLoad \cup {"panic"}
         /\ chain' = chain \/ chain' = Append(chain, newBlock)
BY DEF AfterLoad, Next, Load, MineBlock, Save, Pool, InitializeLedger, ClearAll, SpawnGenesis,
   RebuildTransfer, RebuildReward, VerifyConsensusIntegrity, RejectMiner, BeginMine,
   PackTransfer, SkipTransfer, EndSelect, AssembleBlock, FindBlock, AppendBlock, PutBlock,
   PutLastIndex, CreditMiner, SetMempool, ReceiveTransfer, Unlocked, Stop, Upgrade, vars

(* What was counted and answered stays true of a chain that grows.           *)
LEMMA AnswersAfterGrowth ==
  ASSUME TypeOK, RpcVariablesTyped, AnswersKnown, NEW block,
         chain' = chain \/ chain' = Append(chain, block)
  PROVE  /\ \A c \in Clients : requests[c] <= Len(chain')
         /\ \A answer \in answers :
              answer[1] \in 1 .. Len(chain') /\ chain'[answer[1]].difficulty = answer[2]
<1>1. CASE chain' = chain
  BY <1>1 DEF AnswersKnown
<1>2. CASE chain' = Append(chain, block)
  <2>1. chain \in Seq(Block) /\ Len(chain') = Len(chain) + 1
    BY <1>2 DEF TypeOK
  <2>2. \A i \in 1 .. Len(chain) : chain'[i] = chain[i]
    BY <1>2, <2>1
  <2>3. \A c \in Clients : requests[c] \in Nat
    BY DEF RpcVariablesTyped
  <2>4. QED
    BY <2>1, <2>2, <2>3 DEF AnswersKnown
<1>3. QED
  BY <1>1, <1>2

(* Without requests and answers there is nothing to know of the chain.       *)
LEMMA NothingAnswered ==
  ASSUME NEW length \in Nat
  PROVE  /\ NoRequests \in [Clients -> Nat]
         /\ \A c \in Clients : NoRequests[c] <= length
         /\ Len(<<>>) = 0
BY DEF NoRequests

(* A step of the daemon, with the handlers gone if it ends.                  *)
LEMMA DaemonStepAnswers ==
  ASSUME AnyMempool, Lists, IInv, RpcVariablesTyped, ProcessKnown, ProcessKnown', AnswersKnown,
         DaemonStep
  PROVE  RpcVariablesTyped' /\ AnswersKnown'
<1>1. Len(chain') \in Nat /\ [Next]_vars
  <2>1. [Next]_vars
    BY LedgerSimulation DEF DaemonStep
  <2>2. chain' \in Seq(Block)
    BY <2>1, IInvStep DEF IInv, TypeOK
  <2>3. QED
    BY <2>1, <2>2
<1>2. CASE program' = "node" /\ UNCHANGED rpcVars
  <2>1. RpcVariablesTyped'
    BY <1>2 DEF RpcVariablesTyped, rpcVars
  <2>2. CASE answers = {} /\ requests = NoRequests
    BY <1>1, <1>2, <2>1, <2>2, NothingAnswered DEF AnswersKnown, rpcVars
  <2>3. CASE answers # {} \/ requests # NoRequests
    <3>1. pc \in AfterLoad \cup {"panic"} /\ pc' # "off"
      BY <1>2, <2>3 DEF AnswersKnown, ProcessKnown
    <3>2. /\ pc' \in AfterLoad \cup {"panic"}
          /\ chain' = chain \/ chain' = Append(chain, newBlock)
      BY <1>1, <3>1, ChainGrows
    <3>3. /\ \A c \in Clients : requests[c] <= Len(chain')
          /\ \A answer \in answers :
               answer[1] \in 1 .. Len(chain') /\ chain'[answer[1]].difficulty = answer[2]
      BY <3>2, AnswersAfterGrowth DEF IInv
    <3>4. QED
      BY <1>2, <2>1, <3>2, <3>3 DEF AnswersKnown, rpcVars
  <2>4. QED
    BY <2>1, <2>2, <2>3
<1>3. CASE requests' = NoRequests /\ stopping' = FALSE /\ answers' = {}
  BY <1>1, <1>3, NothingAnswered DEF RpcVariablesTyped, AnswersKnown
<1>4. QED
  BY <1>2, <1>3 DEF DaemonStep

(* A request counts the chain, an answer shows its last block.               *)
LEMMA HandlerAnswers ==
  ASSUME IInv, RpcVariablesTyped, AnswersKnown, NEW c \in Clients,
         CountBlocks(c) \/ AnswerInfo(c)
  PROVE  RpcVariablesTyped' /\ AnswersKnown'
<1>1. Len(chain) \in Nat /\ chain \in Seq(Block)
  BY DEF IInv, TypeOK
<1>2. CASE CountBlocks(c)
  <2>1. requests' = [requests EXCEPT ![c] = Len(chain)] /\ answers' = answers /\ chain' = chain
    BY <1>2 DEF CountBlocks, GetBlockCount, allVars, vars
  <2>2. program' = "node" /\ pc' \in AfterLoad
    BY <1>2 DEF CountBlocks, Serving, AfterLoad, allVars, vars, nodeVars, command
  <2>3. RpcVariablesTyped'
    BY <1>1, <1>2, <2>1 DEF RpcVariablesTyped, CountBlocks
  <2>4. \A d \in Clients : requests'[d] <= Len(chain')
    BY <1>1, <2>1 DEF RpcVariablesTyped, AnswersKnown
  <2>5. QED
    BY <2>1, <2>2, <2>3, <2>4 DEF AnswersKnown
<1>3. CASE AnswerInfo(c)
  <2> DEFINE answered == <<requests[c], chain[requests[c]].difficulty>>
  <2>1. /\ answers' = answers \cup {answered} /\ requests' = [requests EXCEPT ![c] = 0]
        /\ chain' = chain /\ program' = program /\ pc' = pc
    BY <1>3 DEF AnswerInfo, LatestBlock, allVars, vars, nodeVars, command
  <2>2. requests[c] \in 1 .. Len(chain)
    BY <1>1, <1>3 DEF AnswerInfo, RpcVariablesTyped, AnswersKnown
  <2>3. chain[requests[c]].difficulty \in Nat
    BY <1>1, <2>2, BlockFields
  <2>4. RpcVariablesTyped'
    BY <1>3, <2>1, <2>2, <2>3 DEF RpcVariablesTyped, AnswerInfo
  <2>5. requests # NoRequests
    BY <2>2 DEF NoRequests
  <2>6. \A d \in Clients : requests'[d] <= Len(chain')
    BY <1>1, <2>1 DEF RpcVariablesTyped, AnswersKnown
  <2>7. QED
    BY <2>1, <2>2, <2>4, <2>5, <2>6 DEF AnswersKnown
<1>4. QED
  BY <1>2, <1>3

(* Every step of daemon and server keeps the invariant.                      *)
LEMMA RpcIInvStep ==
  ASSUME AnyMempool, Lists, IInv, IInv', RpcIInv, [RpcNext]_rpcAllVars
  PROVE  RpcIInv'
<1>1. ProcessKnown'
  BY NodeSimulation, ProcessStep DEF RpcIInv
<1>2. CASE DaemonStep
  BY <1>1, <1>2, DaemonStepAnswers DEF RpcIInv
<1>3. ASSUME NEW c \in Clients, CountBlocks(c) \/ AnswerInfo(c)
      PROVE  RpcIInv'
  BY <1>1, <1>3, HandlerAnswers DEF RpcIInv
<1>4. CASE AskStop \/ UNCHANGED rpcAllVars
  BY <1>1, <1>4 DEF AskStop, RpcIInv, RpcVariablesTyped, AnswersKnown, rpcAllVars, rpcVars,
                    allVars, vars, nodeVars, command
<1>5. CASE ExitLate
  <2>1. chain' = <<>>
    BY <1>5 DEF ExitLate, Kill, DieEarly, Die, Stop, MemoryLost
  <2>2. QED
    BY <1>1, <1>5, <2>1, NothingAnswered DEF ExitLate, RpcIInv, RpcVariablesTyped, AnswersKnown
<1>6. QED
  BY <1>2, <1>3, <1>4, <1>5 DEF RpcNext, Asked

(* Nobody has asked at first.                                                *)
LEMMA RpcIInvInit ==
  ASSUME RpcInit
  PROVE  RpcIInv
<1>1. chain = <<>> /\ pc = "off" /\ program = "none"
  BY DEF RpcInit, NodeInit, Init
<1>2. QED
  BY <1>1, NothingAnswered DEF RpcInit, RpcIInv, RpcVariablesTyped, ProcessKnown, AnswersKnown

(* The RPC server leaves node and ledger as they are: what is proved of them *)
(* holds beside any clients.                                                 *)
THEOREM RpcImplementsNode == RpcSpec => NodeSpec
<1>1. RpcInit => NodeInit
  BY DEF RpcInit
<1>2. [RpcNext]_rpcAllVars => [NodeNext]_allVars
  BY NodeSimulation
<1>3. QED
  BY <1>1, <1>2, PTL DEF RpcSpec, NodeSpec

(* Hence the ledger's specification is implemented, clients or not.          *)
THEOREM RpcImplementsLedger ==
  ASSUME AnyMempool
  PROVE  RpcSpec => ImplementsLedger
BY RpcImplementsNode, NodeImplementsLedger, PTL

(* The invariants of ledger, node and server together.                       *)
LEMMA RpcInvariant ==
  ASSUME AnyMempool
  PROVE  RpcSpec => [](IInv /\ RpcIInv)
<1>1. RpcSpec => []IInv
  BY RpcImplementsLedger, LedgerInvariant, PTL DEF ImplementsLedger
<1>2. RpcSpec => []Lists
  <2>1. NodeInit => Lists
    BY ListsInit
  <2>2. Lists /\ [NodeNext]_allVars => Lists'
    BY ListsStep
  <2>3. NodeSpec => []Lists
    BY <2>1, <2>2, PTL DEF NodeSpec
  <2>4. QED
    BY <2>3, RpcImplementsNode, PTL
<1>3. RpcInit => RpcIInv
  BY RpcIInvInit
<1>4. Lists /\ IInv /\ IInv' /\ RpcIInv /\ [RpcNext]_rpcAllVars => RpcIInv'
  BY RpcIInvStep
<1>5. QED
  BY <1>1, <1>2, <1>3, <1>4, PTL DEF RpcSpec

(* Daemon, commands and server keep their variables well typed.              *)
THEOREM RpcTypes ==
  ASSUME AnyMempool
  PROVE  RpcSpec => []RpcTypeOK
<1>1. RpcSpec => []NodeTypeOK
  BY RpcImplementsNode, NodeTypes, PTL
<1>2. NodeTypeOK /\ RpcIInv => RpcTypeOK
  BY DEF RpcIInv, RpcVariablesTyped, RpcTypeOK
<1>3. QED
  BY <1>1, <1>2, RpcInvariant, PTL

(* What the server answered stays true of its process, and of the disk but   *)
(* for the block being saved, however MineBlock and the handlers interleave. *)
THEOREM RpcAnswersHold ==
  ASSUME AnyMempool
  PROVE  RpcSpec => []AnswersHold
<1>1. ASSUME IInv, RpcIInv
      PROVE  AnswersHold
  <2>1. SUFFICES ASSUME NEW answer \in answers
                 PROVE  /\ answer[1] \in 1 .. Len(chain)
                        /\ chain[answer[1]].difficulty = answer[2]
                        /\ answer[1] > Len(Stored) => /\ pc \in {"save", "index"}
                                                      /\ answer[1] = Len(Stored) + 1
    BY DEF AnswersHold
  <2>2. answer[1] \in 1 .. Len(chain) /\ chain[answer[1]].difficulty = answer[2]
    BY <1>1 DEF RpcIInv, AnswersKnown
  <2>3. pc \in AfterLoad \cup {"panic"} /\ Stored \in Seq(Block)
    BY <1>1, StoredFacts DEF RpcIInv, AnswersKnown, IInv
  <2>4. CASE pc \in {"save", "index"}
    <3>1. Len(chain) = Len(Stored) + 1
      BY <1>1, <2>3, <2>4 DEF IInv, TypeOK, MemoryMatchesDisk
    <3>2. QED
      BY <2>2, <2>3, <2>4, <3>1
  <2>5. CASE pc \notin {"save", "index"}
    <3>1. chain = Stored
      BY <1>1, <2>3, <2>5 DEF IInv, MemoryMatchesDisk, RpcIInv, ProcessKnown, AfterLoad
    <3>2. QED
      BY <2>2, <2>3, <3>1
  <2>6. QED
    BY <2>4, <2>5
<1>2. QED
  BY <1>1, RpcInvariant, PTL
=============================================================================
