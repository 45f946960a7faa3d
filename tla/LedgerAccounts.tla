--------------------------- MODULE LedgerAccounts ---------------------------
(***************************************************************************)
(* What the account balances of a running ledger have to do with its       *)
(* chain.  MineBlock moves coins as it selects transfers, long before the  *)
(* block exists; RebuildState computes the same balances from the stored   *)
(* blocks, by other code.                                                  *)
(***************************************************************************)
EXTENDS Ledger, Functions, SequencesExt

(* The loops of RebuildState and LoadFromDisk, from the first element on. *)
ReplayTransfers(accounts, transfers) ==
  LET replayed[i \in 0 .. Len(transfers)] ==
        IF i = 0 THEN accounts ELSE ReplayTransfer(replayed[i - 1], transfers[i])
  IN  replayed[Len(transfers)]

ReplayBlock(accounts, block) ==
  ReplayReward(ReplayTransfers(accounts, block.transfers), block)

ReplayChain(c) ==
  LET replayed[i \in 0 .. Len(c)] ==
        IF i = 0 THEN ZeroState ELSE ReplayBlock(replayed[i - 1], c[i])
  IN  replayed[Len(c)]

(* Every transfer of the list finds its cost in the sender's account.  *)
ReplaysExactly(accounts, transfers) ==
  \A k \in 1 .. Len(transfers) :
    Affordable(ReplayTransfers(accounts, SubSeq(transfers, 1, k - 1)), transfers[k])

(* What all accounts hold together. *)
Coins(accounts) == SumFunction([a \in Account |-> accounts[a].balance])

Running == pc \in {"ready", "select", "assemble", "mining", "commit", "save", "index", "credit"}

(* The blocks whose miner has been credited in memory.  A genesis block     *)
(* never credits anybody.                                                   *)
CreditedChain ==
  IF pc \in {"save", "index", "credit"} /\ newBlock.index > 0 THEN Front(chain) ELSE chain

(* A running ledger's balances are those a restart would rebuild from the   *)
(* blocks, plus the transfers MineBlock is packing: the two hand-written    *)
(* executions of a transfer, and their two ways to credit a miner, agree.   *)
(* (SYSTEM_GENESIS is left out: MineBlock credits it, RebuildState does not.) *)
StateIsReplay ==
  Running => \A a \in Prefixed :
               state[a] = ReplayTransfers(ReplayChain(CreditedChain), job.packed)[a]

(* Value and fee add up to less than a machine word, as nobody checks.      *)
NoneWraps(transfers) ==
  \A k \in 1 .. Len(transfers) : transfers[k].value + transfers[k].fee < Word

NothingWrapped ==
  /\ NoneWraps(job.packed)
  /\ \A i \in 1 .. Len(CreditedChain) : NoneWraps(CreditedChain[i].transfers)

(* Coins are neither created nor lost by transfers, fees and credits: what  *)
(* the accounts hold, with the fees of the block in progress, is what the   *)
(* credited blocks issued.  A transfer whose value and fee wrap costs its   *)
(* sender a word less than it pays out; even then the sums differ by words. *)
CoinsConserved ==
  Running =>
    LET held == Coins(state) + job.fees
        issued == GetTotalCirculatingSupply(Tail(CreditedChain))
    IN  /\ held % Word = issued % Word
        /\ NothingWrapped => held = issued

(* The branch of RebuildState that empties an account which cannot pay is   *)
(* never taken: the selection of MineBlock, that skips transfers and runs   *)
(* against balances of its own, only stores blocks that replay exactly.     *)
ReplayNeverFloors ==
  \A i \in 1 .. Len(Stored) :
    ReplaysExactly(ReplayChain(SubSeq(Stored, 1, i - 1)), Stored[i].transfers)

----------------------------------------------------------------------------
(* The inductive invariant behind these: what each location knows about the *)
(* balances, on top of what IInv says of the disk and the chain.            *)

(* The accounts that memory and disk treat alike.                           *)
Comparable == IF SystemGenesis \in MinerAddresses THEN Account \ {SystemGenesis} ELSE Account

(* Until the chain is loaded there are no balances and no job; while it is,  *)
(* the replay has got as far as the cursor.                                 *)
ReplayKnown ==
  /\ pc \in {"off", "wipe", "spawn", "rebuild", "verify", "ready"} => job = NoJob
  /\ pc \in {"off", "wipe", "spawn"} => state = ZeroState /\ cursor = <<1, 1>>
  /\ pc = "rebuild" =>
       LET transfers == chain[cursor[1]].transfers
       IN  /\ cursor[1] <= Len(chain)
           /\ cursor[2] <= Len(transfers) + 1
           /\ state = ReplayTransfers(ReplayChain(SubSeq(chain, 1, cursor[1] - 1)),
                                      SubSeq(transfers, 1, cursor[2] - 1))
  /\ pc = "verify" => state = ReplayChain(chain)

BalancesKnown ==
  Running =>
    /\ \A a \in Comparable :
         state[a] = ReplayTransfers(ReplayChain(CreditedChain), job.packed)[a]
    /\ ReplaysExactly(ReplayChain(CreditedChain), job.packed)
    /\ job.fees = TotalFee(job.packed)

(* The block in progress takes over the transfers and the miner of the job;  *)
(* a genesis block has neither.                                             *)
BlockInProgressKnown ==
  /\ minerAddress \in MinerAddresses
  /\ pc \in {"select", "assemble", "mining", "commit", "credit"} => ValidMinerAddress
  /\ pc \in {"mining", "commit", "credit"}
       => newBlock.transfers = job.packed /\ newBlock.miner = minerAddress
  /\ pc \in {"save", "index"} =>
       IF newBlock.index = 0 THEN job = NoJob
       ELSE newBlock.transfers = job.packed /\ newBlock.miner = minerAddress /\ ValidMinerAddress
  /\ pc = "credit" => newBlock.index > 0 /\ chain[Len(chain)] = newBlock

(* Only the first block is by SYSTEM_GENESIS, unless a caller mines for it.  *)
MinersKnown ==
  \A i \in 1 .. Len(Stored) :
    IF i = 1 THEN Stored[i].transfers = <<>> /\ Stored[i].miner = SystemGenesis
    ELSE Stored[i].miner \in MinerAddresses

AccountsInv ==
  /\ ReplayKnown
  /\ BalancesKnown
  /\ BlockInProgressKnown
  /\ ReplayNeverFloors
  /\ MinersKnown

=============================================================================
