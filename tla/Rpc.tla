-------------------------------- MODULE Rpc --------------------------------
(***************************************************************************)
(* The daemon's JSON-RPC server.  A handler reads the chain by reflection  *)
(* while MineBlock appends to it: the number of blocks first, then the     *)
(* difficulty of the last one it counted.  `stop` answers, and a second    *)
(* later the process exits, whatever it is doing.                          *)
(*                                                                         *)
(* Of an answer the model keeps what depends on the chain.  A handler that *)
(* panics over a half-appended block gives no answer, and one that reads   *)
(* the accounts while MineBlock writes them can end the process, as Kill   *)
(* does.                                                                   *)
(***************************************************************************)
EXTENDS Node

CONSTANT Clients   \* of the RPC server, with their credentials

VARIABLES
  requests,  \* blocks counted for each client, 0 for one that has not asked
  stopping,  \* the goroutine of `stop` is asleep
  answers    \* history: blocks and difficulty the running process answered

rpcVars == <<requests, stopping, answers>>

NoRequests == [c \in Clients |-> 0]

RpcInit ==
  /\ NodeInit
  /\ requests = NoRequests
  /\ stopping = FALSE
  /\ answers = {}

(* A handler does not outlive its process. *)
DaemonStep ==
  /\ NodeNext
  /\ IF program' = "node" THEN UNCHANGED rpcVars
     ELSE requests' = NoRequests /\ stopping' = FALSE /\ answers' = {}

(* The server listens once InitializeLedger has returned: after the genesis  *)
(* block is saved, or the stored chain verified.                             *)
Serving ==
  /\ program = "node"
  /\ \/ pc \in {"ready", "select", "assemble", "mining", "commit", "credit"}
     \/ pc \in {"save", "index"} /\ newBlock.index > 0

(* getblockcount *)
GetBlockCount == Len(chain)

(* getmininginfo and getinfo count the blocks ... *)
CountBlocks(c) ==
  /\ Serving
  /\ requests[c] = 0
  /\ requests' = [requests EXCEPT ![c] = GetBlockCount]
  /\ UNCHANGED <<allVars, stopping, answers>>

(* A variant that reads the newest block. *)
LatestBlockNow(blocksCounted) == chain[Len(chain)]

LatestBlock(blocksCounted) == chain[blocksCounted]

(* ... and answer with that and the last one's difficulty. *)
AnswerInfo(c) ==
  /\ requests[c] > 0
  /\ answers' = answers \cup {<<requests[c], LatestBlock(requests[c]).difficulty>>}
  /\ requests' = [requests EXCEPT ![c] = 0]
  /\ UNCHANGED <<allVars, stopping>>

(* `stop` answers at once and starts the goroutine that exits. *)
AskStop ==
  /\ Serving
  /\ deaths < MaxDeaths
  /\ stopping' = TRUE
  /\ UNCHANGED <<allVars, requests, answers>>

(* A variant that lets the handlers finish first, of which there is no end. *)
ExitDrained ==
  /\ stopping
  /\ requests = NoRequests
  /\ Kill
  /\ stopping' = FALSE
  /\ answers' = {}
  /\ UNCHANGED requests

ExitLate ==
  /\ stopping
  /\ Kill
  /\ requests' = NoRequests
  /\ stopping' = FALSE
  /\ answers' = {}

Asked == AskStop \/ \E c \in Clients : CountBlocks(c)

RpcNext == DaemonStep \/ Asked \/ ExitLate \/ \E c \in Clients : AnswerInfo(c)

rpcAllVars == <<allVars, rpcVars>>

RpcSpec == RpcInit /\ [][RpcNext]_rpcAllVars

(* Fairness as in module Node; handlers run, and the goroutine of `stop`     *)
(* wakes up.                                                                 *)
RpcLiveSpec ==
  /\ RpcSpec
  /\ WF_allVars(Main) /\ \A c \in Connections : WF_allVars(Handler(c))
  /\ \A c \in Clients : WF_rpcAllVars(AnswerInfo(c))
  /\ WF_rpcAllVars(ExitLate)

----------------------------------------------------------------------------
(* Properties *)

(* Every variable holds what the code's types allow. *)
RpcTypeOK ==
  /\ NodeTypeOK
  /\ requests \in [Clients -> Nat]
  /\ stopping \in BOOLEAN
  /\ answers \subseteq Nat \X Nat

(* What the server answered stays true of its process: the difficulty is     *)
(* that of the block the count ends with, though MineBlock appends another   *)
(* in between.  And a restart would load that block, unless SaveBlock has    *)
(* not written it yet: the count can run ahead of the disk by that one.      *)
AnswersHold ==
  \A answer \in answers :
    /\ answer[1] \in 1 .. Len(chain)
    /\ chain[answer[1]].difficulty = answer[2]
    /\ answer[1] > Len(Stored) => pc \in {"save", "index"} /\ answer[1] = Len(Stored) + 1

(* A daemon that was asked to stop does, whatever its threads are doing. *)
StopEnds == stopping ~> program = "none"

=============================================================================
