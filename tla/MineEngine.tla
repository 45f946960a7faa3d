----------------------------- MODULE MineEngine -----------------------------
(***************************************************************************)
(* One call of ConsensusEngine.Mine by MineBlock or SpawnGenesis: the      *)
(* goroutines that search for a nonce, the counter from which they claim   *)
(* ranges of nonces, the channel with room for one result, the channel     *)
(* that is closed to stop them, and the caller, who writes to the block    *)
(* while workers that have not noticed yet still hash it.                  *)
(*                                                                         *)
(* The counter and both channels belong to the call, so a later call does  *)
(* not meet the workers this one leaves behind.                            *)
(***************************************************************************)
EXTENDS Integers, Sequences

CONSTANTS
  NumWorkers,      \* runtime.NumCPU()
  Chunk,           \* nonces in a range: 50000
  WorkerOffset,    \* distance of the workers' initial nonces: 1000000000
  Blocks,          \* the blocks Mine is called with
  StandardReward,  \* GetBlockReward of their index
  ActiveRules,     \* MaxSupply, HalvingInterval and Bits of the build
  Searches,        \* which hashes meet the target: one of these sets
  LastNonce,       \* bound: ranges beyond hold no winning nonce
  NoHash

Workers == 0 .. NumWorkers - 1

(* `rules` stands for the three fields Mine fills in when they are 0. *)
Block == [index : Nat, reward : Nat, rules : Nat]

(* A hash is taken of a block and a nonce; it stands for both. *)
Hash == [block : Block, nonce : Nat]

ASSUME EngineAssumption ==
  /\ NumWorkers \in Nat \ {0}
  /\ Chunk \in Nat \ {0}
  /\ WorkerOffset \in Nat
  /\ \A w \in Workers : (w * WorkerOffset) % Chunk = 0
  /\ Blocks \subseteq Block
  /\ StandardReward \in Nat
  /\ ActiveRules \in Nat
  /\ Searches \subseteq SUBSET Hash
  /\ LastNonce \in Nat
  /\ NoHash \notin Hash

VARIABLES
  winning,     \* the hashes that meet the target
  called,      \* the block as the caller assembled it
  block,       \* the block that caller and workers share
  caller,      \* where the caller is
  answer,      \* what Mine returned
  baseNonce,   \* the counter
  resultChan,  \* the channel's buffer
  stopped,     \* stopChan is closed
  at,          \* where each worker is
  localNonce,  \* its next nonce
  hash,        \* the winning hash it found
  (* history, for the properties *)
  tried        \* the nonces it has hashed

inputs == <<winning, called>>
shared == <<block, baseNonce, resultChan, stopped>>
workers == <<at, localNonce, hash, tried>>
engineVars == <<inputs, shared, caller, answer, workers>>

----------------------------------------------------------------------------

(* Mine computes the reward whatever the ledger had decided. *)
NormalisedAnew(b) ==
  [b EXCEPT !.reward = IF b.index > 0 THEN StandardReward ELSE @,
            !.rules = IF @ = 0 THEN ActiveRules ELSE @]

(* What Mine fills in before it starts the workers. *)
Normalised(b) ==
  [b EXCEPT !.reward = IF @ = 0 /\ b.index > 0 THEN StandardReward ELSE @,
            !.rules = IF @ = 0 THEN ActiveRules ELSE @]

AssembleBlockData(b, nonce) == [block |-> b, nonce |-> nonce]

ValidateHash(h) == h \in winning

(* A worker without a range of its own starts at the counter. *)
EngineInit ==
  /\ winning \in Searches
  /\ called \in Blocks
  /\ block = called
  /\ caller = "call"
  /\ answer = NoHash
  /\ baseNonce = 0
  /\ resultChan = <<>>
  /\ stopped = FALSE
  /\ at = [w \in Workers |-> "created"]
  /\ localNonce = [w \in Workers |-> w * WorkerOffset]
  /\ hash = [w \in Workers |-> NoHash]
  /\ tried = [w \in Workers |-> {}]

(* The beginning of Mine, up to the last `go`. *)
Mine ==
  /\ caller = "call"
  /\ block' = Normalised(block)
  /\ at' = [w \in Workers |-> "check"]
  /\ caller' = "wait"
  /\ UNCHANGED <<inputs, baseNonce, resultChan, stopped, answer, localNonce, hash, tried>>

----------------------------------------------------------------------------
(* A worker. *)

(* A range ends one nonce early. *)
CheckEarly(w) ==
  /\ at[w] = "check"
  /\ at' = [at EXCEPT ![w] =
              IF stopped THEN "done"
              ELSE IF (localNonce[w] + 1) % Chunk = 0 THEN "claim" ELSE "hash"]
  /\ UNCHANGED <<inputs, shared, caller, answer, localNonce, hash, tried>>

(* The top of the loop: stop, or go on, with a new range at the end of one. *)
Check(w) ==
  /\ at[w] = "check"
  /\ at' = [at EXCEPT ![w] =
              IF stopped THEN "done" ELSE IF localNonce[w] % Chunk = 0 THEN "claim" ELSE "hash"]
  /\ UNCHANGED <<inputs, shared, caller, answer, localNonce, hash, tried>>

(* The counter is read and written by two operations, and a late write      *)
(* undoes another worker's.                                                 *)
ClaimRacing(w) ==
  /\ at[w] = "claim"
  /\ baseNonce + Chunk <= LastNonce
  /\ baseNonce' \in {baseNonce, baseNonce + Chunk}
  /\ localNonce' = [localNonce EXCEPT ![w] = baseNonce + Chunk]
  /\ at' = [at EXCEPT ![w] = "hash"]
  /\ UNCHANGED <<inputs, block, resultChan, stopped, caller, answer, hash, tried>>

(* AddUint64 returns the new value: the range below the first one claimed,  *)
(* 0 .. Chunk - 1, is nobody's.                                             *)
Claim(w) ==
  /\ at[w] = "claim"
  /\ baseNonce + Chunk <= LastNonce
  /\ baseNonce' = baseNonce + Chunk
  /\ localNonce' = [localNonce EXCEPT ![w] = baseNonce']
  /\ at' = [at EXCEPT ![w] = "hash"]
  /\ UNCHANGED <<inputs, block, resultChan, stopped, caller, answer, hash, tried>>

(* A range beyond the bound is searched in one step: nothing in it wins. *)
SearchBeyond(w) ==
  /\ at[w] = "claim"
  /\ baseNonce + Chunk > LastNonce
  /\ at' = [at EXCEPT ![w] = "check"]
  /\ UNCHANGED <<inputs, shared, caller, answer, localNonce, hash, tried>>

(* The nonce is moved on before the hash is reported. *)
HashNonceAhead(w) ==
  /\ at[w] = "hash"
  /\ tried' = [tried EXCEPT ![w] = @ \cup {localNonce[w]}]
  /\ localNonce' = [localNonce EXCEPT ![w] = @ + 1]
  /\ IF ValidateHash(AssembleBlockData(block, localNonce[w]))
     THEN /\ hash' = [hash EXCEPT ![w] = AssembleBlockData(block, localNonce'[w])]
          /\ at' = [at EXCEPT ![w] = "send"]
     ELSE /\ at' = [at EXCEPT ![w] = "check"]
          /\ UNCHANGED hash
  /\ UNCHANGED <<inputs, shared, caller, answer>>

(* The hash is of the block as it is now. *)
HashNonce(w) ==
  /\ at[w] = "hash"
  /\ tried' = [tried EXCEPT ![w] = @ \cup {localNonce[w]}]
  /\ LET h == AssembleBlockData(block, localNonce[w])
     IN  \/ /\ ValidateHash(h)
            /\ hash' = [hash EXCEPT ![w] = h]
            /\ at' = [at EXCEPT ![w] = "send"]
            /\ UNCHANGED localNonce
         \/ /\ ~ValidateHash(h)
            /\ localNonce' = [localNonce EXCEPT ![w] = @ + 1]
            /\ at' = [at EXCEPT ![w] = "check"]
            /\ UNCHANGED hash
  /\ UNCHANGED <<inputs, shared, caller, answer>>

(* A send that waits for room in the channel. *)
SendOrWait(w) ==
  /\ at[w] = "send"
  /\ resultChan = <<>>
  /\ resultChan' = <<hash[w]>>
  /\ at' = [at EXCEPT ![w] = "done"]
  /\ UNCHANGED <<inputs, block, baseNonce, stopped, caller, answer, localNonce, hash, tried>>

(* A channel without room: the result is dropped unless somebody waits. *)
SendUnbuffered(w) ==
  /\ at[w] = "send"
  /\ resultChan' = resultChan
  /\ at' = [at EXCEPT ![w] = "done"]
  /\ UNCHANGED <<inputs, block, baseNonce, stopped, caller, answer, localNonce, hash, tried>>

(* A channel with room for any number of results. *)
SendAlways(w) ==
  /\ at[w] = "send"
  /\ resultChan' = Append(resultChan, hash[w])
  /\ at' = [at EXCEPT ![w] = "done"]
  /\ UNCHANGED <<inputs, block, baseNonce, stopped, caller, answer, localNonce, hash, tried>>

(* A result for which there is no room is dropped. *)
Send(w) ==
  /\ at[w] = "send"
  /\ resultChan' = IF resultChan = <<>> THEN <<hash[w]>> ELSE resultChan
  /\ at' = [at EXCEPT ![w] = "done"]
  /\ UNCHANGED <<inputs, block, baseNonce, stopped, caller, answer, localNonce, hash, tried>>

Worker(w) == Check(w) \/ Claim(w) \/ SearchBeyond(w) \/ HashNonce(w) \/ Send(w)

----------------------------------------------------------------------------
(* The caller. *)

ReceiveResult ==
  /\ caller = "wait"
  /\ resultChan # <<>>
  /\ answer' = resultChan[1]
  /\ resultChan' = <<>>
  /\ caller' = "close"
  /\ UNCHANGED <<inputs, block, baseNonce, stopped, workers>>

CloseStop ==
  /\ caller = "close"
  /\ stopped' = TRUE
  /\ caller' = "store"
  /\ UNCHANGED <<inputs, block, baseNonce, resultChan, answer, workers>>

(* MineBlock and SpawnGenesis put nonce and hash, which the hash does not   *)
(* cover, and the reward they had decided into the block.                   *)
StoreResult ==
  /\ caller = "store"
  /\ block' = [block EXCEPT !.reward = called.reward]
  /\ caller' = "done"
  /\ UNCHANGED <<inputs, baseNonce, resultChan, stopped, answer, workers>>

Caller == Mine \/ ReceiveResult \/ CloseStop \/ StoreResult

AllDone == caller = "done" /\ \A w \in Workers : at[w] = "done"

EngineNext == Caller \/ (\E w \in Workers : Worker(w)) \/ (AllDone /\ UNCHANGED engineVars)

EngineSpec == EngineInit /\ [][EngineNext]_engineVars

(* The Go scheduler runs every goroutine that can run. *)
EngineLiveSpec ==
  EngineSpec /\ WF_engineVars(Caller) /\ \A w \in Workers : WF_engineVars(Worker(w))

----------------------------------------------------------------------------
(* Properties *)

(* Every variable holds what the code's types allow; the channel has room   *)
(* for one result.                                                          *)
EngineTypeOK ==
  /\ winning \subseteq Hash
  /\ called \in Block
  /\ block \in Block
  /\ caller \in {"call", "wait", "close", "store", "done"}
  /\ answer \in Hash \cup {NoHash}
  /\ baseNonce \in Nat
  /\ resultChan \in Seq(Hash) /\ Len(resultChan) <= 1
  /\ stopped \in BOOLEAN
  /\ at \in [Workers -> {"created", "check", "claim", "hash", "send", "done"}]
  /\ localNonce \in [Workers -> Nat]
  /\ hash \in [Workers -> Hash \cup {NoHash}]
  /\ tried \in [Workers -> SUBSET Nat]

(* No two workers hash the same nonce: the ranges they claim from the shared *)
(* counter do not overlap, though each starts from an offset of its own.     *)
RangesDisjoint ==
  \A v, w \in Workers : v # w => tried[v] \cap tried[w] = {}

(* Worker `w` is within a range it has claimed. *)
InRange(w) == at[w] = "hash" \/ (at[w] = "check" /\ localNonce[w] % Chunk # 0)

(* What it still has to hash of it. *)
Ahead(w) ==
  {n \in localNonce[w] .. localNonce[w] + Chunk - 1 :
     InRange(w) /\ n \div Chunk = localNonce[w] \div Chunk}

(* No nonce of a claimed range is passed over: as long as no worker has      *)
(* ended, each has been hashed or still lies ahead of a worker.              *)
NothingSkipped ==
  (\A w \in Workers : at[w] \notin {"send", "done"}) =>
    \A n \in Chunk .. baseNonce + Chunk - 1 :
      \E w \in Workers : n \in tried[w] \cup Ahead(w)

(* Mine returns once, a winning hash of the block it was given with the      *)
(* defaults filled in: neither a straggler's hash of the block the caller    *)
(* has changed meanwhile nor a nonce other than the one hashed.              *)
P == INSTANCE ProofOfWork WITH sought <- Normalised(called)

ImplementsProofOfWork == P!PowSpec

(* The block that is stored is the one its hash was computed of, unless its  *)
(* reward was used up: then Mine hashes the standard reward, and the caller  *)
(* puts the zero back.                                                       *)
HashCommits ==
  caller = "done" /\ (called.reward > 0 \/ called.index = 0) => answer.block = block

(* If a nonce that is ever claimed wins, Mine returns: the result of the     *)
(* first worker to send finds room in the channel.                           *)
MineReturns ==
  (\E n \in Chunk .. LastNonce : AssembleBlockData(Normalised(called), n) \in winning)
    ~> caller = "done"

(* Once Mine has an answer every worker ends, those with a result that       *)
(* nobody reads included: no goroutine is left behind.                       *)
WorkersEnd == caller = "close" ~> \A w \in Workers : at[w] = "done"

----------------------------------------------------------------------------
(* The inductive invariant behind the safety properties: what the caller's   *)
(* position says of the block, the answer and the results under way, and     *)
(* which ranges the workers have and have had.                               *)

Promised == {h \in winning : h.block = Normalised(called)}

ResultsKnown ==
  /\ caller = "call" => block = called /\ \A w \in Workers : at[w] = "created"
  /\ caller \in {"wait", "close", "store"} => block = Normalised(called)
  /\ caller = "done" => block = [Normalised(called) EXCEPT !.reward = called.reward]
  /\ caller \in {"call", "wait"} => answer = NoHash
  /\ caller \in {"close", "store", "done"} => answer \in Promised
  /\ \A w \in Workers :
       at[w] = "send" => hash[w] \in (IF caller = "done" THEN winning ELSE Promised)
  /\ resultChan # <<>> =>
       resultChan[1] \in (IF caller = "done" THEN winning ELSE Promised)

RangeOf(nonce) == nonce \div Chunk

RangesKnown ==
  /\ baseNonce % Chunk = 0
  /\ \A w \in Workers :
       /\ \A n \in tried[w] : RangeOf(n) <= RangeOf(baseNonce)
       /\ InRange(w) => RangeOf(localNonce[w]) <= RangeOf(baseNonce)
       /\ at[w] \in {"created", "claim"} => localNonce[w] % Chunk = 0
  /\ \A v, w \in Workers : v # w =>
       /\ \A m \in tried[v], n \in tried[w] : RangeOf(m) # RangeOf(n)
       /\ InRange(v) => \A n \in tried[w] : RangeOf(localNonce[v]) # RangeOf(n)
       /\ InRange(v) /\ InRange(w) => RangeOf(localNonce[v]) # RangeOf(localNonce[w])

EngineIInv == EngineTypeOK /\ ResultsKnown /\ RangesKnown

=============================================================================
