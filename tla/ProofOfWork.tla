---------------------------- MODULE ProofOfWork ----------------------------
(***************************************************************************)
(* What a call of ConsensusEngine.Mine promises, without its workers: at   *)
(* most one answer, once and for all, and it is a winning hash of the      *)
(* block that was to be mined.  FindBlock of module Ledger is this step.   *)
(***************************************************************************)

CONSTANT NoHash

VARIABLES
  sought,   \* the block whose hash is looked for
  winning,  \* the hashes, each of one block and nonce, that meet the target
  answer    \* what the call returned, or NoHash

powVars == <<sought, winning, answer>>

PowInit == answer = NoHash

Answer ==
  /\ answer = NoHash
  /\ answer' \in {hash \in winning : hash.block = sought}
  /\ UNCHANGED <<sought, winning>>

PowSpec == PowInit /\ [][Answer]_powVars

=============================================================================
