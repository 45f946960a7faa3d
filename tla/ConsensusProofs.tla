--------------------------- MODULE ConsensusProofs ---------------------------
(***************************************************************************)
(* Facts about the operators of Consensus.  The sums and shifts of the     *)
(* code are recursive functions; induction is carried out on sets of       *)
(* naturals, by the well-foundedness of < on Nat.                          *)
(***************************************************************************)
EXTENDS Consensus, TLAPS, WellFoundedInduction, SequenceTheorems

(* A set that holds 0 and is closed under successor holds every natural.   *)
LEMMA SetInduction ==
  ASSUME NEW T, 0 \in T, \A n \in Nat : n \in T => n + 1 \in T
  PROVE  Nat \subseteq T
<1> DEFINE Rest == Nat \ T
<1>1. SUFFICES ASSUME Rest # {} PROVE FALSE
  OBVIOUS
<1>2. PICK x \in Rest : \A y \in Rest : ~(<<y, x>> \in OpToRel(<, Nat))
  <2>1. Rest \subseteq Nat
    OBVIOUS
  <2>2. QED
    BY <1>1, <2>1, NatLessThanWellFounded, WFMin
<1>3. x # 0 /\ x - 1 \in Nat /\ x - 1 < x /\ x - 1 + 1 = x
  OBVIOUS
<1>4. x - 1 \in T
  <2>1. <<x - 1, x>> \in OpToRel(<, Nat)
    BY <1>3 DEF OpToRel
  <2>2. QED
    BY <1>2, <1>3, <2>1
<1>5. QED
  BY <1>3, <1>4

(* g holds the values of a recursion along 0 .. n, its step given as a      *)
(* function.                                                               *)
IsFold(g, base, n, step) ==
  g[0] = base /\ \A i \in 1 .. n : g[i] = step[<<i, g[i - 1]>>]

(* Recursion along 0 .. n has a solution, with values of any kind.         *)
LEMMA FoldExists ==
  ASSUME NEW S, NEW base \in S, NEW n \in Nat, NEW step \in [(1 .. n) \X S -> S]
  PROVE  \E g \in [0 .. n -> S] : IsFold(g, base, n, step)
<1> DEFINE Solves(g, k) == /\ g \in [0 .. k -> S]
                           /\ g[0] = base
                           /\ \A i \in 1 .. k : g[i] = step[<<i, g[i - 1]>>]
           T == {k \in Nat : k <= n => \E g \in [0 .. k -> S] : Solves(g, k)}
<1>1. 0 \in T
  <2> DEFINE g == [i \in 0 .. 0 |-> base]
  <2>1. Solves(g, 0)
    OBVIOUS
  <2>2. QED
    BY <2>1
<1>2. ASSUME NEW k \in Nat, k \in T PROVE k + 1 \in T
  <2>1. SUFFICES ASSUME k + 1 <= n
                 PROVE  \E g \in [0 .. k + 1 -> S] : Solves(g, k + 1)
    OBVIOUS
  <2>2. PICK g \in [0 .. k -> S] : Solves(g, k)
    BY <1>2, <2>1
  <2> DEFINE h == [i \in 0 .. k + 1 |-> IF i <= k THEN g[i] ELSE step[<<k + 1, g[k]>>]]
  <2>3. step[<<k + 1, g[k]>>] \in S
    BY <2>1, <2>2
  <2>4. h \in [0 .. k + 1 -> S]
    BY <2>2, <2>3
  <2>5. h[0] = base
    BY <2>2
  <2>6. ASSUME NEW i \in 1 .. k + 1 PROVE h[i] = step[<<i, h[i - 1]>>]
    <3>1. CASE i = k + 1
      <4>1. h[k + 1] = step[<<k + 1, g[k]>>] /\ h[k] = g[k]
        OBVIOUS
      <4>2. i - 1 = k
        BY <3>1
      <4> HIDE DEF h
      <4>3. QED
        BY <3>1, <4>1, <4>2
    <3>2. CASE i # k + 1
      <4>1. i \in 1 .. k /\ i - 1 \in 0 .. k
        BY <3>2
      <4>2. h[i] = g[i] /\ h[i - 1] = g[i - 1]
        BY <4>1
      <4>3. QED
        BY <4>1, <4>2, <2>2
    <3>3. QED
      BY <3>1, <3>2
  <2>7. QED
    BY <2>4, <2>5, <2>6
<1>3. n \in T
  BY <1>1, <1>2, SetInduction
<1>4. QED
  BY <1>3 DEF IsFold

(* The case of naturals, which the sums and shifts are.                    *)
LEMMA RecursionExists ==
  ASSUME NEW base \in Nat, NEW n \in Nat, NEW step \in [(1 .. n) \X Nat -> Nat]
  PROVE  \E g \in [0 .. n -> Nat] :
           g[0] = base /\ \A i \in 1 .. n : g[i] = step[<<i, g[i - 1]>>]
<1>1. \E g \in [0 .. n -> Nat] : IsFold(g, base, n, step)
  BY FoldExists
<1>2. QED
  BY <1>1 DEF IsFold

(* The partial sums of SumTo exist, are naturals and add up term by term.  *)
LEMMA SumToDefined ==
  ASSUME NEW n \in Nat, NEW f \in [1 .. n -> Nat],
         NEW g \in [0 .. n -> Nat],
         g[0] = 0, \A i \in 1 .. n : g[i] = g[i - 1] + f[i]
  PROVE  SumTo(f, n) = g[n]
<1> DEFINE IsSum(s) == s = [i \in 0 .. n |-> IF i = 0 THEN 0 ELSE s[i - 1] + f[i]]
           sum == CHOOSE s : IsSum(s)
<1>1. IsSum(g)
  <2>1. g = [i \in 0 .. n |-> g[i]]
    OBVIOUS
  <2>2. ASSUME NEW i \in 0 .. n PROVE g[i] = IF i = 0 THEN 0 ELSE g[i - 1] + f[i]
    <3>1. i # 0 => i \in 1 .. n
      OBVIOUS
    <3>2. QED
      BY <3>1
  <2>3. QED
    BY <2>1, <2>2
<1>2. IsSum(sum)
  BY <1>1
<1>3. SumTo(f, n) = sum[n]
  BY DEF SumTo
<1>4. \A k \in 0 .. n : sum[k] = g[k]
  <2> DEFINE T == {k \in Nat : k <= n => sum[k] = g[k]}
  <2> HIDE DEF sum
  <2>0. \A i \in 0 .. n : sum[i] = IF i = 0 THEN 0 ELSE sum[i - 1] + f[i]
    BY <1>2
  <2>1. 0 \in T
    BY <2>0
  <2>2. ASSUME NEW k \in Nat, k \in T PROVE k + 1 \in T
    <3>1. SUFFICES ASSUME k + 1 <= n PROVE sum[k + 1] = g[k + 1]
      OBVIOUS
    <3>2. k + 1 \in 0 .. n /\ k + 1 \in 1 .. n /\ k + 1 # 0 /\ (k + 1) - 1 = k
      BY <3>1
    <3>3. sum[k + 1] = sum[k] + f[k + 1]
      BY <2>0, <3>2
    <3>4. g[k + 1] = g[k] + f[k + 1]
      BY <3>2
    <3>5. sum[k] = g[k]
      BY <2>2, <3>1
    <3>6. QED
      BY <3>3, <3>4, <3>5
  <2>3. Nat \subseteq T
    BY <2>1, <2>2, SetInduction
  <2>4. QED
    BY <2>3
<1>5. QED
  BY <1>3, <1>4

(* A sum of naturals is a natural.                                          *)
LEMMA SumToType ==
  ASSUME NEW n \in Nat, NEW f \in [1 .. n -> Nat]
  PROVE  SumTo(f, n) \in Nat
<1> DEFINE step == [p \in (1 .. n) \X Nat |-> p[2] + f[p[1]]]
<1>1. step \in [(1 .. n) \X Nat -> Nat]
  OBVIOUS
<1>2. PICK g \in [0 .. n -> Nat] : g[0] = 0 /\ \A i \in 1 .. n : g[i] = step[<<i, g[i - 1]>>]
  <2> HIDE DEF step
  <2>1. QED
    BY <1>1, 0 \in Nat, RecursionExists
<1>3. \A i \in 1 .. n : g[i] = g[i - 1] + f[i]
  <2>1. TAKE i \in 1 .. n
  <2>2. i - 1 \in 0 .. n
    OBVIOUS
  <2>3. <<i, g[i - 1]>> \in (1 .. n) \X Nat
    BY <2>2
  <2>4. step[<<i, g[i - 1]>>] = g[i - 1] + f[i]
    BY <2>3
  <2>5. QED
    BY <1>2, <2>4
<1>4. SumTo(f, n) = g[n]
  BY <1>2, <1>3, SumToDefined
<1>5. QED
  BY <1>4

(* A sum over n + 1 terms is the one over the first n plus the last term.  *)
LEMMA SumToStep ==
  ASSUME NEW n \in Nat, NEW f \in [1 .. n -> Nat], NEW h \in [1 .. n + 1 -> Nat],
         \A i \in 1 .. n : h[i] = f[i]
  PROVE  SumTo(h, n + 1) = SumTo(f, n) + h[n + 1]
<1> DEFINE step == [p \in (1 .. n + 1) \X Nat |-> p[2] + h[p[1]]]
<1>1. step \in [(1 .. n + 1) \X Nat -> Nat] /\ n + 1 \in Nat
  OBVIOUS
<1>2. PICK g \in [0 .. n + 1 -> Nat] :
        g[0] = 0 /\ \A i \in 1 .. n + 1 : g[i] = step[<<i, g[i - 1]>>]
  <2> HIDE DEF step
  <2>1. QED
    BY <1>1, 0 \in Nat, RecursionExists
<1>3. \A i \in 1 .. n + 1 : g[i] = g[i - 1] + h[i]
  <2>1. TAKE i \in 1 .. n + 1
  <2>2. i - 1 \in 0 .. n + 1
    OBVIOUS
  <2>3. <<i, g[i - 1]>> \in (1 .. n + 1) \X Nat
    BY <2>2
  <2>4. step[<<i, g[i - 1]>>] = g[i - 1] + h[i]
    BY <2>3
  <2>5. QED
    BY <1>2, <2>4
<1>4. SumTo(h, n + 1) = g[n + 1]
  BY <1>2, <1>3, SumToDefined, n + 1 \in Nat
<1>5. SumTo(f, n) = g[n]
  <2> DEFINE front == [i \in 0 .. n |-> g[i]]
  <2>1. front \in [0 .. n -> Nat] /\ front[0] = 0
    BY <1>2
  <2>2. \A i \in 1 .. n : front[i] = front[i - 1] + f[i]
    <3>1. TAKE i \in 1 .. n
    <3>2. i \in 0 .. n /\ i - 1 \in 0 .. n /\ i \in 1 .. n + 1
      OBVIOUS
    <3>3. g[i] = g[i - 1] + f[i]
      BY <1>3, <3>2
    <3>4. QED
      BY <3>2, <3>3
  <2>3. front[n] = g[n]
    OBVIOUS
  <2> HIDE DEF front
  <2>4. QED
    BY <2>1, <2>2, <2>3, SumToDefined
<1>6. g[n + 1] = g[n] + h[n + 1]
  <2>1. n + 1 \in 1 .. n + 1 /\ (n + 1) - 1 = n
    OBVIOUS
  <2>2. QED
    BY <1>3, <2>1
<1>7. QED
  BY <1>4, <1>5, <1>6

(* Shifting right by nothing changes nothing; shifting never gains.        *)
LEMMA ShiftRightFacts ==
  ASSUME NEW x \in Nat, NEW n \in Nat
  PROVE  ShiftRight(x, n) \in 0 .. x /\ (n = 0 => ShiftRight(x, n) = x)
<1> DEFINE step == [p \in (1 .. n) \X Nat |-> p[2] \div 2]
           IsShift(s) == s = [i \in 0 .. n |-> IF i = 0 THEN x ELSE s[i - 1] \div 2]
           shifted == CHOOSE s : IsShift(s)
<1>0. \A v \in Nat : v \div 2 \in Nat /\ v \div 2 <= v
  OBVIOUS
<1>1. step \in [(1 .. n) \X Nat -> Nat]
  BY <1>0
<1>2. PICK g \in [0 .. n -> Nat] : g[0] = x /\ \A i \in 1 .. n : g[i] = step[<<i, g[i - 1]>>]
  <2> HIDE DEF step
  <2>1. QED
    BY <1>1, RecursionExists
<1>3. \A i \in 1 .. n : i - 1 \in 0 .. n /\ g[i] = g[i - 1] \div 2
  <2>1. TAKE i \in 1 .. n
  <2>2. i - 1 \in 0 .. n
    OBVIOUS
  <2>3. <<i, g[i - 1]>> \in (1 .. n) \X Nat
    BY <2>2
  <2>4. step[<<i, g[i - 1]>>] = g[i - 1] \div 2
    BY <2>3
  <2>5. QED
    BY <1>2, <2>2, <2>4
<1>4. IsShift(g)
  <2>1. g = [i \in 0 .. n |-> g[i]]
    OBVIOUS
  <2>2. ASSUME NEW i \in 0 .. n PROVE g[i] = IF i = 0 THEN x ELSE g[i - 1] \div 2
    <3>1. i # 0 => i \in 1 .. n
      OBVIOUS
    <3>2. QED
      BY <1>2, <1>3, <3>1
  <2>3. QED
    BY <2>1, <2>2
<1>5. IsShift(shifted)
  BY <1>4
<1>6. ShiftRight(x, n) = shifted[n]
  BY DEF ShiftRight
<1> HIDE DEF shifted
<1>7. \A i \in 0 .. n : shifted[i] = IF i = 0 THEN x ELSE shifted[i - 1] \div 2
  BY <1>5
<1>8. \A k \in 0 .. n : shifted[k] \in 0 .. x
  <2> DEFINE T == {k \in Nat : k <= n => shifted[k] \in 0 .. x}
  <2>1. 0 \in T
    BY <1>7
  <2>2. ASSUME NEW k \in Nat, k \in T PROVE k + 1 \in T
    <3>1. SUFFICES ASSUME k + 1 <= n PROVE shifted[k + 1] \in 0 .. x
      OBVIOUS
    <3>2. k + 1 \in 0 .. n /\ k + 1 # 0 /\ (k + 1) - 1 = k
      BY <3>1
    <3>3. shifted[k + 1] = shifted[k] \div 2
      BY <1>7, <3>2
    <3>4. shifted[k] \in 0 .. x
      BY <2>2, <3>1
    <3>5. QED
      BY <1>0, <3>3, <3>4
  <2>3. Nat \subseteq T
    BY <2>1, <2>2, SetInduction
  <2>4. QED
    BY <2>3
<1>9. n = 0 => shifted[n] = x
  BY <1>7
<1>10. QED
  BY <1>6, <1>8, <1>9

----------------------------------------------------------------------------

(* The fees of a block are a machine word: the sum wraps.                   *)
LEMMA TotalFeeType ==
  ASSUME NEW transfers \in Seq(Transfers)
  PROVE  TotalFee(transfers) \in Amount
<1> DEFINE n == Len(transfers)
           f == [i \in 1 .. n |-> transfers[i].fee]
<1>1. n \in Nat /\ f \in [1 .. n -> Nat]
  BY TransfersAssumption, WordAssumption DEF Transfer, Amount
<1>2. SumTo(f, n) \in Nat
  <2> HIDE DEF n, f
  <2> QED  BY <1>1, SumToType
<1>3. TotalFee(transfers) = SumTo(f, n) % Word
  BY DEF TotalFee
<1>4. SumTo(f, n) % Word \in 0 .. Word - 1
  <2> HIDE DEF n, f
  <2> QED  BY <1>2, WordAssumption
<1>5. QED
  BY <1>3, <1>4 DEF Amount

(* The types of the fields of LedgerBlock.                                  *)
LEMMA BlockFields ==
  ASSUME NEW b \in Block
  PROVE  /\ b.index \in Nat /\ b.timestamp \in Nat /\ b.difficulty \in Nat
         /\ b.prevHash \in Hash /\ b.hash \in Hash
         /\ b.transfers \in Seq(Transfers) /\ b.miner \in Account
         /\ b.reward \in Amount /\ b.reward \in Nat
         /\ b.maxSupply \in Nat /\ b.halvingInterval \in Nat
BY WordAssumption DEF Block, Amount

(* The supply of a chain is a natural, and a block adds its reward to it.  *)
LEMMA SupplyType ==
  ASSUME NEW c \in Seq(Block)
  PROVE  GetTotalCirculatingSupply(c) \in Nat
<1> DEFINE n == Len(c)
           f == [i \in 1 .. n |-> c[i].reward]
<1>1. n \in Nat /\ f \in [1 .. n -> Nat]
  <2>1. n \in Nat /\ \A i \in 1 .. n : c[i] \in Block
    OBVIOUS
  <2>2. \A i \in 1 .. n : c[i].reward \in Nat
    BY <2>1, BlockFields
  <2>3. QED
    BY <2>1, <2>2
<1>2. SumTo(f, n) \in Nat
  <2> HIDE DEF n, f
  <2> QED  BY <1>1, SumToType
<1>3. QED
  BY <1>2 DEF GetTotalCirculatingSupply

(* A block adds its reward to the circulating supply, and nothing else      *)
(* does.                                                                    *)
LEMMA SupplyAppend ==
  ASSUME NEW c \in Seq(Block), NEW b \in Block
  PROVE  GetTotalCirculatingSupply(Append(c, b)) = GetTotalCirculatingSupply(c) + b.reward
<1> DEFINE n == Len(c)
           d == Append(c, b)
           f == [i \in 1 .. n |-> c[i].reward]
           h == [i \in 1 .. n + 1 |-> d[i].reward]
<1>1. n \in Nat /\ f \in [1 .. n -> Nat]
  <2>1. n \in Nat /\ \A i \in 1 .. n : c[i] \in Block
    OBVIOUS
  <2>2. \A i \in 1 .. n : c[i].reward \in Nat
    BY <2>1, BlockFields
  <2>3. QED
    BY <2>1, <2>2
<1>2. /\ d \in Seq(Block) /\ Len(d) = n + 1
      /\ \A i \in 1 .. n : d[i] = c[i]
      /\ d[n + 1] = b
  OBVIOUS
<1>3. h \in [1 .. n + 1 -> Nat]
  <2>1. \A i \in 1 .. n + 1 : d[i] \in Block
    BY <1>1, <1>2
  <2>2. \A i \in 1 .. n + 1 : d[i].reward \in Nat
    BY <2>1, BlockFields
  <2>3. QED
    BY <2>2
<1>4. \A i \in 1 .. n : h[i] = f[i]
  BY <1>2
<1>5. h[n + 1] = b.reward
  BY <1>1, <1>2
<1>6. SumTo(h, n + 1) = SumTo(f, n) + h[n + 1]
  <2> HIDE DEF n, f, h
  <2> QED  BY <1>1, <1>3, <1>4, SumToStep
<1>7. GetTotalCirculatingSupply(c) = SumTo(f, n) /\ GetTotalCirculatingSupply(d) = SumTo(h, n + 1)
  BY <1>2 DEF GetTotalCirculatingSupply
<1>8. QED
  BY <1>5, <1>6, <1>7

(* The supply of a chain of one block is that block's reward.               *)
LEMMA SupplyOne ==
  ASSUME NEW b \in Block
  PROVE  GetTotalCirculatingSupply(<<b>>) = b.reward
<1>1. <<>> \in Seq(Block) /\ Append(<<>>, b) = <<b>>
  OBVIOUS
<1>2. GetTotalCirculatingSupply(<<>>) = 0
  <2> DEFINE f == [i \in 1 .. 0 |-> <<>>[i].reward]
             g == [i \in 0 .. 0 |-> 0]
  <2>1. f \in [1 .. 0 -> Nat] /\ g \in [0 .. 0 -> Nat] /\ g[0] = 0
    OBVIOUS
  <2>2. \A i \in 1 .. 0 : g[i] = g[i - 1] + f[i]
    OBVIOUS
  <2>3. SumTo(f, 0) = 0
    <3> HIDE DEF f, g
    <3> QED  BY <2>1, <2>2, SumToDefined
  <2>4. QED
    BY <2>3 DEF GetTotalCirculatingSupply
<1>3. GetTotalCirculatingSupply(Append(<<>>, b)) = 0 + b.reward
  BY <1>1, <1>2, SupplyAppend
<1>4. QED
  BY <1>1, <1>3, BlockFields

(* No block is allowed more than what is left below the cap.               *)
LEMMA CappedRewardFacts ==
  ASSUME NEW p \in ConsensusParameters, NEW index \in Nat, NEW supply \in Nat
  PROVE  /\ CappedReward(p, index, supply) \in Amount
         /\ supply <= p.maxSupply => supply + CappedReward(p, index, supply) <= p.maxSupply
<1>1. p.maxSupply \in Amount /\ p.blockReward \in Amount /\ p.halvingInterval \in Nat \ {0}
  BY DEF ConsensusParameters
<1>2. index \div p.halvingInterval \in Nat
  BY <1>1
<1>3. CalculateBlockReward(p, index) \in Amount
  <2>1. ShiftRight(p.blockReward, index \div p.halvingInterval) \in 0 .. p.blockReward
    <3>1. p.blockReward \in Nat
      BY <1>1, WordAssumption DEF Amount
    <3>2. QED
      BY <1>2, <3>1, ShiftRightFacts
  <2>2. QED
    BY <1>1, <2>1, WordAssumption DEF CalculateBlockReward, Amount
<1>4. QED
  BY <1>1, <1>3, WordAssumption DEF CappedReward, Amount

(* The genesis block is rewarded in full: nothing is halved at height 0.    *)
LEMMA GenesisReward ==
  ASSUME NEW p \in ConsensusParameters
  PROVE  CalculateBlockReward(p, 0) = p.blockReward
<1>1. p.blockReward \in Nat /\ p.halvingInterval \in Nat \ {0}
  BY WordAssumption DEF ConsensusParameters, Amount
<1>2. 0 \div p.halvingInterval = 0
  BY <1>1
<1>3. ShiftRight(p.blockReward, 0) = p.blockReward
  BY <1>1, ShiftRightFacts
<1>4. QED
  BY <1>2, <1>3 DEF CalculateBlockReward

(* CalculateNextDifficulty never returns 0.                                 *)
LEMMA NextDifficultyType ==
  ASSUME NEW prevTime \in Nat, NEW time \in Nat, NEW difficulty \in Nat
  PROVE  CalculateNextDifficulty(prevTime, time, difficulty) \in Nat \ {0}
BY SpacingAssumption DEF CalculateNextDifficulty
=============================================================================
