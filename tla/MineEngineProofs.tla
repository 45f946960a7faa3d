-------------------------- MODULE MineEngineProofs --------------------------
(***************************************************************************)
(* Theorems about the proof-of-work engine, for any number of workers, any *)
(* size of the ranges and any set of winning hashes.                       *)
(***************************************************************************)
EXTENDS MineEngine, TLAPS

----------------------------------------------------------------------------
(* Quotients number the ranges of nonces. *)

(* Division with remainder. *)
LEMMA QuotientRemainder ==
  ASSUME NEW c \in Nat \ {0}, NEW n \in Nat
  PROVE  /\ n \div c \in Nat
         /\ n % c \in 0 .. c - 1
         /\ n = (c * (n \div c)) + (n % c)
<1>1. n \div c \in Int /\ n % c \in 0 .. c - 1 OBVIOUS
<1>2. n = (c * (n \div c)) + (n % c) OBVIOUS
<1>3. n \div c >= 0 OBVIOUS
<1> QED BY <1>1, <1>2, <1>3

(* Multiples of a positive number are ordered as their factors. *)
LEMMA FactorOrder ==
  ASSUME NEW c \in Nat \ {0}, NEW p \in Int, NEW q \in Int, c * p < c * (q + 1)
  PROVE  p <= q
  OBVIOUS

(* Quotient and remainder are unique. *)
LEMMA QuotientUnique ==
  ASSUME NEW c \in Nat \ {0}, NEW p \in Int, NEW q \in Int,
         NEW r \in 0 .. c - 1, NEW s \in 0 .. c - 1,
         (c * p) + r = (c * q) + s
  PROVE  p = q /\ r = s
<1>1. c * p < c * (q + 1) OBVIOUS
<1>2. c * q < c * (p + 1) OBVIOUS
<1> QED BY <1>1, <1>2, FactorOrder

(* A nonce that does not start a range is in its predecessor's. *)
LEMMA SameRange ==
  ASSUME NEW c \in Nat \ {0}, NEW n \in Nat, (n + 1) % c # 0
  PROVE  (n + 1) \div c = n \div c
<1> DEFINE q == n \div c
           r == n % c
           p == (n + 1) \div c
           s == (n + 1) % c
<1>1. q \in Nat /\ r \in 0 .. c - 1 /\ n = (c * q) + r BY QuotientRemainder
<1>2. p \in Nat /\ s \in 0 .. c - 1 /\ n + 1 = (c * p) + s
  BY QuotientRemainder, n + 1 \in Nat
<1>3. s - 1 \in 0 .. c - 1 BY <1>2
<1> HIDE DEF p, q, r, s
<1>4. (c * p) + (s - 1) = (c * q) + r BY <1>1, <1>2
<1>5. p = q BY <1>1, <1>2, <1>3, <1>4, QuotientUnique
<1> QED BY <1>5 DEF p, q

(* After a multiple, the next multiple starts the next range. *)
LEMMA NextRange ==
  ASSUME NEW c \in Nat \ {0}, NEW n \in Nat, n % c = 0
  PROVE  /\ (n + c) % c = 0
         /\ (n + c) \div c = (n \div c) + 1
<1> DEFINE q == n \div c
           p == (n + c) \div c
           s == (n + c) % c
<1>1. q \in Nat /\ n = c * q BY QuotientRemainder
<1>2. p \in Nat /\ s \in 0 .. c - 1 /\ n + c = (c * p) + s
  BY QuotientRemainder, n + c \in Nat
<1> HIDE DEF p, q, s
<1>3. (c * p) + s = (c * (q + 1)) + 0 BY <1>1, <1>2
<1>4. p = q + 1 /\ s = 0 BY <1>1, <1>2, <1>3, QuotientUnique, q + 1 \in Int, 0 \in 0 .. c - 1
<1> QED BY <1>4 DEF p, q, s

----------------------------------------------------------------------------
(* Types *)

(* The block keeps its shape when Mine fills in what is missing. *)
LEMMA NormalisedType ==
  ASSUME NEW b \in Block
  PROVE  Normalised(b) \in Block
  BY EngineAssumption DEF Normalised, Block

(* The initial state has the types of EngineTypeOK. *)
LEMMA TypesInit == EngineInit => EngineTypeOK
<1> SUFFICES ASSUME EngineInit PROVE EngineTypeOK
  OBVIOUS
<1>1. \A w \in Workers : w * WorkerOffset \in Nat
  BY EngineAssumption DEF Workers
<1>2. localNonce \in [Workers -> Nat]
  BY <1>1 DEF EngineInit
<1>3. called \in Block /\ block \in Block /\ winning \subseteq Hash
  BY EngineAssumption DEF EngineInit
<1>4. resultChan \in Seq(Hash) /\ Len(resultChan) <= 1
  BY DEF EngineInit
<1> QED BY <1>2, <1>3, <1>4 DEF EngineInit, EngineTypeOK

(* Every step keeps them; that a worker sends a hash is ResultsKnown's. *)
LEMMA TypesNext ==
  EngineTypeOK /\ ResultsKnown /\ [EngineNext]_engineVars => EngineTypeOK'
<1> SUFFICES ASSUME EngineTypeOK, ResultsKnown, [EngineNext]_engineVars PROVE EngineTypeOK'
  OBVIOUS
<1> USE EngineAssumption DEF EngineTypeOK
<1> USE DEF engineVars, inputs, shared, workers
<1>1. CASE Mine BY <1>1, NormalisedType DEF Mine
<1>2. CASE ReceiveResult BY <1>2 DEF ReceiveResult
<1>3. CASE CloseStop BY <1>3 DEF CloseStop
<1>4. CASE StoreResult BY <1>4 DEF StoreResult, Block
<1>5. ASSUME NEW w \in Workers, Worker(w) PROVE EngineTypeOK'
  <2>1. CASE Check(w) BY <2>1 DEF Check
  <2>2. CASE Claim(w) BY <2>2 DEF Claim
  <2>3. CASE SearchBeyond(w) BY <2>3 DEF SearchBeyond
  <2>4. CASE HashNonce(w)
    <3> DEFINE found == AssembleBlockData(block, localNonce[w])
    <3>1. found \in Hash BY DEF AssembleBlockData, Hash
    <3> HIDE DEF found
    <3>2. tried' = [tried EXCEPT ![w] = @ \cup {localNonce[w]}] BY <2>4 DEF HashNonce
    <3>3. \/ /\ hash' = [hash EXCEPT ![w] = found]
             /\ at' = [at EXCEPT ![w] = "send"]
             /\ localNonce' = localNonce
          \/ /\ hash' = hash
             /\ at' = [at EXCEPT ![w] = "check"]
             /\ localNonce' = [localNonce EXCEPT ![w] = @ + 1]
      BY <2>4 DEF HashNonce, found
    <3>4. UNCHANGED <<inputs, shared, caller, answer>> BY <2>4 DEF HashNonce
    <3>5. /\ localNonce[w] \in Nat /\ localNonce[w] + 1 \in Nat
          /\ tried \in [Workers -> SUBSET Nat] /\ localNonce \in [Workers -> Nat]
          /\ hash \in [Workers -> Hash \cup {NoHash}]
          /\ at \in [Workers -> {"created", "check", "claim", "hash", "send", "done"}]
      OBVIOUS
    <3> HIDE DEF EngineTypeOK
    <3>6. tried' \in [Workers -> SUBSET Nat] BY <3>2, <3>5
    <3>7. localNonce' \in [Workers -> Nat] BY <3>3, <3>5
    <3>8. at' \in [Workers -> {"created", "check", "claim", "hash", "send", "done"}]
      BY <3>3, <3>5
    <3>9. hash' \in [Workers -> Hash \cup {NoHash}] BY <3>1, <3>3, <3>5
    <3> USE DEF EngineTypeOK
    <3> QED BY <3>4, <3>6, <3>7, <3>8, <3>9
  <2>5. CASE Send(w)
    <3>1. hash[w] \in Hash BY <2>5 DEF Send, ResultsKnown, Promised
    <3>2. <<hash[w]>> \in Seq(Hash) /\ Len(<<hash[w]>>) = 1 BY <3>1
    <3> QED BY <2>5, <3>2 DEF Send
  <2> QED BY <1>5, <2>1, <2>2, <2>3, <2>4, <2>5 DEF Worker
<1>6. CASE UNCHANGED engineVars BY <1>6
<1> QED BY <1>1, <1>2, <1>3, <1>4, <1>5, <1>6 DEF EngineNext, Caller

----------------------------------------------------------------------------
(* Results *)

(* Until the caller writes to the block, what is found and sent is a hash of *)
(* the block as Mine completed it.                                           *)
LEMMA ResultsNext ==
  EngineTypeOK /\ ResultsKnown /\ [EngineNext]_engineVars => ResultsKnown'
<1> SUFFICES ASSUME EngineTypeOK, ResultsKnown, [EngineNext]_engineVars PROVE ResultsKnown'
  OBVIOUS
<1> USE DEF engineVars, inputs, shared, workers
<1>p. Promised \subseteq winning /\ (UNCHANGED inputs => Promised' = Promised)
  BY DEF Promised
<1>1. CASE Mine BY <1>1, <1>p DEF Mine, ResultsKnown, EngineTypeOK
<1>2. CASE ReceiveResult BY <1>2, <1>p DEF ReceiveResult, ResultsKnown, EngineTypeOK
<1>3. CASE CloseStop BY <1>3, <1>p DEF CloseStop, ResultsKnown
<1>4. CASE StoreResult BY <1>4, <1>p DEF StoreResult, ResultsKnown
<1>5. ASSUME NEW w \in Workers, Worker(w) PROVE ResultsKnown'
  <2>0. at[w] # "created" => caller # "call"
    BY DEF ResultsKnown
  <2>1. CASE Check(w) BY <2>0, <2>1, <1>p DEF Check, ResultsKnown, EngineTypeOK
  <2>2. CASE Claim(w) BY <2>0, <2>2, <1>p DEF Claim, ResultsKnown, EngineTypeOK
  <2>3. CASE SearchBeyond(w) BY <2>0, <2>3, <1>p DEF SearchBeyond, ResultsKnown, EngineTypeOK
  <2>4. CASE HashNonce(w)
    <3> DEFINE found == AssembleBlockData(block, localNonce[w])
    <3>1. found.block = block BY DEF AssembleBlockData
    <3>2. caller \notin {"call", "done"} => block = Normalised(called)
      BY <2>0, <2>4 DEF ResultsKnown, EngineTypeOK, HashNonce
    <3>3. found \in winning => found \in (IF caller = "done" THEN winning ELSE Promised)
      BY <2>0, <2>4, <3>1, <3>2 DEF Promised, HashNonce
    <3> HIDE DEF found
    <3>4. \/ /\ found \in winning
             /\ hash' = [hash EXCEPT ![w] = found]
             /\ at' = [at EXCEPT ![w] = "send"]
          \/ at' = [at EXCEPT ![w] = "check"] /\ hash' = hash
      BY <2>4 DEF HashNonce, found, ValidateHash
    <3>5. UNCHANGED <<inputs, shared, caller, answer>> BY <2>4 DEF HashNonce
    <3> QED BY <2>0, <2>4, <3>3, <3>4, <3>5, <1>p DEF ResultsKnown, EngineTypeOK, HashNonce
  <2>5. CASE Send(w) BY <2>0, <2>5, <1>p DEF Send, ResultsKnown, EngineTypeOK
  <2> QED BY <1>5, <2>1, <2>2, <2>3, <2>4, <2>5 DEF Worker
<1>6. CASE UNCHANGED engineVars BY <1>6, <1>p DEF ResultsKnown
<1> QED BY <1>1, <1>2, <1>3, <1>4, <1>5, <1>6 DEF EngineNext, Caller

----------------------------------------------------------------------------
(* Ranges *)

(* Range numbers are naturals. *)
LEMMA RangeNumbers ==
  ASSUME NEW n \in Nat
  PROVE  RangeOf(n) \in Nat
  BY QuotientRemainder, EngineAssumption DEF RangeOf

(* A claim takes the range after every range claimed so far. *)
LEMMA ClaimRange ==
  ASSUME NEW w \in Workers, EngineTypeOK, RangesKnown, Claim(w)
  PROVE  RangesKnown'
<1> USE DEF EngineTypeOK
<1>1. /\ baseNonce' = baseNonce + Chunk
      /\ localNonce' = [localNonce EXCEPT ![w] = baseNonce']
      /\ at' = [at EXCEPT ![w] = "hash"]
      /\ tried' = tried
  BY DEF Claim
<1>2. /\ baseNonce' % Chunk = 0
      /\ RangeOf(baseNonce') = RangeOf(baseNonce) + 1
  BY <1>1, NextRange, EngineAssumption DEF RangesKnown, RangeOf
<1>3. RangeOf(baseNonce) \in Nat BY RangeNumbers
<1>4. \A v \in Workers : \A n \in tried[v] : RangeOf(n) \in Nat BY RangeNumbers
<1>5. \A v \in Workers : RangeOf(localNonce[v]) \in Nat BY RangeNumbers
<1>6. localNonce'[w] = baseNonce' /\ InRange(w)'
  BY <1>1 DEF InRange
<1>7. \A v \in Workers \ {w} : localNonce'[v] = localNonce[v] /\ (InRange(v)' <=> InRange(v))
  BY <1>1 DEF InRange
<1> DEFINE range(n) == RangeOf(n)
<1>8. range(localNonce'[w]) = RangeOf(baseNonce) + 1 BY <1>2, <1>6
<1>9. \A v \in Workers \ {w} : range(localNonce'[v]) = RangeOf(localNonce[v]) BY <1>7
<1>10. \A v \in Workers :
         /\ \A n \in tried'[v] : RangeOf(n) <= RangeOf(baseNonce')
         /\ InRange(v)' => range(localNonce'[v]) <= RangeOf(baseNonce')
         /\ at'[v] \in {"created", "claim"} => localNonce'[v] % Chunk = 0
  BY <1>1, <1>2, <1>3, <1>4, <1>5, <1>7, <1>8, <1>9 DEF RangesKnown
<1>11. ASSUME NEW u \in Workers, NEW v \in Workers, u # v
       PROVE  /\ \A m \in tried'[u], n \in tried'[v] : RangeOf(m) # RangeOf(n)
              /\ InRange(u)' => \A n \in tried'[v] : range(localNonce'[u]) # RangeOf(n)
              /\ InRange(u)' /\ InRange(v)' => range(localNonce'[u]) # range(localNonce'[v])
  <2>1. CASE u = w
    BY <1>1, <1>3, <1>4, <1>5, <1>7, <1>8, <1>9, <1>11, <2>1 DEF RangesKnown
  <2>2. CASE v = w
    BY <1>1, <1>3, <1>4, <1>5, <1>7, <1>8, <1>9, <1>11, <2>2 DEF RangesKnown
  <2>3. CASE u # w /\ v # w
    BY <1>1, <1>7, <1>9, <1>11, <2>3 DEF RangesKnown
  <2> QED BY <2>1, <2>2, <2>3
<1> QED BY <1>2, <1>10, <1>11 DEF RangesKnown, RangeOf

(* Hashing stays in the worker's range. *)
LEMMA HashRange ==
  ASSUME NEW w \in Workers, EngineTypeOK, RangesKnown, HashNonce(w)
  PROVE  RangesKnown'
<1> USE DEF EngineTypeOK
<1>1. /\ baseNonce' = baseNonce
      /\ tried' = [tried EXCEPT ![w] = @ \cup {localNonce[w]}]
      /\ InRange(w)
  BY DEF HashNonce, shared, InRange
<1>2. \A v \in Workers \ {w} : localNonce'[v] = localNonce[v] /\ (InRange(v)' <=> InRange(v))
  BY DEF HashNonce, InRange
<1>3. InRange(w)' => RangeOf(localNonce'[w]) = RangeOf(localNonce[w])
  <2> SUFFICES ASSUME InRange(w)' PROVE RangeOf(localNonce'[w]) = RangeOf(localNonce[w])
    OBVIOUS
  <2>1. at'[w] = "check" /\ localNonce'[w] = localNonce[w] + 1
    BY DEF HashNonce, InRange
  <2>2. (localNonce[w] + 1) % Chunk # 0
    BY <2>1 DEF InRange
  <2> QED BY <2>1, <2>2, SameRange, EngineAssumption DEF RangeOf
<1>4. tried'[w] = tried[w] \cup {localNonce[w]} /\ \A v \in Workers \ {w} : tried'[v] = tried[v]
  BY <1>1
<1>5. RangeOf(baseNonce') = RangeOf(baseNonce) BY <1>1
<1>6. ASSUME NEW v \in Workers
      PROVE  /\ \A n \in tried'[v] : RangeOf(n) <= RangeOf(baseNonce')
             /\ InRange(v)' => RangeOf(localNonce'[v]) <= RangeOf(baseNonce')
             /\ at'[v] \in {"created", "claim"} => localNonce'[v] % Chunk = 0
  BY <1>1, <1>2, <1>3, <1>4, <1>5 DEF RangesKnown, HashNonce
<1>7. ASSUME NEW u \in Workers, NEW v \in Workers, u # v
      PROVE  /\ \A m \in tried'[u], n \in tried'[v] : RangeOf(m) # RangeOf(n)
             /\ InRange(u)' => \A n \in tried'[v] : RangeOf(localNonce'[u]) # RangeOf(n)
             /\ InRange(u)' /\ InRange(v)' => RangeOf(localNonce'[u]) # RangeOf(localNonce'[v])
  <2>1. CASE u = w
    BY <1>1, <1>2, <1>3, <1>4, <1>7, <2>1 DEF RangesKnown
  <2>2. CASE v = w
    BY <1>1, <1>2, <1>3, <1>4, <1>7, <2>2 DEF RangesKnown
  <2>3. CASE u # w /\ v # w
    BY <1>2, <1>4, <1>7, <2>3 DEF RangesKnown
  <2> QED BY <2>1, <2>2, <2>3
<1>8. baseNonce' % Chunk = 0 BY <1>1 DEF RangesKnown
<1> QED BY <1>6, <1>7, <1>8 DEF RangesKnown, RangeOf

(* A step that leaves nonces, counter and history alone and lets no worker   *)
(* into a range keeps the ranges.                                            *)
LEMMA KeepRanges ==
  ASSUME RangesKnown,
         UNCHANGED <<baseNonce, localNonce, tried>>,
         \A w \in Workers : InRange(w)' => InRange(w),
         \A w \in Workers : at'[w] \in {"created", "claim"} => localNonce[w] % Chunk = 0
  PROVE  RangesKnown'
  BY DEF RangesKnown, RangeOf

(* What is known of the ranges stays known. *)
LEMMA RangesNext ==
  EngineTypeOK /\ ResultsKnown /\ RangesKnown /\ [EngineNext]_engineVars => RangesKnown'
<1> SUFFICES ASSUME EngineTypeOK, ResultsKnown, RangesKnown, [EngineNext]_engineVars
             PROVE  RangesKnown'
  OBVIOUS
<1> USE DEF engineVars, inputs, shared, workers
<1>m. \A w \in Workers : at[w] \in {"created", "claim"} => localNonce[w] % Chunk = 0
  BY DEF RangesKnown
<1>1. CASE Mine
  <2>1. \A w \in Workers : at[w] = "created" /\ at'[w] = "check" /\ localNonce' = localNonce
    BY <1>1 DEF Mine, ResultsKnown
  <2>2. \A w \in Workers : ~InRange(w)'
    BY <1>m, <2>1 DEF InRange
  <2>3. UNCHANGED <<baseNonce, localNonce, tried>>
    BY <1>1 DEF Mine
  <2> QED BY <2>1, <2>2, <2>3, KeepRanges
<1>2. CASE ReceiveResult BY <1>2, <1>m, KeepRanges DEF ReceiveResult, InRange
<1>3. CASE CloseStop BY <1>3, <1>m, KeepRanges DEF CloseStop, InRange
<1>4. CASE StoreResult BY <1>4, <1>m, KeepRanges DEF StoreResult, InRange
<1>5. ASSUME NEW w \in Workers, Worker(w) PROVE RangesKnown'
  <2>1. CASE Check(w) BY <2>1, <1>m, KeepRanges DEF Check, InRange, EngineTypeOK
  <2>2. CASE Claim(w) BY <2>2, ClaimRange
  <2>3. CASE SearchBeyond(w)
    <3>1. localNonce[w] % Chunk = 0 BY <1>m, <2>3 DEF SearchBeyond
    <3> QED BY <2>3, <3>1, <1>m, KeepRanges DEF SearchBeyond, InRange, EngineTypeOK
  <2>4. CASE HashNonce(w) BY <2>4, HashRange
  <2>5. CASE Send(w) BY <2>5, <1>m, KeepRanges DEF Send, InRange, EngineTypeOK
  <2> QED BY <1>5, <2>1, <2>2, <2>3, <2>4, <2>5 DEF Worker
<1>6. CASE UNCHANGED engineVars BY <1>6, <1>m, KeepRanges DEF InRange
<1> QED BY <1>1, <1>2, <1>3, <1>4, <1>5, <1>6 DEF EngineNext, Caller

----------------------------------------------------------------------------
(* Nothing is skipped *)

(* A step that leaves nonces, counter and history alone, and the workers in  *)
(* their ranges, covers what was covered.                                    *)
LEMMA KeepCovered ==
  ASSUME NothingSkipped,
         UNCHANGED <<baseNonce, localNonce, tried>>,
         \A w \in Workers : at[w] \in {"send", "done"} => at'[w] \in {"send", "done"},
         \A w \in Workers : at'[w] \notin {"send", "done"} /\ InRange(w) => InRange(w)'
  PROVE  NothingSkipped'
<1> SUFFICES ASSUME \A w \in Workers : at'[w] \notin {"send", "done"},
                    NEW n \in Chunk .. baseNonce + Chunk - 1
             PROVE  \E w \in Workers : n \in tried'[w] \cup Ahead(w)'
  BY DEF NothingSkipped
<1>1. PICK w \in Workers : n \in tried[w] \cup Ahead(w)
  BY DEF NothingSkipped
<1>2. n \in Ahead(w) => n \in Ahead(w)'
  BY DEF Ahead
<1> QED BY <1>1, <1>2

(* The nonces of a new range lie ahead of the worker that claimed it.        *)
LEMMA ClaimCovers ==
  ASSUME NEW w \in Workers, EngineTypeOK, RangesKnown, NothingSkipped, Claim(w)
  PROVE  NothingSkipped'
<1> USE DEF EngineTypeOK
<1>1. /\ at[w] = "claim" /\ at' = [at EXCEPT ![w] = "hash"] /\ tried' = tried
      /\ baseNonce' = baseNonce + Chunk
      /\ localNonce' = [localNonce EXCEPT ![w] = baseNonce + Chunk]
  BY DEF Claim
<1>2. Chunk \in Nat \ {0} /\ baseNonce \in Nat /\ baseNonce % Chunk = 0
  BY EngineAssumption DEF RangesKnown
<1>3. \A v \in Workers \ {w} : Ahead(v)' = Ahead(v)
  <2> TAKE v \in Workers \ {w}
  <2>1. at'[v] = at[v] /\ localNonce'[v] = localNonce[v]
    BY <1>1
  <2> QED BY <2>1 DEF Ahead, InRange
<1>4. Ahead(w) = {}
  BY <1>1 DEF Ahead, InRange
<1>5. localNonce'[w] = baseNonce + Chunk /\ InRange(w)'
  BY <1>1 DEF InRange
<1>6. ASSUME NEW n \in baseNonce + Chunk .. baseNonce + Chunk + Chunk - 1
      PROVE  n \in Ahead(w)'
  <2> DEFINE first == baseNonce + Chunk
             q == first \div Chunk
             p == n \div Chunk
             r == n % Chunk
  <2>1. first \in Nat /\ first % Chunk = 0
    <3>1. (baseNonce + Chunk) % Chunk = 0
      BY <1>2, NextRange
    <3> QED BY <1>2, <3>1
  <2>2. q \in Nat /\ first = (Chunk * q) + 0
    BY <1>2, <2>1, QuotientRemainder
  <2>3. n \in Nat /\ n - first \in 0 .. Chunk - 1
    BY <1>2, <1>6
  <2>4. p \in Nat /\ r \in 0 .. Chunk - 1 /\ n = (Chunk * p) + r
    BY <1>2, <2>3, QuotientRemainder
  <2>5. n \in first .. first + Chunk - 1
    BY <1>6
  <2> HIDE DEF p, q, r, first
  <2>6. (Chunk * p) + r = (Chunk * q) + (n - first)
    BY <1>2, <2>1, <2>2, <2>3, <2>4
  <2>7. p = q
    BY <1>2, <2>2, <2>3, <2>4, <2>6, QuotientUnique
  <2> QED BY <1>5, <2>5, <2>7 DEF Ahead, p, q, first
<1> SUFFICES ASSUME \A v \in Workers : at'[v] \notin {"send", "done"},
                    NEW n \in Chunk .. baseNonce + Chunk + Chunk - 1
             PROVE  \E v \in Workers : n \in tried'[v] \cup Ahead(v)'
  BY <1>1 DEF NothingSkipped
<1>7. CASE n \in Chunk .. baseNonce + Chunk - 1
  <2>1. \A v \in Workers : at[v] \notin {"send", "done"}
    BY <1>1
  <2>2. PICK v \in Workers : n \in tried[v] \cup Ahead(v)
    BY <1>7, <2>1 DEF NothingSkipped
  <2> QED BY <1>1, <1>3, <1>4, <2>2
<1>8. CASE n \notin Chunk .. baseNonce + Chunk - 1
  <2>1. n \in baseNonce + Chunk .. baseNonce + Chunk + Chunk - 1
    BY <1>2, <1>8
  <2> QED BY <1>6, <2>1
<1> QED BY <1>7, <1>8

(* A nonce that is hashed moves from ahead to behind.                        *)
LEMMA HashCovers ==
  ASSUME NEW w \in Workers, EngineTypeOK, NothingSkipped, HashNonce(w)
  PROVE  NothingSkipped'
<1> USE DEF EngineTypeOK
<1> SUFFICES ASSUME \A v \in Workers : at'[v] \notin {"send", "done"},
                    NEW n \in Chunk .. baseNonce + Chunk - 1
             PROVE  \E v \in Workers : n \in tried'[v] \cup Ahead(v)'
  BY DEF NothingSkipped, HashNonce, shared
<1>1. /\ at[w] = "hash" /\ at' = [at EXCEPT ![w] = "check"]
      /\ localNonce' = [localNonce EXCEPT ![w] = @ + 1]
      /\ tried' = [tried EXCEPT ![w] = @ \cup {localNonce[w]}]
  BY DEF HashNonce
<1>2. \A v \in Workers : at[v] \notin {"send", "done"}
  BY <1>1
<1>3. PICK v \in Workers : n \in tried[v] \cup Ahead(v)
  BY <1>2 DEF NothingSkipped
<1>4. CASE n \in tried[v]
  BY <1>1, <1>3, <1>4
<1>5. CASE v # w /\ n \in Ahead(v)
  <2>1. at'[v] = at[v] /\ localNonce'[v] = localNonce[v]
    BY <1>1, <1>5
  <2> QED BY <1>3, <1>5, <2>1 DEF Ahead, InRange
<1>6. CASE v = w /\ n \in Ahead(w)
  <2> DEFINE l == localNonce[w]
  <2>1. l \in Nat /\ Chunk \in Nat \ {0} /\ n \in l .. l + Chunk - 1 /\ n \div Chunk = l \div Chunk
    BY <1>6, EngineAssumption DEF Ahead
  <2>2. at'[w] = "check" /\ localNonce'[w] = l + 1 /\ tried'[w] = tried[w] \cup {l}
    BY <1>1
  <2> HIDE DEF l
  <2>3. CASE n = l
    BY <2>2, <2>3
  <2>4. CASE n # l
    <3>1. n \in Nat /\ n \in l + 1 .. l + 1 + Chunk - 1
      BY <2>1, <2>4
    <3>2. (l + 1) % Chunk # 0
      <4> SUFFICES ASSUME (l + 1) % Chunk = 0 PROVE FALSE
        OBVIOUS
      <4> DEFINE q == n \div Chunk
                 p == (l + 1) \div Chunk
                 r == l % Chunk
                 s == n % Chunk
      <4>1. l = (Chunk * q) + r /\ r \in 0 .. Chunk - 1 /\ q \in Nat
        BY <2>1, QuotientRemainder
      <4>2. n = (Chunk * q) + s /\ s \in 0 .. Chunk - 1
        BY <2>1, <3>1, QuotientRemainder
      <4>3. l + 1 = (Chunk * p) + 0 /\ p \in Nat
        BY <2>1, QuotientRemainder, l + 1 \in Nat
      <4> HIDE DEF p, q, r, s
      <4>4. r + 1 \in 0 .. Chunk - 1
        BY <2>1, <3>1, <4>1, <4>2
      <4>5. (Chunk * q) + (r + 1) = (Chunk * p) + 0
        BY <2>1, <4>1, <4>3
      <4>6. r + 1 = 0
        <5>1. q \in Int /\ p \in Int /\ 0 \in 0 .. Chunk - 1
          BY <2>1, <4>1, <4>3
        <5>2. \A a, b \in 0 .. Chunk - 1 : (Chunk * q) + a = (Chunk * p) + b => a = b
          BY <2>1, <5>1, QuotientUnique
        <5> DEFINE next == r + 1
        <5>3. next \in 0 .. Chunk - 1 /\ (Chunk * q) + next = (Chunk * p) + 0
          BY <4>4, <4>5
        <5> HIDE DEF next
        <5>4. next = 0
          BY <5>1, <5>2, <5>3
        <5> QED BY <5>4 DEF next
      <4> QED BY <4>1, <4>6
    <3>3. (l + 1) \div Chunk = l \div Chunk
      BY <2>1, <3>2, SameRange
    <3>4. n \in Ahead(w)'
      BY <2>1, <2>2, <3>1, <3>2, <3>3 DEF Ahead, InRange
    <3> QED BY <3>4
  <2> QED BY <2>3, <2>4
<1> QED BY <1>3, <1>4, <1>5, <1>6

(* No step skips a nonce of a claimed range.                                 *)
LEMMA SkippedNext ==
  EngineIInv /\ NothingSkipped /\ [EngineNext]_engineVars => NothingSkipped'
<1> SUFFICES ASSUME EngineIInv, NothingSkipped, [EngineNext]_engineVars
             PROVE  NothingSkipped'
  OBVIOUS
<1> USE DEF engineVars, inputs, shared, workers
<1>1. CASE Mine
  <2>1. \A w \in Workers : at[w] = "created" /\ at'[w] = "check"
    BY <1>1 DEF Mine, EngineIInv, ResultsKnown
  <2>2. \A w \in Workers : ~InRange(w)
    BY <2>1 DEF InRange
  <2>3. UNCHANGED <<baseNonce, localNonce, tried>>
    BY <1>1 DEF Mine
  <2> QED BY <2>1, <2>2, <2>3, KeepCovered
<1>2. CASE ReceiveResult BY <1>2, KeepCovered DEF ReceiveResult, InRange
<1>3. CASE CloseStop BY <1>3, KeepCovered DEF CloseStop, InRange
<1>4. CASE StoreResult BY <1>4, KeepCovered DEF StoreResult, InRange
<1>5. ASSUME NEW w \in Workers, Worker(w) PROVE NothingSkipped'
  <2>1. CASE Check(w) BY <2>1, KeepCovered DEF Check, InRange, EngineIInv, EngineTypeOK
  <2>2. CASE Claim(w) BY <2>2, ClaimCovers DEF EngineIInv
  <2>3. CASE SearchBeyond(w) BY <2>3, KeepCovered DEF SearchBeyond, InRange, EngineIInv, EngineTypeOK
  <2>4. CASE HashNonce(w) BY <2>4, HashCovers DEF EngineIInv
  <2>5. CASE Send(w) BY <2>5, KeepCovered DEF Send, InRange, EngineIInv, EngineTypeOK
  <2> QED BY <1>5, <2>1, <2>2, <2>3, <2>4, <2>5 DEF Worker
<1>6. CASE UNCHANGED engineVars BY <1>6, KeepCovered DEF InRange
<1> QED BY <1>1, <1>2, <1>3, <1>4, <1>5, <1>6 DEF EngineNext, Caller

----------------------------------------------------------------------------
(* Theorems *)

(* The engine starts with no results and no ranges. *)
LEMMA EngineStart == EngineInit => EngineIInv
<1> SUFFICES ASSUME EngineInit PROVE EngineIInv
  OBVIOUS
<1>1. EngineTypeOK BY TypesInit
<1>2. ResultsKnown BY DEF EngineInit, ResultsKnown
<1>3. \A w \in Workers : tried[w] = {} /\ at[w] = "created" /\ localNonce[w] % Chunk = 0
  BY EngineAssumption DEF EngineInit
<1>4. baseNonce % Chunk = 0
  <2>1. 0 = (Chunk * (0 \div Chunk)) + (0 % Chunk) /\ 0 % Chunk \in 0 .. Chunk - 1
        /\ 0 \div Chunk \in Nat
    BY QuotientRemainder, EngineAssumption
  <2>2. 0 = (Chunk * 0) + 0 /\ 0 \in 0 .. Chunk - 1
    BY EngineAssumption
  <2>3. 0 % Chunk = 0
    BY <2>1, <2>2, QuotientUnique, EngineAssumption
  <2> QED BY <2>3 DEF EngineInit
<1>5. RangesKnown BY <1>3, <1>4 DEF RangesKnown, InRange
<1> QED BY <1>1, <1>2, <1>5 DEF EngineIInv

(* EngineIInv is an invariant of the engine. *)
THEOREM EngineInvariant == EngineSpec => []EngineIInv
<1>1. EngineIInv /\ [EngineNext]_engineVars => EngineIInv'
  BY TypesNext, ResultsNext, RangesNext DEF EngineIInv
<1> QED BY <1>1, EngineStart, PTL DEF EngineSpec

(* Type correctness, the capacity of the channel included. *)
THEOREM EngineTypes == EngineSpec => []EngineTypeOK
<1>1. EngineIInv => EngineTypeOK BY DEF EngineIInv
<1> QED BY <1>1, EngineInvariant, PTL

(* No nonce is hashed by two workers, however many there are and however     *)
(* their steps interleave.                                                   *)
THEOREM EngineRangesDisjoint == EngineSpec => []RangesDisjoint
<1>1. EngineIInv => RangesDisjoint
  BY DEF EngineIInv, RangesKnown, RangesDisjoint
<1> QED BY <1>1, EngineInvariant, PTL

(* No nonce of a claimed range is passed over as long as no worker has       *)
(* ended: a winning one will be found by whoever claimed its range.          *)
THEOREM EngineNothingSkipped == EngineSpec => []NothingSkipped
<1>1. EngineInit => NothingSkipped
  <2> SUFFICES ASSUME EngineInit PROVE NothingSkipped
    OBVIOUS
  <2>1. baseNonce = 0 /\ Chunk \in Nat /\ Chunk .. baseNonce + Chunk - 1 = {}
    BY EngineAssumption DEF EngineInit
  <2> QED BY <2>1 DEF NothingSkipped
<1> QED BY <1>1, SkippedNext, EngineInvariant, PTL DEF EngineSpec

(* What is stored is what was hashed, unless the reward was used up. *)
THEOREM EngineHashCommits == EngineSpec => []HashCommits
<1>1. EngineIInv => HashCommits
  <2> SUFFICES ASSUME EngineIInv, caller = "done", called.reward > 0 \/ called.index = 0
               PROVE  answer.block = block
    BY DEF HashCommits
  <2>1. answer.block = Normalised(called)
    BY DEF EngineIInv, ResultsKnown, Promised
  <2>2. block = [Normalised(called) EXCEPT !.reward = called.reward]
    BY DEF EngineIInv, ResultsKnown
  <2>3. called \in Block BY DEF EngineIInv, EngineTypeOK
  <2>4. [Normalised(called) EXCEPT !.reward = called.reward] = Normalised(called)
    <3>1. Normalised(called) \in Block BY <2>3, NormalisedType
    <3>2. Normalised(called).reward = called.reward
      <4>1. CASE called.reward > 0 BY <2>3, <4>1 DEF Normalised, Block
      <4>2. CASE called.index = 0 BY <2>3, <4>2 DEF Normalised, Block
      <4> QED BY <4>1, <4>2
    <3>3. \A b \in Block : [b EXCEPT !.reward = b.reward] = b BY DEF Block
    <3> QED BY <3>1, <3>2, <3>3
  <2> QED BY <2>1, <2>2, <2>4
<1> QED BY <1>1, EngineInvariant, PTL

(* The engine with its workers implements the single step of ProofOfWork. *)
THEOREM EngineImplementsProofOfWork == EngineSpec => ImplementsProofOfWork
<1>1. EngineInit => P!PowInit BY DEF EngineInit, P!PowInit
<1>2. EngineIInv /\ [EngineNext]_engineVars => [P!Answer]_P!powVars
  <2> SUFFICES ASSUME EngineIInv, [EngineNext]_engineVars PROVE [P!Answer]_P!powVars
    OBVIOUS
  <2> USE DEF engineVars, inputs, shared, workers, P!powVars
  <2>0. UNCHANGED <<winning, Normalised(called)>>
    BY DEF EngineNext, Caller, Mine, ReceiveResult, CloseStop, StoreResult,
           Worker, Check, Claim, SearchBeyond, HashNonce, Send, Normalised
  <2>1. CASE ReceiveResult
    <3>1. answer = NoHash /\ resultChan[1] \in Promised
      BY <2>1 DEF ReceiveResult, EngineIInv, ResultsKnown
    <3> QED BY <2>0, <2>1, <3>1 DEF ReceiveResult, P!Answer, Promised
  <2>2. CASE ~ReceiveResult
    <3>1. UNCHANGED answer
      BY <2>2 DEF EngineNext, Caller, Mine, CloseStop, StoreResult,
                  Worker, Check, Claim, SearchBeyond, HashNonce, Send
    <3> QED BY <2>0, <3>1
  <2> QED BY <2>1, <2>2
<1> QED BY <1>1, <1>2, EngineInvariant, PTL DEF ImplementsProofOfWork, P!PowSpec, EngineSpec

=============================================================================
