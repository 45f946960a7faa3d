---------------------------- MODULE AccountProofs ----------------------------
(***************************************************************************)
(* What the balances of a ledger have to do with its blocks, for every     *)
(* value of the constants: AccountsInv is an invariant; the balances of a  *)
(* running ledger are those a restart rebuilds, no stored block is replayed *)
(* but exactly, and no coin is created or lost.                            *)
(***************************************************************************)
EXTENDS LedgerAccounts, LedgerProofs, FiniteSetTheorems

----------------------------------------------------------------------------
(* What a replay computes. *)

Accounts == [Account -> AccountState]

(* The replay of a list of transfers is the last of its intermediate states. *)
LEMMA ReplayTransfersRecursion ==
  ASSUME NEW accounts \in Accounts, NEW ts \in Seq(Transfers)
  PROVE  \E g \in [0 .. Len(ts) -> Accounts] :
           /\ g[0] = accounts
           /\ \A i \in 1 .. Len(ts) : g[i] = ReplayTransfer(g[i - 1], ts[i])
           /\ ReplayTransfers(accounts, ts) = g[Len(ts)]
<1> DEFINE n == Len(ts)
           step == [p \in (1 .. n) \X Accounts |-> ReplayTransfer(p[2], ts[p[1]])]
           IsReplay(f) == f = [i \in 0 .. n |-> IF i = 0 THEN accounts
                                                ELSE ReplayTransfer(f[i - 1], ts[i])]
           replayed == CHOOSE f : IsReplay(f)
<1>1. n \in Nat
  OBVIOUS
<1>2. step \in [(1 .. n) \X Accounts -> Accounts]
  BY ReplayTransferType DEF Accounts
<1>3. PICK g \in [0 .. n -> Accounts] : IsFold(g, accounts, n, step)
  <2> HIDE DEF n, step
  <2> QED  BY <1>1, <1>2, FoldExists
<1>4. g[0] = accounts /\ \A i \in 1 .. n : g[i] = ReplayTransfer(g[i - 1], ts[i])
  <2>1. ASSUME NEW i \in 1 .. n PROVE g[i] = ReplayTransfer(g[i - 1], ts[i])
    <3>1. i - 1 \in 0 .. n /\ g[i - 1] \in Accounts
      BY <1>1, <1>3
    <3>2. step[<<i, g[i - 1]>>] = ReplayTransfer(g[i - 1], ts[i])
      BY <3>1
    <3>3. QED
      BY <1>3, <3>2 DEF IsFold
  <2>2. QED
    BY <1>3, <2>1 DEF IsFold
<1>5. IsReplay(g)
  <2>1. g = [i \in 0 .. n |-> g[i]]
    BY <1>3
  <2>2. ASSUME NEW i \in 0 .. n
        PROVE  g[i] = IF i = 0 THEN accounts ELSE ReplayTransfer(g[i - 1], ts[i])
    <3>1. i # 0 => i \in 1 .. n
      OBVIOUS
    <3>2. QED
      BY <1>4, <3>1
  <2>3. QED
    BY <2>1, <2>2
<1>6. IsReplay(replayed)
  BY <1>5
<1>7. ReplayTransfers(accounts, ts) = replayed[n]
  BY DEF ReplayTransfers
<1> HIDE DEF replayed, step
<1>8. \A i \in 0 .. n : replayed[i] = g[i]
  <2> DEFINE T == {i \in Nat : i <= n => replayed[i] = g[i]}
  <2>0. \A i \in 0 .. n : replayed[i] = IF i = 0 THEN accounts
                                        ELSE ReplayTransfer(replayed[i - 1], ts[i])
    BY <1>6
  <2>1. 0 \in T
    BY <1>1, <1>4, <2>0
  <2>2. ASSUME NEW i \in Nat, i \in T PROVE i + 1 \in T
    <3>1. SUFFICES ASSUME i + 1 <= n PROVE replayed[i + 1] = g[i + 1]
      OBVIOUS
    <3>2. i + 1 \in 0 .. n /\ i + 1 \in 1 .. n /\ i + 1 # 0 /\ (i + 1) - 1 = i
      BY <1>1, <3>1
    <3>3. replayed[i + 1] = ReplayTransfer(replayed[i], ts[i + 1])
      BY <2>0, <3>2
    <3>4. g[i + 1] = ReplayTransfer(g[i], ts[i + 1])
      BY <1>4, <3>2
    <3>5. replayed[i] = g[i]
      BY <1>1, <2>2, <3>1
    <3>6. QED
      BY <3>3, <3>4, <3>5
  <2>3. Nat \subseteq T
    BY <2>1, <2>2, SetInduction
  <2>4. QED
    BY <1>1, <2>3
<1>9. n \in 0 .. n
  BY <1>1
<1>10. QED
  BY <1>3, <1>4, <1>7, <1>8, <1>9

(* An empty list changes nothing.                                           *)
LEMMA ReplayNoTransfers ==
  ASSUME NEW accounts \in Accounts
  PROVE  ReplayTransfers(accounts, <<>>) = accounts
<1> DEFINE none == <<>>
<1>1. none \in Seq(Transfers) /\ Len(none) = 0
  OBVIOUS
<1> HIDE DEF none
<1>2. PICK g \in [0 .. Len(none) -> Accounts] :
        g[0] = accounts /\ ReplayTransfers(accounts, none) = g[Len(none)]
  BY <1>1, ReplayTransfersRecursion
<1>3. QED
  BY <1>1, <1>2 DEF none

(* Replays keep the accounts well typed.                                    *)
LEMMA ReplayTransfersType ==
  ASSUME NEW accounts \in Accounts, NEW ts \in Seq(Transfers)
  PROVE  ReplayTransfers(accounts, ts) \in Accounts
<1>1. PICK g \in [0 .. Len(ts) -> Accounts] : ReplayTransfers(accounts, ts) = g[Len(ts)]
  BY ReplayTransfersRecursion
<1>2. Len(ts) \in 0 .. Len(ts)
  OBVIOUS
<1>3. QED
  BY <1>1, <1>2

(* A longer list is replayed by replaying the shorter one and what is       *)
(* appended to it.                                                          *)
LEMMA ReplayTransfersAppend ==
  ASSUME NEW accounts \in Accounts, NEW ts \in Seq(Transfers), NEW tx \in Transfers
  PROVE  ReplayTransfers(accounts, Append(ts, tx))
           = ReplayTransfer(ReplayTransfers(accounts, ts), tx)
<1> DEFINE n == Len(ts)
           us == Append(ts, tx)
<1>1. /\ n \in Nat /\ us \in Seq(Transfers) /\ Len(us) = n + 1
      /\ \A i \in 1 .. n : us[i] = ts[i]
      /\ us[n + 1] = tx
  OBVIOUS
<1>2. PICK g \in [0 .. n -> Accounts] :
        /\ g[0] = accounts
        /\ \A i \in 1 .. n : g[i] = ReplayTransfer(g[i - 1], ts[i])
        /\ ReplayTransfers(accounts, ts) = g[n]
  BY ReplayTransfersRecursion
<1>3. PICK h \in [0 .. n + 1 -> Accounts] :
        /\ h[0] = accounts
        /\ \A i \in 1 .. n + 1 : h[i] = ReplayTransfer(h[i - 1], us[i])
        /\ ReplayTransfers(accounts, us) = h[n + 1]
  BY <1>1, ReplayTransfersRecursion
<1> HIDE DEF n, us
<1>4. \A i \in 0 .. n : h[i] = g[i]
  <2> DEFINE T == {i \in Nat : i <= n => h[i] = g[i]}
  <2>1. 0 \in T
    BY <1>2, <1>3
  <2>2. ASSUME NEW i \in Nat, i \in T PROVE i + 1 \in T
    <3>1. SUFFICES ASSUME i + 1 <= n PROVE h[i + 1] = g[i + 1]
      OBVIOUS
    <3>2. i + 1 \in 1 .. n /\ i + 1 \in 1 .. n + 1 /\ (i + 1) - 1 = i
      BY <1>1, <3>1
    <3>3. h[i + 1] = ReplayTransfer(h[i], us[i + 1])
      BY <1>3, <3>2
    <3>4. g[i + 1] = ReplayTransfer(g[i], ts[i + 1])
      BY <1>2, <3>2
    <3>5. h[i] = g[i] /\ us[i + 1] = ts[i + 1]
      BY <1>1, <2>2, <3>1, <3>2
    <3>6. QED
      BY <3>3, <3>4, <3>5
  <2>3. Nat \subseteq T
    BY <2>1, <2>2, SetInduction
  <2>4. QED
    BY <1>1, <2>3
<1>5. n + 1 \in 1 .. n + 1 /\ (n + 1) - 1 = n /\ n \in 0 .. n
  BY <1>1
<1>6. h[n + 1] = ReplayTransfer(h[n], us[n + 1])
  BY <1>3, <1>5
<1>7. QED
  BY <1>1, <1>2, <1>3, <1>4, <1>5, <1>6 DEF us

(* A replayed block keeps the accounts well typed.                          *)
LEMMA ReplayBlockType ==
  ASSUME NEW accounts \in Accounts, NEW block \in Block
  PROVE  ReplayBlock(accounts, block) \in Accounts
<1>1. block.transfers \in Seq(Transfers)
  BY BlockFields
<1>2. QED
  BY <1>1, ReplayTransfersType, ReplayRewardType DEF ReplayBlock, Accounts

(* So is the replay of a chain of blocks.                                   *)
LEMMA ReplayChainRecursion ==
  ASSUME NEW c \in Seq(Block)
  PROVE  \E g \in [0 .. Len(c) -> Accounts] :
           /\ g[0] = ZeroState
           /\ \A i \in 1 .. Len(c) : g[i] = ReplayBlock(g[i - 1], c[i])
           /\ ReplayChain(c) = g[Len(c)]
<1> DEFINE n == Len(c)
           step == [p \in (1 .. n) \X Accounts |-> ReplayBlock(p[2], c[p[1]])]
           IsReplay(f) == f = [i \in 0 .. n |-> IF i = 0 THEN ZeroState
                                                ELSE ReplayBlock(f[i - 1], c[i])]
           replayed == CHOOSE f : IsReplay(f)
<1>0. ZeroState \in Accounts
  BY ZeroStateType DEF Accounts
<1>1. n \in Nat
  OBVIOUS
<1>2. step \in [(1 .. n) \X Accounts -> Accounts]
  BY ReplayBlockType
<1>3. PICK g \in [0 .. n -> Accounts] : IsFold(g, ZeroState, n, step)
  <2> HIDE DEF n, step
  <2> QED  BY <1>0, <1>1, <1>2, FoldExists
<1>4. g[0] = ZeroState /\ \A i \in 1 .. n : g[i] = ReplayBlock(g[i - 1], c[i])
  <2>1. ASSUME NEW i \in 1 .. n PROVE g[i] = ReplayBlock(g[i - 1], c[i])
    <3>1. i - 1 \in 0 .. n /\ g[i - 1] \in Accounts
      BY <1>1, <1>3
    <3>2. step[<<i, g[i - 1]>>] = ReplayBlock(g[i - 1], c[i])
      BY <3>1
    <3>3. QED
      BY <1>3, <3>2 DEF IsFold
  <2>2. QED
    BY <1>3, <2>1 DEF IsFold
<1>5. IsReplay(g)
  <2>1. g = [i \in 0 .. n |-> g[i]]
    BY <1>3
  <2>2. ASSUME NEW i \in 0 .. n
        PROVE  g[i] = IF i = 0 THEN ZeroState ELSE ReplayBlock(g[i - 1], c[i])
    <3>1. i # 0 => i \in 1 .. n
      OBVIOUS
    <3>2. QED
      BY <1>4, <3>1
  <2>3. QED
    BY <2>1, <2>2
<1>6. IsReplay(replayed)
  BY <1>5
<1>7. ReplayChain(c) = replayed[n]
  BY DEF ReplayChain
<1> HIDE DEF replayed, step
<1>8. \A i \in 0 .. n : replayed[i] = g[i]
  <2> DEFINE T == {i \in Nat : i <= n => replayed[i] = g[i]}
  <2>0. \A i \in 0 .. n : replayed[i] = IF i = 0 THEN ZeroState
                                        ELSE ReplayBlock(replayed[i - 1], c[i])
    BY <1>6
  <2>1. 0 \in T
    BY <1>1, <1>4, <2>0
  <2>2. ASSUME NEW i \in Nat, i \in T PROVE i + 1 \in T
    <3>1. SUFFICES ASSUME i + 1 <= n PROVE replayed[i + 1] = g[i + 1]
      OBVIOUS
    <3>2. i + 1 \in 0 .. n /\ i + 1 \in 1 .. n /\ i + 1 # 0 /\ (i + 1) - 1 = i
      BY <1>1, <3>1
    <3>3. replayed[i + 1] = ReplayBlock(replayed[i], c[i + 1])
      BY <2>0, <3>2
    <3>4. g[i + 1] = ReplayBlock(g[i], c[i + 1])
      BY <1>4, <3>2
    <3>5. replayed[i] = g[i]
      BY <1>1, <2>2, <3>1
    <3>6. QED
      BY <3>3, <3>4, <3>5
  <2>3. Nat \subseteq T
    BY <2>1, <2>2, SetInduction
  <2>4. QED
    BY <1>1, <2>3
<1>9. n \in 0 .. n
  BY <1>1
<1>10. QED
  BY <1>3, <1>4, <1>7, <1>8, <1>9

(* Without blocks nobody has anything.                                      *)
LEMMA ReplayNoBlocks ==
  ReplayChain(<<>>) = ZeroState
<1>1. <<>> \in Seq(Block) /\ Len(<<>>) = 0
  OBVIOUS
<1>2. QED
  BY <1>1, ReplayChainRecursion

(* A replayed chain gives well-typed accounts.                              *)
LEMMA ReplayChainType ==
  ASSUME NEW c \in Seq(Block)
  PROVE  ReplayChain(c) \in Accounts
<1>1. PICK g \in [0 .. Len(c) -> Accounts] : ReplayChain(c) = g[Len(c)]
  BY ReplayChainRecursion
<1>2. Len(c) \in 0 .. Len(c)
  OBVIOUS
<1>3. QED
  BY <1>1, <1>2

(* A longer chain is replayed by replaying the shorter one and the block    *)
(* appended to it.                                                          *)
LEMMA ReplayChainAppend ==
  ASSUME NEW c \in Seq(Block), NEW block \in Block
  PROVE  ReplayChain(Append(c, block))
           = ReplayBlock(ReplayChain(c), block)
<1> DEFINE n == Len(c)
           d == Append(c, block)
<1>1. /\ n \in Nat /\ d \in Seq(Block) /\ Len(d) = n + 1
      /\ \A i \in 1 .. n : d[i] = c[i]
      /\ d[n + 1] = block
  OBVIOUS
<1>2. PICK g \in [0 .. n -> Accounts] :
        /\ g[0] = ZeroState
        /\ \A i \in 1 .. n : g[i] = ReplayBlock(g[i - 1], c[i])
        /\ ReplayChain(c) = g[n]
  BY ReplayChainRecursion
<1>3. PICK h \in [0 .. n + 1 -> Accounts] :
        /\ h[0] = ZeroState
        /\ \A i \in 1 .. n + 1 : h[i] = ReplayBlock(h[i - 1], d[i])
        /\ ReplayChain(d) = h[n + 1]
  BY <1>1, ReplayChainRecursion
<1> HIDE DEF n, d
<1>4. \A i \in 0 .. n : h[i] = g[i]
  <2> DEFINE T == {i \in Nat : i <= n => h[i] = g[i]}
  <2>1. 0 \in T
    BY <1>2, <1>3
  <2>2. ASSUME NEW i \in Nat, i \in T PROVE i + 1 \in T
    <3>1. SUFFICES ASSUME i + 1 <= n PROVE h[i + 1] = g[i + 1]
      OBVIOUS
    <3>2. i + 1 \in 1 .. n /\ i + 1 \in 1 .. n + 1 /\ (i + 1) - 1 = i
      BY <1>1, <3>1
    <3>3. h[i + 1] = ReplayBlock(h[i], d[i + 1])
      BY <1>3, <3>2
    <3>4. g[i + 1] = ReplayBlock(g[i], c[i + 1])
      BY <1>2, <3>2
    <3>5. h[i] = g[i] /\ d[i + 1] = c[i + 1]
      BY <1>1, <2>2, <3>1, <3>2
    <3>6. QED
      BY <3>3, <3>4, <3>5
  <2>3. Nat \subseteq T
    BY <2>1, <2>2, SetInduction
  <2>4. QED
    BY <1>1, <2>3
<1>5. n + 1 \in 1 .. n + 1 /\ (n + 1) - 1 = n /\ n \in 0 .. n
  BY <1>1
<1>6. h[n + 1] = ReplayBlock(h[n], d[n + 1])
  BY <1>3, <1>5
<1>7. QED
  BY <1>1, <1>2, <1>3, <1>4, <1>5, <1>6 DEF d

----------------------------------------------------------------------------
(* What a transfer and a credit change.  Two states that agree on the        *)
(* balances of some accounts agree on them afterwards. *)

(* What a replayed transfer leaves in an account: the sender has paid, the  *)
(* recipient, who may be the sender, has received.                          *)
LeftOf(accounts, tx, a) ==
  IF a # tx.sender THEN accounts[a].balance
  ELSE IF Affordable(accounts, tx) THEN accounts[a].balance - TransferCost(tx) ELSE 0

BalanceAfter(accounts, tx, a) ==
  IF a = tx.recipient THEN AddWord(LeftOf(accounts, tx, a), tx.value)
  ELSE LeftOf(accounts, tx, a)

NonceAfter(accounts, tx, a) ==
  IF a = tx.sender THEN accounts[a].nonce + 1 ELSE accounts[a].nonce

(* ReplayTransfer, account by account.                                      *)
LEMMA TransferEffect ==
  ASSUME NEW accounts \in Accounts, NEW tx \in Transfers, NEW a \in Account
  PROVE  /\ ReplayTransfer(accounts, tx)[a].balance = BalanceAfter(accounts, tx, a)
         /\ ReplayTransfer(accounts, tx)[a].nonce = NonceAfter(accounts, tx, a)
<1> DEFINE paid == IF Affordable(accounts, tx)
                   THEN accounts[tx.sender].balance - TransferCost(tx) ELSE 0
           debited == Debit(accounts, tx.sender, paid)
<1>1. tx.sender \in Account /\ tx.recipient \in Account
  BY TransferFields
<1>2. ReplayTransfer(accounts, tx) = Credit(debited, tx.recipient, tx.value)
  BY DEF ReplayTransfer, ExecuteTransfer
<1>3. /\ debited[a].balance = LeftOf(accounts, tx, a)
      /\ debited[a].nonce = NonceAfter(accounts, tx, a)
      /\ DOMAIN debited = Account
  <2>1. accounts[a] \in AccountState /\ DOMAIN accounts = Account
    BY DEF Accounts
  <2>2. debited[a] = IF a = tx.sender
                     THEN [balance |-> paid, nonce |-> accounts[a].nonce + 1] ELSE accounts[a]
    BY <1>1, <2>1 DEF Debit
  <2>3. a = tx.sender => paid = LeftOf(accounts, tx, a)
    BY DEF LeftOf
  <2> HIDE DEF paid
  <2>4. QED
    BY <2>1, <2>2, <2>3 DEF LeftOf, NonceAfter, Debit
<1>4. debited[a] \in [balance : {debited[a].balance}, nonce : {debited[a].nonce}]
  <2>1. accounts[a] \in AccountState /\ DOMAIN accounts = Account
    BY DEF Accounts
  <2>2. debited[a] = IF a = tx.sender
                     THEN [balance |-> paid, nonce |-> accounts[a].nonce + 1] ELSE accounts[a]
    BY <1>1, <2>1 DEF Debit
  <2> HIDE DEF paid
  <2>3. QED
    BY <2>1, <2>2 DEF AccountState
<1> HIDE DEF debited
<1>5. /\ Credit(debited, tx.recipient, tx.value)[a].balance
           = (IF a = tx.recipient THEN AddWord(debited[a].balance, tx.value) ELSE debited[a].balance)
      /\ Credit(debited, tx.recipient, tx.value)[a].nonce = debited[a].nonce
  BY <1>1, <1>3, <1>4 DEF Credit
<1>6. QED
  BY <1>2, <1>3, <1>5 DEF BalanceAfter

(* A credit, account by account.                                            *)
LEMMA CreditEffect ==
  ASSUME NEW accounts \in Accounts, NEW to \in Account, NEW amount \in Amount, NEW a \in Account
  PROVE  /\ Credit(accounts, to, amount)[a].balance
              = (IF a = to THEN AddWord(accounts[a].balance, amount) ELSE accounts[a].balance)
         /\ Credit(accounts, to, amount)[a].nonce = accounts[a].nonce
<1>1. accounts[a] \in AccountState /\ DOMAIN accounts = Account
  BY DEF Accounts
<1>2. QED
  BY <1>1 DEF Credit, AccountState

SameBalances(A, s, t) == \A a \in A : s[a].balance = t[a].balance
SameNonces(A, s, t) == \A a \in A : s[a].nonce = t[a].nonce

(* Accounts are equal when their two fields are.                            *)
LEMMA SameAccounts ==
  ASSUME NEW A, A \subseteq Account, NEW s \in Accounts, NEW t \in Accounts
  PROVE  (\A a \in A : s[a] = t[a]) <=> SameBalances(A, s, t) /\ SameNonces(A, s, t)
<1>1. ASSUME NEW a \in A, s[a].balance = t[a].balance, s[a].nonce = t[a].nonce
      PROVE  s[a] = t[a]
  <2>1. s[a] \in AccountState /\ t[a] \in AccountState
    BY DEF Accounts
  <2>2. QED
    BY <1>1, <2>1 DEF AccountState
<1>2. QED
  BY <1>1 DEF SameBalances, SameNonces

(* Whether a transfer is paid, and what it does to some accounts, its       *)
(* sender's among them, depends on the balances of these accounts only.     *)
LEMMA TransferAgrees ==
  ASSUME NEW A, A \subseteq Account, NEW s \in Accounts, NEW t \in Accounts,
         NEW tx \in Transfers, tx.sender \in A, SameBalances(A, s, t)
  PROVE  /\ Affordable(s, tx) <=> Affordable(t, tx)
         /\ SameBalances(A, ReplayTransfer(s, tx), ReplayTransfer(t, tx))
         /\ SameNonces(A, s, t) => SameNonces(A, ReplayTransfer(s, tx), ReplayTransfer(t, tx))
<1>1. Affordable(s, tx) <=> Affordable(t, tx)
  BY DEF Affordable, SameBalances
<1>2. ASSUME NEW a \in A
      PROVE  BalanceAfter(s, tx, a) = BalanceAfter(t, tx, a)
  <2>1. LeftOf(s, tx, a) = LeftOf(t, tx, a)
    BY <1>1 DEF LeftOf, SameBalances
  <2>2. QED
    BY <2>1 DEF BalanceAfter
<1>3. ASSUME NEW a \in A, SameNonces(A, s, t)
      PROVE  NonceAfter(s, tx, a) = NonceAfter(t, tx, a)
  BY <1>3 DEF NonceAfter, SameNonces
<1>4. QED
  BY <1>1, <1>2, <1>3, TransferEffect DEF SameBalances, SameNonces

(* The same of a credit, also of an account outside.                        *)
LEMMA CreditAgrees ==
  ASSUME NEW A, A \subseteq Account, NEW s \in Accounts, NEW t \in Accounts,
         NEW to \in Account, NEW amount \in Amount, SameBalances(A, s, t)
  PROVE  /\ SameBalances(A, Credit(s, to, amount), Credit(t, to, amount))
         /\ to \notin A => SameBalances(A, Credit(s, to, amount), t)
         /\ SameNonces(A, s, t) => /\ SameNonces(A, Credit(s, to, amount), Credit(t, to, amount))
                                   /\ SameNonces(A, Credit(s, to, amount), t)
<1>1. ASSUME NEW a \in A
      PROVE  /\ Credit(s, to, amount)[a].balance = Credit(t, to, amount)[a].balance
             /\ to \notin A => Credit(s, to, amount)[a].balance = t[a].balance
             /\ Credit(s, to, amount)[a].nonce = s[a].nonce
             /\ Credit(t, to, amount)[a].nonce = t[a].nonce
  BY CreditEffect DEF SameBalances
<1>2. QED
  BY <1>1 DEF SameBalances, SameNonces

(* A transfer that can be paid is executed and replayed alike.              *)
LEMMA ExecuteIsReplay ==
  ASSUME NEW accounts, NEW tx, Affordable(accounts, tx)
  PROVE  ExecuteTransfer(accounts, tx) = ReplayTransfer(accounts, tx)
BY DEF ReplayTransfer

----------------------------------------------------------------------------
(* Prefixes, exact replays and wrapped sums. *)

(* Prefixes of a sequence and of what it becomes by an append.              *)
LEMMA PrefixFacts ==
  ASSUME NEW S, NEW s \in Seq(S)
  PROVE  /\ SubSeq(s, 1, 0) = <<>>
         /\ SubSeq(s, 1, Len(s)) = s
         /\ \A k \in 0 .. Len(s) : SubSeq(s, 1, k) \in Seq(S) /\ Len(SubSeq(s, 1, k)) = k
         /\ \A k \in 0 .. Len(s) - 1 : SubSeq(s, 1, k + 1) = Append(SubSeq(s, 1, k), s[k + 1])
<1>1. ASSUME NEW k \in 0 .. Len(s)
      PROVE  /\ SubSeq(s, 1, k) \in Seq(S) /\ Len(SubSeq(s, 1, k)) = k
             /\ SubSeq(s, 1, k) = [i \in 1 .. k |-> s[i]]
  OBVIOUS
<1>2. SubSeq(s, 1, 0) = <<>>
  OBVIOUS
<1>3. SubSeq(s, 1, Len(s)) = s
  OBVIOUS
<1>4. ASSUME NEW k \in 0 .. Len(s) - 1
      PROVE  SubSeq(s, 1, k + 1) = Append(SubSeq(s, 1, k), s[k + 1])
  <2> DEFINE p == SubSeq(s, 1, k)
             q == SubSeq(s, 1, k + 1)
             r == Append(p, s[k + 1])
  <2>1. k \in 0 .. Len(s) /\ k + 1 \in 0 .. Len(s) /\ s[k + 1] \in S
    OBVIOUS
  <2>2. p \in Seq(S) /\ Len(p) = k /\ \A i \in 1 .. k : p[i] = s[i]
    BY <1>1, <2>1
  <2>3. q \in Seq(S) /\ Len(q) = k + 1 /\ \A i \in 1 .. k + 1 : q[i] = s[i]
    BY <1>1, <2>1
  <2> HIDE DEF p, q
  <2>4. /\ r \in Seq(S) /\ Len(r) = k + 1 /\ r[k + 1] = s[k + 1]
        /\ \A i \in 1 .. k : r[i] = s[i]
    BY <2>1, <2>2
  <2> HIDE DEF r
  <2>5. \A i \in 1 .. k + 1 : r[i] = q[i]
    BY <2>1, <2>3, <2>4
  <2>6. r = q
    BY <2>3, <2>4, <2>5, SeqEqual
  <2>7. QED
    BY <2>6 DEF r, q, p
<1>5. QED
  BY <1>1, <1>2, <1>3, <1>4

(* An append leaves the prefixes alone.                                     *)
LEMMA PrefixOfAppend ==
  ASSUME NEW S, NEW s \in Seq(S), NEW x \in S
  PROVE  /\ \A k \in 0 .. Len(s) : SubSeq(Append(s, x), 1, k) = SubSeq(s, 1, k)
         /\ SubSeq(Append(s, x), 1, Len(s)) = s
         /\ Front(Append(s, x)) = s
<1> DEFINE t == Append(s, x)
<1>1. /\ t \in Seq(S) /\ Len(t) = Len(s) + 1
      /\ \A i \in 1 .. Len(s) : t[i] = s[i]
  OBVIOUS
<1>2. ASSUME NEW k \in 0 .. Len(s) PROVE SubSeq(t, 1, k) = SubSeq(s, 1, k)
  <2>1. SubSeq(t, 1, k) = [i \in 1 .. k |-> t[i]] /\ SubSeq(s, 1, k) = [i \in 1 .. k |-> s[i]]
    BY <1>1
  <2>2. \A i \in 1 .. k : t[i] = s[i]
    BY <1>1
  <2>3. QED
    BY <2>1, <2>2
<1>3. Len(s) \in 0 .. Len(s) /\ SubSeq(s, 1, Len(s)) = s
  BY PrefixFacts
<1>4. Front(t) = SubSeq(t, 1, Len(s))
  BY <1>1 DEF Front
<1>5. QED
  BY <1>2, <1>3, <1>4

(* Nothing to replay is replayed exactly.                                   *)
LEMMA ExactNone ==
  ASSUME NEW accounts
  PROVE  ReplaysExactly(accounts, <<>>)
BY DEF ReplaysExactly

(* A list that replays exactly goes on with a transfer that can be paid.    *)
LEMMA ExactAppend ==
  ASSUME NEW accounts, NEW ts \in Seq(Transfers), NEW tx \in Transfers,
         ReplaysExactly(accounts, ts), Affordable(ReplayTransfers(accounts, ts), tx)
  PROVE  ReplaysExactly(accounts, Append(ts, tx))
<1> DEFINE us == Append(ts, tx)
<1>1. SUFFICES ASSUME NEW k \in 1 .. Len(us)
               PROVE  Affordable(ReplayTransfers(accounts, SubSeq(us, 1, k - 1)), us[k])
  BY DEF ReplaysExactly
<1>2. /\ Len(us) = Len(ts) + 1 /\ us[Len(ts) + 1] = tx
      /\ \A i \in 1 .. Len(ts) : us[i] = ts[i]
  OBVIOUS
<1>3. k - 1 \in 0 .. Len(ts) /\ SubSeq(us, 1, k - 1) = SubSeq(ts, 1, k - 1)
  BY <1>2, PrefixOfAppend
<1>4. CASE k \in 1 .. Len(ts)
  BY <1>2, <1>3, <1>4 DEF ReplaysExactly
<1>5. CASE k = Len(ts) + 1
  <2>1. SubSeq(us, 1, k - 1) = ts
    BY <1>5, PrefixOfAppend
  <2>2. QED
    BY <1>2, <1>5, <2>1
<1>6. QED
  BY <1>2, <1>4, <1>5

(* The remainder by Word is the only one.                                   *)
LEMMA RemainderUnique ==
  ASSUME NEW p \in Int, NEW q \in Int, NEW r \in 0 .. Word - 1, NEW s \in 0 .. Word - 1,
         (Word * p) + r = (Word * q) + s
  PROVE  r = s
<1>0. Word \in Nat \ {0}
  BY WordAssumption
<1>1. CASE p = q
  BY <1>0, <1>1
<1>2. CASE p < q
  <2>1. Word * (q - p) >= Word
    BY <1>0, <1>2
  <2>2. Word * q = (Word * p) + (Word * (q - p))
    BY <1>0
  <2>3. QED
    BY <1>0, <2>1, <2>2
<1>3. CASE q < p
  <2>1. Word * (p - q) >= Word
    BY <1>0, <1>3
  <2>2. Word * p = (Word * q) + (Word * (p - q))
    BY <1>0
  <2>3. QED
    BY <1>0, <2>1, <2>2
<1>4. QED
  BY <1>1, <1>2, <1>3

(* Adding to a wrapped sum, and wrapping, wraps the sum.                    *)
LEMMA WrappedSum ==
  ASSUME NEW x \in Nat, NEW y \in 0 .. Word - 1
  PROVE  (x + y) % Word = AddWord(x % Word, y)
<1>0. Word \in Nat \ {0}
  BY WordAssumption
<1>1. \A n \in Nat : /\ n \div Word \in Int /\ n % Word \in 0 .. Word - 1
                     /\ n = (Word * (n \div Word)) + (n % Word)
  BY <1>0
<1> DEFINE q == x \div Word
           r == x % Word
           p == (x + y) \div Word
           s == (x + y) % Word
           over == r + y - Word
<1>2. x + y \in Nat /\ p \in Int /\ q \in Int /\ r \in 0 .. Word - 1 /\ s \in 0 .. Word - 1
  BY <1>0, <1>1
<1>3. (Word * p) + s = (Word * q) + (r + y)
  BY <1>0, <1>1, <1>2
<1> HIDE DEF p, q, r, s
<1>4. CASE r + y < Word
  <2>1. r + y \in 0 .. Word - 1
    BY <1>0, <1>2, <1>4
  <2>2. s = r + y
    BY <1>2, <1>3, <2>1, RemainderUnique
  <2>3. QED
    BY <1>4, <2>2 DEF AddWord, r, s
<1>5. CASE ~(r + y < Word)
  <2>1. over \in 0 .. Word - 1 /\ q + 1 \in Int
    BY <1>0, <1>2, <1>5
  <2>2. (Word * p) + s = (Word * (q + 1)) + over
    BY <1>0, <1>2, <1>3
  <2> HIDE DEF over
  <2>3. s = over
    BY <1>2, <2>1, <2>2, RemainderUnique
  <2>4. QED
    BY <1>5, <2>3 DEF AddWord, r, s, over
<1>6. QED
  BY <1>4, <1>5

(* Adding fees one at a time, wrapping, gives their wrapped sum.            *)
LEMMA TotalFeeAppend ==
  ASSUME NEW ts \in Seq(Transfers), NEW tx \in Transfers
  PROVE  TotalFee(Append(ts, tx)) = AddWord(TotalFee(ts), tx.fee)
<1> DEFINE n == Len(ts)
           us == Append(ts, tx)
           f == [i \in 1 .. n |-> ts[i].fee]
           h == [i \in 1 .. n + 1 |-> us[i].fee]
<1>1. /\ n \in Nat /\ us \in Seq(Transfers) /\ Len(us) = n + 1
      /\ \A i \in 1 .. n : us[i] = ts[i] /\ ts[i] \in Transfers
      /\ us[n + 1] = tx
      /\ \A i \in 1 .. n + 1 : us[i] \in Transfers
  OBVIOUS
<1>2. \A u \in Transfers : u.fee \in Nat /\ u.fee < Word
  BY TransferFields, WordAssumption DEF Amount
<1>3. f \in [1 .. n -> Nat] /\ h \in [1 .. n + 1 -> Nat]
  BY <1>1, <1>2
<1>4. (\A i \in 1 .. n : h[i] = f[i]) /\ h[n + 1] = tx.fee
  BY <1>1
<1>5. TotalFee(ts) = SumTo(f, n) % Word /\ TotalFee(us) = SumTo(h, n + 1) % Word
  BY <1>1 DEF TotalFee
<1> HIDE DEF f, h, us, n
<1>6. SumTo(f, n) \in Nat /\ SumTo(h, n + 1) = SumTo(f, n) + tx.fee
  BY <1>1, <1>3, <1>4, SumToType, SumToStep
<1>7. tx.fee \in 0 .. Word - 1
  BY <1>2, WordAssumption
<1>8. (SumTo(f, n) + tx.fee) % Word = AddWord(SumTo(f, n) % Word, tx.fee)
  BY <1>6, <1>7, WrappedSum
<1>9. QED
  BY <1>5, <1>6, <1>8 DEF us

(* No transfers, no fees.                                                   *)
LEMMA TotalFeeNone == TotalFee(<<>>) = 0
<1> DEFINE f == [i \in 1 .. 0 |-> 0]
<1>1. SumTo(f, 0) = 0
  <2> DEFINE g == [i \in 0 .. 0 |-> 0]
  <2>1. g \in [0 .. 0 -> Nat] /\ g[0] = 0 /\ f \in [1 .. 0 -> Nat]
    OBVIOUS
  <2>2. \A i \in 1 .. 0 : g[i] = g[i - 1] + f[i]
    OBVIOUS
  <2> HIDE DEF f, g
  <2>3. SumTo(f, 0) = g[0]
    BY <2>1, <2>2, SumToDefined
  <2>4. QED
    BY <2>1, <2>3
<1>2. [i \in 1 .. Len(<<>>) |-> <<>>[i].fee] = f /\ Len(<<>>) = 0
  OBVIOUS
<1>3. TotalFee(<<>>) = SumTo(f, 0) % Word
  BY <1>2 DEF TotalFee
<1>4. QED
  BY <1>1, <1>3, WordAssumption

----------------------------------------------------------------------------
(* What the invariant is about. *)

(* Replaying one transfer, or one block, more than a prefix of a list.      *)
LEMMA ReplayPrefix ==
  ASSUME NEW c \in Seq(Block), NEW k \in 0 .. Len(c) - 1
  PROVE  /\ SubSeq(c, 1, k) \in Seq(Block)
         /\ ReplayChain(SubSeq(c, 1, k + 1)) = ReplayBlock(ReplayChain(SubSeq(c, 1, k)), c[k + 1])
<1>1. c[k + 1] \in Block /\ k \in 0 .. Len(c)
  OBVIOUS
<1>2. SubSeq(c, 1, k) \in Seq(Block) /\ SubSeq(c, 1, k + 1) = Append(SubSeq(c, 1, k), c[k + 1])
  BY <1>1, PrefixFacts
<1>3. QED
  BY <1>1, <1>2, ReplayChainAppend

(* A genesis block gives nobody anything.                                   *)
LEMMA ReplayGenesis ==
  ASSUME NEW block \in Block, block.transfers = <<>>, block.miner = SystemGenesis
  PROVE  ReplayChain(<<block>>) = ZeroState
<1>1. ZeroState \in Accounts
  BY ZeroStateType DEF Accounts
<1>2. <<>> \in Seq(Block) /\ Append(<<>>, block) = <<block>>
  OBVIOUS
<1>3. ReplayChain(<<block>>) = ReplayBlock(ZeroState, block)
  BY <1>2, ReplayChainAppend, ReplayNoBlocks
<1>4. QED
  BY <1>1, <1>3, ReplayNoTransfers DEF ReplayBlock, ReplayReward

(* Everybody who can send a transfer is compared.                           *)
LEMMA ComparableFacts ==
  /\ Comparable \subseteq Account
  /\ Prefixed \subseteq Comparable
  /\ \A tx \in Transfers : tx.sender \in Comparable
BY AccountAssumption, TransferFields DEF Comparable

(* The types of what BalancesKnown relates.                                 *)
LEMMA CreditedTypes ==
  ASSUME IInv
  PROVE  /\ CreditedChain \in Seq(Block)
         /\ ReplayChain(CreditedChain) \in Accounts
         /\ job.packed \in Seq(Transfers)
         /\ ReplayTransfers(ReplayChain(CreditedChain), job.packed) \in Accounts
         /\ state \in Accounts
<1>1. chain \in Seq(Block) /\ job.packed \in Seq(Transfers) /\ state \in Accounts
  BY DEF IInv, TypeOK, Job, Accounts
<1>2. pc \in {"save", "index", "credit"} => Front(chain) \in Seq(Block)
  <2>1. pc \in {"save", "index", "credit"} => chain # <<>>
    BY <1>1, TipIsBlock, StoredFacts DEF IInv, MemoryMatchesDisk, Loaded, NewBlockKnown
  <2>2. chain # <<>> => Len(chain) - 1 \in 0 .. Len(chain)
    BY <1>1
  <2>3. chain # <<>> => SubSeq(chain, 1, Len(chain) - 1) \in Seq(Block)
    BY <1>1, <2>2, PrefixFacts
  <2>4. QED
    BY <2>1, <2>3 DEF Front
<1>3. CreditedChain \in Seq(Block)
  BY <1>1, <1>2 DEF CreditedChain
<1>4. QED
  BY <1>1, <1>3, ReplayChainType, ReplayTransfersType

(* Until MineBlock appends its block, and while a genesis block is saved,   *)
(* every block is credited; then all but the last are.                      *)
LEMMA CreditedIs ==
  /\ pc \notin {"save", "index", "credit"} \/ ~(newBlock.index > 0) => CreditedChain = chain
  /\ pc \in {"save", "index", "credit"} /\ newBlock.index > 0 => CreditedChain = Front(chain)
BY DEF CreditedChain

(* What is known of the stored blocks stays so while they are the same.     *)
LEMMA StoredKept ==
  ASSUME ReplayNeverFloors, MinersKnown, Stored' = Stored
  PROVE  ReplayNeverFloors' /\ MinersKnown'
BY DEF ReplayNeverFloors, MinersKnown

(* What is known of the balances stays so while they, and what they are     *)
(* compared with, are the same.                                             *)
LEMMA BalancesKept ==
  ASSUME BalancesKnown, Running, CreditedChain' = CreditedChain, state' = state,
         job'.packed = job.packed, job'.fees = job.fees
  PROVE  BalancesKnown'
BY DEF BalancesKnown

----------------------------------------------------------------------------
(* Each action preserves AccountsInv: loading. *)

(* A load starts from empty balances and the first transfer.                *)
LEMMA InitializeReplay ==
  ASSUME ReplayKnown, Stored \in Seq(Block), InitializeLedger
  PROVE  ReplayKnown'
<1>1. /\ pc = "off" /\ pc' \in {"spawn", "rebuild", "wipe"} /\ state' = state
      /\ cursor' = cursor /\ job' = job
  BY DEF InitializeLedger
<1>2. job = NoJob /\ state = ZeroState /\ cursor = <<1, 1>>
  BY <1>1 DEF ReplayKnown
<1>3. CASE pc' = "rebuild"
  <2>1. chain' = Stored /\ Len(Stored) > 0
    BY <1>3 DEF InitializeLedger
  <2>2. chain' \in Seq(Block) /\ chain'[1] \in Block /\ chain'[1].transfers \in Seq(Transfers)
    BY <2>1, BlockFields
  <2>3. SubSeq(chain', 1, 0) = <<>> /\ SubSeq(chain'[1].transfers, 1, 0) = <<>>
    BY <2>2, PrefixFacts
  <2>4. ReplayTransfers(ReplayChain(<<>>), <<>>) = ZeroState
    BY ReplayNoBlocks, ReplayNoTransfers, ZeroStateType DEF Accounts
  <2>5. cursor'[1] = 1 /\ cursor'[2] = 1 /\ cursor'[1] - 1 = 0 /\ cursor'[2] - 1 = 0
    BY <1>1, <1>2
  <2>6. cursor'[1] <= Len(chain') /\ cursor'[2] <= Len(chain'[cursor'[1]].transfers) + 1
    BY <2>1, <2>2, <2>5
  <2>7. state' = ReplayTransfers(ReplayChain(SubSeq(chain', 1, cursor'[1] - 1)),
                                 SubSeq(chain'[cursor'[1]].transfers, 1, cursor'[2] - 1))
    <3>1. /\ SubSeq(chain', 1, cursor'[1] - 1) = <<>>
          /\ SubSeq(chain'[cursor'[1]].transfers, 1, cursor'[2] - 1) = <<>>
      BY <2>3, <2>5
    <3>2. QED
      BY <1>1, <1>2, <2>4, <3>1
  <2>8. QED
    BY <1>1, <1>2, <1>3, <2>6, <2>7 DEF ReplayKnown
<1>4. CASE pc' # "rebuild"
  BY <1>1, <1>2, <1>4 DEF ReplayKnown
<1>5. QED
  BY <1>3, <1>4

(* It shows no balance yet.                                                 *)
LEMMA InitializeAccounts ==
  ASSUME IInv, AccountsInv, InitializeLedger
  PROVE  AccountsInv'
<1>1. ReplayKnown'
  BY StoredFacts, InitializeReplay DEF IInv, AccountsInv
<1>2. pc' \in {"spawn", "rebuild", "wipe"} /\ minerAddress' \in MinerAddresses
  BY DEF InitializeLedger
<1>3. BalancesKnown' /\ BlockInProgressKnown'
  BY <1>2 DEF BalancesKnown, Running, BlockInProgressKnown
<1>4. Stored' = Stored
  BY StoredUnchanged DEF InitializeLedger
<1>5. QED
  BY <1>1, <1>3, <1>4, StoredKept DEF AccountsInv

(* A reset leaves no block to ask about.                                    *)
LEMMA ClearAllAccounts ==
  ASSUME IInv, AccountsInv, ClearAll
  PROVE  AccountsInv'
<1>1. /\ pc = "wipe" /\ pc' = "spawn" /\ state' = state /\ cursor' = cursor /\ job' = job
      /\ minerAddress' = minerAddress
  BY DEF ClearAll, settings
<1>2. Len(Stored') = 0
  <2>1. lastIndex' = -1 /\ Stored' = ReadBlocks(blocks', -1)
    BY DEF ClearAll, Stored
  <2>2. QED
    BY <2>1, ReadBlocksType
<1>3. ReplayNeverFloors' /\ MinersKnown'
  BY <1>2 DEF ReplayNeverFloors, MinersKnown
<1>4. ReplayKnown' /\ BalancesKnown' /\ BlockInProgressKnown'
  BY <1>1 DEF AccountsInv, ReplayKnown, BalancesKnown, Running, BlockInProgressKnown
<1>5. QED
  BY <1>3, <1>4 DEF AccountsInv

(* A new chain has credited nobody.                                         *)
LEMMA SpawnGenesisAccounts ==
  ASSUME IInv, AccountsInv, SpawnGenesis
  PROVE  AccountsInv'
<1>1. /\ pc = "spawn" /\ pc' = "save" /\ state' = state /\ job' = job
      /\ minerAddress' = minerAddress
  BY DEF SpawnGenesis, settings
<1>2. PICK hash \in GenesisHashes :
        ValidatePoW(hash, targetDifficulty) /\ newBlock' = GenesisBlock(hash)
  BY DEF SpawnGenesis
<1>3. newBlock' \in Block /\ newBlock'.index = 0
  BY <1>2, GenesisBlockFacts DEF IInv
<1>4. newBlock'.transfers = <<>> /\ newBlock'.miner = SystemGenesis
  BY <1>2 DEF GenesisBlock
<1>5. chain' = <<newBlock'>>
  BY <1>1 DEF SpawnGenesis, IInv, PolicyKnown
<1>6. CreditedChain' = <<newBlock'>>
  BY <1>3, <1>5 DEF CreditedChain
<1>7. state = ZeroState /\ job = NoJob
  BY <1>1 DEF AccountsInv, ReplayKnown
<1>8. ReplayChain(CreditedChain') = ZeroState
  BY <1>3, <1>4, <1>6, ReplayGenesis
<1>9. BalancesKnown'
  <2>1. job'.packed = <<>> /\ job'.fees = 0
    BY <1>1, <1>7 DEF NoJob
  <2>2. ReplayTransfers(ReplayChain(CreditedChain'), job'.packed) = ZeroState
    BY <1>8, <2>1, ReplayNoTransfers, ZeroStateType DEF Accounts
  <2>3. ReplaysExactly(ReplayChain(CreditedChain'), job'.packed)
    BY <2>1, ExactNone
  <2>4. QED
    BY <1>1, <1>7, <2>1, <2>2, <2>3, TotalFeeNone DEF BalancesKnown
<1>10. ReplayKnown' /\ BlockInProgressKnown'
  BY <1>1, <1>3, <1>7 DEF AccountsInv, ReplayKnown, BlockInProgressKnown
<1>11. Stored' = Stored
  BY StoredUnchanged DEF SpawnGenesis
<1>12. QED
  BY <1>9, <1>10, <1>11, StoredKept DEF AccountsInv

(* RebuildState: one transfer further.                                      *)
LEMMA RebuildTransferReplay ==
  ASSUME TypeOK, ReplayKnown, RebuildTransfer
  PROVE  ReplayKnown'
<1> DEFINE i == cursor[1]
           k == cursor[2]
           ts == chain[i].transfers
           before == ReplayChain(SubSeq(chain, 1, i - 1))
<1>1. /\ pc = "rebuild" /\ pc' = "rebuild" /\ chain' = chain /\ job' = job
      /\ i <= Len(chain) /\ k <= Len(ts)
      /\ state' = ReplayTransfer(state, ts[k])
      /\ cursor' = <<i, k + 1>>
  BY DEF RebuildTransfer
<1>2. /\ chain \in Seq(Block) /\ i \in Nat \ {0} /\ k \in Nat \ {0}
  BY DEF TypeOK
<1>3. chain[i] \in Block
  BY <1>1, <1>2
<1>4. ts \in Seq(Transfers)
  BY <1>3, BlockFields
<1>5. state = ReplayTransfers(before, SubSeq(ts, 1, k - 1)) /\ job = NoJob
  BY <1>1 DEF ReplayKnown
<1>6. before \in Accounts
  <2>1. i - 1 \in 0 .. Len(chain)
    BY <1>1, <1>2
  <2>2. SubSeq(chain, 1, i - 1) \in Seq(Block)
    BY <1>2, <2>1, PrefixFacts
  <2>3. QED
    BY <2>2, ReplayChainType
<1> HIDE DEF i, k, ts, before
<1>7. ReplayTransfers(before, SubSeq(ts, 1, k)) = ReplayTransfer(state, ts[k])
  <2>1. k - 1 \in 0 .. Len(ts) - 1 /\ k - 1 \in 0 .. Len(ts) /\ (k - 1) + 1 = k /\ ts[k] \in Transfers
    BY <1>1, <1>2, <1>4
  <2>2. SubSeq(ts, 1, k - 1) \in Seq(Transfers)
    BY <1>4, <2>1, PrefixFacts
  <2>3. SubSeq(ts, 1, (k - 1) + 1) = Append(SubSeq(ts, 1, k - 1), ts[(k - 1) + 1])
    BY <1>4, <2>1, PrefixFacts
  <2>4. SubSeq(ts, 1, k) = Append(SubSeq(ts, 1, k - 1), ts[k])
    BY <2>1, <2>3
  <2>5. QED
    BY <1>5, <1>6, <2>1, <2>2, <2>4, ReplayTransfersAppend
<1>8. /\ cursor'[1] = i /\ cursor'[2] = k + 1 /\ (k + 1) - 1 = k
      /\ k + 1 <= Len(ts) + 1
  BY <1>1, <1>2, <1>4
<1>9. QED
  BY <1>1, <1>5, <1>7, <1>8 DEF ReplayKnown, i, ts, before

(* RebuildState: the miner's reward completes a block.                      *)
LEMMA RebuildRewardReplay ==
  ASSUME TypeOK, ReplayKnown, RebuildReward
  PROVE  ReplayKnown'
<1> DEFINE i == cursor[1]
           k == cursor[2]
           ts == chain[i].transfers
           before == ReplayChain(SubSeq(chain, 1, i - 1))
<1>1. /\ pc = "rebuild" /\ chain' = chain /\ job' = job
      /\ pc' = (IF i = Len(chain) THEN "verify" ELSE "rebuild")
      /\ i <= Len(chain) /\ k > Len(ts)
      /\ state' = ReplayReward(state, chain[i])
      /\ cursor' = <<i + 1, 1>>
  BY DEF RebuildReward
<1>2. chain \in Seq(Block) /\ i \in Nat \ {0} /\ k \in Nat \ {0}
  BY DEF TypeOK
<1>3. chain[i] \in Block
  BY <1>1, <1>2
<1>4. ts \in Seq(Transfers)
  BY <1>3, BlockFields
<1>5. /\ state = ReplayTransfers(before, SubSeq(ts, 1, k - 1)) /\ job = NoJob
      /\ k <= Len(ts) + 1
  BY <1>1 DEF ReplayKnown
<1>6. i - 1 \in 0 .. Len(chain) - 1 /\ (i - 1) + 1 = i
  BY <1>1, <1>2
<1>7. ReplayChain(SubSeq(chain, 1, (i - 1) + 1)) = ReplayBlock(before, chain[(i - 1) + 1])
  BY <1>2, <1>6, ReplayPrefix
<1>8. k - 1 = Len(ts) /\ SubSeq(ts, 1, k - 1) = ts
  <2>1. k - 1 = Len(ts)
    BY <1>1, <1>2, <1>4, <1>5
  <2>2. QED
    BY <1>4, <2>1, PrefixFacts
<1>9. state' = ReplayChain(SubSeq(chain, 1, i))
  BY <1>1, <1>5, <1>6, <1>7, <1>8 DEF ReplayBlock
<1> HIDE DEF i, k, ts, before
<1>10. CASE i = Len(chain)
  <2>1. SubSeq(chain, 1, i) = chain
    BY <1>2, <1>10, PrefixFacts
  <2>2. QED
    BY <1>1, <1>5, <1>9, <1>10, <2>1 DEF ReplayKnown
<1>11. CASE i # Len(chain)
  <2>1. chain[i + 1] \in Block /\ i + 1 <= Len(chain) /\ (i + 1) - 1 = i /\ 1 - 1 = 0 /\ i \in 0 .. Len(chain)
    BY <1>1, <1>2, <1>11
  <2>2. chain[i + 1].transfers \in Seq(Transfers)
    BY <2>1, BlockFields
  <2>3. SubSeq(chain[i + 1].transfers, 1, 0) = <<>> /\ 1 <= Len(chain[i + 1].transfers) + 1
    BY <2>2, PrefixFacts
  <2>4. SubSeq(chain, 1, i) \in Seq(Block)
    BY <1>2, <2>1, PrefixFacts
  <2>5. ReplayTransfers(ReplayChain(SubSeq(chain, 1, i)), <<>>) = ReplayChain(SubSeq(chain, 1, i))
    BY <2>4, ReplayChainType, ReplayNoTransfers
  <2>6. cursor'[1] = i + 1 /\ cursor'[2] = 1 /\ pc' = "rebuild"
    BY <1>1, <1>11
  <2>7. state' = ReplayTransfers(ReplayChain(SubSeq(chain', 1, cursor'[1] - 1)),
                                 SubSeq(chain'[cursor'[1]].transfers, 1, cursor'[2] - 1))
    BY <1>1, <1>9, <2>1, <2>3, <2>5, <2>6
  <2>8. QED
    BY <1>1, <1>5, <2>1, <2>3, <2>6, <2>7 DEF ReplayKnown
<1>12. QED
  BY <1>10, <1>11

(* Neither shows a balance before the replay is done.                       *)
LEMMA RebuildAccounts ==
  ASSUME IInv, AccountsInv, RebuildTransfer \/ RebuildReward
  PROVE  AccountsInv'
<1>1. ReplayKnown'
  BY RebuildTransferReplay, RebuildRewardReplay DEF IInv, AccountsInv
<1>2. pc' \in {"rebuild", "verify"} /\ minerAddress' = minerAddress
  BY DEF RebuildTransfer, RebuildReward, settings
<1>3. BalancesKnown' /\ BlockInProgressKnown'
  BY <1>2 DEF AccountsInv, BalancesKnown, Running, BlockInProgressKnown
<1>4. Stored' = Stored
  BY StoredUnchanged DEF RebuildTransfer, RebuildReward
<1>5. QED
  BY <1>1, <1>3, <1>4, StoredKept DEF AccountsInv

(* A verified chain is one that was replayed to the end.                    *)
LEMMA VerifyAccounts ==
  ASSUME IInv, AccountsInv, VerifyConsensusIntegrity
  PROVE  AccountsInv'
<1>1. /\ pc = "verify" /\ pc' \in {"ready", "panic"} /\ state' = state /\ chain' = chain
      /\ job' = job /\ minerAddress' = minerAddress
  BY DEF VerifyConsensusIntegrity, settings
<1>2. state = ReplayChain(chain) /\ job = NoJob
  BY <1>1 DEF AccountsInv, ReplayKnown
<1>3. CreditedChain' = chain /\ chain \in Seq(Block)
  BY <1>1 DEF CreditedChain, IInv, TypeOK
<1>4. BalancesKnown'
  <2>1. job'.packed = <<>> /\ job'.fees = 0
    BY <1>1, <1>2 DEF NoJob
  <2>2. ReplayTransfers(ReplayChain(CreditedChain'), job'.packed) = state'
    BY <1>1, <1>2, <1>3, <2>1, ReplayChainType, ReplayNoTransfers
  <2>3. ReplaysExactly(ReplayChain(CreditedChain'), job'.packed)
    BY <2>1, ExactNone
  <2>4. QED
    BY <2>1, <2>2, <2>3, TotalFeeNone DEF BalancesKnown
<1>5. ReplayKnown' /\ BlockInProgressKnown'
  BY <1>1, <1>2 DEF AccountsInv, ReplayKnown, BlockInProgressKnown
<1>6. Stored' = Stored
  BY StoredUnchanged DEF VerifyConsensusIntegrity
<1>7. QED
  BY <1>4, <1>5, <1>6, StoredKept DEF AccountsInv

----------------------------------------------------------------------------
(* Each action preserves AccountsInv: filling the mempool, MineBlock up to  *)
(* the new block. *)

(* Steps that move no coin and neither pack nor build a block.              *)
LEMMA QuietAccounts ==
  ASSUME AccountsInv, Stored' = Stored,
         UNCHANGED <<pc, chain, state, minerAddress, job, newBlock, cursor>>
  PROVE  AccountsInv'
<1>1. ReplayNeverFloors' /\ MinersKnown'
  BY StoredKept DEF AccountsInv
<1>2. ReplayKnown'
  BY DEF AccountsInv, ReplayKnown
<1>3. CreditedChain' = CreditedChain
  BY DEF CreditedChain
<1>4. BalancesKnown'
  BY <1>3 DEF AccountsInv, BalancesKnown, Running
<1>5. BlockInProgressKnown'
  BY DEF AccountsInv, BlockInProgressKnown, ValidMinerAddress
<1>6. QED
  BY <1>1, <1>2, <1>4, <1>5 DEF AccountsInv

(* Neither does whoever fills the mempool.                                  *)
LEMMA PoolAccounts ==
  ASSUME AccountsInv, Pool
  PROVE  AccountsInv'
<1>1. Stored' = Stored
  BY StoredUnchanged DEF Pool, SetMempool, ReceiveTransfer
<1>2. UNCHANGED <<pc, chain, state, minerAddress, job, newBlock, cursor>>
  BY DEF Pool, SetMempool, ReceiveTransfer, settings
<1>3. QED
  BY <1>1, <1>2, QuietAccounts

(* A process that panics, or is stopped, has nothing to be compared; the    *)
(* blocks it stored are as they were.                                       *)
LEMMA EndAccounts ==
  ASSUME AccountsInv, Stop
  PROVE  AccountsInv'
<1>1. Stored' = Stored
  BY StoredUnchanged DEF Stop
<1>2. pc' = "off" /\ state' = ZeroState /\ job' = NoJob /\ cursor' = <<1, 1>>
      /\ minerAddress' = minerAddress
  BY DEF Stop, MemoryLost, settings
<1>3. ReplayKnown' /\ BalancesKnown' /\ BlockInProgressKnown'
  BY <1>2 DEF AccountsInv, ReplayKnown, BalancesKnown, Running, BlockInProgressKnown
<1>4. QED
  BY <1>1, <1>3, StoredKept DEF AccountsInv

(* An address without the prefix mines nothing.                             *)
LEMMA RejectMinerAccounts ==
  ASSUME AccountsInv, RejectMiner
  PROVE  AccountsInv'
<1>1. Stored' = Stored
  BY StoredUnchanged DEF RejectMiner
<1>2. pc' = "panic" /\ minerAddress' = minerAddress
  BY DEF RejectMiner, settings
<1>3. ReplayKnown' /\ BalancesKnown' /\ BlockInProgressKnown'
  BY <1>2 DEF AccountsInv, ReplayKnown, BalancesKnown, Running, BlockInProgressKnown
<1>4. QED
  BY <1>1, <1>3, StoredKept DEF AccountsInv

(* MineBlock starts with an empty block, by an address it accepts.          *)
LEMMA BeginMineAccounts ==
  ASSUME AccountsInv, BeginMine
  PROVE  AccountsInv'
<1>1. Stored' = Stored
  BY StoredUnchanged DEF BeginMine
<1>2. /\ pc = "ready" /\ pc' = "select" /\ state' = state /\ chain' = chain
      /\ newBlock' = newBlock /\ minerAddress' = minerAddress /\ ValidMinerAddress
      /\ job' = [NoJob EXCEPT !.parent = chain[Len(chain)], !.bytes = BlockAllowance]
  BY DEF BeginMine, settings
<1>3. job = NoJob
  BY <1>2 DEF AccountsInv, ReplayKnown
<1>4. job'.packed = job.packed /\ job'.fees = job.fees
  BY <1>2, <1>3 DEF NoJob
<1>5. CreditedChain' = CreditedChain
  BY <1>2 DEF CreditedChain
<1>6. BalancesKnown'
  BY <1>2, <1>4, <1>5, BalancesKept DEF AccountsInv, Running
<1>7. ReplayKnown' /\ BlockInProgressKnown'
  BY <1>2 DEF AccountsInv, ReplayKnown, BlockInProgressKnown, ValidMinerAddress
<1>8. QED
  BY <1>1, <1>6, <1>7, StoredKept DEF AccountsInv

(* A packed transfer is paid, and replays as it was executed.               *)
LEMMA PackTransferAccounts ==
  ASSUME IInv, AccountsInv, PackTransfer
  PROVE  AccountsInv'
<1> DEFINE tx == mempool[job.next]
           base == ReplayChain(CreditedChain)
           s == ReplayTransfers(base, job.packed)
<1>1. Stored' = Stored
  BY StoredUnchanged DEF PackTransfer
<1>2. /\ pc = "select" /\ pc' = "select" /\ chain' = chain
      /\ newBlock' = newBlock /\ minerAddress' = minerAddress
      /\ Affordable(state, tx) /\ state' = ExecuteTransfer(state, tx)
      /\ job' = [job EXCEPT !.next = @ + 1, !.packed = Append(@, tx),
                            !.fees = AddWord(@, tx.fee), !.bytes = @ + tx.size]
  BY DEF PackTransfer, settings
<1>3. tx \in Transfers /\ job \in Job
  BY ConsideredIsTransfer DEF IInv, TypeOK, PackTransfer
<1>4. /\ base \in Accounts /\ job.packed \in Seq(Transfers) /\ s \in Accounts /\ state \in Accounts
  BY CreditedTypes
<1>5. /\ \A a \in Comparable : state[a] = s[a]
      /\ ReplaysExactly(base, job.packed) /\ job.fees = TotalFee(job.packed)
  BY <1>2 DEF AccountsInv, BalancesKnown, Running
<1>6. CreditedChain' = CreditedChain
  BY <1>2 DEF CreditedChain
<1> HIDE DEF tx, base, s
<1>7. job'.packed = Append(job.packed, tx) /\ job'.fees = AddWord(job.fees, tx.fee)
  BY <1>2, <1>3 DEF Job
<1>8. Comparable \subseteq Account /\ tx.sender \in Comparable
  BY <1>3, ComparableFacts
<1>9. /\ Affordable(s, tx)
      /\ \A a \in Comparable : state'[a] = ReplayTransfer(s, tx)[a]
  <2>1. SameBalances(Comparable, state, s) /\ SameNonces(Comparable, state, s)
    BY <1>4, <1>5, <1>8, SameAccounts
  <2>2. /\ Affordable(state, tx) <=> Affordable(s, tx)
        /\ SameBalances(Comparable, ReplayTransfer(state, tx), ReplayTransfer(s, tx))
        /\ SameNonces(Comparable, ReplayTransfer(state, tx), ReplayTransfer(s, tx))
    BY <1>3, <1>4, <1>8, <2>1, TransferAgrees
  <2>3. ReplayTransfer(state, tx) \in Accounts /\ ReplayTransfer(s, tx) \in Accounts
    BY <1>3, <1>4, ReplayTransferType DEF Accounts
  <2>4. \A a \in Comparable : ReplayTransfer(state, tx)[a] = ReplayTransfer(s, tx)[a]
    BY <1>8, <2>2, <2>3, SameAccounts
  <2>5. QED
    BY <1>2, <2>2, <2>4, ExecuteIsReplay
<1>10. ReplayTransfers(base, Append(job.packed, tx)) = ReplayTransfer(s, tx)
  BY <1>3, <1>4, ReplayTransfersAppend DEF s
<1>11. ReplaysExactly(base, Append(job.packed, tx))
  BY <1>3, <1>4, <1>5, <1>9, ExactAppend DEF s
<1>12. TotalFee(job'.packed) = job'.fees
  BY <1>3, <1>4, <1>5, <1>7, TotalFeeAppend
<1>13. BalancesKnown'
  BY <1>6, <1>7, <1>9, <1>10, <1>11, <1>12 DEF BalancesKnown, base
<1>14. ReplayKnown' /\ BlockInProgressKnown'
  BY <1>2 DEF AccountsInv, ReplayKnown, BlockInProgressKnown, ValidMinerAddress
<1>15. QED
  BY <1>1, <1>13, <1>14, StoredKept DEF AccountsInv

(* Skipping a transfer, or ending the selection, packs nothing.             *)
LEMMA SelectAccounts ==
  ASSUME IInv, AccountsInv, SkipTransfer \/ EndSelect
  PROVE  AccountsInv'
<1>1. Stored' = Stored
  BY StoredUnchanged DEF SkipTransfer, EndSelect
<1>2. /\ pc = "select" /\ pc' \in {"select", "assemble"} /\ state' = state /\ chain' = chain
      /\ newBlock' = newBlock /\ minerAddress' = minerAddress
  BY DEF SkipTransfer, EndSelect, settings
<1>3. job'.packed = job.packed /\ job'.fees = job.fees
  BY DEF SkipTransfer, EndSelect, IInv, TypeOK, Job
<1>4. CreditedChain' = CreditedChain
  BY <1>2 DEF CreditedChain
<1>5. BalancesKnown'
  BY <1>2, <1>3, <1>4, BalancesKept DEF AccountsInv, Running
<1>6. ReplayKnown' /\ BlockInProgressKnown'
  BY <1>2 DEF AccountsInv, ReplayKnown, BlockInProgressKnown, ValidMinerAddress
<1>7. QED
  BY <1>1, <1>5, <1>6, StoredKept DEF AccountsInv

(* The block takes over what was packed, and its miner.                     *)
LEMMA AssembleBlockAccounts ==
  ASSUME IInv, AccountsInv, AssembleBlock
  PROVE  AccountsInv'
<1>1. Stored' = Stored
  BY StoredUnchanged DEF AssembleBlock
<1>2. /\ pc = "assemble" /\ pc' = "mining" /\ state' = state /\ chain' = chain
      /\ minerAddress' = minerAddress
  BY DEF AssembleBlock
<1>3. newBlock'.transfers = job.packed /\ newBlock'.miner = minerAddress
  BY DEF AssembleBlock
<1>4. job' = [job EXCEPT !.supply = GetTotalCirculatingSupply(chain)]
  BY DEF AssembleBlock
<1>5. job'.packed = job.packed /\ job'.fees = job.fees
  BY <1>4 DEF IInv, TypeOK, Job
<1>6. CreditedChain' = CreditedChain
  BY <1>2 DEF CreditedChain
<1>7. BalancesKnown'
  BY <1>2, <1>5, <1>6, BalancesKept DEF AccountsInv, Running
<1>8. ReplayKnown' /\ BlockInProgressKnown'
  BY <1>2, <1>3, <1>5 DEF AccountsInv, ReplayKnown, BlockInProgressKnown, ValidMinerAddress
<1>9. QED
  BY <1>1, <1>7, <1>8, StoredKept DEF AccountsInv

(* The search changes the hash alone.                                       *)
LEMMA FindBlockAccounts ==
  ASSUME IInv, AccountsInv, FindBlock
  PROVE  AccountsInv'
<1>1. Stored' = Stored
  BY StoredUnchanged DEF FindBlock
<1>2. /\ pc = "mining" /\ pc' \in {"commit", "panic"} /\ state' = state /\ chain' = chain
      /\ minerAddress' = minerAddress /\ job' = job
  BY DEF FindBlock, settings
<1>3. newBlock'.transfers = newBlock.transfers /\ newBlock'.miner = newBlock.miner
  <2>1. newBlock \in Block /\ newBlock' = [newBlock EXCEPT !.hash = FoundHash]
    BY <1>2 DEF IInv, NewBlockKnown, FindBlock
  <2>2. QED
    BY <2>1 DEF Block
<1>4. CreditedChain' = CreditedChain
  BY <1>2 DEF CreditedChain
<1>5. BalancesKnown'
  BY <1>2, <1>4, BalancesKept DEF AccountsInv, Running
<1>6. ReplayKnown' /\ BlockInProgressKnown'
  BY <1>2, <1>3 DEF AccountsInv, ReplayKnown, BlockInProgressKnown, ValidMinerAddress
<1>7. QED
  BY <1>1, <1>5, <1>6, StoredKept DEF AccountsInv

----------------------------------------------------------------------------
(* Each action preserves AccountsInv: saving the block. *)

(* The appended block is not credited yet.                                  *)
LEMMA AppendBlockAccounts ==
  ASSUME IInv, AccountsInv, AppendBlock
  PROVE  AccountsInv'
<1>1. Stored' = Stored
  BY StoredUnchanged DEF AppendBlock
<1>2. /\ pc = "commit" /\ pc' = "save" /\ state' = state /\ chain' = Append(chain, newBlock)
      /\ newBlock' = newBlock /\ minerAddress' = minerAddress /\ job' = job
  BY DEF AppendBlock, settings
<1>3. newBlock \in Block /\ chain = Stored /\ chain \in Seq(Block) /\ chain # <<>>
  BY <1>2, TipIsBlock DEF IInv, NewBlockKnown, Loaded
<1>4. newBlock.index > 0
  <2>1. IInv'
    BY AppendBlockStep
  <2>2. newBlock'.index = Len(Stored')
    BY <1>2, <2>1 DEF IInv, MemoryMatchesDisk
  <2>3. QED
    BY <1>1, <1>2, <1>3, <2>2
<1>5. CreditedChain = chain
  BY <1>2 DEF CreditedChain
<1>6. CreditedChain' = chain
  BY <1>2, <1>3, <1>4, PrefixOfAppend DEF CreditedChain
<1>7. BalancesKnown'
  BY <1>2, <1>5, <1>6, BalancesKept DEF AccountsInv, Running
<1>8. ReplayKnown' /\ BlockInProgressKnown'
  BY <1>2, <1>4 DEF AccountsInv, ReplayKnown, BlockInProgressKnown, ValidMinerAddress
<1>9. QED
  BY <1>1, <1>7, <1>8, StoredKept DEF AccountsInv

(* The first Put is not read by a restart.                                  *)
LEMMA PutBlockAccounts ==
  ASSUME IInv, AccountsInv, PutBlock
  PROVE  AccountsInv'
<1>1. Stored' = Stored
  BY PutBlockStep
<1>2. /\ pc = "save" /\ pc' = "index" /\ state' = state /\ chain' = chain
      /\ newBlock' = newBlock /\ minerAddress' = minerAddress /\ job' = job
  BY DEF PutBlock, settings
<1>3. CreditedChain' = CreditedChain
  BY <1>2 DEF CreditedChain
<1>4. BalancesKnown'
  BY <1>2, <1>3, BalancesKept DEF AccountsInv, Running
<1>5. ReplayKnown' /\ BlockInProgressKnown'
  BY <1>2 DEF AccountsInv, ReplayKnown, BlockInProgressKnown, ValidMinerAddress
<1>6. QED
  BY <1>1, <1>4, <1>5, StoredKept DEF AccountsInv

(* What the second Put makes durable replays exactly: the blocks below it   *)
(* are those the balances were packed against.                              *)
LEMMA PutLastIndexAccounts ==
  ASSUME IInv, AccountsInv, PutLastIndex
  PROVE  AccountsInv'
<1>1. /\ Stored' = Append(Stored, newBlock) /\ Stored \in Seq(Block) /\ newBlock \in Block
      /\ chain = Append(Stored, newBlock) /\ newBlock.index = Len(Stored)
  BY PutLastIndexStep, SavedAtEnd, StoredFacts DEF PutLastIndex, IInv, MemoryMatchesDisk
<1>2. /\ pc = "index" /\ state' = state /\ chain' = chain
      /\ pc' = (IF newBlock.index = 0 THEN "ready" ELSE "credit")
      /\ newBlock' = newBlock /\ minerAddress' = minerAddress /\ job' = job
  BY DEF PutLastIndex, settings
<1>3. Len(Stored) \in Nat /\ Len(Stored') = Len(Stored) + 1 /\ Stored'[Len(Stored) + 1] = newBlock
      /\ \A i \in 1 .. Len(Stored) : Stored'[i] = Stored[i]
      /\ \A k \in 0 .. Len(Stored) : SubSeq(Stored', 1, k) = SubSeq(Stored, 1, k)
      /\ SubSeq(Stored', 1, Len(Stored)) = Stored
      /\ Front(chain) = Stored
  <2>1. \A k \in 0 .. Len(Stored) : SubSeq(Stored', 1, k) = SubSeq(Stored, 1, k)
    BY <1>1, PrefixOfAppend
  <2>2. SubSeq(Stored', 1, Len(Stored)) = Stored /\ Front(chain) = Stored
    BY <1>1, PrefixOfAppend
  <2>3. QED
    BY <1>1, <2>1, <2>2
<1>4. CASE newBlock.index = 0
  <2>1. Stored = <<>>
    <3>1. Stored \in Seq(Block) /\ Len(Stored) = 0
      BY <1>1, <1>4
    <3>2. QED
      BY <3>1
  <2>2. newBlock.transfers = <<>> /\ newBlock.miner = SystemGenesis /\ job = NoJob
    BY <1>2, <1>4, <2>1 DEF IInv, NewBlockKnown, B!IsGenesis, AccountsInv, BlockInProgressKnown
  <2>3. ReplayNeverFloors' /\ MinersKnown'
    BY <1>3, <2>1, <2>2, ExactNone DEF ReplayNeverFloors, MinersKnown
  <2>4. CreditedChain' = CreditedChain
    BY <1>2, <1>4 DEF CreditedChain
  <2>5. BalancesKnown'
    BY <1>2, <2>4, BalancesKept DEF AccountsInv, Running
  <2>6. ReplayKnown' /\ BlockInProgressKnown'
    BY <1>2, <1>4, <2>2 DEF AccountsInv, ReplayKnown, BlockInProgressKnown, ValidMinerAddress
  <2>7. QED
    BY <2>3, <2>5, <2>6 DEF AccountsInv
<1>5. CASE newBlock.index # 0
  <2>1. newBlock.index > 0 /\ Len(Stored) > 0
    BY <1>1, <1>3, <1>5
  <2>2. CreditedChain = Stored
    BY <1>2, <1>3, <2>1 DEF CreditedChain
  <2>3. newBlock.transfers = job.packed /\ newBlock.miner = minerAddress /\ ValidMinerAddress
        /\ minerAddress \in MinerAddresses
    BY <1>2, <1>5 DEF AccountsInv, BlockInProgressKnown
  <2>4. ReplaysExactly(ReplayChain(Stored), newBlock.transfers)
    BY <1>2, <2>2, <2>3 DEF AccountsInv, BalancesKnown, Running
  <2>5. ReplayNeverFloors'
    <3>1. SUFFICES ASSUME NEW i \in 1 .. Len(Stored')
                   PROVE  ReplaysExactly(ReplayChain(SubSeq(Stored', 1, i - 1)), Stored'[i].transfers)
      BY DEF ReplayNeverFloors
    <3>2. CASE i \in 1 .. Len(Stored)
      <4>1. i - 1 \in 0 .. Len(Stored)
        BY <3>2
      <4>2. QED
        BY <1>3, <3>2, <4>1 DEF AccountsInv, ReplayNeverFloors
    <3>3. CASE i = Len(Stored) + 1
      <4>1. i - 1 = Len(Stored)
        BY <1>3, <3>3
      <4>2. SubSeq(Stored', 1, i - 1) = Stored
        <5>1. SubSeq(Stored', 1, Len(Stored)) = Stored
          BY <1>1, PrefixOfAppend
        <5>2. QED
          BY <4>1, <5>1
      <4>3. Stored'[i] = newBlock
        BY <1>3, <3>3
      <4>4. QED
        BY <2>4, <4>2, <4>3
    <3>4. QED
      BY <1>3, <3>2, <3>3
  <2>6. MinersKnown'
    BY <1>3, <2>1, <2>3 DEF AccountsInv, MinersKnown
  <2>7. CreditedChain' = CreditedChain
    BY <1>2, <1>5 DEF CreditedChain
  <2>8. BalancesKnown'
    BY <1>2, <2>7, BalancesKept DEF AccountsInv, Running
  <2>9. chain'[Len(chain')] = newBlock
    BY <1>1, <1>2
  <2>10. ReplayKnown' /\ BlockInProgressKnown'
    BY <1>2, <1>5, <2>1, <2>3, <2>9 DEF AccountsInv, ReplayKnown, BlockInProgressKnown, ValidMinerAddress
  <2>11. QED
    BY <2>5, <2>6, <2>8, <2>10 DEF AccountsInv
<1>6. QED
  BY <1>4, <1>5

(* MineBlock credits reward and fees as RebuildState will.                  *)
LEMMA CreditMinerAccounts ==
  ASSUME IInv, AccountsInv, CreditMiner
  PROVE  AccountsInv'
<1> DEFINE base == ReplayChain(CreditedChain)
           s == ReplayTransfers(base, job.packed)
           amount == AddWord(newBlock.reward, job.fees)
<1>1. Stored' = Stored
  BY StoredUnchanged DEF CreditMiner
<1>2. /\ pc = "credit" /\ pc' = "ready" /\ chain' = chain
      /\ minerAddress' = minerAddress /\ job' = NoJob
      /\ state' = Credit(state, minerAddress, amount)
  BY DEF CreditMiner, settings
<1>3. /\ newBlock \in Block /\ newBlock.index > 0 /\ chain[Len(chain)] = newBlock
      /\ newBlock.transfers = job.packed /\ newBlock.miner = minerAddress
      /\ minerAddress \in MinerAddresses
  BY <1>2 DEF IInv, NewBlockKnown, AccountsInv, BlockInProgressKnown
<1>4. chain \in Seq(Block) /\ chain # <<>>
  BY <1>2, TipIsBlock DEF Loaded
<1>5. CreditedChain = Front(chain) /\ CreditedChain' = chain
  BY <1>2, <1>3 DEF CreditedChain
<1>6. /\ base \in Accounts /\ job.packed \in Seq(Transfers) /\ s \in Accounts /\ state \in Accounts
  BY CreditedTypes
<1>7. /\ \A a \in Comparable : state[a] = s[a]
      /\ job.fees = TotalFee(job.packed)
  BY <1>2 DEF AccountsInv, BalancesKnown, Running
<1>8. amount \in Amount /\ minerAddress \in Account
  <2>1. newBlock.reward \in Amount /\ job.fees \in Amount /\ minerAddress \in Account
    BY <1>3, BlockFields DEF IInv, TypeOK, Job
  <2>2. QED
    BY <2>1, AddWordType
<1>9. ReplayChain(chain) = ReplayBlock(base, newBlock)
  <2>1. Len(chain) - 1 \in 0 .. Len(chain) - 1 /\ (Len(chain) - 1) + 1 = Len(chain)
    BY <1>4
  <2>2. ReplayChain(SubSeq(chain, 1, (Len(chain) - 1) + 1))
          = ReplayBlock(ReplayChain(SubSeq(chain, 1, Len(chain) - 1)), chain[(Len(chain) - 1) + 1])
    BY <1>4, <2>1, ReplayPrefix
  <2>3. SubSeq(chain, 1, Len(chain)) = chain
    BY <1>4, PrefixFacts
  <2>4. QED
    BY <1>3, <1>5, <2>1, <2>2, <2>3 DEF Front
<1> HIDE DEF base, s, amount
<1>10. ReplayChain(chain) = (IF minerAddress = SystemGenesis THEN s ELSE Credit(s, minerAddress, amount))
  BY <1>3, <1>7, <1>9 DEF ReplayBlock, ReplayReward, s, amount
<1>11. \A a \in Comparable : state'[a] = ReplayChain(chain)[a]
  <2>1. Comparable \subseteq Account
    BY ComparableFacts
  <2>2. SameBalances(Comparable, state, s) /\ SameNonces(Comparable, state, s)
    BY <1>6, <1>7, <2>1, SameAccounts
  <2>3. /\ SameBalances(Comparable, Credit(state, minerAddress, amount), Credit(s, minerAddress, amount))
        /\ minerAddress \notin Comparable
             => SameBalances(Comparable, Credit(state, minerAddress, amount), s)
        /\ SameNonces(Comparable, Credit(state, minerAddress, amount), Credit(s, minerAddress, amount))
        /\ SameNonces(Comparable, Credit(state, minerAddress, amount), s)
    BY <1>6, <1>8, <2>1, <2>2, CreditAgrees
  <2>4. state' \in Accounts /\ Credit(s, minerAddress, amount) \in Accounts
    BY <1>2, <1>6, <1>8, CreditType DEF Accounts
  <2>5. minerAddress = SystemGenesis => minerAddress \notin Comparable
    BY <1>3 DEF Comparable
  <2>6. CASE minerAddress = SystemGenesis
    <3>1. \A a \in Comparable : Credit(state, minerAddress, amount)[a] = s[a]
      BY <1>2, <1>6, <2>1, <2>3, <2>4, <2>5, <2>6, SameAccounts
    <3>2. QED
      BY <1>2, <1>10, <2>6, <3>1
  <2>7. CASE minerAddress # SystemGenesis
    <3>1. \A a \in Comparable : Credit(state, minerAddress, amount)[a] = Credit(s, minerAddress, amount)[a]
      BY <1>2, <2>1, <2>3, <2>4, SameAccounts
    <3>2. QED
      BY <1>2, <1>10, <2>7, <3>1
  <2>8. QED
    BY <2>6, <2>7
<1>12. BalancesKnown'
  <2>1. job'.packed = <<>> /\ job'.fees = 0
    BY <1>2 DEF NoJob
  <2>2. ReplayTransfers(ReplayChain(CreditedChain'), job'.packed) = ReplayChain(chain)
    BY <1>4, <1>5, <2>1, ReplayChainType, ReplayNoTransfers
  <2>3. ReplaysExactly(ReplayChain(CreditedChain'), job'.packed)
    BY <2>1, ExactNone
  <2>4. QED
    BY <1>11, <2>1, <2>2, <2>3, TotalFeeNone DEF BalancesKnown
<1>13. ReplayKnown' /\ BlockInProgressKnown'
  BY <1>2, <1>3 DEF AccountsInv, ReplayKnown, BlockInProgressKnown
<1>14. QED
  BY <1>1, <1>12, <1>13, StoredKept DEF AccountsInv

----------------------------------------------------------------------------

(* The invariant holds of an empty database.                                *)
LEMMA AccountsInit ==
  ASSUME Init
  PROVE  AccountsInv
<1>1. Len(Stored) = 0
  BY IInvInit, StoredFacts DEF Init, IInv
<1>2. ReplayNeverFloors /\ MinersKnown
  BY <1>1 DEF ReplayNeverFloors, MinersKnown
<1>3. QED
  BY <1>2 DEF Init, AccountsInv, ReplayKnown, BalancesKnown, Running, BlockInProgressKnown

(* Every step of the ledger keeps it.                                       *)
LEMMA AccountsStep ==
  ASSUME IInv, AccountsInv, [Next]_vars
  PROVE  AccountsInv'
<1>1. CASE Load
  BY <1>1, InitializeAccounts, ClearAllAccounts, SpawnGenesisAccounts, RebuildAccounts,
     VerifyAccounts DEF Load
<1>2. CASE MineBlock
  BY <1>2, RejectMinerAccounts, BeginMineAccounts, PackTransferAccounts, SelectAccounts,
     AssembleBlockAccounts, FindBlockAccounts, AppendBlockAccounts DEF MineBlock
<1>3. CASE Save
  BY <1>3, PutBlockAccounts, PutLastIndexAccounts, CreditMinerAccounts DEF Save
<1>4. CASE Pool
  BY <1>4, PoolAccounts
<1>5. CASE Stop
  BY <1>5, EndAccounts
<1>6. CASE Upgrade \/ UNCHANGED vars
  <2>1. Stored' = Stored
    BY <1>6, StoredUnchanged DEF Upgrade, vars, disk
  <2>2. UNCHANGED <<pc, chain, state, minerAddress, job, newBlock, cursor>>
    BY <1>6 DEF Upgrade, vars, settings
  <2>3. QED
    BY <2>1, <2>2, QuietAccounts
<1>7. QED
  BY <1>1, <1>2, <1>3, <1>4, <1>5, <1>6 DEF Next

(* At every location the balances are what AccountsInv says of them.        *)
THEOREM LedgerAccountsInvariant == Spec => []AccountsInv
<1>1. Init => AccountsInv
  BY AccountsInit
<1>2. IInv /\ AccountsInv /\ [Next]_vars => AccountsInv'
  BY AccountsStep
<1>3. QED
  BY <1>1, <1>2, LedgerInvariant, PTL DEF Spec

(* However many blocks were mined, loaded and reset, and wherever the       *)
(* process stopped: what a running ledger shows as a balance is what a      *)
(* restart would rebuild.                                                   *)
THEOREM LedgerStateIsReplay == Spec => []StateIsReplay
<1>1. AccountsInv => StateIsReplay
  BY ComparableFacts DEF AccountsInv, BalancesKnown, StateIsReplay
<1>2. QED
  BY <1>1, LedgerAccountsInvariant, PTL

(* No block this program stored makes RebuildState empty an account.        *)
THEOREM LedgerNeverFloors == Spec => []ReplayNeverFloors
<1>1. AccountsInv => ReplayNeverFloors
  BY DEF AccountsInv
<1>2. QED
  BY <1>1, LedgerAccountsInvariant, PTL

----------------------------------------------------------------------------
(* Sums over a finite set. *)

Pick(s) == CHOOSE x \in s : TRUE

(* g adds up f over every subset of S, in the order of Pick.                *)
SumsUp(g, f, S) ==
  \A s \in SUBSET S : g[s] = IF s = {} THEN 0 ELSE f[Pick(s)] + g[s \ {Pick(s)}]

(* Such a function exists.                                                  *)
LEMMA SumExists ==
  ASSUME NEW S, IsFiniteSet(S), NEW f, \A x \in S : f[x] \in Nat
  PROVE  \E g \in [SUBSET S -> Nat] : SumsUp(g, f, S)
<1> DEFINE Small(n) == {s \in SUBSET S : Cardinality(s) <= n}
           Adds(g, n) == /\ g \in [Small(n) -> Nat]
                         /\ \A s \in Small(n) :
                              g[s] = IF s = {} THEN 0 ELSE f[Pick(s)] + g[s \ {Pick(s)}]
           T == {n \in Nat : \E g : Adds(g, n)}
<1>0. \A s \in SUBSET S : IsFiniteSet(s) /\ Cardinality(s) \in Nat /\ Cardinality(s) <= Cardinality(S)
  BY FS_Subset, FS_CardinalityType
<1>1. \A s \in SUBSET S : s # {} => /\ Pick(s) \in s /\ f[Pick(s)] \in Nat
                                    /\ s \ {Pick(s)} \in SUBSET S
                                    /\ Cardinality(s \ {Pick(s)}) = Cardinality(s) - 1
  <2>1. \A s \in SUBSET S : s # {} => Pick(s) \in s
    BY DEF Pick
  <2>2. QED
    BY <1>0, <2>1, FS_RemoveElement
<1>2. \A s \in SUBSET S : Cardinality(s) = 0 <=> s = {}
  BY <1>0, FS_EmptySet
<1>3. 0 \in T
  <2> DEFINE g == [s \in Small(0) |-> 0]
  <2>1. \A s \in Small(0) : s = {}
    BY <1>0, <1>2
  <2>2. Adds(g, 0)
    BY <2>1
  <2> HIDE DEF Adds
  <2>3. QED
    BY <2>2
<1>4. ASSUME NEW n \in Nat, n \in T PROVE n + 1 \in T
  <2>1. PICK g : Adds(g, n)
    BY <1>4
  <2> DEFINE h == [s \in Small(n + 1) |-> IF s = {} THEN 0 ELSE f[Pick(s)] + g[s \ {Pick(s)}]]
  <2>2. \A s \in Small(n + 1) : s # {} => s \ {Pick(s)} \in Small(n)
    BY <1>0, <1>1
  <2>3. \A s \in Small(n) : s \in Small(n + 1) /\ h[s] = g[s]
    BY <1>0, <2>1
  <2>4. h \in [Small(n + 1) -> Nat]
    <3>1. ASSUME NEW s \in Small(n + 1) PROVE h[s] \in Nat
      <4>1. CASE s = {}
        BY <4>1
      <4>2. CASE s # {}
        <5>1. f[Pick(s)] \in Nat /\ g[s \ {Pick(s)}] \in Nat
          BY <1>1, <2>1, <2>2, <4>2
        <5>2. QED
          BY <4>2, <5>1
      <4>3. QED
        BY <4>1, <4>2
    <3>2. QED
      BY <3>1
  <2>5. \A s \in Small(n + 1) : h[s] = IF s = {} THEN 0 ELSE f[Pick(s)] + h[s \ {Pick(s)}]
    <3>1. ASSUME NEW s \in Small(n + 1), s # {} PROVE h[s \ {Pick(s)}] = g[s \ {Pick(s)}]
      BY <2>2, <2>3, <3>1
    <3>2. QED
      BY <3>1
  <2>6. Adds(h, n + 1)
    BY <2>4, <2>5
  <2> HIDE DEF Adds, h
  <2>7. QED
    BY <2>6
<1>5. Nat \subseteq T
  <2> HIDE DEF T
  <2> QED  BY <1>3, <1>4, SetInduction
<1>6. Cardinality(S) \in T
  BY <1>5, FS_CardinalityType
<1>7. PICK g : Adds(g, Cardinality(S))
  BY <1>6
<1>8. Small(Cardinality(S)) = SUBSET S
  BY <1>0
<1>9. QED
  BY <1>7, <1>8 DEF SumsUp

(* And is unique, and looks at nothing else.                                *)
LEMMA SumUnique ==
  ASSUME NEW S, IsFiniteSet(S), NEW f, NEW e, \A x \in S : f[x] = e[x],
         NEW g, NEW h, SumsUp(g, f, S), SumsUp(h, e, S)
  PROVE  \A s \in SUBSET S : g[s] = h[s]
<1> DEFINE T == {n \in Nat : \A s \in SUBSET S : Cardinality(s) = n => g[s] = h[s]}
<1>0. \A s \in SUBSET S : IsFiniteSet(s) /\ Cardinality(s) \in Nat
  BY FS_Subset, FS_CardinalityType
<1>1. \A s \in SUBSET S : s # {} => /\ Pick(s) \in S /\ s \ {Pick(s)} \in SUBSET S
                                    /\ Cardinality(s \ {Pick(s)}) = Cardinality(s) - 1
  <2>1. \A s \in SUBSET S : s # {} => Pick(s) \in s
    BY DEF Pick
  <2>2. QED
    BY <1>0, <2>1, FS_RemoveElement
<1>2. \A s \in SUBSET S : Cardinality(s) = 0 <=> s = {}
  BY <1>0, FS_EmptySet
<1>3. 0 \in T
  BY <1>2 DEF SumsUp
<1>4. ASSUME NEW n \in Nat, n \in T PROVE n + 1 \in T
  <2>1. SUFFICES ASSUME NEW s \in SUBSET S, Cardinality(s) = n + 1 PROVE g[s] = h[s]
    OBVIOUS
  <2>2. s # {}
    BY <1>2, <2>1
  <2>3. s \ {Pick(s)} \in SUBSET S /\ Cardinality(s \ {Pick(s)}) = n
    BY <1>1, <2>1, <2>2
  <2>4. g[s \ {Pick(s)}] = h[s \ {Pick(s)}]
    BY <1>4, <2>3
  <2>5. f[Pick(s)] = e[Pick(s)]
    BY <1>1, <2>2
  <2>6. QED
    BY <2>2, <2>4, <2>5 DEF SumsUp
<1>5. Nat \subseteq T
  <2> HIDE DEF T
  <2> QED  BY <1>3, <1>4, SetInduction
<1>6. QED
  BY <1>0, <1>5

(* SumFunctionOnSet is that function's value.                               *)
LEMMA SumDefined ==
  ASSUME NEW S, IsFiniteSet(S), NEW f, NEW g, g \in [SUBSET S -> Nat], SumsUp(g, f, S)
  PROVE  SumFunctionOnSet(f, S) = g[S]
<1> DEFINE IsIter(it) == it = [s \in SUBSET S |-> IF s = {} THEN 0
                                                  ELSE f[Pick(s)] + it[s \ {Pick(s)}]]
           iter == CHOOSE it : IsIter(it)
<1>1. IsIter(g)
  <2>1. g = [s \in SUBSET S |-> g[s]]
    OBVIOUS
  <2>2. QED
    BY <2>1 DEF SumsUp
<1>2. IsIter(iter)
  BY <1>1
<1>3. SumsUp(iter, f, S)
  <2> HIDE DEF iter
  <2> QED  BY <1>2 DEF SumsUp
<1>4. SumFunctionOnSet(f, S) = iter[S]
  BY DEF SumFunctionOnSet, FoldFunctionOnSet, MapThenFoldSet, Pick
<1> HIDE DEF iter
<1>5. QED
  BY <1>3, <1>4, SumUnique

(* A sum that exists for a set exists for its subsets.                      *)
LEMMA SumOfSubset ==
  ASSUME NEW S, IsFiniteSet(S), NEW f, NEW g, g \in [SUBSET S -> Nat], SumsUp(g, f, S),
         NEW T \in SUBSET S
  PROVE  SumFunctionOnSet(f, T) = g[T]
<1> DEFINE h == [s \in SUBSET T |-> g[s]]
<1>1. h \in [SUBSET T -> Nat] /\ IsFiniteSet(T)
  BY FS_Subset
<1>2. SumsUp(h, f, T)
  BY DEF SumsUp
<1>3. h[T] = g[T]
  OBVIOUS
<1> HIDE DEF h
<1>4. QED
  BY <1>1, <1>2, <1>3, SumDefined

(* What every sum over a finite set has: a type, and no order.              *)
LEMMA SumFacts ==
  ASSUME NEW S, IsFiniteSet(S), NEW f, \A x \in S : f[x] \in Nat
  PROVE  /\ SumFunctionOnSet(f, S) \in Nat
         /\ S = {} => SumFunctionOnSet(f, S) = 0
         /\ \A x \in S : /\ SumFunctionOnSet(f, S \ {x}) \in Nat
                         /\ SumFunctionOnSet(f, S) = f[x] + SumFunctionOnSet(f, S \ {x})
         /\ \A e : (\A x \in S : e[x] = f[x]) => SumFunctionOnSet(e, S) = SumFunctionOnSet(f, S)
<1>1. PICK g \in [SUBSET S -> Nat] : SumsUp(g, f, S)
  BY SumExists
<1>2. \A t \in SUBSET S : SumFunctionOnSet(f, t) = g[t] /\ g[t] \in Nat
  BY <1>1, SumOfSubset
<1>3. S \in SUBSET S /\ \A x \in S : S \ {x} \in SUBSET S
  OBVIOUS
<1>4. S = {} => SumFunctionOnSet(f, S) = 0
  BY <1>1, <1>2, <1>3 DEF SumsUp
<1>5. \A s \in SUBSET S : \A x \in s : g[s] = f[x] + g[s \ {x}]
  <2> DEFINE T == {n \in Nat : \A s \in SUBSET S :
                     Cardinality(s) = n => \A x \in s : g[s] = f[x] + g[s \ {x}]}
  <2>0. \A s \in SUBSET S : IsFiniteSet(s) /\ Cardinality(s) \in Nat
    BY FS_Subset, FS_CardinalityType
  <2>1. 0 \in T
    BY <2>0, FS_EmptySet
  <2>2. ASSUME NEW n \in Nat, n \in T PROVE n + 1 \in T
    <3>1. SUFFICES ASSUME NEW s \in SUBSET S, Cardinality(s) = n + 1, NEW x \in s
                   PROVE  g[s] = f[x] + g[s \ {x}]
      OBVIOUS
    <3> DEFINE c == Pick(s)
    <3>2. c \in s /\ c \in S /\ x \in S
      BY DEF Pick
    <3>3. g[s] = f[c] + g[s \ {c}]
      BY <1>1, <3>2 DEF SumsUp
    <3> HIDE DEF c
    <3>4. CASE x = c
      BY <3>3, <3>4
    <3>5. CASE x # c
      <4>1. /\ s \ {c} \in SUBSET S /\ Cardinality(s \ {c}) = n /\ x \in s \ {c}
            /\ s \ {x} \in SUBSET S /\ Cardinality(s \ {x}) = n /\ c \in s \ {x}
        <5>1. IsFiniteSet(s) /\ (n + 1) - 1 = n
          BY <2>0
        <5>2. Cardinality(s \ {c}) = Cardinality(s) - 1 /\ Cardinality(s \ {x}) = Cardinality(s) - 1
          BY <3>2, <5>1, FS_RemoveElement
        <5>3. x \in s \ {c} /\ c \in s \ {x} /\ s \ {c} \in SUBSET S /\ s \ {x} \in SUBSET S
          BY <3>2, <3>5
        <5>4. QED
          BY <3>1, <5>1, <5>2, <5>3
      <4>2. g[s \ {c}] = f[x] + g[(s \ {c}) \ {x}]
        BY <2>2, <4>1
      <4>3. g[s \ {x}] = f[c] + g[(s \ {x}) \ {c}]
        BY <2>2, <4>1
      <4>4. (s \ {c}) \ {x} = (s \ {x}) \ {c} /\ (s \ {c}) \ {x} \in SUBSET S
        OBVIOUS
      <4>5. f[x] \in Nat /\ f[c] \in Nat /\ g[(s \ {c}) \ {x}] \in Nat
        BY <1>1, <3>2, <4>4
      <4> DEFINE rest == g[(s \ {c}) \ {x}]
      <4>6. g[s] = f[c] + (f[x] + rest) /\ g[s \ {x}] = f[c] + rest
        BY <3>3, <4>2, <4>3, <4>4
      <4> HIDE DEF rest
      <4>7. QED
        BY <4>5, <4>6 DEF rest
    <3>6. QED
      BY <3>4, <3>5
  <2>3. Nat \subseteq T
    <3> HIDE DEF T
    <3> QED  BY <2>1, <2>2, SetInduction
  <2>4. QED
    BY <2>0, <2>3
<1>6. ASSUME NEW e, \A x \in S : e[x] = f[x]
      PROVE  SumFunctionOnSet(e, S) = SumFunctionOnSet(f, S)
  <2>1. PICK h \in [SUBSET S -> Nat] : SumsUp(h, e, S)
    BY <1>6, SumExists
  <2>2. SumFunctionOnSet(e, S) = h[S]
    BY <2>1, SumDefined
  <2>3. h[S] = g[S]
    BY <1>1, <1>6, <2>1, <1>3, SumUnique
  <2>4. QED
    BY <1>2, <1>3, <2>2, <2>3
<1>7. QED
  BY <1>2, <1>3, <1>4, <1>5, <1>6

----------------------------------------------------------------------------
(* Coins. *)

(* The coins of some accounts, and of two states that differ in one.        *)
LEMMA CoinsFacts ==
  ASSUME IsFiniteSet(Account), NEW s \in Accounts
  PROVE  /\ Coins(s) \in Nat
         /\ \A a \in Account : s[a].balance \in Nat /\ s[a].balance <= Coins(s)
         /\ \A t \in Accounts : SameBalances(Account, s, t) => Coins(s) = Coins(t)
         /\ \A t \in Accounts : \A a \in Account :
              SameBalances(Account \ {a}, s, t)
                => Coins(s) + t[a].balance = Coins(t) + s[a].balance
<1> DEFINE held(u) == [a \in Account |-> u[a].balance]
           but(u, a) == SumFunctionOnSet(held(u), Account \ {a})
<1>1. ASSUME NEW u \in Accounts
      PROVE  /\ Coins(u) = SumFunctionOnSet(held(u), Account)
             /\ \A a \in Account : held(u)[a] = u[a].balance /\ u[a].balance \in Nat
  <2>1. Coins(u) = SumFunctionOnSet(held(u), Account)
    BY DEF Coins, SumFunction
  <2>2. \A a \in Account : u[a].balance \in Nat
    BY WordAssumption DEF Accounts, AccountState, Amount
  <2>3. QED
    BY <2>1, <2>2
<1>2. ASSUME NEW u \in Accounts
      PROVE  /\ Coins(u) \in Nat
             /\ \A a \in Account : but(u, a) \in Nat /\ Coins(u) = u[a].balance + but(u, a)
  <2> DEFINE f == held(u)
  <2>1. /\ Coins(u) = SumFunctionOnSet(f, Account)
        /\ \A a \in Account : f[a] = u[a].balance /\ f[a] \in Nat
    BY <1>1
  <2> HIDE DEF f
  <2>2. /\ SumFunctionOnSet(f, Account) \in Nat
        /\ \A a \in Account : /\ SumFunctionOnSet(f, Account \ {a}) \in Nat
                              /\ SumFunctionOnSet(f, Account)
                                   = f[a] + SumFunctionOnSet(f, Account \ {a})
    BY <2>1, SumFacts
  <2>3. QED
    BY <2>1, <2>2 DEF f
<1>3. ASSUME NEW a \in Account PROVE s[a].balance \in Nat /\ s[a].balance <= Coins(s)
  <2>1. s[a].balance \in Nat /\ but(s, a) \in Nat /\ Coins(s) = s[a].balance + but(s, a)
    BY <1>1, <1>2
  <2> HIDE DEF but
  <2>2. QED
    BY <2>1
<1>4. ASSUME NEW t \in Accounts, SameBalances(Account, s, t) PROVE Coins(s) = Coins(t)
  <2>1. held(s) = held(t)
    BY <1>4 DEF SameBalances
  <2>2. QED
    BY <1>1, <2>1
<1>5. ASSUME NEW t \in Accounts, NEW a \in Account, SameBalances(Account \ {a}, s, t)
      PROVE  Coins(s) + t[a].balance = Coins(t) + s[a].balance
  <2>1. but(s, a) = but(t, a)
    <3> DEFINE f == held(s)
               e == held(t)
    <3>1. \A b \in Account \ {a} : f[b] \in Nat /\ e[b] = f[b]
      BY <1>1, <1>5 DEF SameBalances
    <3>2. IsFiniteSet(Account \ {a})
      BY FS_RemoveElement
    <3> HIDE DEF f, e
    <3>3. SumFunctionOnSet(e, Account \ {a}) = SumFunctionOnSet(f, Account \ {a})
      BY <3>1, <3>2, SumFacts
    <3>4. QED
      BY <3>3 DEF e, f
  <2>2. Coins(s) = s[a].balance + but(s, a) /\ Coins(t) = t[a].balance + but(t, a)
    BY <1>2
  <2>3. s[a].balance \in Nat /\ t[a].balance \in Nat /\ but(s, a) \in Nat
    BY <1>1, <1>2
  <2> HIDE DEF but
  <2>4. QED
    BY <2>1, <2>2, <2>3
<1>6. QED
  BY <1>2, <1>3, <1>4, <1>5

(* Nobody has anything: no coins.                                           *)
LEMMA CoinsZero ==
  ASSUME IsFiniteSet(Account)
  PROVE  Coins(ZeroState) = 0
<1> DEFINE f == [a \in Account |-> ZeroState[a].balance]
           T == {n \in Nat : \A s \in SUBSET Account :
                   Cardinality(s) = n => SumFunctionOnSet(f, s) = 0}
<1>1. \A a \in Account : f[a] = 0
  BY DEF ZeroState
<1>2. \A s \in SUBSET Account : IsFiniteSet(s) /\ Cardinality(s) \in Nat
  BY FS_Subset, FS_CardinalityType
<1>3. Coins(ZeroState) = SumFunctionOnSet(f, Account)
  BY DEF Coins, SumFunction
<1> HIDE DEF f
<1>4. ASSUME NEW s \in SUBSET Account
      PROVE  /\ s = {} => SumFunctionOnSet(f, s) = 0
             /\ \A x \in s : SumFunctionOnSet(f, s) = f[x] + SumFunctionOnSet(f, s \ {x})
  <2>1. IsFiniteSet(s) /\ \A x \in s : f[x] \in Nat
    BY <1>1, <1>2
  <2>2. QED
    BY <2>1, SumFacts
<1>5. 0 \in T
  BY <1>2, <1>4, FS_EmptySet
<1>6. ASSUME NEW n \in Nat, n \in T PROVE n + 1 \in T
  <2>1. SUFFICES ASSUME NEW s \in SUBSET Account, Cardinality(s) = n + 1
                 PROVE  SumFunctionOnSet(f, s) = 0
    OBVIOUS
  <2>2. s # {}
    BY <1>2, <2>1, FS_EmptySet
  <2>3. PICK x \in s : TRUE
    BY <2>2
  <2>4. s \ {x} \in SUBSET Account /\ Cardinality(s \ {x}) = n
    <3>1. Cardinality(s \ {x}) = Cardinality(s) - 1
      BY <1>2, <2>3, FS_RemoveElement
    <3>2. QED
      BY <2>1, <3>1
  <2>5. SumFunctionOnSet(f, s \ {x}) = 0
    BY <1>6, <2>4
  <2>6. QED
    BY <1>1, <1>4, <2>3, <2>5
<1>7. Nat \subseteq T
  <2> HIDE DEF T
  <2> QED  BY <1>5, <1>6, SetInduction
<1>8. QED
  BY <1>2, <1>3, <1>7

(* A credit that does not wrap adds its amount.                             *)
LEMMA CreditConserves ==
  ASSUME IsFiniteSet(Account), NEW s \in Accounts, NEW to \in Account, NEW amount \in Amount,
         Coins(s) + amount < Word
  PROVE  Coins(Credit(s, to, amount)) = Coins(s) + amount
<1> DEFINE t == Credit(s, to, amount)
<1>1. t \in Accounts
  BY CreditType DEF Accounts
<1>2. /\ t[to].balance = AddWord(s[to].balance, amount)
      /\ SameBalances(Account \ {to}, s, t)
  BY CreditEffect DEF SameBalances
<1> HIDE DEF t
<1>3. /\ Coins(s) \in Nat /\ Coins(t) \in Nat /\ s[to].balance \in Nat /\ s[to].balance <= Coins(s)
      /\ Coins(s) + t[to].balance = Coins(t) + s[to].balance
  BY <1>1, <1>2, CoinsFacts
<1>4. amount \in Nat /\ Word \in Nat
  BY WordAssumption DEF Amount
<1>5. t[to].balance = s[to].balance + amount
  BY <1>2, <1>3, <1>4 DEF AddWord
<1>6. QED
  BY <1>3, <1>4, <1>5 DEF t

(* A debit takes what it takes.                                             *)
LEMMA DebitConserves ==
  ASSUME IsFiniteSet(Account), NEW s \in Accounts, NEW from \in Account,
         NEW amount \in Nat, amount <= s[from].balance
  PROVE  /\ Debit(s, from, s[from].balance - amount) \in Accounts
         /\ Coins(Debit(s, from, s[from].balance - amount)) \in Nat
         /\ Coins(Debit(s, from, s[from].balance - amount)) + amount = Coins(s)
<1> DEFINE left == s[from].balance - amount
           t == Debit(s, from, left)
<1>1. left \in Amount /\ s[from].balance \in Nat
  BY WordAssumption DEF Accounts, AccountState, Amount
<1>2. t \in Accounts
  <2> HIDE DEF left
  <2> QED  BY <1>1, DebitType DEF Accounts
<1>3. t[from].balance = left /\ SameBalances(Account \ {from}, s, t)
  BY DEF Debit, SameBalances, Accounts
<1> HIDE DEF t
<1>4. /\ Coins(s) \in Nat /\ Coins(t) \in Nat
      /\ Coins(s) + t[from].balance = Coins(t) + s[from].balance
  BY <1>2, <1>3, CoinsFacts
<1>5. QED
  BY <1>1, <1>2, <1>3, <1>4 DEF t

(* A transfer that is paid costs the accounts its fee.                      *)
LEMMA TransferConserves ==
  ASSUME IsFiniteSet(Account), NEW s \in Accounts, NEW tx \in Transfers,
         tx.value + tx.fee < Word, Affordable(s, tx), Coins(s) < Word
  PROVE  /\ Coins(ReplayTransfer(s, tx)) \in Nat
         /\ Coins(ReplayTransfer(s, tx)) + tx.fee = Coins(s)
<1> DEFINE cost == TransferCost(tx)
           debited == Debit(s, tx.sender, s[tx.sender].balance - cost)
<1>1. /\ tx.sender \in Account /\ tx.recipient \in Account /\ tx.value \in Amount
      /\ tx.value \in Nat /\ tx.fee \in Nat
  BY TransferFields, WordAssumption DEF Amount
<1>2. cost = tx.value + tx.fee /\ cost \in Nat /\ cost <= s[tx.sender].balance
  <2>1. cost = tx.value + tx.fee
    BY DEF TransferCost, AddWord
  <2>2. cost <= s[tx.sender].balance
    <3>1. s[tx.sender].balance >= TransferCost(tx) /\ s[tx.sender].balance \in Nat
      BY <1>1, CoinsFacts DEF Affordable
    <3>2. QED
      BY <1>1, <2>1, <3>1
  <2>3. QED
    BY <1>1, <2>1, <2>2
<1>3. ReplayTransfer(s, tx) = Credit(debited, tx.recipient, tx.value)
  BY DEF ReplayTransfer, ExecuteTransfer
<1> HIDE DEF cost
<1>4. debited \in Accounts /\ Coins(debited) \in Nat /\ Coins(debited) + cost = Coins(s)
  BY <1>1, <1>2, DebitConserves
<1> HIDE DEF debited
<1>5. Coins(debited) + tx.value < Word
  BY <1>1, <1>2, <1>4, WordAssumption
<1>6. Coins(Credit(debited, tx.recipient, tx.value)) = Coins(debited) + tx.value
  BY <1>1, <1>4, <1>5, CreditConserves
<1>7. QED
  BY <1>1, <1>2, <1>3, <1>4, <1>6

(* The transfers of a block that are all paid cost their fees, when none of *)
(* them wraps.                                                              *)
LEMMA TransfersConserve ==
  ASSUME IsFiniteSet(Account), NEW s \in Accounts, NEW ts \in Seq(Transfers),
         NoneWraps(ts), ReplaysExactly(s, ts), Coins(s) < Word
  PROVE  Coins(ReplayTransfers(s, ts)) + TotalFee(ts) = Coins(s)
<1> DEFINE first(k) == SubSeq(ts, 1, k)
           Kept(k) == Coins(ReplayTransfers(s, first(k))) + TotalFee(first(k)) = Coins(s)
           T == {k \in Nat : k <= Len(ts) => Kept(k)}
<1>0. Coins(s) \in Nat /\ Word \in Nat \ {0}
  BY CoinsFacts, WordAssumption
<1>1. 0 \in T
  <2>1. first(0) = <<>>
    BY PrefixFacts
  <2>2. ReplayTransfers(s, <<>>) = s /\ TotalFee(<<>>) = 0
    BY ReplayNoTransfers, TotalFeeNone
  <2> HIDE DEF first
  <2>3. ReplayTransfers(s, first(0)) = s /\ TotalFee(first(0)) = 0
    BY <2>1, <2>2
  <2>4. QED
    BY <1>0, <2>3
<1>2. ASSUME NEW k \in Nat, k \in T PROVE k + 1 \in T
  <2>1. SUFFICES ASSUME k + 1 <= Len(ts) PROVE Kept(k + 1)
    OBVIOUS
  <2>2. /\ k \in 0 .. Len(ts) - 1 /\ k \in 0 .. Len(ts) /\ k <= Len(ts)
        /\ k + 1 \in 1 .. Len(ts) /\ (k + 1) - 1 = k
    BY <2>1
  <2> DEFINE tx == ts[k + 1]
             p == first(k)
             mid == ReplayTransfers(s, p)
  <2>3. tx \in Transfers /\ p \in Seq(Transfers) /\ first(k + 1) = Append(p, tx)
    BY <2>2, PrefixFacts
  <2>4. mid \in Accounts
    BY <2>3, ReplayTransfersType
  <2>5. Affordable(mid, tx)
    <3>1. Affordable(ReplayTransfers(s, SubSeq(ts, 1, (k + 1) - 1)), ts[k + 1])
      BY <2>2 DEF ReplaysExactly
    <3>2. QED
      BY <2>2, <3>1
  <2>6. Coins(mid) + TotalFee(p) = Coins(s)
    BY <1>2, <2>2
  <2>7. TotalFee(p) \in Nat /\ Coins(mid) \in Nat /\ tx.fee \in Nat
    <3>1. TotalFee(p) \in Amount /\ tx.fee \in Amount
      BY <2>3, TotalFeeType, TransferFields
    <3>2. Coins(mid) \in Nat
      BY <2>4, CoinsFacts
    <3>3. \A n \in Amount : n \in Nat
      BY <1>0 DEF Amount
    <3>4. QED
      BY <3>1, <3>2, <3>3
  <2>8. /\ ReplayTransfers(s, first(k + 1)) = ReplayTransfer(mid, tx)
        /\ TotalFee(first(k + 1)) = AddWord(TotalFee(p), tx.fee)
    BY <2>3, ReplayTransfersAppend, TotalFeeAppend
  <2>13. tx.value + tx.fee < Word
    BY <2>2 DEF NoneWraps
  <2> HIDE DEF first, tx, p, mid
  <2>9. Coins(mid) < Word
    BY <1>0, <2>6, <2>7
  <2>10. /\ Coins(ReplayTransfer(mid, tx)) \in Nat
         /\ Coins(ReplayTransfer(mid, tx)) + tx.fee = Coins(mid)
    BY <2>3, <2>4, <2>5, <2>9, <2>13, TransferConserves
  <2>11. AddWord(TotalFee(p), tx.fee) = TotalFee(p) + tx.fee
    BY <1>0, <2>6, <2>7, <2>10 DEF AddWord
  <2>12. QED
    BY <2>6, <2>7, <2>8, <2>10, <2>11
<1>3. Nat \subseteq T
  <2> HIDE DEF T
  <2> QED  BY <1>1, <1>2, SetInduction
<1>4. Len(ts) \in T
  BY <1>3
<1>5. first(Len(ts)) = ts
  BY PrefixFacts
<1>6. Kept(Len(ts))
  BY <1>4
<1> HIDE DEF first
<1>7. QED
  BY <1>5, <1>6

----------------------------------------------------------------------------
(* Coins up to words: what is left of the above when sums wrap. *)

Congruent(x, y) == \E k \in Int : x = y + (Word * k)

(* Congruence is kept by what is done with it here.                         *)
LEMMA CongruentFacts ==
  ASSUME NEW x \in Int, NEW y \in Int
  PROVE  /\ Congruent(x, x)
         /\ \A c \in Int : Congruent(x, y) => Congruent(x + c, y + c)
         /\ \A z \in Int : Congruent(x, y) /\ Congruent(y, z) => Congruent(x, z)
<1>0. Word \in Int
  BY WordAssumption
<1>1. Congruent(x, x)
  <2>1. x = x + (Word * 0)
    BY <1>0
  <2>2. QED
    BY <2>1 DEF Congruent
<1>2. ASSUME NEW c \in Int, Congruent(x, y) PROVE Congruent(x + c, y + c)
  <2>1. PICK k \in Int : x = y + (Word * k)
    BY <1>2 DEF Congruent
  <2>2. Word * k \in Int
    BY <1>0
  <2>3. x + c = (y + c) + (Word * k)
    BY <2>1, <2>2
  <2>4. QED
    BY <2>3 DEF Congruent
<1>3. ASSUME NEW z \in Int, Congruent(x, y), Congruent(y, z) PROVE Congruent(x, z)
  <2>1. PICK k \in Int : x = y + (Word * k)
    BY <1>3 DEF Congruent
  <2>2. PICK m \in Int : y = z + (Word * m)
    BY <1>3 DEF Congruent
  <2>3. Word * (m + k) = (Word * m) + (Word * k) /\ Word * m \in Int /\ Word * k \in Int
    BY <1>0
  <2>4. x = z + (Word * (m + k))
    BY <2>1, <2>2, <2>3
  <2>5. QED
    BY <2>4 DEF Congruent
<1>4. QED
  BY <1>1, <1>2, <1>3

(* A sum of machine words is congruent to the sum.                          *)
LEMMA AddWordCongruent ==
  ASSUME NEW a \in Nat, NEW b \in Nat
  PROVE  AddWord(a, b) \in Int /\ Congruent(AddWord(a, b), a + b) /\ Congruent(a + b, AddWord(a, b))
<1>0. Word \in Int
  BY WordAssumption
<1>1. CASE a + b < Word
  <2>1. AddWord(a, b) = a + b
    BY <1>1 DEF AddWord
  <2>2. a + b \in Int /\ Congruent(a + b, a + b)
    BY CongruentFacts
  <2>3. QED
    BY <2>1, <2>2
<1>2. CASE ~(a + b < Word)
  <2>1. AddWord(a, b) = a + b - Word
    BY <1>2 DEF AddWord
  <2>2. Word * (-1) = -Word /\ Word * 1 = Word /\ -1 \in Int /\ 1 \in Int
    BY <1>0
  <2>3. a + b - Word = (a + b) + (Word * (-1)) /\ a + b = (a + b - Word) + (Word * 1)
    BY <1>0, <2>2
  <2>4. QED
    BY <1>0, <2>1, <2>2, <2>3 DEF Congruent
<1>3. QED
  BY <1>1, <1>2

(* Congruent numbers leave the same remainder.                              *)
LEMMA CongruentRemainder ==
  ASSUME NEW x \in Nat, NEW y \in Nat, Congruent(x, y)
  PROVE  x % Word = y % Word
<1>0. Word \in Nat \ {0}
  BY WordAssumption
<1>1. PICK k \in Int : x = y + (Word * k)
  BY DEF Congruent
<1>2. \A n \in Nat : /\ n \div Word \in Int /\ n % Word \in 0 .. Word - 1
                     /\ n = (Word * (n \div Word)) + (n % Word)
  BY <1>0
<1> DEFINE p == x \div Word
           q == y \div Word
           r == x % Word
           s == y % Word
<1>3. /\ p \in Int /\ q \in Int /\ r \in 0 .. Word - 1 /\ s \in 0 .. Word - 1
      /\ x = (Word * p) + r /\ y = (Word * q) + s
  BY <1>2
<1> HIDE DEF p, q, r, s
<1>4. Word * (q + k) = (Word * q) + (Word * k) /\ Word * q \in Int /\ Word * k \in Int /\ Word * p \in Int
  BY <1>0, <1>3
<1>5. (Word * p) + r = (Word * (q + k)) + s /\ q + k \in Int
  BY <1>0, <1>1, <1>3, <1>4
<1>6. r = s
  BY <1>3, <1>5, RemainderUnique
<1>7. QED
  BY <1>6 DEF r, s

(* A credit adds its amount, up to words.                                   *)
LEMMA CreditCongruent ==
  ASSUME IsFiniteSet(Account), NEW s \in Accounts, NEW to \in Account, NEW amount \in Amount
  PROVE  /\ Coins(Credit(s, to, amount)) \in Nat
         /\ Congruent(Coins(Credit(s, to, amount)), Coins(s) + amount)
<1> DEFINE t == Credit(s, to, amount)
<1>1. t \in Accounts
  BY CreditType DEF Accounts
<1>2. /\ t[to].balance = AddWord(s[to].balance, amount)
      /\ SameBalances(Account \ {to}, s, t)
  BY CreditEffect DEF SameBalances
<1> HIDE DEF t
<1>3. /\ Coins(s) \in Nat /\ Coins(t) \in Nat /\ s[to].balance \in Nat /\ t[to].balance \in Nat
      /\ Coins(s) + t[to].balance = Coins(t) + s[to].balance
  BY <1>1, <1>2, CoinsFacts
<1>4. amount \in Nat
  BY WordAssumption DEF Amount
<1> DEFINE c == Coins(s) - s[to].balance
<1>5. c \in Int /\ Coins(t) = t[to].balance + c /\ Coins(s) + amount = (s[to].balance + amount) + c
  BY <1>3, <1>4
<1>6. Congruent(t[to].balance, s[to].balance + amount)
  BY <1>2, <1>3, <1>4, AddWordCongruent
<1> HIDE DEF c
<1>7. Congruent(t[to].balance + c, (s[to].balance + amount) + c)
  <2>1. t[to].balance \in Int /\ s[to].balance + amount \in Int
    BY <1>3, <1>4
  <2>2. QED
    BY <1>5, <1>6, <2>1, CongruentFacts
<1>8. QED
  BY <1>3, <1>5, <1>7 DEF t

(* A transfer that is paid costs the accounts its fee, up to words, even if *)
(* its value and fee wrap.                                                  *)
LEMMA TransferCongruent ==
  ASSUME IsFiniteSet(Account), NEW s \in Accounts, NEW tx \in Transfers, Affordable(s, tx)
  PROVE  /\ Coins(ReplayTransfer(s, tx)) \in Nat
         /\ Congruent(Coins(ReplayTransfer(s, tx)) + tx.fee, Coins(s))
<1> DEFINE cost == TransferCost(tx)
           debited == Debit(s, tx.sender, s[tx.sender].balance - cost)
<1>1. /\ tx.sender \in Account /\ tx.recipient \in Account /\ tx.value \in Amount
      /\ tx.fee \in Amount /\ tx.value \in Nat /\ tx.fee \in Nat
  BY TransferFields, WordAssumption DEF Amount
<1>2. cost \in Nat /\ Congruent(tx.value + tx.fee, cost)
  <2>1. cost \in Amount
    BY <1>1, AddWordType DEF TransferCost
  <2>2. Congruent(tx.value + tx.fee, cost)
    BY <1>1, AddWordCongruent DEF TransferCost
  <2> HIDE DEF cost
  <2>3. QED
    BY <2>1, <2>2, WordAssumption DEF Amount
<1>3. cost <= s[tx.sender].balance
  BY <1>1, <1>2, CoinsFacts DEF Affordable
<1>4. ReplayTransfer(s, tx) = Credit(debited, tx.recipient, tx.value)
  BY DEF ReplayTransfer, ExecuteTransfer
<1> HIDE DEF cost
<1>5. debited \in Accounts /\ Coins(debited) \in Nat /\ Coins(debited) + cost = Coins(s)
  BY <1>1, <1>2, <1>3, DebitConserves
<1> HIDE DEF debited
<1> DEFINE after == Coins(Credit(debited, tx.recipient, tx.value))
           left == Coins(debited)
<1>6. after \in Nat /\ Congruent(after, left + tx.value)
  BY <1>1, <1>5, CreditCongruent
<1>7. left \in Nat /\ left + cost = Coins(s)
  BY <1>5
<1> HIDE DEF after, left
<1>8. Congruent(after + tx.fee, (left + tx.value) + tx.fee)
  <2>1. after \in Int /\ left + tx.value \in Int /\ tx.fee \in Int
    BY <1>1, <1>6, <1>7
  <2>2. QED
    BY <1>6, <2>1, CongruentFacts
<1>9. Congruent((tx.value + tx.fee) + left, cost + left)
  <2>1. tx.value + tx.fee \in Int /\ cost \in Int /\ left \in Int
    BY <1>1, <1>2, <1>7
  <2>2. QED
    BY <1>2, <2>1, CongruentFacts
<1>10. (left + tx.value) + tx.fee = (tx.value + tx.fee) + left /\ cost + left = Coins(s)
  BY <1>1, <1>2, <1>7
<1>11. Congruent(after + tx.fee, Coins(s))
  <2>1. /\ after + tx.fee \in Int /\ (left + tx.value) + tx.fee \in Int /\ Coins(s) \in Int
    BY <1>1, <1>2, <1>6, <1>7
  <2>2. Congruent((left + tx.value) + tx.fee, Coins(s))
    BY <1>9, <1>10
  <2>3. QED
    BY <1>8, <2>1, <2>2, CongruentFacts
<1>12. QED
  BY <1>4, <1>6, <1>11 DEF after

(* The transfers of a block that are all paid cost their fees, up to words. *)
LEMMA TransfersCongruent ==
  ASSUME IsFiniteSet(Account), NEW s \in Accounts, NEW ts \in Seq(Transfers),
         ReplaysExactly(s, ts)
  PROVE  Congruent(Coins(ReplayTransfers(s, ts)) + TotalFee(ts), Coins(s))
<1> DEFINE first(k) == SubSeq(ts, 1, k)
           Kept(k) == Congruent(Coins(ReplayTransfers(s, first(k))) + TotalFee(first(k)), Coins(s))
           T == {k \in Nat : k <= Len(ts) => Kept(k)}
<1>0. Coins(s) \in Nat /\ Coins(s) + 0 = Coins(s) /\ Congruent(Coins(s), Coins(s))
  <2>1. Coins(s) \in Nat
    BY CoinsFacts
  <2>2. QED
    BY <2>1, CongruentFacts
<1>1. 0 \in T
  <2>1. first(0) = <<>>
    BY PrefixFacts
  <2>2. ReplayTransfers(s, <<>>) = s /\ TotalFee(<<>>) = 0
    BY ReplayNoTransfers, TotalFeeNone
  <2> HIDE DEF first
  <2>3. ReplayTransfers(s, first(0)) = s /\ TotalFee(first(0)) = 0
    BY <2>1, <2>2
  <2>4. QED
    BY <1>0, <2>3
<1>2. ASSUME NEW k \in Nat, k \in T PROVE k + 1 \in T
  <2>1. SUFFICES ASSUME k + 1 <= Len(ts) PROVE Kept(k + 1)
    OBVIOUS
  <2>2. /\ k \in 0 .. Len(ts) - 1 /\ k \in 0 .. Len(ts) /\ k <= Len(ts)
        /\ k + 1 \in 1 .. Len(ts) /\ (k + 1) - 1 = k
    BY <2>1
  <2> DEFINE tx == ts[k + 1]
             p == first(k)
             mid == ReplayTransfers(s, p)
             fees == TotalFee(p)
             before == Coins(mid)
             after == Coins(ReplayTransfer(mid, tx))
  <2>3. tx \in Transfers /\ p \in Seq(Transfers) /\ first(k + 1) = Append(p, tx)
    BY <2>2, PrefixFacts
  <2>4. mid \in Accounts
    BY <2>3, ReplayTransfersType
  <2>5. Affordable(mid, tx)
    <3>1. Affordable(ReplayTransfers(s, SubSeq(ts, 1, (k + 1) - 1)), ts[k + 1])
      BY <2>2 DEF ReplaysExactly
    <3>2. QED
      BY <2>2, <3>1
  <2>6. Congruent(before + fees, Coins(s))
    BY <1>2, <2>2
  <2>7. fees \in Nat /\ before \in Nat /\ tx.fee \in Nat
    <3>1. fees \in Amount /\ tx.fee \in Amount
      BY <2>3, TotalFeeType, TransferFields
    <3>2. before \in Nat
      BY <2>4, CoinsFacts
    <3>3. \A n \in Amount : n \in Nat
      BY WordAssumption DEF Amount
    <3>4. QED
      BY <3>1, <3>2, <3>3
  <2>8. /\ ReplayTransfers(s, first(k + 1)) = ReplayTransfer(mid, tx)
        /\ TotalFee(first(k + 1)) = AddWord(fees, tx.fee)
    BY <2>3, ReplayTransfersAppend, TotalFeeAppend
  <2> HIDE DEF first, tx, p, mid, fees
  <2>9. after \in Nat /\ Congruent(after + tx.fee, before)
    BY <2>3, <2>4, <2>5, TransferCongruent
  <2>10. AddWord(fees, tx.fee) \in Int /\ Congruent(AddWord(fees, tx.fee), fees + tx.fee)
    BY <2>7, AddWordCongruent
  <2>11. Kept(k + 1) <=> Congruent(after + AddWord(fees, tx.fee), Coins(s))
    BY <2>8
  <2> DEFINE sum == AddWord(fees, tx.fee)
  <2>12. sum \in Int /\ Congruent(sum, fees + tx.fee)
    BY <2>10
  <2> HIDE DEF before, after, sum
  <2>13. Congruent(sum + after, (fees + tx.fee) + after)
    BY <2>7, <2>9, <2>12, CongruentFacts
  <2>14. Congruent((after + tx.fee) + fees, before + fees)
    BY <2>7, <2>9, CongruentFacts
  <2>15. sum + after = after + sum /\ (fees + tx.fee) + after = (after + tx.fee) + fees
    BY <2>7, <2>9, <2>12
  <2>16. Congruent(after + sum, (after + tx.fee) + fees)
    BY <2>13, <2>15
  <2>17. /\ after + sum \in Int /\ (after + tx.fee) + fees \in Int /\ before + fees \in Int
         /\ Coins(s) \in Int
    BY <1>0, <2>7, <2>9, <2>12
  <2>18. Congruent(after + sum, before + fees)
    BY <2>14, <2>16, <2>17, CongruentFacts
  <2>19. Congruent(after + sum, Coins(s))
    BY <2>6, <2>17, <2>18, CongruentFacts
  <2>20. QED
    BY <2>11, <2>19 DEF sum
<1>3. Nat \subseteq T
  <2> HIDE DEF T
  <2> QED  BY <1>1, <1>2, SetInduction
<1>4. Len(ts) \in T
  BY <1>3
<1>5. first(Len(ts)) = ts
  BY PrefixFacts
<1>6. Kept(Len(ts))
  BY <1>4
<1> HIDE DEF first
<1>7. QED
  BY <1>5, <1>6

----------------------------------------------------------------------------
(* Coins along a chain. *)

(* A sequence is its front and its last element.                            *)
LEMMA SequenceSplit ==
  ASSUME NEW S, NEW s \in Seq(S), s # <<>>
  PROVE  /\ Front(s) \in Seq(S) /\ Len(Front(s)) = Len(s) - 1
         /\ s[Len(s)] \in S
         /\ s = Append(Front(s), s[Len(s)])
<1>1. Len(s) - 1 \in 0 .. Len(s) - 1 /\ Len(s) - 1 \in 0 .. Len(s) /\ (Len(s) - 1) + 1 = Len(s)
  OBVIOUS
<1>2. /\ SubSeq(s, 1, Len(s) - 1) \in Seq(S) /\ Len(SubSeq(s, 1, Len(s) - 1)) = Len(s) - 1
  BY <1>1, PrefixFacts
<1>3. SubSeq(s, 1, (Len(s) - 1) + 1) = Append(SubSeq(s, 1, Len(s) - 1), s[(Len(s) - 1) + 1])
  BY <1>1, PrefixFacts
<1>4. SubSeq(s, 1, Len(s)) = s
  BY PrefixFacts
<1>5. s[Len(s)] \in S
  BY <1>1
<1>6. s = Append(SubSeq(s, 1, Len(s) - 1), s[Len(s)])
  BY <1>1, <1>3, <1>4
<1>7. QED
  BY <1>2, <1>5, <1>6 DEF Front

(* What a chain issued is its first reward and what the others issued.      *)
LEMMA SupplyTail ==
  ASSUME NEW c \in Seq(Block), c # <<>>
  PROVE  /\ Tail(c) \in Seq(Block)
         /\ GetTotalCirculatingSupply(c) = c[1].reward + GetTotalCirculatingSupply(Tail(c))
<1> DEFINE supply(d) == GetTotalCirculatingSupply(d)
           T == {n \in Nat : \A d \in Seq(Block) :
                   Len(d) = n + 1 => supply(d) = d[1].reward + supply(Tail(d))}
<1>1. \A d \in Seq(Block) : supply(d) \in Nat
  BY SupplyType
<1>2. \A b \in Block : b.reward \in Nat /\ supply(<<b>>) = b.reward
  BY BlockFields, SupplyOne, WordAssumption DEF Amount
<1>3. \A d \in Seq(Block) : \A b \in Block : supply(Append(d, b)) = supply(d) + b.reward
  BY SupplyAppend
<1> HIDE DEF supply
<1>4. ASSUME NEW b \in Block PROVE supply(<<>>) = 0
  <2>1. <<>> \in Seq(Block) /\ Append(<<>>, b) = <<b>>
    OBVIOUS
  <2>2. supply(<<b>>) = supply(<<>>) + b.reward /\ supply(<<>>) \in Nat
    BY <1>1, <1>3, <2>1
  <2>3. QED
    BY <1>2, <2>2
<1>5. 0 \in T
  <2>1. SUFFICES ASSUME NEW d \in Seq(Block), Len(d) = 1
                 PROVE  supply(d) = d[1].reward + supply(Tail(d))
    OBVIOUS
  <2>2. d[1] \in Block /\ d = <<d[1]>> /\ Tail(d) = <<>>
    <3>1. d[1] \in Block /\ d = <<d[1]>>
      <4>1. 1 \in 1 .. Len(d) /\ DOMAIN d = 1 .. 1
        BY <2>1
      <4>2. d[1] \in Block
        BY <4>1
      <4>3. QED
        BY <2>1, <4>1, <4>2
    <3>2. d # <<>>
      <4>1. Len(<<>>) = 0 /\ Len(d) = 1
        BY <2>1, EmptySeq
      <4>2. Len(d) # Len(<<>>)
        BY <4>1
      <4>3. QED
        BY <4>2, Zenon
    <3>3. Tail(d) \in Seq(Block) /\ Len(Tail(d)) = 0
      BY <2>1, <3>2, HeadTailProperties
    <3>4. Tail(d) = <<>>
      BY <3>3, EmptySeq
    <3>5. QED
      BY <3>1, <3>4
  <2>3. supply(Tail(d)) = 0 /\ supply(d) = d[1].reward /\ d[1].reward \in Nat
    BY <1>2, <1>4, <2>2
  <2>4. QED
    BY <2>3
<1>6. ASSUME NEW n \in Nat, n \in T PROVE n + 1 \in T
  <2>1. SUFFICES ASSUME NEW d \in Seq(Block), Len(d) = (n + 1) + 1
                 PROVE  supply(d) = d[1].reward + supply(Tail(d))
    OBVIOUS
  <2> DEFINE e == Front(d)
             b == d[Len(d)]
  <2>2. e \in Seq(Block) /\ Len(e) = n + 1 /\ b \in Block /\ d = Append(e, b)
    BY <2>1, SequenceSplit
  <2> HIDE DEF e, b
  <2>3. e # <<>> /\ Append(e, b)[1] = e[1] /\ e[1] \in Block /\ Tail(e) \in Seq(Block)
    BY <2>2
  <2>4. Tail(Append(e, b)) = Append(Tail(e), b)
    BY <2>2, <2>3
  <2>5. supply(e) = e[1].reward + supply(Tail(e))
    BY <1>6, <2>2
  <2>6. supply(d) = supply(e) + b.reward /\ supply(Tail(d)) = supply(Tail(e)) + b.reward
    BY <1>3, <2>2, <2>3, <2>4
  <2>7. /\ supply(Tail(e)) \in Nat /\ b.reward \in Nat /\ e[1].reward \in Nat
    BY <1>1, <1>2, <2>2, <2>3
  <2>8. d[1] = e[1]
    BY <2>2, <2>3
  <2>9. QED
    BY <2>5, <2>6, <2>7, <2>8
<1>7. Nat \subseteq T
  <2> HIDE DEF T
  <2> QED  BY <1>5, <1>6, SetInduction
<1>8. Len(c) - 1 \in T /\ (Len(c) - 1) + 1 = Len(c) /\ Tail(c) \in Seq(Block)
  BY <1>7
<1>9. QED
  BY <1>8 DEF supply

(* A chain of blocks that replay exactly, the first by SYSTEM_GENESIS and   *)
(* the others not, that issued no more than a word.                         *)
Sound(c) ==
  /\ c # <<>>
  /\ \A i \in 1 .. Len(c) :
       ReplaysExactly(ReplayChain(SubSeq(c, 1, i - 1)), c[i].transfers)
  /\ \A i \in 1 .. Len(c) :
       IF i = 1 THEN c[i].transfers = <<>> /\ c[i].miner = SystemGenesis
       ELSE c[i].miner # SystemGenesis
  /\ GetTotalCirculatingSupply(c) < Word

(* No transfer of the chain wraps.                                          *)
Plain(c) == \A i \in 1 .. Len(c) : NoneWraps(c[i].transfers)

(* Nor does one of its front or of its last block.                          *)
LEMMA PlainFront ==
  ASSUME NEW c \in Seq(Block), NEW b \in Block, Plain(Append(c, b))
  PROVE  Plain(c) /\ NoneWraps(b.transfers)
<1> DEFINE d == Append(c, b)
<1>1. /\ Len(c) \in Nat /\ Len(d) = Len(c) + 1 /\ d[Len(c) + 1] = b
      /\ \A i \in 1 .. Len(c) : d[i] = c[i] /\ i \in 1 .. Len(d)
      /\ Len(c) + 1 \in 1 .. Len(d)
  OBVIOUS
<1>2. Plain(d)
  OBVIOUS
<1> HIDE DEF d
<1>3. \A i \in 1 .. Len(d) : NoneWraps(d[i].transfers)
  BY <1>2 DEF Plain
<1>4. QED
  BY <1>1, <1>3 DEF Plain

(* The shorter chain is one, too.                                           *)
LEMMA SoundFront ==
  ASSUME NEW c \in Seq(Block), c # <<>>, NEW b \in Block, Sound(Append(c, b))
  PROVE  /\ Sound(c)
         /\ ReplaysExactly(ReplayChain(c), b.transfers) /\ b.miner # SystemGenesis
         /\ GetTotalCirculatingSupply(c) \in Nat /\ b.reward \in Nat
         /\ GetTotalCirculatingSupply(c) + b.reward < Word
<1> DEFINE d == Append(c, b)
           n == Len(c)
<1>1. /\ n \in Nat \ {0} /\ Len(d) = n + 1 /\ d[n + 1] = b
      /\ \A i \in 1 .. n : d[i] = c[i]
  OBVIOUS
<1>2. \A k \in 0 .. n : SubSeq(d, 1, k) = SubSeq(c, 1, k)
  BY PrefixOfAppend
<1>3. SubSeq(d, 1, n) = c
  BY PrefixOfAppend
<1>4. /\ GetTotalCirculatingSupply(d) = GetTotalCirculatingSupply(c) + b.reward
      /\ GetTotalCirculatingSupply(c) \in Nat /\ b.reward \in Nat /\ Word \in Nat
  BY SupplyAppend, SupplyType, BlockFields, WordAssumption DEF Amount
<1>5. Sound(d)
  OBVIOUS
<1> HIDE DEF d, n
<1>6. ASSUME NEW i \in 1 .. n
      PROVE  ReplaysExactly(ReplayChain(SubSeq(c, 1, i - 1)), c[i].transfers)
  <2>1. i \in 1 .. Len(d) /\ i - 1 \in 0 .. n
    BY <1>1
  <2>2. SubSeq(d, 1, i - 1) = SubSeq(c, 1, i - 1) /\ d[i] = c[i]
    BY <1>1, <1>2, <2>1
  <2>3. ReplaysExactly(ReplayChain(SubSeq(d, 1, i - 1)), d[i].transfers)
    BY <1>5, <2>1 DEF Sound
  <2>4. QED
    BY <2>2, <2>3
<1>7. ASSUME NEW i \in 1 .. n
      PROVE  IF i = 1 THEN c[i].transfers = <<>> /\ c[i].miner = SystemGenesis
             ELSE c[i].miner # SystemGenesis
  BY <1>1, <1>5 DEF Sound
<1>8. GetTotalCirculatingSupply(c) + b.reward < Word /\ GetTotalCirculatingSupply(c) < Word
  BY <1>4, <1>5 DEF Sound
<1>9. Sound(c)
  BY <1>6, <1>7, <1>8 DEF Sound, n
<1>10. ReplaysExactly(ReplayChain(c), b.transfers)
  <2>1. n + 1 \in 1 .. Len(d) /\ (n + 1) - 1 = n
    BY <1>1
  <2>2. ReplaysExactly(ReplayChain(SubSeq(d, 1, (n + 1) - 1)), d[n + 1].transfers)
    BY <1>5, <2>1 DEF Sound
  <2>3. SubSeq(d, 1, (n + 1) - 1) = c
    BY <1>3, <2>1
  <2>4. QED
    BY <1>1, <2>2, <2>3
<1>11. b.miner # SystemGenesis
  BY <1>1, <1>5 DEF Sound
<1>12. QED
  BY <1>4, <1>8, <1>9, <1>10, <1>11

(* A block that replays exactly adds its reward, when no transfer wraps.    *)
LEMMA BlockConserves ==
  ASSUME IsFiniteSet(Account), NEW s \in Accounts, NEW b \in Block,
         NoneWraps(b.transfers), ReplaysExactly(s, b.transfers),
         b.miner # SystemGenesis, Coins(s) + b.reward < Word
  PROVE  Coins(ReplayBlock(s, b)) = Coins(s) + b.reward
<1> DEFINE ts == b.transfers
           mid == ReplayTransfers(s, ts)
           fees == TotalFee(ts)
           amount == AddWord(b.reward, fees)
<1>1. ts \in Seq(Transfers) /\ b.miner \in Account /\ b.reward \in Amount
  BY BlockFields
<1>2. fees \in Amount /\ mid \in Accounts
  BY <1>1, TotalFeeType, ReplayTransfersType
<1>3. Coins(s) \in Nat /\ Coins(mid) \in Nat /\ fees \in Nat /\ b.reward \in Nat /\ Word \in Nat
  <2>1. \A n \in Amount : n \in Nat
    BY WordAssumption DEF Amount
  <2>2. Coins(s) \in Nat /\ Coins(mid) \in Nat
    BY <1>2, CoinsFacts
  <2>3. QED
    BY <1>1, <1>2, <2>1, <2>2, WordAssumption
<1>4. Coins(mid) + fees = Coins(s)
  BY <1>1, <1>3, TransfersConserve
<1>5. ReplayBlock(s, b) = Credit(mid, b.miner, amount)
  BY DEF ReplayBlock, ReplayReward
<1> HIDE DEF mid, fees, ts
<1>6. amount = b.reward + fees /\ Coins(mid) + amount < Word
  BY <1>3, <1>4 DEF AddWord
<1>7. amount \in Amount
  BY <1>1, <1>2, AddWordType
<1> HIDE DEF amount
<1>8. Coins(Credit(mid, b.miner, amount)) = Coins(mid) + amount
  BY <1>1, <1>2, <1>6, <1>7, CreditConserves
<1>9. QED
  BY <1>3, <1>4, <1>5, <1>6, <1>8

(* The replay of such a chain hands out what its blocks issued, but for the *)
(* genesis reward, which RebuildState gives to nobody, when none wraps.     *)
LEMMA ChainConserves ==
  ASSUME IsFiniteSet(Account), NEW c \in Seq(Block), Sound(c), Plain(c)
  PROVE  Coins(ReplayChain(c)) = GetTotalCirculatingSupply(Tail(c))
<1> DEFINE supply(d) == GetTotalCirculatingSupply(d)
           Kept(d) == Coins(ReplayChain(d)) + d[1].reward = supply(d)
           T == {n \in Nat : \A d \in Seq(Block) : Len(d) = n + 1 /\ Sound(d) /\ Plain(d) => Kept(d)}
<1>1. 0 \in T
  <2>1. SUFFICES ASSUME NEW d \in Seq(Block), Len(d) = 1, Sound(d), Plain(d) PROVE Kept(d)
    BY DEF Sound
  <2>2. d[1] \in Block /\ d = <<d[1]>>
    BY <2>1
  <2>3. d[1].transfers = <<>> /\ d[1].miner = SystemGenesis
    BY <2>1 DEF Sound
  <2>4. ReplayChain(<<d[1]>>) = ZeroState
    BY <2>2, <2>3, ReplayGenesis
  <2>5. d[1].reward \in Nat /\ supply(<<d[1]>>) = d[1].reward
    BY <2>2, BlockFields, SupplyOne, WordAssumption DEF Amount
  <2> HIDE DEF supply
  <2>6. Coins(ReplayChain(d)) = 0 /\ supply(d) = d[1].reward
    BY <2>2, <2>4, <2>5, CoinsZero
  <2>7. QED
    BY <2>5, <2>6
<1>2. ASSUME NEW n \in Nat, n \in T PROVE n + 1 \in T
  <2>1. SUFFICES ASSUME NEW d \in Seq(Block), Len(d) = (n + 1) + 1, Sound(d), Plain(d)
                 PROVE  Kept(d)
    OBVIOUS
  <2> DEFINE e == Front(d)
             b == d[Len(d)]
             s == ReplayChain(e)
  <2>2. e \in Seq(Block) /\ Len(e) = n + 1 /\ b \in Block /\ d = Append(e, b)
    BY <2>1, SequenceSplit
  <2> HIDE DEF e, b
  <2>3. e # <<>> /\ Append(e, b)[1] = e[1] /\ e[1] \in Block
    BY <2>2
  <2>4. d[1] = e[1]
    BY <2>2, <2>3
  <2>5. Sound(Append(e, b))
    BY <2>1, <2>2
  <2>6. /\ Sound(e) /\ ReplaysExactly(s, b.transfers) /\ b.miner # SystemGenesis
        /\ supply(e) \in Nat /\ b.reward \in Nat /\ supply(e) + b.reward < Word
    BY <2>2, <2>3, <2>5, SoundFront
  <2>7. s \in Accounts /\ e[1].reward \in Nat
    BY <2>2, <2>3, ReplayChainType, BlockFields, WordAssumption DEF Amount
  <2>14. Plain(e) /\ NoneWraps(b.transfers)
    BY <2>1, <2>2, PlainFront
  <2>8. Coins(s) + e[1].reward = supply(e)
    BY <1>2, <2>2, <2>6, <2>14
  <2>9. /\ ReplayChain(d) = ReplayBlock(s, b)
        /\ supply(d) = supply(e) + b.reward
    BY <2>2, ReplayChainAppend, SupplyAppend
  <2> HIDE DEF s, supply
  <2>10. Coins(s) \in Nat /\ Coins(s) + b.reward < Word
    <3>1. Coins(s) \in Nat
      BY <2>7, CoinsFacts
    <3>2. QED
      BY <2>6, <2>7, <2>8, <3>1, WordAssumption
  <2>11. Coins(ReplayBlock(s, b)) = Coins(s) + b.reward
    BY <2>2, <2>6, <2>7, <2>10, <2>14, BlockConserves
  <2>12. Coins(ReplayChain(d)) = Coins(s) + b.reward /\ supply(d) = (Coins(s) + e[1].reward) + b.reward
    BY <2>8, <2>9, <2>11
  <2>13. QED
    BY <2>4, <2>6, <2>7, <2>10, <2>12
<1>3. Nat \subseteq T
  <2> HIDE DEF T
  <2> QED  BY <1>1, <1>2, SetInduction
<1>4. c # <<>> /\ Len(c) - 1 \in Nat /\ (Len(c) - 1) + 1 = Len(c)
  BY DEF Sound
<1>5. Kept(c)
  <2>1. Len(c) - 1 \in T
    BY <1>3, <1>4
  <2> HIDE DEF Kept
  <2>2. QED
    BY <1>4, <2>1
<1>6. supply(c) = c[1].reward + supply(Tail(c)) /\ supply(Tail(c)) \in Nat
  BY <1>4, SupplyTail, SupplyType
<1>7. c[1] \in Block /\ c[1].reward \in Nat /\ Coins(ReplayChain(c)) \in Nat
  <2>1. c[1] \in Block
    BY <1>4
  <2>2. ReplayChain(c) \in Accounts
    BY ReplayChainType
  <2>3. QED
    BY <2>1, <2>2, BlockFields, CoinsFacts, WordAssumption DEF Amount
<1> HIDE DEF supply
<1>8. QED
  BY <1>5, <1>6, <1>7 DEF supply

(* A block that replays exactly adds its reward, up to words.               *)
LEMMA BlockCongruent ==
  ASSUME IsFiniteSet(Account), NEW s \in Accounts, NEW b \in Block,
         ReplaysExactly(s, b.transfers), b.miner # SystemGenesis
  PROVE  Congruent(Coins(ReplayBlock(s, b)), Coins(s) + b.reward)
<1> DEFINE ts == b.transfers
           mid == ReplayTransfers(s, ts)
           fees == TotalFee(ts)
           amount == AddWord(b.reward, fees)
           after == Coins(Credit(mid, b.miner, amount))
<1>1. ts \in Seq(Transfers) /\ b.miner \in Account /\ b.reward \in Amount
  BY BlockFields
<1>2. fees \in Amount /\ mid \in Accounts
  BY <1>1, TotalFeeType, ReplayTransfersType
<1>3. Coins(s) \in Nat /\ Coins(mid) \in Nat /\ fees \in Nat /\ b.reward \in Nat
  <2>1. \A n \in Amount : n \in Nat
    BY WordAssumption DEF Amount
  <2>2. Coins(s) \in Nat /\ Coins(mid) \in Nat
    BY <1>2, CoinsFacts
  <2>3. QED
    BY <1>1, <1>2, <2>1, <2>2
<1>4. Congruent(Coins(mid) + fees, Coins(s))
  BY <1>1, TransfersCongruent
<1>5. ReplayBlock(s, b) = Credit(mid, b.miner, amount)
  BY DEF ReplayBlock, ReplayReward
<1> HIDE DEF mid, fees, ts
<1>6. amount \in Amount /\ amount \in Int /\ Congruent(amount, b.reward + fees)
  BY <1>1, <1>2, <1>3, AddWordType, AddWordCongruent
<1> HIDE DEF amount
<1>7. after \in Nat /\ Congruent(after, Coins(mid) + amount)
  BY <1>1, <1>2, <1>6, CreditCongruent
<1> DEFINE held == Coins(mid)
<1> HIDE DEF after, held
<1>8. held \in Nat /\ Congruent(held + fees, Coins(s)) /\ Congruent(after, held + amount)
  BY <1>3, <1>4, <1>7 DEF held
<1>9. Congruent(amount + held, (b.reward + fees) + held)
  <2>1. amount \in Int /\ b.reward + fees \in Int /\ held \in Int
    BY <1>3, <1>6, <1>8
  <2>2. QED
    BY <1>6, <2>1, CongruentFacts
<1>10. Congruent((held + fees) + b.reward, Coins(s) + b.reward)
  <2>1. held + fees \in Int /\ Coins(s) \in Int /\ b.reward \in Int
    BY <1>3, <1>8
  <2>2. QED
    BY <1>8, <2>1, CongruentFacts
<1>11. amount + held = held + amount /\ (b.reward + fees) + held = (held + fees) + b.reward
  BY <1>3, <1>6, <1>8
<1>12. Congruent(held + amount, (held + fees) + b.reward)
  BY <1>9, <1>11
<1>13. /\ held + amount \in Int /\ (held + fees) + b.reward \in Int /\ Coins(s) + b.reward \in Int
       /\ after \in Int
  BY <1>3, <1>6, <1>7, <1>8
<1>14. Congruent(after, (held + fees) + b.reward)
  BY <1>8, <1>12, <1>13, CongruentFacts
<1>15. Congruent(after, Coins(s) + b.reward)
  BY <1>10, <1>13, <1>14, CongruentFacts
<1>16. QED
  BY <1>5, <1>15 DEF after

(* The replay of a sound chain hands out what its blocks issued, up to      *)
(* words, whatever its transfers are worth.                                 *)
LEMMA ChainCongruent ==
  ASSUME IsFiniteSet(Account), NEW c \in Seq(Block), Sound(c)
  PROVE  Congruent(Coins(ReplayChain(c)), GetTotalCirculatingSupply(Tail(c)))
<1> DEFINE supply(d) == GetTotalCirculatingSupply(d)
           Kept(d) == Congruent(Coins(ReplayChain(d)) + d[1].reward, supply(d))
           T == {n \in Nat : \A d \in Seq(Block) : Len(d) = n + 1 /\ Sound(d) => Kept(d)}
<1>1. 0 \in T
  <2>1. SUFFICES ASSUME NEW d \in Seq(Block), Len(d) = 1, Sound(d) PROVE Kept(d)
    BY DEF Sound
  <2>2. d[1] \in Block /\ d = <<d[1]>>
    BY <2>1
  <2>3. d[1].transfers = <<>> /\ d[1].miner = SystemGenesis
    BY <2>1 DEF Sound
  <2>4. ReplayChain(<<d[1]>>) = ZeroState
    BY <2>2, <2>3, ReplayGenesis
  <2>5. d[1].reward \in Nat /\ supply(<<d[1]>>) = d[1].reward
    BY <2>2, BlockFields, SupplyOne, WordAssumption DEF Amount
  <2> HIDE DEF supply
  <2>6. Coins(ReplayChain(d)) = 0 /\ supply(d) = d[1].reward
    BY <2>2, <2>4, <2>5, CoinsZero
  <2>7. Coins(ReplayChain(d)) + d[1].reward = d[1].reward /\ Congruent(d[1].reward, d[1].reward)
    BY <2>5, <2>6, CongruentFacts
  <2>8. QED
    BY <2>6, <2>7
<1>2. ASSUME NEW n \in Nat, n \in T PROVE n + 1 \in T
  <2>1. SUFFICES ASSUME NEW d \in Seq(Block), Len(d) = (n + 1) + 1, Sound(d) PROVE Kept(d)
    OBVIOUS
  <2> DEFINE e == Front(d)
             b == d[Len(d)]
             s == ReplayChain(e)
  <2>2. e \in Seq(Block) /\ Len(e) = n + 1 /\ b \in Block /\ d = Append(e, b)
    BY <2>1, SequenceSplit
  <2> HIDE DEF e, b
  <2>3. e # <<>> /\ Append(e, b)[1] = e[1] /\ e[1] \in Block
    BY <2>2
  <2>4. d[1] = e[1]
    BY <2>2, <2>3
  <2>5. Sound(Append(e, b))
    BY <2>1, <2>2
  <2>6. /\ Sound(e) /\ ReplaysExactly(s, b.transfers) /\ b.miner # SystemGenesis
        /\ supply(e) \in Nat /\ b.reward \in Nat
    BY <2>2, <2>3, <2>5, SoundFront
  <2>7. s \in Accounts /\ e[1].reward \in Nat
    BY <2>2, <2>3, ReplayChainType, BlockFields, WordAssumption DEF Amount
  <2>8. Congruent(Coins(s) + e[1].reward, supply(e))
    BY <1>2, <2>2, <2>6
  <2>9. /\ ReplayChain(d) = ReplayBlock(s, b)
        /\ supply(d) = supply(e) + b.reward
    BY <2>2, ReplayChainAppend, SupplyAppend
  <2>10. Coins(s) \in Nat /\ Coins(ReplayBlock(s, b)) \in Nat
    BY <2>2, <2>7, CoinsFacts, ReplayBlockType
  <2>11. Congruent(Coins(ReplayBlock(s, b)), Coins(s) + b.reward)
    BY <2>2, <2>6, <2>7, BlockCongruent
  <2> DEFINE x == Coins(ReplayBlock(s, b))
             y == Coins(s)
             u == supply(e)
             first == e[1].reward
  <2>12. /\ x \in Nat /\ y \in Nat /\ u \in Nat /\ first \in Nat
         /\ Congruent(x, y + b.reward) /\ Congruent(y + first, u)
    BY <2>6, <2>7, <2>8, <2>10, <2>11
  <2>13. Kept(d) <=> Congruent(x + first, u + b.reward)
    BY <2>4, <2>9
  <2> HIDE DEF x, y, u, first
  <2>14. Congruent(x + first, (y + b.reward) + first)
    BY <2>6, <2>12, CongruentFacts
  <2>15. Congruent((y + first) + b.reward, u + b.reward)
    <3>1. y + first \in Int /\ u \in Int /\ b.reward \in Int
      BY <2>6, <2>12
    <3>2. QED
      BY <2>12, <3>1, CongruentFacts
  <2>16. (y + b.reward) + first = (y + first) + b.reward
    BY <2>6, <2>12
  <2>17. x + first \in Int /\ (y + first) + b.reward \in Int /\ u + b.reward \in Int
    BY <2>6, <2>12
  <2>18. Congruent(x + first, u + b.reward)
    BY <2>14, <2>15, <2>16, <2>17, CongruentFacts
  <2>19. QED
    BY <2>13, <2>18
<1>3. Nat \subseteq T
  <2> HIDE DEF T
  <2> QED  BY <1>1, <1>2, SetInduction
<1>4. c # <<>> /\ Len(c) - 1 \in Nat /\ (Len(c) - 1) + 1 = Len(c)
  BY DEF Sound
<1>5. Kept(c)
  <2>1. Len(c) - 1 \in T
    BY <1>3, <1>4
  <2> HIDE DEF Kept
  <2>2. QED
    BY <1>4, <2>1
<1>6. supply(c) = c[1].reward + supply(Tail(c)) /\ supply(Tail(c)) \in Nat
  BY <1>4, SupplyTail, SupplyType
<1>7. c[1].reward \in Nat /\ Coins(ReplayChain(c)) \in Nat
  <2>1. c[1] \in Block
    BY <1>4
  <2>2. ReplayChain(c) \in Accounts
    BY ReplayChainType
  <2>3. QED
    BY <2>1, <2>2, BlockFields, CoinsFacts, WordAssumption DEF Amount
<1> DEFINE x == Coins(ReplayChain(c)) + c[1].reward
           y == c[1].reward + supply(Tail(c))
           back == 0 - c[1].reward
<1>8. Congruent(x, y) /\ x \in Int /\ y \in Int /\ back \in Int
  BY <1>5, <1>6, <1>7
<1>9. /\ x + back = Coins(ReplayChain(c))
      /\ y + back = supply(Tail(c))
  BY <1>6, <1>7
<1> HIDE DEF x, y, back
<1>10. Congruent(x + back, y + back)
  BY <1>8, CongruentFacts
<1>11. QED
  BY <1>9, <1>10

(* The blocks a running ledger has credited are such a chain, when nobody   *)
(* mines for SYSTEM_GENESIS.                                                *)
LEMMA CreditedSound ==
  ASSUME SystemGenesis \notin MinerAddresses, IInv, AccountsInv, StoredSupplyCapped, Running
  PROVE  Sound(CreditedChain)
<1>1. Stored \in Seq(Block) /\ chain \in Seq(Block)
  BY StoredFacts DEF IInv, TypeOK
<1>2. params \in ConsensusParameters /\ params.maxSupply < Word
  BY PoliciesAssumption, WordAssumption DEF IInv, TypeOK, ConsensusParameters, Amount
<1>3. Stored # <<>> => Sound(Stored)
  <2>1. SUFFICES ASSUME Stored # <<>> PROVE Sound(Stored)
    OBVIOUS
  <2>2. GetTotalCirculatingSupply(Stored) <= Stored[1].maxSupply
    BY <2>1, SameRules DEF StoredSupplyCapped, B!SupplyCapped, B!WithinCap
  <2>3. Stored[1].maxSupply = params.maxSupply
    BY <2>1 DEF IInv, PolicyKnown, Running, Loaded, SameGenesisPolicy
  <2>4. GetTotalCirculatingSupply(Stored) \in Nat
    BY <1>1, SupplyType
  <2>5. params.maxSupply \in Nat /\ Word \in Nat
    BY <1>2, WordAssumption DEF ConsensusParameters, Amount
  <2>6. GetTotalCirculatingSupply(Stored) < Word
    BY <1>2, <2>2, <2>3, <2>4, <2>5
  <2>7. \A i \in 1 .. Len(Stored) :
          ReplaysExactly(ReplayChain(SubSeq(Stored, 1, i - 1)), Stored[i].transfers)
    BY DEF AccountsInv, ReplayNeverFloors
  <2>8. \A i \in 1 .. Len(Stored) :
          IF i = 1 THEN Stored[i].transfers = <<>> /\ Stored[i].miner = SystemGenesis
          ELSE Stored[i].miner # SystemGenesis
    BY DEF AccountsInv, MinersKnown
  <2>9. QED
    BY <2>1, <2>6, <2>7, <2>8 DEF Sound
<1>4. CASE pc \in {"ready", "select", "assemble", "mining", "commit"}
  <2>1. CreditedChain = chain /\ chain = Stored /\ Stored # <<>>
    BY <1>4, TipIsBlock DEF CreditedChain, Loaded
  <2>2. QED
    BY <1>3, <2>1
<1>5. CASE pc \in {"save", "index"}
  <2>1. /\ chain = Append(Stored, newBlock) /\ newBlock.index = Len(Stored) /\ newBlock \in Block
    BY <1>5, SavedAtEnd DEF IInv, MemoryMatchesDisk
  <2>2. CASE Stored = <<>>
    <3>1. CreditedChain = <<newBlock>> /\ newBlock.index = 0
      BY <2>1, <2>2 DEF CreditedChain
    <3>2. newBlock.transfers = <<>> /\ newBlock.miner = SystemGenesis
      BY <1>5, <2>2 DEF IInv, NewBlockKnown, B!IsGenesis
    <3>3. GetTotalCirculatingSupply(<<newBlock>>) < Word
      BY <2>1, SupplyOne, BlockFields, WordAssumption DEF Amount
    <3> DEFINE c == <<newBlock>>
    <3>4. c # <<>> /\ Len(c) = 1 /\ c[1] = newBlock
      OBVIOUS
    <3> HIDE DEF c
    <3>5. Sound(c)
      <4>1. ReplaysExactly(ReplayChain(SubSeq(c, 1, 1 - 1)), c[1].transfers)
        BY <3>2, <3>4, ExactNone
      <4>2. QED
        BY <3>2, <3>3, <3>4, <4>1 DEF Sound, c
    <3>6. QED
      BY <3>1, <3>5 DEF c
  <2>3. CASE Stored # <<>>
    <3>1. Len(Stored) > 0 /\ Front(Append(Stored, newBlock)) = Stored
      BY <1>1, <2>1, <2>3, PrefixOfAppend, EmptySeq
    <3>2. CreditedChain = Stored
      BY <1>5, <2>1, <3>1 DEF CreditedChain
    <3>3. QED
      BY <1>3, <2>3, <3>2
  <2>4. QED
    BY <2>2, <2>3
<1>6. CASE pc = "credit"
  <2>1. chain = Stored /\ Stored # <<>> /\ newBlock.index > 0 /\ chain[Len(chain)] = newBlock
    BY <1>6, TipIsBlock DEF Loaded, AccountsInv, BlockInProgressKnown
  <2>2. CreditedChain = Front(Stored)
    BY <1>6, <2>1 DEF CreditedChain
  <2>3. newBlock.index = Len(Stored) - 1
    <3>1. /\ lastIndex \in Nat /\ Len(Stored) = lastIndex + 1
          /\ Stored[Len(Stored)] = blocks[lastIndex]
      <4>1. Len(Stored) = lastIndex + 1 /\ lastIndex \in Nat \cup {-1} /\ Len(Stored) \in Nat \ {0}
        BY <1>1, <2>1, StoredFacts, EmptySeq DEF IInv, TypeOK
      <4>2. \A i \in 0 .. lastIndex : i \in DOMAIN blocks /\ blocks[i] \in Block
        BY StoredFacts DEF IInv
      <4>3. \A i \in 1 .. lastIndex + 1 : Stored[i] = blocks[i - 1]
        BY <4>1, <4>2, ReadBlocksType DEF Stored
      <4>4. lastIndex + 1 \in 1 .. lastIndex + 1 /\ (lastIndex + 1) - 1 = lastIndex
        BY <4>1
      <4>5. QED
        BY <4>1, <4>3, <4>4
    <3>2. blocks[lastIndex].index = lastIndex
      BY <3>1 DEF IInv, Contiguous
    <3>3. QED
      BY <2>1, <3>1, <3>2
  <2>4. /\ Front(Stored) \in Seq(Block) /\ Len(Front(Stored)) = Len(Stored) - 1
        /\ Stored[Len(Stored)] \in Block
        /\ Stored = Append(Front(Stored), Stored[Len(Stored)])
    BY <1>1, <2>1, SequenceSplit
  <2>5. Front(Stored) # <<>>
    BY <2>1, <2>3, <2>4, EmptySeq
  <2>6. Sound(Append(Front(Stored), Stored[Len(Stored)]))
    BY <1>3, <2>1, <2>4
  <2>7. QED
    BY <2>2, <2>4, <2>5, <2>6, SoundFront
<1>7. QED
  BY <1>4, <1>5, <1>6 DEF Running

(* Transfers, fees and credits neither create nor lose a coin, as long as   *)
(* no caller mines for SYSTEM_GENESIS: the balances of a running ledger,    *)
(* with the fees of the block in progress, are what the credited blocks     *)
(* issued, but for whole words where a value and fee that were executed     *)
(* wrapped.                                                                 *)
THEOREM LedgerCoinsConserved ==
  ASSUME IsFiniteSet(Account), SystemGenesis \notin MinerAddresses
  PROVE  Spec => []CoinsConserved
<1>1. IInv /\ AccountsInv /\ StoredSupplyCapped => CoinsConserved
  <2> DEFINE issued == GetTotalCirculatingSupply(Tail(CreditedChain))
             held == Coins(state) + job.fees
  <2>1. SUFFICES ASSUME IInv, AccountsInv, StoredSupplyCapped, Running
                 PROVE  held % Word = issued % Word /\ (NothingWrapped => held = issued)
    BY DEF CoinsConserved
  <2> DEFINE base == ReplayChain(CreditedChain)
             s == ReplayTransfers(base, job.packed)
  <2>2. /\ CreditedChain \in Seq(Block) /\ base \in Accounts /\ job.packed \in Seq(Transfers)
        /\ s \in Accounts /\ state \in Accounts
    BY <2>1, CreditedTypes
  <2>3. /\ \A a \in Comparable : state[a] = s[a]
        /\ ReplaysExactly(base, job.packed)
        /\ job.fees = TotalFee(job.packed)
    BY <2>1 DEF AccountsInv, BalancesKnown
  <2>4. Sound(CreditedChain)
    BY <2>1, CreditedSound
  <2>5. issued \in Nat /\ issued < Word
    <3> DEFINE c == CreditedChain
    <3>1. c # <<>> /\ GetTotalCirculatingSupply(c) < Word
      BY <2>4 DEF Sound
    <3>2. c[1] \in Block /\ c[1].reward \in Nat
      <4>1. c[1] \in Block
        BY <2>2, <3>1, EmptySeq
      <4>2. QED
        BY <4>1, BlockFields, WordAssumption DEF Amount
    <3> HIDE DEF c
    <3>3. /\ GetTotalCirculatingSupply(c) = c[1].reward + GetTotalCirculatingSupply(Tail(c))
          /\ GetTotalCirculatingSupply(Tail(c)) \in Nat
      BY <2>2, <3>1, SupplyTail, SupplyType DEF c
    <3>4. QED
      BY <3>1, <3>2, <3>3, WordAssumption DEF c
  <2>6. Coins(state) = Coins(s)
    <3>1. SameBalances(Account, state, s)
      BY <2>1, <2>3 DEF SameBalances, Comparable
    <3>2. QED
      BY <2>2, <3>1, CoinsFacts
  <2>7. Coins(s) \in Nat /\ job.fees \in Nat
    <3>1. job.fees \in Amount
      BY <2>2, <2>3, TotalFeeType
    <3>2. job.fees \in Nat
      BY <3>1, WordAssumption DEF Amount
    <3>3. Coins(s) \in Nat
      BY <2>2, CoinsFacts
    <3>4. QED
      BY <3>2, <3>3
  <2>8. held % Word = issued % Word
    <3>1. Congruent(Coins(s) + TotalFee(job.packed), Coins(base))
      BY <2>2, <2>3, TransfersCongruent
    <3>2. Congruent(Coins(base), issued)
      BY <2>2, <2>4, ChainCongruent
    <3>3. Coins(base) \in Nat
      BY <2>2, CoinsFacts
    <3> HIDE DEF base, s, issued
    <3>4. held \in Nat /\ Congruent(held, Coins(base))
      BY <2>3, <2>6, <2>7, <3>1
    <3> HIDE DEF held
    <3>5. Congruent(held, issued)
      BY <2>5, <3>2, <3>3, <3>4, CongruentFacts
    <3>6. QED
      BY <2>5, <3>4, <3>5, CongruentRemainder
  <2>9. ASSUME NothingWrapped PROVE held = issued
    <3>1. NoneWraps(job.packed) /\ Plain(CreditedChain)
      BY <2>9 DEF NothingWrapped, Plain
    <3>2. Coins(base) = issued
      BY <2>2, <2>4, <3>1, ChainConserves
    <3> HIDE DEF base, issued
    <3>3. Coins(s) + TotalFee(job.packed) = Coins(base)
      BY <2>2, <2>3, <2>5, <3>1, <3>2, TransfersConserve
    <3> HIDE DEF s
    <3>4. QED
      BY <2>3, <2>6, <3>2, <3>3
  <2>10. QED
    BY <2>8, <2>9
<1>2. QED
  BY <1>1, LedgerInvariant, LedgerAccountsInvariant, LedgerSupplyCapped, PTL

=============================================================================
