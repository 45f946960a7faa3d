----------------------------- MODULE WalletFile -----------------------------
(***************************************************************************)
(* wallet.dat and the `create` command, which appends an account to it.    *)
(* Several may run at once, and beside the daemon.  A run of `create`      *)
(* stands for the account it generates.                                    *)
(***************************************************************************)
EXTENDS DataFiles, Naturals, Sequences

CONSTANT Creators  \* runs of `create`

VARIABLE creating  \* where each is, and its wf.Accounts

LoadWallet == IF Readable(Wallet) THEN content[Wallet] ELSE <<>>

Accounts(wf) == {wf[i] : i \in 1 .. Len(wf)}

(* All accounts take the same room in the file: a longer wallet, written by  *)
(* another process since the truncation, leaves its tail behind.             *)
Overwritten(old, new) ==
  IF old = Torn THEN {new, Torn}
  ELSE IF old \in NotJSON THEN {new}
  ELSE IF Len(old) <= Len(new) THEN {new}
  ELSE {Torn}

Holders == {c \in Creators : creating[c].at \in {"truncate", "write"}}

WalletInit == creating = [c \in Creators |-> [at |-> "new", accounts |-> <<>>]]

(* GenerateNewAccount: no file, or one that does not parse, is an empty      *)
(* wallet.                                                                   *)
LoadAndAppend(c) ==
  /\ creating[c].at = "new"
  /\ creating' = [creating EXCEPT ![c] = [at |-> "truncate", accounts |-> Append(LoadWallet, c)]]
  /\ ReadFile(Wallet, c)

TruncateWallet(c) ==
  /\ creating[c].at = "truncate"
  /\ creating' = [creating EXCEPT ![c].at = "write"]
  /\ Truncate(Wallet, c)

(* A variant that writes the new account only. *)
WriteNewAccount(c) ==
  /\ creating[c].at = "write"
  /\ creating' = [creating EXCEPT ![c] = [at |-> "done", accounts |-> <<>>]]
  /\ Write(Wallet, c, Overwritten(content[Wallet], <<c>>), Holders)

(* The user is told the address. *)
WriteWallet(c) ==
  /\ creating[c].at = "write"
  /\ creating' = [creating EXCEPT ![c] = [at |-> "done", accounts |-> <<>>]]
  /\ Write(Wallet, c, Overwritten(content[Wallet], creating[c].accounts), Holders)

KillCreate(c) ==
  /\ c \in Holders
  /\ creating' = [creating EXCEPT ![c] = [at |-> "dead", accounts |-> <<>>]]
  /\ End(c, IF creating[c].at = "write" THEN {Wallet} ELSE {})

Create(c) == LoadAndAppend(c) \/ TruncateWallet(c) \/ WriteWallet(c)

----------------------------------------------------------------------------

WalletTypeOK ==
  /\ content[Wallet] \in NotJSON \cup Seq(Creators)
  /\ creating \in [Creators -> [at : {"new", "truncate", "write", "done", "dead"},
                                accounts : Seq(Creators)]]

(* The accounts in the file, or in what is about to be written to it. *)
Stored == Accounts(LoadWallet) \cup
            UNION {Accounts(creating[c].accounts) : c \in {c \in Creators : creating[c].at = "write"}}

(* An account whose address a user was told stays in wallet.dat, with the    *)
(* only copy of its key, unless a `create` wrote back a wallet it had read   *)
(* before another one's write, or ended between truncation and write.        *)
AccountsKept ==
  Wallet \notin spoiled => \A c \in Creators : creating[c].at = "done" => c \in Stored

=============================================================================
