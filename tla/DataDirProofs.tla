---------------------------- MODULE DataDirProofs ----------------------------
(***************************************************************************)
(* What the files of ~/.xcosh keep, proved for any number of commands,     *)
(* launches, peers and addresses.                                          *)
(*                                                                         *)
(* A step concerns one file; for the others it is as if nothing happened   *)
(* (Untouched).  So each file has an invariant of its own, about what the  *)
(* processes hold that have read it and are not stale.                     *)
(***************************************************************************)
EXTENDS DataDir, TLAPS

(* The files of the data directory are those four.                          *)
FilesKnown == DOMAIN content = Files

(* Nothing happens to a file, as far as these processes are concerned.      *)
Untouched(f, processes) ==
  /\ content'[f] = content[f]
  /\ f \in spoiled' <=> f \in spoiled
  /\ \A p \in processes : <<f, p>> \in stale' <=> <<f, p>> \in stale

(* Reading a file changes no other one.                                     *)
LEMMA ReadElsewhere ==
  ASSUME NEW f, NEW g, NEW process, NEW processes, f # g, ReadFile(g, process)
  PROVE  Untouched(f, processes)
BY DEF ReadFile, Untouched

(* Nor does truncating it.                                                  *)
LEMMA TruncateElsewhere ==
  ASSUME FilesKnown, NEW f \in Files, NEW g, NEW process, NEW processes, f # g,
         Truncate(g, process)
  PROVE  Untouched(f, processes)
BY DEF Truncate, SpoiledBy, Untouched, FilesKnown

(* Nor does writing it.                                                     *)
LEMMA WriteElsewhere ==
  ASSUME FilesKnown, NEW f \in Files, NEW g, NEW process, NEW processes, f # g,
         NEW outcomes, NEW readers, Write(g, process, outcomes, readers)
  PROVE  Untouched(f, processes)
BY DEF Write, SpoiledBy, Untouched, FilesKnown

(* Nor does a write that fails.                                             *)
LEMMA FailElsewhere ==
  ASSUME NEW f, NEW g, NEW processes, f # g, WriteFails(g)
  PROVE  Untouched(f, processes)
BY DEF WriteFails, Untouched

(* Nor does the end of a process that has not truncated it.                 *)
LEMMA EndElsewhere ==
  ASSUME NEW f, NEW process, NEW processes, NEW files, f \notin files, process \notin processes,
         End(process, files)
  PROVE  Untouched(f, processes)
BY DEF End, Untouched

(* Nothing at all happens.                                                  *)
LEMMA NothingElsewhere ==
  ASSUME NEW f, NEW processes, UNCHANGED filesVars
  PROVE  Untouched(f, processes)
BY DEF filesVars, Untouched

(* No file is created or removed but in its content.                        *)
LEMMA FilesStep ==
  ASSUME FilesKnown, [DirNext]_dirVars
  PROVE  FilesKnown'
<1>1. DOMAIN content' = DOMAIN content
  <2>1. CASE Launch \/ ChooseMiner \/ UNCHANGED dirVars
    BY <2>1 DEF Launch, ChooseMiner, dirVars, filesVars
  <2>2. CASE RecordStartTime \/ \E s \in Asks : UptimeCommand(s)
    BY <2>2 DEF RecordStartTime, UptimeCommand, Stamp, CheckRecord, CreateRecord, WriteRecord,
                KillAsk, ReadFile, Truncate, Write, WriteFails, End
  <2>3. CASE \E c \in Creators : CreateCommand(c)
    BY <2>3 DEF CreateCommand, Create, LoadAndAppend, TruncateWallet, WriteWallet, KillCreate,
                ReadFile, Truncate, Write, WriteFails, End
  <2>4. CASE StartServer \/ Serve \/ KillDaemon
    BY <2>4 DEF StartServer, NewServer, NewAddrManager, Serve, NetworkStep, Dial, DialFails,
                DialSucceeds, AddDialled, SaveDialled, Accept, SaveAccepted, AddAddress, SaveToDisk,
                Dump, DumpPeers, WritePeers, DumpAddresses, KillDaemon, filesVars,
                ReadFile, Truncate, Write, WriteFails, End
  <2>5. CASE \E a \in Adds : AddNodeCommand(a)
    BY <2>5 DEF AddNodeCommand, AddNodeStep, AddNode, AddNodeTruncate, AddNodeWrite, KillAddNode,
                ReadFile, Truncate, Write, WriteFails, End
  <2>6. QED
    BY <2>1, <2>2, <2>3, <2>4, <2>5 DEF DirNext, Boot
<1>2. QED
  BY <1>1 DEF FilesKnown

----------------------------------------------------------------------------
(* The wallet. *)

(* What a `create` knows that has read the wallet, if nobody has written it  *)
(* since: all accounts users were told, but for those another `create` is    *)
(* about to write, and the daemon's account in front.                        *)
WritersButFor(c) == {d \in Creators \ {c} : creating[d].at = "write"}

HolderKnows(c) ==
  /\ creating[c].at = "write" => content[Wallet] = Empty
  /\ Readable(Wallet) => creating[c].accounts = Append(LoadWallet, c)
  /\ \A e \in Creators : creating[e].at = "done" =>
       \/ e \in Accounts(creating[c].accounts)
       \/ \E d \in WritersButFor(c) : e \in Accounts(creating[d].accounts)
  /\ miner # SystemMiner => creating[c].accounts[1] = miner \/ WritersButFor(c) # {}

WalletIInv ==
  /\ WalletTypeOK
  /\ miner \in Creators \cup {SystemMiner}
  /\ \A c \in Holders : c \in Accounts(creating[c].accounts)
  /\ Wallet \notin spoiled =>
       \A c \in Holders : <<Wallet, c>> \notin stale => HolderKnows(c)
  /\ AccountsKept
  /\ MinerIsFirst

(* A sequence of accounts is readable.                                       *)
LEMMA WalletReadable ==
  ASSUME NEW wf \in Seq(Creators)
  PROVE  wf \notin NotJSON
BY DataDirAssumption

(* Appending to a wallet keeps what is in it, and its front.                 *)
LEMMA AppendAccount ==
  ASSUME NEW wf \in Seq(Creators), NEW c \in Creators
  PROVE  /\ Append(wf, c) \in Seq(Creators)
         /\ Append(wf, c) # <<>>
         /\ c \in Accounts(Append(wf, c))
         /\ Accounts(wf) \subseteq Accounts(Append(wf, c))
         /\ wf # <<>> => Append(wf, c)[1] = wf[1]
<1> DEFINE longer == Append(wf, c)
<1>1. longer \in Seq(Creators) /\ Len(longer) = Len(wf) + 1 /\ Len(wf) \in Nat
  OBVIOUS
<1>2. longer[Len(wf) + 1] = c /\ \A i \in 1 .. Len(wf) : longer[i] = wf[i]
  OBVIOUS
<1>3. longer # <<>>
  BY <1>1
<1>4. wf # <<>> => 1 \in 1 .. Len(wf)
  BY <1>1
<1> HIDE DEF longer
<1>5. QED
  BY <1>1, <1>2, <1>3, <1>4 DEF Accounts, longer

(* LoadWallet returns a wallet whatever is in the file.                      *)
LEMMA LoadedWallet ==
  ASSUME WalletTypeOK
  PROVE  LoadWallet \in Seq(Creators)
BY DEF WalletTypeOK, LoadWallet, Readable

(* Other commands and the daemon leave the wallet alone.                     *)
LEMMA WalletElsewhere ==
  ASSUME FilesKnown, [DirNext]_dirVars, ~ \E c \in Creators : CreateCommand(c)
  PROVE  /\ Untouched(Wallet, Creators) /\ creating' = creating
         /\ ChooseMiner \/ miner' \in {miner, SystemMiner}
<1>1. CASE Launch \/ ChooseMiner \/ UNCHANGED dirVars
  BY <1>1, NothingElsewhere DEF Launch, ChooseMiner, daemonVars, dirVars
<1>2. CASE RecordStartTime \/ \E s \in Asks : UptimeCommand(s)
  <2>1. UptimeFile # Wallet /\ Wallet \in Files
    BY DEF UptimeFile, Wallet, Files
  <2>2. \A s \in Stampers : s \notin Creators
    BY DataDirAssumption DEF Stampers
  <2>3. PICK s \in Stampers : Stamp(s) \/ KillAsk(s)
    BY <1>2 DEF RecordStartTime, UptimeCommand, Stampers
  <2>4. Untouched(Wallet, Creators)
    BY <2>1, <2>2, <2>3, ReadElsewhere, TruncateElsewhere, WriteElsewhere, FailElsewhere, EndElsewhere
       DEF Stamp, CheckRecord, CreateRecord, WriteRecord, KillAsk
  <2>5. QED
    BY <1>2, <2>4 DEF RecordStartTime, UptimeCommand, daemonVars
<1>3. CASE StartServer \/ Serve
  <2>1. AddrFile # Wallet /\ PeersFile # Wallet /\ Wallet \in Files
    BY DEF AddrFile, PeersFile, Wallet, Files
  <2>2. Untouched(Wallet, Creators)
    BY <1>3, <2>1, ReadElsewhere, TruncateElsewhere, WriteElsewhere, FailElsewhere, NothingElsewhere
       DEF StartServer, NewServer, NewAddrManager, Serve, NetworkStep, Dial, DialFails,
           DialSucceeds, AddDialled, SaveDialled, Accept, SaveAccepted, AddAddress, SaveToDisk,
           Dump, DumpPeers, WritePeers, DumpAddresses
  <2>3. QED
    BY <1>3, <2>2 DEF StartServer, Serve, daemonVars
<1>4. CASE KillDaemon
  <2>1. Wallet \notin HalfWritten \cup (IF stamping[Daemon].at = "write" THEN {UptimeFile} ELSE {})
    BY DEF HalfWritten, Wallet, AddrFile, PeersFile, UptimeFile
  <2>2. QED
    BY <1>4, <2>1, EndElsewhere, DataDirAssumption DEF KillDaemon
<1>5. CASE \E a \in Adds : AddNodeCommand(a)
  <2>1. AddrFile # Wallet /\ Wallet \in Files
    BY DEF AddrFile, Wallet, Files
  <2>2. PICK a \in Adds : AddNodeCommand(a)
    BY <1>5
  <2>3. Untouched(Wallet, Creators)
    BY <2>1, <2>2, DataDirAssumption, ReadElsewhere, TruncateElsewhere, WriteElsewhere, FailElsewhere, EndElsewhere
       DEF AddNodeCommand, AddNodeStep, AddNode, AddNodeTruncate, AddNodeWrite, KillAddNode
  <2>4. QED
    BY <2>2, <2>3 DEF AddNodeCommand, daemonVars
<1>6. QED
  BY <1>1, <1>2, <1>3, <1>4, <1>5 DEF DirNext, Boot

(* What happens elsewhere does not change what is known of the wallet.       *)
LEMMA WalletFrame ==
  ASSUME WalletIInv, Untouched(Wallet, Creators), creating' = creating,
         miner' \in {miner, SystemMiner}
  PROVE  WalletIInv'
<1>1. LoadWallet' = LoadWallet /\ Readable(Wallet)' = Readable(Wallet) /\ Holders' = Holders
  BY DEF Untouched, LoadWallet, Readable, Holders
<1>2. WalletTypeOK'
  BY DEF WalletIInv, WalletTypeOK, Untouched
<1>3. AccountsKept'
  BY <1>1 DEF WalletIInv, AccountsKept, Stored, Untouched
<1>4. MinerIsFirst'
  BY <1>1 DEF WalletIInv, MinerIsFirst, Untouched
<1>5. \A c : HolderKnows(c) => HolderKnows(c)'
  BY <1>1 DEF HolderKnows, WritersButFor, Untouched
<1>6. Holders \subseteq Creators
  BY DEF Holders
<1>7. QED
  BY <1>1, <1>2, <1>3, <1>4, <1>5, <1>6 DEF WalletIInv, Untouched

(* The daemon chooses the first account of the file.                         *)
LEMMA ChooseMinerWallet ==
  ASSUME WalletIInv, ChooseMiner
  PROVE  WalletIInv'
<1>1. /\ UNCHANGED <<content, stale, spoiled, creating>>
      /\ LoadWallet' = LoadWallet /\ Readable(Wallet)' = Readable(Wallet) /\ Holders' = Holders
  BY DEF ChooseMiner, filesVars, LoadWallet, Readable, Holders
<1>2. LoadWallet \in Seq(Creators)
  BY LoadedWallet DEF WalletIInv
<1>3. miner' = IF LoadWallet = <<>> THEN SystemMiner ELSE LoadWallet[1]
  BY DEF ChooseMiner
<1>4. WalletTypeOK' /\ miner' \in Creators \cup {SystemMiner}
  BY <1>1, <1>2, <1>3 DEF WalletIInv, WalletTypeOK
<1>5. AccountsKept'
  BY <1>1 DEF WalletIInv, AccountsKept, Stored
<1>6. MinerIsFirst'
  BY <1>1, <1>3 DEF MinerIsFirst
<1>7. ASSUME NEW c \in Holders, HolderKnows(c)
      PROVE  HolderKnows(c)'
  <2>1. LoadWallet # <<>> => Readable(Wallet)
    BY DEF LoadWallet
  <2>2. LoadWallet # <<>> => creating[c].accounts[1] = LoadWallet[1]
    BY <1>2, <1>7, <2>1, AppendAccount DEF HolderKnows, Holders
  <2>3. miner' # SystemMiner => creating'[c].accounts[1] = miner'
    BY <1>1, <1>3, <2>2
  <2>4. QED
    BY <1>1, <1>7, <2>3 DEF HolderKnows, WritersButFor
<1>8. QED
  BY <1>1, <1>4, <1>5, <1>6, <1>7 DEF WalletIInv

(* `create` reads the wallet.                                                *)
LEMMA LoadAndAppendWallet ==
  ASSUME WalletIInv, NEW c \in Creators, LoadAndAppend(c), miner' = miner
  PROVE  WalletIInv'
<1>1. /\ content' = content /\ spoiled' = spoiled /\ stale' = stale \ {<<Wallet, c>>}
      /\ creating[c].at = "new"
      /\ creating' = [creating EXCEPT ![c] = [at |-> "truncate", accounts |-> Append(LoadWallet, c)]]
  BY DEF LoadAndAppend, ReadFile
<1>2. LoadWallet' = LoadWallet /\ Readable(Wallet)' = Readable(Wallet)
  BY <1>1 DEF LoadWallet, Readable
<1>3. /\ LoadWallet \in Seq(Creators) /\ Append(LoadWallet, c) \in Seq(Creators)
      /\ creating \in [Creators -> [at : {"new", "truncate", "write", "done", "dead"},
                                   accounts : Seq(Creators)]]
  BY LoadedWallet, AppendAccount DEF WalletIInv, WalletTypeOK
<1>4. WalletTypeOK'
  BY <1>1, <1>3 DEF WalletIInv, WalletTypeOK
<1>5. \A e \in Creators \ {c} : creating'[e] = creating[e]
  BY <1>1, <1>3
<1>6. creating'[c] = [at |-> "truncate", accounts |-> Append(LoadWallet, c)]
  BY <1>1, <1>3
<1>7. {e \in Creators : creating'[e].at = "write"} = {e \in Creators : creating[e].at = "write"}
  BY <1>1, <1>5, <1>6
<1>8. AccountsKept'
  BY <1>1, <1>2, <1>5, <1>6, <1>7 DEF WalletIInv, AccountsKept, Stored
<1>9. MinerIsFirst'
  BY <1>1, <1>2, <1>5, <1>6 DEF WalletIInv, MinerIsFirst
<1>10. ASSUME Wallet \notin spoiled
       PROVE  HolderKnows(c)'
  <2>1. \A e \in Creators : creating[e].at = "done" =>
          \/ e \in Accounts(Append(LoadWallet, c))
          \/ \E d \in WritersButFor(c) : e \in Accounts(creating[d].accounts)
    BY <1>1, <1>3, <1>10, AppendAccount DEF WalletIInv, AccountsKept, Stored, WritersButFor
  <2>2. miner # SystemMiner => Append(LoadWallet, c)[1] = miner \/ WritersButFor(c) # {}
    BY <1>1, <1>3, <1>10, AppendAccount DEF WalletIInv, MinerIsFirst, WritersButFor
  <2>3. WritersButFor(c)' = WritersButFor(c)
    BY <1>5 DEF WritersButFor
  <2>4. \A d \in WritersButFor(c) : creating'[d] = creating[d]
    BY <1>5 DEF WritersButFor
  <2>5. QED
    BY <1>2, <1>5, <1>6, <2>1, <2>2, <2>3, <2>4 DEF HolderKnows
<1>11. ASSUME NEW e \in Creators \ {c}, HolderKnows(e)
       PROVE  HolderKnows(e)'
  <2>1. WritersButFor(e)' = WritersButFor(e)
    BY <1>7 DEF WritersButFor
  <2>2. \A d \in WritersButFor(e) : creating'[d] = creating[d]
    BY <1>1, <1>5 DEF WritersButFor
  <2>3. \A f \in Creators : creating'[f].at = "done" => creating[f].at = "done"
    BY <1>5, <1>6
  <2>4. creating'[e] = creating[e] /\ content' = content
    BY <1>1, <1>5
  <2>5. QED
    BY <1>2, <1>11, <2>1, <2>2, <2>3, <2>4 DEF HolderKnows
<1>12. \A e \in Holders' : e # c => e \in Holders
  BY <1>5 DEF Holders
<1>13. ASSUME NEW e \in Holders'
       PROVE  e \in Accounts(creating'[e].accounts)
  <2>1. CASE e = c
    <3>1. creating'[e].accounts = Append(LoadWallet, c)
      BY <1>6, <2>1
    <3>2. c \in Accounts(Append(LoadWallet, c))
      BY <1>3, AppendAccount
    <3>3. QED
      BY <2>1, <3>1, <3>2
  <2>2. CASE e # c
    <3>1. e \in Creators \ {c} /\ e \in Holders
      BY <1>12, <2>2 DEF Holders
    <3>2. QED
      BY <1>5, <3>1 DEF WalletIInv
  <2>3. QED
    BY <2>1, <2>2
<1>14. \A e \in Creators \ {c} : <<Wallet, e>> \notin stale' => <<Wallet, e>> \notin stale
  BY <1>1
<1>15. \A e \in Holders' : e \in Creators
  BY DEF Holders
<1>16. QED
  BY <1>1, <1>4, <1>8, <1>9, <1>10, <1>11, <1>12, <1>13, <1>14, <1>15 DEF WalletIInv

(* `create` empties the wallet, having read it.                              *)
LEMMA TruncateWalletStep ==
  ASSUME FilesKnown, WalletIInv, NEW c \in Creators, TruncateWallet(c), miner' = miner
  PROVE  WalletIInv'
<1>1. /\ creating[c].at = "truncate" /\ content'[Wallet] = Empty /\ stale' = stale
      /\ Wallet \notin spoiled' => Wallet \notin spoiled /\ <<Wallet, c>> \notin stale
      /\ creating' = [creating EXCEPT ![c].at = "write"]
  BY DEF TruncateWallet, Truncate, SpoiledBy, FilesKnown, Files
<1>2. creating \in [Creators -> [at : {"new", "truncate", "write", "done", "dead"},
                                accounts : Seq(Creators)]]
  BY DEF WalletIInv, WalletTypeOK
<1>3. \A e \in Creators \ {c} : creating'[e] = creating[e]
  BY <1>1, <1>2
<1>4. creating'[c] = [at |-> "write", accounts |-> creating[c].accounts]
  BY <1>1, <1>2
<1>5. WalletTypeOK' /\ ~Readable(Wallet)'
  BY <1>1, <1>2 DEF WalletTypeOK, NotJSON, Readable
<1>6. c \in Holders /\ Holders' = Holders
  BY <1>1, <1>3, <1>4 DEF Holders
<1>7. \A e \in Creators : creating'[e].accounts = creating[e].accounts
  BY <1>3, <1>4
<1>8. \A e \in Creators : creating'[e].at = "done" => creating[e].at = "done"
  BY <1>3, <1>4
<1>9. \A d \in Creators : WritersButFor(d) \subseteq WritersButFor(d)'
  BY <1>3, <1>4 DEF WritersButFor
<1>10. AccountsKept'
  <2>1. SUFFICES ASSUME Wallet \notin spoiled', NEW e \in Creators, creating'[e].at = "done"
                 PROVE  e \in Stored'
    BY DEF AccountsKept
  <2>2. HolderKnows(c)
    BY <1>1, <1>6, <2>1 DEF WalletIInv
  <2>3. PICK d \in Creators : e \in Accounts(creating[d].accounts)
                              /\ (d = c \/ d \in WritersButFor(c))
    BY <1>8, <2>1, <2>2 DEF HolderKnows, WritersButFor
  <2>4. creating'[d].at = "write" /\ e \in Accounts(creating'[d].accounts)
    BY <1>3, <1>4, <2>3 DEF WritersButFor
  <2>5. QED
    BY <2>4 DEF Stored
<1>11. MinerIsFirst'
  BY <1>4 DEF MinerIsFirst
<1>12. ASSUME NEW e \in Holders, HolderKnows(e)
       PROVE  HolderKnows(e)'
  <2>1. e \in Creators
    BY DEF Holders
  <2>2. \A f \in Creators : creating'[f].at = "done" =>
          \/ f \in Accounts(creating'[e].accounts)
          \/ \E d \in WritersButFor(e)' : f \in Accounts(creating'[d].accounts)
    <3>1. SUFFICES ASSUME NEW f \in Creators, creating'[f].at = "done",
                          f \notin Accounts(creating'[e].accounts)
                   PROVE  \E d \in WritersButFor(e)' : f \in Accounts(creating'[d].accounts)
      OBVIOUS
    <3>2. PICK d \in WritersButFor(e) : f \in Accounts(creating[d].accounts)
      BY <1>7, <1>8, <1>12, <2>1, <3>1 DEF HolderKnows
    <3>3. d \in WritersButFor(e)' /\ d \in Creators
      BY <1>9, <2>1 DEF WritersButFor
    <3>4. QED
      BY <1>7, <3>2, <3>3
  <2>3. miner' # SystemMiner => creating'[e].accounts[1] = miner' \/ WritersButFor(e)' # {}
    BY <1>7, <1>9, <1>12, <2>1 DEF HolderKnows
  <2>4. QED
    BY <1>1, <1>5, <2>2, <2>3 DEF HolderKnows
<1>13. \A e \in Holders' : e \in Accounts(creating'[e].accounts)
  BY <1>6, <1>7 DEF WalletIInv, Holders
<1>14. QED
  BY <1>1, <1>5, <1>6, <1>10, <1>11, <1>12, <1>13 DEF WalletIInv

(* `create` writes the wallet with its account.                              *)
LEMMA WriteWalletStep ==
  ASSUME FilesKnown, WalletIInv, NEW c \in Creators, WriteWallet(c), miner' = miner
  PROVE  WalletIInv'
<1>1. /\ creating[c].at = "write"
      /\ content'[Wallet] \in Overwritten(content[Wallet], creating[c].accounts)
      /\ stale' = (stale \cup {<<Wallet, other>> : other \in Holders}) \ {<<Wallet, c>>}
      /\ Wallet \notin spoiled' => Wallet \notin spoiled /\ <<Wallet, c>> \notin stale
      /\ creating' = [creating EXCEPT ![c] = [at |-> "done", accounts |-> <<>>]]
  BY DEF WriteWallet, Write, SpoiledBy, FilesKnown, Files
<1>2. creating \in [Creators -> [at : {"new", "truncate", "write", "done", "dead"},
                                accounts : Seq(Creators)]]
  BY DEF WalletIInv, WalletTypeOK
<1>3. \A e \in Creators \ {c} : creating'[e] = creating[e]
  BY <1>1, <1>2
<1>4. creating'[c] = [at |-> "done", accounts |-> <<>>]
  BY <1>1, <1>2
<1>5. content'[Wallet] \in {creating[c].accounts, Torn}
  BY <1>1 DEF Overwritten
<1>6. WalletTypeOK'
  BY <1>1, <1>2, <1>5 DEF WalletTypeOK, NotJSON
<1>7. c \in Holders /\ Holders' = Holders \ {c}
  BY <1>1, <1>3, <1>4 DEF Holders
<1>8. \A e \in Holders' : <<Wallet, e>> \in stale'
  BY <1>1, <1>7
<1>9. \A e \in Holders' : e \in Accounts(creating'[e].accounts)
  BY <1>3, <1>7 DEF WalletIInv, Holders
<1>10. ASSUME Wallet \notin spoiled'
       PROVE  /\ HolderKnows(c) /\ LoadWallet' = creating[c].accounts
              /\ creating[c].accounts # <<>> /\ c \in Accounts(LoadWallet')
  <2>1. HolderKnows(c) /\ content[Wallet] = Empty
    BY <1>1, <1>7, <1>10 DEF WalletIInv, HolderKnows
  <2>2. content'[Wallet] = creating[c].accounts
    BY <1>1, <2>1, DataFilesAssumption DEF Overwritten, NotJSON
  <2>3. creating[c].accounts \in Seq(Creators) /\ c \in Accounts(creating[c].accounts)
    BY <1>2, <1>7 DEF WalletIInv
  <2>4. LoadWallet' = creating[c].accounts
    BY <2>2, <2>3, WalletReadable DEF LoadWallet, Readable
  <2>5. creating[c].accounts # <<>>
    BY <2>3 DEF Accounts
  <2>6. QED
    BY <2>1, <2>3, <2>4, <2>5
<1>11. AccountsKept'
  <2>1. SUFFICES ASSUME Wallet \notin spoiled', NEW e \in Creators, creating'[e].at = "done"
                 PROVE  e \in Stored'
    BY DEF AccountsKept
  <2>2. CASE e \in Accounts(creating[c].accounts)
    BY <1>10, <2>1, <2>2 DEF Stored
  <2>3. CASE e \notin Accounts(creating[c].accounts)
    <3>1. creating[e].at = "done"
      BY <1>3, <1>7, <2>1, <2>3 DEF WalletIInv
    <3>2. PICK d \in WritersButFor(c) : e \in Accounts(creating[d].accounts)
      BY <1>10, <2>1, <2>3, <3>1 DEF HolderKnows
    <3>3. d \in Creators /\ creating'[d] = creating[d] /\ creating[d].at = "write"
      BY <1>3 DEF WritersButFor
    <3>4. QED
      BY <3>2, <3>3 DEF Stored
  <2>4. QED
    BY <2>2, <2>3
<1>12. MinerIsFirst'
  <2>1. SUFFICES ASSUME Wallet \notin spoiled', miner # SystemMiner,
                        \A d \in Creators : creating'[d].at # "write"
                 PROVE  LoadWallet' # <<>> /\ LoadWallet'[1] = miner
    BY DEF MinerIsFirst
  <2>2. WritersButFor(c) = {}
    BY <1>3, <2>1 DEF WritersButFor
  <2>3. QED
    BY <1>10, <2>1, <2>2 DEF HolderKnows
<1>13. QED
  BY <1>6, <1>8, <1>9, <1>11, <1>12 DEF WalletIInv

(* `create` ends early.                                                      *)
LEMMA KillCreateWallet ==
  ASSUME WalletIInv, NEW c \in Creators, KillCreate(c), miner' = miner
  PROVE  WalletIInv'
<1>1. /\ c \in Holders /\ content' = content
      /\ Wallet \notin spoiled' => Wallet \notin spoiled /\ creating[c].at # "write"
      /\ \A e \in Creators \ {c} : <<Wallet, e>> \in stale <=> <<Wallet, e>> \in stale'
      /\ creating' = [creating EXCEPT ![c] = [at |-> "dead", accounts |-> <<>>]]
  BY DEF KillCreate, End
<1>2. creating \in [Creators -> [at : {"new", "truncate", "write", "done", "dead"},
                                accounts : Seq(Creators)]]
  BY DEF WalletIInv, WalletTypeOK
<1>3. \A e \in Creators \ {c} : creating'[e] = creating[e]
  BY <1>1, <1>2
<1>4. creating'[c] = [at |-> "dead", accounts |-> <<>>]
  BY <1>1, <1>2
<1>5. WalletTypeOK'
  BY <1>1, <1>2 DEF WalletIInv, WalletTypeOK
<1>6. Holders' = Holders \ {c}
  BY <1>3, <1>4 DEF Holders
<1>7. LoadWallet' = LoadWallet /\ Readable(Wallet)' = Readable(Wallet)
  BY <1>1 DEF LoadWallet, Readable
<1>8. ASSUME Wallet \notin spoiled'
      PROVE  \A e \in Creators : creating[e].at = "write" => e # c /\ creating'[e] = creating[e]
  BY <1>1, <1>3, <1>8
<1>9. \A e \in Creators : creating'[e].at = "done" => creating[e].at = "done"
  BY <1>3, <1>4
<1>10. AccountsKept'
  BY <1>1, <1>7, <1>8, <1>9 DEF WalletIInv, AccountsKept, Stored
<1>11. MinerIsFirst'
  BY <1>1, <1>3, <1>7, <1>8 DEF WalletIInv, MinerIsFirst
<1>12. ASSUME Wallet \notin spoiled', NEW e \in Holders', HolderKnows(e)
       PROVE  HolderKnows(e)'
  <2>1. WritersButFor(e) \subseteq WritersButFor(e)'
    BY <1>8, <1>12 DEF WritersButFor
  <2>2. \A d \in WritersButFor(e) : creating'[d] = creating[d]
    BY <1>8, <1>12 DEF WritersButFor
  <2>3. creating'[e] = creating[e]
    BY <1>3, <1>6, <1>12 DEF Holders
  <2>4. QED
    BY <1>1, <1>7, <1>9, <1>12, <2>1, <2>2, <2>3 DEF HolderKnows
<1>13. \A e \in Holders' : e \in Accounts(creating'[e].accounts)
  BY <1>3, <1>6 DEF WalletIInv, Holders
<1>14. \A e \in Holders' : e \in Holders /\ e \in Creators \ {c}
  BY <1>6 DEF Holders
<1>15. QED
  BY <1>1, <1>5, <1>10, <1>11, <1>12, <1>13, <1>14 DEF WalletIInv

(* Every step keeps what is known of the wallet.                             *)
LEMMA WalletStep ==
  ASSUME FilesKnown, WalletIInv, [DirNext]_dirVars
  PROVE  WalletIInv'
<1>1. ASSUME NEW c \in Creators, CreateCommand(c)
      PROVE  WalletIInv'
  BY <1>1, LoadAndAppendWallet, TruncateWalletStep, WriteWalletStep, KillCreateWallet
     DEF CreateCommand, Create, daemonVars
<1>2. CASE ~ \E c \in Creators : CreateCommand(c)
  <2>1. CASE ChooseMiner
    BY <2>1, ChooseMinerWallet
  <2>2. CASE ~ChooseMiner
    BY <1>2, <2>2, WalletElsewhere, WalletFrame
  <2>3. QED
    BY <2>1, <2>2
<1>3. QED
  BY <1>1, <1>2

----------------------------------------------------------------------------
(* The daemon's launch. *)

LaunchKnown ==
  /\ daemon \in {"down", "stamp", "serve", "up"}
  /\ daemon = "down" => stamping[Daemon].at \notin {"create", "write"}
  /\ daemon = "up" <=> serving
  /\ mu # Nobody => serving

(* The address manager is there when the launch is done, and before it is    *)
(* nobody holds its mutex.                                                   *)
LEMMA LaunchStep ==
  ASSUME LaunchKnown, UptimeTypeOK, [DirNext]_dirVars
  PROVE  LaunchKnown'
<1>1. CASE Launch
  BY <1>1 DEF LaunchKnown, UptimeTypeOK, Stampers, Launch, networkVars, addrVars
<1>2. CASE ChooseMiner \/ RecordStartTime
  BY <1>2 DEF LaunchKnown, ChooseMiner, RecordStartTime, networkVars, addrVars, daemonVars
<1>3. CASE StartServer
  BY <1>3 DEF LaunchKnown, StartServer, NewServer, NewAddrManager
<1>4. CASE Serve
  BY <1>4 DEF LaunchKnown, Serve, NetworkStep, Dial, DialFails, DialSucceeds, AddDialled,
              SaveDialled, Accept, SaveAccepted, AddAddress, SaveToDisk, Dump, DumpPeers,
              WritePeers, DumpAddresses, addrVars, daemonVars
<1>5. CASE KillDaemon
  BY <1>5 DEF LaunchKnown, UptimeTypeOK, Stampers, KillDaemon, StopServer
<1>6. ASSUME NEW s \in Asks, UptimeCommand(s)
      PROVE  LaunchKnown'
  <2>1. s # Daemon /\ s \in Stampers /\ Daemon \in Stampers
    BY DataDirAssumption DEF Stampers
  <2>2. stamping'[Daemon] = stamping[Daemon]
    BY <1>6, <2>1 DEF UptimeTypeOK, UptimeCommand, Stamp, CheckRecord, CreateRecord, WriteRecord,
                      KillAsk
  <2>3. QED
    BY <1>6, <2>2 DEF LaunchKnown, UptimeCommand, networkVars, addrVars, daemonVars
<1>7. ASSUME NEW c \in Creators, CreateCommand(c)
      PROVE  LaunchKnown'
  BY <1>7 DEF LaunchKnown, CreateCommand, networkVars, addrVars, daemonVars
<1>8. ASSUME NEW a \in Adds, AddNodeCommand(a)
      PROVE  LaunchKnown'
  BY <1>8 DEF LaunchKnown, AddNodeCommand, AddNodeStep, AddNode, AddNodeTruncate, AddNodeWrite,
              KillAddNode, daemonVars
<1>9. CASE UNCHANGED dirVars
  BY <1>9 DEF LaunchKnown, dirVars, networkVars, addrVars, daemonVars
<1>10. QED
  BY <1>1, <1>2, <1>3, <1>4, <1>5, <1>6, <1>7, <1>8, <1>9 DEF DirNext, Boot

----------------------------------------------------------------------------
(* The time of the first launch or question. *)

(* Who has found no file, and is not stale, still has none in front of it.   *)
UptimeIInv ==
  /\ UptimeTypeOK
  /\ boots <= MaxBoots
  /\ (\E s \in Stampers : stamping[s].at \in {"write", "done"}) => content[UptimeFile] # Missing
  /\ UptimeFile \notin spoiled =>
       /\ \A s \in HaveChecked : <<UptimeFile, s>> \notin stale => ~Readable(UptimeFile)
       /\ content[UptimeFile] = Empty => \E s \in Stampers : stamping[s].at = "write"

(* Only the daemon's launch and `uptime` touch the record.                   *)
LEMMA UptimeElsewhere ==
  ASSUME FilesKnown, [DirNext]_dirVars, ~Launch, ~RecordStartTime, ~KillDaemon,
         ~ \E s \in Asks : UptimeCommand(s)
  PROVE  /\ content'[UptimeFile] = content[UptimeFile]
         /\ UptimeFile \in spoiled' <=> UptimeFile \in spoiled
         /\ \A s \in Stampers : <<UptimeFile, s>> \in stale => <<UptimeFile, s>> \in stale'
         /\ UNCHANGED <<stamping, boots>>
<1>1. CASE ChooseMiner \/ UNCHANGED dirVars
  BY <1>1, NothingElsewhere DEF ChooseMiner, dirVars, Untouched
<1>2. CASE StartServer \/ Serve
  <2>1. AddrFile # UptimeFile /\ PeersFile # UptimeFile /\ UptimeFile \in Files
    BY DEF AddrFile, PeersFile, UptimeFile, Files
  <2>2. Untouched(UptimeFile, Stampers)
    BY <1>2, <2>1, ReadElsewhere, TruncateElsewhere, WriteElsewhere, FailElsewhere, NothingElsewhere
       DEF StartServer, NewServer, NewAddrManager, Serve, NetworkStep, Dial, DialFails,
           DialSucceeds, AddDialled, SaveDialled, Accept, SaveAccepted, AddAddress, SaveToDisk,
           Dump, DumpPeers, WritePeers, DumpAddresses
  <2>3. QED
    BY <1>2, <2>2 DEF StartServer, Serve, Untouched
<1>3. ASSUME NEW c \in Creators, CreateCommand(c)
      PROVE  Untouched(UptimeFile, Stampers) /\ UNCHANGED <<stamping, boots>>
  <2>1. Wallet # UptimeFile /\ UptimeFile \in Files /\ c \notin Stampers
    BY DataDirAssumption DEF Wallet, UptimeFile, Files, Stampers
  <2>2. QED
    BY <1>3, <2>1, ReadElsewhere, TruncateElsewhere, WriteElsewhere, FailElsewhere, EndElsewhere
       DEF CreateCommand, Create, LoadAndAppend, TruncateWallet, WriteWallet, KillCreate
<1>4. ASSUME NEW a \in Adds, AddNodeCommand(a)
      PROVE  Untouched(UptimeFile, Stampers) /\ UNCHANGED <<stamping, boots>>
  <2>1. AddrFile # UptimeFile /\ UptimeFile \in Files /\ a \notin Stampers
    BY DataDirAssumption DEF AddrFile, UptimeFile, Files, Stampers
  <2>2. QED
    BY <1>4, <2>1, ReadElsewhere, TruncateElsewhere, WriteElsewhere, FailElsewhere, EndElsewhere
       DEF AddNodeCommand, AddNodeStep, AddNode, AddNodeTruncate, AddNodeWrite, KillAddNode
<1>5. QED
  BY <1>1, <1>2, <1>3, <1>4 DEF DirNext, Boot, Untouched

(* One of the stampers moves on.                                             *)
LEMMA StampStep ==
  ASSUME FilesKnown, UptimeIInv, NEW s \in Stampers, Stamp(s)
  PROVE  UptimeIInv'
<1>1. /\ stamping \in [Stampers -> [at : {"new", "create", "write", "done", "dead"},
                                    time : 0 .. boots]]
      /\ boots \in Nat /\ content[UptimeFile] \in {Missing, Empty} \cup (0 .. boots)
  BY DEF UptimeIInv, UptimeTypeOK
<1>2. boots' = boots
  BY DEF Stamp, CheckRecord, CreateRecord, WriteRecord
<1>3. CASE CheckRecord(s)
  <2>1. content' = content /\ spoiled' = spoiled /\ stale' = stale \ {<<UptimeFile, s>>}
    BY <1>3 DEF CheckRecord, ReadFile
  <2>2. \A t \in Stampers \ {s} : stamping'[t] = stamping[t]
    BY <1>1, <1>3 DEF CheckRecord
  <2>3. /\ stamping[s].at = "new"
        /\ stamping'[s] = IF content[UptimeFile] = Missing
                          THEN [at |-> "create", time |-> boots] ELSE [at |-> "done", time |-> 0]
    BY <1>1, <1>3 DEF CheckRecord
  <2>4. UptimeTypeOK'
    BY <1>1, <1>2, <1>3, <2>1 DEF UptimeTypeOK, CheckRecord
  <2>5. (\E t \in Stampers : stamping'[t].at \in {"write", "done"}) => content'[UptimeFile] # Missing
    BY <2>1, <2>2, <2>3 DEF UptimeIInv
  <2>6. ASSUME UptimeFile \notin spoiled', NEW t \in HaveChecked', <<UptimeFile, t>> \notin stale'
        PROVE  ~Readable(UptimeFile)'
    <3>1. CASE t = s
      BY <2>1, <2>3, <2>6, <3>1 DEF HaveChecked, Readable, NotJSON
    <3>2. CASE t # s
      BY <2>1, <2>2, <2>6, <3>2 DEF UptimeIInv, HaveChecked, Readable
    <3>3. QED
      BY <3>1, <3>2
  <2>7. UptimeFile \notin spoiled' /\ content'[UptimeFile] = Empty
          => \E t \in Stampers : stamping'[t].at = "write"
    BY <2>1, <2>2, <2>3 DEF UptimeIInv
  <2>8. QED
    BY <1>2, <2>4, <2>5, <2>6, <2>7 DEF UptimeIInv
<1>4. CASE CreateRecord(s)
  <2>1. content'[UptimeFile] = Empty /\ stale' = stale
    BY <1>4 DEF CreateRecord, Truncate, FilesKnown, Files
  <2>2. stamping'[s].at = "write" /\ \A t \in Stampers : stamping'[t].at = "done" => stamping[t].at = "done"
    BY <1>1, <1>4 DEF CreateRecord
  <2>3. UptimeTypeOK'
    BY <1>1, <1>2, <1>4, <2>1 DEF UptimeTypeOK, CreateRecord
  <2>4. ~Readable(UptimeFile)' /\ content'[UptimeFile] # Missing
    BY <2>1, DataFilesAssumption DEF Readable, NotJSON
  <2>5. QED
    BY <1>2, <2>2, <2>3, <2>4 DEF UptimeIInv
<1>5. CASE WriteRecord(s)
  <2>1. \/ /\ content'[UptimeFile] = stamping[s].time
           /\ stale' = (stale \cup {<<UptimeFile, t>> : t \in HaveChecked}) \ {<<UptimeFile, s>>}
        \/ content' = content /\ UptimeFile \in spoiled'
    BY <1>5 DEF WriteRecord, Write, WriteFails, FilesKnown, Files
  <2>2. \A t \in Stampers \ {s} : stamping'[t] = stamping[t]
    BY <1>1, <1>5 DEF WriteRecord
  <2>3. stamping[s].at = "write" /\ stamping'[s] = [at |-> "done", time |-> 0]
    BY <1>1, <1>5 DEF WriteRecord
  <2>4. stamping[s].time \in 0 .. boots
    BY <1>1
  <2>5. UptimeTypeOK'
    BY <1>1, <1>2, <1>5, <2>1, <2>4 DEF UptimeTypeOK, WriteRecord
  <2>6. stamping[s].time \in 0 .. MaxBoots
    BY <1>1, <2>4, DataDirAssumption DEF UptimeIInv
  <2>7. CASE content'[UptimeFile] = stamping[s].time
             /\ stale' = (stale \cup {<<UptimeFile, t>> : t \in HaveChecked}) \ {<<UptimeFile, s>>}
    <3>1. content'[UptimeFile] \notin NotJSON
      BY <2>6, <2>7, DataDirAssumption
    <3>2. \A t \in HaveChecked' : <<UptimeFile, t>> \in stale'
      BY <2>2, <2>3, <2>7 DEF HaveChecked
    <3>3. QED
      BY <1>2, <2>5, <3>1, <3>2 DEF UptimeIInv, NotJSON
  <2>8. CASE content' = content /\ UptimeFile \in spoiled'
    BY <1>2, <2>2, <2>3, <2>5, <2>8 DEF UptimeIInv
  <2>9. QED
    BY <2>1, <2>7, <2>8
<1>6. QED
  BY <1>3, <1>4, <1>5 DEF Stamp

(* One of them ends, after the first half of its write if it is at "write".  *)
LEMMA StamperEnds ==
  ASSUME UptimeIInv, NEW s \in Stampers, NEW files,
         stamping' = [stamping EXCEPT ![s] = [at |-> "dead", time |-> 0]],
         stamping[s].at = "write" => UptimeFile \in files,
         End(s, files), UNCHANGED boots
  PROVE  UptimeIInv'
<1>1. /\ stamping \in [Stampers -> [at : {"new", "create", "write", "done", "dead"},
                                    time : 0 .. boots]]
      /\ boots \in Nat /\ 0 \in 0 .. boots
  BY DEF UptimeIInv, UptimeTypeOK
<1>2. /\ content' = content
      /\ UptimeFile \notin spoiled' => UptimeFile \notin spoiled
      /\ UptimeFile \notin spoiled' => stamping[s].at # "write"
      /\ \A t \in Stampers \ {s} : <<UptimeFile, t>> \in stale => <<UptimeFile, t>> \in stale'
  BY DEF End
<1>3. stamping'[s] = [at |-> "dead", time |-> 0]
  BY <1>1
<1>4. \A t \in Stampers \ {s} : stamping'[t] = stamping[t]
  BY <1>1
<1>5. UptimeTypeOK'
  BY <1>1, <1>2 DEF UptimeIInv, UptimeTypeOK
<1>6. (\E t \in Stampers : stamping'[t].at \in {"write", "done"}) => content'[UptimeFile] # Missing
  BY <1>2, <1>3, <1>4 DEF UptimeIInv
<1>7. \A t \in HaveChecked' : t \in HaveChecked /\ t \in Stampers \ {s}
  BY <1>3, <1>4 DEF HaveChecked
<1>8. Readable(UptimeFile)' = Readable(UptimeFile)
  BY <1>2 DEF Readable
<1>9. QED
  BY <1>2, <1>3, <1>4, <1>5, <1>6, <1>7, <1>8 DEF UptimeIInv

(* Every step keeps what is known of the record.                             *)
LEMMA UptimeStep ==
  ASSUME FilesKnown, LaunchKnown, UptimeIInv, [DirNext]_dirVars
  PROVE  UptimeIInv'
<1>1. Daemon \in Stampers /\ Asks \subseteq Stampers
  BY DEF Stampers
<1>2. CASE Launch
  <2>1. /\ content' = content /\ stale' = stale /\ spoiled' = spoiled
        /\ stamping' = [stamping EXCEPT ![Daemon] = [at |-> "new", time |-> 0]]
        /\ boots' = boots + 1 /\ boots < MaxBoots
        /\ stamping[Daemon].at \notin {"create", "write"}
    BY <1>2 DEF Launch, filesVars, LaunchKnown
  <2>2. /\ stamping \in [Stampers -> [at : {"new", "create", "write", "done", "dead"},
                                      time : 0 .. boots]]
        /\ boots \in Nat /\ MaxBoots \in Nat
        /\ content[UptimeFile] \in {Missing, Empty} \cup (0 .. boots)
    BY DataDirAssumption DEF UptimeIInv, UptimeTypeOK
  <2>3. \A n \in 0 .. boots : n \in 0 .. boots'
    BY <2>1, <2>2
  <2>4. UptimeTypeOK'
    <3>1. stamping \in [Stampers -> [at : {"new", "create", "write", "done", "dead"},
                                    time : 0 .. boots']]
      BY <2>2, <2>3
    <3>2. boots' \in Nat /\ 0 \in 0 .. boots'
      BY <2>1, <2>2
    <3>3. [at |-> "new", time |-> 0] \in [at : {"new", "create", "write", "done", "dead"},
                                         time : 0 .. boots']
      BY <3>2
    <3>4. stamping' \in [Stampers -> [at : {"new", "create", "write", "done", "dead"},
                                     time : 0 .. boots']]
      BY <2>1, <3>1, <3>3
    <3>5. content'[UptimeFile] \in {Missing, Empty} \cup (0 .. boots')
      BY <2>1, <2>2, <2>3
    <3>6. QED
      BY <3>2, <3>4, <3>5 DEF UptimeTypeOK
  <2>5. stamping'[Daemon].at = "new" /\ \A s \in Stampers \ {Daemon} : stamping'[s] = stamping[s]
    BY <1>1, <2>1, <2>2
  <2>6. HaveChecked' = HaveChecked
    BY <2>1, <2>5 DEF HaveChecked
  <2>7. \A s \in Stampers : stamping[s].at = "write" => stamping'[s].at = "write"
    BY <2>1, <2>5
  <2>8. boots' <= MaxBoots
    BY <2>1, <2>2
  <2>9. \A s \in Stampers :
          stamping'[s].at \in {"write", "done"} => stamping[s].at \in {"write", "done"}
    BY <2>5
  <2>10. Readable(UptimeFile)' = Readable(UptimeFile)
    BY <2>1 DEF Readable
  <2>11. QED
    BY <2>1, <2>4, <2>6, <2>7, <2>8, <2>9, <2>10 DEF UptimeIInv
<1>3. CASE RecordStartTime
  BY <1>1, <1>3, StampStep DEF RecordStartTime
<1>4. ASSUME NEW s \in Asks, UptimeCommand(s)
      PROVE  UptimeIInv'
  <2>1. CASE Stamp(s)
    BY <1>1, <2>1, StampStep
  <2>2. CASE KillAsk(s)
    BY <1>1, <2>2, StamperEnds DEF KillAsk
  <2>3. QED
    BY <1>4, <2>1, <2>2 DEF UptimeCommand
<1>5. CASE KillDaemon
  BY <1>1, <1>5, StamperEnds DEF KillDaemon
<1>6. CASE ~Launch /\ ~RecordStartTime /\ ~KillDaemon /\ ~ \E s \in Asks : UptimeCommand(s)
  <2>1. /\ content'[UptimeFile] = content[UptimeFile]
        /\ UptimeFile \in spoiled' <=> UptimeFile \in spoiled
        /\ \A s \in Stampers : <<UptimeFile, s>> \in stale => <<UptimeFile, s>> \in stale'
        /\ stamping' = stamping /\ boots' = boots
    BY <1>6, UptimeElsewhere
  <2>2. UptimeTypeOK' /\ HaveChecked' = HaveChecked /\ Readable(UptimeFile)' = Readable(UptimeFile)
    BY <2>1 DEF UptimeIInv, UptimeTypeOK, HaveChecked, Readable
  <2>3. HaveChecked \subseteq Stampers
    BY DEF HaveChecked
  <2>4. QED
    BY <2>1, <2>2, <2>3 DEF UptimeIInv
<1>7. QED
  BY <1>2, <1>3, <1>4, <1>5, <1>6

----------------------------------------------------------------------------
(* The address manager's file. *)

AddHolders == {a \in Adds : adding[a].at \in {"truncate", "write"}}

AddWritersButFor(a) == {b \in Adds \ {a} : adding[b].at = "write"}

(* An address that somebody other than `process` is about to write.          *)
OthersWrite(process, e) ==
  \/ \E b \in AddWritersButFor(process) : e \in adding[b].addresses
  \/ process # Daemon /\ mu # Nobody /\ e \in addresses

(* What is known of a map, if nobody has written the file since it was read: *)
(* it holds all addresses users were told, but for those others will write.  *)
MapKnows(process, map) ==
  \A e \in Adds : adding[e].at = "done" => e \in map \/ OthersWrite(process, e)

AddKnows(a) ==
  /\ adding[a].at = "write" => content[AddrFile] = Empty
  /\ MapKnows(a, adding[a].addresses)

DaemonKnows ==
  /\ mu # Nobody => content[AddrFile] = Empty
  /\ MapKnows(Daemon, addresses)
  /\ mu = Nobody /\ AddWritersButFor(Daemon) = {} => LoadFromDisk = addresses

AddrIInv ==
  /\ serving \in BOOLEAN
  /\ addresses \subseteq Addresses
  /\ content[AddrFile] \in NotJSON \cup SUBSET Addresses
  /\ adding \in [Adds -> [at : {"new", "truncate", "write", "done", "dead"},
                          addresses : SUBSET Addresses]]
  /\ \A a \in AddHolders : a \in adding[a].addresses
  /\ AddrFile \notin spoiled =>
       /\ \A a \in AddHolders : <<AddrFile, a>> \notin stale => AddKnows(a)
       /\ serving /\ <<AddrFile, Daemon>> \notin stale => DaemonKnows
  /\ AddedKept

(* A map that was written is read back.                                      *)
LEMMA LoadedMap ==
  /\ content[AddrFile] \in SUBSET Addresses => LoadFromDisk = content[AddrFile]
  /\ content[AddrFile] \in NotJSON => LoadFromDisk = {}
  /\ content[AddrFile] \in NotJSON \cup SUBSET Addresses => LoadFromDisk \subseteq Addresses
BY DataDirAssumption DEF LoadFromDisk, Readable

(* The other commands and the launch leave the addresses alone.              *)
LEMMA AddrElsewhere ==
  ASSUME FilesKnown, [DirNext]_dirVars, ~StartServer, ~Serve, ~KillDaemon,
         ~ \E a \in Adds : AddNodeCommand(a)
  PROVE  Untouched(AddrFile, Adds \cup {Daemon}) /\ UNCHANGED addrVars
<1>1. CASE Launch \/ ChooseMiner \/ UNCHANGED dirVars
  BY <1>1, NothingElsewhere DEF Launch, ChooseMiner, dirVars, networkVars, addrVars
<1>2. CASE RecordStartTime
  <2>1. UptimeFile # AddrFile /\ AddrFile \in Files
    BY DEF UptimeFile, AddrFile, Files
  <2>2. QED
    BY <1>2, <2>1, ReadElsewhere, TruncateElsewhere, WriteElsewhere, FailElsewhere
       DEF RecordStartTime, Stamp, CheckRecord, CreateRecord, WriteRecord, networkVars
<1>3. ASSUME NEW s \in Asks, UptimeCommand(s)
      PROVE  Untouched(AddrFile, Adds \cup {Daemon}) /\ UNCHANGED addrVars
  <2>1. /\ UptimeFile # AddrFile /\ AddrFile \in Files
        /\ AddrFile \notin (IF stamping[s].at = "write" THEN {UptimeFile} ELSE {})
    BY DEF UptimeFile, AddrFile, Files
  <2>2. s \notin Adds \cup {Daemon}
    BY DataDirAssumption
  <2>3. QED
    BY <1>3, <2>1, <2>2, ReadElsewhere, TruncateElsewhere, WriteElsewhere, FailElsewhere, EndElsewhere
       DEF UptimeCommand, Stamp, CheckRecord, CreateRecord, WriteRecord, KillAsk, networkVars
<1>4. ASSUME NEW c \in Creators, CreateCommand(c)
      PROVE  Untouched(AddrFile, Adds \cup {Daemon}) /\ UNCHANGED addrVars
  <2>1. /\ Wallet # AddrFile /\ AddrFile \in Files
        /\ AddrFile \notin (IF creating[c].at = "write" THEN {Wallet} ELSE {})
    BY DEF Wallet, AddrFile, Files
  <2>2. c \notin Adds \cup {Daemon}
    BY DataDirAssumption
  <2>3. QED
    BY <1>4, <2>1, <2>2, ReadElsewhere, TruncateElsewhere, WriteElsewhere, FailElsewhere, EndElsewhere
       DEF CreateCommand, Create, LoadAndAppend, TruncateWallet, WriteWallet, KillCreate, networkVars
<1>5. QED
  BY <1>1, <1>2, <1>3, <1>4 DEF DirNext, Boot

(* What happens elsewhere does not change what is known of the file.         *)
LEMMA AddrFrame ==
  ASSUME AddrIInv, Untouched(AddrFile, Adds \cup {Daemon}), UNCHANGED addrVars
  PROVE  AddrIInv'
<1>1. /\ LoadFromDisk' = LoadFromDisk /\ AddHolders' = AddHolders
      /\ UNCHANGED <<serving, addresses, mu, adding>> /\ AddHolders \subseteq Adds
  BY DEF Untouched, LoadFromDisk, Readable, AddHolders, addrVars
<1>2. \A process, map : MapKnows(process, map)' <=> MapKnows(process, map)
  BY <1>1 DEF MapKnows, OthersWrite, AddWritersButFor
<1>3. AddedKept'
  BY <1>1 DEF AddrIInv, AddedKept, Filed, Untouched
<1>4. AddWritersButFor(Daemon)' = AddWritersButFor(Daemon)
  BY <1>1 DEF AddWritersButFor
<1>5. \A a \in AddHolders : AddKnows(a) => AddKnows(a)'
  BY <1>1, <1>2 DEF AddKnows, Untouched
<1>6. DaemonKnows => DaemonKnows'
  BY <1>1, <1>2, <1>4 DEF DaemonKnows, Untouched
<1>7. QED
  BY <1>1, <1>3, <1>5, <1>6 DEF AddrIInv, Untouched

(* `addnode` reads the file.                                                 *)
LEMMA AddNodeReads ==
  ASSUME AddrIInv, NEW a \in Adds, AddNode(a)
  PROVE  AddrIInv'
<1>1. /\ content' = content /\ spoiled' = spoiled /\ stale' = stale \ {<<AddrFile, a>>}
      /\ adding[a].at = "new" /\ UNCHANGED <<serving, addresses, mu>>
      /\ adding' = [adding EXCEPT ![a] = [at |-> "truncate", addresses |-> LoadFromDisk \cup {a}]]
  BY DEF AddNode, ReadFile
<1>2. adding \in [Adds -> [at : {"new", "truncate", "write", "done", "dead"},
                              addresses : SUBSET Addresses]]
  BY DEF AddrIInv
<1>3. adding'[a] = [at |-> "truncate", addresses |-> LoadFromDisk \cup {a}]
  BY <1>1, <1>2
<1>4. \A b \in Adds \ {a} : adding'[b] = adding[b]
  BY <1>1, <1>2
<1>5. LoadFromDisk \cup {a} \subseteq Addresses
  BY LoadedMap, DataDirAssumption DEF AddrIInv
<1>6. adding' \in [Adds -> [at : {"new", "truncate", "write", "done", "dead"},
                              addresses : SUBSET Addresses]]
  BY <1>1, <1>2, <1>5
<1>7. LoadFromDisk' = LoadFromDisk
  BY <1>1 DEF LoadFromDisk, Readable
<1>8. {b \in Adds : adding'[b].at = "write"} = {b \in Adds : adding[b].at = "write"}
  BY <1>1, <1>3, <1>4
<1>9. \A b \in Adds : adding[b].at = "write" => adding'[b] = adding[b]
  BY <1>1, <1>4
<1>10. \A e \in Adds : adding'[e].at = "done" => adding[e].at = "done"
  BY <1>3, <1>4
<1>11. \A process, e : OthersWrite(process, e) => OthersWrite(process, e)'
  BY <1>1, <1>8, <1>9 DEF OthersWrite, AddWritersButFor
<1>12. AddedKept'
  BY <1>1, <1>7, <1>8, <1>9, <1>10 DEF AddrIInv, AddedKept, Filed
<1>13. a # Daemon /\ a \in Adds
  BY DataDirAssumption
<1>14. ASSUME AddrFile \notin spoiled
       PROVE  MapKnows(a, LoadFromDisk \cup {a})
  <2>1. SUFFICES ASSUME NEW e \in Adds, adding[e].at = "done"
                 PROVE  e \in LoadFromDisk \cup {a} \/ OthersWrite(a, e)
    BY DEF MapKnows
  <2>2. e \in Filed
    BY <1>14, <2>1 DEF AddrIInv, AddedKept
  <2>3. CASE e \in LoadFromDisk
    BY <2>3
  <2>4. CASE mu # Nobody /\ e \in addresses
    BY <1>13, <2>4 DEF OthersWrite
  <2>5. ASSUME NEW b \in Adds, adding[b].at = "write", e \in adding[b].addresses
        PROVE  OthersWrite(a, e)
    <3>1. b \in AddWritersButFor(a)
      BY <1>1, <2>5 DEF AddWritersButFor
    <3>2. QED
      BY <2>5, <3>1 DEF OthersWrite
  <2>6. QED
    BY <2>2, <2>3, <2>4, <2>5 DEF Filed
<1>15. \A process, map : MapKnows(process, map) => MapKnows(process, map)'
  BY <1>10, <1>11 DEF MapKnows
<1>16. \A b \in AddHolders' : b # a => b \in AddHolders
  BY <1>4 DEF AddHolders
<1>17. \A b \in AddHolders' : b \in adding'[b].addresses
  BY <1>3, <1>4, <1>16 DEF AddrIInv, AddHolders
<1>18. ASSUME AddrFile \notin spoiled', NEW b \in AddHolders', <<AddrFile, b>> \notin stale'
       PROVE  AddKnows(b)'
  <2>1. CASE b = a
    <3>1. MapKnows(a, LoadFromDisk \cup {a})'
      BY <1>1, <1>7, <1>14, <1>15, <1>18
    <3>2. QED
      BY <1>3, <1>7, <2>1, <3>1 DEF AddKnows
  <2>2. CASE b # a
    <3>1. b \in AddHolders /\ adding'[b] = adding[b] /\ <<AddrFile, b>> \notin stale
      BY <1>1, <1>4, <1>16, <1>18, <2>2 DEF AddHolders
    <3>2. AddKnows(b)
      BY <1>1, <1>18, <3>1 DEF AddrIInv
    <3>3. QED
      BY <1>1, <1>15, <3>1, <3>2 DEF AddKnows
  <2>3. QED
    BY <2>1, <2>2
<1>19. AddWritersButFor(Daemon)' = AddWritersButFor(Daemon)
  BY <1>8 DEF AddWritersButFor
<1>20. <<AddrFile, Daemon>> \notin stale' => <<AddrFile, Daemon>> \notin stale
  BY <1>1, <1>13
<1>21. DaemonKnows => DaemonKnows'
  BY <1>1, <1>7, <1>15, <1>19 DEF DaemonKnows
<1>22. QED
  BY <1>1, <1>6, <1>12, <1>17, <1>18, <1>20, <1>21 DEF AddrIInv

(* `addnode` empties the file, having read it.                               *)
LEMMA AddNodeTruncates ==
  ASSUME FilesKnown, AddrIInv, NEW a \in Adds, AddNodeTruncate(a)
  PROVE  AddrIInv'
<1>1. /\ adding[a].at = "truncate" /\ content'[AddrFile] = Empty /\ stale' = stale
      /\ UNCHANGED <<serving, addresses, mu>>
      /\ adding' = [adding EXCEPT ![a].at = "write"]
      /\ AddrFile \notin spoiled' => AddrFile \notin spoiled /\ <<AddrFile, a>> \notin stale
  BY DEF AddNodeTruncate, Truncate, SpoiledBy, FilesKnown, Files
<1>2. adding \in [Adds -> [at : {"new", "truncate", "write", "done", "dead"},
                              addresses : SUBSET Addresses]]
  BY DEF AddrIInv
<1>3. adding'[a] = [at |-> "write", addresses |-> adding[a].addresses]
  BY <1>1, <1>2
<1>4. \A b \in Adds \ {a} : adding'[b] = adding[b]
  BY <1>1, <1>2
<1>5. adding' \in [Adds -> [at : {"new", "truncate", "write", "done", "dead"},
                              addresses : SUBSET Addresses]]
  BY <1>1, <1>2
<1>6. \A b \in Adds : adding'[b].addresses = adding[b].addresses
  BY <1>3, <1>4
<1>7. \A b \in Adds : adding[b].at = "write" => adding'[b].at = "write"
  BY <1>3, <1>4
<1>8. \A e \in Adds : adding'[e].at = "done" => adding[e].at = "done"
  BY <1>3, <1>4
<1>9. AddHolders' = AddHolders /\ a \in AddHolders /\ AddHolders \subseteq Adds
  BY <1>1, <1>3, <1>4 DEF AddHolders
<1>10. \A process, e : OthersWrite(process, e) => OthersWrite(process, e)'
  BY <1>1, <1>6, <1>7 DEF OthersWrite, AddWritersButFor
<1>11. \A process, map : MapKnows(process, map) => MapKnows(process, map)'
  BY <1>8, <1>10 DEF MapKnows
<1>12. AddedKept'
  <2>1. SUFFICES ASSUME AddrFile \notin spoiled', NEW e \in Adds, adding'[e].at = "done"
                 PROVE  e \in Filed'
    BY DEF AddedKept
  <2>2. e \in adding[a].addresses \/ OthersWrite(a, e)
    BY <1>1, <1>8, <1>9, <2>1 DEF AddrIInv, AddKnows, MapKnows
  <2>3. CASE e \in adding[a].addresses
    BY <1>3, <2>3 DEF Filed
  <2>4. CASE OthersWrite(a, e)
    BY <1>1, <1>6, <1>7, <2>4 DEF OthersWrite, AddWritersButFor, Filed
  <2>5. QED
    BY <2>2, <2>3, <2>4
<1>13. \A b \in AddHolders' : b \in adding'[b].addresses
  BY <1>6, <1>9 DEF AddrIInv
<1>14. AddWritersButFor(Daemon)' # {}
  BY <1>3, DataDirAssumption DEF AddWritersButFor
<1>15. ASSUME AddrFile \notin spoiled', NEW b \in AddHolders', <<AddrFile, b>> \notin stale'
       PROVE  AddKnows(b)'
  <2>1. MapKnows(b, adding[b].addresses) /\ adding'[b].addresses = adding[b].addresses
    BY <1>1, <1>6, <1>9, <1>15 DEF AddrIInv, AddKnows
  <2>2. QED
    BY <1>1, <1>11, <2>1 DEF AddKnows
<1>16. ASSUME AddrFile \notin spoiled', serving', <<AddrFile, Daemon>> \notin stale'
       PROVE  DaemonKnows'
  <2>1. MapKnows(Daemon, addresses)
    BY <1>1, <1>16 DEF AddrIInv, DaemonKnows
  <2>2. QED
    BY <1>1, <1>11, <1>14, <2>1 DEF DaemonKnows
<1>17. QED
  BY <1>1, <1>5, <1>12, <1>13, <1>14, <1>15, <1>16 DEF AddrIInv, NotJSON

(* `addnode` writes the file with its address.                               *)
LEMMA AddNodeWrites ==
  ASSUME FilesKnown, AddrIInv, NEW a \in Adds, AddNodeWrite(a), ~WriteFails(AddrFile)
  PROVE  AddrIInv'
<1>1. /\ adding[a].at = "write"
      /\ content'[AddrFile] \in SaveOutcomes(content[AddrFile], adding[a].addresses)
      /\ stale' = (stale \cup {<<AddrFile, other>> : other \in MapHolders}) \ {<<AddrFile, a>>}
      /\ UNCHANGED <<serving, addresses, mu>>
      /\ adding' = [adding EXCEPT ![a] = [at |-> "done", addresses |-> {}]]
      /\ AddrFile \notin spoiled' => AddrFile \notin spoiled /\ <<AddrFile, a>> \notin stale
  BY DEF AddNodeWrite, Write, SpoiledBy, FilesKnown, Files
<1>2. adding \in [Adds -> [at : {"new", "truncate", "write", "done", "dead"},
                              addresses : SUBSET Addresses]]
  BY DEF AddrIInv
<1>3. adding'[a] = [at |-> "done", addresses |-> {}]
  BY <1>1, <1>2
<1>4. \A b \in Adds \ {a} : adding'[b] = adding[b]
  BY <1>1, <1>2
<1>5. adding' \in [Adds -> [at : {"new", "truncate", "write", "done", "dead"},
                              addresses : SUBSET Addresses]]
  BY <1>1, <1>2
<1>6. content'[AddrFile] \in {adding[a].addresses, Torn} /\ adding[a].addresses \in SUBSET Addresses
  BY <1>1, <1>2 DEF SaveOutcomes
<1>7. a \in AddHolders /\ \A b \in AddHolders' : b \in AddHolders /\ b \in Adds \ {a}
  BY <1>1, <1>3, <1>4 DEF AddHolders
<1>8. \A b \in AddHolders' : <<AddrFile, b>> \in stale'
  BY <1>1, <1>7 DEF AddHolders, MapHolders
<1>9. serving => <<AddrFile, Daemon>> \in stale'
  BY <1>1, DataDirAssumption DEF MapHolders
<1>10. \A b \in AddHolders' : b \in adding'[b].addresses
  BY <1>4, <1>7 DEF AddrIInv
<1>11. AddedKept'
  <2>1. SUFFICES ASSUME AddrFile \notin spoiled', NEW e \in Adds, adding'[e].at = "done"
                 PROVE  e \in Filed'
    BY DEF AddedKept
  <2>2. content[AddrFile] = Empty /\ MapKnows(a, adding[a].addresses)
    BY <1>1, <1>7, <2>1 DEF AddrIInv, AddKnows
  <2>3. LoadFromDisk' = adding[a].addresses
    <3>1. content'[AddrFile] = adding[a].addresses
      BY <1>1, <2>2 DEF SaveOutcomes
    <3>2. content'[AddrFile] \notin NotJSON
      BY <1>6, <3>1, DataDirAssumption
    <3>3. QED
      BY <3>1, <3>2 DEF LoadFromDisk, Readable
  <2>4. CASE e \in adding[a].addresses
    BY <2>3, <2>4 DEF Filed
  <2>5. CASE e \notin adding[a].addresses
    <3>1. OthersWrite(a, e)
      BY <1>4, <1>7, <2>1, <2>2, <2>5 DEF MapKnows, AddrIInv
    <3>2. QED
      BY <1>1, <1>4, <3>1 DEF OthersWrite, AddWritersButFor, Filed
  <2>6. QED
    BY <2>4, <2>5
<1>12. QED
  BY <1>1, <1>5, <1>6, <1>8, <1>9, <1>10, <1>11 DEF AddrIInv, NotJSON

(* It fails to.                                                              *)
LEMMA AddNodeFails ==
  ASSUME AddrIInv, NEW a \in Adds, AddNodeWrite(a), WriteFails(AddrFile)
  PROVE  AddrIInv'
<1>1. /\ adding[a].at = "write" /\ content' = content /\ AddrFile \in spoiled'
      /\ UNCHANGED <<serving, addresses, mu>>
      /\ adding' = [adding EXCEPT ![a] = [at |-> "done", addresses |-> {}]]
  BY DEF AddNodeWrite, WriteFails
<1>2. adding \in [Adds -> [at : {"new", "truncate", "write", "done", "dead"},
                              addresses : SUBSET Addresses]]
  BY DEF AddrIInv
<1>3. adding'[a] = [at |-> "done", addresses |-> {}]
  BY <1>1, <1>2
<1>4. \A b \in Adds \ {a} : adding'[b] = adding[b]
  BY <1>1, <1>2
<1>5. adding' \in [Adds -> [at : {"new", "truncate", "write", "done", "dead"},
                              addresses : SUBSET Addresses]]
  BY <1>1, <1>2
<1>6. \A b \in AddHolders' : b \in AddHolders /\ b \in Adds \ {a}
  BY <1>1, <1>3, <1>4 DEF AddHolders
<1>7. \A b \in AddHolders' : b \in adding'[b].addresses
  BY <1>4, <1>6 DEF AddrIInv
<1>8. AddedKept'
  BY <1>1 DEF AddedKept
<1>9. QED
  BY <1>1, <1>5, <1>7, <1>8 DEF AddrIInv

(* `addnode` ends early.                                                     *)
LEMMA AddNodeEnds ==
  ASSUME AddrIInv, NEW a \in Adds, KillAddNode(a)
  PROVE  AddrIInv'
<1>1. /\ content' = content /\ UNCHANGED <<serving, addresses, mu>>
      /\ AddrFile \notin spoiled' => AddrFile \notin spoiled /\ adding[a].at # "write"
      /\ \A p : p # a => (<<AddrFile, p>> \in stale <=> <<AddrFile, p>> \in stale')
      /\ adding' = [adding EXCEPT ![a] = [at |-> "dead", addresses |-> {}]]
  BY DEF KillAddNode, End
<1>2. adding \in [Adds -> [at : {"new", "truncate", "write", "done", "dead"},
                              addresses : SUBSET Addresses]]
  BY DEF AddrIInv
<1>3. adding'[a] = [at |-> "dead", addresses |-> {}]
  BY <1>1, <1>2
<1>4. \A b \in Adds \ {a} : adding'[b] = adding[b]
  BY <1>1, <1>2
<1>5. adding' \in [Adds -> [at : {"new", "truncate", "write", "done", "dead"},
                              addresses : SUBSET Addresses]]
  BY <1>1, <1>2
<1>6. LoadFromDisk' = LoadFromDisk
  BY <1>1 DEF LoadFromDisk, Readable
<1>7. \A b \in AddHolders' : b \in AddHolders /\ b \in Adds \ {a}
  BY <1>3, <1>4 DEF AddHolders
<1>8. \A e \in Adds : adding'[e].at = "done" => adding[e].at = "done"
  BY <1>3, <1>4
<1>9. ASSUME AddrFile \notin spoiled'
      PROVE  \A b \in Adds : adding[b].at = "write" => adding'[b] = adding[b]
  BY <1>1, <1>4, <1>9
<1>10. ASSUME AddrFile \notin spoiled'
       PROVE  \A process, e : OthersWrite(process, e) => OthersWrite(process, e)'
  BY <1>1, <1>9, <1>10 DEF OthersWrite, AddWritersButFor
<1>11. ASSUME AddrFile \notin spoiled'
       PROVE  \A process, map : MapKnows(process, map) => MapKnows(process, map)'
  BY <1>8, <1>10, <1>11 DEF MapKnows
<1>12. AddedKept'
  BY <1>1, <1>6, <1>8, <1>9 DEF AddrIInv, AddedKept, Filed
<1>13. \A b \in AddHolders' : b \in adding'[b].addresses
  BY <1>4, <1>7 DEF AddrIInv
<1>14. ASSUME AddrFile \notin spoiled', NEW b \in AddHolders', <<AddrFile, b>> \notin stale'
       PROVE  AddKnows(b)'
  <2>1. b \in AddHolders /\ adding'[b] = adding[b] /\ <<AddrFile, b>> \notin stale
    BY <1>1, <1>4, <1>7, <1>14
  <2>2. AddKnows(b)
    BY <1>1, <1>14, <2>1 DEF AddrIInv
  <2>3. QED
    BY <1>1, <1>11, <1>14, <2>1, <2>2 DEF AddKnows
<1>15. AddrFile \notin spoiled' => AddWritersButFor(Daemon)' = AddWritersButFor(Daemon)
  BY <1>1, <1>3, <1>4 DEF AddWritersButFor
<1>16. <<AddrFile, Daemon>> \notin stale' => <<AddrFile, Daemon>> \notin stale
  <2>1. a # Daemon
    BY DataDirAssumption
  <2>2. QED
    BY <1>1, <2>1
<1>17. ASSUME AddrFile \notin spoiled', serving', <<AddrFile, Daemon>> \notin stale'
       PROVE  DaemonKnows'
  <2>1. DaemonKnows
    BY <1>1, <1>16, <1>17 DEF AddrIInv
  <2>2. QED
    BY <1>1, <1>6, <1>11, <1>15, <1>17, <2>1 DEF DaemonKnows
<1>18. QED
  BY <1>1, <1>5, <1>12, <1>13, <1>14, <1>17 DEF AddrIInv

(* The booting daemon loads its map.                                         *)
LEMMA ManagerLoads ==
  ASSUME AddrIInv, mu = Nobody, NewAddrManager
  PROVE  AddrIInv'
<1>1. /\ content' = content /\ spoiled' = spoiled /\ stale' = stale \ {<<AddrFile, Daemon>>}
      /\ serving' = TRUE /\ addresses' = LoadFromDisk /\ mu' = mu /\ adding' = adding
  BY DEF NewAddrManager, ReadFile
<1>2. LoadFromDisk' = LoadFromDisk /\ AddHolders' = AddHolders /\ AddHolders \subseteq Adds
  BY <1>1 DEF LoadFromDisk, Readable, AddHolders
<1>3. \A process, e : OthersWrite(process, e) => OthersWrite(process, e)'
  BY <1>1 DEF OthersWrite, AddWritersButFor
<1>4. \A process, map : MapKnows(process, map) => MapKnows(process, map)'
  BY <1>1, <1>3 DEF MapKnows
<1>5. LoadFromDisk \subseteq Addresses
  BY LoadedMap DEF AddrIInv
<1>6. AddedKept'
  BY <1>1, <1>2 DEF AddrIInv, AddedKept, Filed
<1>7. \A a \in AddHolders : <<AddrFile, a>> \notin stale' => <<AddrFile, a>> \notin stale
  BY <1>1, <1>2, DataDirAssumption
<1>8. \A a \in AddHolders : AddKnows(a) => AddKnows(a)'
  BY <1>1, <1>4 DEF AddKnows
<1>9. ASSUME AddrFile \notin spoiled
      PROVE  DaemonKnows'
  <2>1. ASSUME NEW e \in Adds, adding[e].at = "done"
        PROVE  e \in LoadFromDisk \/ OthersWrite(Daemon, e)
    <3>1. e \in LoadFromDisk \/ \E b \in Adds : adding[b].at = "write" /\ e \in adding[b].addresses
      BY <1>9, <2>1 DEF AddrIInv, AddedKept, Filed
    <3>2. \A b \in Adds : b # Daemon
      BY DataDirAssumption
    <3>3. QED
      BY <3>1, <3>2 DEF OthersWrite, AddWritersButFor
  <2>2. MapKnows(Daemon, LoadFromDisk)
    BY <2>1 DEF MapKnows
  <2>3. MapKnows(Daemon, addresses)'
    BY <1>1, <1>2, <1>4, <2>2
  <2>4. QED
    BY <1>1, <1>2, <2>3 DEF DaemonKnows
<1>10. QED
  BY <1>1, <1>2, <1>5, <1>6, <1>7, <1>8, <1>9 DEF AddrIInv

(* A goroutine of the daemon takes the mutex and empties the file.           *)
LEMMA DaemonAdds ==
  ASSUME FilesKnown, AddrIInv, serving, NEW g, g # Nobody, NEW x \in Addresses, AddAddress(g, x)
  PROVE  AddrIInv'
<1>1. /\ content'[AddrFile] = Empty /\ stale' = stale /\ UNCHANGED <<serving, adding>>
      /\ mu = Nobody /\ mu' # Nobody /\ addresses' = addresses \cup {x}
      /\ AddrFile \notin spoiled' => AddrFile \notin spoiled /\ <<AddrFile, Daemon>> \notin stale
  BY DEF AddAddress, Truncate, SpoiledBy, FilesKnown, Files
<1>2. AddHolders' = AddHolders /\ AddHolders \subseteq Adds
  BY <1>1 DEF AddHolders
<1>3. \A process, e : OthersWrite(process, e) => OthersWrite(process, e)'
  BY <1>1 DEF OthersWrite, AddWritersButFor
<1>4. \A process, map : MapKnows(process, map) => MapKnows(process, map)'
  BY <1>1, <1>3 DEF MapKnows
<1>5. ASSUME AddrFile \notin spoiled'
      PROVE  DaemonKnows
  BY <1>1, <1>5 DEF AddrIInv
<1>6. AddedKept'
  <2>1. SUFFICES ASSUME AddrFile \notin spoiled', NEW e \in Adds, adding'[e].at = "done"
                 PROVE  e \in Filed'
    BY DEF AddedKept
  <2>2. e \in addresses \/ OthersWrite(Daemon, e)
    BY <1>1, <1>5, <2>1 DEF DaemonKnows, MapKnows
  <2>3. CASE e \in addresses
    BY <1>1, <2>3 DEF Filed
  <2>4. CASE OthersWrite(Daemon, e)
    BY <1>1, <2>4 DEF OthersWrite, AddWritersButFor, Filed
  <2>5. QED
    BY <2>2, <2>3, <2>4
<1>7. \A a \in AddHolders : AddKnows(a) => AddKnows(a)'
  BY <1>1, <1>4 DEF AddKnows
<1>8. ASSUME AddrFile \notin spoiled'
      PROVE  DaemonKnows'
  <2>1. MapKnows(Daemon, addresses)'
    <3>1. MapKnows(Daemon, addresses \cup {x})
      BY <1>5, <1>8 DEF DaemonKnows, MapKnows
    <3>2. QED
      BY <1>1, <1>4, <3>1
  <2>2. QED
    BY <1>1, <2>1 DEF DaemonKnows
<1>9. addresses' \subseteq Addresses
  BY <1>1 DEF AddrIInv
<1>10. QED
  BY <1>1, <1>2, <1>6, <1>7, <1>8, <1>9 DEF AddrIInv, NotJSON

(* It writes the file and releases the mutex.                                *)
LEMMA DaemonSaves ==
  ASSUME FilesKnown, AddrIInv, serving, NEW g, g # Nobody, SaveToDisk(g), ~WriteFails(AddrFile)
  PROVE  AddrIInv'
<1>1. /\ content'[AddrFile] \in SaveOutcomes(content[AddrFile], addresses)
      /\ stale' = (stale \cup {<<AddrFile, other>> : other \in MapHolders}) \ {<<AddrFile, Daemon>>}
      /\ mu # Nobody /\ mu' = Nobody /\ UNCHANGED <<serving, addresses, adding>>
      /\ AddrFile \notin spoiled' => AddrFile \notin spoiled /\ <<AddrFile, Daemon>> \notin stale
  BY DEF SaveToDisk, Write, SpoiledBy, FilesKnown, Files
<1>2. AddHolders' = AddHolders /\ AddHolders \subseteq Adds
  BY <1>1 DEF AddHolders
<1>3. content'[AddrFile] \in {addresses, Torn} /\ addresses \in SUBSET Addresses
  BY <1>1 DEF SaveOutcomes, AddrIInv
<1>4. \A a \in AddHolders : <<AddrFile, a>> \in stale'
  <2>1. \A a \in AddHolders : a \in MapHolders /\ a # Daemon
    BY <1>2, DataDirAssumption DEF AddHolders, MapHolders
  <2>2. QED
    BY <1>1, <2>1
<1>5. \A e : OthersWrite(Daemon, e) => OthersWrite(Daemon, e)'
  BY <1>1 DEF OthersWrite, AddWritersButFor
<1>6. ASSUME AddrFile \notin spoiled'
      PROVE  /\ MapKnows(Daemon, addresses)
             /\ LoadFromDisk' = addresses
  <2>1. DaemonKnows
    BY <1>1, <1>6 DEF AddrIInv
  <2>2. content'[AddrFile] = addresses
    BY <1>1, <2>1 DEF DaemonKnows, SaveOutcomes
  <2>3. content'[AddrFile] \notin NotJSON
    BY <1>3, <2>2, DataDirAssumption
  <2>4. QED
    BY <2>1, <2>2, <2>3 DEF DaemonKnows, LoadFromDisk, Readable
<1>7. AddedKept'
  <2>1. SUFFICES ASSUME AddrFile \notin spoiled', NEW e \in Adds, adding'[e].at = "done"
                 PROVE  e \in Filed'
    BY DEF AddedKept
  <2>2. e \in addresses \/ OthersWrite(Daemon, e)
    BY <1>1, <1>6, <2>1 DEF MapKnows
  <2>3. CASE e \in addresses
    BY <1>6, <2>1, <2>3 DEF Filed
  <2>4. CASE OthersWrite(Daemon, e)
    BY <1>1, <2>4 DEF OthersWrite, AddWritersButFor, Filed
  <2>5. QED
    BY <2>2, <2>3, <2>4
<1>8. ASSUME AddrFile \notin spoiled'
      PROVE  DaemonKnows'
  <2>1. MapKnows(Daemon, addresses)'
    BY <1>1, <1>5, <1>6, <1>8 DEF MapKnows
  <2>2. QED
    BY <1>1, <1>6, <1>8, <2>1 DEF DaemonKnows
<1>9. \A a \in AddHolders : a \in adding'[a].addresses
  BY <1>1 DEF AddrIInv
<1>10. QED
  BY <1>1, <1>2, <1>3, <1>4, <1>7, <1>8, <1>9 DEF AddrIInv, NotJSON

(* It fails to, and releases the mutex all the same.                         *)
LEMMA DaemonFails ==
  ASSUME AddrIInv, NEW g, SaveToDisk(g), WriteFails(AddrFile)
  PROVE  AddrIInv'
<1>1. /\ content' = content /\ AddrFile \in spoiled'
      /\ UNCHANGED <<serving, addresses, adding>>
  BY DEF SaveToDisk, WriteFails
<1>2. AddHolders' = AddHolders
  BY <1>1 DEF AddHolders
<1>3. QED
  BY <1>1, <1>2 DEF AddrIInv, AddedKept

(* The daemon ends.                                                          *)
LEMMA DaemonEnds ==
  ASSUME AddrIInv, KillDaemon
  PROVE  AddrIInv'
<1>1. /\ content' = content /\ serving' = FALSE /\ addresses' = {} /\ mu' = Nobody /\ adding' = adding
      /\ AddrFile \notin spoiled' => AddrFile \notin spoiled /\ mu = Nobody
      /\ \A p : p # Daemon => (<<AddrFile, p>> \in stale <=> <<AddrFile, p>> \in stale')
  BY DEF KillDaemon, StopServer, End, HalfWritten
<1>2. /\ LoadFromDisk' = LoadFromDisk /\ AddHolders' = AddHolders
      /\ \A a \in AddHolders : a \in Adds /\ a # Daemon
  BY <1>1, DataDirAssumption DEF LoadFromDisk, Readable, AddHolders
<1>3. AddedKept'
  BY <1>1, <1>2 DEF AddrIInv, AddedKept, Filed
<1>4. ASSUME AddrFile \notin spoiled'
      PROVE  \A process, e : OthersWrite(process, e) => OthersWrite(process, e)'
  BY <1>1, <1>4 DEF OthersWrite, AddWritersButFor
<1>5. ASSUME AddrFile \notin spoiled', NEW a \in AddHolders, AddKnows(a)
      PROVE  AddKnows(a)'
  BY <1>1, <1>4, <1>5 DEF AddKnows, MapKnows
<1>6. QED
  BY <1>1, <1>2, <1>3, <1>5 DEF AddrIInv

(* Every step keeps what is known of the addresses' file.                    *)
LEMMA AddrStep ==
  ASSUME FilesKnown, LaunchKnown, AddrIInv, [DirNext]_dirVars
  PROVE  AddrIInv'
<1>1. CASE StartServer
  <2>1. mu = Nobody
    BY <1>1 DEF StartServer, LaunchKnown
  <2>2. QED
    BY <1>1, <2>1, ManagerLoads DEF StartServer, NewServer
<1>2. CASE Serve
  <2>1. serving /\ NetworkStep
    BY <1>2 DEF Serve, LaunchKnown
  <2>2. ASSUME NEW a \in Dials, AddDialled(a)
        PROVE  AddrIInv'
    <3>1. a \in Addresses /\ a # Nobody
      BY DataDirAssumption
    <3>2. QED
      BY <2>1, <2>2, <3>1, DaemonAdds DEF AddDialled
  <2>3. CASE Accept
    <3>1. PICK a \in Inbound : AddAddress(Listener, a)
      BY <2>3 DEF Accept
    <3>2. a \in Addresses /\ Listener # Nobody
      BY DataDirAssumption
    <3>3. QED
      BY <2>1, <3>1, <3>2, DaemonAdds
  <2>4. ASSUME NEW a \in Dials, SaveDialled(a)
        PROVE  AddrIInv'
    <3>1. a # Nobody
      BY DataDirAssumption
    <3>2. QED
      BY <2>1, <2>4, <3>1, DaemonSaves, DaemonFails DEF SaveDialled
  <2>5. CASE SaveAccepted
    <3>1. Listener # Nobody
      BY DataDirAssumption
    <3>2. QED
      BY <2>1, <2>5, <3>1, DaemonSaves, DaemonFails DEF SaveAccepted
  <2>6. CASE Dump \/ \E a \in Dials : DialFails(a) \/ DialSucceeds(a)
    <3>1. PeersFile # AddrFile /\ AddrFile \in Files
      BY DEF PeersFile, AddrFile, Files
    <3>2. Untouched(AddrFile, Adds \cup {Daemon}) /\ UNCHANGED addrVars
      BY <2>6, <3>1, TruncateElsewhere, WriteElsewhere, FailElsewhere, NothingElsewhere
         DEF Dump, DumpPeers, WritePeers, DumpAddresses, DialFails, DialSucceeds
    <3>3. QED
      BY <3>2, AddrFrame
  <2>7. QED
    BY <2>1, <2>2, <2>3, <2>4, <2>5, <2>6 DEF NetworkStep, Dial
<1>3. CASE KillDaemon
  BY <1>3, DaemonEnds
<1>4. ASSUME NEW a \in Adds, AddNodeCommand(a)
      PROVE  AddrIInv'
  BY <1>4, AddNodeReads, AddNodeTruncates, AddNodeWrites, AddNodeFails, AddNodeEnds DEF AddNodeCommand, AddNodeStep
<1>5. CASE ~StartServer /\ ~Serve /\ ~KillDaemon /\ ~ \E a \in Adds : AddNodeCommand(a)
  BY <1>5, AddrElsewhere, AddrFrame
<1>6. QED
  BY <1>1, <1>2, <1>3, <1>4, <1>5

----------------------------------------------------------------------------
(* The rest of the types: the peers, their file, and the history. *)

Processes == Creators \cup Stampers \cup Adds

PeersTyped ==
  /\ mu \in Dials \cup {Listener, Nobody}
  /\ peers \subseteq Dials
  /\ dialing \in [Dials -> {"dial", "failed", "add", "save", "done"}]
  /\ dump \in [at : {"sleep", "peers", "addresses"}, list : SUBSET Dials]
  /\ content[PeersFile] \in {Missing, Empty} \cup SUBSET Dials

HistoryTyped ==
  /\ spoiled \subseteq Files
  /\ stale \subseteq Files \X Processes

(* Only the server of a running daemon touches the peers and their file.     *)
LEMMA PeersTypedStep ==
  ASSUME FilesKnown, PeersTyped, [DirNext]_dirVars
  PROVE  PeersTyped'
<1>1. /\ PeersFile \in Files /\ AddrFile # PeersFile /\ UptimeFile # PeersFile
      /\ Wallet # PeersFile
  BY DEF PeersFile, AddrFile, UptimeFile, Wallet, Files
<1>2. CASE Launch \/ ChooseMiner \/ UNCHANGED dirVars
  BY <1>2 DEF PeersTyped, Launch, ChooseMiner, dirVars, filesVars, networkVars, addrVars
<1>3. CASE RecordStartTime \/ \E s \in Asks : UptimeCommand(s)
  <2>1. content'[PeersFile] = content[PeersFile] /\ UNCHANGED networkVars
    BY <1>1, <1>3 DEF RecordStartTime, UptimeCommand, Stamp, CheckRecord, CreateRecord, WriteRecord,
                      KillAsk, ReadFile, Truncate, Write, WriteFails, End, FilesKnown
  <2>2. QED
    BY <2>1 DEF PeersTyped, networkVars, addrVars
<1>4. CASE \E c \in Creators : CreateCommand(c)
  <2>1. content'[PeersFile] = content[PeersFile] /\ UNCHANGED networkVars
    BY <1>1, <1>4 DEF CreateCommand, Create, LoadAndAppend, TruncateWallet, WriteWallet, KillCreate,
                      ReadFile, Truncate, Write, WriteFails, End, FilesKnown
  <2>2. QED
    BY <2>1 DEF PeersTyped, networkVars, addrVars
<1>5. CASE \E a \in Adds : AddNodeCommand(a)
  <2>1. content'[PeersFile] = content[PeersFile] /\ UNCHANGED <<mu, peers, dialing, dump>>
    BY <1>1, <1>5 DEF AddNodeCommand, AddNodeStep, AddNode, AddNodeTruncate, AddNodeWrite, KillAddNode,
                      ReadFile, Truncate, Write, WriteFails, End, FilesKnown
  <2>2. QED
    BY <2>1 DEF PeersTyped
<1>6. CASE StartServer \/ KillDaemon
  <2>1. /\ content' = content /\ mu' = Nobody /\ peers' = {} /\ dump' = Sleeping
        /\ dialing' = [a \in Dials |-> "dial"]
    BY <1>6 DEF StartServer, NewServer, NewAddrManager, ReadFile, KillDaemon, StopServer, End
  <2>2. QED
    BY <2>1 DEF PeersTyped, Sleeping
<1>7. ASSUME NEW a \in Dials, Dial(a)
      PROVE  PeersTyped'
  <2>1. content'[PeersFile] = content[PeersFile] /\ dump' = dump /\ mu' \in {mu, a, Nobody}
    BY <1>1, <1>7 DEF Dial, DialFails, DialSucceeds, AddDialled, SaveDialled, AddAddress, SaveToDisk,
                      filesVars, addrVars, Truncate, Write, WriteFails, FilesKnown
  <2>2. peers' \in {peers, peers \cup {a}}
    BY <1>7 DEF Dial, DialFails, DialSucceeds, AddDialled, SaveDialled
  <2>3. \E at \in {"failed", "add", "save", "done"} : dialing' = [dialing EXCEPT ![a] = at]
    BY <1>7 DEF Dial, DialFails, DialSucceeds, AddDialled, SaveDialled
  <2>4. QED
    BY <2>1, <2>2, <2>3 DEF PeersTyped
<1>8. CASE Accept \/ SaveAccepted
  <2>1. /\ content'[PeersFile] = content[PeersFile] /\ mu' \in {Listener, Nobody}
        /\ UNCHANGED <<peers, dialing, dump>>
    BY <1>1, <1>8 DEF Accept, SaveAccepted, AddAddress, SaveToDisk, Truncate, Write, WriteFails,
                      FilesKnown
  <2>2. QED
    BY <2>1 DEF PeersTyped
<1>9. CASE Dump
  <2>1. UNCHANGED <<addrVars, peers, dialing>>
    BY <1>9 DEF Dump, DumpPeers, WritePeers, DumpAddresses
  <2>2. dump' \in [at : {"sleep", "peers", "addresses"}, list : SUBSET Dials]
    BY <1>9 DEF Dump, DumpPeers, WritePeers, DumpAddresses, PeersTyped, Sleeping
  <2>3. content'[PeersFile] \in {content[PeersFile], Empty, dump.list}
    BY <1>1, <1>9 DEF Dump, DumpPeers, WritePeers, DumpAddresses, Truncate, Write, filesVars, FilesKnown
  <2>4. QED
    BY <2>1, <2>2, <2>3 DEF PeersTyped, addrVars
<1>10. QED
  BY <1>2, <1>3, <1>4, <1>5, <1>6, <1>7, <1>8, <1>9 DEF DirNext, Boot, Serve, NetworkStep

(* The history is about the files and the processes there are.               *)
LEMMA HistoryTypedStep ==
  ASSUME HistoryTyped, [DirNext]_dirVars
  PROVE  HistoryTyped'
<1>1. /\ {PeersFile, AddrFile, UptimeFile, Wallet} \subseteq Files
      /\ Holders \subseteq Processes /\ HaveChecked \subseteq Processes
      /\ MapHolders \subseteq Processes
  BY DEF PeersFile, AddrFile, UptimeFile, Wallet, Files, Holders, HaveChecked, MapHolders, Processes,
         Stampers
<1>2. \A f, p : ReadFile(f, p) => HistoryTyped'
  BY DEF HistoryTyped, ReadFile
<1>3. \A f \in Files : \A p : Truncate(f, p) => HistoryTyped'
  BY DEF HistoryTyped, Truncate, SpoiledBy
<1>4. ASSUME NEW f \in Files, NEW p, NEW outcomes, NEW readers, readers \subseteq Processes,
             Write(f, p, outcomes, readers)
      PROVE  HistoryTyped'
  BY <1>4 DEF HistoryTyped, Write, SpoiledBy
<1>5. ASSUME NEW p, NEW files, files \subseteq Files, End(p, files)
      PROVE  HistoryTyped'
  BY <1>5 DEF HistoryTyped, End
<1>14. \A f \in Files : WriteFails(f) => HistoryTyped'
  BY DEF HistoryTyped, WriteFails
<1>6. UNCHANGED filesVars => HistoryTyped'
  BY DEF HistoryTyped, filesVars
<1>7. CASE Launch \/ ChooseMiner \/ UNCHANGED dirVars
  BY <1>6, <1>7 DEF Launch, ChooseMiner, dirVars
<1>8. CASE RecordStartTime \/ \E s \in Asks : UptimeCommand(s)
  BY <1>1, <1>2, <1>3, <1>4, <1>5, <1>8, <1>14
     DEF RecordStartTime, UptimeCommand, Stamp, CheckRecord, CreateRecord, WriteRecord, KillAsk
<1>9. CASE \E c \in Creators : CreateCommand(c)
  BY <1>1, <1>2, <1>3, <1>4, <1>5, <1>9
     DEF CreateCommand, Create, LoadAndAppend, TruncateWallet, WriteWallet, KillCreate
<1>10. CASE \E a \in Adds : AddNodeCommand(a)
  BY <1>1, <1>2, <1>3, <1>4, <1>5, <1>10, <1>14
     DEF AddNodeCommand, AddNodeStep, AddNode, AddNodeTruncate, AddNodeWrite, KillAddNode
<1>11. CASE StartServer \/ Serve
  BY <1>1, <1>2, <1>3, <1>4, <1>6, <1>11, <1>14
     DEF StartServer, NewServer, NewAddrManager, Serve, NetworkStep, Dial, DialFails, DialSucceeds,
         AddDialled, SaveDialled, Accept, SaveAccepted, AddAddress, SaveToDisk, Dump, DumpPeers,
         WritePeers, DumpAddresses
<1>12. CASE KillDaemon
  BY <1>1, <1>5, <1>12 DEF KillDaemon, HalfWritten
<1>13. QED
  BY <1>7, <1>8, <1>9, <1>10, <1>11, <1>12 DEF DirNext, Boot

----------------------------------------------------------------------------
(* All of it together. *)

DirIInv ==
  /\ FilesKnown
  /\ LaunchKnown
  /\ WalletIInv
  /\ UptimeIInv
  /\ AddrIInv
  /\ PeersTyped
  /\ HistoryTyped

(* A fresh ~/.xcosh has none of the files.                                   *)
LEMMA DirStart ==
  DirInit => DirIInv
<1> SUFFICES ASSUME DirInit
             PROVE  DirIInv
  OBVIOUS
<1> USE DEF DirInit, FilesInit, WalletInit, UptimeInit, NetworkInit, AddrInit
<1>1. FilesKnown /\ \A f \in Files : content[f] = Missing /\ ~Readable(f)
  BY DEF FilesKnown, Readable, NotJSON
<1>2. {PeersFile, AddrFile, UptimeFile, Wallet} \subseteq Files
  BY DEF PeersFile, AddrFile, UptimeFile, Wallet, Files
<1>3. LaunchKnown
  BY DEF LaunchKnown, Stampers
<1>4. WalletIInv
  <2>1. WalletTypeOK
    <3>1. [at |-> "new", accounts |-> <<>>]
            \in [at : {"new", "truncate", "write", "done", "dead"}, accounts : Seq(Creators)]
      OBVIOUS
    <3>2. creating \in [Creators -> [at : {"new", "truncate", "write", "done", "dead"},
                                     accounts : Seq(Creators)]]
      BY <3>1
    <3>3. content[Wallet] \in NotJSON
      BY <1>1, <1>2 DEF NotJSON
    <3>4. QED
      BY <3>2, <3>3 DEF WalletTypeOK
  <2>2. Holders = {}
    BY DEF Holders
  <2>3. QED
    BY <2>1, <2>2 DEF WalletIInv, AccountsKept, MinerIsFirst
<1>5. UptimeIInv
  <2>1. boots = 0 /\ MaxBoots \in Nat /\ content[UptimeFile] = Missing
    BY <1>1, <1>2, DataDirAssumption
  <2>2. stamping = [s \in Stampers |-> [at |-> "new", time |-> 0]]
    OBVIOUS
  <2>3. UptimeTypeOK /\ boots <= MaxBoots
    BY <2>1, <2>2 DEF UptimeTypeOK
  <2>4. HaveChecked = {} /\ \A s \in Stampers : stamping[s].at # "done"
    BY <2>2 DEF HaveChecked
  <2>5. QED
    BY <2>1, <2>3, <2>4, DataFilesAssumption DEF UptimeIInv
<1>6. AddrIInv
  <2>1. AddHolders = {}
    BY DEF AddHolders
  <2>2. content[AddrFile] \in NotJSON
    BY <1>1, <1>2 DEF NotJSON
  <2>3. AddedKept
    BY DEF AddedKept
  <2>4. adding \in [Adds -> [at : {"new", "truncate", "write", "done", "dead"},
                            addresses : SUBSET Addresses]]
    OBVIOUS
  <2>5. QED
    BY <2>1, <2>2, <2>3, <2>4 DEF AddrIInv
<1>7. PeersTyped
  BY <1>1, <1>2 DEF PeersTyped, Sleeping
<1>8. HistoryTyped
  BY DEF HistoryTyped
<1>9. QED
  BY <1>1, <1>3, <1>4, <1>5, <1>6, <1>7, <1>8 DEF DirIInv

(* What is known of the directory, always.                                   *)
LEMMA DirInvariant ==
  DirSpec => []DirIInv
<1>1. DirIInv /\ [DirNext]_dirVars => DirIInv'
  <2>1. SUFFICES ASSUME DirIInv, [DirNext]_dirVars
                 PROVE  DirIInv'
    OBVIOUS
  <2>2. LaunchKnown'
    BY <2>1, LaunchStep DEF DirIInv, UptimeIInv
  <2>3. QED
    BY <2>1, <2>2, FilesStep, WalletStep, UptimeStep, AddrStep, PeersTypedStep, HistoryTypedStep
       DEF DirIInv
<1>2. QED
  BY DirStart, <1>1, PTL DEF DirSpec

(* Every variable holds what the code's types allow, for any number of       *)
(* commands, launches, peers and addresses.                                  *)
THEOREM DirTypes ==
  DirSpec => []DirTypeOK
<1>1. DirIInv => DirTypeOK
  BY DEF DirIInv, FilesKnown, LaunchKnown, WalletIInv, UptimeIInv, AddrIInv, PeersTyped, HistoryTyped,
         Processes, DirTypeOK, NetworkTypeOK
<1>2. QED
  BY <1>1, DirInvariant, PTL

(* An account `create` has shown stays in wallet.dat, or in what another     *)
(* `create` is about to write, until a stale one or a death spoils the file. *)
THEOREM WalletAccountsKept ==
  DirSpec => []AccountsKept
<1>1. DirIInv => AccountsKept
  BY DEF DirIInv, WalletIInv
<1>2. QED
  BY <1>1, DirInvariant, PTL

(* The account a running daemon mines for stays the first of the wallet.     *)
THEOREM WalletMinerIsFirst ==
  DirSpec => []MinerIsFirst
<1>1. DirIInv => MinerIsFirst
  BY DEF DirIInv, WalletIInv
<1>2. QED
  BY <1>1, DirInvariant, PTL

(* Who has been through with the record finds one, or one about to be        *)
(* written.                                                                  *)
THEOREM UptimeIsRecorded ==
  DirSpec => []UptimeRecorded
<1>1. ASSUME DirIInv
      PROVE  UptimeRecorded
  <2>1. SUFFICES ASSUME \E s \in Stampers : stamping[s].at = "done", UptimeFile \notin spoiled,
                        ~ \E s \in Stampers : stamping[s].at = "write"
                 PROVE  Readable(UptimeFile)
    BY DEF UptimeRecorded
  <2>2. content[UptimeFile] \notin {Missing, Empty}
    BY <1>1, <2>1 DEF DirIInv, UptimeIInv
  <2>3. boots \in Nat /\ boots <= MaxBoots /\ MaxBoots \in Nat
    BY <1>1, DataDirAssumption DEF DirIInv, UptimeIInv, UptimeTypeOK
  <2>4. content[UptimeFile] \in 0 .. boots
    BY <1>1, <2>2 DEF DirIInv, UptimeIInv, UptimeTypeOK
  <2>5. content[UptimeFile] \in 0 .. MaxBoots
    BY <2>3, <2>4
  <2>6. QED
    BY <2>5, DataDirAssumption DEF Readable
<1>2. QED
  BY <1>1, DirInvariant, PTL

(* An address `addnode` has reported stays in the file, or in a map about to *)
(* be written.                                                               *)
THEOREM AddrAddedKept ==
  DirSpec => []AddedKept
<1>1. DirIInv => AddedKept
  BY DEF DirIInv, AddrIInv
<1>2. QED
  BY <1>1, DirInvariant, PTL

(* While no other process writes the file, it holds the daemon's map.        *)
THEOREM AddrMapIsFiled ==
  DirSpec => []MapIsFiled
<1>1. ASSUME DirIInv
      PROVE  MapIsFiled
  <2>1. SUFFICES ASSUME daemon = "up", AddrFile \notin spoiled, <<AddrFile, Daemon>> \notin stale,
                        mu = Nobody, \A a \in Adds : adding[a].at # "write"
                 PROVE  LoadFromDisk = addresses
    BY DEF MapIsFiled
  <2>2. serving
    BY <1>1, <2>1 DEF DirIInv, LaunchKnown
  <2>3. AddWritersButFor(Daemon) = {}
    BY <2>1 DEF AddWritersButFor
  <2>4. QED
    BY <1>1, <2>1, <2>2, <2>3 DEF DirIInv, AddrIInv, DaemonKnows
<1>2. QED
  BY <1>1, DirInvariant, PTL

=============================================================================
