------------------------------ MODULE DataDir ------------------------------
(***************************************************************************)
(* The daemon's launch and its server beside commands that run at the same *)
(* time and share the files of ~/.xcosh with it: `create` (WalletFile),    *)
(* `uptime` (Uptime) and `addnode` (AddrMan).  None of them opens the      *)
(* database, whose lock keeps the commands of module Node away.            *)
(*                                                                         *)
(* A second daemon gets as far as that lock: it stamps uptime.json as      *)
(* `uptime` does, reads the wallet and dies.  So it is one of Asks.        *)
(***************************************************************************)
EXTENDS WalletFile, Uptime, Network, FiniteSets

CONSTANTS
  SystemMiner,
  MaxBoots,     \* bound: launches of the daemon
  MaxCommands   \* bound: commands that are started

ASSUME DataDirAssumption ==
  /\ Dials \cup Inbound \cup Adds \subseteq Addresses
  /\ Nobody \notin Dials \cup {Listener}
  /\ Listener \notin Dials
  /\ Daemon \notin Creators \cup Adds \cup Asks
  /\ Creators \cap (Adds \cup Asks) = {} /\ Adds \cap Asks = {}
  /\ SystemMiner \notin Creators
  /\ \A wrong \in NotJSON : wrong \notin Seq(Creators)
  /\ \A book \in SUBSET Addresses : book \notin NotJSON
  /\ \A time \in 0 .. MaxBoots : time \notin NotJSON
  /\ {MaxBoots, MaxCommands} \subseteq Nat

VARIABLES
  daemon,  \* where the launch is
  miner    \* addrMiner

daemonVars == <<daemon, miner>>
dirVars == <<filesVars, creating, boots, stamping, networkVars, daemonVars>>

DirInit ==
  /\ FilesInit
  /\ WalletInit
  /\ UptimeInit
  /\ NetworkInit
  /\ daemon = "down"
  /\ miner = SystemMiner

----------------------------------------------------------------------------
(* RunNodeDaemon *)

Launch ==
  /\ daemon = "down"
  /\ boots < MaxBoots
  /\ boots' = boots + 1
  /\ stamping' = [stamping EXCEPT ![Daemon] = [at |-> "new", time |-> 0]]
  /\ daemon' = "stamp"
  /\ UNCHANGED <<filesVars, creating, networkVars, miner>>

RecordStartTime ==
  /\ daemon = "stamp"
  /\ Stamp(Daemon)
  /\ UNCHANGED <<creating, networkVars, daemonVars>>

(* A variant that takes the last account. *)
ChooseLastMiner ==
  /\ daemon = "stamp"
  /\ stamping[Daemon].at = "done"
  /\ miner' = IF LoadWallet = <<>> THEN SystemMiner ELSE LoadWallet[Len(LoadWallet)]
  /\ daemon' = "serve"
  /\ UNCHANGED <<filesVars, creating, boots, stamping, networkVars>>

ChooseMiner ==
  /\ daemon = "stamp"
  /\ stamping[Daemon].at = "done"
  /\ miner' = IF LoadWallet = <<>> THEN SystemMiner ELSE LoadWallet[1]
  /\ daemon' = "serve"
  /\ UNCHANGED <<filesVars, creating, boots, stamping, networkVars>>

StartServer ==
  /\ daemon = "serve"
  /\ NewServer
  /\ daemon' = "up"
  /\ UNCHANGED <<creating, boots, stamping, miner>>

Serve ==
  /\ daemon = "up"
  /\ NetworkStep
  /\ UNCHANGED <<creating, boots, stamping, daemonVars>>

Boot == RecordStartTime \/ ChooseMiner \/ StartServer

KillDaemon ==
  /\ daemon # "down"
  /\ daemon' = "down"
  /\ miner' = SystemMiner
  /\ StopServer
  /\ stamping' = [stamping EXCEPT ![Daemon] = [at |-> "dead", time |-> 0]]
  /\ End(Daemon, HalfWritten \cup (IF stamping[Daemon].at = "write" THEN {UptimeFile} ELSE {}))
  /\ UNCHANGED <<creating, boots>>

----------------------------------------------------------------------------

Started ==
  Cardinality({c \in Creators : creating[c].at # "new"})
    + Cardinality({s \in Asks : stamping[s].at # "new"})
    + Cardinality({a \in Adds : adding[a].at # "new"})

CreateCommand(c) ==
  /\ creating[c].at = "new" => Started < MaxCommands
  /\ Create(c) \/ KillCreate(c)
  /\ UNCHANGED <<boots, stamping, networkVars, daemonVars>>

UptimeCommand(s) ==
  /\ stamping[s].at = "new" => Started < MaxCommands
  /\ Stamp(s) \/ KillAsk(s)
  /\ UNCHANGED <<creating, networkVars, daemonVars>>

AddNodeCommand(a) ==
  /\ adding[a].at = "new" => Started < MaxCommands
  /\ AddNodeStep(a) \/ KillAddNode(a)
  /\ UNCHANGED <<creating, boots, stamping, peers, dialing, dump, daemonVars>>

DirNext ==
  \/ Launch \/ Boot \/ Serve \/ KillDaemon
  \/ \E c \in Creators : CreateCommand(c)
  \/ \E s \in Asks : UptimeCommand(s)
  \/ \E a \in Adds : AddNodeCommand(a)

DirSpec == DirInit /\ [][DirNext]_dirVars

(* The goroutines of a running daemon go on; who waits for am.mu gets it, as *)
(* Go's mutex hands itself over to a goroutine that has waited for long.     *)
DirLiveSpec ==
  /\ DirSpec
  /\ \A a \in Dials : SF_dirVars(Serve /\ Dial(a))
  /\ SF_dirVars(Serve /\ Dump)
  /\ WF_dirVars(Serve /\ SaveAccepted)

----------------------------------------------------------------------------
(* Properties *)

(* Every variable holds what the code's types allow. *)
DirTypeOK ==
  /\ DOMAIN content = Files
  /\ spoiled \subseteq Files
  /\ stale \subseteq Files \X (Creators \cup Stampers \cup Adds)
  /\ WalletTypeOK
  /\ UptimeTypeOK
  /\ NetworkTypeOK
  /\ daemon \in {"down", "stamp", "serve", "up"}
  /\ miner \in Creators \cup {SystemMiner}

(* The account a running daemon mines for is and stays the first of the      *)
(* wallet, whatever `create` adds meanwhile: whenever no `create` is between *)
(* truncation and write, the wallet is there and begins with it.             *)
MinerIsFirst ==
  (/\ Wallet \notin spoiled
   /\ miner # SystemMiner
   /\ \A c \in Creators : creating[c].at # "write")
    => LoadWallet # <<>> /\ LoadWallet[1] = miner

(* As long as the daemon's map is the one last read or written, the file     *)
(* holds it whenever nobody is about to write: nothing it has added is only  *)
(* in memory.                                                                *)
MapIsFiled ==
  (/\ daemon = "up"
   /\ AddrFile \notin spoiled
   /\ <<AddrFile, Daemon>> \notin stale
   /\ mu = Nobody
   /\ \A a \in Adds : adding[a].at # "write")
    => LoadFromDisk = addresses

(* A peer the daemon connected to appears in peers.json, which `peers`       *)
(* shows: two lists, behind two mutexes, are dumped in turn.                 *)
ConnectionShown ==
  \A a \in Dials :
    dialing[a] = "add" ~> (daemon = "down" \/ (Readable(PeersFile) /\ a \in content[PeersFile]))

=============================================================================
