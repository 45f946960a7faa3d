------------------------------- MODULE Network -------------------------------
(***************************************************************************)
(* The P2P server of a running daemon as far as it handles addresses:      *)
(* goroutines that dial peers, the goroutine that accepts connections, and *)
(* the one that dumps both lists every two seconds.  What connections      *)
(* carry is in module Node.                                                *)
(***************************************************************************)
EXTENDS AddrMan

CONSTANTS
  Dials,    \* what AutoDiscoverAndConnect dials: --connect, or seeds and DNS
  Inbound,  \* addresses peers connect from
  Listener  \* the goroutine that accepts

VARIABLES
  peers,    \* keys of Server.Peers
  dialing,  \* where the goroutine of each dialled address is
  dump      \* where the dumping goroutine is, and its list

networkVars == <<addrVars, peers, dialing, dump>>

Sleeping == [at |-> "sleep", list |-> {}]

NetworkInit ==
  /\ AddrInit
  /\ peers = {}
  /\ dialing = [a \in Dials |-> "dial"]
  /\ dump = Sleeping

NewServer ==
  /\ NewAddrManager
  /\ peers' = {}
  /\ dialing' = [a \in Dials |-> "dial"]
  /\ dump' = Sleeping

(* ConnectToPeer: net.Dial fails, which is not tried again, ... *)
DialFails(a) ==
  /\ dialing[a] = "dial"
  /\ dialing' = [dialing EXCEPT ![a] = "failed"]
  /\ UNCHANGED <<filesVars, addrVars, peers, dump>>

(* ... or the connection goes into the table, which it leaves only when a    *)
(* Broadcast fails, and nothing calls Broadcast, ...                         *)
DialSucceeds(a) ==
  /\ dialing[a] = "dial"
  /\ peers' = peers \cup {a}
  /\ dialing' = [dialing EXCEPT ![a] = "add"]
  /\ UNCHANGED <<filesVars, addrVars, dump>>

(* ... and the address to the address manager. *)
AddDialled(a) ==
  /\ dialing[a] = "add"
  /\ AddAddress(a, a)
  /\ dialing' = [dialing EXCEPT ![a] = "save"]
  /\ UNCHANGED <<peers, dump>>

SaveDialled(a) ==
  /\ dialing[a] = "save"
  /\ SaveToDisk(a)
  /\ dialing' = [dialing EXCEPT ![a] = "done"]
  /\ UNCHANGED <<peers, dump>>

(* StartListening: the next connection is accepted when AddAddress returns. *)
Accept ==
  /\ \E a \in Inbound : AddAddress(Listener, a)
  /\ UNCHANGED <<peers, dialing, dump>>

SaveAccepted ==
  /\ SaveToDisk(Listener)
  /\ UNCHANGED <<peers, dialing, dump>>

(* A variant that dumps the list it began with. *)
DumpFirstPeers ==
  /\ dump.at = "sleep"
  /\ dump' = [at |-> "peers", list |-> dump.list]
  /\ Truncate(PeersFile, Daemon)
  /\ UNCHANGED <<addrVars, peers, dialing>>

(* The dump: GetPeerList and peers.json, ... *)
DumpPeers ==
  /\ dump.at = "sleep"
  /\ dump' = [at |-> "peers", list |-> peers]
  /\ Truncate(PeersFile, Daemon)
  /\ UNCHANGED <<addrVars, peers, dialing>>

WritePeers ==
  /\ dump.at = "peers"
  /\ dump' = [at |-> "addresses", list |-> {}]
  /\ Write(PeersFile, Daemon, {dump.list}, {})
  /\ UNCHANGED <<addrVars, peers, dialing>>

(* ... then GetKnownAddresses, under am.mu, for addrman_peers.json, which    *)
(* nothing reads and the model leaves out.                                   *)
DumpAddresses ==
  /\ dump.at = "addresses"
  /\ mu = Nobody
  /\ dump' = Sleeping
  /\ UNCHANGED <<filesVars, addrVars, peers, dialing>>

Dial(a) == DialFails(a) \/ DialSucceeds(a) \/ AddDialled(a) \/ SaveDialled(a)
Dump == DumpPeers \/ WritePeers \/ DumpAddresses

NetworkStep == (\E a \in Dials : Dial(a)) \/ Accept \/ SaveAccepted \/ Dump

(* The daemon's goroutines end with it, wherever they are. *)
StopServer ==
  /\ serving' = FALSE
  /\ addresses' = {}
  /\ mu' = Nobody
  /\ peers' = {}
  /\ dialing' = [a \in Dials |-> "dial"]
  /\ dump' = Sleeping
  /\ UNCHANGED adding

(* The files they leave truncated. *)
HalfWritten ==
  (IF mu # Nobody THEN {AddrFile} ELSE {}) \cup (IF dump.at = "peers" THEN {PeersFile} ELSE {})

----------------------------------------------------------------------------

NetworkTypeOK ==
  /\ serving \in BOOLEAN
  /\ addresses \subseteq Addresses
  /\ content[AddrFile] \in NotJSON \cup SUBSET Addresses
  /\ adding \in [Adds -> [at : {"new", "truncate", "write", "done", "dead"},
                          addresses : SUBSET Addresses]]
  /\ mu \in Dials \cup {Listener, Nobody}
  /\ peers \subseteq Dials
  /\ dialing \in [Dials -> {"dial", "failed", "add", "save", "done"}]
  /\ dump \in [at : {"sleep", "peers", "addresses"}, list : SUBSET Dials]
  /\ content[PeersFile] \in {Missing, Empty} \cup SUBSET Dials

=============================================================================
