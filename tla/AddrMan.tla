------------------------------- MODULE AddrMan -------------------------------
(***************************************************************************)
(* The address manager: a map of peers' addresses that is loaded once and  *)
(* written to peers_addrman.json by every AddAddress.  The daemon has one, *)
(* whose mutex its goroutines share; each run of `addnode` has its own.    *)
(* An address stands for its key in the map.                               *)
(***************************************************************************)
EXTENDS DataFiles

CONSTANTS
  Addresses,
  Adds,    \* runs of `addnode`: the addresses they are given
  Nobody

VARIABLES
  serving,    \* the daemon has its address manager
  addresses,  \* am.Addresses of the daemon
  mu,         \* the goroutine that holds am.mu, or Nobody
  adding      \* where each `addnode` is, and its am.Addresses

addrVars == <<serving, addresses, mu, adding>>

LoadFromDisk == IF Readable(AddrFile) THEN content[AddrFile] ELSE {}

(* Entries differ in length, with the host and the digits of last_seen:      *)
(* writing over another process's data may or may not cover it.              *)
SaveOutcomes(old, new) == IF old = Empty THEN {new} ELSE {new, Torn}

MapHolders ==
  {a \in Adds : adding[a].at \in {"truncate", "write"}} \cup (IF serving THEN {Daemon} ELSE {})

AddrInit ==
  /\ serving = FALSE
  /\ addresses = {}
  /\ mu = Nobody
  /\ adding = [a \in Adds |-> [at |-> "new", addresses |-> {}]]

(* HandleAddNode: NewAddrManager and the beginning of AddAddress. *)
AddNode(a) ==
  /\ adding[a].at = "new"
  /\ adding' = [adding EXCEPT ![a] = [at |-> "truncate", addresses |-> LoadFromDisk \cup {a}]]
  /\ ReadFile(AddrFile, a)
  /\ UNCHANGED <<serving, addresses, mu>>

AddNodeTruncate(a) ==
  /\ adding[a].at = "truncate"
  /\ adding' = [adding EXCEPT ![a].at = "write"]
  /\ Truncate(AddrFile, a)
  /\ UNCHANGED <<serving, addresses, mu>>

(* The user is told that the address was added, if the write fails, too. *)
AddNodeWrite(a) ==
  /\ adding[a].at = "write"
  /\ adding' = [adding EXCEPT ![a] = [at |-> "done", addresses |-> {}]]
  /\ \/ Write(AddrFile, a, SaveOutcomes(content[AddrFile], adding[a].addresses), MapHolders)
     \/ WriteFails(AddrFile)
  /\ UNCHANGED <<serving, addresses, mu>>

KillAddNode(a) ==
  /\ adding[a].at \in {"truncate", "write"}
  /\ adding' = [adding EXCEPT ![a] = [at |-> "dead", addresses |-> {}]]
  /\ End(a, IF adding[a].at = "write" THEN {AddrFile} ELSE {})
  /\ UNCHANGED <<serving, addresses, mu>>

AddNodeStep(a) == AddNode(a) \/ AddNodeTruncate(a) \/ AddNodeWrite(a)

(* A variant that starts with an empty map. *)
NewAddrManagerEmpty ==
  /\ serving' = TRUE
  /\ addresses' = {}
  /\ mu' = Nobody
  /\ ReadFile(AddrFile, Daemon)
  /\ UNCHANGED adding

(* NewAddrManager of the booting daemon. *)
NewAddrManager ==
  /\ serving' = TRUE
  /\ addresses' = LoadFromDisk
  /\ mu' = Nobody
  /\ ReadFile(AddrFile, Daemon)
  /\ UNCHANGED adding

(* A variant that takes the mutex for the map only, not for the file. *)
AddAddressUnlocked(g, a) ==
  /\ mu = Nobody
  /\ addresses' = addresses \cup {a}
  /\ Truncate(AddrFile, Daemon)
  /\ UNCHANGED <<serving, mu, adding>>

(* AddAddress of goroutine g: the mutex, the map ... *)
AddAddress(g, a) ==
  /\ mu = Nobody
  /\ mu' = g
  /\ addresses' = addresses \cup {a}
  /\ Truncate(AddrFile, Daemon)
  /\ UNCHANGED <<serving, adding>>

(* ... and SaveToDisk, still under the mutex, whose error is ignored. *)
SaveToDisk(g) ==
  /\ mu = g
  /\ mu' = Nobody
  /\ \/ Write(AddrFile, Daemon, SaveOutcomes(content[AddrFile], addresses), MapHolders)
     \/ WriteFails(AddrFile)
  /\ UNCHANGED <<serving, addresses, adding>>

----------------------------------------------------------------------------

(* The addresses in the file, or in what is about to be written to it. *)
Filed ==
  LoadFromDisk \cup (IF mu # Nobody THEN addresses ELSE {})
    \cup UNION {adding[a].addresses : a \in {a \in Adds : adding[a].at = "write"}}

(* An address `addnode` has reported as added stays in the file, beside a    *)
(* running daemon too, until a process writes back a map that it loaded      *)
(* before another one's write, ends between truncation and write, or fails   *)
(* to write.                                                                 *)
AddedKept ==
  AddrFile \notin spoiled => \A a \in Adds : adding[a].at = "done" => a \in Filed

=============================================================================
