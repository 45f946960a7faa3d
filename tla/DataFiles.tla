------------------------------ MODULE DataFiles ------------------------------
(***************************************************************************)
(* The JSON files in ~/.xcosh beside the database and mempool.json (module *)
(* Node): what commands and the daemon read, extend in memory and write    *)
(* back with os.WriteFile, without a lock between processes.               *)
(*                                                                         *)
(* os.WriteFile opens the file for writing, which creates or empties it,   *)
(* and then writes it.  Each half is a step.                               *)
(***************************************************************************)

CONSTANTS
  Missing,     \* content of a file that does not exist
  Empty, Torn, \* contents that are no JSON: no byte; two writes mixed up
  Daemon       \* the process that runs `node`

ASSUME DataFilesAssumption == Missing # Empty /\ Missing # Torn /\ Empty # Torn

Wallet == "wallet.dat"
UptimeFile == "uptime.json"
AddrFile == "peers_addrman.json"
PeersFile == "peers.json"

Files == {Wallet, UptimeFile, AddrFile, PeersFile}

NotJSON == {Missing, Empty, Torn}

VARIABLES
  content,  \* [Files -> contents]
  (* history, for the properties *)
  stale,    \* <<file, process>>: it was written since the process read it
  spoiled   \* files with a write of a stale process, or one cut short or failed

filesVars == <<content, stale, spoiled>>

FilesInit ==
  /\ content = [f \in Files |-> Missing]
  /\ stale = {}
  /\ spoiled = {}

Readable(f) == content[f] \notin NotJSON

(* os.ReadFile; what was read goes into the process's own variables. *)
ReadFile(f, process) ==
  /\ stale' = stale \ {<<f, process>>}
  /\ UNCHANGED <<content, spoiled>>

SpoiledBy(f, process) == IF <<f, process>> \in stale THEN spoiled \cup {f} ELSE spoiled

(* os.WriteFile: O_TRUNC ... *)
Truncate(f, process) ==
  /\ content' = [content EXCEPT ![f] = Empty]
  /\ spoiled' = SpoiledBy(f, process)
  /\ UNCHANGED stale

(* ... and the write, after which the others that have read the file hold an *)
(* older content.                                                            *)
Write(f, process, outcomes, readers) ==
  /\ \E after \in outcomes : content' = [content EXCEPT ![f] = after]
  /\ spoiled' = SpoiledBy(f, process)
  /\ stale' = (stale \cup {<<f, other>> : other \in readers}) \ {<<f, process>>}

(* ... or nothing is written, on a full disk, and the process goes on: the   *)
(* callers that use it drop the error.                                       *)
WriteFails(f) ==
  /\ spoiled' = spoiled \cup {f}
  /\ UNCHANGED <<content, stale>>

(* A process ends, after the first half of writing `files`. *)
End(process, files) ==
  /\ spoiled' = spoiled \cup files
  /\ stale' = {s \in stale : s[2] # process}
  /\ UNCHANGED content

=============================================================================
