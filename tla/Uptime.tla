------------------------------- MODULE Uptime -------------------------------
(***************************************************************************)
(* uptime.json: RecordStartTime of the booting daemon and GetUptime of the *)
(* `uptime` command both create it if it is missing, and only then: a      *)
(* restart does not stamp it anew, whatever the comment at uptime.go:57    *)
(* says.  Times are counted in launches of the daemon.                     *)
(***************************************************************************)
EXTENDS DataFiles, Naturals

CONSTANT Asks  \* runs of `uptime`

Stampers == Asks \cup {Daemon}

VARIABLES
  boots,     \* the time
  stamping   \* where each stamper is, and its record.StartTime

HaveChecked == {s \in Stampers : stamping[s].at \in {"create", "write"}}

UptimeInit ==
  /\ boots = 0
  /\ stamping = [s \in Stampers |-> [at |-> "new", time |-> 0]]

(* Any file will do, one that does not parse included. *)
CheckRecord(s) ==
  /\ stamping[s].at = "new"
  /\ stamping' = [stamping EXCEPT ![s] =
                    IF content[UptimeFile] = Missing
                    THEN [at |-> "create", time |-> boots]
                    ELSE [at |-> "done", time |-> 0]]
  /\ ReadFile(UptimeFile, s)
  /\ UNCHANGED boots

CreateRecord(s) ==
  /\ stamping[s].at = "create"
  /\ stamping' = [stamping EXCEPT ![s].at = "write"]
  /\ Truncate(UptimeFile, s)
  /\ UNCHANGED boots

(* A variant that does not wait for the write. *)
WriteRecordLost(s) ==
  /\ stamping[s].at = "write"
  /\ stamping' = [stamping EXCEPT ![s].at = "done"]
  /\ UNCHANGED <<filesVars, boots>>

(* A variant whose records differ in length. *)
WriteRecordUnpadded(s) ==
  /\ stamping[s].at = "write"
  /\ stamping' = [stamping EXCEPT ![s] = [at |-> "done", time |-> 0]]
  /\ Write(UptimeFile, s,
           {stamping[s].time} \cup (IF Readable(UptimeFile) THEN {Torn} ELSE {}), HaveChecked)
  /\ UNCHANGED boots

(* All records take the same room.  An error is ignored. *)
WriteRecord(s) ==
  /\ stamping[s].at = "write"
  /\ stamping' = [stamping EXCEPT ![s] = [at |-> "done", time |-> 0]]
  /\ \/ Write(UptimeFile, s, {stamping[s].time}, HaveChecked)
     \/ WriteFails(UptimeFile)
  /\ UNCHANGED boots

KillAsk(s) ==
  /\ s \in HaveChecked
  /\ stamping' = [stamping EXCEPT ![s] = [at |-> "dead", time |-> 0]]
  /\ End(s, IF stamping[s].at = "write" THEN {UptimeFile} ELSE {})
  /\ UNCHANGED boots

Stamp(s) == CheckRecord(s) \/ CreateRecord(s) \/ WriteRecord(s)

----------------------------------------------------------------------------

UptimeTypeOK ==
  /\ boots \in Nat
  /\ content[UptimeFile] \in {Missing, Empty} \cup (0 .. boots)
  /\ stamping \in [Stampers -> [at : {"new", "create", "write", "done", "dead"},
                                time : 0 .. boots]]

(* Whoever has asked for the uptime or has booted leaves a time behind in    *)
(* the file, which a restart then counts from, unless a process ended        *)
(* between truncation and write or the write failed: then every uptime is    *)
(* counted from 1970.                                                        *)
UptimeRecorded ==
  (\E s \in Stampers : stamping[s].at = "done") =>
    \/ Readable(UptimeFile)
    \/ UptimeFile \in spoiled
    \/ \E s \in Stampers : stamping[s].at = "write"

=============================================================================
