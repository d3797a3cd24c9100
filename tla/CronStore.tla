----------------------------- MODULE CronStore -----------------------------
(***************************************************************************)
(* cron.Store (internal/core/cron/store.go): SaveJobs writes jobs.json     *)
(* through a temporary file and keeps the previous one as a backup while   *)
(* it swaps them; LoadJobs reads jobs.json.  Every file operation is a     *)
(* step: it can fail, and the process can be killed between two steps.     *)
(* A saved list of jobs is known by its version.  No name is one of        *)
(* CronService, whose step SaveJobs is what these steps do together.       *)
(***************************************************************************)
EXTENDS Naturals

CONSTANTS NoFile, Torn,  \* a missing file; a file written in part
          MaxVersion,    \* bound: calls of SaveJobs
          MaxFaults,     \* bound: file operations that fail
          MaxKills       \* bound: how often the process is killed

ASSUME CronStoreAssumption ==
  /\ NoFile \notin Nat /\ Torn \notin Nat /\ NoFile # Torn
  /\ MaxVersion \in Nat /\ MaxFaults \in Nat /\ MaxKills \in Nat

VARIABLES
  file,     \* file[f]: the content of jobs.json, jobs.json.tmp and jobs.json.bak
  step,     \* where SaveJobs is; "down" when the process is not running
  version,  \* the list SaveJobs is saving, or saved last
  acked,    \* the last list for which SaveJobs returned nil
  faults, kills

storeVars == <<file, step, version, acked, faults, kills>>

Files == {"main", "tmp", "bak"}
Steps == {"idle", "writing", "written", "unbacked", "backed", "restoring", "renamed", "down"}
Content == 1..MaxVersion \cup {NoFile, Torn}

StoreTypeOK ==
  /\ file \in [Files -> Content]
  /\ step \in Steps
  /\ version \in 0..MaxVersion /\ acked \in 0..version
  /\ faults \in 0..MaxFaults /\ kills \in 0..MaxKills

StoreInit ==
  /\ file = [f \in Files |-> NoFile]
  /\ step = "down"
  /\ version = 0 /\ acked = 0
  /\ faults = 0 /\ kills = 0

-----------------------------------------------------------------------------
\* The operating system: rename replaces its target, a missing source is an error.
Rename(f, g) == [file EXCEPT ![g] = file[f], ![f] = NoFile]
Remove(f) == [file EXCEPT ![f] = NoFile]
CanFail == faults < MaxFaults

StepTo(s) == step' = s /\ UNCHANGED <<version, acked, kills>>
Succeed == UNCHANGED faults
Fail == CanFail /\ faults' = faults + 1 /\ UNCHANGED file

-----------------------------------------------------------------------------
(* SaveJobs.                                                               *)
BeginSave ==
  /\ step = "idle" /\ version < MaxVersion
  /\ version' = version + 1
  /\ step' = "writing"
  /\ file' = [file EXCEPT !["tmp"] = Torn]
  /\ UNCHANGED <<acked, faults, kills>>

WriteInPlace ==  \* mutant: the complete list goes to jobs.json first
  /\ step = "writing"
  /\ \/ Succeed /\ file' = [file EXCEPT !["tmp"] = version, !["main"] = Torn] /\ StepTo("written")
     \/ CanFail /\ faults' = faults + 1 /\ UNCHANGED file /\ StepTo("idle")

WriteTmp ==
  /\ step = "writing"
  /\ \/ Succeed /\ file' = [file EXCEPT !["tmp"] = version] /\ StepTo("written")
     \/ Fail /\ StepTo("idle")

RemoveOldBackup ==  \* only when jobs.json exists; the result is ignored
  /\ step = "written"
  /\ IF file["main"] = NoFile
     THEN Succeed /\ UNCHANGED file /\ StepTo("backed")
     ELSE ((Succeed /\ file' = Remove("bak")) \/ Fail) /\ StepTo("unbacked")

BackupByRemoving ==  \* mutant: removes the old list instead of keeping it
  /\ step = "unbacked"
  /\ (Succeed /\ file' = Remove("main")) \/ Fail
  /\ StepTo("backed")

Backup ==  \* the result is ignored
  /\ step = "unbacked"
  /\ (Succeed /\ file' = Rename("main", "bak")) \/ Fail
  /\ StepTo("backed")

Swap ==
  /\ step = "backed"
  /\ \/ Succeed /\ file' = Rename("tmp", "main") /\ StepTo("renamed")
     \/ Fail /\ StepTo("restoring")

Restore ==
  /\ step = "restoring"
  /\ (Succeed /\ file' = IF file["bak"] = NoFile THEN file ELSE Rename("bak", "main")) \/ Fail
  /\ StepTo("idle")

DropBackupAckNext ==  \* mutant: off by one in the version it acknowledges
  /\ step = "renamed"
  /\ (Succeed /\ file' = Remove("bak")) \/ Fail
  /\ step' = "idle" /\ acked' = version + 1
  /\ UNCHANGED <<version, kills>>

DropBackup ==
  /\ step = "renamed"
  /\ (Succeed /\ file' = Remove("bak")) \/ Fail
  /\ step' = "idle" /\ acked' = version
  /\ UNCHANGED <<version, kills>>

-----------------------------------------------------------------------------
Kill ==
  /\ step # "down" /\ kills < MaxKills
  /\ kills' = kills + 1
  /\ step' = "down"
  /\ UNCHANGED <<file, version, acked, faults>>

\* NewService: LoadJobs reads jobs.json; no file is an empty list, a file that
\* does not parse is an error and there is no service.
LoadJobs ==
  /\ step = "down" /\ file["main"] # Torn
  /\ step' = "idle"
  /\ UNCHANGED <<file, version, acked, faults, kills>>

StoreNext == \/ BeginSave \/ WriteTmp \/ RemoveOldBackup \/ Backup \/ Swap \/ Restore \/ DropBackup
             \/ Kill \/ LoadJobs

StoreSpec == StoreInit /\ [][StoreNext]_storeVars

-----------------------------------------------------------------------------
\* jobs.json is never a file that does not parse: a new process can start
\* whenever the old one was killed.  Unless more than two operations failed, it is
\* not an outdated list either: if there is a jobs.json, it is the list saved last
\* or one handed to SaveJobs since (SaveJobs, 43-62; LoadJobs, 80-83).  A SaveJobs
\* that fails leaves it with the list saved before (54-59), as long as it is the
\* only operation to fail.
AlwaysLoads ==
  /\ file["main"] # Torn
  /\ faults <= 2 => file["main"] \in acked..version \cup {NoFile}
  /\ step = "idle" /\ kills = 0 /\ faults <= 1 /\ acked > 0 => file["main"] = acked

\* The list saved last, or one handed to SaveJobs since, is complete in jobs.json
\* or its backup, unless more than two operations failed, wherever the process was
\* killed (SaveJobs, 48-62).  LoadJobs reads jobs.json alone: a process started
\* between the two renames begins with no jobs although the backup has them.
Recoverable == acked > 0 /\ faults <= 2 => \E f \in {"main", "bak"} : file[f] \in acked..version
=============================================================================
