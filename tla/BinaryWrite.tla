------------------------------ MODULE BinaryWrite ------------------------------
(***************************************************************************)
(* How the installer replaces one program file (src/src/download.rs), and  *)
(* how the rest of the program takes that replacement back: the record     *)
(* note_binary_written leaves for the rollback, the two file arms of       *)
(* undo_install_action, the clean-up after a commit, and the uninstall     *)
(* sweep of what an interrupted run left beside the file.                  *)
(*                                                                         *)
(* A run is a sequence of file-system calls, each of which may fail, and   *)
(* the process may die between any two of them.  Runs follow each other:   *)
(* the files of a dead run, and the replacements the operating system owes *)
(* at the next reboot, outlive it, and a later process may get its pid.    *)
(***************************************************************************)
EXTENDS Naturals, Sequences

CONSTANTS Pids,         \* process ids the operating system may hand out
          MaxVersion,   \* versions the release channel ever offers: 1..MaxVersion
          Hosts,        \* the hosts considered: those that are Windows, those that are not
          ForceReinstall         \* TRUE: runs are given --force-reinstall

ASSUME PidsAssumption == Pids # {}
ASSUME VersionAssumption == MaxVersion \in Nat \ {0}
ASSUME FlagAssumption == Hosts \subseteq BOOLEAN /\ ForceReinstall \in BOOLEAN

(* What a path may hold: nothing, a whole release, part of one (or all its *)
(* bytes without the execute permission), or an entry that is not a        *)
(* regular file, such as a symlink.                                        *)
Absent   == 0
Versions == 1..MaxVersion
Torn     == MaxVersion + 1
Planted  == MaxVersion + 2
Regular  == Versions \cup {Torn}
Content  == Regular \cup {Absent, Planted}

VARIABLES
  windows,   \* TRUE: a running image cannot be unlinked or replaced
  dest,      \* the program file
  running,   \* TRUE: a process started from dest is alive
  backup,    \* backup[p]: the file  .<name>.dig-bak-<p>
  staging,   \* staging[p]: the file .<name>.pending-<p>
  renames,   \* pids whose staging file the next reboot moves onto dest, in order
  pc,        \* where the current run is
  pid, new,  \* its process id and the release it installs
  held,      \* TRUE: it holds a backup (replaced_backup is Some)
  recorded,  \* what it told the rollback guard
  prior,     \* history: what dest held when it began
  result     \* how the last run ended

files == <<dest, backup, staging, renames>>
run   == <<pid, new, held, recorded, prior>>
vars  == <<windows, dest, running, backup, staging, renames, pc, pid, new, held,
           recorded, prior, result>>

Phases  == {"idle", "fetch", "backup", "copying", "adopting", "unlink", "probe",
            "create", "fill", "hardError", "dropBackup", "stage", "staging",
            "adoptStaged", "schedule", "written", "cleanup", "undo"}
Records == {"none", "FileCreated", "FileReplaced", "StagingCreated"}
Results == {"none", "running", "committed", "failed", "rolledBack",
            "undoFailed", "crashed", "uninstalled"}

TypeOK ==
  /\ dest \in Content /\ prior \in Content
  /\ backup \in [Pids -> Content] /\ staging \in [Pids -> Content]
  /\ renames \in Seq(Pids)
  /\ windows \in BOOLEAN /\ running \in BOOLEAN /\ held \in BOOLEAN
  /\ pc \in Phases /\ recorded \in Records /\ result \in Results
  /\ pid \in Pids /\ new \in Versions

Init ==
  /\ windows \in Hosts
  /\ dest \in Content \ {Torn}
  /\ backup = [p \in Pids |-> Absent] /\ staging = [p \in Pids |-> Absent]
  /\ renames = <<>> /\ running = FALSE
  /\ pc = "idle" /\ pid \in Pids /\ new = 1
  /\ held = FALSE /\ recorded = "none" /\ prior = dest /\ result = "none"

(* A run goes from phase a to phase b without ending. *)
Goto(a, b) == pc = a /\ pc' = b /\ UNCHANGED <<windows, result>>

(* A run leaves phase a and ends with result r. *)
End(a, r) == pc = a /\ pc' = "idle" /\ result' = r /\ UNCHANGED windows

---------------------------------------------------------------------------
(* apply_update_decision: anything but a release is (re)installed, a       *)
(* release only for a newer one, or for any under --force-reinstall.       *)
Wanted(v) == ForceReinstall \/ dest \notin Versions \/ dest < v

(* A pid may come back, with the files its last owner left.  A bound of    *)
(* this module: not while a replacement it queued is still pending, for    *)
(* RollbackIsFinal then takes one run's queued replacement for another's.  *)
Queued == {renames[i] : i \in DOMAIN renames}

Begin(p, v) ==
  /\ pc = "idle" /\ Wanted(v) /\ p \notin Queued
  /\ pc' = "fetch" /\ result' = "running"
  /\ pid' = p /\ new' = v /\ held' = FALSE /\ recorded' = "none" /\ prior' = dest
  /\ UNCHANGED <<windows, files, running>>

(* download_binary up to replace_binary: fetch, digest, destination        *)
(* directory.  Nothing is touched before all three succeed.                *)
Fetch ==
  /\ Goto("fetch", "backup") \/ End("fetch", "failed")
  /\ UNCHANGED <<files, running, run>>

(* back_up_existing.  An absent or non-regular dest needs no backup; a     *)
(* stat that fails, a copy that fails, or an adoption that fails ends the  *)
(* run before dest is touched.  A failed copy may leave part of a file.    *)
NothingToBackUp ==
  /\ dest \notin Regular /\ Goto("backup", "unlink")
  /\ UNCHANGED <<files, running, run>>

StatFails == End("backup", "failed") /\ UNCHANGED <<files, running, run>>

StartCopy ==
  /\ dest \in Regular /\ Goto("backup", "copying")
  /\ backup' = [backup EXCEPT ![pid] = Torn]
  /\ UNCHANGED <<dest, staging, renames, running, run>>

FinishCopy ==
  \/ /\ Goto("copying", "adopting")
     /\ backup' = [backup EXCEPT ![pid] = dest]
     /\ UNCHANGED <<dest, staging, renames, running, run>>
  \/ End("copying", "failed") /\ UNCHANGED <<files, running, run>>

AdoptBackup ==
  \/ /\ Goto("adopting", "unlink") /\ held' = TRUE
     /\ UNCHANGED <<files, running, pid, new, recorded, prior>>
  \/ /\ End("adopting", "failed")
     /\ \/ backup' = [backup EXCEPT ![pid] = Absent]
        \/ UNCHANGED backup
     /\ UNCHANGED <<dest, staging, renames, running, run>>

BackUp == NothingToBackUp \/ StatFails \/ StartCopy \/ FinishCopy \/ AdoptBackup

(* write_without_following_a_symlink: unlink, create anew, fill.  Windows  *)
(* refuses to unlink a running image, with ERROR_SHARING_VIOLATION or with *)
(* ERROR_ACCESS_DENIED; the latter is looked at again by                   *)
(* destination_is_a_running_image, when the image may have stopped.        *)
Unlinkable == ~(windows /\ running)

Unlink ==
  \/ /\ Unlinkable /\ Goto("unlink", "create") /\ dest' = Absent
     /\ UNCHANGED <<backup, staging, renames, running, run>>
  \/ /\ ~Unlinkable /\ Goto("unlink", "dropBackup")
     /\ UNCHANGED <<files, running, run>>
  \/ windows /\ Goto("unlink", "probe") /\ UNCHANGED <<files, running, run>>
  \/ ~windows /\ Goto("unlink", "hardError") /\ UNCHANGED <<files, running, run>>

Probe ==
  /\ Goto("probe", IF running THEN "dropBackup" ELSE "hardError")
  /\ UNCHANGED <<files, running, run>>

(* Mutant: a write-time error counted as a sharing violation. *)
CreateStagesOnAnyError ==
  \/ /\ Goto("create", "fill") /\ dest' = Torn
     /\ UNCHANGED <<backup, staging, renames, running, run>>
  \/ Goto("create", "dropBackup") /\ UNCHANGED <<files, running, run>>

Create ==
  \/ /\ Goto("create", "fill") /\ dest' = Torn
     /\ UNCHANGED <<backup, staging, renames, running, run>>
  \/ Goto("create", "hardError") /\ UNCHANGED <<files, running, run>>

(* Mutant: every write recorded as a file the run created. *)
FillForgetsBackup ==
  \/ /\ Goto("fill", "written") /\ dest' = new /\ recorded' = "FileCreated"
     /\ UNCHANGED <<backup, staging, renames, running, pid, new, held, prior>>
  \/ Goto("fill", "hardError") /\ UNCHANGED <<files, running, run>>

(* note_binary_written follows a write that succeeded. *)
Fill ==
  \/ /\ Goto("fill", "written") /\ dest' = new
     /\ recorded' = IF held THEN "FileReplaced" ELSE "FileCreated"
     /\ UNCHANGED <<backup, staging, renames, running, pid, new, held, prior>>
  \/ Goto("fill", "hardError") /\ UNCHANGED <<files, running, run>>

Write == Unlink \/ Probe \/ Create \/ Fill

(* Mutant: a failed write drops its backup without looking at dest. *)
HardErrorDropsBackup ==
  /\ End("hardError", "failed")
  /\ backup' = IF held THEN [backup EXCEPT ![pid] = Absent] ELSE backup
  /\ UNCHANGED <<dest, staging, renames, running, run>>

(* The arm of replace_binary_with for every other error: a backup is put   *)
(* back if dest is gone and dropped if it is not; neither call is checked. *)
HardError ==
  /\ End("hardError", "failed")
  /\ \/ UNCHANGED <<dest, backup>>
     \/ /\ held /\ dest = Absent
        /\ dest' = backup[pid] /\ backup' = [backup EXCEPT ![pid] = Absent]
     \/ /\ held /\ dest # Absent
        /\ UNCHANGED dest /\ backup' = [backup EXCEPT ![pid] = Absent]
  /\ UNCHANGED <<staging, renames, running, run>>

(* The other arm: dest is a running image.  The backup is dropped, the new *)
(* bytes go to a staging file, which is adopted and queued for the reboot. *)
DropBackup ==
  /\ Goto("dropBackup", "stage") /\ held' = FALSE
  /\ \/ UNCHANGED backup
     \/ held /\ backup' = [backup EXCEPT ![pid] = Absent]
  /\ UNCHANGED <<dest, staging, renames, running, pid, new, recorded, prior>>

Stage ==
  \/ /\ Goto("stage", "staging") /\ staging' = [staging EXCEPT ![pid] = Torn]
     /\ UNCHANGED <<dest, backup, renames, running, run>>
  \/ /\ Goto("staging", "adoptStaged") /\ staging' = [staging EXCEPT ![pid] = new]
     /\ UNCHANGED <<dest, backup, renames, running, run>>
  \/ /\ End("stage", "failed") \/ End("staging", "failed")
     /\ UNCHANGED <<files, running, run>>

AdoptStaged ==
  /\ Goto("adoptStaged", "schedule") \/ End("adoptStaged", "failed")
  /\ UNCHANGED <<files, running, run>>

Schedule ==
  \/ /\ Goto("schedule", "written")
     /\ renames' = Append(renames, pid) /\ recorded' = "StagingCreated"
     /\ UNCHANGED <<dest, backup, staging, running, pid, new, held, prior>>
  \/ /\ End("schedule", "failed")
     /\ \/ staging' = [staging EXCEPT ![pid] = Absent]
        \/ UNCHANGED staging
     /\ UNCHANGED <<dest, backup, renames, running, run>>

ScheduleReplaceOnReboot == DropBackup \/ Stage \/ AdoptStaged \/ Schedule

---------------------------------------------------------------------------
(* The rest of the run either succeeds, and cleanup_committed_backups      *)
(* deletes the backup if it can, or fails, and the guard undoes the record.*)
Commit == Goto("written", "cleanup") /\ UNCHANGED <<files, running, run>>

CleanUp ==
  /\ End("cleanup", "committed")
  /\ \/ UNCHANGED backup
     \/ recorded = "FileReplaced" /\ backup' = [backup EXCEPT ![pid] = Absent]
  /\ UNCHANGED <<dest, staging, renames, running, run>>

(* Mutant: the failed step is retried in a phase nothing leaves. *)
LaterStepRetries == Goto("written", "retry") /\ UNCHANGED <<files, running, run>>

LaterStepFails == Goto("written", "undo") /\ UNCHANGED <<files, running, run>>

UndoCreated ==
  /\ recorded = "FileCreated" /\ Unlinkable /\ End("undo", "rolledBack")
  /\ dest' = Absent /\ UNCHANGED <<backup, staging, renames, running, run>>

UndoReplaced ==
  /\ recorded = "FileReplaced" /\ Unlinkable /\ backup[pid] # Absent
  /\ End("undo", "rolledBack")
  /\ dest' = backup[pid] /\ backup' = [backup EXCEPT ![pid] = Absent]
  /\ UNCHANGED <<staging, renames, running, run>>

UndoStaging ==
  /\ recorded = "StagingCreated" /\ End("undo", "rolledBack")
  /\ staging' = [staging EXCEPT ![pid] = Absent]
  /\ UNCHANGED <<dest, backup, renames, running, run>>

(* A missing backup, a locked image or an I/O error: the failure is noted  *)
(* and the file is left as it is.                                          *)
UndoFails == End("undo", "undoFailed") /\ UNCHANGED <<files, running, run>>

RollBack == UndoCreated \/ UndoReplaced \/ UndoStaging \/ UndoFails

---------------------------------------------------------------------------
(* The environment: the process dies, the program starts and stops, the    *)
(* machine restarts.                                                       *)
Crash ==
  /\ pc # "idle" /\ pc' = "idle" /\ result' = "crashed"
  /\ UNCHANGED <<windows, files, running, run>>

StartImage ==
  /\ dest \in Versions /\ running' = TRUE
  /\ UNCHANGED <<windows, files, pc, run, result>>

StopImage ==
  /\ running /\ running' = FALSE
  /\ UNCHANGED <<windows, files, pc, run, result>>

(* The queued moves happen in order and one whose source is gone does      *)
(* nothing, so the last that finds its source decides what dest holds.     *)
(* That is then what the host ought to have, unless the run that queued it *)
(* was rolled back.                                                        *)
Moves(i) == staging[renames[i]] # Absent

LastMove(i) ==
  /\ Moves(i) /\ \A j \in DOMAIN renames : Moves(j) => j <= i

Reboot ==
  /\ \/ /\ \A i \in DOMAIN renames : ~Moves(i)
        /\ UNCHANGED <<dest, prior>>
     \/ \E i \in DOMAIN renames :
          /\ LastMove(i) /\ dest' = staging[renames[i]]
          /\ prior' = IF renames[i] = pid /\ result = "rolledBack"
                      THEN prior ELSE dest'
  /\ staging' = [p \in Pids |-> IF p \in Queued THEN Absent ELSE staging[p]]
  /\ renames' = <<>> /\ running' = FALSE
  /\ pc' = "idle" /\ result' = IF pc = "idle" THEN result ELSE "crashed"
  /\ UNCHANGED <<windows, backup, pid, new, held, recorded>>

(* delete_binaries: the file (a dangling link is taken for absent), then   *)
(* what remove_interrupted_install_leftovers finds beside it.  Any         *)
(* deletion may fail; the uninstall then reports failure.                  *)
Delete == dest' = Absent \/ (dest = Planted /\ UNCHANGED dest)

(* Mutant: the sweep knows the backups' tag only. *)
SweepBackups(B, S) ==
  /\ backup' = [p \in Pids |-> IF p \in B THEN backup[p] ELSE Absent]
  /\ UNCHANGED staging

Sweep(B, S) ==
  /\ backup'  = [p \in Pids |-> IF p \in B THEN backup[p] ELSE Absent]
  /\ staging' = [p \in Pids |-> IF p \in S THEN staging[p] ELSE Absent]

Uninstall ==
  /\ pc = "idle"
  /\ \/ Unlinkable /\ Delete /\ Sweep({}, {}) /\ result' = "uninstalled"
     \/ /\ UNCHANGED dest \/ (Unlinkable /\ Delete)
        /\ \E B, S \in SUBSET Pids : Sweep(B, S)
        /\ result' = "none"
  /\ UNCHANGED <<windows, renames, running, pc, run>>

Environment == Crash \/ StartImage \/ StopImage \/ Reboot \/ Uninstall

Install ==
  \/ \E p \in Pids, v \in Versions : Begin(p, v)
  \/ Fetch \/ BackUp \/ Write \/ HardError \/ ScheduleReplaceOnReboot
  \/ Commit \/ CleanUp \/ LaterStepFails \/ RollBack

Next == Install \/ Environment

Spec == Init /\ [][Next]_vars

---------------------------------------------------------------------------
(* Until a run commits, and whatever ends it (a failed step, a failed      *)
(* undo, a crash, a restart), the program it found is at dest or in its    *)
(* backup.  The one exception is an installation that breaks off while     *)
(* the new file is being filled: replace_binary_with then sees a file at   *)
(* dest and drops the backup.                                              *)
Unsettled == result \in {"running", "failed", "undoFailed", "crashed"}

PriorRecoverable ==
  (Unsettled /\ prior \in Regular) =>
    \/ dest = prior
    \/ backup[pid] = prior
    \/ result = "failed" /\ dest = Torn

(* A rollback that reports success has put back what the run found, and no *)
(* later restart brings the new release back (undo_install_action).  An    *)
(* entry that was not a regular file is deliberately not put back.         *)
RollbackIsFinal ==
  (result = "rolledBack" /\ prior # Planted) => dest = prior

(* An update that was staged for the reboot has not touched the program    *)
(* that is running from dest: staging is never reached once dest has been  *)
(* unlinked (is_sharing_violation excludes write-time errors for this).    *)
StagedLeavesDest ==
  (recorded = "StagingCreated" /\ result \in {"running", "committed", "undoFailed"})
    => dest = prior

(* A complete uninstall is not undone by a restart: no queued replacement  *)
(* finds its staging file (remove_interrupted_install_leftovers).          *)
UninstallIsFinal == result = "uninstalled" => dest \in {Absent, Planted}

---------------------------------------------------------------------------
(* What the source says of itself and the code does not do.                *)

(* download.rs, replace_binary_with: "a failed write never subtracts a     *)
(* working binary".                                                        *)
FailedWriteKeepsPrior ==
  (result = "failed" /\ prior \in Versions) => dest = prior \/ backup[pid] = prior

===========================================================================
