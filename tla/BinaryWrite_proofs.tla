-------------------------- MODULE BinaryWrite_proofs --------------------------
(***************************************************************************)
(* What replacing a program file never does, for any set of process ids,   *)
(* any number of releases, on Windows or elsewhere, with or without        *)
(* --force-reinstall.  The four invariants of BinaryWrite are not          *)
(* inductive: a step's effect on dest, backup and staging depends on where *)
(* the run is, so Invariant adds what holds at each point of a run.        *)
(***************************************************************************)
EXTENDS BinaryWrite, TLAPS

(* The phases in which dest is as the run found it. *)
BeforeUnlink == {"fetch", "backup", "copying", "adopting", "unlink", "probe",
                 "dropBackup", "stage", "staging", "adoptStaged", "schedule"}

(* The phases that follow note_binary_written. *)
AfterRecord == {"written", "cleanup", "undo"}

(* The phases that rely on the backup taken before dest is unlinked. *)
WithBackup == {"unlink", "probe", "create", "fill", "hardError"}

RunsAreBusy == pc = "idle" <=> result # "running"

DestByPhase ==
  /\ pc \in BeforeUnlink => dest = prior
  /\ pc = "create" => dest = Absent
  /\ pc = "fill" => dest = Torn
  /\ pc = "hardError" => dest \in {prior, Absent, Torn}

NothingRecorded ==
  pc \in Phases \ (AfterRecord \cup {"idle"}) => recorded = "none" /\ pid \notin Queued

BackupByPhase ==
  /\ pc \in {"fetch", "backup", "copying", "adopting"} => ~held
  /\ pc \in {"copying", "adopting"} => prior \in Regular
  /\ pc = "adopting" => backup[pid] = prior
  /\ pc \in WithBackup => (held <=> prior \in Regular) /\ (held => backup[pid] = prior)

RecordIsTrue ==
  pc \in AfterRecord =>
    \/ recorded = "FileReplaced" /\ prior \in Regular /\ backup[pid] = prior
         /\ pid \notin Queued
    \/ recorded = "FileCreated" /\ prior \notin Regular /\ pid \notin Queued
    \/ recorded = "StagingCreated" /\ dest = prior

RolledBackOwesNothing ==
  result = "rolledBack" => pid \notin Queued \/ staging[pid] = Absent

UninstallSweeps == result = "uninstalled" => \A p \in Pids : staging[p] = Absent

Invariant ==
  /\ TypeOK
  /\ RunsAreBusy /\ DestByPhase /\ NothingRecorded /\ BackupByPhase /\ RecordIsTrue
  /\ RolledBackOwesNothing /\ UninstallSweeps
  /\ PriorRecoverable /\ RollbackIsFinal /\ StagedLeavesDest /\ UninstallIsFinal

(* The markers a path may hold differ from each other and from a release. *)
LEMMA Markers ==
  /\ Absent \notin Regular /\ Planted \notin Regular /\ Absent # Planted
  /\ Torn \in Regular /\ Torn # Absent /\ Torn \notin Versions
  /\ Versions \subseteq Regular /\ 1 \in Versions
  /\ Content = Regular \cup {Absent, Planted}
  BY VersionAssumption DEF Absent, Planted, Torn, Versions, Regular, Content

LEMMA Initially == Init => Invariant
  <1> SUFFICES ASSUME Init PROVE Invariant
    OBVIOUS
  <1>1. TypeOK
    <2>1. dest \in Content /\ backup \in [Pids -> Content] /\ staging \in [Pids -> Content]
      BY Markers DEF Init
    <2>2. renames \in Seq(Pids)
      BY DEF Init
    <2> QED
      BY <2>1, <2>2, Markers, FlagAssumption DEF Init, TypeOK, Phases, Records, Results
  <1>2. RunsAreBusy /\ DestByPhase /\ NothingRecorded /\ BackupByPhase /\ RecordIsTrue
    BY DEF Init, RunsAreBusy, DestByPhase, NothingRecorded, BackupByPhase,
           RecordIsTrue, BeforeUnlink, AfterRecord, WithBackup
  <1>3. RolledBackOwesNothing /\ UninstallSweeps
    BY DEF Init, RolledBackOwesNothing, UninstallSweeps
  <1>4. PriorRecoverable /\ RollbackIsFinal /\ StagedLeavesDest /\ UninstallIsFinal
    BY DEF Init, PriorRecoverable, RollbackIsFinal, StagedLeavesDest,
           UninstallIsFinal, Unsettled
  <1> QED
    BY <1>1, <1>2, <1>3, <1>4 DEF Invariant

(* A step leaves the queue alone when it leaves renames alone. *)
LEMMA QueueKept == renames' = renames => Queued' = Queued
  BY DEF Queued

(* Every step of the installer, of the system or of the clock preserves it. *)
LEMMA Step == ASSUME Invariant, [Next]_vars PROVE Invariant'
  <1> USE Markers, QueueKept
      DEF Invariant, TypeOK, RunsAreBusy, DestByPhase, NothingRecorded, BackupByPhase,
          RecordIsTrue, RolledBackOwesNothing, UninstallSweeps, PriorRecoverable,
          RollbackIsFinal, StagedLeavesDest, UninstallIsFinal, Unsettled,
          BeforeUnlink, AfterRecord, WithBackup, Phases, Records, Results,
          Goto, End, files, run
  <1>1. ASSUME NEW p \in Pids, NEW v \in Versions, Begin(p, v) PROVE Invariant'
    BY <1>1 DEF Begin, Wanted
  <1>2. CASE Fetch
    BY <1>2 DEF Fetch
  <1>3. CASE NothingToBackUp
    BY <1>3 DEF NothingToBackUp
  <1>4. CASE StatFails
    BY <1>4 DEF StatFails
  <1>5. CASE StartCopy
    BY <1>5 DEF StartCopy
  <1>6. CASE FinishCopy
    BY <1>6 DEF FinishCopy
  <1>7. CASE AdoptBackup
    BY <1>7 DEF AdoptBackup
  <1>8. CASE Unlink
    BY <1>8 DEF Unlink
  <1>9. CASE Probe
    BY <1>9 DEF Probe
  <1>10. CASE Create
    BY <1>10 DEF Create
  <1>11. CASE Fill
    BY <1>11 DEF Fill
  <1>12. CASE HardError
    BY <1>12 DEF HardError
  <1>13. CASE DropBackup
    BY <1>13 DEF DropBackup
  <1>14. CASE Stage
    BY <1>14 DEF Stage
  <1>15. CASE AdoptStaged
    BY <1>15 DEF AdoptStaged
  <1>16. CASE Schedule
    BY <1>16 DEF Schedule
  <1>17. CASE Commit
    BY <1>17 DEF Commit
  <1>18. CASE CleanUp
    BY <1>18 DEF CleanUp
  <1>19. CASE LaterStepFails
    BY <1>19 DEF LaterStepFails
  <1>20. CASE UndoCreated
    BY <1>20 DEF UndoCreated
  <1>21. CASE UndoReplaced
    BY <1>21 DEF UndoReplaced
  <1>22. CASE UndoStaging
    BY <1>22 DEF UndoStaging
  <1>23. CASE UndoFails
    BY <1>23 DEF UndoFails
  <1>24. CASE Crash
    BY <1>24 DEF Crash
  <1>25. CASE StartImage
    BY <1>25 DEF StartImage
  <1>26. CASE StopImage
    <2>1. /\ running' \in BOOLEAN
          /\ UNCHANGED <<dest, backup, staging, renames, windows, pc, pid, new, held,
                         recorded, prior, result>>
      BY <1>26 DEF StopImage
    <2> QED
      BY <2>1
  <1>27. CASE Reboot
    <2>1. /\ pc' = "idle" /\ result' = IF pc = "idle" THEN result ELSE "crashed"
          /\ UNCHANGED <<backup, windows, pid, new, held, recorded>>
          /\ renames' = <<>> /\ running' = FALSE
          /\ staging' = [p \in Pids |-> IF p \in Queued THEN Absent ELSE staging[p]]
      BY <1>27 DEF Reboot
    <2>2. staging' \in [Pids -> Content] /\ renames' \in Seq(Pids)
      BY <2>1
    <2>3. Queued' = {}
      BY <2>1 DEF Queued
    <2>4. result' # "running" /\ result' \in Results
      BY <2>1
    <2>5. CASE UNCHANGED <<dest, prior>>
      <3>1. TypeOK'
        BY <2>1, <2>2, <2>4, <2>5
      <3>2. (RunsAreBusy /\ DestByPhase /\ NothingRecorded /\ BackupByPhase /\ RecordIsTrue)'
        BY <2>1, <2>3, <2>4, <2>5
      <3>3. (RolledBackOwesNothing /\ UninstallSweeps)'
        BY <2>1, <2>3, <2>4, <2>5
      <3>4. (PriorRecoverable /\ RollbackIsFinal /\ StagedLeavesDest /\ UninstallIsFinal)'
        BY <2>1, <2>3, <2>4, <2>5
      <3> QED
        BY <3>1, <3>2, <3>3, <3>4
    <2>6. CASE \E i \in DOMAIN renames :
                 /\ LastMove(i) /\ dest' = staging[renames[i]]
                 /\ prior' = IF renames[i] = pid /\ result = "rolledBack"
                             THEN prior ELSE dest'
      <3> PICK i \in DOMAIN renames :
                 /\ staging[renames[i]] # Absent /\ dest' = staging[renames[i]]
                 /\ prior' = IF renames[i] = pid /\ result = "rolledBack"
                             THEN prior ELSE dest'
        BY <2>6 DEF LastMove, Moves
      <3>1. renames[i] \in Queued /\ renames[i] \in Pids
        BY DEF Queued
      <3>2. dest' \in Content
        BY <3>1
      <3>3. ~(renames[i] = pid /\ result = "rolledBack") /\ result # "uninstalled"
        BY <3>1
      <3> QED
        BY <2>1, <2>2, <2>3, <2>4, <3>2, <3>3
    <2> QED
      BY <1>27, <2>5, <2>6 DEF Reboot
  <1>28. CASE Uninstall
    <2>1. /\ pc = "idle" /\ pc' = "idle" /\ result' \in {"uninstalled", "none"}
          /\ UNCHANGED <<renames, running, windows, pid, new, held, recorded, prior>>
          /\ dest' \in {dest, Absent}
      BY <1>28 DEF Uninstall, Delete
    <2>2. PICK B, S \in SUBSET Pids : Sweep(B, S)
      BY <1>28 DEF Uninstall
    <2>3. backup' \in [Pids -> Content] /\ staging' \in [Pids -> Content]
      BY <2>2 DEF Sweep
    <2>4. result' = "uninstalled" =>
            dest' \in {Absent, Planted} /\ \A p \in Pids : staging'[p] = Absent
      BY <1>28 DEF Uninstall, Delete, Sweep
    <2> QED
      BY <2>1, <2>3, <2>4
  <1>29. CASE UNCHANGED vars
    BY <1>29 DEF vars
  <1> QED
    BY <1>1, <1>2, <1>3, <1>4, <1>5, <1>6, <1>7, <1>8, <1>9, <1>10, <1>11, <1>12, <1>13, <1>14, <1>15, <1>16, <1>17, <1>18, <1>19, <1>20, <1>21, <1>22, <1>23, <1>24, <1>25, <1>26, <1>27, <1>28, <1>29
       DEF Next, Install, Environment, BackUp, Write, ScheduleReplaceOnReboot, RollBack

(* Everything Invariant says holds in every state of every behaviour. *)
THEOREM Invariance == Spec => []Invariant
  <1>1. Invariant /\ [Next]_vars => Invariant'
    BY Step
  <1> QED
    BY Initially, <1>1, PTL DEF Spec

(* The variables of a run and of the disk keep their types. *)
THEOREM TypeCorrect == Spec => []TypeOK
  <1>1. Invariant => TypeOK
    BY DEF Invariant
  <1> QED
    BY Invariance, <1>1, PTL

(* However a run ends before it commits, the program it found survives: at *)
(* dest, in the backup, or lost only to a write that broke off midway.     *)
THEOREM PriorSurvives == Spec => []PriorRecoverable
  <1>1. Invariant => PriorRecoverable
    BY DEF Invariant
  <1> QED
    BY Invariance, <1>1, PTL

(* A successful rollback leaves what the run found, across any restart. *)
THEOREM RollbackHolds == Spec => []RollbackIsFinal
  <1>1. Invariant => RollbackIsFinal
    BY DEF Invariant
  <1> QED
    BY Invariance, <1>1, PTL

(* A staged update has not touched the program it will replace. *)
THEOREM StagingIsHarmless == Spec => []StagedLeavesDest
  <1>1. Invariant => StagedLeavesDest
    BY DEF Invariant
  <1> QED
    BY Invariance, <1>1, PTL

(* Nothing a past run queued brings a program back after an uninstall. *)
THEOREM UninstallHolds == Spec => []UninstallIsFinal
  <1>1. Invariant => UninstallIsFinal
    BY DEF Invariant
  <1> QED
    BY Invariance, <1>1, PTL

===========================================================================
