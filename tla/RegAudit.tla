------------------------------ MODULE RegAudit ------------------------------
(***************************************************************************)
(* The privileged registrations -- the engine services and the updater's   *)
(* schedule -- from the folder an old release ran them from to the         *)
(* protected one (migrate.rs, regaudit.rs).  A run deregisters whatever    *)
(* the service manager says still runs from the old folder, selected in    *)
(* this run or not, removes the programs there, registers again what it    *)
(* has a program for, and at the end asks the manager once more where      *)
(* every registration runs from: one outside the protected folder makes    *)
(* the run not ready.                                                      *)
(*                                                                         *)
(* A registration is known to a manager by a file or an entry (`path`, in  *)
(* which folder its program is), by whether a boot starts it (`enabled`)   *)
(* and by whether it runs now (`up`).  What the operating system's tools   *)
(* leave of it differs: Windows deletes the entry; systemd disables the    *)
(* unit and keeps its file, which goes on naming the old folder; launchd   *)
(* forgets the job and keeps the file the next boot loads it from.  The    *)
(* schedule's own removal deletes the file, if it is one it may delete.    *)
(***************************************************************************)
EXTENDS Naturals, FiniteSets

CONSTANTS
  SERVICES,  \* the engine services
  MaxRuns,
  MaxFaults  \* bounds the tools that fail, the programs in use and the crashes

VARIABLES
  os,
  unit,       \* per registration and scope of the manager
  place,      \* where the schedule's own file is: "etc", "vendor" (a package's), "alias"
  oldProgram, \* the programs still in the old folder
  has,        \* the registrations this run has a program for
  step,
  vacating,   \* registrations found to run from the old folder, not yet dealt with
  clearing,   \* old programs found, not yet dealt with
  retired,    \* reported as deregistered
  notes,      \* what the run reports as failed
  ready,      \* the last run said ready
  blind,      \* history: a tool answered nothing during this run
  runs, faults

vars == <<os, unit, place, oldProgram, has, step, vacating, clearing, retired, notes,
          ready, blind, runs, faults>>

REGS == SERVICES \cup {"beacon"}
SCOPES == {"user", "system"}
PATHS == {"none", "old", "new", "other"}
Unit == [path : PATHS, enabled : BOOLEAN, up : BOOLEAN]
NoUnit == [path |-> "none", enabled |-> FALSE, up |-> FALSE]
Running(p) == [path |-> p, enabled |-> TRUE, up |-> TRUE]

(* An old install's registrations, or those of one redirected elsewhere;   *)
(* per-user units on Linux only, and never the schedule.                   *)
Init ==
  /\ os \in {"windows", "linux", "macos"}
  /\ \E paths \in [REGS -> PATHS], perUser \in SUBSET SERVICES :
       /\ perUser # {} => os = "linux"
       /\ unit = [r \in REGS |-> [s \in SCOPES |->
            IF paths[r] = "none" \/ (s = "user") # (r \in perUser) THEN NoUnit
            ELSE Running(paths[r])]]
       /\ oldProgram = {r \in REGS : paths[r] = "old"}
       /\ place \in IF os = "linux" /\ paths["beacon"] # "none"
                    THEN {"etc", "vendor", "alias"} ELSE {"etc"}
  /\ has = {} /\ step = "idle"
  /\ vacating = {} /\ clearing = {} /\ retired = {} /\ notes = {}
  /\ ready = FALSE /\ blind = FALSE /\ runs = 0 /\ faults = 0

Fault == faults < MaxFaults /\ faults' = faults + 1
Machine == <<unit, place, oldProgram>>
InRun == UNCHANGED <<os, runs, has>>

Begin ==
  /\ step = "idle" /\ runs < MaxRuns
  /\ runs' = runs + 1 /\ step' = "scan"
  /\ has' \in SUBSET REGS
  /\ vacating' = {} /\ clearing' = {} /\ retired' = {} /\ notes' = {}
  /\ ready' = FALSE /\ blind' = FALSE
  /\ UNCHANGED <<os, Machine, faults>>

(* What the manager knows of a registration.  launchd knows the jobs it    *)
(* has loaded, systemd any unit there is a file of.                        *)
Known(r, s) == unit[r][s].path # "none" /\ (os = "macos" => unit[r][s].up)

(* The folder of a registration, as the first scope that knows it tells.   *)
registered_bin_path(r) ==
  IF Known(r, "user") THEN unit[r]["user"].path
  ELSE IF Known(r, "system") THEN unit[r]["system"].path ELSE "none"

(* The reading of all of them; a tool that cannot be run tells of none.    *)
Read(read) ==
  \/ read = [r \in REGS |-> registered_bin_path(r)] /\ UNCHANGED <<blind, faults>>
  \/ /\ Fault /\ blind' = TRUE
     /\ \E r \in REGS :
          read = [q \in REGS |-> IF q = r THEN "none" ELSE registered_bin_path(q)]

regs_pointing_under_legacy(read) == {r \in REGS : read[r] = "old"}

(* migrate_from_legacy_roots, first its two lists.                         *)
Scan ==
  /\ step = "scan" /\ InRun
  /\ \E read \in [REGS -> PATHS] :
       Read(read) /\ vacating' = regs_pointing_under_legacy(read)
  /\ clearing' = oldProgram
  /\ step' = "vacate"
  /\ UNCHANGED <<Machine, retired, notes, ready>>

(* Deregistering a service, in both scopes: it is stopped and its          *)
(* registration taken away, or only stopped, or neither.                   *)
Left(u) ==
  CASE u = NoUnit -> NoUnit
    [] os = "windows" -> NoUnit
    [] OTHER -> [u EXCEPT !.up = FALSE, !.enabled = (os = "macos")]

Deregistered(r, tools) ==
  [s \in SCOPES |->
    CASE tools = "both" -> Left(unit[r][s])
      [] tools = "stop" -> [unit[r][s] EXCEPT !.up = FALSE]
      [] OTHER -> unit[r][s]]

Dealt(r, ok) ==
  /\ vacating' = vacating \ {r}
  /\ retired' = IF ok THEN retired \cup {r} ELSE retired
  /\ notes' = IF ok THEN notes ELSE notes \cup {r}

(* Running in either scope.                                                *)
StillRuns(u) == \E s \in SCOPES : u[s].up

(* A service counts as deregistered once it is not seen to run, and a      *)
(* state that cannot be read is none it is seen to run in.                 *)
VacateService ==
  /\ step = "vacate" /\ InRun
  /\ \E r \in vacating \cap SERVICES, tools \in {"both", "stop", "none"}, seen \in BOOLEAN :
       /\ IF tools = "both" /\ seen THEN UNCHANGED faults ELSE Fault
       /\ blind' = (blind \/ ~seen)
       /\ unit' = [unit EXCEPT ![r] = Deregistered(r, tools)]
       /\ Dealt(r, ~seen \/ ~StillRuns(Deregistered(r, tools)))
  /\ UNCHANGED <<place, oldProgram, step, clearing, ready>>

(* Mutant: whatever the manager names as the unit's file is removed.       *)
MayRemoveAny == place # "none"

(* A unit file may be removed if it is named for the unit and in one of    *)
(* the administrator's folders: never a package's, never another unit's.   *)
vet_unit_file_path == place = "etc"

(* The schedule: its removal counts only once the manager no longer has    *)
(* it, and a file it may not remove leaves it registered.                  *)
beacon_is_registered(u) == u["system"] # NoUnit

BeaconLeft(worked) ==
  LET u == unit["beacon"]["system"]
      gone == worked /\ (os # "linux" \/ vet_unit_file_path) IN
  [s \in SCOPES |->
    IF s = "user" \/ gone THEN NoUnit
    ELSE IF worked THEN [u EXCEPT !.up = FALSE, !.enabled = FALSE] ELSE u]

VacateBeacon ==
  /\ step = "vacate" /\ InRun /\ "beacon" \in vacating
  /\ \E worked \in BOOLEAN :
       /\ IF worked THEN UNCHANGED faults ELSE Fault
       /\ unit' = [unit EXCEPT !["beacon"] = BeaconLeft(worked)]
       /\ place' = IF beacon_is_registered(BeaconLeft(worked)) THEN place ELSE "etc"
       /\ Dealt("beacon", ~beacon_is_registered(BeaconLeft(worked)))
  /\ UNCHANGED <<oldProgram, step, clearing, ready, blind>>

(* The old programs, after all the registrations: one that cannot be       *)
(* removed is told of and stays.                                           *)
ClearProgram ==
  /\ step = "vacate" /\ vacating = {} /\ InRun
  /\ \E r \in clearing :
       /\ clearing' = clearing \ {r}
       /\ \/ oldProgram' = oldProgram \ {r} /\ UNCHANGED faults
          \/ Fault /\ UNCHANGED oldProgram
  /\ UNCHANGED <<unit, place, step, vacating, retired, notes, ready, blind>>

(* The rest of the run registers what it has a program for, in the         *)
(* protected folder; one that fails leaves what there was.                 *)
Register ==
  /\ step = "vacate" /\ vacating = {} /\ clearing = {} /\ InRun
  /\ \E failing \in SUBSET has :
       /\ Cardinality(failing) <= 1
       /\ IF failing = {} THEN UNCHANGED faults ELSE Fault
       /\ \E s \in SCOPES :
            /\ s = "user" => os = "linux"
            /\ unit' = [r \in REGS |->
                 IF r \notin has \ failing THEN unit[r]
                 ELSE [unit[r] EXCEPT ![IF r = "beacon" THEN "system" ELSE s] = Running("new")]]
       /\ place' = IF "beacon" \in has \ failing THEN "etc" ELSE place
       /\ notes' = notes \cup failing
  /\ step' = "audit"
  /\ UNCHANGED <<oldProgram, vacating, clearing, retired, ready, blind>>

(* Mutant: the audit knows the old folder and no other wrong one.          *)
UnderLegacy(read) == {r \in REGS : read[r] = "old"}

(* The registrations the audit holds against the run: known to the manager *)
(* and not in the protected folder.                                        *)
audit_failures(read) == {r \in REGS : read[r] \notin {"none", "new"}}

Audit ==
  /\ step = "audit" /\ InRun
  /\ \E read \in [REGS -> PATHS] :
       /\ Read(read)
       /\ ready' = (notes = {} /\ audit_failures(read) = {})
  /\ step' = "idle"
  /\ UNCHANGED <<Machine, vacating, clearing, retired, notes>>

Crash ==
  /\ step # "idle" /\ Fault
  /\ step' = "idle" /\ vacating' = {} /\ clearing' = {} /\ retired' = {}
  /\ UNCHANGED <<os, Machine, has, notes, ready, blind, runs>>

(* A boot starts what is enabled; launchd has the job loaded even where    *)
(* its program is gone.                                                    *)
Boot ==
  /\ step = "idle"
  /\ unit' = [r \in REGS |-> [s \in SCOPES |->
       [unit[r][s] EXCEPT !.up = /\ unit[r][s].enabled
                                 /\ os = "macos" \/ unit[r][s].path # "old" \/ r \in oldProgram]]]
  /\ UNCHANGED <<os, place, oldProgram, has, step, vacating, clearing, retired, notes,
                 ready, blind, runs, faults>>

Next ==
  \/ Begin \/ Scan \/ VacateService \/ VacateBeacon \/ ClearProgram \/ Register \/ Audit
  \/ Crash \/ Boot

Spec == Init /\ [][Next]_vars

------------------------------------------------------------------------------
(* The types of the state.                                                 *)
TypeOK ==
  /\ os \in {"windows", "linux", "macos"}
  /\ unit \in [REGS -> [SCOPES -> Unit]]
  /\ place \in {"etc", "vendor", "alias"}
  /\ oldProgram \subseteq REGS /\ has \subseteq REGS
  /\ step \in {"idle", "scan", "vacate", "audit"}
  /\ vacating \subseteq REGS /\ clearing \subseteq REGS
  /\ retired \subseteq REGS /\ notes \subseteq REGS
  /\ ready \in BOOLEAN /\ blind \in BOOLEAN
  /\ runs \in 0..MaxRuns /\ faults \in 0..MaxFaults

(* A registration the migration reports as taken off the old folder no     *)
(* longer runs from there, in whichever scope of the manager it was,       *)
(* unless the manager's answer was missing.                                *)
RetiredIsDown ==
  step # "idle" /\ ~blind =>
    \A r \in retired, s \in SCOPES : unit[r][s].up => unit[r][s].path = "new"

(* After a run that says ready and had every answer, whatever a manager    *)
(* knows runs from the protected folder.  Two exceptions, which the code's *)
(* reading has: a machine-wide unit behind a per-user one of the same name *)
(* is never asked about, and a job launchd was made to forget comes back   *)
(* from its file with the next boot.                                       *)
ReadyMeansMoved ==
  ready /\ ~blind =>
    \A r \in REGS, s \in SCOPES : unit[r][s].path \notin {"none", "new"} =>
      \/ os = "macos" /\ unit[r][s].enabled
      \/ s = "system" /\ unit[r]["user"].path = "new"

(* What the migration and the audit promise of the registrations.          *)
MigrationHolds == RetiredIsDown /\ ReadyMeansMoved

(* No run removes a unit file that is a package's or is named for another  *)
(* unit; the schedule keeps its registration instead, and the run says so. *)
KeepsForeignUnit ==
  place # "etc" /\ unit["beacon"]["system"] # NoUnit => unit'["beacon"]["system"] # NoUnit

(* "re-run elevated so the migration re-points it into the protected       *)
(* root", says every finding of the audit (regaudit.rs:234): repeated with *)
(* nothing failing, a run is ready.                                        *)
RerunHeals == step = "idle" /\ runs = 2 /\ faults = 0 => ready
=====
