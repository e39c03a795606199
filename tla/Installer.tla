------------------------------- MODULE Installer -------------------------------
(***************************************************************************)
(* One run of the installer, run_report_gated in src/src/lib.rs: the rows  *)
(* of work it goes through for the components the user selected, the       *)
(* RollbackGuard it fills as it goes, what a failure undoes, and what the  *)
(* readiness verdict of a completed run says.  Runs may follow each other, *)
(* die, or be overtaken by a restart of the machine, and services start    *)
(* and stop by themselves while a run is in progress.                      *)
(*                                                                         *)
(* Replacing one file is a single step here, with the outcomes module      *)
(* BinaryWrite gives it.  A service has the name of the program it runs;   *)
(* the beacon's schedule has the name of dig-updater.                      *)
(***************************************************************************)
EXTENDS Naturals, Sequences, FiniteSets

CONSTANTS Machines,    \* bound: the hosts considered, and the plans of their runs
          MaxVersion,  \* releases are 1..MaxVersion
          MaxRuns      \* bound: installer runs

Components == {"dig-store", "dig-node", "dig-app", "dig-dns", "dig-updater",
               "dig-relay", "browser", "scheme"}

Registrations == {"none", "legacy", "msi", "packaged", "own"}

(* What a user asks for: the components, --force-reinstall, whether        *)
(* services are started, and --bin-dir, under which the privileged root is *)
(* not the protected one.                                                  *)
Plan == [selected : SUBSET Components, force : BOOLEAN, start : BOOLEAN,
         customRoot : BOOLEAN]

(* A host: the components it may have something of, in which releases and  *)
(* registrations, and the plans its runs choose from.                      *)
Machine == [windows : BOOLEAN, has : SUBSET Components, versions : SUBSET (1..MaxVersion),
            regs : SUBSET Registrations, plans : SUBSET Plan]

ASSUME MachineAssumption ==
  /\ Machines \subseteq Machine /\ \A m \in Machines : "none" \in m.regs
  /\ MaxVersion \in Nat \ {0} /\ MaxRuns \in Nat

(* The work of a run in order: what to do, on which file or service, for   *)
(* which component; the rows of "run" and "hardening" belong to every plan *)
(* and to every plan on Windows.                                           *)
Row(do, on, of) == [do |-> do, on |-> on, of |-> of]

Rows ==
  << Row("supersede", "msi", "run"),
     Row("migrate", "legacy", "run"),
     Row("resolve", "dig-store", "dig-store"),
     Row("write", "dig-store", "dig-store"),
     Row("alias", "digs", "dig-store"),
     Row("resolve", "dig-node", "dig-node"),
     Row("stop", "dig-node", "dig-node"),
     Row("write", "dig-node", "dig-node"),
     Row("alias", "dign", "dig-node"),
     Row("register", "dig-node", "dig-node"),
     Row("resolve", "dig-app", "dig-app"),
     Row("write", "dig-app", "dig-app"),
     Row("autostart", "autostart", "dig-app"),
     Row("alias", "diga", "dig-app"),
     Row("resolve", "dig-dns", "dig-dns"),
     Row("stop", "dig-dns", "dig-dns"),
     Row("write", "dig-dns", "dig-dns"),
     Row("alias", "digd", "dig-dns"),
     Row("register", "dig-dns", "dig-dns"),
     Row("resolve", "dig-updater", "dig-updater"),
     Row("write", "dig-updater", "dig-updater"),
     Row("place", "dig-updater-worker", "dig-updater"),
     Row("register", "dig-updater", "dig-updater"),
     Row("resolve", "dig-relay", "dig-relay"),
     Row("stop", "dig-relay", "dig-relay"),
     Row("place", "dig-relay", "dig-relay"),
     Row("register", "dig-relay", "dig-relay"),
     Row("place", "browser", "browser"),
     Row("scheme", "scheme", "scheme"),
     Row("harden", "arp", "hardening"),
     Row("finish", "report", "run") >>

FilesOf(C) == {Rows[i].on : i \in {j \in DOMAIN Rows :
  Rows[j].do \in {"resolve", "write", "alias", "place"} /\ Rows[j].of \in C}}

UserOf(C) == {Rows[i].on : i \in {j \in DOMAIN Rows :
  Rows[j].do \in {"autostart", "scheme", "harden"} /\ Rows[j].of \in C}}

Files         == FilesOf(Components)
UserArtifacts == UserOf(Components \cup {"hardening"})

Services == {"dig-node", "dig-dns", "dig-updater", "dig-relay"}

Images == {"dig-node", "dig-dns", "dig-relay", "dig-app"}

Absent   == 0
Versions == 1..MaxVersion
Latest   == MaxVersion
Torn     == MaxVersion + 1
Content  == Versions \cup {Absent, Torn}

VARIABLES
  (* the host *)
  machine,   \* what it is; never changes
  file,      \* the programs in the install root
  saved,     \* the backup beside each
  staged,    \* the replacement each is due at the next restart
  reg,       \* each service: unregistered, or from which root it runs
  running,   \* the programs with a live process
  user,      \* the per-user and ARP entries present
  (* the run *)
  plan,      \* InstallPlan
  mode, at,
  decision,  \* apply_update_decision for the component in hand
  guard,     \* RollbackGuard.actions
  outcome,   \* what the report says of each selected service
  unmoved,   \* MigrationResult.deregister_failures
  claims,    \* rearmed_registrations and beacon_rearm reported as applied
  audited,   \* registration_audit: the services whose program path it read back
  ready,     \* the verdict of the last completed run
  runs,
  (* history *)
  before,    \* the host when the run began
  damaged,   \* files this run could not put back, and has said so
  failedRegs,\* services a registration of this run failed for
  stuck,     \* services whose deregistration was reported as failed
  halted     \* services this run stopped and nothing has started since

Windows  == machine.windows
Selected == plan.selected

Parts(C) == C \cup {"run"} \cup (IF Windows THEN {"hardening"} ELSE {})
InPlan(r) == r.of \in Parts(Selected)

NoPlan == [selected |-> {}, force |-> FALSE, start |-> FALSE, customRoot |-> FALSE]

host == <<file, saved, staged, reg, running, user>>
book == <<decision, guard, outcome, unmoved, claims>>
hist == <<before, damaged, failedRegs, stuck, halted>>
vars == <<machine, file, saved, staged, reg, running, user, plan, mode, at, decision,
          guard, outcome, unmoved, claims, audited, ready, runs, before, damaged,
          failedRegs, stuck, halted>>
verdict == <<audited, ready>>

FileEntries == [kind : {"FileCreated", "FileReplaced", "StagingCreated"}, on : Files]
RegEntries  == [kind : {"ServiceRegistered", "BeaconRearmed"}, on : Services]
UserEntries == [kind : {"Artifact"}, on : UserArtifacts]
Entries     == FileEntries \cup RegEntries \cup UserEntries

Entry(kind, on) == [kind |-> kind, on |-> on]

Logged(kind, on) == \E i \in DOMAIN guard : guard[i] = Entry(kind, on)

Modes == {"idle", "steps", "rollback", "failed", "done"}

TypeOK ==
  /\ machine \in Machines /\ plan \in Plan
  /\ {file, saved, staged} \subseteq [Files -> Content]
  /\ reg \in [Services -> Registrations]
  /\ running \subseteq Images /\ user \subseteq UserArtifacts
  /\ mode \in Modes /\ at \in DOMAIN Rows
  /\ decision \in {"Install", "Update", "Skip", "Unavailable"}
  /\ guard \in Seq(Entries)
  /\ outcome \in [Services -> {"none", "failed", "installed", "healthy"}]
  /\ unmoved \subseteq Services /\ claims \subseteq Services
  /\ failedRegs \subseteq Services /\ audited \subseteq Services
  /\ ready \in BOOLEAN /\ runs \in 0..MaxRuns
  /\ before.file \in [Files -> Content]
  /\ before.reg \in [Services -> Registrations]
  /\ before.running \subseteq Images /\ before.user \subseteq UserArtifacts
  /\ before.staged \in [Files -> Content]
  /\ damaged \subseteq Files /\ stuck \subseteq Services /\ halted \subseteq Services

Snapshot ==
  [file |-> file, staged |-> staged, reg |-> reg, running |-> running, user |-> user]

(* A host with any subset of DIG installed, by this installer, by an older *)
(* one (legacy root), by its MSI, or by a package manager.  Only a service *)
(* with a registration is running; MSI products exist on Windows and       *)
(* packaged units do not.                                                  *)
HostReg(s) ==
  IF s \notin machine.has THEN {"none"}
  ELSE {r \in machine.regs :
          /\ r = "msi" => Windows
          /\ r = "packaged" => ~Windows /\ s = "dig-node"}

Init ==
  /\ machine \in Machines /\ plan = NoPlan
  /\ \E h \in [FilesOf(machine.has) -> machine.versions \cup {Absent}] :
       file = [f \in Files |-> IF f \in DOMAIN h THEN h[f] ELSE Absent]
  /\ saved = [f \in Files |-> Absent] /\ staged = [f \in Files |-> Absent]
  /\ reg \in [Services -> Registrations] /\ \A s \in Services : reg[s] \in HostReg(s)
  /\ \A s \in Services : reg[s] = "own" => file[s] # Absent
  /\ running = {s \in Services \cap Images : reg[s] = "own"}
  /\ user \in {{}, UserOf(Parts(machine.has))}
  /\ mode = "idle" /\ at = 1 /\ decision = "Skip" /\ guard = <<>>
  /\ outcome = [s \in Services |-> "none"] /\ unmoved = {} /\ claims = {}
  /\ audited = {} /\ ready = FALSE /\ runs = 0
  /\ before = Snapshot /\ damaged = {} /\ failedRegs = {}
  /\ stuck = {} /\ halted = {}

---------------------------------------------------------------------------
(* How a run goes through the rows: from one that is in the plan to the    *)
(* next; a step that fails hands the guard to the rollback.                *)
row == Rows[at]

Doing(do) == mode = "steps" /\ row.do = do

Proceed ==
  /\ at' \in {i \in DOMAIN Rows :
              /\ i > at /\ InPlan(Rows[i])
              /\ \A j \in DOMAIN Rows : at < j /\ j < i => ~InPlan(Rows[j])}
  /\ UNCHANGED <<mode, verdict, runs, plan, machine>>

Fail == mode' = "rollback" /\ UNCHANGED <<at, verdict, runs, plan, machine>>

(* What a run knows is in its memory, and goes with it. *)
Forget ==
  /\ at' = 1 /\ decision' = "Skip" /\ guard' = <<>>
  /\ audited' = {} /\ ready' = FALSE
  /\ outcome' = [s \in Services |-> "none"] /\ unmoved' = {} /\ claims' = {}
  /\ before' = Snapshot' /\ damaged' = {} /\ failedRegs' = {}
  /\ stuck' = {} /\ halted' = {}

Begin ==
  /\ mode \notin {"steps", "rollback"} /\ runs < MaxRuns
  /\ mode' = "steps" /\ runs' = runs + 1 /\ plan' \in machine.plans
  /\ UNCHANGED <<host, machine>> /\ Forget

(* Unregistering a service stops it. *)
Unregister(S) ==
  /\ reg' = [s \in Services |-> IF s \in S THEN "none" ELSE reg[s]]
  /\ running' = running \ S

(* supersede_msi_products: msiexec /x for each MSI of a selected component;  *)
(* one that fails is logged and left.                                        *)
Supersede ==
  /\ Doing("supersede") /\ Proceed
  /\ \E S \in SUBSET {s \in Services \cap Selected : reg[s] = "msi"} : Unregister(S)
  /\ UNCHANGED <<file, saved, staged, user, book, hist>>

(* migrate_legacy_roots_step, for a plan with a privileged program in it.  *)
(* Every registration that runs from a legacy root is taken away, "seen"   *)
(* being those whose program path can be read back (regs_pointing_under    *)
(* passes over the others without a word).  Of the seen ones, "moved"      *)
(* are those that took it without complaint, "gone" those that really went *)
(* (deregister_service only looks whether the service still runs).  Each   *)
(* moved one the plan does not select is then registered again from the    *)
(* protected root, unless this run's privileged root is another one, or    *)
(* said to be lost.                                                        *)
Privileged ==
  Selected \cap (IF Windows THEN Components \ {"browser", "scheme"}
                 ELSE {"dig-node", "dig-dns", "dig-updater", "dig-relay"})

(* Mutant: dig-relay is left out of ENGINE_SERVICES. *)
DeclinedButRelay(moved) == moved \ (Selected \cup {"dig-relay"})

Declined(moved) == moved \ Selected

RearmEntries(S) ==
  (IF "dig-updater" \in S THEN <<Entry("BeaconRearmed", "dig-updater")>> ELSE <<>>)
  \o (IF "dig-node" \in S THEN <<Entry("ServiceRegistered", "dig-node")>> ELSE <<>>)
  \o (IF "dig-relay" \in S THEN <<Entry("ServiceRegistered", "dig-relay")>> ELSE <<>>)
  \o (IF "dig-dns" \in S THEN <<Entry("ServiceRegistered", "dig-dns")>> ELSE <<>>)

Legacy == {s \in Services : reg[s] = "legacy"}

Migrate ==
  /\ Doing("migrate") /\ Proceed
  /\ \E seen \in SUBSET (IF Privileged = {} THEN {} ELSE Legacy) :
     \E moved \in SUBSET seen :
     \E gone \in SUBSET moved :
     \E rearmed \in SUBSET {s \in Declined(moved) : ~plan.customRoot /\ file[s] # Absent} :
       /\ "dig-updater" \in moved => "dig-updater" \in gone
       /\ reg' = [s \in Services |-> IF s \in rearmed THEN "own"
                                     ELSE IF s \in gone THEN "none" ELSE reg[s]]
       /\ running' \in {running \ moved, (running \ moved) \cup (rearmed \cap {"dig-dns"})}
       /\ unmoved' = seen \ moved
       /\ claims' = rearmed
       /\ guard' = guard \o RearmEntries(rearmed)
       /\ failedRegs' = Declined(moved) \ rearmed
  /\ UNCHANGED <<file, saved, staged, user, decision, outcome, before, damaged, stuck,
                 halted>>

(* resolve_component, then apply_update_decision.  A release that lacks    *)
(* dig-app or dig-dns leaves the component out; anything else that goes    *)
(* wrong ends the run.  dig-relay is fetched whatever is there, as if it   *)
(* were new.                                                               *)
Decision(f) ==
  IF file[f] = Absent \/ f = "dig-relay" THEN "Install"
  ELSE IF file[f] \in Versions /\ file[f] >= Latest /\ ~plan.force THEN "Skip"
  ELSE "Update"

Resolve ==
  /\ Doing("resolve")
  /\ \/ Proceed /\ decision' = Decision(row.on)
     \/ row.on \in {"dig-app", "dig-dns"} /\ Proceed /\ decision' = "Unavailable"
     \/ Fail /\ UNCHANGED decision
  /\ UNCHANGED <<host, guard, outcome, unmoved, claims, hist>>

(* The service manager is asked for a service by the name the installer    *)
(* registers it under, which is not the name of a packaged unit.           *)
Addressable(s) == reg[s] \notin {"none", "packaged"}

(* stop_running_dig_node, stop_running_dig_relay, stop_before_replace: a   *)
(* registered service is stopped through the service manager before its    *)
(* program is replaced.  If it will not stop, dig-dns goes on regardless.  *)
Stop ==
  /\ Doing("stop")
  /\ IF decision \in {"Install", "Update"} /\ file[row.on] # Absent
          /\ row.on \in running /\ Addressable(row.on)
     THEN \/ /\ Proceed /\ running' = running \ {row.on}
             /\ halted' = halted \cup {row.on}
          \/ row.on = "dig-dns" /\ Proceed /\ UNCHANGED <<running, halted>>
          \/ row.on # "dig-dns" /\ Fail /\ UNCHANGED <<running, halted>>
     ELSE Proceed /\ UNCHANGED <<running, halted>>
  /\ UNCHANGED <<file, saved, staged, reg, user, book, before, damaged, failedRegs, stuck>>

(* download_component and note_binary_written.  The file is replaced, its  *)
(* old content saved beside it; or, when it is a running image on Windows, *)
(* its replacement is staged; or the run fails with the file intact, or    *)
(* with part of the new one in its place and the backup dropped.           *)
Locked(f) == Windows /\ f \in running

(* Mutant: every file recorded as one the run created. *)
ReplaceForgetsBackup(f) ==
  /\ ~Locked(f) /\ Proceed
  /\ file' = [file EXCEPT ![f] = Latest] /\ saved' = [saved EXCEPT ![f] = file[f]]
  /\ guard' = Append(guard, Entry("FileCreated", f))
  /\ UNCHANGED <<staged, damaged>>

Replace(f) ==
  /\ ~Locked(f) /\ Proceed
  /\ file' = [file EXCEPT ![f] = Latest] /\ saved' = [saved EXCEPT ![f] = file[f]]
  /\ guard' = Append(guard, Entry(IF file[f] = Absent THEN "FileCreated"
                                  ELSE "FileReplaced", f))
  /\ UNCHANGED <<staged, damaged>>

StageReplacement(f) ==
  /\ Locked(f) /\ Proceed
  /\ staged' = [staged EXCEPT ![f] = Latest]
  /\ guard' = Append(guard, Entry("StagingCreated", f))
  /\ UNCHANGED <<file, saved, damaged>>

FetchOrWriteFails(f) ==
  /\ Fail
  /\ \/ UNCHANGED <<file, damaged>>
     \/ ~Locked(f) /\ file' = [file EXCEPT ![f] = Torn] /\ damaged' = damaged \cup {f}
  /\ UNCHANGED <<saved, staged, guard>>

Download(f) == Replace(f) \/ StageReplacement(f) \/ FetchOrWriteFails(f)

NoDownload == Proceed /\ UNCHANGED <<file, saved, staged, guard, damaged>>

(* A component is downloaded unless it is up to date; the worker, dig-relay *)
(* and the browser always; an alias when the release has one.  The digd     *)
(* alias is only looked for when dig-dns itself was found.                  *)
Write ==
  /\ Doing("write")
  /\ IF decision \in {"Install", "Update"} THEN Download(row.on) ELSE NoDownload
  /\ UNCHANGED <<reg, running, user, decision, outcome, unmoved, claims,
                 before, failedRegs, stuck, halted>>

Place ==
  /\ Doing("place") /\ Download(row.on)
  /\ UNCHANGED <<reg, running, user, decision, outcome, unmoved, claims,
                 before, failedRegs, stuck, halted>>

Alias ==
  /\ Doing("alias")
  /\ \/ ~(row.on = "digd" /\ decision = "Unavailable") /\ Download(row.on)
     \/ NoDownload
  /\ UNCHANGED <<reg, running, user, decision, outcome, unmoved, claims,
                 before, failedRegs, stuck, halted>>

(* Mutant: a verdict the report has no word for. *)
SeenUnknown(s) == {"installed", "unknown"}

(* What a registration says: "installed", or "healthy" when services are   *)
(* started and this one was seen running.                                  *)
Seen(s) == {"installed"} \cup (IF plan.start THEN {"healthy"} ELSE {})

Report(s, o) ==
  /\ outcome' = [outcome EXCEPT ![s] = o]
  /\ failedRegs' = IF o = "failed" THEN failedRegs \cup {s} ELSE failedRegs

Set(s, r) == reg' = [reg EXCEPT ![s] = r]

(* register_dig_node leaves a packaged unit, or the service of a program   *)
(* that was up to date, as it is; verify_existing does the latter for      *)
(* dig-dns.  Neither looks for the registration.                           *)
LeftAsIs(s) == decision = "Skip" \/ (s = "dig-node" /\ reg[s] = "packaged")

KeepService(s) ==
  /\ LeftAsIs(s) /\ UNCHANGED <<reg, running>>
  /\ \E o \in Seen(s) :
       /\ o = "healthy" => s \in running /\ reg[s] # "packaged"
       /\ Report(s, o)

(* install_engine_service: the program registers itself, a failure being   *)
(* tolerated if a registration is there, and is started; a start that      *)
(* fails is reported as a registration that failed.  Nothing looks at      *)
(* whether dig-relay came up.                                              *)
(* Mutant: installed, and never started. *)
InstallEngineUnstarted(s) ==
  /\ s \in {"dig-node", "dig-relay"} /\ ~LeftAsIs(s)
  /\ Set(s, "own") /\ UNCHANGED running
  /\ \E o \in Seen(s) : (s = "dig-relay" => o = "installed") /\ Report(s, o)

InstallEngine(s) ==
  /\ s \in {"dig-node", "dig-relay"} /\ ~LeftAsIs(s)
  /\ \/ /\ Set(s, "own") \/ (reg[s] # "none" /\ UNCHANGED reg)
        /\ \/ /\ running' = IF plan.start THEN running \cup {s} ELSE running
              /\ \E o \in Seen(s) : (s = "dig-relay" => o = "installed") /\ Report(s, o)
           \/ plan.start /\ UNCHANGED running /\ Report(s, "failed")
     \/ UNCHANGED <<reg, running>> /\ Report(s, "failed")

(* dns::install: a clean reinstall; the old registration goes first, and a *)
(* new one that fails leaves none, or the old one if that would not go.    *)
InstallDns(s) ==
  /\ s = "dig-dns" /\ ~LeftAsIs(s)
  /\ \/ /\ Set(s, "own")
        /\ \/ running' = running \ {s} /\ Report(s, "installed")
           \/ /\ plan.start /\ running' = running \cup {s}
              /\ \E o \in Seen(s) : Report(s, o)
     \/ Set(s, "none") /\ running' = running \ {s} /\ Report(s, "failed")
     \/ UNCHANGED reg /\ running' \in {running, running \ {s}} /\ Report(s, "failed")

(* beacon::register runs on every run that selects the beacon. *)
RegisterBeacon(s) ==
  /\ s = "dig-updater" /\ UNCHANGED running
  /\ \/ Set(s, "own") /\ Report(s, "installed")
     \/ UNCHANGED reg /\ Report(s, "failed")

(* Only a registration of a program that was not there before, or of       *)
(* dig-relay, is recorded; the beacon's never is.                          *)
(* Mutant: an update or a skip is recorded like an installation. *)
RecordedAlways(s) == s # "dig-updater" /\ outcome'[s] \in {"installed", "healthy"}

Recorded(s) ==
  decision = "Install" /\ s # "dig-updater" /\ outcome'[s] \in {"installed", "healthy"}

Register ==
  /\ Doing("register") /\ Proceed
  /\ \/ decision = "Unavailable" /\ UNCHANGED <<reg, running, outcome, failedRegs, guard>>
     \/ /\ decision # "Unavailable"
        /\ IF row.on = "dig-updater" THEN RegisterBeacon(row.on)
           ELSE KeepService(row.on) \/ InstallEngine(row.on) \/ InstallDns(row.on)
        /\ guard' = IF Recorded(row.on)
                    THEN Append(guard, Entry("ServiceRegistered", row.on)) ELSE guard
  /\ halted' = halted \ running'
  /\ UNCHANGED <<file, saved, staged, user, decision, unmoved, claims, before, damaged,
                 stuck>>

(* autostart::register and launch::launch, on every run that finds dig-app. *)
Autostart ==
  /\ Doing("autostart") /\ Proceed
  /\ \/ UNCHANGED <<user, guard>>
     \/ /\ decision # "Unavailable"
        /\ user' = user \cup {"autostart"}
        /\ guard' = Append(guard, Entry("Artifact", "autostart"))
  /\ running' \in {running} \cup
       (IF decision # "Unavailable" THEN {running \cup {"dig-app"}} ELSE {})
  /\ UNCHANGED <<file, saved, staged, reg, decision, outcome, unmoved, claims, hist>>

(* register_scheme_handler and, on Windows, write_arp_entry.  The second   *)
(* handler's record, when there is one, undoes nothing more.               *)
Artifact(do) ==
  /\ Doing(do) /\ Proceed
  /\ \/ UNCHANGED <<user, guard>>
     \/ /\ user' = user \cup {row.on}
        /\ guard' = Append(guard, Entry("Artifact", row.on))
  /\ UNCHANGED <<file, saved, staged, reg, running, decision, outcome, unmoved,
                 claims, hist>>

Scheme == Artifact("scheme")
Harden == Artifact("harden")

(* guard.commit, cleanup_committed_backups and evaluate_readiness.  The    *)
(* verdict also depends on what is not modelled here (state directories,   *)
(* the TLS root, PATH), which may fail it.  Registrations are audited only *)
(* when the plan has a privileged program in it, the gate of the           *)
(* migration, and one whose path cannot be read back is not in the audit.  *)
ServiceReady(s) ==
  IF plan.start /\ s \in {"dig-node", "dig-dns"} THEN outcome[s] = "healthy"
  ELSE outcome[s] \in {"installed", "healthy"}

Audits == SUBSET (IF Privileged = {} THEN {} ELSE {s \in Services : reg[s] # "none"})

Ready(audit) ==
  /\ \A s \in Services \cap Selected : ServiceReady(s)
  /\ unmoved = {}
  /\ \A s \in audit : reg[s] # "legacy"

Finish ==
  /\ Doing("finish") /\ mode' = "done" /\ UNCHANGED <<at, runs, plan, machine>>
  /\ \E cleaned \in SUBSET {f \in Files : Logged("FileReplaced", f)} :
       saved' = [f \in Files |-> IF f \in cleaned THEN Absent ELSE saved[f]]
  /\ \E audit \in Audits : audited' = audit /\ ready' \in {FALSE, Ready(audit)}
  /\ UNCHANGED <<file, staged, reg, running, user, book, hist>>

---------------------------------------------------------------------------
(* rollback_partial_install: the guard's entries are undone last first; an *)
(* undo that fails is reported, and the rest goes on.                      *)
last == guard[Len(guard)]

(* Mutant: the entry in hand stays the one in hand. *)
UndoingAgain(kinds) ==
  /\ mode = "rollback" /\ guard # <<>> /\ last.kind \in kinds
  /\ UNCHANGED <<machine, plan, mode, at, verdict, runs, decision, guard, outcome, unmoved,
                 before, failedRegs, halted>>

Undoing(kinds) ==
  /\ mode = "rollback" /\ guard # <<>> /\ last.kind \in kinds
  /\ guard' = SubSeq(guard, 1, Len(guard) - 1)
  /\ UNCHANGED <<machine, plan, mode, at, verdict, runs, decision, outcome, unmoved,
                 before, failedRegs, halted>>

UndoFile ==
  /\ Undoing({"FileCreated", "FileReplaced"}) /\ ~Locked(last.on)
  /\ file' = [file EXCEPT ![last.on] =
                IF last.kind = "FileCreated" THEN Absent ELSE saved[last.on]]
  /\ saved' = [saved EXCEPT ![last.on] =
                IF last.kind = "FileCreated" THEN saved[last.on] ELSE Absent]
  /\ UNCHANGED <<staged, reg, running, user, claims, damaged, stuck>>

UndoStaging ==
  /\ Undoing({"StagingCreated"})
  /\ staged' = [staged EXCEPT ![last.on] = before.staged[last.on]]
  /\ UNCHANGED <<file, saved, reg, running, user, claims, damaged, stuck>>

(* Mutant: an undo that fails is not reported. *)
UndoFileFailsSilently ==
  /\ Undoing({"FileCreated", "FileReplaced", "StagingCreated"})
  /\ UNCHANGED <<file, saved, staged, reg, running, user, claims, damaged, stuck>>

UndoFileFails ==
  /\ Undoing({"FileCreated", "FileReplaced", "StagingCreated"})
  /\ damaged' = damaged \cup {last.on}
  /\ UNCHANGED <<file, saved, staged, reg, running, user, claims, stuck>>

(* deregister_service asks for a stop and for a deletion and then only     *)
(* looks whether the service still runs, which is what counts as failure;  *)
(* deregister_beacon looks whether the schedule is gone.  A claim that the *)
(* undone entry backs is retracted when the undo succeeded.                *)
(* Mutant: the claim of a registration that was undone stands. *)
UndoServiceKeepsClaim ==
  /\ Undoing({"ServiceRegistered"})
  /\ UNCHANGED <<claims, stuck>>
  /\ IF Addressable(last.on) THEN Set(last.on, "none") /\ running' = running \ {last.on}
     ELSE UNCHANGED <<reg, running>>
  /\ UNCHANGED <<file, saved, staged, user, damaged>>

UndoService ==
  /\ Undoing({"ServiceRegistered"})
  /\ UNCHANGED reg \/ (Addressable(last.on) /\ Set(last.on, "none"))
  /\ \/ /\ running' = IF Addressable(last.on) THEN running \ {last.on} ELSE running
        /\ claims' = claims \ {last.on} /\ UNCHANGED stuck
     \/ /\ last.on \in running /\ Addressable(last.on)
        /\ stuck' = stuck \cup {last.on} /\ UNCHANGED <<running, claims>>
  /\ UNCHANGED <<file, saved, staged, user, damaged>>

UndoBeacon ==
  /\ Undoing({"BeaconRearmed"})
  /\ \/ Set(last.on, "none") /\ claims' = claims \ {last.on} /\ UNCHANGED stuck
     \/ stuck' = stuck \cup {last.on} /\ UNCHANGED <<reg, claims>>
  /\ UNCHANGED <<file, saved, staged, running, user, damaged>>

UndoArtifact ==
  /\ Undoing({"Artifact"})
  /\ user' = user \ {last.on} \/ (last.on # "scheme" /\ UNCHANGED user)
  /\ UNCHANGED <<file, saved, staged, reg, running, claims, damaged, stuck>>

RollBack ==
  UndoFile \/ UndoStaging \/ UndoFileFails \/ UndoService \/ UndoBeacon \/ UndoArtifact

EndRollback ==
  /\ mode = "rollback" /\ guard = <<>> /\ mode' = "failed"
  /\ UNCHANGED <<host, machine, plan, at, verdict, runs, book, hist>>

---------------------------------------------------------------------------
(* The environment.  A restart puts the staged replacements in place and   *)
(* starts what is registered.                                              *)
Busy == mode \in {"steps", "rollback"}

Crash ==
  /\ Busy /\ mode' = "idle"
  /\ plan' = NoPlan
  /\ UNCHANGED <<host, runs, machine>> /\ Forget

StartImage(f) ==
  /\ file[f] \in Versions /\ (f \in Services => reg[f] # "none")
  /\ running' = running \cup {f} /\ halted' = halted \ {f}
  /\ UNCHANGED <<machine, file, saved, staged, reg, user, plan, mode, at, verdict, runs, book,
                 before, damaged, failedRegs, stuck>>

StopImage(f) ==
  /\ f \in running /\ running' = running \ {f}
  /\ UNCHANGED <<machine, file, saved, staged, reg, user, plan, mode, at, verdict, runs, book,
                 hist>>

Reboot ==
  /\ file' = [f \in Files |-> IF staged[f] = Absent THEN file[f] ELSE staged[f]]
  /\ staged' = [f \in Files |-> Absent]
  /\ running' = {s \in Services \cap Images : reg[s] # "none" /\ file'[s] \in Versions}
  /\ mode' = "idle" /\ plan' = NoPlan
  /\ UNCHANGED <<saved, reg, user, runs, machine>> /\ Forget

Environment ==
  \/ Crash \/ Reboot
  \/ \E f \in Images : StartImage(f) \/ StopImage(f)

Step ==
  \/ Supersede \/ Migrate \/ Resolve \/ Stop \/ Write \/ Place \/ Alias
  \/ Register \/ Autostart \/ Scheme \/ Harden \/ Finish \/ RollBack \/ EndRollback

Next == Begin \/ Step \/ Environment

Spec == Init /\ [][Next]_vars /\ WF_vars(Step)

---------------------------------------------------------------------------
(* A failed run leaves every file, and every replacement due at the next   *)
(* restart, as it found them, except those whose write broke off midway or *)
(* whose undo was reported as failed (note_binary_written, RollbackGuard). *)
RollbackRestoresFiles ==
  mode = "failed" =>
    \A f \in Files \ damaged : file[f] = before.file[f] /\ staged[f] = before.staged[f]

(* A failed run does not unregister a service of a program that was there  *)
(* before it, only a fresh install being recorded, and never a packaged    *)
(* unit.  And a service it stopped for an update that then failed, though  *)
(* nothing starts it again, can be: it is registered, from whatever root,  *)
(* and its program is the one it had, but for one reported as damaged.     *)
(* Not so for dig-relay, nor for a registration that failed, dns::install  *)
(* removing the old one first.                                             *)
Startable(s) == reg[s] # "none" /\ (s \in damaged \/ file[s] = before.file[s])

RollbackSparesServices ==
  mode = "failed" =>
    \A s \in Services \ (failedRegs \cup {"dig-relay"}) :
      /\ \/ before.reg[s] = "own" /\ before.file[s] # Absent
         \/ before.reg[s] = "packaged"
         => reg[s] = before.reg[s]
      /\ s \in halted => Startable(s)

(* A registration the report claims was re-armed after the migration is    *)
(* there when the run is over, whether it completed or was rolled back     *)
(* (retract_beacon_rearm_claim, retract_service_rearm_claims).             *)
ClaimsHold ==
  mode \in {"done", "failed"} => \A s \in claims \ stuck : reg[s] = "own"

(* Not selecting a component never costs the host its registration in      *)
(* silence: what the migration removed is registered again, or the run     *)
(* said that it is lost (rearm_after_migration).                           *)
DecliningKeepsRegistration ==
  mode = "done" =>
    \A s \in Services \ (Selected \cup failedRegs) :
      before.reg[s] # "none" => reg[s] # "none"

(* A run that says the host is ready leaves under a legacy root no         *)
(* registration but those its audit could not see (it sees none when the   *)
(* plan has no privileged program) and, services being started, every      *)
(* selected service registered (evaluate_readiness); but for one that was  *)
(* running without a registration when the run began, as an earlier run's  *)
(* failed undo leaves it, since to be seen running is to be healthy.       *)
Orphaned(s) == s \in before.running /\ before.reg[s] = "none"

ReadyMeansRegistered ==
  mode = "done" /\ ready =>
    \A s \in Services :
      /\ s \in audited => reg[s] # "legacy"
      /\ s \in Selected /\ plan.start => reg[s] # "none" \/ Orphaned(s)

(* A run that says the host is ready, services being started, has started  *)
(* again every service it stopped to replace its program.                  *)
ReadyMeansRestarted == mode = "done" /\ ready /\ plan.start => halted = {}

(* What a verdict of ready promises of the services: registered, and       *)
(* running what was installed.                                             *)
ReadyHolds == ReadyMeansRegistered /\ ReadyMeansRestarted

(* Every run ends: completed, rolled back, or dead. *)
RunEnds == Busy ~> ~Busy

(* Seen from outside, a run is the one step AtomicInstall makes of it: the *)
(* host's files are those it began with until it ends.                     *)
Root == IF Busy THEN before ELSE Snapshot

Atomic == INSTANCE AtomicInstall WITH
  Contents <- Content, open <- Busy, lost <- IF Busy THEN {} ELSE damaged,
  store <- [f \in Files |-> [now |-> Root.file[f], next |-> Root.staged[f]]]

RunIsAtomic == Atomic!Spec

---------------------------------------------------------------------------
(* What the source says of itself and the code does not do.                *)

(* lib.rs, on superseding an MSI: "The install below re-registers it from  *)
(* the current root, as the #565 migration relies on."                     *)
InstalledMeansRegistered ==
  mode = "done" =>
    \A s \in Services :
      before.reg[s] # "none" /\ outcome[s] \in {"installed", "healthy"} => reg[s] # "none"

===========================================================================
