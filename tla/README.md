# A TLA+ verification of dig-installer

dig-installer (Rust, `src/`) puts the programs of the DIG network on a machine: it
downloads release binaries, replaces those in place while they may be running,
registers operating-system services, migrates what older installers left, wires PATH,
DNS, TLS and URL handlers, takes back what it did when a step fails, and gives a
verdict, `ready`, that other programs act on. It also uninstalls all of that. It runs
elevated, once, with nobody to watch; every step may fail, the process may be killed,
services restart by themselves and a replacement of a running program happens only at
the next restart of the machine. What is hard is therefore not any step but what is
left after a sequence of them has been cut short.

## 1. Inventory

| part | state it keeps | operations | what makes it correct |
|---|---|---|---|
| binary replacement (`download.rs`) | the program file, a backup and a staging file beside it named by process id, the operating system's queue of moves at restart | back up, unlink, create, fill; stage and schedule on a sharing violation; sweep leftovers | the old program survives every failure; a staged update never touches the running file; leftovers never bring anything back |
| rollback guard (`hardening.rs`, `lib.rs` 2077-2297) | the list of what this run did | record, commit, undo last first | a failed run leaves what it found; an undo that fails is said; claims in the report are retracted |
| install run (`lib.rs` `run_report_gated`) | the report, the guard, the host | 31 rows in a fixed order, readiness | atomic seen from outside; `ready` true only if so |
| update decision (`update.rs`) | none | install, update, skip | never downgrades |
| migration and re-arming (`migrate.rs`, `rearm.rs`) | registrations under legacy roots | deregister, re-register what is not selected | never costs a component its registration in silence |
| superseding (`supersede.rs`, `msi.rs`) | MSI products, competing install roots | `msiexec /x` by upgrade code, delete roots | only a copy that this run replaces is removed |
| engine services (`service.rs`, `svc.rs`) | registrations with SCM, systemd, launchd | install with retry, start, poll, stop, deregister | a registration reported is there and runs |
| scopes and units (`svcscope.rs`, `units.rs`) | user and system unit files | find the unit that will really run | one registration, in the scope asked for |
| dig-dns and resolver (`dns/`) | service, per-system resolver settings, preferred DNS | install, uninstall, verify, doctor | `.dig` delegated while the service is there, the rest of DNS untouched |
| state directories (`daemon_dir.rs`) | directories with owner and access list | create, harden, verify | fail closed: no service before its directory is safe |
| TLS root (`tlsroot.rs`) | authority, leaf, trust anchor in the system store, ledger | harden, mint, trust, record, distrust | every anchor trusted is one the uninstall knows of |
| PATH and links (`paths.rs`, `pathcheck.rs`) | PATH entries, profile files, links | add, remove, verify in a login shell | idempotent; removes only its own |
| shared files (`hosts.rs`, `forcelist/`) | hosts file, browser policies | merge an entry, remove it | what others put there survives |
| per-user parts (`autostart.rs`, `launch.rs`, `scheme.rs`) | login entries, URL handlers | register, remove, launch de-elevated | removed with the component |
| audit (`regaudit.rs`) | none | list privileged registrations, deregister the beacon | nothing privileged runs from a legacy root when ready |
| beacon (`beacon.rs`) | the schedule of dig-updater | register, unregister | re-armed if the migration removed it |
| uninstall (`uninstall.rs`, `lib.rs` 4334-4826) | everything above | stop, deregister, delete, restore | goes on after each failure, reports residue, deletes nothing that still runs |
| release lookup (`asset.rs`, `release.rs`, `target.rs`, `sources.rs`) | none | a chain of requests with retries, pick an asset | never a program for another machine; a blip is survived |
| install-root security (`secure.rs`, `rootchain.rs`, `dirfd.rs`, `guardedcmd.rs`) | the levels of the install root, owner and mode of each, owner and access list of the program | make, repair, read back; look before a program is run | a run is ready, and runs a program as root, only over a chain no other account can change |
| firewall (`firewall.rs`) | one rule or exception | open, close by what the tool answers | goes with the uninstall |
| the rest (`elevation.rs`, `invoker.rs`, `health.rs`, `running.rs`, `proc.rs`, `manifest.rs`, `main.rs`, `error.rs`) | none or one file | gates, polls, one-shot commands | see section 8 |
| graphical installer (`gui/app/src-tauri`, `App.jsx`) | a wizard's pages, a worker thread, its events, an elevated child | start, cancel, report | whoever waits is told the end, and it is so |

How they interact. `run_report_gated` calls all others in one thread, in the order of
`Rows` in `Installer.tla`; each step that changes the host records it in the
`RollbackGuard`; the first hard error hands the guard to `rollback_partial_install`. The
service manager, the services themselves, the user and the next restart act at any point
in between: that is the concurrency of this system. State that outlives a run is all on
disk: programs, backups, staging files, the queue of moves, registrations.

The behaviours that are hard, each listed with its line under `hazards` in
`PROJECT.json`: death between unlink and the end of the write; telling a missing file
from a torn one; a program that starts or stops between the sharing violation and the
probe; a process id that comes back; a move that happens at restart whatever was
decided since; three different undos chosen by what the write recorded; an undo that
fails; a claim in the report that the rollback makes false; a service stopped for an
update that does not happen; a registration removed by one step and assumed by a later
one.

## 2. The modules

| module | models | in the run |
|---|---|---|
| `BinaryWrite` | one program file: every system call of its replacement, its rollback, the restart, the sweep of an uninstall | `write`, `write_failed` |
| `Installer` | `run_report_gated` over all components, guard, rollback, readiness, services that move by themselves | `install`, `install_small`, `reregister` |
| `AtomicInstall` | the abstract promise: a run is one transaction on the install root | instantiated by `Installer` |
| `EngineService` | one engine service, its scopes and units, the service manager that may not answer | `service` |
| `Uninstall` | the whole-stack uninstall: `orchestrate` and its actions | `uninstall` |
| `TlsRoot` | the TLS authority, its leaf, the trust anchor and the ledger of anchors | `tls` |
| `HostsFile` | the `dig.local` entry of a file others edit | `settings` |
| `Forcelist` | the extension's entry in each browser's policy | `settings` |
| `UserSession` | dig-app's login entry, for whom it is written, its launch | `settings` |
| `Desktop` | link handlers and the firewall exception | `settings`, `foreign_handlers` |
| `PathWiring` | PATH, login fragment, links, the superseded root, the lookup in a login shell | `settings` |
| `GuiRun` | wizard, worker thread, elevated child, events, cancel | `machine` |
| `ReleaseFetch` | from a repository's name to the asset fetched, with retries | `machine` |
| `Resolver` | the dig-dns service and the resolver it is wired into | `machine` |
| `DaemonDir` | the daemons' state folders behind tools that may do nothing | `machine` |
| `WebviewDir` | the levels above the window's profile | `machine` |
| `InstallRoot` | the levels of the install root: made, repaired, read back, looked at before a program is run | `settings` |
| `RegAudit` | registrations off the old folder, and the audit | `machine`, `rerun_heals` |
| `MCBinaryWrite`, `MCInstaller` | the instances of the first two | |
| `MCSettings`, `MCMachine` | the instances of six components each, one at a time, parameterised by what the runs bound | `settings`, `machine` |
| `*_proofs` | eight modules of theorems, section 5 | |

The components of `MCSettings` share no state in the code but the report, and those of
`MCMachine` none that their modules do not already hold: the instance chooses one component at
the start (`which`) and runs it alone. Each property there is of one component and says so:
`EditsHold` is `which = "hosts" => H!EditsHold`. Where components do interact the
interaction is in one module: `Installer` (steps of a run meeting in files,
registrations and processes), `Uninstall` (a teardown that fails and the program it
still needs), `EngineService` (installer, program, service manager, user),
`PathWiring` (PATH, links and the superseded root). What one module takes of another
it takes as an outcome: `Installer` of `BinaryWrite` (replaced, staged, failed whole,
failed torn), `Uninstall` of the settings (gone, left, said so or not).

### BinaryWrite

`dest` is the program's path, `backup[p]` and `staging[p]` the files `sibling_path`
names after process `p`, `renames` the queue `MoveFileEx` keeps, `running` whether a
process runs from `dest`. `pc` is the point in `download_binary` ..
`replace_binary_with` .. `undo_install_action` the run has reached, with one phase
between any two calls that can fail or be cut off; `new`, `held` (a backup was taken),
`recorded` (the `WriteOutcome` noted in the guard) are its locals and die with it.
`prior` and `result` are history: what the host ought to have, and how the last run
ended. A file's content is a release, nothing, `Torn` (a write that broke off) or
`Planted` (something that is not a regular file, such as a link). `windows` says whether
a running image can be unlinked; it never changes and is a variable only so that one run
of TLC takes both. Each action is one call with its outcomes; `Crash`, `Reboot`,
`StartImage`, `StopImage` are the environment, `Uninstall` the deletion with its sweep.
A process id comes back at any time, but in one case: `Begin` does not give a run the id
under which a move is still queued. That is a bound of the model, not a guard of the code
(`download.rs:399` looks at nothing). Without it the second run's staging file is moved
into place by the first run's entry, and after a rollback that leaves such an entry
`RollbackIsFinal` cannot tell whose move it was, since the queue has no more than the
name; the other four properties hold without it (385,678 states with a queue of two).

### Installer and AtomicInstall

The host is `file`, `saved`, `staged` (each program with its backup and its pending
replacement), `reg` (each service: `none`, `own` from this install root, `legacy` from
an old one, `msi`, or a distribution's `packaged` unit), `running` and `user` (login
entry, URL handler, Add/Remove Programs entry). The run is `plan` (`InstallPlan`), `at`
(the row reached), `decision`, `guard`, `outcome`, `unmoved`, `claims`, `audited`,
`ready`: the locals and report fields of `run_report_gated`. `audited` is the services
whose program the final audit read back: any of those registered, since a path that
cannot be read is passed over (`regaudit.rs:185`), and none when the plan has no
privileged program, which is the audit's gate (`lib.rs:2000`). The migration, too, takes
only what it could read. `before`, `damaged`, `failedRegs`,
`stuck` and `halted` are history.

`Rows` is the order of the code; `Proceed` goes to the next row the plan has. One action
per kind of row: `Supersede`, `Migrate` (with the re-arming that follows it), `Resolve`
(with the update decision), `Stop`, `Write`, `Place`, `Alias`, `Register`, `Autostart`,
`Scheme`, `Harden`, `Finish` (commit, backup cleanup, readiness). A row that fails hard
sets `mode` to `rollback`, and `UndoFile`, `UndoStaging`, `UndoFileFails`,
`UndoService`, `UndoBeacon`, `UndoArtifact` take the guard apart from its end.

In `AtomicInstall` it is `Open`, then one of `Commit` (each program is as it was, or the
release, or due to be), `Abort` (as it was, but for those named in `lost`) or `Die`.
While a run is open the abstract store is the one the run found (`Root`), so the step
that ends the run is the step that shows what it did.

### EngineService

`unit[s]` is what scope `s` has of the service (`none`, `enabled`, `disabled`, on
Windows one pending deletion), `packaged` a distribution's unit. `pc` goes through the
registering half of `lib.rs`: the list of units (`existing`), `TryInstall` with its
bounded retries, the tolerated failure, the scope it settled in, the start with its
polls, the sweep of units that shadow it; and through the two removals, through the
program (`uninstall_engine_service`) and by id (`teardown_service_by_id`). `result` is
what is reported: whether the registration survives a restart, whether a removal is
certain. A program may be too old to know of scopes; a call that fails may have done its
work; `late` remembers that the user registered or removed the service himself between
the list and the end.

### Uninstall

`there` is what is on the machine besides programs (`Artifacts`), `bin` where each
program lies, `links`, `leftovers` and `queued` the deletions due at the restart. One
action per step of `orchestrate`, in its order; each notes in `ok` whether it said it
succeeded, and the services whose teardown failed go to `failed`, whose programs
`Delete` keeps. `unseen` collects what a step was told was gone and was not; it is how a
tool that answers wrongly is told from a bug. `BestEffort` names the steps whose result
the code drops.

### TlsRoot

`file` is the four files of material and the ledger (`trust.json`), `anchor` the file in
the distribution's anchor directory, `store` what the system trusts. An authority is the
number of its mint (`fresh`), a file's content the authority it is of, nothing, or
`Torn`. `pc` is the point in `provision_at` or `remove_trust_and_root_at`, with one phase
for each file written and each external tool. `found` (the root the run found) and
`adrift` are history. `adrift` collects the authorities whose entry a failure has lost:
without it the ledger's promise is false, and with it the promise says that nothing else
loses one. The environment is `Crash` and, on Linux, `RebuildByOthers`: any package may
have the bundle rebuilt, which makes an anchor file trusted that an earlier run left.

`dig_cert`, the operating system's store and the bundle tools are not in `src/` and are
modelled from their use. Whether `dig_cert` accepts a key and a certificate of two
authorities, as a mint cut off between the two files leaves, is the constant
`MixedPairParses`.

### The settings

The first five read something others own too, decide, and write; the read and the write are
two steps, and the others act between. Each keeps a history variable for what it could
not know (`lost`, `raced`: edited between the look and the write), so that the property
says that nothing else is lost.

- `HostsFile`: a file is a set of lines, each an address, names and our marker;
  `EnsureDigLocalEntry` and `WithoutDigLocalEntry` are operators on it; `Replace` the
  rename with its retries.
- `Forcelist`: `policy[b]` per browser, a table of numbered values on Windows, one file
  on macOS that is ours or not, a fragment of ours on Linux. A reinstall is a removal
  and an addition, reported as one outcome.
- `UserSession`: who owns each of the three folders down to the entry, the entry itself,
  an earlier release's systemd unit, and the accounts for which the run acts; each in a
  home and, on Linux, where `XDG_CONFIG_HOME` has the user's configuration. A run for
  another account cannot see that variable (`Place`, `OutOfSight`). `removed` is what
  each call of `deregister` says, which for a `Run` key that cannot be opened is that
  nothing was there (`unopened`); `enable --now` enables the unit again (`EnableNow`).
- `Desktop`: per scheme the command or desktop file and default, `rules` the firewall's
  exceptions. A command is ours, another program's, or another's that passes for one that
  starts dign (`alike`): `Ours` takes that for ours on the schemes of dign, as
  `is_our_handler_command` does (for the older `handle-url` form too), and not on dig-app's, whose command is told by its
  program.
- `PathWiring`: the two PATH scopes of Windows as sequences, on Unix the base PATH, the
  fragment, start-up files and the link in `/usr/local/bin`; `old` is the superseded
  root and `uses` who needs it; `Resolves` the lookup of a new login shell. `Without` is
  the filter of `path_remove`, written as a recursive function and not with the library's
  `SelectSeq`, so that the prover can be told what it does.
- `InstallRoot`: `level[l]` is what is at the path of level `l` (nothing, a link, or a
  folder with owner and mode), the first the system's own, the others DIG's where `ours`;
  on Windows the modes stand for the access lists, which the levels below inherit. One
  action per call of `ensure_levels` and `force_system_ownership`, with every tool free
  to exit cleanly having done nothing; `Walk` is `rootchain::verify`, one level at a
  time, before the old program is asked for its version (twice: `GuardedCommand` looks
  again) and as the verdict. `OtherModes` and `OtherReplaces` are other accounts: who
  owns a level sets its mode, who can write it replaces what is below. The Unix code
  holds descriptors, so it may go on in a folder that is no longer at its path: `astray`,
  from where what it does changes nothing and what it reads may be anything.

### The machine

- `GuiRun`: `page`, selection and found browsers are the wizard's; `workers` a sequence
  of worker threads, each at one phase of `run_install` with the options it was given;
  `events` the queue between. Clicks come after queued events have been handled.
- `ReleaseFetch`: `request` is the call in flight (by tag, latest, list, probe, download)
  with `tries`; `hosted` what the renamed and the legacy repository have; the choice
  among assets is `matched_candidates`. `permissive` is the candidate of dig-app that could not
  be inspected.
- `Resolver`: `todo` is the set of calls still to make, different on each system and
  taken in the one `Order`; `program` and `reg` number the run that wrote them, so that a
  stale one shows; `proc` is the process with the settings it started with. What dig-dns
  reports of a wiring (whether anything was applied, whether it is live, whether it wants
  a restart) is free; `RestartReason` makes the prompt of it, and of a report of nothing
  applied none. `told` remembers that a run since the last restart of the machine asked
  for one, `lost` that a run wired the resolver and died or had no report of it.
- `DaemonDir`: per daemon a folder with owner, explicit grants, whether it inherits, and
  whose files it has. Every tool may exit cleanly having done nothing; only
  `verify_locked_dacl` and its Unix counterpart look. A folder found in a user's hands is
  given to the system, with what is in it, before it is removed; `taken` remembers the
  folders for which the removal then failed. A user makes a folder that is not there and
  writes into one that lets them at any time, also while a run has it in hand.
- `WebviewDir`: three levels made and locked one below the other, by a launch that may
  be killed between any two. `link` is the levels that are reparse points, looked for at
  the start of a launch and again before the window gets the folder; users make folders
  and links, and take theirs away, at any time. `taken` is as above.
- `RegAudit`: `unit[r][s]` is registration `r` in scope `s`: its folder, whether a boot
  starts it, whether it runs. `Scan`, `VacateService` and `VacateBeacon`, `Audit`.

## 3. The runs

| run | asks | bounds |
|---|---|---|
| `write` | is the old program ever lost; is a rollback, a staged update, an uninstall final | 2 process ids (symmetric), 2 releases, both kinds of host |
| `install` | what a failed run gives back, what a completed one may claim | one run on each of four hosts, 2 releases |
| `install_small` | does every run end; is it atomic | two runs in a row on two smaller hosts |
| `service` | is what is reported of a registration or removal so; does a run end | 2 looks at the service, three systems; runs not bounded |
| `uninstall` | what complete means; is a service's program kept; does a clean run complete | 2 failing calls, three systems, one or two roots; runs not bounded |
| `tls` | which authority is trusted, who remembers it, what a run may say of its root | 2 mints, mixed pairs parse; runs not bounded |
| `settings` | what becomes of settings and folders others may change too | 2 or 3 runs, 1 or 2 edits by others, 2 browsers, 2 failures |
| `machine` | window, lookup, resolver, folders, registrations: what each reports is so | 2 or 3 runs or launches, 2 to 4 failures |
| `write_failed`, `reregister`, `foreign_handlers`, `rerun_heals` | violations: section 6 | |

Why the bounds are enough. One process at a time writes a file; two process ids are what
it takes for one run to find the files of another and for an id to come back while they
are there. Two releases are what it takes to be old, current or newer. In `Installer`
components meet only through the guard, the order of rows, `legacy` registrations (the
migration takes all or none) and the stop of a service, so each host has the two or
three components that meet there, and the four hosts together fire every row: a service
beside one that is not selected; an MSI under an installed program, with a later row
that can fail; the services with registrations of their own kind (dig-dns, the beacon);
and a package beside a per-user program. `install_small` takes two runs because a run's
memory (`guard`, `claims`) must not leak into the next.

`BinaryWrite`, `EngineService`, `Uninstall` and `TlsRoot` do not count runs at all; what
is bounded there is what a run counts itself (looks, mints, failing calls). Two failing
calls are one that leaves something undone and one that misreports it; with none bounded
the same states are reached, since a failure changes nothing a state does not show. In
`TlsRoot` one mint, and another over it, is what it takes for an authority to be
orphaned and for a key to meet the certificate of another; `MixedPairParses` is true in
the run, which is the case with more behaviours. In the two composite runs two runs of a
component are what it takes for the second to meet what the first left, three where the
uninstall of a third matters (`Desktop`, `Resolver`), one edit by others is what it takes
to fall between a look and a write, two what it takes for the file to change again
before the retry. `ReleaseFetch` takes one failure more than a request has attempts, so
that giving up too early and giving up rightly both happen. `InstallRoot` takes two acts of
others, to open a level and to replace what is below it, and two failures, a tool that did
nothing and the reading that would have told.

`settings` and `machine` switch the deadlock check off because a bounded number of runs
ends; the other runs check it.

Several of a component's promises are one definition (`ReadyHolds`, `WiringHolds`,
`ChoiceHolds` and so on); the comment above each of its parts says what it is about. In
`settings` and `machine` each definition contains the type invariant of its module.
Every passing property has a mutant in the module itself (comment `Mutant:`), a bug of
the kind someone could introduce, under which TLC finds the property violated.

Those to read first: `PriorRecoverable` and `UninstallIsFinal` (`BinaryWrite`);
`RunIsAtomic`, `RollbackSparesServices`, `ReadyHolds` (`Installer`); `OneServes`
(`EngineService`); `NeverOrphansService`, `CleanRunCompletes` (`Uninstall`);
`AnchorsAccounted` (`TlsRoot`); `WiringHolds` and `OldRootNeeded` (`PathWiring`);
`FolderHolds` (`DaemonDir`); `RootHolds` (`InstallRoot`); `EndIsTold` (`GuiRun`).

## 4. Fairness

- `Installer`, `EngineService`: `WF_vars(Step)`: the installer's process, while it lives,
  is scheduled, and no call blocks for ever. The code is one thread of straight code,
  every wait is bounded (`wait_for_service_running`, the HTTP timeouts, the bounded
  retries of the service manager) and every command it runs is a one-shot. `RunEnds`
  needs no more.
- `GuiRun`: `WF_vars(Worker)` and `WF_vars(Deliver)`: the worker thread is scheduled, its
  elevated child ends and its prompt is answered or closed, and the window's event loop
  runs. `EndIsTold` needs both.

No fairness is assumed of services, of the user or of restarts, and none of `Crash`.
All other modules state safety only and have no fairness.

## 5. What is proved

Every safety property of every passing run is a theorem, for every value of the
constants. Eight modules hold the proofs:

| module | properties, as theorems | for every | assuming |
|---|---|---|---|
| `BinaryWrite_proofs` | `TypeOK`, `PriorRecoverable`, `RollbackIsFinal`, `StagedLeavesDest`, `UninstallIsFinal` | set of process ids, number of releases, kind of host, value of `ForceReinstall` | `PidsAssumption`, `VersionAssumption`, `FlagAssumption` |
| `Installer_proofs` | `TypeOK`, `RollbackRestoresFiles`, `ClaimsHold`, `RunIsAtomic` | set of hosts and plans, number of releases and runs | `MachineAssumption` |
| `InstallerServices_proofs` | `RollbackSparesServices`, `DecliningKeepsRegistration`, `ReadyHolds` | the same | `MachineAssumption` |
| `EngineService_proofs` | `TypeOK`, `SurvivesReboot`, `OneServes`, `RemovalHolds` | number of looks | `PollsAssumption` |
| `Uninstall_proofs` | `TypeOK`, `CompleteMeansGone`, `NeverOrphansService`, `CleanRunCompletes` | number of failing calls | `MaxFailuresAssumption` |
| `TlsRoot_proofs` | `TypeOK`, `WorkingAuthorityKept`, `CreatedIsUsable`, `AnchorsAccounted`, `TrustedMeansRecorded`, `UninstallForgets` | number of mints, value of `MixedPairParses` | `MintAssumption` |
| `Settings_proofs` | `EditsHold`, `EntryHolds`, `PolicyHolds`, `HandlersHold`, `RootHolds`, `WiringHolds`, `OldRootNeeded` | set of browsers, number of runs, of edits and acts of others, of failures | `BrowsersAssumption`, `BoundsAssumption` of `MCSettings` |
| `Machine_proofs` | `WizardHolds`, `ChoiceHolds`, `ResolverHolds`, `FolderHolds`, `WindowHolds`, `MigrationHolds`, `ForeignKept` | set of browsers, of people and of services, number of attempts, runs, clicks and failures | `PeopleAssumption`, `ServicesAssumption`, `AttemptsAssumption`, `BoundsAssumption` of `MCMachine` |

The assumptions say no more than the code does: bounds are natural numbers, there is
somebody with an account, the beacon is not among the services (it has rows of its own),
a request is attempted at least once (`HTTP_ATTEMPTS`). The theorems of the
composites are of their components one at a time, like the runs; each contains the
component's type invariant.

None of the invariants is inductive: each says what holds when a run is over, and a
step's effect depends on where the run is. Each module's `Invariant` adds that. The proof
has one lemma per action, or per group of actions that disturb the same parts.

**BinaryWrite.** `RunsAreBusy`: a run is in progress exactly when `pc` is not `idle`;
`DestByPhase`: up to the unlink `dest` is `prior`, in `create` absent, in `fill` torn, in
`hardError` one of the three; `NothingRecorded`: before the record is made no move is
queued for this pid; `BackupByPhase`: from `unlink` on a backup is held exactly if
`prior` is a regular file, and then holds it; `RecordIsTrue`: the record fits what is on
disk, so that the undo it selects puts back `prior`; `RolledBackOwesNothing`,
`UninstallSweeps`: after a rollback, or a complete uninstall, no queued move finds its
staging file. This is why a restart cannot undo them: the queue itself is never edited.

**Installer, files.** `Accounts` is what holds all along: the guard's entries account for
every difference between the files and `before`. `OncePerFile`: a file has at most one
entry, otherwise the undo of the second would bring back the state between the two.
`EntriesBehind`: an entry was made by a row the run has been through, and no two rows
write the same file (`WritesDiffer`), so the row in hand finds its file without one.
`EntriesTrue`: an entry says what became of its file, what the backup holds and what is
due at the restart, so that its undo gives back `before`. `UntouchedSame`,
`DamageKnown`: a file without an entry is as it was, except the damaged. `NothingOwed`: a
rollback ends with an empty guard. `ClaimsBacked`: what is claimed is registered now, and
of a component the plan does not select, so no later row touches it.
The implementation of `AtomicInstall` maps `store` to `before` while a run is in progress
and to the host's files otherwise; `BusySlots` draws from `Accounts` what state each
program can be in, and `AtomicStep` that `Begin`, `Finish`, `EndRollback`, `Crash` and
`Reboot` are the abstract steps and all others stutters.

**Installer, services** (`Standing`). `Order`: what has been reported of a service was
reported behind the row in hand. `Fresh`: between a service's resolution and its
registration the decision in hand is its own, and `Install` means that its program was
absent when the run began: this is why only fresh registrations are in the guard.
`Undoable`, `Sparing`: every entry of the guard may be undone without taking a
registration that has to stay. `Kept`: what the plan does not select is registered if it
was, or its loss is said. `Backed`, `Verdict`: what is reported healthy is registered
and not halted, except the `Orphaned` (section 6), and readiness is a conjunction over
what is reported and what was audited. `Stopping`: a service stopped for its update had
a program when the run began and goes on being registered, so a failed run, which puts
the program back, leaves something to start it from. One lemma per action; those that touch no service go through one
(`Standing` framed).

**EngineService.** `Starts`: from the registration on, the machine starts the service;
`Unsaid`: what a run has not yet said; `Alone`: a run that will say that one registration
is left has put nothing into the user's scope, and after the sweep there is nothing.

**Uninstall.** `Settled`: a service the run is past is gone or among the failed, whose
programs stay, and then the run has said so; `SaidSo`: what every step having said so
comes to, phase by phase. `CompleteIsGone` follows at the scan. `Clean` is of runs in
which no call fails: each step has said so, except that off Windows dig-dns failed
because it was not there, and what the run is past is gone, so there is nothing for the
scan to find. It is apart from `Invariant`, which holds of all runs.

**TlsRoot.** `AnchorsKept`: an authority that is trusted and not adrift is the root's,
and `should_skip_mint` holds of that root, so a run that mints finds none to orphan:
this makes `AnchorsAccounted` inductive although the ledger holds one entry; `Minting`,
`Trusting`, `FoundTrue`: what each phase has written so far and that a usable root found
at the start is still there; `ResultTrue`: there is a result between runs only.

**HostsFile.** `HostsReplacement`: what is about to be put in place says all that others
had in the file as it was read. Of the edits themselves `HostsEditUndone` says that each
is idempotent and that a removal undoes an addition exactly, in a text that spoke neither
of dig.local nor had a line of ours (the round trips of `hosts.rs:582` and 639, for every
text). **UserSession.** `SessionProgress`: an entry is written
into folders that were handed over, and a report says what was done on the way;
`SessionUser`: nobody is handed root's folders; what a run says is of the place it wrote
to, which is the one the session starts from but for a run that cannot see it.
**Forcelist.** `PolicyLooked`: what the
look found bounds what the write may hit, since only the run adds entries of ours and
what others add meanwhile is `lost`; `PolicyProgress`: browsers to come have no outcome,
and a reinstall that goes on to write without having removed finds the entry it met.
**Desktop.** `DesktopAdding` and `DesktopRemoving`: the schemes a run has been through
are ours or somebody's claim, or gone; only what passed for ours at the look is deleted,
and `DesktopWhere` has that what passes for ours without being so is a `lookalike`.

**InstallRoot.** `RootHeld`: while the chain is walked, every level above the one in hand
is a folder no other account can change. That is why a look may be relied on though
others act between any two calls: who could replace a level would need to write the one
above it, which has been looked at. `RootEnsuring` and `RootRepairing` say the same of
levels that are being made or repaired, as long as nobody had the means to interfere;
`RootWhere` in whose root each step is taken.

**PathWiring.** `PathRead`: what was read of a scope has others' entries as they ought to
be, until they change it; `PathWired`, `PathLinked`, `PathDropped`: what a run without a
failure has achieved so far. That entries keep their order needs facts on sequences,
which are lemmas in front: what is left of a sequence without certain members is the
same after one of those is appended or filtered out. `PathEditUndone` is made of them:
adding and removing are idempotent, a removal takes every occurrence and nothing else,
and it undoes the addition that made the entry, on a PATH of any length. An empty entry
(a trailing separator) is no member of these sequences; `path_append` uses one up.

**ReleaseFetch.** `FetchShape`: each attempt at a request but the first has been paid for
with a failure, so an answer `network` means as many failures as a request has attempts;
`FetchProbing`: until a download has failed for good, no build of dig-app looked into so
far is known to load; and with none kept as `permissive` all are known not to.

**GuiRun.** The proof is about a queue and any number of workers. `GuiWorkers`: only the
last worker is at work for the window, all others are over or orphans of a closed one;
`GuiQuiet`: whatever is shown or queued was sent by a worker that has ended, so no other
event can follow; `GuiTold` what a queued event stands for, `GuiBuilt` what the worker
has put in place so far, `GuiList` what the list of browsers remembers. Orphans may undo
what they began, so `GuiBuilt` speaks of windows without one, like `FinishMeansDone`.

**Resolver.** `RunSteps`: with the service's stop behind it a run has only what follows
left, so what each step may count on is read off `todo`. `Standing` holds whatever has
failed: on Windows only what is registered runs, so the program that could not be
replaced was there; without its program nothing is registered, nor wired unless
taking the wiring back failed. `Telling`: no run asks for a restart before it has wired
the resolver, and what is wired and not live has been asked for by this run or by one
before it, or lost. `Installing`: in a run without a failure, between the
stop and the registration nothing runs off Windows and nothing is started, so what runs
after it is the new program with the new settings. `Uninstalling`: each step's own
part of nothing left.

**DaemonDir.** `RowsSoFar`: the folders behind the row in hand are as their row says, and
stay so though the daemon and users go on writing; `InHand`: the folder in hand has, from
the look on, only files that may be there; `Apart`: what a user left in a folder of
theirs lies in one that is still theirs, or was taken from them and not removed.
**WebviewDir.** `WindowProgress`: the levels above the one in hand are locked, so nobody
else changes them; `CleanLists`, `CleanOwners`: a level that is no link, was never taken
and hangs from one such has, in the system's hands, no entry of a user's, and after the
look is no user's; `ProfileKnown`: a user's profile in such a level lies in a folder
still the user's, and ours in folders no user can write. **RegAudit.**
`AuditInvariant` adds little (`UnitsFit`: a unit has a program or is nothing at all, and
launchd's file is loaded at the next boot); what a run may say is read off the scan's
answers, which are part of the state (`has`, `vacating`, `retired`, `blind`).

The library's induction theorems take an operator as a parameter, which the provers
cannot instantiate. What has to be proved of sequences of any length (`Without`, the
workers, the queue) is proved by least counterexample instead, from `NatMin`: a set of
numbers that is not empty has a least one.

Only model-checked: the liveness properties `RunEnds` (both) and `EndIsTold`, which are
outside the prover's reach.

## 6. Where the code does not do what the source says

With a run that shows it:

- **A write that breaks off loses the program** (`write_failed`). `download.rs:656`
  promises that "a failed write never subtracts a working binary"; when `write_all`
  fails the new file exists, torn, and the branch at 659 takes that for a file worth
  keeping and deletes the only whole copy.
- **An up-to-date program loses its service to the MSI step** (`reregister`).
  `lib.rs:1199` relies on the install below to register it again; `register_dig_node`
  has nothing to do for a program that is up to date (`lib.rs:3625`).
- **The uninstall deletes another program's link handler** (`foreign_handlers`).
  `scheme.rs:312`, 425 and 455 promise that a handler goes only when its command is the
  exact shape this installer writes; `is_our_handler_command` (464) asks whether `dign`
  occurs anywhere in it and whether it ends with `open "%1"`. `TheirsKept` says what does
  hold: such a handler is lost on the schemes of dign and on no other.
- **Running again does not heal a failed audit** (`rerun_heals`). Every finding advises
  it (`regaudit.rs:234`); the migration vacates only known legacy roots, and what it has
  no program for stays.

Met while modelling, without a run of its own; each is in its module as the code has it,
and where a property is concerned the property names the exception:

- **An uninstall without dig-dns is never complete off Windows.** `uninstall.rs:26` has
  "already absent" as success, and `dns/mod.rs:123` "confirmed gone"; `dns/linux.rs:373`
  and `dns/macos.rs:345` count a service as removed only if the removal succeeds. It is
  the exception in `CleanRunCompletes`.
- **A folder whose removal fails is trusted by the next run.** A folder with an untrusted
  owner is given to the system so that it can be removed (`daemon_dir.rs:850`, and 710
  for the window's levels, recursively). When the removal fails the run refuses the
  folder, as the comments promise (846), but it is the system's now with the other's
  files in it, and the next run takes it for its own (`taken` in both modules).
- **A login entry reported removed may remain.** A `Run` key that cannot be opened passes
  for one that is not there (`autostart.rs:599`, whose comment says so). A run for
  another account does not look where that account's `XDG_CONFIG_HOME` points
  (`autostart.rs:378`), against the contract at 566 that an uninstall does not look in
  the wrong scope "and declare success".
- **A failed undo is taken for health.** A rollback's deregistration that removes the
  entry but leaves the process running makes the next run find the service healthy
  (`register_dig_node`, `verify_existing` look at processes only) and say ready with
  nothing registered (`Orphaned`).
- **A service stopped for an update that does not download stays stopped**
  (`lib.rs:1397`; `SPEC.md:1826` has the prior state restored), and a failed run
  unregisters a dig-relay that was there before (`lib.rs:1880`, `SPEC.md:1819`).
- **A restart can downgrade**: a run that replaces a file in place does not cancel the
  move an older run queued (`download.rs:616`, `update.rs:472`).
- **A torn leaf is kept for good**: `should_skip_mint` looks at which files exist
  (`tlsroot.rs:227`, against line 82); and a failed revert of trust is complete
  (`tlsroot.rs:902`, `SPEC.md:1745`).
- **A legacy repository stands in on any error** of the lookup, not only when there is
  no release (`lib.rs:3515`, against 3497); an empty list of releases counts as a network
  error (`download.rs:164`).
- **A macOS program can be taken for a Linux one**: the bare "x64" token matches an asset
  without extension (`asset.rs:62`, against the comment at 46).
- **A rename over a hosts file that is not UTF-8 replaces it** (`hosts.rs:323`), and a
  Windows PATH value that is not text (`paths.rs:505`).
- **A folder's lockdown that fails deletes the daemon's state** with the folder, and an
  owner that cannot be read counts as a stranger's (`daemon_dir.rs:844`).
- **A deregistration is judged by whether the service runs** (`svc.rs:702`), so one that
  stays registered but stopped counts as done; Linux asks the user's scope first and a
  user's unit hides the machine's; a `bootout` leaves the file, which the next boot loads.
- **A tolerated failure may leave a disabled registration** reported as surviving
  (`service.rs:361`); on Windows the units are not listed (`units.rs:57`).
- **The login entry's unit is started after it was removed**: on Linux `launch.rs:160`
  starts the unit the registration just took away (comment at 41).
- **The wizard's window**: closing it kills the worker while an elevated child goes on,
  and a window opened again may start a second run; only the wizard keeps `run_install`
  to one; an extension chosen before the browsers are listed is forced nowhere, silently;
  `install.rs:697` speaks of a deferred step that does not exist.
- **A root that cannot be read blocks**: `secure.rs:235` and `lib.rs:3015` say that an
  inconclusive read is only a warning; `is_blocking` (`secure.rs:318`) blocks on it
  (`Blocking`). On Windows only the last level is read, and a level that is absent
  counts as safe (`rootchain.rs:282`).
- **dig-dns**: a wiring that fails after an earlier one gives no restart prompt, a run
  that skips or finds nothing to apply never repeats one, and off Windows a failed registration is reported as
  installed.

Smaller, and likewise modelled as the code has it:

- `download.rs:849` says a staged file that cannot be adopted "does not abort the
  update"; the code returns the error (860), and the run fails (`AdoptStaged`).
- `download.rs:590` and `SPEC.md` 3.7 expect a write over a running program on Linux to
  fail with ETXTBSY; the file is unlinked and created anew, so it does not (`Unlink`).
- A login entry or URL handler is recorded also when it was there before, and the
  rollback removes it (`Autostart`, `Artifact`, `UndoArtifact`).
- `SPEC.md` 4.2 has `ready` only with every service verified running; for dig-relay only
  `installed` is asked (`ServiceReady`).
- Deregistrations by the migration are not in the guard, so a run that fails afterwards
  does not restore them. The properties about failed runs except `legacy` registrations.
- `tlsroot.rs:25` says that "Every installed anchor is recorded"; the record is written
  after the anchor is in, and is lost with a root that is purged (`adrift`).
- A packaged dig-node is left as it is and never counts as running, so such a host with
  services to be started is never ready (`KeepService`).
- The link into `/usr/local/bin` replaces a user's own file; any mention of the directory
  in a start-up file counts as wiring (`paths.rs:1263`); macOS `paths.d` cannot be
  prepended to (986); the block at 1277 cannot be reached.
- `forcelist`: a removal that fails inside a reinstall is masked by the addition, a key
  that cannot be opened reads as nothing to remove, a torn macOS file is never ours again.

## 7. Plan

Done: the rollback and replacement of programs, the install run, the TLS root, engine
services with scopes and units, the uninstall, the shared settings, the window, the
lookup, the resolver, the folders, the install root, and the audit; and the proofs of
section 5. What is left:

1. Of the invariants that are apart from a run's properties, the ones worth stating as
   theorems of their own (that a run holds the levels above its own closed, that the
   steps ahead of a resolver run are in order).
2. An abstract specification of an edit of a file others edit too, with the three
   modules that make one (`HostsFile`, `Forcelist`, `Desktop`) as its implementations.
3. Composition of `Uninstall` with `EngineService`, in place of the outcome it takes.

## 8. Not modelled

- Two installers at once on one install root: no code excludes or handles it, and nothing
  promises anything of it. The wizard's part, that one window has one worker, is in
  `GuiRun`.
- The second lookup of dig-store, under the name its assets had before
  (`resolve_dig_store`, `lib.rs:3443`): a second chain of requests of the same shape.
  `ReleaseFetch` has the chain of dig-node with its legacy repository.
- The lookup of `dig.local` by the system's resolver (`hosts.rs:387`): its answer is free
  in `HostsFile` and nothing is promised of it.
- In `WebviewDir`: a link that appears and is taken away again while one launch is under
  way, between its two looks. In `DaemonDir`: what a user puts into a folder while a run
  has it in hand stays there (`during`); the code does not look at what a folder
  contains, and nothing is said of those files.
- Of the install root: the refusal of paths that are relative or contain `..`, the second
  verdict for the Add/Remove Programs step, the helpers that read and remove links (the
  links themselves are in `PathWiring`). In `Installer` the verdict on the root is a free
  choice, `ready' = FALSE`.
- How the invoking user is found (`invoker.rs`, `elevation.rs`): decided before anything
  changes. What follows from it is in `UserSession` and `GuiRun`.
- `manifest.rs`: one file written once, nothing in this program reads it. `health.rs`:
  one poll whose answer enters a note only. `error.rs`, `main.rs`: no state.
- The window's own uninstall entry; layout and wording of the front end; the doctor's and
  the plan's text of `dns/`.
- Contents of registry values, unit files and HTTP replies; version strings.
- A pinned older version: it stands for `Latest`, a host with a newer one for one that
  has it.
