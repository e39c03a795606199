----------------------------- MODULE Resolver -----------------------------
(***************************************************************************)
(* The dig-dns service and the resolver it is wired into (dns/): stopping  *)
(* the service before its program is replaced, the clean reinstall on each *)
(* system, the wiring that dig-dns makes and takes back itself (configure- *)
(* os, unconfigure-os), the report of a run, and the uninstall.  Runs may  *)
(* crash, every call may fail, the service manager starts the service      *)
(* again, and the machine restarts.  Runs not elevated and dry runs change *)
(* nothing and are left out.                                               *)
(***************************************************************************)
EXTENDS Naturals

CONSTANT
  MaxRuns     \* runs of the installer; a run's number is the version it brings

Systems == {"windows", "linux", "macos"}
None == 0

VARIABLES
  os,         \* the system
  run,        \* how many runs have begun
  todo,       \* the steps the run has before it, of Order
  program,    \* the version of dig-dns on disk, None before the first run
  reg,        \* the version whose settings the registration has, or None
  leaving,    \* windows: the registration is deleted but still there
  held,       \* the service was told to stop and its manager lets it
  proc,       \* the running service: what its program and settings are of
  needs,      \* linux: the service user; macos: the address on lo0
  lo0,        \* macos: the daemon older releases registered for the address
  wired,      \* the system's resolver sends .dig names to dig-dns
  live,       \* and does so without a restart
  stuck,      \* unconfigure-os failed to take it back
  clean,      \* no call of this run has failed or come too late
  report,     \* what the run says of dig-dns
  told,       \* since the machine came up a run has ended that asked for a restart
  lost        \* and one wired the resolver, or asked, and died or had no report of it

vars == <<os, run, todo, program, reg, leaving, held, proc, needs, lo0, wired, live,
          stuck, clean, report, told, lost>>
this == <<os, run, program>>
service == <<reg, leaving, held, proc>>
resolver == <<needs, lo0, wired, live, stuck, told, lost>>

Down == [program |-> None, settings |-> None]
Current == [program |-> program, settings |-> reg]
Running == proc # Down
Says(op) == [op |-> op, installed |-> op = "skip", running |-> FALSE, restart |-> FALSE,
             removed |-> FALSE]

Init ==
  /\ os \in Systems /\ run = 0 /\ todo = {}
  /\ program = None /\ reg = None /\ leaving = FALSE /\ held = FALSE
  /\ proc = Down /\ needs = (os = "windows")
  /\ lo0 \in {FALSE, os = "macos"}
  /\ wired = FALSE /\ live = FALSE /\ stuck = FALSE
  /\ clean = TRUE /\ report = Says("none")
  /\ told = FALSE /\ lost = FALSE

---------------------------------------------------------------------------
(* What a service manager does when a call works (the service-manager      *)
(* crate and the system behind it).                                        *)

(* Told to stop, the service is left down, but that launchd starts what    *)
(* has KeepAlive again and that Windows does not wait.                     *)
Stopped ==
  /\ proc' \in {Down, IF os = "windows" THEN proc ELSE Down}
  /\ held' = (os # "macos")
  /\ UNCHANGED <<reg, leaving>>

(* A bootout stops the job for good; the plist is still there.             *)
BootedOut == proc' = Down /\ held' = TRUE /\ UNCHANGED <<reg, leaving>>

(* sc delete leaves the entry while the process lives or someone has it    *)
(* open; systemctl disable does not stop the unit; launchctl remove does.  *)
Unregistered ==
  /\ \/ os = "windows" /\ reg # None /\ leaving' = TRUE /\ UNCHANGED reg
     \/ (os = "windows" => ~Running) /\ reg' = None /\ leaving' = FALSE
  /\ proc' = IF os = "macos" THEN Down ELSE proc
  /\ UNCHANGED held

(* A new registration; launchd runs it at once (RunAtLoad).                *)
NewlyRegistered ==
  /\ reg' = run
  /\ \/ os = "macos" /\ ~Running /\ needs /\ proc' = [program |-> program, settings |-> run]
     \/ UNCHANGED proc
  /\ held' = (held /\ os # "macos")
  /\ UNCHANGED leaving

(* A start does nothing to a service that runs.                            *)
Started ==
  /\ needs
  /\ proc' = IF Running THEN proc ELSE Current
  /\ held' = FALSE
  /\ UNCHANGED <<reg, leaving>>

---------------------------------------------------------------------------
(* The steps.  Each system's install and uninstall has its own, taken in   *)
(* one order; every failure is noted and the next step taken, but for      *)
(* Windows' registration.                                                  *)
Order ==
  <<"stop_before", "replace", "exists", "stop", "unregister", "gone", "user", "alias", "register",
    "start", "configure", "wait", "halt", "delete", "lo0", "unconfigure", "userdel", "binaries">>

WindowsInstall == {"exists", "stop", "unregister", "gone", "register", "start", "configure"}
LinuxInstall == {"exists", "stop", "unregister", "user", "register", "start", "configure"}
MacInstall == {"exists", "stop", "unregister", "alias", "register", "start", "configure"}

Install ==
  CASE os = "windows" -> WindowsInstall
    [] os = "linux" -> LinuxInstall
    [] os = "macos" -> MacInstall

WindowsUninstall == {"halt", "delete", "unconfigure", "binaries"}
LinuxUninstall == {"halt", "delete", "unconfigure", "userdel", "binaries"}
MacUninstall == {"halt", "delete", "lo0", "unconfigure", "binaries"}

Uninstall ==
  CASE os = "windows" -> WindowsUninstall
    [] os = "linux" -> LinuxUninstall
    [] os = "macos" -> MacUninstall

Place(step) == CHOOSE i \in DOMAIN Order : Order[i] = step

Without(steps) == todo \ steps

At(step) == step \in todo /\ \A other \in todo : Place(step) <= Place(other)
Done(step) == At(step) /\ todo' = Without({step})

Fails == clean' = FALSE
Works == UNCHANGED clean

---------------------------------------------------------------------------
(* A run that installs.                                                    *)

(* register_dig_dns: whether the service is to start is the plan's, and    *)
(* the decision, which is not Skip for a first install, is between a clean *)
(* reinstall and verify_existing.  The probes of both change nothing.  A   *)
(* service that outlived its deleted program will not be stopped, so the   *)
(* run does not count as clean.                                            *)
Begin ==
  /\ todo = {} /\ run < MaxRuns
  /\ run' = run + 1 /\ clean' = ~(program = None /\ Running)
  /\ \E start \in BOOLEAN :
       \/ /\ todo' = ({"stop_before", "replace", "wait"} \cup Install)
                       \ (IF start THEN {} ELSE {"start", "wait"})
          /\ report' = Says("install")
       \/ /\ program # None
          /\ todo' = (IF start THEN {"wait"} ELSE {})
          /\ report' = Says("skip")
  /\ told' = (told \/ report.restart)
  /\ UNCHANGED <<os, program, service, needs, lo0, wired, live, stuck, lost>>

(* stop_before_replace, only for a program that is there and a service     *)
(* that runs.                                                              *)
StopBeforeReplace ==
  /\ Done("stop_before")
  /\ IF program # None /\ Running
       THEN (Stopped /\ Works) \/ (UNCHANGED service /\ Fails)
       ELSE UNCHANGED service /\ Works
  /\ UNCHANGED <<this, resolver, report>>

(* Then the program is written; over one that runs Windows stages it for   *)
(* the restart (module BinaryWrite), which counts as late here.            *)
Replace ==
  /\ Done("replace")
  /\ IF os = "windows" /\ Running THEN UNCHANGED program /\ Fails
                                  ELSE program' = run /\ Works
  /\ UNCHANGED <<os, run, service, resolver, report>>

(* service_exists, unit_registered, service_registered: the clean          *)
(* reinstall takes away first what is registered.                          *)
Registered == reg # None

Exists ==
  /\ At("exists")
  /\ todo' = IF Registered THEN Without({"exists"})
                           ELSE Without({"exists", "stop", "unregister", "gone"})
  /\ UNCHANGED <<this, service, resolver, clean, report>>

(* The reinstall's stop, on macOS a bootout, and the uninstall's.          *)
Stop ==
  /\ \/ Done("stop") /\ (IF os = "macos" THEN BootedOut ELSE Stopped) /\ Works
     \/ Done("halt") /\ Stopped /\ Works
     \/ (Done("stop") \/ Done("halt")) /\ UNCHANGED service /\ Fails
  /\ UNCHANGED <<this, resolver, report>>

Unregister ==
  /\ Done("unregister")
  /\ \/ Unregistered /\ Works
     \/ UNCHANGED service /\ Fails
  /\ UNCHANGED <<this, resolver, report>>

(* wait_for_removal gives up after five seconds.                           *)
WaitForRemoval ==
  /\ Done("gone")
  /\ IF Registered THEN Fails ELSE Works
  /\ UNCHANGED <<this, service, resolver, report>>

(* Linux: ensure_service_user.  macOS: ensure_lo0_alias_now.               *)
EnsureUser ==
  /\ Done("user")
  /\ \/ needs' = TRUE /\ Works
     \/ ~needs /\ UNCHANGED needs /\ Fails
  /\ UNCHANGED <<this, service, lo0, wired, live, stuck, told, lost, report>>

EnsureAlias ==
  /\ Done("alias")
  /\ \/ needs' = TRUE /\ Works
     \/ ~needs /\ UNCHANGED needs /\ Fails
  /\ UNCHANGED <<this, service, lo0, wired, live, stuck, told, lost, report>>

(* Windows refuses a name that is still there, and that is the end of it   *)
(* when the registration fails; the other systems go on to the resolver    *)
(* without a service to start, and say installed.                          *)
Register ==
  /\ \/ /\ Done("register") /\ ~(os = "windows" /\ Registered)
        /\ NewlyRegistered /\ Works
        /\ report' = [report EXCEPT !.installed = TRUE]
     \/ /\ At("register") /\ UNCHANGED service /\ Fails
        /\ IF os = "windows"
             THEN todo' = {} /\ UNCHANGED report
             ELSE /\ todo' = Without({"register", "start"})
                  /\ report' = [report EXCEPT !.installed = TRUE]
  /\ UNCHANGED <<this, resolver>>

Start ==
  /\ Done("start")
  /\ \/ Started /\ Works
     \/ UNCHANGED service /\ Fails
  /\ UNCHANGED <<this, resolver, report>>

(* Mutant: a report of configure-os taken at its word.                     *)
RestartSaid(applied, activated, says) == says

(* OsConfigSummary::restart_reason: dig-dns says itself that a restart is  *)
(* due, or something was applied that is not live.                         *)
RestartReason(applied, activated, says) == says \/ (applied /\ ~activated)

(* apply_os_config: dig-dns wires the resolver (and the address' own       *)
(* daemon) and reports what it applied and whether that is live.  It may   *)
(* find nothing to apply: the wiring stays as it was.  A call that fails   *)
(* may have wired the resolver, without a report.                          *)
Configure ==
  /\ Done("configure")
  /\ \/ \E applied, activated, says \in BOOLEAN :
          /\ wired' = (wired \/ applied)
          /\ live' \in IF applied THEN {activated} ELSE {live, wired}
          /\ report' = [report EXCEPT !.restart = RestartReason(applied, activated, says)]
          /\ Works /\ UNCHANGED lost
     \/ /\ wired' \in {wired, TRUE} /\ live' \in {live, wired'}
        /\ lost' = (lost \/ wired' # wired)
        /\ UNCHANGED report /\ Fails
  /\ UNCHANGED <<this, service, needs, lo0, stuck, told>>

(* wait_for_service_running, when the service is to start.                 *)
Wait ==
  /\ Done("wait") /\ Works
  /\ report' = [report EXCEPT !.running = Running]
  /\ UNCHANGED <<this, service, resolver>>

---------------------------------------------------------------------------
(* A run that uninstalls.                                                  *)

BeginUninstall ==
  /\ todo = {} /\ run < MaxRuns
  /\ run' = run + 1 /\ clean' = TRUE
  /\ todo' = Uninstall /\ report' = Says("uninstall")
  /\ told' = (told \/ report.restart)
  /\ UNCHANGED <<os, program, service, needs, lo0, wired, live, stuck, lost>>

(* Windows asks afterwards whether it is gone, the others go by the call,  *)
(* which fails for what is not registered.                                 *)
Delete ==
  /\ Done("delete")
  /\ \/ Registered /\ Unregistered /\ (IF reg' = None THEN Works ELSE Fails)
     \/ Registered /\ UNCHANGED service /\ Fails
     \/ ~Registered /\ UNCHANGED service /\ Works
  /\ report' = [report EXCEPT !.removed =
                  reg' = None /\ (os = "windows" \/ Registered)]
  /\ UNCHANGED <<this, resolver>>

(* The daemon of older releases.                                           *)
RemoveLo0 ==
  /\ Done("lo0")
  /\ \/ lo0' = FALSE /\ Works
     \/ lo0 /\ UNCHANGED lo0 /\ Fails
  /\ UNCHANGED <<this, service, needs, wired, live, stuck, told, lost, report>>

(* unconfigure_removed: only the program can do it; a failure is nothing   *)
(* removed.  It takes macOS' address too.                                  *)
Unconfigure ==
  /\ Done("unconfigure")
  /\ \/ /\ program # None /\ wired' = FALSE /\ live' = FALSE /\ stuck' = FALSE
        /\ needs' = (needs /\ os # "macos") /\ Works
     \/ /\ program # None /\ wired' \in {wired, FALSE} /\ live' = (live /\ wired')
        /\ stuck' = wired' /\ UNCHANGED needs /\ Fails
     \/ program = None /\ UNCHANGED <<needs, wired, live, stuck, clean>>
  /\ UNCHANGED <<this, service, lo0, told, lost, report>>

(* userdel refuses while a process is the user's.                          *)
RemoveUser ==
  /\ Done("userdel")
  /\ \/ ~Running /\ needs' = FALSE /\ Works
     \/ UNCHANGED needs /\ (IF needs THEN Fails ELSE Works)
  /\ UNCHANGED <<this, service, lo0, wired, live, stuck, told, lost, report>>

(* delete_binaries, which keeps the program of a service left standing.    *)
DeleteProgram ==
  /\ Done("binaries")
  /\ \/ program' = (IF report.removed THEN None ELSE program) /\ Works
     \/ UNCHANGED program /\ Fails
  /\ UNCHANGED <<os, run, service, resolver, report>>

---------------------------------------------------------------------------
(* The surroundings, at any time.                                          *)

(* Windows lets go of a deleted service; a service ends by itself, and its *)
(* manager starts what it may; the machine restarts, or only the run ends. *)
DeletionEnds ==
  /\ leaving /\ ~Running
  /\ leaving' = FALSE /\ reg' = None
  /\ UNCHANGED <<this, todo, held, proc, resolver, clean, report>>

ServiceEnds ==
  /\ Running /\ proc' = Down
  /\ UNCHANGED <<this, todo, reg, leaving, held, resolver, clean, report>>

ServiceStarts ==
  /\ ~Running /\ Registered /\ ~leaving /\ ~held /\ needs /\ program # None
  /\ proc' = Current
  /\ UNCHANGED <<this, todo, reg, leaving, held, resolver, clean, report>>

Restart ==
  /\ todo' = {} /\ report' = Says("none")
  /\ reg' = IF leaving THEN None ELSE reg
  /\ leaving' = FALSE /\ held' = FALSE
  /\ proc' = Down /\ live' = wired
  /\ needs' = IF os = "macos" THEN wired \/ lo0 ELSE needs
  /\ told' = FALSE /\ lost' = FALSE
  /\ UNCHANGED <<this, lo0, wired, stuck, clean>>

Crash ==
  /\ todo # {} /\ todo' = {} /\ report' = Says("none")
  /\ lost' = (lost \/ report.restart)
  /\ UNCHANGED <<this, service, needs, lo0, wired, live, stuck, told, clean>>

Next ==
  \/ Begin \/ StopBeforeReplace \/ Replace \/ Exists \/ Stop \/ Unregister
  \/ WaitForRemoval \/ EnsureUser \/ EnsureAlias \/ Register \/ Start \/ Configure \/ Wait
  \/ BeginUninstall \/ Delete \/ RemoveLo0 \/ Unconfigure \/ RemoveUser \/ DeleteProgram
  \/ DeletionEnds \/ ServiceEnds \/ ServiceStarts \/ Restart \/ Crash

Spec == Init /\ [][Next]_vars

---------------------------------------------------------------------------
(* Only macOS has the old daemon, only Windows a deletion that is pending; *)
(* nothing runs that was never written; a live resolver is a wired one.    *)
TypeOK ==
  /\ os \in Systems /\ run \in 0..MaxRuns
  /\ {held, needs, lo0, leaving, wired, live, stuck, clean, told, lost} \subseteq BOOLEAN
  /\ program \in 0..run /\ reg \in 0..run
  /\ leaving => os = "windows" /\ reg # None
  /\ lo0 => os = "macos"
  /\ live => wired
  /\ proc = Down \/ (proc.program \in 1..run /\ proc.settings \in 1..run)
  /\ report \in [op: {"none", "install", "skip", "uninstall"}, installed: BOOLEAN,
                 running: BOOLEAN, restart: BOOLEAN, removed: BOOLEAN]

Ended(op) == todo = {} /\ report.op = op

(* After an install where nothing failed, the service that runs, now or    *)
(* whenever its manager starts it, is the one just installed, in program   *)
(* and settings, and the address it needs on macOS is there (install).     *)
InstallReplaces ==
  Ended("install") /\ clean =>
    /\ reg = run /\ ~leaving /\ program = run
    /\ Running => proc = Current
    /\ os = "macos" => needs

(* A resolver that is wired and not live until the machine restarts is     *)
(* nobody's surprise: since the machine came up a run has ended, now or    *)
(* before, that asked for the restart, though later runs may find nothing  *)
(* to apply and not ask again.  Excepted is what one that died, or had no  *)
(* report from dig-dns, left (restart_reason).                             *)
RestartTold == wired /\ ~live => report.restart \/ told \/ lost

(* An uninstall where nothing failed leaves nothing of dig-dns, whatever   *)
(* earlier runs did and however they ended, but a resolver an earlier one  *)
(* failed to take back before it deleted the program (uninstall).          *)
UninstallClears ==
  Ended("uninstall") /\ clean => ~Registered /\ ~lo0 /\ (wired => stuck /\ program = None)

(* What install and uninstall promise of dig-dns and the system's resolver *)
(* when nothing failed.                                                    *)
ResolverHolds == InstallReplaces /\ RestartTold /\ UninstallClears

=============================================================================
