---------------------------- MODULE EngineService ----------------------------
(***************************************************************************)
(* One engine service (dig-node; dig-relay differs where said) and the     *)
(* service manager it is registered with: service.rs, svc.rs, svcscope.rs, *)
(* units.rs and the registering half of lib.rs.  The installer never       *)
(* writes a registration itself.  It runs the program it has installed,    *)
(* which may be too old to know of scopes, asks the service manager, which *)
(* may not answer, and lists unit files, which may have changed since.     *)
(***************************************************************************)
EXTENDS Naturals

CONSTANTS Polls   \* bound: how often a wait looks at the service

ASSUME PollsAssumption == Polls \in Nat \ {0}

Scopes   == {"system", "user"}
Attempts == 3      \* scm_retry_backoff: two waits, three attempts

VARIABLES
  (* the host, which never changes *)
  os,        \* "windows", "linux" or "macos"
  speaks,    \* the installed program understands --scope
  session,   \* the per-user service manager can be addressed
  (* registrations *)
  unit,      \* scope -> what is registered there; "leaving": marked for deletion
  packaged,  \* the unit a distribution's package brought (Linux)
  loaded,    \* the scopes launchd has the job in (macOS)
  up,        \* the scopes the service runs in
  (* the run: registering, removing through the program, removing by id *)
  pc,
  scope,     \* the scope asked for (engine_scope_for), or being removed
  start,     \* plan.service.start
  existing,  \* existing_units, as listed when the run began
  tries,     \* attempts of a retry, looks of a wait
  settled,   \* the scope the registration ended in
  errors,    \* scopes the program failed to remove
  result,
  (* history *)
  late       \* the user has registered the program himself since the run began

host == <<os, speaks, session>>
plan == <<scope, start, existing, settled, errors>>
run  == <<pc, plan, tries, result>>
vars == <<host, unit, packaged, loaded, up, run, late>>

Registered == {"enabled", "disabled", "leaving"}
Nothing    == [system |-> "none", user |-> "none", packaged |-> "none"]

Phases == {"idle", "install", "tolerate", "start", "sweep", "verify",
           "remove", "probe", "look", "stop", "deregister", "confirm"}

Result(verb, ok) ==
  [verb |-> verb, ok |-> ok, started |-> FALSE, survives |-> FALSE, healthy |-> FALSE,
   tolerated |-> FALSE, kept |-> FALSE, certain |-> FALSE]

NoResult == Result("none", FALSE)

TypeOK ==
  /\ os \in {"windows", "linux", "macos"} /\ speaks \in BOOLEAN /\ session \in BOOLEAN
  /\ unit \in [Scopes -> Registered \cup {"none"}]
  /\ packaged \in {"none", "disabled", "enabled"}
  /\ loaded \subseteq Scopes /\ up \subseteq Scopes
  /\ pc \in Phases /\ scope \in Scopes /\ start \in BOOLEAN
  /\ existing \in [system : Registered \cup {"none"}, user : Registered \cup {"none"},
                   packaged : {"none", "disabled", "enabled"}]
  /\ tries \in 0..(Attempts + Polls) /\ settled \in Scopes /\ errors \subseteq Scopes
  /\ result \in [verb : {"none", "register", "remove", "teardown"}, ok : BOOLEAN,
                 started : BOOLEAN, survives : BOOLEAN, healthy : BOOLEAN,
                 tolerated : BOOLEAN, kept : BOOLEAN, certain : BOOLEAN]
  /\ late \in BOOLEAN

(* What a host can have: units of either scope, a package's on Linux; on   *)
(* Windows one domain, whose service starts with the machine.              *)
Init ==
  /\ os \in {"windows", "linux", "macos"} /\ speaks \in BOOLEAN
  /\ session \in IF os = "windows" THEN {FALSE} ELSE BOOLEAN
  /\ unit \in [system : {"none", "enabled"} \cup (IF os = "linux" THEN {"disabled"} ELSE {}),
               user : {"none"} \cup (IF os = "windows" THEN {} ELSE {"enabled"})]
  /\ packaged \in {"none"} \cup (IF os = "linux" THEN {"disabled", "enabled"} ELSE {})
  /\ loaded = IF os = "macos" THEN {s \in Scopes : unit[s] = "enabled"} ELSE {}
  /\ up = {}
  /\ pc = "idle" /\ scope = "system" /\ start = TRUE /\ existing = Nothing /\ tries = 0
  /\ settled = "system" /\ errors = {} /\ result = NoResult /\ late = FALSE

---------------------------------------------------------------------------
(* What can be read of the service.                                        *)

(* A package's unit has a name of its own, under which nobody asks.        *)

(* registration_in_scope: systemctl is-enabled, launchctl print, sc query. *)
(* launchd tells of a job it has loaded, whatever lies on disk; a service  *)
(* marked for deletion still answers; a tool may fail.                     *)
Visible(s) == IF os = "macos" THEN s \in loaded ELSE unit[s] # "none"

Readings(s) ==
  IF s = "user" /\ os = "windows" THEN {"absent"}
  ELSE IF s = "user" /\ ~session THEN {"unknown"}
  ELSE {"unknown", IF Visible(s) THEN "present" ELSE "absent"}

(* service_run_state: on Linux both scopes combined, on macOS the system   *)
(* domain only.  is-active says "inactive" of a stopped unit and often of  *)
(* none; of a manager that cannot be reached it says nothing, which reads  *)
(* as not found.                                                           *)
ScopeStates(s) ==
  IF s = "user" /\ ~session THEN {"NotFound"}
  ELSE IF s \in up THEN {"Running"}
  ELSE IF unit[s] = "none" THEN {"NotFound", "Stopped"} ELSE {"Stopped"}

combine_systemctl_states(u, s) ==
  CASE "Running" \in {u, s}  -> "Running"
    [] "Running" \notin {u, s} /\ "Stopped" \in {u, s} -> "Stopped"
    [] OTHER -> "NotFound"

RunStates ==
  {"Unknown"} \cup
  (CASE os = "linux" ->
          {combine_systemctl_states(u, s) : u \in ScopeStates("user"), s \in ScopeStates("system")}
     [] os = "macos" ->
          {IF "system" \notin loaded THEN "NotFound"
           ELSE IF "system" \in up THEN "Running" ELSE "Stopped"}
     [] os = "windows" ->
          {IF unit["system"] = "none" THEN "NotFound"
           ELSE IF "system" \in up THEN "Running" ELSE "Stopped"})

(* existing_units: unit files, and no list at all on Windows.              *)
Listing ==
  IF os = "windows" THEN Nothing
  ELSE [system |-> unit["system"], user |-> unit["user"], packaged |-> packaged]

(* Mutant: a unit that is there and not enabled serves too. *)
serving_if_present(e) ==
  IF e.system # "none" \/ e.packaged # "none" THEN "system" ELSE "user"

serving_scope(e) ==
  IF "enabled" \in {e.system, e.packaged} THEN "system" ELSE "user"

---------------------------------------------------------------------------
(* Registering: register_dig_node, install_engine_service.                 *)
Goto(phase) == pc' = phase /\ tries' = 0

End(r) == pc' = "idle" /\ tries' = 0 /\ result' = r

(* Elsewhere it depends on the privileges and the place of the program.    *)
engine_scope == IF os = "windows" THEN {"system"} ELSE Scopes

(* What the run goes by from here on.                                      *)
LeftAsIs == serving_scope(existing')

Survives(s) == s = "system"

BeginRegister ==
  /\ pc = "idle"
  /\ scope' \in engine_scope
  /\ start' \in BOOLEAN
  /\ existing' = Listing /\ late' = FALSE /\ errors' = {}
  /\ \E skip \in BOOLEAN :
       LET adopt == scope' = "system" /\ existing'.packaged = "enabled"
       IN  /\ Goto(IF adopt \/ skip THEN "sweep" ELSE "install")
           /\ settled' = IF ~adopt /\ skip THEN LeftAsIs ELSE scope'
           /\ result' = [NoResult EXCEPT !.verb = "register", !.ok = adopt \/ skip,
                                         !.started = ~adopt /\ skip /\ start',
                                         !.survives = adopt \/ (skip /\ Survives(settled'))]
  /\ UNCHANGED <<host, unit, packaged, loaded, up>>

(* Where the program registers: where it is told, or, too old to be told,  *)
(* in its own default (legacy_default_scope).                              *)
Effective ==
  IF speaks \/ os = "windows" THEN scope ELSE "user"

Put(s) ==
  /\ unit' = [unit EXCEPT ![s] = "enabled"]
  /\ loaded' = IF os = "macos" THEN loaded \cup {s} ELSE loaded

(* Mutant: waiting for the service manager is not counted. *)
TryInstallForever ==
  /\ pc = "install"
  /\ IF unit[Effective] = "leaving"
     THEN UNCHANGED <<unit, loaded, pc, tries, settled, result>>
     ELSE \/ Put(Effective) /\ Goto("start") /\ settled' = Effective /\ UNCHANGED result
          \/ Put(Effective) /\ Goto("tolerate") /\ UNCHANGED <<settled, result>>
          \/ Goto("tolerate") /\ UNCHANGED <<unit, loaded, settled, result>>
  /\ UNCHANGED <<host, packaged, up, scope, start, existing, errors, late>>

(* with_scm_retry around the program's install: while the old record is    *)
(* being deleted it fails for that reason and is tried again.  A failure   *)
(* may leave the registration made.                                        *)
TryInstall ==
  /\ pc = "install"
  /\ IF unit[Effective] = "leaving"
     THEN /\ IF tries + 1 < Attempts THEN tries' = tries + 1 /\ UNCHANGED pc
                                     ELSE Goto("tolerate")
          /\ UNCHANGED <<unit, loaded, settled, result>>
     ELSE \/ Put(Effective) /\ Goto("start") /\ settled' = Effective /\ UNCHANGED result
          \/ Put(Effective) /\ Goto("tolerate") /\ UNCHANGED <<settled, result>>
          \/ Goto("tolerate") /\ UNCHANGED <<unit, loaded, settled, result>>
  /\ UNCHANGED <<host, packaged, up, scope, start, existing, errors, late>>

(* tolerate_install_failure_only_if_already_registered.                    *)
Tolerate ==
  /\ pc = "tolerate"
  /\ \E reading \in Readings(scope) :
       IF reading = "present"
       THEN Goto("start") /\ settled' = scope /\ result' = [result EXCEPT !.tolerated = TRUE]
       ELSE End(result) /\ UNCHANGED settled
  /\ UNCHANGED <<host, unit, packaged, loaded, up, scope, start, existing, errors, late>>

Concluded == [result EXCEPT !.ok = TRUE, !.started = start, !.survives = Survives(settled)]

Start ==
  /\ pc = "start"
  /\ \/ ~start /\ Goto("sweep") /\ result' = Concluded /\ UNCHANGED up
     \/ /\ start /\ unit[Effective] \in {"enabled", "disabled"}
        /\ up' = up \cup {Effective} /\ Goto("sweep") /\ result' = Concluded
     \/ start /\ End(result) /\ UNCHANGED up
  /\ UNCHANGED <<host, unit, packaged, loaded, plan, late>>

(* Mutant: the sweep goes by the scope that was asked for. *)
ShadowsOfRequest ==
  IF os # "windows" /\ scope = "system" /\ existing.user # "none" THEN {"user"} ELSE {}

(* shadowing_units_to_remove, of the units listed before the registration. *)
Shadows ==
  IF os # "windows" /\ settled = "system" /\ existing.user # "none" THEN {"user"} ELSE {}

(* remove_shadowing_units: the files go, or what cannot be removed is      *)
(* kept; a unit that runs goes on running.                                 *)
Sweep ==
  /\ pc = "sweep"
  /\ \E kept \in SUBSET Shadows :
       /\ unit' = [s \in Scopes |-> IF s \in Shadows \ kept THEN "none" ELSE unit[s]]
       /\ LET r == [result EXCEPT !.kept = kept # {}]
          IN  IF result.started THEN Goto("verify") /\ result' = r ELSE End(r)
  /\ UNCHANGED <<host, packaged, loaded, up, plan, late>>

(* wait_for_service_running.                                               *)
Verify ==
  /\ pc = "verify"
  /\ \E state \in RunStates :
       IF state = "Running" THEN End([result EXCEPT !.healthy = TRUE])
       ELSE IF tries + 1 < Polls THEN tries' = tries + 1 /\ UNCHANGED <<pc, result>>
       ELSE End(result)
  /\ UNCHANGED <<host, unit, packaged, loaded, up, plan, late>>

---------------------------------------------------------------------------
(* Removing through the program: uninstall_engine_service.  Every scope is *)
(* tried, and then every scope is read back.                               *)
BeginRemove ==
  /\ pc = "idle" /\ Goto("remove") /\ scope' = "system" /\ errors' = {}
  /\ result' = Result("remove", FALSE) /\ late' = FALSE
  /\ UNCHANGED <<host, unit, packaged, loaded, up, start, existing, settled>>

(* What the program removes when told a scope, the SCM keeping the record  *)
(* while somebody holds it open.                                           *)
Target(s) == IF speaks \/ os = "windows" THEN s ELSE "user"

Gone(s) == IF os = "windows" THEN {"none", "leaving"} ELSE {"none"}

TakeOut(s) ==
  IF unit[s] = "none" THEN UNCHANGED <<unit, loaded, up>>
  ELSE /\ \E g \in Gone(s) : unit' = [unit EXCEPT ![s] = g]
       /\ loaded' = loaded \ {s} /\ up' = up \ {s}

(* A program that fails may have unloaded the job, or done it all.         *)
Remove ==
  /\ pc = "remove"
  /\ \/ TakeOut(Target(scope)) /\ UNCHANGED errors
     \/ TakeOut(Target(scope)) /\ errors' = errors \cup {scope}
     \/ /\ errors' = errors \cup {scope} /\ UNCHANGED <<unit, up>>
        /\ loaded' \in {loaded, loaded \ {Target(scope)}}
  /\ IF scope = "system" THEN scope' = "user" /\ UNCHANGED <<pc, tries>>
                         ELSE Goto("probe") /\ UNCHANGED scope
  /\ UNCHANGED <<host, packaged, start, existing, settled, result, late>>

(* Mutant: a scope that cannot be read is taken for clear. *)
ProbeUnknownIsClear ==
  /\ pc = "probe"
  /\ \E seen \in [Scopes -> {"present", "absent", "unknown"}] :
       /\ \A s \in Scopes : seen[s] \in Readings(s)
       /\ LET ok == \A s \in Scopes : seen[s] # "present"
          IN  End([result EXCEPT !.ok = ok, !.certain = ok])
  /\ UNCHANGED <<host, unit, packaged, loaded, up, plan, late>>

Probe ==
  /\ pc = "probe"
  /\ \E seen \in [Scopes -> {"present", "absent", "unknown"}] :
       /\ \A s \in Scopes : seen[s] \in Readings(s)
       /\ LET residual   == \E s \in Scopes : seen[s] = "present"
              unverified == \E s \in Scopes : seen[s] = "unknown"
              ok == ~residual /\ ~(errors = Scopes /\ unverified)
          IN  End([result EXCEPT !.ok = ok, !.certain = ok /\ ~unverified])
  /\ UNCHANGED <<host, unit, packaged, loaded, up, plan, late>>

---------------------------------------------------------------------------
(* Removing by id, the program being gone: teardown_service_by_id over     *)
(* deregister_service.                                                     *)
BeginTeardown ==
  /\ pc = "idle" /\ Goto("look") /\ result' = Result("teardown", FALSE)
  /\ late' = FALSE
  /\ UNCHANGED <<host, unit, packaged, loaded, up, plan>>

Look ==
  /\ pc = "look"
  /\ \E state \in RunStates :
       IF state = "NotFound" THEN End([result EXCEPT !.ok = TRUE])
                             ELSE Goto("stop") /\ UNCHANGED result
  /\ UNCHANGED <<host, unit, packaged, loaded, up, plan, late>>

(* Scopes a command of ours reaches.                                       *)
Addressed == IF session THEN Scopes ELSE {"system"}

(* stop_service_command, whose failures are not looked at: launchctl       *)
(* bootout unloads the job and leaves its file.                            *)
StopByCommand ==
  /\ pc = "stop" /\ Goto("deregister")
  /\ \E S \in SUBSET Addressed :
       /\ up' = up \ S
       /\ loaded' = loaded \ (IF os = "macos" THEN S ELSE {})
  /\ UNCHANGED <<host, unit, packaged, plan, result, late>>

(* deregister_service_command: sc delete; systemctl disable, which leaves  *)
(* the unit; launchctl bootout again.                                      *)
Deregistered(S) ==
  [s \in Scopes |->
     IF s \notin S \/ unit[s] = "none" THEN {unit[s]}
     ELSE CASE os = "windows" -> {"none", "leaving"}
            [] os = "linux"   -> {"disabled"}
            [] os = "macos"   -> {unit[s]}]

DeregisterByCommand ==
  /\ pc = "deregister" /\ Goto("confirm")
  /\ \E S \in SUBSET Addressed :
       /\ unit' \in [Scopes -> Registered \cup {"none"}]
       /\ \A s \in Scopes : unit'[s] \in Deregistered(S)[s]
       /\ up' = up \ (IF os = "windows" THEN {} ELSE S)
       /\ loaded' = loaded \ (IF os = "macos" THEN S ELSE {})
  /\ UNCHANGED <<host, packaged, plan, result, late>>

(* wait_until_not_running, then the state once more.                       *)
Confirm ==
  /\ pc = "confirm"
  /\ \E state \in RunStates :
       IF state = "Running" /\ tries + 1 < Polls
       THEN tries' = tries + 1 /\ UNCHANGED <<pc, result>>
       ELSE End([result EXCEPT !.ok = state = "NotFound"])
  /\ UNCHANGED <<host, unit, packaged, loaded, up, plan, late>>

---------------------------------------------------------------------------
(* The environment: the service ends and is started again, the machine     *)
(* restarts, the last handle to a deleted service closes, the user         *)
(* registers the program for himself or takes that back, the run dies.     *)
Dies == \E s \in up : up' = up \ {s}
  /\ UNCHANGED <<host, unit, packaged, loaded, run, late>>

Startable(s) == unit[s] = "enabled" /\ (os = "macos" => s \in loaded)

ComesUp ==
  /\ \E s \in Scopes : Startable(s) /\ s \notin up /\ up' = up \cup {s}
  /\ UNCHANGED <<host, unit, packaged, loaded, run, late>>

Released == [s \in Scopes |-> IF unit[s] = "leaving" THEN "none" ELSE unit[s]]

Release ==
  /\ unit' = Released /\ unit' # unit /\ up' = {s \in up : unit'[s] # "none"}
  /\ UNCHANGED <<host, packaged, loaded, run, late>>

Reboot ==
  /\ pc = "idle" /\ unit' = Released
  /\ up' = {s \in {"system"} : unit[s] = "enabled"}
  /\ loaded' = IF os = "macos" THEN {s \in Scopes : unit[s] # "none"} ELSE {}
  /\ UNCHANGED <<host, packaged, run, late>>

UserRegisters ==
  /\ os # "windows" /\ unit["user"] = "none" /\ Put("user") /\ late' = TRUE
  /\ UNCHANGED <<host, packaged, up, run>>

UserRemoves ==
  /\ os # "windows" /\ unit["user"] # "none"
  /\ unit' = [unit EXCEPT !["user"] = "none"]
  /\ loaded' = loaded \ {"user"} /\ up' = up \ {"user"}
  /\ UNCHANGED <<host, packaged, run, late>>

Crash ==
  /\ pc # "idle" /\ End(NoResult)
  /\ UNCHANGED <<host, unit, packaged, loaded, up, plan, late>>

Step ==
  \/ TryInstall \/ Tolerate \/ Start \/ Sweep \/ Verify
  \/ Remove \/ Probe
  \/ Look \/ StopByCommand \/ DeregisterByCommand \/ Confirm

Next ==
  \/ BeginRegister \/ BeginRemove \/ BeginTeardown \/ Step
  \/ Dies \/ ComesUp \/ Release \/ Reboot \/ UserRegisters \/ UserRemoves \/ Crash

Spec == Init /\ [][Next]_vars /\ WF_vars(Step)

---------------------------------------------------------------------------
SystemStarts == "enabled" \in {unit["system"], packaged}

(* A registration that is reported to survive a restart does: unless an    *)
(* install that failed was tolerated, the machine starts the service with  *)
(* nobody logged in (install_engine_service, settled_scope).               *)
SurvivesReboot ==
  pc = "idle" /\ result.ok /\ result.survives /\ ~result.tolerated => SystemStarts

(* A service said to survive a restart is not started a second time at the *)
(* user's login, unless the user has registered it meanwhile or the report *)
(* names the unit that could not be removed (remove_shadowing_units).      *)
OneServes ==
  pc = "idle" /\ result.ok /\ result.survives /\ ~result.tolerated /\ ~result.kept /\ ~late =>
    unit["user"] = "none"

(* A removal said to have cleared every scope has, and one by id that      *)
(* succeeds has cleared the machine's, whatever the program and the        *)
(* service manager did of what they were told; but on macOS, where launchd *)
(* no longer tells of a job it has unloaded                                *)
(* (uninstall_engine_service, teardown_service_by_id).                     *)
RemovalHolds ==
  pc = "idle" /\ ~late /\ os # "macos" =>
    /\ result.certain => \A s \in Scopes : unit[s] = "none"
    /\ result.verb = "teardown" /\ result.ok => unit["system"] = "none"

(* A run ends, though the service manager may hold on to a deleted service *)
(* for ever (with_scm_retry, wait_for_service_running).                    *)
RunEnds == pc # "idle" ~> pc = "idle"

=============================================================================
