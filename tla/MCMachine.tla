------------------------------ MODULE MCMachine ------------------------------
(***************************************************************************)
(* The instance of the window, the release lookup, the resolver wiring,    *)
(* the folders and the registrations, each by itself.                      *)
(***************************************************************************)
EXTENDS Naturals

CONSTANTS
  Browsers,      \* those the window may find
  People,        \* those who have accounts
  Services,      \* those that may be registered
  Attempts,      \* for one request
  Runs,          \* bounds: runs or launches of a component,
  ResolverRuns,  \* of the resolver's wiring,
  Toggles,       \* clicks on an option,
  Faults,        \* failures and crashes,
  FetchFaults    \* and those of the lookup

ASSUME PeopleAssumption == People # {}

ASSUME ServicesAssumption == "beacon" \notin Services

ASSUME AttemptsAssumption == Attempts # 0

ASSUME BoundsAssumption ==
  {Attempts, Runs, ResolverRuns, Toggles, Faults, FetchFaults} \subseteq Nat

VARIABLES
  which,
  os, elevated, system, tool, open, page, sel, found, checked, known, detecting, runs, toggles,
  token, listening, full, message, cancelled, workers, events, cli, extras, policy, changed,
  asked, off, target, component, pinned, hosted, source, request, tries, left, permissive,
  asset, result, faults, run, todo, program, reg, leaving, held, proc, needs, lo0, wired, live,
  stuck, clean, report, told, lost, folder, step, at, sid, taken, level, link, logs, profile,
  launched, met, launches, unit, place, oldProgram, has, vacating, clearing, retired, notes,
  ready, blind

G == INSTANCE GuiRun WITH BROWSERS <- Browsers, MaxRuns <- Runs, MaxToggles <- Toggles
F == INSTANCE ReleaseFetch WITH ATTEMPTS <- Attempts, MaxFaults <- FetchFaults
R == INSTANCE Resolver WITH MaxRuns <- ResolverRuns
D == INSTANCE DaemonDir WITH USERS <- People, MaxRuns <- Runs, MaxFaults <- Faults
W == INSTANCE WebviewDir WITH MaxLaunches <- Runs, MaxFaults <- Faults
A == INSTANCE RegAudit WITH SERVICES <- Services, MaxRuns <- Runs, MaxFaults <- Faults

(* The variables a component does not have.                              *)
GRest == <<target, component, pinned, hosted, source, request, tries, left, permissive, asset,
            result, faults, run, todo, program, reg, leaving, held, proc, needs, lo0, wired,
            live, stuck, clean, report, told, lost, folder, step, at, sid, taken, level, link,
            logs, profile, launched, met, launches, unit, place, oldProgram, has, vacating,
            clearing, retired, notes, ready, blind>>
FRest == <<os, elevated, system, tool, open, page, sel, found, checked, known, detecting,
            runs, toggles, listening, full, message, cancelled, workers, events, cli, extras,
            policy, changed, asked, off, run, todo, program, reg, leaving, held, proc, needs,
            lo0, wired, live, stuck, clean, report, told, lost, folder, step, at, sid, taken,
            level, link, logs, profile, launched, met, launches, unit, place, oldProgram, has,
            vacating, clearing, retired, notes, ready, blind>>
RRest == <<elevated, system, tool, open, page, sel, found, checked, known, detecting, runs,
            toggles, token, listening, full, message, cancelled, workers, events, cli, extras,
            policy, changed, asked, off, target, component, pinned, hosted, source, request,
            tries, left, permissive, asset, result, faults, folder, step, at, sid, taken,
            level, link, logs, profile, launched, met, launches, unit, place, oldProgram, has,
            vacating, clearing, retired, notes, ready, blind>>
DRest == <<elevated, system, tool, open, page, sel, checked, known, detecting, toggles, token,
            listening, full, message, cancelled, workers, events, cli, extras, policy, changed,
            asked, off, target, component, pinned, hosted, source, request, tries, left,
            permissive, asset, run, todo, program, reg, leaving, held, proc, needs, lo0, wired,
            live, stuck, clean, report, told, lost, level, link, logs, profile, launched, met,
            launches, unit, place, oldProgram, has, vacating, clearing, retired, notes, ready,
            blind>>
WRest == <<os, elevated, system, tool, open, page, sel, found, checked, known, detecting,
            runs, toggles, token, listening, full, message, cancelled, workers, events, cli,
            extras, policy, changed, asked, off, target, component, pinned, hosted, source,
            request, tries, left, permissive, asset, result, run, todo, program, reg, leaving,
            held, proc, needs, lo0, wired, live, stuck, clean, report, told, lost, folder,
            step, sid, unit, place, oldProgram, has, vacating, clearing, retired, notes, ready,
            blind>>
ARest == <<elevated, system, tool, open, page, sel, found, checked, known, detecting, toggles,
            token, listening, full, message, cancelled, workers, events, cli, extras, policy,
            changed, asked, off, target, component, pinned, hosted, source, request, tries,
            left, permissive, asset, result, run, todo, program, reg, leaving, held, proc,
            needs, lo0, wired, live, stuck, clean, report, told, lost, folder, at, sid, taken,
            level, link, logs, profile, launched, met, launches>>

Init ==
  \/ /\ which = "gui" /\ G!Init
     /\ target = 0 /\ component = 0 /\ pinned = 0 /\ hosted = 0 /\ source = 0 /\ request = 0 /\
        tries = 0 /\ left = 0 /\ permissive = 0 /\ asset = 0 /\ result = 0 /\ faults = 0 /\
        run = 0 /\ todo = 0 /\ program = 0 /\ reg = 0 /\ leaving = 0 /\ held = 0 /\ proc = 0 /\
        needs = 0 /\ lo0 = 0 /\ wired = 0 /\ live = 0 /\ stuck = 0 /\ clean = 0 /\
        report = 0 /\ told = 0 /\ lost = 0 /\ folder = 0 /\ step = 0 /\ at = 0 /\ sid = 0 /\
        taken = 0 /\ level = 0 /\ link = 0 /\ logs = 0 /\ profile = 0 /\ launched = 0 /\
        met = 0 /\ launches = 0 /\ unit = 0 /\ place = 0 /\ oldProgram = 0 /\ has = 0 /\
        vacating = 0 /\ clearing = 0 /\ retired = 0 /\ notes = 0 /\ ready = 0 /\ blind = 0
  \/ /\ which = "fetch" /\ F!Init
     /\ os = 0 /\ elevated = 0 /\ system = 0 /\ tool = 0 /\ open = 0 /\ page = 0 /\ sel = 0 /\
        found = 0 /\ checked = 0 /\ known = 0 /\ detecting = 0 /\ runs = 0 /\ toggles = 0 /\
        listening = 0 /\ full = 0 /\ message = 0 /\ cancelled = 0 /\ workers = 0 /\
        events = 0 /\ cli = 0 /\ extras = 0 /\ policy = 0 /\ changed = 0 /\ asked = 0 /\
        off = 0 /\ run = 0 /\ todo = 0 /\ program = 0 /\ reg = 0 /\ leaving = 0 /\ held = 0 /\
        proc = 0 /\ needs = 0 /\ lo0 = 0 /\ wired = 0 /\ live = 0 /\ stuck = 0 /\ clean = 0 /\
        report = 0 /\ told = 0 /\ lost = 0 /\ folder = 0 /\ step = 0 /\ at = 0 /\ sid = 0 /\
        taken = 0 /\ level = 0 /\ link = 0 /\ logs = 0 /\ profile = 0 /\ launched = 0 /\
        met = 0 /\ launches = 0 /\ unit = 0 /\ place = 0 /\ oldProgram = 0 /\ has = 0 /\
        vacating = 0 /\ clearing = 0 /\ retired = 0 /\ notes = 0 /\ ready = 0 /\ blind = 0
  \/ /\ which = "dns" /\ R!Init
     /\ elevated = 0 /\ system = 0 /\ tool = 0 /\ open = 0 /\ page = 0 /\ sel = 0 /\
        found = 0 /\ checked = 0 /\ known = 0 /\ detecting = 0 /\ runs = 0 /\ toggles = 0 /\
        token = 0 /\ listening = 0 /\ full = 0 /\ message = 0 /\ cancelled = 0 /\
        workers = 0 /\ events = 0 /\ cli = 0 /\ extras = 0 /\ policy = 0 /\ changed = 0 /\
        asked = 0 /\ off = 0 /\ target = 0 /\ component = 0 /\ pinned = 0 /\ hosted = 0 /\
        source = 0 /\ request = 0 /\ tries = 0 /\ left = 0 /\ permissive = 0 /\ asset = 0 /\
        result = 0 /\ faults = 0 /\ folder = 0 /\ step = 0 /\ at = 0 /\ sid = 0 /\ taken = 0 /\
        level = 0 /\ link = 0 /\ logs = 0 /\ profile = 0 /\ launched = 0 /\ met = 0 /\
        launches = 0 /\ unit = 0 /\ place = 0 /\ oldProgram = 0 /\ has = 0 /\ vacating = 0 /\
        clearing = 0 /\ retired = 0 /\ notes = 0 /\ ready = 0 /\ blind = 0
  \/ /\ which = "folders" /\ D!Init
     /\ elevated = 0 /\ system = 0 /\ tool = 0 /\ open = 0 /\ page = 0 /\ sel = 0 /\
        checked = 0 /\ known = 0 /\ detecting = 0 /\ toggles = 0 /\ token = 0 /\
        listening = 0 /\ full = 0 /\ message = 0 /\ cancelled = 0 /\ workers = 0 /\
        events = 0 /\ cli = 0 /\ extras = 0 /\ policy = 0 /\ changed = 0 /\ asked = 0 /\
        off = 0 /\ target = 0 /\ component = 0 /\ pinned = 0 /\ hosted = 0 /\ source = 0 /\
        request = 0 /\ tries = 0 /\ left = 0 /\ permissive = 0 /\ asset = 0 /\ run = 0 /\
        todo = 0 /\ program = 0 /\ reg = 0 /\ leaving = 0 /\ held = 0 /\ proc = 0 /\
        needs = 0 /\ lo0 = 0 /\ wired = 0 /\ live = 0 /\ stuck = 0 /\ clean = 0 /\
        report = 0 /\ told = 0 /\ lost = 0 /\ level = 0 /\ link = 0 /\ logs = 0 /\
        profile = 0 /\ launched = 0 /\ met = 0 /\ launches = 0 /\ unit = 0 /\ place = 0 /\
        oldProgram = 0 /\ has = 0 /\ vacating = 0 /\ clearing = 0 /\ retired = 0 /\
        notes = 0 /\ ready = 0 /\ blind = 0
  \/ /\ which = "profile" /\ W!Init
     /\ os = 0 /\ elevated = 0 /\ system = 0 /\ tool = 0 /\ open = 0 /\ page = 0 /\ sel = 0 /\
        found = 0 /\ checked = 0 /\ known = 0 /\ detecting = 0 /\ runs = 0 /\ toggles = 0 /\
        token = 0 /\ listening = 0 /\ full = 0 /\ message = 0 /\ cancelled = 0 /\
        workers = 0 /\ events = 0 /\ cli = 0 /\ extras = 0 /\ policy = 0 /\ changed = 0 /\
        asked = 0 /\ off = 0 /\ target = 0 /\ component = 0 /\ pinned = 0 /\ hosted = 0 /\
        source = 0 /\ request = 0 /\ tries = 0 /\ left = 0 /\ permissive = 0 /\ asset = 0 /\
        result = 0 /\ run = 0 /\ todo = 0 /\ program = 0 /\ reg = 0 /\ leaving = 0 /\
        held = 0 /\ proc = 0 /\ needs = 0 /\ lo0 = 0 /\ wired = 0 /\ live = 0 /\ stuck = 0 /\
        clean = 0 /\ report = 0 /\ told = 0 /\ lost = 0 /\ folder = 0 /\ step = 0 /\ sid = 0 /\
        unit = 0 /\ place = 0 /\ oldProgram = 0 /\ has = 0 /\ vacating = 0 /\ clearing = 0 /\
        retired = 0 /\ notes = 0 /\ ready = 0 /\ blind = 0
  \/ /\ which = "audit" /\ A!Init
     /\ elevated = 0 /\ system = 0 /\ tool = 0 /\ open = 0 /\ page = 0 /\ sel = 0 /\
        found = 0 /\ checked = 0 /\ known = 0 /\ detecting = 0 /\ toggles = 0 /\ token = 0 /\
        listening = 0 /\ full = 0 /\ message = 0 /\ cancelled = 0 /\ workers = 0 /\
        events = 0 /\ cli = 0 /\ extras = 0 /\ policy = 0 /\ changed = 0 /\ asked = 0 /\
        off = 0 /\ target = 0 /\ component = 0 /\ pinned = 0 /\ hosted = 0 /\ source = 0 /\
        request = 0 /\ tries = 0 /\ left = 0 /\ permissive = 0 /\ asset = 0 /\ result = 0 /\
        run = 0 /\ todo = 0 /\ program = 0 /\ reg = 0 /\ leaving = 0 /\ held = 0 /\ proc = 0 /\
        needs = 0 /\ lo0 = 0 /\ wired = 0 /\ live = 0 /\ stuck = 0 /\ clean = 0 /\
        report = 0 /\ told = 0 /\ lost = 0 /\ folder = 0 /\ at = 0 /\ sid = 0 /\ taken = 0 /\
        level = 0 /\ link = 0 /\ logs = 0 /\ profile = 0 /\ launched = 0 /\ met = 0 /\
        launches = 0

Next ==
  /\ UNCHANGED which
  /\ \/ which = "gui" /\ G!Next /\ UNCHANGED GRest
     \/ which = "fetch" /\ F!Next /\ UNCHANGED FRest
     \/ which = "dns" /\ R!Next /\ UNCHANGED RRest
     \/ which = "folders" /\ D!Next /\ UNCHANGED DRest
     \/ which = "profile" /\ W!Next /\ UNCHANGED WRest
     \/ which = "audit" /\ A!Next /\ UNCHANGED ARest

vars == <<which, os, elevated, system, tool, open, page, sel, found, checked, known, detecting,
                 runs, toggles, token, listening, full, message, cancelled, workers, events,
                 cli, extras, policy, changed, asked, off, target, component, pinned, hosted,
                 source, request, tries, left, permissive, asset, result, faults, run, todo,
                 program, reg, leaving, held, proc, needs, lo0, wired, live, stuck, clean,
                 report, told, lost, folder, step, at, sid, taken, level, link, logs, profile,
                 launched, met, launches, unit, place, oldProgram, has, vacating, clearing,
                 retired, notes, ready, blind>>

Spec ==
  /\ Init /\ [][Next]_vars
  /\ WF_vars(which = "gui" /\ G!Worker /\ UNCHANGED GRest /\ UNCHANGED which)
  /\ WF_vars(which = "gui" /\ G!Deliver /\ UNCHANGED GRest /\ UNCHANGED which)

------------------------------------------------------------------------------
(* GuiRun: what the last page shows is so, what was done was asked for, a  *)
(* refused run changed nothing, and a window installs once at a time.      *)
WizardHolds == which = "gui" => G!TypeOK /\ G!WizardHolds

(* GuiRun: whoever waits is told how it ended.                             *)
EndIsTold ==
  (which = "gui" /\ page = "installing")
    ~> (which # "gui" \/ full \/ message # "" \/ ~open)

(* ReleaseFetch: the right program, refused or given up only with a cause. *)
ChoiceHolds == which = "fetch" => F!TypeOK /\ F!ChoiceHolds

(* Resolver: an install or uninstall where no call fails leaves the new    *)
(* program or none, and of a restart that is needed some run has told.     *)
ResolverHolds == which = "dns" => R!TypeOK /\ R!ResolverHolds

(* DaemonDir: a folder reported as locked is, with the daemon's files and  *)
(* none a user had left in one of theirs.                                  *)
FolderHolds == which = "folders" => D!TypeOK /\ D!FolderHolds

(* WebviewDir: a window opens over locked folders only, with the profile   *)
(* an earlier window left and none a user left.                            *)
WindowHolds == which = "profile" => W!TypeOK /\ W!WindowHolds

(* RegAudit: what is reported as deregistered is down, and ready means     *)
(* that everything known runs from the protected folder.                   *)
MigrationHolds == which = "audit" => A!TypeOK /\ A!MigrationHolds

(* WebviewDir, RegAudit: the other services' files under the root, and a   *)
(* unit file that is not ours to remove, survive.                          *)
ForeignKept ==
  [][/\ which = "profile" => W!KeepsLogs
     /\ which = "audit" => A!KeepsForeignUnit]_vars

==============================================================================
