----------------------------- MODULE MCSettings -----------------------------
(***************************************************************************)
(* The instance of the components that change what others may change too,  *)
(* settings of the machine or of the user and the folders of the install   *)
(* root, each by itself: they share no state but the report.               *)
(***************************************************************************)
EXTENDS Naturals

CONSTANTS
  Browsers,     \* those of the force-list
  Runs,         \* bounds: runs of a component,
  DesktopRuns,  \* of the link handlers and the firewall,
  Edits,        \* edits by others,
  HostsEdits,   \* of the hosts file,
  Faults,       \* failures and crashes,
  Others        \* and what other accounts do to the install root

ASSUME BrowsersAssumption == Browsers # {}

ASSUME BoundsAssumption ==
  {Runs, DesktopRuns, Edits, HostsEdits, Faults, Others} \subseteq Nat

VARIABLES
  which,
  file, binary, op, pc, new, attempt, report, resolves, wanted, lost, runs, edits, os, policy,
  channel, selected, at, todo, seen, removed, outcome, had, orgs, unread, headless, known, xdg,
  owner, entry, unit, session, agents, user, acting, registered, stale, launched, unopened,
  elevated, key, command, files, default, bin, alf, rules, rule, theirs, raced, lookalike,
  failed, safe, base, closed, fragment, link, placed, foreign, path, odd, old, uses, verdict,
  wired, scope, current, ours, level, step, purpose, astray, answered, ensured, told, result,
  meddled, fixable, faults, others

H == INSTANCE HostsFile WITH MaxEdits <- HostsEdits, MaxRuns <- Runs
F == INSTANCE Forcelist WITH CATALOGUE <- Browsers, MaxEdits <- Edits, MaxRuns <- Runs
U == INSTANCE UserSession WITH MaxRuns <- Runs
D == INSTANCE Desktop WITH MaxRuns <- DesktopRuns, MaxEdits <- Edits
P == INSTANCE PathWiring WITH MaxRuns <- Runs, MaxEdits <- Edits
L == INSTANCE InstallRoot WITH MaxRuns <- Runs, MaxFaults <- Faults, MaxOthers <- Others

(* The variables a component does not have.                              *)
HRest == <<os, policy, channel, selected, at, todo, seen, removed, outcome, had, orgs, unread,
            headless, known, xdg, owner, entry, unit, session, agents, user, acting,
            registered, stale, launched, unopened, elevated, key, command, files, default, bin,
            alf, rules, rule, theirs, raced, lookalike, failed, safe, base, closed, fragment,
            link, placed, foreign, path, odd, old, uses, verdict, wired, scope, current, ours,
            level, step, purpose, astray, answered, ensured, told, result, meddled, fixable,
            faults, others>>
FRest == <<file, binary, new, attempt, report, resolves, wanted, headless, known, xdg, owner,
            entry, unit, session, agents, user, acting, registered, stale, launched, unopened,
            elevated, key, command, files, default, bin, alf, rules, rule, theirs, raced,
            lookalike, failed, safe, base, closed, fragment, link, placed, foreign, path, odd,
            old, uses, verdict, wired, scope, current, ours, level, step, purpose, astray,
            answered, ensured, told, result, meddled, fixable, faults, others>>
URest == <<file, binary, new, attempt, report, resolves, wanted, lost, edits, policy, channel,
            selected, at, todo, seen, outcome, had, orgs, unread, elevated, key, command,
            files, default, bin, alf, rules, rule, theirs, raced, lookalike, failed, safe,
            base, closed, fragment, link, placed, foreign, path, odd, old, uses, verdict,
            wired, scope, current, ours, level, step, purpose, astray, answered, ensured, told,
            result, meddled, fixable, faults, others>>
DRest == <<file, binary, op, new, attempt, report, resolves, wanted, lost, policy, channel,
            selected, seen, removed, outcome, had, orgs, unread, headless, known, xdg, owner,
            entry, unit, session, agents, user, acting, stale, launched, unopened, safe, base,
            closed, fragment, link, placed, foreign, path, odd, old, uses, verdict, wired,
            scope, current, ours, level, step, purpose, astray, answered, ensured, told,
            result, meddled, fixable, faults, others>>
PRest == <<file, binary, op, new, attempt, report, resolves, policy, channel, selected, at,
            todo, removed, outcome, had, orgs, unread, headless, known, xdg, owner, entry,
            unit, session, agents, user, acting, registered, stale, launched, unopened, key,
            command, default, alf, rules, rule, theirs, lookalike, ours, level, step, purpose,
            astray, answered, ensured, told, result, meddled, fixable, faults, others>>
LRest == <<binary, op, pc, new, attempt, report, resolves, wanted, lost, edits, policy,
            channel, selected, todo, seen, removed, outcome, had, orgs, unread, headless,
            known, xdg, owner, entry, unit, session, agents, user, acting, registered, stale,
            launched, unopened, key, command, files, default, bin, alf, rules, rule, theirs,
            raced, lookalike, safe, base, closed, fragment, link, foreign, path, odd, old,
            uses, verdict, wired, scope, current>>

Init ==
  \/ /\ which = "hosts" /\ H!Init
     /\ os = 0 /\ policy = 0 /\ channel = 0 /\ selected = 0 /\ at = 0 /\ todo = 0 /\
        seen = 0 /\ removed = 0 /\ outcome = 0 /\ had = 0 /\ orgs = 0 /\ unread = 0 /\
        headless = 0 /\ known = 0 /\ xdg = 0 /\ owner = 0 /\ entry = 0 /\ unit = 0 /\
        session = 0 /\ agents = 0 /\ user = 0 /\ acting = 0 /\ registered = 0 /\ stale = 0 /\
        launched = 0 /\ unopened = 0 /\ elevated = 0 /\ key = 0 /\ command = 0 /\ files = 0 /\
        default = 0 /\ bin = 0 /\ alf = 0 /\ rules = 0 /\ rule = 0 /\ theirs = 0 /\
        raced = 0 /\ lookalike = 0 /\ failed = 0 /\ safe = 0 /\ base = 0 /\ closed = 0 /\
        fragment = 0 /\ link = 0 /\ placed = 0 /\ foreign = 0 /\ path = 0 /\ odd = 0 /\
        old = 0 /\ uses = 0 /\ verdict = 0 /\ wired = 0 /\ scope = 0 /\ current = 0 /\
        ours = 0 /\ level = 0 /\ step = 0 /\ purpose = 0 /\ astray = 0 /\ answered = 0 /\
        ensured = 0 /\ told = 0 /\ result = 0 /\ meddled = 0 /\ fixable = 0 /\ faults = 0 /\
        others = 0
  \/ /\ which = "forcelist" /\ F!Init
     /\ file = 0 /\ binary = 0 /\ new = 0 /\ attempt = 0 /\ report = 0 /\ resolves = 0 /\
        wanted = 0 /\ headless = 0 /\ known = 0 /\ xdg = 0 /\ owner = 0 /\ entry = 0 /\
        unit = 0 /\ session = 0 /\ agents = 0 /\ user = 0 /\ acting = 0 /\ registered = 0 /\
        stale = 0 /\ launched = 0 /\ unopened = 0 /\ elevated = 0 /\ key = 0 /\ command = 0 /\
        files = 0 /\ default = 0 /\ bin = 0 /\ alf = 0 /\ rules = 0 /\ rule = 0 /\
        theirs = 0 /\ raced = 0 /\ lookalike = 0 /\ failed = 0 /\ safe = 0 /\ base = 0 /\
        closed = 0 /\ fragment = 0 /\ link = 0 /\ placed = 0 /\ foreign = 0 /\ path = 0 /\
        odd = 0 /\ old = 0 /\ uses = 0 /\ verdict = 0 /\ wired = 0 /\ scope = 0 /\
        current = 0 /\ ours = 0 /\ level = 0 /\ step = 0 /\ purpose = 0 /\ astray = 0 /\
        answered = 0 /\ ensured = 0 /\ told = 0 /\ result = 0 /\ meddled = 0 /\ fixable = 0 /\
        faults = 0 /\ others = 0
  \/ /\ which = "session" /\ U!Init
     /\ file = 0 /\ binary = 0 /\ new = 0 /\ attempt = 0 /\ report = 0 /\ resolves = 0 /\
        wanted = 0 /\ lost = 0 /\ edits = 0 /\ policy = 0 /\ channel = 0 /\ selected = 0 /\
        at = 0 /\ todo = 0 /\ seen = 0 /\ outcome = 0 /\ had = 0 /\ orgs = 0 /\ unread = 0 /\
        elevated = 0 /\ key = 0 /\ command = 0 /\ files = 0 /\ default = 0 /\ bin = 0 /\
        alf = 0 /\ rules = 0 /\ rule = 0 /\ theirs = 0 /\ raced = 0 /\ lookalike = 0 /\
        failed = 0 /\ safe = 0 /\ base = 0 /\ closed = 0 /\ fragment = 0 /\ link = 0 /\
        placed = 0 /\ foreign = 0 /\ path = 0 /\ odd = 0 /\ old = 0 /\ uses = 0 /\
        verdict = 0 /\ wired = 0 /\ scope = 0 /\ current = 0 /\ ours = 0 /\ level = 0 /\
        step = 0 /\ purpose = 0 /\ astray = 0 /\ answered = 0 /\ ensured = 0 /\ told = 0 /\
        result = 0 /\ meddled = 0 /\ fixable = 0 /\ faults = 0 /\ others = 0
  \/ /\ which = "desktop" /\ D!Init
     /\ file = 0 /\ binary = 0 /\ op = 0 /\ new = 0 /\ attempt = 0 /\ report = 0 /\
        resolves = 0 /\ wanted = 0 /\ lost = 0 /\ policy = 0 /\ channel = 0 /\ selected = 0 /\
        seen = 0 /\ removed = 0 /\ outcome = 0 /\ had = 0 /\ orgs = 0 /\ unread = 0 /\
        headless = 0 /\ known = 0 /\ xdg = 0 /\ owner = 0 /\ entry = 0 /\ unit = 0 /\
        session = 0 /\ agents = 0 /\ user = 0 /\ acting = 0 /\ stale = 0 /\ launched = 0 /\
        unopened = 0 /\ safe = 0 /\ base = 0 /\ closed = 0 /\ fragment = 0 /\ link = 0 /\
        placed = 0 /\ foreign = 0 /\ path = 0 /\ odd = 0 /\ old = 0 /\ uses = 0 /\
        verdict = 0 /\ wired = 0 /\ scope = 0 /\ current = 0 /\ ours = 0 /\ level = 0 /\
        step = 0 /\ purpose = 0 /\ astray = 0 /\ answered = 0 /\ ensured = 0 /\ told = 0 /\
        result = 0 /\ meddled = 0 /\ fixable = 0 /\ faults = 0 /\ others = 0
  \/ /\ which = "path" /\ P!Init
     /\ file = 0 /\ binary = 0 /\ op = 0 /\ new = 0 /\ attempt = 0 /\ report = 0 /\
        resolves = 0 /\ policy = 0 /\ channel = 0 /\ selected = 0 /\ at = 0 /\ todo = 0 /\
        removed = 0 /\ outcome = 0 /\ had = 0 /\ orgs = 0 /\ unread = 0 /\ headless = 0 /\
        known = 0 /\ xdg = 0 /\ owner = 0 /\ entry = 0 /\ unit = 0 /\ session = 0 /\
        agents = 0 /\ user = 0 /\ acting = 0 /\ registered = 0 /\ stale = 0 /\ launched = 0 /\
        unopened = 0 /\ key = 0 /\ command = 0 /\ default = 0 /\ alf = 0 /\ rules = 0 /\
        rule = 0 /\ theirs = 0 /\ lookalike = 0 /\ ours = 0 /\ level = 0 /\ step = 0 /\
        purpose = 0 /\ astray = 0 /\ answered = 0 /\ ensured = 0 /\ told = 0 /\ result = 0 /\
        meddled = 0 /\ fixable = 0 /\ faults = 0 /\ others = 0
  \/ /\ which = "root" /\ L!Init
     /\ binary = 0 /\ op = 0 /\ pc = 0 /\ new = 0 /\ attempt = 0 /\ report = 0 /\
        resolves = 0 /\ wanted = 0 /\ lost = 0 /\ edits = 0 /\ policy = 0 /\ channel = 0 /\
        selected = 0 /\ todo = 0 /\ seen = 0 /\ removed = 0 /\ outcome = 0 /\ had = 0 /\
        orgs = 0 /\ unread = 0 /\ headless = 0 /\ known = 0 /\ xdg = 0 /\ owner = 0 /\
        entry = 0 /\ unit = 0 /\ session = 0 /\ agents = 0 /\ user = 0 /\ acting = 0 /\
        registered = 0 /\ stale = 0 /\ launched = 0 /\ unopened = 0 /\ key = 0 /\
        command = 0 /\ files = 0 /\ default = 0 /\ bin = 0 /\ alf = 0 /\ rules = 0 /\
        rule = 0 /\ theirs = 0 /\ raced = 0 /\ lookalike = 0 /\ safe = 0 /\ base = 0 /\
        closed = 0 /\ fragment = 0 /\ link = 0 /\ foreign = 0 /\ path = 0 /\ odd = 0 /\
        old = 0 /\ uses = 0 /\ verdict = 0 /\ wired = 0 /\ scope = 0 /\ current = 0

Next ==
  /\ UNCHANGED which
  /\ \/ which = "hosts" /\ H!Next /\ UNCHANGED HRest
     \/ which = "forcelist" /\ F!Next /\ UNCHANGED FRest
     \/ which = "session" /\ U!Next /\ UNCHANGED URest
     \/ which = "desktop" /\ D!Next /\ UNCHANGED DRest
     \/ which = "path" /\ P!Next /\ UNCHANGED PRest
     \/ which = "root" /\ L!Next /\ UNCHANGED LRest

vars == <<which, file, binary, op, pc, new, attempt, report, resolves, wanted, lost, runs,
                 edits, os, policy, channel, selected, at, todo, seen, removed, outcome, had,
                 orgs, unread, headless, known, xdg, owner, entry, unit, session, agents, user,
                 acting, registered, stale, launched, unopened, elevated, key, command, files,
                 default, bin, alf, rules, rule, theirs, raced, lookalike, failed, safe, base,
                 closed, fragment, link, placed, foreign, path, odd, old, uses, verdict, wired,
                 scope, current, ours, level, step, purpose, astray, answered, ensured, told,
                 result, meddled, fixable, faults, others>>

Spec == Init /\ [][Next]_vars

------------------------------------------------------------------------------
(* HostsFile: others' lines survive, and the report is true.               *)
EditsHold == which = "hosts" => H!TypeOK /\ H!EditsHold

(* Forcelist: a policy keeps what the organisation put there, has our      *)
(* entry once, and the outcome reported is so.                             *)
PolicyHolds == which = "forcelist" => F!TypeOK /\ F!PolicyHolds

(* UserSession: dig-app starts once at login, in folders the user owns.    *)
EntryHolds == which = "session" => U!TypeOK /\ U!EntryHolds

(* Desktop: others' handlers survive, and an uninstall clears ours.        *)
HandlersHold == which = "desktop" => D!TypeOK /\ D!HandlersHold

(* PathWiring: others' entries of PATH survive, and after a run without a  *)
(* failure the command is found, in the current root only.                 *)
WiringHolds == which = "path" => P!TypeOK /\ P!WiringHolds

(* InstallRoot: what a run knows of its root is so: a closed chain, levels *)
(* and files that are the system's, and a root that running again repairs. *)
RootHolds == which = "root" => L!TypeOK /\ L!RootHolds

(* PathWiring: nothing that is needed goes from the superseded root.       *)
OldRootNeeded == P!OldRootNeeded

==============================================================================
