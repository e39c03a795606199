------------------------------ MODULE UserSession ------------------------------
(***************************************************************************)
(* dig-app in its user's session: for whom a run acts (invoker.rs), the    *)
(* login entry it writes for that account without leaving anything of      *)
(* root's in the account's home (autostart.rs, userwrite.rs), and the      *)
(* start right after the install (launch.rs).  One account, "alice",       *)
(* besides root; the entry lies two folders below a home, or below where   *)
(* XDG_CONFIG_HOME says that alice keeps her configuration.                *)
(***************************************************************************)
EXTENDS Naturals, FiniteSets

CONSTANTS MaxRuns      \* bound

VARIABLES
  os, headless,
  known,     \* alice is in the account database
  xdg,       \* her session, and what she starts in it, has XDG_CONFIG_HOME elsewhere
  owner,     \* place -> its owner and those of the folders below: <<home, folder, folder>>
  entry,     \* place -> the login entry: "none", "torn", "current"
  unit,      \* place -> the systemd user unit an older release wrote: "none", "there", "enabled"
  session,   \* alice is logged in
  agents,    \* what runs dig-app in her session: "login", "unit", "hand"
  pc, op,
  user, acting,
  registered, stale, launched, removed,   \* what the run says
  unopened,  \* history: the Run key could not be opened, which passes for its absence
  runs

account == <<os, headless, known, xdg>>
home    == <<owner, entry, unit>>
said    == <<registered, stale, launched, removed, unopened>>
vars    == <<account, home, session, agents, pc, op, user, acting, said, runs>>

Homes    == {"alice", "root"}
Places   == Homes \cup {"xdg"}
Accounts == {"alice", "root", "ghost"}
Owners   == {"absent", "alice", "root", "bob"}

TypeOK ==
  /\ os \in {"windows", "linux", "macos"} /\ headless \in BOOLEAN /\ known \in BOOLEAN /\ xdg \in BOOLEAN
  /\ owner \in [Places -> Owners \X Owners \X Owners]
  /\ entry \in [Places -> {"none", "torn", "current"}]
  /\ unit \in [Places -> {"none", "there", "enabled"}]
  /\ session \in BOOLEAN /\ agents \subseteq {"login", "unit", "hand"}
  /\ pc \in {"idle", "register", "hand_over", "write", "stale", "launch", "remove"}
  /\ op \in {"install", "uninstall"}
  /\ user \in [name : Accounts, home : Homes, uid : Accounts \cup {"none"}] /\ acting \in BOOLEAN
  /\ registered \in BOOLEAN /\ stale \in BOOLEAN /\ launched \in BOOLEAN /\ removed \in BOOLEAN
  /\ unopened \in BOOLEAN /\ runs \in 0..MaxRuns

(* Alice's folders may be root's, from a release that wrote them as root,  *)
(* or a third account's, and so may her home.                              *)
Init ==
  /\ os \in {"windows", "linux", "macos"} /\ headless \in BOOLEAN /\ known \in BOOLEAN
  /\ xdg \in {FALSE, os = "linux"}
  /\ \E a \in {<<"alice", "absent", "absent">>, <<"alice", "alice", "root">>,
               <<"alice", "root", "root">>, <<"alice", "root", "bob">>,
               <<"alice", "bob", "absent">>, <<"root", "absent", "absent">>} :
       owner = [p \in Places |-> IF p = "root" THEN <<"root", "root", "absent">>
                                 ELSE IF p = "alice" \/ xdg THEN a
                                 ELSE <<"absent", "absent", "absent">>]
  /\ entry = [p \in Places |-> "none"]
  /\ \E u \in IF os = "linux" THEN {"none", "there", "enabled"} ELSE {"none"} :
       unit = [p \in Places |-> IF p = "alice" \/ (p = "xdg" /\ xdg) THEN u ELSE "none"]
  /\ session = FALSE /\ agents = {} /\ pc = "idle" /\ op = "install"
  /\ user = [name |-> "alice", home |-> "alice", uid |-> "none"] /\ acting = FALSE
  /\ registered = FALSE /\ stale = FALSE /\ launched = FALSE /\ removed = FALSE
  /\ unopened = FALSE /\ runs = 0

---------------------------------------------------------------------------
(* Whom the run is for: the account that started it, or the one sudo, doas *)
(* or pkexec says it came from, by its name or else by its id.             *)
Hints == [euid : IF os = "windows" THEN {"alice"} ELSE {"alice", "root"},
          name : Accounts \cup {"none"}, uid : Accounts \cup {"none"}]

Hinted(h, what) == IF h.euid # "root" \/ what = "root" THEN "none" ELSE what

Known == IF known THEN {"alice"} ELSE {}

Resolve(h) ==
  LET name == Hinted(h, h.name)
      uid  == Hinted(h, h.uid)
  IN  IF {name, uid} = {"none"} THEN [name |-> h.euid, home |-> h.euid, uid |-> "none"]
      ELSE IF {name, uid} \cap Known # {}
      THEN [name |-> "alice", home |-> "alice", uid |-> "alice"]
      ELSE [name |-> IF name # "none" THEN name ELSE h.euid, home |-> h.euid, uid |-> uid]

ActingForAnotherAccount(h, u) ==
  h.euid = "root" /\ (IF u.uid # "none" THEN u.uid # "root" ELSE u.name # "root")

Begin ==
  /\ pc = "idle" /\ runs < MaxRuns /\ runs' = runs + 1
  /\ op' \in {"install", "uninstall"} /\ pc' = (IF op' = "install" THEN "register" ELSE "remove")
  /\ \E h \in Hints :
       user' = Resolve(h) /\ acting' = ActingForAnotherAccount(h, user')
  /\ registered' = FALSE /\ stale' = FALSE /\ launched' = FALSE /\ removed' = FALSE
  /\ unopened' = FALSE /\ UNCHANGED <<account, home, session, agents>>

---------------------------------------------------------------------------
(* agent_disposition: no login entry on a host without a desktop, nor for  *)
(* an account nobody knows.                                                *)
Register ==
  /\ pc = "register"
  /\ pc' = IF headless \/ (os # "windows" /\ acting /\ user.uid = "none") THEN "launch"
           ELSE IF acting THEN "hand_over" ELSE "write"
  /\ UNCHANGED <<account, home, session, agents, op, user, acting, said, runs>>

(* The folders down to the first that is not there.                        *)
Present(f) == {i \in 2..3 : \A j \in 2..i : f[j] # "absent"}

(* ensure_user_can_write_dir: root's folders become the user's, one after  *)
(* the other, down to one that is somebody else's, or that will not.       *)
HandedOver(f, n) == [i \in 1..3 |-> IF i \in 2..n /\ f[i] = "root" THEN user.uid ELSE f[i]]

HandOver ==
  /\ pc = "hand_over"
  /\ LET f == owner[user.home]
         foreign == {i \in Present(f) : f[i] \notin {"root", user.uid}}
     IN  \/ /\ f[1] # user.uid /\ pc' = "launch" /\ UNCHANGED owner
         \/ /\ f[1] = user.uid /\ foreign = {} /\ pc' = "write"
            /\ owner' = [owner EXCEPT ![user.home] = HandedOver(f, 3)]
         \/ /\ f[1] = user.uid /\ pc' = "launch"
            /\ \E n \in {i \in Present(f) : i \in foreign \/ f[i] = "root"} :
                 /\ \A i \in foreign : n <= i
                 /\ owner' = [owner EXCEPT ![user.home] = HandedOver(f, n - 1)]
  /\ UNCHANGED <<account, entry, unit, session, agents, op, user, acting, said, runs>>

(* target_xdg_config_home: the variable is that of the account the run     *)
(* started as, so it is not asked when the run acts for another.           *)
Place == IF xdg /\ user.home = "alice" /\ ~acting THEN "xdg" ELSE user.home

(* Who writes: su makes the shell the user's.                              *)
Writer == user.name

Deepest(f) == IF f[3] # "absent" /\ f[2] # "absent" THEN f[3] ELSE IF f[2] # "absent" THEN f[2] ELSE f[1]

CanWrite(who, f) == who = "root" \/ Deepest(f) = who

(* A write that breaks off leaves a torn file (not in the registry).       *)
Write ==
  /\ pc = "write"
  /\ \/ /\ CanWrite(Writer, owner[Place]) \/ os = "windows"
        /\ entry' = [entry EXCEPT ![Place] = "current"]
        /\ owner' = IF os = "windows" THEN owner ELSE
             [owner EXCEPT ![Place] = [i \in 1..3 |-> IF @[i] = "absent" THEN Writer ELSE @[i]]]
        /\ IF os = "linux" THEN pc' = "stale" /\ UNCHANGED registered
           ELSE pc' = "launch" /\ registered' = TRUE
     \/ /\ entry' \in {entry} \cup
             (IF os # "windows" /\ CanWrite(Writer, owner[Place])
              THEN {[entry EXCEPT ![Place] = "torn"]} ELSE {})
        /\ pc' = "launch" /\ UNCHANGED <<owner, registered>>
  /\ UNCHANGED <<account, unit, session, agents, op, user, acting, stale, launched, removed,
                 unopened, runs>>

(* Mutant: the unit stays, and nothing is said of it. *)
StaleUnitKept == UNCHANGED unit /\ stale' = FALSE

(* The unit an older release wrote; if it stays, the note says so.         *)
StaleUnit ==
  \/ unit' = [unit EXCEPT ![Place] = "none"] /\ stale' = FALSE
  \/ unit[Place] # "none" /\ UNCHANGED unit /\ stale' = TRUE

RemoveStaleSystemdUserUnit ==
  /\ pc = "stale" /\ pc' = "launch" /\ StaleUnit /\ registered' = TRUE
  /\ UNCHANGED <<account, owner, entry, session, agents, op, user, acting, launched, removed,
                 unopened, runs>>

---------------------------------------------------------------------------
(* Plan::for_os and carry_out.  A registered entry is started through its  *)
(* own manager; otherwise the program is started and not watched.          *)
Plan ==
  IF os = "macos" /\ registered /\ user.uid # "none" THEN "launchctl"
  ELSE IF os = "linux" /\ registered THEN "systemd-user"
  ELSE "direct"

(* "systemctl --user enable --now" enables the unit her session finds,     *)
(* whether or not it can then start it.                                    *)
SessionPlace == IF xdg THEN "xdg" ELSE "alice"

EnableNow ==
  /\ Plan = "systemd-user" /\ session /\ user.home = "alice" /\ unit[SessionPlace] # "none"
  /\ unit' = [unit EXCEPT ![SessionPlace] = "enabled"]
  /\ \/ launched' = TRUE /\ agents' = agents \cup {"unit"}
     \/ launched' = FALSE /\ UNCHANGED agents

StartOther ==
  /\ UNCHANGED unit
  /\ \/ launched' = FALSE /\ UNCHANGED agents
     \/ /\ Plan = "launchctl" /\ session /\ "login" \notin agents /\ user.home = "alice"
        /\ agents' = agents \cup {"login"} /\ launched' = TRUE
     \/ /\ Plan = "direct" /\ launched' = TRUE
        /\ agents' \in {agents, IF session /\ user.home = "alice" THEN agents \cup {"hand"} ELSE agents}

Launch ==
  /\ pc = "launch" /\ pc' = "idle"
  /\ EnableNow \/ StartOther
  /\ UNCHANGED <<account, owner, entry, session, op, user, acting, registered, stale, removed,
                 unopened, runs>>

(* deregister.  On Unix a call for the entry and, on Linux, another for    *)
(* the unit of an older release, whatever came of the first; each counts   *)
(* an absent file as success.  On Windows a Run key that cannot be opened  *)
(* counts as one that is not there.                                        *)
DeregisterWindows ==
  /\ os = "windows" /\ UNCHANGED unit
  /\ \/ /\ removed' = TRUE /\ unopened' = FALSE
        /\ entry' = [entry EXCEPT ![Place] = "none"]
     \/ removed' = TRUE /\ unopened' = TRUE /\ UNCHANGED entry
     \/ removed' = FALSE /\ unopened' = FALSE /\ UNCHANGED entry

DeregisterUnix ==
  /\ os # "windows" /\ unopened' = FALSE
  /\ \E first, second \in BOOLEAN :
       /\ entry' = IF first THEN [entry EXCEPT ![Place] = "none"] ELSE entry
       /\ unit' = IF second /\ os = "linux" THEN [unit EXCEPT ![Place] = "none"] ELSE unit
       /\ removed' = (first /\ (second \/ os # "linux"))

Deregister ==
  /\ pc = "remove" /\ pc' = "idle"
  /\ DeregisterWindows \/ DeregisterUnix
  /\ UNCHANGED <<account, owner, session, agents, op, user, acting, registered, stale, launched, runs>>

Crash ==
  /\ pc # "idle" /\ pc' = "idle"
  /\ entry' \in {entry} \cup (IF pc = "write" THEN {[entry EXCEPT ![Place] = "torn"]} ELSE {})
  /\ UNCHANGED <<account, owner, unit, session, agents, op, user, acting, said, runs>>

---------------------------------------------------------------------------
(* What starts dig-app when alice logs in.                                 *)
Starters ==
  (IF entry[SessionPlace] = "current" THEN {"login"} ELSE {}) \cup
  (IF unit[SessionPlace] = "enabled" THEN {"unit"} ELSE {})

Login ==
  /\ ~session /\ session' = TRUE /\ agents' = Starters
  /\ UNCHANGED <<account, home, pc, op, user, acting, said, runs>>

Logout ==
  /\ session /\ session' = FALSE /\ agents' = {}
  /\ UNCHANGED <<account, home, pc, op, user, acting, said, runs>>

Next ==
  \/ Begin \/ Register \/ HandOver \/ Write \/ RemoveStaleSystemdUserUnit \/ Launch
  \/ Deregister \/ Crash \/ Login \/ Logout

Spec == Init /\ [][Next]_vars

---------------------------------------------------------------------------
(* A registration for alice that is reported, with no remark about an old  *)
(* unit, starts dig-app at her next login, once, however it was started    *)
(* right away; one that is reported removed does not start it at all       *)
(* (AutostartResult, deregister).  Not so when the run acts for alice and  *)
(* she keeps her configuration elsewhere, which it cannot know, nor when   *)
(* the Run key was taken for absent.                                       *)
OutOfSight == xdg /\ acting

LoginStartsOne ==
  user.home = "alice" /\ ~OutOfSight =>
    /\ registered /\ ~stale => Cardinality(Starters) = 1
    /\ removed /\ ~unopened => Starters = {}

(* Registering for another account leaves it the owner of every folder     *)
(* down to the entry, whoever made them, so that it may change or remove   *)
(* the entry (ensure_user_can_write_dir).                                  *)
UsersOwn ==
  registered /\ acting /\ os # "windows" => \A i \in 1..3 : owner[user.home][i] = user.uid

(* What a registration promises of the user's session.                     *)
EntryHolds == LoginStartsOne /\ UsersOwn

=============================================================================
