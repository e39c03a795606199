------------------------------ MODULE WebviewDir -----------------------------
(***************************************************************************)
(* The folder the window's browser profile lives in when the installer is  *)
(* launched as the system account (daemon_dir.rs): it hangs, two levels    *)
(* down, from a root every DIG service keeps files under.  A launch locks  *)
(* the root where it stands -- it is not the installer's to delete --,     *)
(* removes the installer's own levels when they are not in the system's    *)
(* hands, and makes and locks them one by one, each under a parent already *)
(* locked.  Before and after it looks for links on the path, which would   *)
(* lead elsewhere.  Any step that fails ends the launch with no window.    *)
(* The users of the machine make, replace and take away what they may at   *)
(* any time.                                                               *)
(***************************************************************************)
EXTENDS Naturals, FiniteSets

CONSTANTS MaxLaunches, MaxFaults

VARIABLES
  level,    \* per level: owner and access list of the folder reached there
  link,     \* the levels that are links (reparse points) to a folder elsewhere
  logs,     \* the other services' files under the root
  profile,  \* the profile in the deepest level: "none", "ours", "new", "users"
  at,       \* what the launch does next, "idle" between launches
  launched, \* the last launch handed the folder to the window
  met,      \* history: the profile was ours, in the system's hands, and seen to be
  taken,    \* history: the levels taken from a user for a removal that failed
  launches,
  faults

vars == <<level, link, logs, profile, at, launched, met, taken, launches, faults>>

LEVELS == {"root", "installer", "webview"}
TOOLS == {"owner", "reset", "grant"}
Parent(l) == IF l = "webview" THEN "installer" ELSE "root"
Below(l) == CASE l = "root" -> {"installer", "webview"} [] l = "installer" -> {"webview"}
              [] l = "webview" -> {}

(* "open": the parent's list is in force; "users": a user has entries of   *)
(* their own in it; "mixed": theirs beside the installer's.                *)
Level == [owner : {"none", "system", "admins", "user"},
          list : {"none", "open", "users", "mixed", "locked"}]
None == [owner |-> "none", list |-> "none"]
Fresh == [owner |-> "admins", list |-> "open"]
Users == [owner |-> "user", list |-> "users"]
Safe == [owner |-> "system", list |-> "locked"]
Exists(l) == level[l] # None

(* An earlier launch's folders, or none.                                   *)
Init ==
  /\ \E there \in BOOLEAN :
       /\ level = [l \in LEVELS |-> IF there THEN Safe ELSE None]
       /\ logs = there /\ profile = IF there THEN "ours" ELSE "none"
  /\ link = {} /\ taken = {}
  /\ at = "idle" /\ launched = FALSE /\ met = FALSE
  /\ launches = 0 /\ faults = 0

Fault == faults < MaxFaults /\ faults' = faults + 1

Begin ==
  /\ at = "idle" /\ launches < MaxLaunches
  /\ launches' = launches + 1
  /\ at' = "check" /\ launched' = FALSE /\ met' = FALSE
  /\ profile' = IF profile = "new" THEN "ours" ELSE profile
  /\ UNCHANGED <<level, link, logs, taken, faults>>

(* A link anywhere on the path refuses the launch before anything is made. *)
Check ==
  /\ at = "check" /\ at' = IF link = {} THEN "root" ELSE "idle"
  /\ UNCHANGED <<level, link, logs, profile, launched, met, taken, launches, faults>>

Trusted(owner) == owner \in {"system", "admins"}

(* create_dir, one level: a folder that is there stays as it is.           *)
Made(l) == IF Exists(l) THEN level[l] ELSE Fresh

(* The three tools over one folder, `done` being those that did their work *)
(* (the others exit cleanly with nothing done, or fail).                   *)
Cleared(list, done) == IF "reset" \in done THEN "open" ELSE list
Closed(list, done) ==
  IF "grant" \in done
  THEN CASE list \in {"open", "locked"} -> "locked" [] OTHER -> "mixed"
  ELSE list
lock_here(f, done) ==
  [owner |-> IF "owner" \in done THEN "system" ELSE f.owner,
   list |-> Closed(Cleared(f.list, done), done)]

read_and_verify(f) == Trusted(f.owner) /\ f.list = "locked"

(* Making and locking level l: done and verified, or failed with the       *)
(* folder as far as the tools got.                                         *)
Locked(l, done) ==
  LET f == lock_here(Made(l), done) IN
  /\ read_and_verify(f) /\ level' = [level EXCEPT ![l] = f]
  /\ IF done = TOOLS THEN UNCHANGED faults ELSE Fault
Partly(l, done) == lock_here(Made(l), done)

(* A level removed with all below it -- of a link only the link --, the    *)
(* profile with them.                                                      *)
Removed(l) ==
  LET gone == {l} \cup Below(l) IN
  /\ level' = [k \in LEVELS |-> IF k \in gone THEN None ELSE level[k]]
  /\ link' = link \ gone /\ taken' = taken \ gone
  /\ profile' = "none"

(* The installer's own levels removed: the root and what the services keep *)
(* there are not touched.                                                  *)
Purge == Removed("installer") /\ UNCHANGED logs

End == at' = "idle" /\ UNCHANGED <<met, launches, launched>>

Root ==
  /\ at = "root" /\ UNCHANGED <<link, logs, profile, launches, launched, met, taken>>
  /\ \E done \in SUBSET TOOLS :
       \/ Locked("root", done) /\ at' = "look"
       \/ Fault /\ level' = [level EXCEPT !["root"] = Partly("root", done)] /\ at' = "idle"

(* The shallowest of the own levels that is there and not in the system's  *)
(* or an administrator's hands.                                            *)
shallowest_untrusted(owners) ==
  LET bad == {l \in {"installer", "webview"} : Exists(l) /\ ~Trusted(owners[l])} IN
  IF "installer" \in bad THEN {"installer"} ELSE bad

(* A removal that fails.  The levels had been given to the system, with    *)
(* all that is below them, so that they could be removed; or the tool that *)
(* gives them did nothing, which is not looked at.  What is below, and the *)
(* profile, may be gone.                                                   *)
HalfRemoved(l) ==
  \E given \in BOOLEAN, gone \in SUBSET Below(l) :
    /\ level' = [k \in LEVELS |->
          IF k \in gone THEN None
          ELSE IF given /\ k \in {l} \cup Below(l) /\ Exists(k)
               THEN [level[k] EXCEPT !.owner = "system"] ELSE level[k]]
    /\ link' = link \ gone
    /\ taken' = (taken \ gone) \cup
          {k \in {l} \cup Below(l) : k \notin gone /\ given /\ level[k].owner = "user"}
    /\ profile' \in IF "webview" \in gone THEN {"none"} ELSE {profile, "none"}

(* The owners as read ("none" when the tool fails), and what is not        *)
(* trusted removed from there down, or the launch given up.                *)
Look ==
  /\ at = "look" /\ UNCHANGED <<logs, launches, launched>>
  /\ \E owners \in [LEVELS -> {"none", "system", "admins", "user"}] :
       /\ \A l \in LEVELS : owners[l] \in {level[l].owner, "none"}
       /\ LET unread == \E l \in {"installer", "webview"} : Exists(l) /\ owners[l] = "none"
              bad == shallowest_untrusted(owners) IN
          /\ IF unread THEN Fault ELSE UNCHANGED faults
          /\ met' = (profile = "ours" /\ ~unread
                      /\ Trusted(level["installer"].owner) /\ Trusted(level["webview"].owner))
          /\ \/ bad = {} /\ at' = "installer" /\ UNCHANGED <<level, link, taken, profile>>
             \/ \E l \in bad : Removed(l) /\ at' = "installer"
             \/ \E l \in bad : HalfRemoved(l) /\ at' = "idle"

(* One of the own levels: made, locked and verified, or the own levels     *)
(* removed again -- as far as that goes.                                   *)
Own(l, next) ==
  /\ at = l
  /\ \E done \in SUBSET TOOLS :
       \/ /\ Locked(l, done) /\ at' = next
          /\ UNCHANGED <<link, logs, profile, launched, launches, met, taken>>
       \/ Fault /\ Purge /\ End
       \/ Fault /\ level' = [level EXCEPT ![l] = Partly(l, done)]
                /\ UNCHANGED <<link, logs, profile, taken>> /\ End

(* Mutant: the links are looked for at the start only.                     *)
RecheckForgotten ==
  /\ at = "recheck" /\ at' = "idle" /\ launched' = TRUE
  /\ profile' = IF profile = "none" THEN "new" ELSE profile
  /\ UNCHANGED <<level, link, logs, met, taken, launches, faults>>

(* The links once more, before the window gets the folder.                 *)
Recheck ==
  /\ at = "recheck" /\ at' = "idle" /\ UNCHANGED <<logs, met, launches, faults>>
  /\ \/ /\ link = {} /\ launched' = TRUE
        /\ profile' = IF profile = "none" THEN "new" ELSE profile
        /\ UNCHANGED <<level, link, taken>>
     \/ link # {} /\ Removed("installer") /\ UNCHANGED launched
     \/ link # {} /\ UNCHANGED <<level, link, profile, launched, taken>>

(* The launch is killed.                                                   *)
Crash ==
  /\ at # "idle" /\ Fault /\ at' = "idle"
  /\ UNCHANGED <<level, link, logs, profile, launched, met, taken, launches>>

(* Where a user may make a folder -- the root's own parent lets everyone;  *)
(* a list that is the parent's lets whom the parent's lets --, and which   *)
(* folders a user may do with as they like.                                *)
Lets(l) == level[l].list \in {"users", "mixed"} \/ (l = "root" /\ level[l].list = "open")
MayMake(l) ==
  \/ l = "root" \/ Lets(Parent(l))
  \/ l = "webview" /\ level["installer"].list = "open" /\ Lets("root")
Theirs(l) == level[l].list \in {"users", "mixed"}

(* A user makes a folder, with a profile in it when it is the deepest, or  *)
(* a link to one of theirs or of the system's.                             *)
UserMakes ==
  /\ \E l \in LEVELS :
       /\ ~Exists(l) /\ (l # "root" => Exists(Parent(l))) /\ MayMake(l)
       /\ \/ level' = [level EXCEPT ![l] = Users] /\ UNCHANGED link
          \/ \E to \in {Users, Safe} :
               level' = [level EXCEPT ![l] = to] /\ link' = link \cup {l}
       /\ profile' = IF l = "webview" THEN "users" ELSE profile
  /\ UNCHANGED <<logs, at, launched, met, taken, launches, faults>>

(* A user makes a link of an empty folder that is theirs.                  *)
UserLinks ==
  /\ \E l \in LEVELS, to \in {Users, Safe} :
       /\ Theirs(l) /\ l \notin link /\ (l = "root" => ~logs)
       /\ \A k \in Below(l) : ~Exists(k)
       /\ level' = [level EXCEPT ![l] = to] /\ link' = link \cup {l}
       /\ profile' = IF l = "webview" THEN "users" ELSE profile
  /\ UNCHANGED <<logs, at, launched, met, taken, launches, faults>>

(* A user takes away a folder or a link of theirs, or one in a folder of   *)
(* theirs.  The services' files stay, and during a launch the links.       *)
UserTakes ==
  /\ \E l \in LEVELS :
       /\ Exists(l) /\ (Theirs(l) \/ l \in link \/ (l # "root" /\ Theirs(Parent(l))))
       /\ l = "root" => ~logs
       /\ at = "idle" \/ link \cap ({l} \cup Below(l)) = {}
       /\ Removed(l)
  /\ UNCHANGED <<logs, at, launched, met, launches, faults>>

(* Another service starts to write under the root.                         *)
ServiceWrites ==
  /\ ~logs /\ Exists("root") /\ logs' = TRUE
  /\ UNCHANGED <<level, link, profile, at, launched, met, taken, launches, faults>>

Next ==
  \/ Begin \/ Check \/ Root \/ Look \/ Own("installer", "webview")
  \/ Own("webview", "recheck") \/ Recheck
  \/ Crash \/ UserMakes \/ UserLinks \/ UserTakes \/ ServiceWrites

Spec == Init /\ [][Next]_vars

------------------------------------------------------------------------------
(* The types of the state.                                                 *)
TypeOK ==
  /\ level \in [LEVELS -> Level] /\ logs \in BOOLEAN
  /\ link \subseteq LEVELS /\ taken \subseteq LEVELS
  /\ profile \in {"none", "ours", "new", "users"}
  /\ at \in {"idle", "check", "look", "recheck"} \cup LEVELS
  /\ launched \in BOOLEAN /\ met \in BOOLEAN
  /\ launches \in 0..MaxLaunches /\ faults \in 0..MaxFaults

(* A window that opens has every level above its profile locked, in the    *)
(* system's hands and where it seems to be, the shared root included: a    *)
(* level closed below an open parent could be replaced from there, and one *)
(* closed behind a link is not the one the window is handed.               *)
WindowMeansLocked ==
  launched => link = {} /\ \A l \in LEVELS : Trusted(level[l].owner) /\ level[l].list = "locked"

(* The profile in front of the window is never one a user left there,      *)
(* unless it is in a folder an earlier launch had already taken from that  *)
(* user and failed to remove: the next launch takes it for the system's.   *)
WindowHasOwnProfile == launched /\ taken = {} => profile \in {"ours", "new"}

(* An earlier window's profile, in folders read to be the system's, is the *)
(* one the next window opens with.                                         *)
ProfileKept == launched /\ met => profile = "ours"

(* What a window that opens promises of its profile and the levels above.  *)
WindowHolds == WindowMeansLocked /\ WindowHasOwnProfile /\ ProfileKept

(* Nothing a launch does, failing or not, costs the other services their   *)
(* files under the shared root.                                            *)
KeepsLogs == logs => logs'
=============================================================================
