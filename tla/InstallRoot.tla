------------------------------ MODULE InstallRoot ------------------------------
(***************************************************************************)
(* The folder the privileged programs go to, as a chain of levels          *)
(* (secure.rs, rootchain.rs, dirfd.rs): the system's own level (/opt,      *)
(* Program Files) and below it the two that are DIG's, or three levels of  *)
(* a folder the user named.  A run makes and repairs DIG's levels, asks    *)
(* the program that is there for its version only from a chain that is     *)
(* closed, places the new one and reads the whole chain back: only a chain *)
(* seen to be closed makes the run ready.                                  *)
(*                                                                         *)
(* Other accounts of the machine change what they may while a run is on:   *)
(* who owns a level sets its mode, and who can write a level puts another  *)
(* entry where the next one was.  The Unix code holds descriptors, so it   *)
(* may go on in a level that is no longer at the path: `astray`.           *)
(***************************************************************************)
EXTENDS Naturals

CONSTANTS
  MaxRuns,
  MaxFaults,  \* bounds the failures and crashes
  MaxOthers   \* bounds what other accounts do

VARIABLES
  os,        \* "unix" or "windows"
  elevated,  \* the run acts as root or an administrator
  ours,      \* the root is the protected one, not a folder the user named
  level,     \* per level: what is at the path
  file,      \* the program in the last level
  step,      \* what the run does next; "idle" between runs
  at,        \* the level it is on
  purpose,   \* what the walk over the levels is for
  astray,    \* the descriptor in hand is no longer what the path names
  answered,  \* the program told its version
  placed,    \* the run wrote the program
  ensured,   \* ensure_protected_dir, or a later ensure, returned Ok in this run
  told,      \* the run reported that the program is not the system's
  result,    \* of the last run
  failed,    \* history: a call of this run failed
  meddled,   \* history: another account acted in this run
  fixable,   \* history: the chain was the run's to repair when it began
  runs,
  faults,
  others

vars == <<os, elevated, ours, level, file, step, at, purpose, astray, answered, placed, ensured,
          told, result, failed, meddled, fixable, runs, faults, others>>

LEVELS == 0..2
DIGS == 1..2
MODES == {"closed", "narrow", "open"}  \* 0755, less than that, group or other may write
OWNERS == {"root", "other"}

Level == [kind : {"absent", "dir", "link"}, owner : OWNERS, mode : MODES]
Dir(who, mode) == [kind |-> "dir", owner |-> who, mode |-> mode]
Absent == [kind |-> "absent", owner |-> "root", mode |-> "closed"]
Link == [Absent EXCEPT !.kind = "link"]

(* The program: whether it is there, whose it is, and whether that account *)
(* holds an entry of its own in the access list.                           *)
File(who) == [there |-> TRUE, owner |-> who, grant |-> who = "other"]
NoFile == [there |-> FALSE, owner |-> "root", grant |-> FALSE]

(* Another account can write the level.  Windows hands an entry of the     *)
(* access list down to the levels below.                                   *)
Open(l) == IF os = "unix" THEN level[l].mode = "open"
           ELSE \E k \in 0..l : level[k].mode = "open"
Loose(l) == level[l].kind = "dir" /\ (level[l].owner = "other" \/ Open(l))

(* The chain another account can change nothing in, down to its end or to  *)
(* the first level that is not there.                                      *)
Closed ==
  \A l \in LEVELS :
    (\A k \in 0..l : level[k].kind # "absent") => level[l].kind = "dir" /\ ~Loose(l)

Pinned == \A l \in DIGS : level[l] = Dir("root", "closed")

Init ==
  /\ os \in {"unix", "windows"} /\ elevated \in BOOLEAN /\ ours \in BOOLEAN
  /\ ours \/ os = "windows" => elevated
  /\ level \in [LEVELS -> {Absent, Link, Dir("root", "closed"), Dir("root", "narrow"),
                           Dir("root", "open"), Dir("other", "closed")}]
  /\ level[0] \in {Dir("root", "closed"), Dir("root", "open")}
  /\ level[1].kind # "dir" => level[2] = Absent
  /\ os = "windows" =>
       /\ level[0] = Dir("root", "closed")
       /\ \A l \in DIGS : level[l].kind # "link" /\ level[l].mode # "narrow"
  /\ file \in IF level[2].kind = "dir" THEN {NoFile, File("other")} ELSE {NoFile}
  /\ step = "idle" /\ at = 0 /\ purpose = "verdict" /\ astray = FALSE
  /\ answered = FALSE /\ placed = FALSE /\ ensured = FALSE /\ told = FALSE /\ result = "none"
  /\ failed = FALSE /\ meddled = FALSE /\ fixable = FALSE
  /\ runs = 0 /\ faults = 0 /\ others = 0

Fault == faults < MaxFaults /\ faults' = faults + 1 /\ failed' = TRUE
NoFault == UNCHANGED <<faults, failed>>

Same == UNCHANGED <<os, elevated, ours, meddled, fixable, runs, others>>
On(this) == step = this /\ Same
Keep == UNCHANGED <<level, file, answered, placed, ensured, told, result>>

(* The first step of ensure: on Unix the levels that are DIG's are walked  *)
(* from the one above them, anything else is made if it is not there.      *)
Ensuring == IF os = "unix" /\ ours THEN "anchor" ELSE "makedirs"

(* root_exec_guard: whoever acts as root looks before running a program    *)
(* that is there; anyone else does not.                                    *)
Guarded == os = "unix" /\ elevated
Looking == IF Guarded THEN "walk" ELSE "exists"
Verifying == IF os = "unix" THEN "walk" ELSE "read"

Goes(next, l, why) == step' = next /\ at' = l /\ purpose' = why /\ astray' = FALSE

Repairable == ours /\ ~Loose(0) /\ \A l \in DIGS : level[l].kind # "link"

(* A run begins with migrate_legacy_roots_step's ensure_protected_dir; or  *)
(* with the look at the program, where that is about another folder than   *)
(* the run's own or the plan is for the user's command-line tools alone.   *)
Begin ==
  /\ step = "idle" /\ runs < MaxRuns
  /\ runs' = runs + 1
  /\ failed' = FALSE /\ meddled' = FALSE
  /\ answered' = FALSE /\ placed' = FALSE /\ ensured' = FALSE /\ told' = FALSE
  /\ result' = "none"
  /\ \/ /\ ours /\ Goes(Ensuring, 0, "prepare")
        /\ fixable' = Repairable
     \/ /\ Goes(Looking, 0, "probe")
        /\ fixable' = (Repairable /\ (os = "windows" => ~Open(2)))
  /\ UNCHANGED <<os, elevated, ours, level, file, faults, others>>

------------------------------------------------------------------------------
(* Ensure ends.  Before the run places anything a failure is only logged,  *)
(* as the write tries again; then it ends the run.                         *)
EnsureOk ==
  /\ IF purpose = "prepare" THEN Goes(Looking, 0, "probe") ELSE Goes("write", 2, "place")
  /\ ensured' = (ensured \/ (ours /\ (os = "unix" \/ purpose = "prepare")))
  /\ UNCHANGED <<file, answered, placed, told, result>>

EnsureErr ==
  /\ \/ purpose = "prepare" /\ Goes(Looking, 0, "probe") /\ UNCHANGED result
     \/ purpose = "place" /\ Goes("idle", 0, "verdict") /\ result' = "failed"
  /\ UNCHANGED <<level, file, answered, placed, ensured, told>>

Becomes(l, new) == level' = IF astray THEN level ELSE [level EXCEPT ![l] = new]
Then(this) == step' = this /\ UNCHANGED <<at, purpose, astray>>

(* open_dir_nofollow of a level that is really there and no link.          *)
Opens(l) == astray \/ level[l].kind = "dir"

Anchor ==
  /\ On("anchor")
  /\ \/ NoFault /\ Opens(0) /\ Goes("mkdir", 1, purpose) /\ Keep
     \/ NoFault /\ ~Opens(0) /\ EnsureErr
     \/ Fault /\ EnsureErr

(* mkdirat: what is there stays; what is made is no wider than asked for.  *)
Mkdir ==
  /\ On("mkdir")
  /\ \/ /\ NoFault /\ Then("open")
        /\ \E m \in {"closed", "narrow"} :
             Becomes(at, IF level[at].kind = "absent" THEN Dir("root", m) ELSE level[at])
        /\ UNCHANGED <<file, answered, placed, ensured, told, result>>
     \/ Fault /\ EnsureErr

OpenLevel ==
  /\ On("open")
  /\ \/ NoFault /\ Opens(at) /\ Then("chmod") /\ Keep
     \/ NoFault /\ ~Opens(at) /\ EnsureErr
     \/ Fault /\ EnsureErr

Chmod ==
  /\ On("chmod")
  /\ \/ /\ NoFault /\ Then("chown")
        /\ Becomes(at, [level[at] EXCEPT !.mode = "closed"])
        /\ UNCHANGED <<file, answered, placed, ensured, told, result>>
     \/ Fault /\ EnsureErr

Chown ==
  /\ On("chown")
  /\ \/ /\ NoFault
        /\ Becomes(at, [level[at] EXCEPT !.owner = "root"])
        /\ \/ /\ at < 2 /\ step' = "mkdir" /\ at' = at + 1 /\ UNCHANGED <<purpose, astray>>
              /\ UNCHANGED <<file, answered, placed, ensured, told, result>>
           \/ at = 2 /\ EnsureOk
     \/ Fault /\ EnsureErr

(* create_dir_all: on Unix by the mask of the process, on Windows in the   *)
(* name of whoever runs it.  A link is followed.                           *)
MakeDirs ==
  /\ On("makedirs")
  /\ \/ /\ NoFault
        /\ \E m \in IF os = "unix" THEN MODES ELSE {"closed"} :
             level' = [l \in LEVELS |->
               IF level[l].kind # "absent" THEN level[l]
               ELSE Dir(IF os = "unix" /\ elevated THEN "root" ELSE "other", m)]
        /\ \/ /\ os = "windows" /\ ours /\ purpose = "prepare"
              /\ Goes("owner", 1, purpose)
              /\ UNCHANGED <<file, answered, placed, ensured, told, result>>
           \/ ~(os = "windows" /\ ours /\ purpose = "prepare") /\ EnsureOk
     \/ Fault /\ EnsureErr

(* force_system_ownership, level by level: the owner, the access list, and *)
(* the owner read back.  A tool may exit cleanly having done nothing.      *)
Tool(new, next) ==
  \/ /\ NoFault /\ level[at].kind = "dir" /\ Becomes(at, new) /\ Then(next)
     /\ UNCHANGED <<file, answered, placed, ensured, told, result>>
  \/ NoFault /\ level[at].kind # "dir" /\ EnsureErr
  \/ Fault /\ Then(next) /\ Keep
  \/ Fault /\ EnsureErr

SetOwner ==
  /\ On("owner")
  /\ Tool([level[at] EXCEPT !.owner = "root"], "reset")

Reset ==
  /\ On("reset")
  /\ Tool([level[at] EXCEPT !.mode = "closed"], "back")

Privileged(l) == l.kind = "dir" /\ l.owner = "root"

ReadBack ==
  /\ On("back")
  /\ \/ /\ NoFault /\ Privileged(level[at]) /\ UNCHANGED level
        /\ \/ Goes("owner", 2, purpose) /\ at = 1 /\ Keep
           \/ at = 2 /\ EnsureOk
     \/ NoFault /\ ~Privileged(level[at]) /\ EnsureErr
     \/ Fault /\ EnsureErr

------------------------------------------------------------------------------
(* Mutant: only a level that was seen to be unsafe blocks.                 *)
BlocksIfRead(v) == v = "unsafe"

(* InstallRootSecurity::is_blocking: what could not be read blocks too.    *)
Blocking(v) == v # "safe"

(* A walk ends.  For the version it lets the program be looked for, then   *)
(* run; at the end of the run it is the verdict, which counts where the    *)
(* run is elevated.                                                        *)
Proceed(v) ==
  /\ \/ /\ purpose = "probe"
        /\ IF Blocking(v) THEN Goes("decide", 0, "probe") ELSE Goes("exists", 0, "probe")
        /\ UNCHANGED result
     \/ /\ purpose = "spawn"
        /\ IF Blocking(v) THEN Goes("decide", 0, "probe") ELSE Goes("run", 0, "spawn")
        /\ UNCHANGED result
     \/ /\ purpose = "verdict"
        /\ result' = IF Blocking(v) /\ elevated THEN "notready" ELSE "ready"
        /\ Goes("idle", 0, "verdict")
  /\ UNCHANGED <<level, file, answered, placed, ensured, told>>

(* level_verdict: what one level of the walk says.                         *)
Sees(l) ==
  IF level[l].kind = "absent" THEN "safe"
  ELSE IF level[l].kind = "link" \/ Loose(l) THEN "unsafe"
  ELSE IF l = 2 THEN "safe" ELSE "further"

(* rootchain::verify: from the outermost level inwards.                    *)
Walk ==
  /\ On("walk")
  /\ \/ /\ NoFault
        /\ \E seen \in IF astray THEN {"safe", "unsafe"} ELSE {Sees(at)} :
             \/ seen # "further" /\ Proceed(seen)
             \/ /\ seen = "further" /\ at' = at + 1
                /\ UNCHANGED <<step, purpose, astray>> /\ Keep
     \/ Fault /\ Proceed("unknown")

(* verify_windows reads the access list of the last level alone.           *)
ReadList ==
  /\ On("read")
  /\ \/ /\ NoFault /\ level[2].kind = "dir"
        /\ Proceed(IF Open(2) THEN "unsafe" ELSE "safe")
     \/ NoFault /\ level[2].kind # "dir" /\ Proceed("unknown")
     \/ Fault /\ Proceed("unknown")

Exists ==
  /\ On("exists") /\ NoFault
  /\ IF ~file.there THEN Goes("decide", 0, "probe")
     ELSE IF Guarded THEN Goes("walk", 0, "spawn") ELSE Goes("run", 0, "spawn")
  /\ Keep

(* detect_installed_version runs the program.                              *)
RunProgram ==
  /\ On("run") /\ Goes("decide", 0, "probe")
  /\ \/ NoFault /\ answered' = TRUE
     \/ Fault /\ answered' = FALSE
  /\ UNCHANGED <<level, file, placed, ensured, told, result>>

(* A program known to be up to date stays; any other is replaced.          *)
Decide ==
  /\ On("decide") /\ NoFault /\ Keep
  /\ \/ answered /\ Goes(Verifying, 0, "verdict")
     \/ Goes(Ensuring, 0, "place")

(* The new file is its writer's; in the protected root of Windows it is    *)
(* then given to the system.                                               *)
Reaches == level[2].kind = "dir" \/ \E l \in LEVELS : level[l].kind = "link"

Write ==
  /\ On("write")
  /\ \/ /\ NoFault /\ Reaches
        /\ file' = File(IF Guarded THEN "root" ELSE "other") /\ placed' = TRUE
        /\ IF os = "windows" /\ ours THEN Goes("fowner", 2, "place")
                                     ELSE Goes(Verifying, 0, "verdict")
        /\ UNCHANGED result
     \/ /\ IF level[2].kind = "dir" THEN Fault ELSE NoFault
        /\ result' = "failed" /\ Goes("idle", 0, "verdict") /\ UNCHANGED <<file, placed>>
  /\ UNCHANGED <<level, answered, ensured, told>>

(* adopt_placed_file_step: a failure is told and the run goes on.          *)
Adopt(new, next) == file' = (IF file.there THEN new ELSE file) /\ Then(next) /\ UNCHANGED told
AdoptErr == told' = TRUE /\ Goes(Verifying, 0, "verdict") /\ UNCHANGED file

AdoptOwner ==
  /\ On("fowner") /\ UNCHANGED <<level, answered, placed, ensured, result>>
  /\ \/ NoFault /\ Adopt([file EXCEPT !.owner = "root"], "freset")
     \/ Fault /\ (Adopt(file, "freset") \/ AdoptErr)

(* The reset makes the parent's entry for the creator one for whoever owns *)
(* the file now.                                                           *)
AdoptReset ==
  /\ On("freset") /\ UNCHANGED <<level, answered, placed, ensured, result>>
  /\ \/ NoFault /\ Adopt([file EXCEPT !.grant = file.owner = "other"], "fback")
     \/ Fault /\ (Adopt(file, "fback") \/ AdoptErr)

(* parse_placed_binary_acl: the owner, and nobody else who may write.      *)
IsSystems(f) == f.owner = "root" /\ ~f.grant

AdoptBack ==
  /\ On("fback") /\ UNCHANGED <<level, answered, placed, ensured, result>>
  /\ \/ NoFault /\ IsSystems(file) /\ file.there
        /\ Goes(Verifying, 0, "verdict") /\ UNCHANGED <<file, told>>
     \/ NoFault /\ ~(IsSystems(file) /\ file.there) /\ AdoptErr
     \/ Fault /\ AdoptErr

(* The run is killed where it is.                                          *)
Crash ==
  /\ step # "idle" /\ Same /\ Fault
  /\ Goes("idle", 0, "verdict") /\ result' = "none"
  /\ UNCHANGED <<level, file, answered, placed, ensured, told>>

------------------------------------------------------------------------------
(* The levels the run has open.                                            *)
Held ==
  IF step \in {"mkdir", "open", "walk"} THEN 0..(at - 1)
  ELSE IF step \in {"chmod", "chown"} THEN 0..at ELSE {}

Meddle ==
  /\ others < MaxOthers /\ others' = others + 1 /\ meddled' = TRUE
  /\ UNCHANGED <<os, elevated, ours, step, at, purpose, answered, placed, ensured, told, result,
                 failed, fixable, runs, faults>>

(* An account sets the mode of a level of its own.                         *)
OtherModes ==
  /\ Meddle /\ UNCHANGED <<file, astray>>
  /\ \E l \in LEVELS, m \in MODES :
       /\ level[l].kind = "dir" /\ level[l].owner = "other" /\ level[l].mode # m
       /\ os = "windows" => m # "narrow"
       /\ level' = [level EXCEPT ![l].mode = m]

(* An account that can write a level puts something else, or nothing,      *)
(* where the next level was.                                               *)
OtherReplaces ==
  /\ Meddle
  /\ \E l \in DIGS :
       /\ Loose(l - 1)
       /\ \E new \in {Absent, Dir("other", "closed")} \cup (IF os = "unix" THEN {Link} ELSE {}) :
            level' = [k \in LEVELS |-> IF k < l THEN level[k] ELSE IF k = l THEN new ELSE Absent]
       /\ file' = NoFile
       /\ astray' = (astray \/ l \in Held)

Next ==
  \/ Begin \/ Anchor \/ Mkdir \/ OpenLevel \/ Chmod \/ Chown
  \/ MakeDirs \/ SetOwner \/ Reset \/ ReadBack
  \/ Walk \/ ReadList \/ Exists \/ RunProgram \/ Decide
  \/ Write \/ AdoptOwner \/ AdoptReset \/ AdoptBack \/ Crash
  \/ OtherModes \/ OtherReplaces

Spec == Init /\ [][Next]_vars

------------------------------------------------------------------------------
(* The types of the state.                                                 *)
TypeOK ==
  /\ os \in {"unix", "windows"} /\ elevated \in BOOLEAN /\ ours \in BOOLEAN
  /\ level \in [LEVELS -> Level]
  /\ file \in [there : BOOLEAN, owner : OWNERS, grant : BOOLEAN]
  /\ step \in {"idle", "anchor", "mkdir", "open", "chmod", "chown", "makedirs", "owner", "reset",
               "back", "walk", "read", "exists", "run", "decide", "write", "fowner", "freset",
               "fback"}
  /\ at \in LEVELS /\ purpose \in {"prepare", "place", "probe", "spawn", "verdict"}
  /\ {astray, answered, placed, ensured, told, failed, meddled, fixable} \subseteq BOOLEAN
  /\ result \in {"none", "ready", "notready", "failed"}
  /\ runs \in 0..MaxRuns /\ faults \in 0..MaxFaults /\ others \in 0..MaxOthers

(* An elevated run that ends ready leaves a chain no other account can     *)
(* change anything in, although the levels were read one after the other   *)
(* while accounts that could write one were changing those below it.       *)
ReadyMeansClosed ==
  os = "unix" /\ elevated /\ result = "ready" => Closed

(* Whenever an elevated run starts the program that is there, the chain it *)
(* starts it from is closed: the look at the chain still stands.           *)
RunsFromClosed ==
  os = "unix" /\ elevated /\ step = "run" => Closed

(* Once ensure has returned Ok, DIG's levels are the system's; on Unix     *)
(* they also have exactly the mode that lets everyone enter and nobody     *)
(* write, whatever an earlier run that broke off had left.                 *)
EnsuredHolds ==
  ensured /\ ~meddled =>
    IF os = "unix" THEN Pinned ELSE \A l \in DIGS : level[l].owner = "root"

(* In the protected root of Windows a program the run placed is the        *)
(* system's alone, or the run says that it is not.                         *)
AdoptedOrTold ==
  os = "windows" /\ ours /\ placed /\ result \in {"ready", "notready"} =>
    told \/ ~file.there \/ (file.owner = "root" /\ ~file.grant)

(* Running again repairs: a run in which no call fails and nobody          *)
(* interferes is ready, and the program adopted, unless the fault is in a  *)
(* level that is not DIG's or a link is in the way.                        *)
RunRepairs ==
  ~failed /\ ~meddled /\ fixable /\ result # "none" => result = "ready" /\ ~told

(* What the run knows of its root is so: a closed chain, levels and files  *)
(* that are the system's, and a root that running again repairs.           *)
RootHolds ==
  ReadyMeansClosed /\ RunsFromClosed /\ EnsuredHolds /\ AdoptedOrTold /\ RunRepairs

=============================================================================
