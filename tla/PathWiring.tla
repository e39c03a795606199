------------------------------ MODULE PathWiring ------------------------------
(***************************************************************************)
(* How the programs become commands: the directory a run puts on PATH and  *)
(* the links it plants (paths.rs), the older root it clears away           *)
(* (supersede.rs), and the lookup that says whether a new login shell      *)
(* finds the copy just installed (pathcheck.rs).  One command, dign.       *)
(*                                                                         *)
(* Windows keeps PATH in two registry values, which are read, edited and   *)
(* written; Unix has a system-wide fragment, or the user's own start-up    *)
(* files in a run without root's rights, and the links in /usr/local/bin,  *)
(* here "veneer".  Whether that directory is one to look commands up in    *)
(* changes with its permissions.                                           *)
(***************************************************************************)
EXTENDS Naturals, Sequences, SequencesExt

CONSTANTS MaxRuns, MaxEdits     \* bounds: runs, and what anybody else does

VARIABLES
  os, elevated,
  safe,      \* Unix: the veneer may be relied on
  base,      \* Unix: the login PATH, our own additions aside
  closed,    \* directories the user cannot enter
  fragment,  \* the directory it adds, "none" or "torn", and where
  files,     \* the user's start-up files: "absent", "without", "mention", "line"
  link,      \* the veneer's dign: "none", "root" (a link to the root's), "theirs"
  placed,    \* where copies have been installed
  foreign,   \* somebody has a dign of his own in a directory of PATH
  path,      \* Windows: scope -> directories
  odd,       \* scopes whose value is not text
  old,       \* what the superseded root holds: "dign", "data"; {} if it is gone
  uses,      \* who needs it there: "none", "registered", "running"
  pc, bin, verdict, wired,
  seen,      \* what was read before the write
  scope,     \* the PATH being looked at
  current,   \* the current root's entries
  failed,    \* a call of this run has failed
  (* history *)
  wanted,    \* scope -> others' entries, in order
  lost,      \* scopes changed between a read and the write that followed, or not text
  raced,     \* the old root came into use after it was looked at, or was not listed
  runs, edits

host  == <<os, elevated, base, closed>>
unix  == <<fragment, files, link>>
win   == <<path, odd>>
hist  == <<wanted, lost, raced, runs, edits>>
mine  == <<bin, verdict, wired, seen, scope, current>>
vars  == <<host, safe, unix, placed, foreign, win, old, uses, pc, mine, failed, hist>>

Scopes == {"machine", "user"}
Dirs   == {"root", "custom", "home", "veneer", "old", "other", "tools"}
Ours   == {"root", "custom", "old"}

TypeOK ==
  /\ os \in {"windows", "linux", "macos"} /\ elevated \in BOOLEAN /\ safe \in BOOLEAN
  /\ base \in Seq(Dirs) /\ closed \subseteq Dirs
  /\ fragment \in [dir : {"none", "torn", "root", "custom", "veneer"}, at : {"prepend", "append"}]
  /\ files \in [{"rc", "profile"} -> {"absent", "without", "mention", "line"}]
  /\ link \in {"none", "root", "theirs"} /\ placed \subseteq {"root", "custom", "home"}
  /\ foreign \in BOOLEAN /\ path \in [Scopes -> Seq(Dirs)] /\ odd \subseteq Scopes
  /\ old \subseteq {"dign", "data"} /\ uses \in {"none", "registered", "running"}
  /\ pc \in {"idle", "wire", "wiring", "link", "gather", "remove", "drop", "dropping", "verify"}
  /\ bin \in {"root", "custom", "home"} /\ verdict \in BOOLEAN
  /\ wired \in {"none", "unchanged", "changed"} /\ seen \in Seq(Dirs) /\ scope \in Scopes
  /\ current \subseteq {"dign"} /\ failed \in BOOLEAN
  /\ wanted \in [Scopes -> Seq(Dirs)] /\ lost \subseteq Scopes /\ raced \in BOOLEAN
  /\ runs \in 0..MaxRuns /\ edits \in 0..MaxEdits

Fragment(d) == [dir |-> d, at |-> "append"]

(* The entries of p that are not in ds, in their order: a function, so     *)
(* that it can be proved about.                                            *)
Without(p, ds) ==
  LET kept[i \in 0..Len(p)] ==
        IF i = 0 THEN <<>>
        ELSE IF p[i] \in ds THEN kept[i - 1] ELSE Append(kept[i - 1], p[i])
  IN  kept[Len(p)]

Theirs(p) == Without(p, Ours)

(* The old root was put on the machine's PATH by its package.              *)
Init ==
  /\ os \in {"windows", "linux", "macos"} /\ elevated \in (IF os = "windows" THEN {TRUE} ELSE BOOLEAN)
  /\ safe \in BOOLEAN /\ fragment = Fragment("none") /\ link = "none" /\ placed = {} /\ foreign = FALSE
  /\ base \in IF os = "windows" THEN {<<>>}
              ELSE {<<"veneer", "other">>, <<"other">>, <<"veneer", "root", "other">>}
  /\ closed \in {{}, {"custom"}}
  /\ \E p \in {"absent", "without"} : files = [rc |-> p, profile |-> "without"]
  /\ old \in IF os = "windows" THEN {{}, {"dign"}, {"dign", "data"}} ELSE {{}}
  /\ path = IF os = "windows" THEN [machine |-> <<"old", "other">>, user |-> <<"tools">>]
            ELSE [s \in Scopes |-> <<>>]
  /\ odd = {} /\ uses = "none" /\ pc = "idle" /\ bin = "root" /\ verdict = TRUE /\ wired = "none"
  /\ seen = <<>> /\ scope = "machine" /\ current = {} /\ failed = FALSE
  /\ wanted = [s \in Scopes |-> Theirs(path[s])]
  /\ lost = {} /\ raced = FALSE /\ runs = 0 /\ edits = 0

(* The veneer's verdict is asked for once, before anything is wired.       *)
Begin ==
  /\ pc = "idle" /\ runs < MaxRuns /\ runs' = runs + 1
  /\ bin' \in IF elevated THEN {"root", "custom"} ELSE {"home"}
  /\ verdict' = safe /\ pc' = "wire" /\ wired' = "none" /\ failed' = FALSE
  /\ UNCHANGED <<host, safe, unix, placed, foreign, win, old, uses, seen, scope, current,
                 wanted, lost, raced, edits>>

---------------------------------------------------------------------------
(* What a new login shell looks through.                                   *)
WithFragment(p) ==
  IF fragment.dir \in {"none", "torn"} \/ Contains(p, fragment.dir) THEN p
  ELSE IF fragment.at = "prepend" /\ os = "linux" THEN <<fragment.dir>> \o p
  ELSE Append(p, fragment.dir)

LoginPath ==
  IF os = "windows" THEN (IF "machine" \in odd THEN <<>> ELSE path["machine"]) \o
                         (IF "user" \in odd THEN <<>> ELSE path["user"])
  ELSE (IF files["profile"] = "line" THEN <<"home">> ELSE <<>>) \o WithFragment(base)

(* The copy a directory holds.                                             *)
Copy(d) ==
  CASE d \in placed -> d
    [] d = "veneer" /\ link = "root" /\ "root" \in placed -> "root"
    [] d = "veneer" /\ link = "theirs" -> "theirs"
    [] d = "old" /\ "dign" \in old -> "old"
    [] d = "other" /\ foreign -> "theirs"
    [] OTHER -> "none"

(* resolve_in_path, then same_binary.                                      *)
Resolves ==
  \E i \in DOMAIN LoginPath :
    Copy(LoginPath[i]) = bin /\ \A j \in 1..(i - 1) : Copy(LoginPath[j]) = "none"

(* reachability_for, reachable_dir: links only out of the protected root,  *)
(* and only where the veneer may be relied on.                             *)
ReachableDir == IF bin = "root" /\ verdict /\ os # "windows" THEN "veneer" ELSE bin

(* Mutant: whatever is wired goes behind the rest. *)
PositionAppend == "append"

(* path_position.                                                          *)
Position == IF ReachableDir = "root" /\ ~verdict THEN "prepend" ELSE "append"

---------------------------------------------------------------------------
(* add_to_path: a failure is a remark in the report, and the run goes on.  *)
Wired(how) == wired' = how /\ pc' = "link" /\ UNCHANGED failed
WireFails  == failed' = TRUE /\ pc' = "link" /\ UNCHANGED wired

(* root_add_to_path.  The directory must be one a user can enter, and one  *)
(* root may look commands up in; then PATH may have it already; else the   *)
(* fragment is replaced and PATH looked at again.                          *)
RootAddToPath ==
  /\ pc = "wire" /\ os # "windows" /\ elevated
  /\ LET d == ReachableDir
     IN  \/ /\ bin \notin closed /\ (d = "veneer" => safe)
            /\ Contains(LoginPath, d) /\ Wired("unchanged") /\ UNCHANGED fragment
         \/ /\ bin \notin closed /\ (d = "veneer" => safe) /\ ~Contains(LoginPath, d)
            /\ fragment' = [dir |-> d, at |-> Position] /\ Wired("changed")
         \/ WireFails /\ UNCHANGED fragment      \* any call may, and the last look
         \/ /\ bin \notin closed /\ (d = "veneer" => safe) /\ ~Contains(LoginPath, d)
            /\ WireFails /\ fragment' \in {Fragment("none"), Fragment("torn"), [dir |-> d, at |-> Position]}
  /\ UNCHANGED <<host, safe, files, link, placed, foreign, win, old, uses, bin, verdict, seen, scope,
                 current, hist>>

(* unix_add_to_path_in: each start-up file that is there and .profile in   *)
(* any case, unless it mentions the directory, wherever that may be.  The  *)
(* appending of a line is taken as one step.                               *)
LineAdded(f) == IF files[f] \in {"mention", "line"} THEN files[f] ELSE "line"
RcAdded      == IF files["rc"] = "absent" THEN "absent" ELSE LineAdded("rc")

UserAddToPath ==
  /\ pc = "wire" /\ os # "windows" /\ ~elevated
  /\ \/ /\ files' = [rc |-> RcAdded, profile |-> LineAdded("profile")]
        /\ Wired(IF files' = files THEN "unchanged" ELSE "changed")
     \/ WireFails /\ files' \in {files, [files EXCEPT !["rc"] = RcAdded]}
  /\ UNCHANGED <<host, safe, fragment, link, placed, foreign, win, old, uses, bin, verdict, seen,
                 scope, current, hist>>

(* windows_add_to_path: a value that cannot be read counts as empty.       *)
Text(s) == IF s \in odd THEN <<>> ELSE path[s]

PathAppend(p, d) == IF Contains(p, d) THEN p ELSE Append(p, d)

ReadUserPath ==
  /\ pc = "wire" /\ os = "windows"
  /\ seen' = Text("user") /\ scope' = "user"
  /\ \/ Contains(seen', bin) /\ Wired("unchanged")
     \/ ~Contains(seen', bin) /\ pc' = "wiring" /\ UNCHANGED <<wired, failed>>
     \/ WireFails
  /\ UNCHANGED <<host, safe, unix, placed, foreign, win, old, uses, bin, verdict, current, hist>>

WriteUserPath ==
  /\ pc = "wiring"
  /\ \/ /\ path' = [path EXCEPT !["user"] = PathAppend(seen, bin)] /\ odd' = odd \ {"user"}
        /\ Wired("changed")
     \/ WireFails /\ UNCHANGED win
  /\ UNCHANGED <<host, safe, unix, placed, foreign, old, uses, bin, verdict, seen, scope, current, hist>>

---------------------------------------------------------------------------
(* remove_veneer_links: a link that leads into the protected root.         *)
LinkRemoved == IF link = "root" THEN "none" ELSE link

(* The programs are in place by now; link_protected_clis.  A link replaces *)
(* whatever had its name, and its failure is only logged.                  *)
LinkProtectedClis ==
  /\ pc = "link" /\ placed' = placed \cup {bin}
  /\ pc' = (IF os = "windows" THEN "gather" ELSE "verify")
  /\ \/ /\ link' = (IF os = "windows" THEN link
                  ELSE IF ~verdict THEN LinkRemoved
                  ELSE IF bin = "root" THEN "root" ELSE link)
        /\ UNCHANGED failed
     \/ /\ os # "windows" /\ (~verdict \/ bin = "root") /\ failed' = TRUE
        /\ link' \in {link} \cup (IF verdict THEN {"none"} ELSE {})
  /\ current' = {f \in {"dign"} : "root" \in placed'}       \* its entries, read once
  /\ UNCHANGED <<host, safe, fragment, files, foreign, win, old, uses, bin, verdict, wired, seen,
                 scope, hist>>

---------------------------------------------------------------------------
(* Mutant: what only the old root holds is not looked at. *)
DecideInUse(listed, asked) == uses = "none" \/ (uses = "running" /\ ~asked)

(* decide, on the evidence gather has: a registration or a package keeps   *)
(* the root, and so does a process, if the question does not fail, and a   *)
(* file the current root does not have, if the directory can be listed.    *)
Decide(listed, asked) ==
  /\ uses = "none" \/ (uses = "running" /\ ~asked)
  /\ listed => old \subseteq current

RemoveSupersededRoots ==
  /\ pc = "gather" /\ scope' = "machine"
  /\ \/ old = {} /\ pc' = "drop" /\ UNCHANGED <<raced, failed>>
     \/ /\ old # {}
        /\ \E listed, asked \in BOOLEAN :
             /\ pc' = (IF Decide(listed, asked) THEN "remove" ELSE "verify")
             /\ raced' = ~listed /\ failed' = (failed \/ ~Decide(listed, asked))
  /\ UNCHANGED <<host, safe, unix, placed, foreign, win, old, uses, bin, verdict, wired, seen, current,
                 wanted, lost, runs, edits>>

(* Our own programs only, then the directory if that has emptied it.       *)
RemoveRoot ==
  /\ pc = "remove" /\ pc' = "drop"
  /\ \/ uses # "running" /\ old' = old \ {"dign"} /\ UNCHANGED failed
     \/ failed' = TRUE /\ UNCHANGED old
  /\ UNCHANGED <<host, safe, unix, placed, foreign, win, uses, mine, hist>>

PathRemove(p, d) == Without(p, {d})

(* Both scopes, whatever becomes of the first.                             *)
NextScope ==
  IF scope = "machine" THEN scope' = "user" /\ pc' = "drop"
  ELSE pc' = "verify" /\ UNCHANGED scope

(* remove_from_persisted_path: a value that is not text has nothing of     *)
(* ours.                                                                   *)
ReadToDrop ==
  /\ pc = "drop" /\ seen' = Text(scope)
  /\ \/ Contains(seen', "old") /\ pc' = "dropping" /\ UNCHANGED <<scope, failed>>
     \/ ~Contains(seen', "old") /\ NextScope /\ UNCHANGED failed
     \/ NextScope /\ failed' = TRUE            \* the key cannot be opened
  /\ UNCHANGED <<host, safe, unix, placed, foreign, win, old, uses, bin, verdict, wired, current, hist>>

Drop ==
  /\ pc = "dropping" /\ NextScope
  /\ \/ path' = [path EXCEPT ![scope] = PathRemove(seen, "old")] /\ odd' = odd \ {scope} /\ UNCHANGED failed
     \/ failed' = TRUE /\ UNCHANGED win
  /\ UNCHANGED <<host, safe, unix, placed, foreign, old, uses, bin, verdict, wired, seen, current, hist>>

(* verify_clis_on_path: what it finds is the report's last word.           *)
VerifyClis ==
  /\ pc = "verify" /\ pc' = "idle"
  /\ UNCHANGED <<host, safe, unix, placed, foreign, win, old, uses, mine, failed, hist>>

Crash ==
  /\ pc # "idle" /\ pc' = "idle" /\ failed' = TRUE
  /\ fragment' \in {fragment} \cup 
       (IF pc = "wire" /\ os # "windows" /\ elevated THEN {Fragment("none"), Fragment("torn")} ELSE {})
  /\ UNCHANGED <<host, safe, files, link, placed, foreign, win, old, uses, mine, hist>>

---------------------------------------------------------------------------
(* Everybody else.                                                         *)
Elsewhere == edits < MaxEdits /\ edits' = edits + 1

(* Permissions of the veneer; a program of the same name; and one who puts *)
(* the directory's name into a start-up file or takes our line out again.  *)
UnixEdit ==
  /\ os # "windows" /\ Elsewhere
  /\ \/ safe' = ~safe /\ UNCHANGED <<link, foreign, files>>
     \/ link' \in {"none", "theirs"} \ {link} /\ UNCHANGED <<safe, foreign, files>>
     \/ foreign' = ~foreign /\ UNCHANGED <<safe, link, files>>
     \/ /\ \E f \in {"rc", "profile"} : files' = [files EXCEPT ![f] = IF @ = "line" THEN "without" ELSE "mention"]
        /\ UNCHANGED <<safe, link, foreign>>
  /\ failed' = TRUE
  /\ UNCHANGED <<host, fragment, placed, win, old, uses, pc, mine, wanted, lost, raced, runs>>

WindowsEdit ==
  /\ os = "windows" /\ Elsewhere
  /\ \/ \E s \in Scopes \ odd :
          /\ \/ path' = [path EXCEPT ![s] = <<"tools">> \o @] /\ wanted' = [wanted EXCEPT ![s] = <<"tools">> \o @]
             \/ /\ path[s] # <<>> /\ path' = [path EXCEPT ![s] = Tail(@)]
                /\ wanted' = IF Head(path[s]) \in Ours \/ s \in lost THEN wanted
                             ELSE [wanted EXCEPT ![s] = Tail(@)]
          /\ lost' = IF scope = s /\ pc \in {"wiring", "dropping"} THEN lost \cup {s} ELSE lost
          /\ UNCHANGED <<odd, uses, foreign, raced>>
     \/ \E s \in Scopes \ odd :
          /\ odd' = odd \cup {s} /\ lost' = lost \cup {s}
          /\ UNCHANGED <<path, wanted, uses, foreign, raced>>
     \/ /\ old # {} /\ uses' \in {"none", "registered", "running"} \ {uses}
        /\ raced' = (raced \/ pc = "remove") /\ UNCHANGED <<win, wanted, lost, foreign>>
     \/ foreign' = ~foreign /\ UNCHANGED <<win, wanted, lost, uses, raced>>
  /\ failed' = TRUE
  /\ UNCHANGED <<host, safe, unix, placed, old, pc, mine, runs>>

Next ==
  \/ Begin \/ RootAddToPath \/ UserAddToPath \/ ReadUserPath \/ WriteUserPath
  \/ LinkProtectedClis \/ RemoveSupersededRoots \/ RemoveRoot \/ ReadToDrop \/ Drop
  \/ VerifyClis \/ Crash \/ UnixEdit \/ WindowsEdit

Spec == Init /\ [][Next]_vars

---------------------------------------------------------------------------
(* What others have on the Windows PATH stays there, in its order, through *)
(* our additions and removals, but for a scope that was not text or was    *)
(* changed between a read and the write that followed (path_append,        *)
(* path_remove).                                                           *)
EntriesKept == \A s \in Scopes \ lost : Theirs(path[s]) = wanted[s]

(* Others' copies of the command on PATH.  After the fallback on Linux one *)
(* in the veneer does not count, unless the root was on PATH already.      *)
InTheWay(d) ==
  /\ Copy(d) \notin {"none", bin}
  /\ ~(d = "veneer" /\ os = "linux" /\ bin = "root" /\ ~verdict /\ ~Contains(base, "root"))

(* A run in which no call fails and nobody interferes leaves a new login   *)
(* shell that finds the copy it installed, whatever earlier runs have left *)
(* behind, unless another copy is in the way.                              *)
CleanRunResolves ==
  (pc = "verify" /\ ~failed /\ \A i \in DOMAIN LoginPath : ~InTheWay(LoginPath[i])) =>
    Resolves \/ files["profile"] = "mention"

(* Nor does it leave a link in a veneer that is not to be relied on, or    *)
(* the superseded root on PATH.                                            *)
CleanRunClears ==
  pc = "verify" /\ ~failed =>
    IF os = "windows"
    THEN \A s \in Scopes \ odd : ~Contains(path[s], "old")
    ELSE verdict \/ link # "root"

(* What a run promises of the paths it writes to: others' entries, and a   *)
(* command that is found, in the current root only.                        *)
WiringHolds == EntriesKept /\ CleanRunResolves /\ CleanRunClears

(* The superseded root loses no program that is not in the current root,   *)
(* and none that a registration, a package or a process needs, unless the  *)
(* root could not be listed or came into use after it was looked at.       *)
OldRootNeeded ==
  [][old' # old => raced \/ (uses = "none" /\ "root" \in placed)]_vars

=============================================================================
