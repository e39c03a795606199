-------------------------------- MODULE Desktop --------------------------------
(***************************************************************************)
(* What an install leaves with the desktop and the firewall: the handlers  *)
(* of the dig:, chia:, urn:dig: and dig-app: links (scheme.rs), which      *)
(* another program may claim as well, and the exception for dig-node's     *)
(* port (firewall.rs).  Neither is done on every system: links are not     *)
(* handled on macOS, the firewall is not touched on Linux.                 *)
(***************************************************************************)
EXTENDS Naturals, Sequences

CONSTANTS MaxRuns, MaxEdits    \* bounds

VARIABLES
  os, elevated,
  key,       \* Windows: link schemes that have a key
  command,   \* Windows: scheme -> whose program it starts: "none", "ours", "theirs", or
             \* "alike", another's whose command passes for one that starts dign
  files,     \* Linux: the two entries, dign's and dig-app's: "none", "torn", "whole"
  default,   \* Linux: scheme -> whose entry is the user's default
  bin,       \* where dig-node is
  alf,       \* macOS: the Application Firewall is on
  rules,     \* programs with an exception
  pc, todo,
  at,        \* the scheme about to be deleted
  registered, rule,    \* what the run says
  (* history *)
  theirs,    \* schemes another program has claimed and nobody since
  raced,     \* those it claimed between a look and the deletion that followed
  lookalike, \* those it claimed with a command that passes for one that starts dign
  failed,    \* a call of this run has failed
  runs, edits

host  == <<os, elevated>>
links == <<key, command, files, default>>
wall  == <<alf, rules>>
hist  == <<theirs, raced, lookalike, runs, edits>>
vars  == <<host, links, bin, wall, pc, todo, at, registered, rule, failed, hist>>

DignSchemes == {"dig", "chia", "urn"}                  \* scheme_set
Schemes     == DignSchemes \cup {"dig-app"}            \* removal_scheme_set
Order       == <<"dig", "chia", "urn", "dig-app">>
First(t)    == Order[CHOOSE i \in 1..4 : Order[i] \in t /\ \A j \in 1..(i - 1) : Order[j] \notin t]
File(s)     == IF s = "dig-app" THEN "app" ELSE "dign"
Bins        == {"old_root", "root"}

TypeOK ==
  /\ os \in {"windows", "linux", "macos"} /\ elevated \in BOOLEAN
  /\ key \subseteq Schemes /\ command \in [Schemes -> {"none", "ours", "theirs", "alike"}]
  /\ files \in [{"dign", "app"} -> {"none", "torn", "whole"}]
  /\ default \in [Schemes -> {"none", "ours", "theirs"}]
  /\ bin \in Bins /\ alf \in BOOLEAN /\ rules \subseteq Bins
  /\ pc \in {"idle", "open", "register", "look", "delete", "unlink", "close"} /\ todo \subseteq Schemes
  /\ at \in Schemes /\ registered \subseteq {"dign", "app"}
  /\ rule \in {"none", "opened", "closed"}
  /\ theirs \subseteq Schemes /\ raced \subseteq Schemes /\ lookalike \subseteq Schemes
  /\ failed \in BOOLEAN
  /\ runs \in 0..MaxRuns /\ edits \in 0..MaxEdits

Init ==
  /\ os \in {"windows", "linux", "macos"} /\ elevated \in BOOLEAN
  /\ key = {} /\ command = [s \in Schemes |-> "none"]
  /\ files = [f \in {"dign", "app"} |-> "none"] /\ default = [s \in Schemes |-> "none"]
  /\ bin = "old_root" /\ alf = FALSE /\ rules = {}
  /\ pc = "idle" /\ todo = {} /\ at = "dig" /\ registered = {} /\ rule = "none"
  /\ theirs = {} /\ raced = {} /\ lookalike = {} /\ failed = FALSE /\ runs = 0 /\ edits = 0

(* A run of the installer: an install, from another root perhaps, opens    *)
(* the firewall and then registers; an uninstall takes the links first.    *)
Begin ==
  /\ pc = "idle" /\ runs < MaxRuns /\ runs' = runs + 1
  /\ registered' = {} /\ rule' = "none" /\ failed' = FALSE /\ UNCHANGED at
  /\ \/ pc' = "open" /\ todo' = Schemes /\ bin' \in {bin, "root"}
     \/ /\ pc' = (CASE os = "windows" -> "look" [] os = "linux" -> "unlink" [] OTHER -> "close")
        /\ todo' = Schemes /\ bin' = bin
  /\ UNCHANGED <<host, links, wall, theirs, raced, lookalike, edits>>

---------------------------------------------------------------------------
(* firewall::open: on macOS nothing where the firewall is off.             *)
Open ==
  /\ pc = "open" /\ pc' = (IF os = "macos" THEN "idle" ELSE "register")
  /\ \/ /\ os = "windows" \/ (os = "macos" /\ alf)
        /\ rules' = rules \cup {bin} /\ rule' = "opened" /\ UNCHANGED failed
     \/ os = "windows" /\ rule' = "none" /\ failed' = TRUE /\ UNCHANGED rules
     \/ /\ os = "macos" /\ rule' = "none"        \* state not read, off, or not added
        /\ rules' \in IF alf THEN {rules, rules \cup {bin}} ELSE {rules}
        /\ failed' \in IF alf THEN {TRUE} ELSE {TRUE, failed}
     \/ os = "linux" /\ UNCHANGED <<rules, rule, failed>>
  /\ UNCHANGED <<host, links, bin, alf, todo, at, registered, hist>>

(* By the rule's name on Windows; by its program on macOS.                 *)
Closed == IF os = "windows" THEN {} ELSE rules \ {bin}

Close ==
  /\ pc = "close" /\ pc' = "idle"
  /\ \/ os # "linux" /\ rules' = Closed /\ rule' = "closed" /\ UNCHANGED failed
     \/ os # "linux" /\ failed' = TRUE /\ UNCHANGED <<rules, rule>>
     \/ os = "linux" /\ UNCHANGED <<rules, rule, failed>>
  /\ UNCHANGED <<host, links, bin, alf, todo, at, registered, hist>>

---------------------------------------------------------------------------
(* register and register_app.  On Windows one key after the other, in the  *)
(* order of scheme_set, its command last; a failure ends that one of them. *)
Done(left) == todo' = left /\ pc' = IF left = {} THEN "idle" ELSE "register"

RegisterWindows ==
  /\ os = "windows" /\ pc = "register"
  /\ LET s == First(todo)
     IN  \/ /\ key' = key \cup {s} /\ command' = [command EXCEPT ![s] = "ours"]
            /\ theirs' = theirs \ {s} /\ Done(todo \ {s})
            /\ registered' = IF s = "dig-app" THEN registered \cup {"app"}
                             ELSE IF todo \cap DignSchemes = {s}
                             THEN registered \cup {"dign"} ELSE registered
            /\ UNCHANGED failed
         \/ /\ key' \in {key, key \cup {s}} /\ failed' = TRUE
            /\ Done(todo \ (IF s = "dig-app" THEN {s} ELSE DignSchemes))
            /\ UNCHANGED <<command, theirs, registered>>
  /\ UNCHANGED <<host, files, default, bin, wall, at, rule, raced, lookalike, runs, edits>>

(* On Linux an entry in the user's folder, then update-desktop-database    *)
(* and xdg-mime, whose results are not looked at and which set the default *)
(* of the account that runs them: root's, if elevated.                     *)
RegisterLinux ==
  /\ os = "linux" /\ pc = "register"
  /\ LET f    == File(First(todo))
         mime == {t \in Schemes : File(t) = f}
     IN  /\ Done(todo \ mime)
         /\ \/ /\ files' = [files EXCEPT ![f] = "whole"] /\ registered' = registered \cup {f}
               /\ \E set \in IF elevated THEN {{}} ELSE {{}, mime} :
                    /\ default' = [t \in Schemes |-> IF t \in set THEN "ours" ELSE default[t]]
                    /\ theirs' = theirs \ set
                    /\ failed' = (failed \/ set = {})
            \/ /\ files' \in {files, [files EXCEPT ![f] = "torn"]} /\ failed' = TRUE
               /\ UNCHANGED <<default, registered, theirs>>
  /\ UNCHANGED <<host, key, command, bin, wall, at, rule, raced, lookalike, runs, edits>>

(* Mutant: dig-app's command is told as loosely as dign's. *)
OursByContent(s) == command[s] \in {"ours", "alike"}

(* is_our_app_handler_command wants dig-app's own program, no other;        *)
(* is_our_handler_command any command that says "dign" somewhere and ends  *)
(* the way dign's does.                                                    *)
Ours(s) == command[s] = "ours" \/ (s \in DignSchemes /\ command[s] = "alike")

LookedAt(left) == todo' = left /\ pc' = IF left = {} THEN "close" ELSE "look"

(* unregister_windows: the command is looked at, then the key deleted with *)
(* all that is in it; whether that succeeds is not looked at.              *)
Look ==
  /\ pc = "look"
  /\ LET s == First(todo)
     IN  IF Ours(s) THEN at' = s /\ pc' = "delete" /\ UNCHANGED todo
                    ELSE LookedAt(todo \ {s}) /\ UNCHANGED at
  /\ UNCHANGED <<host, links, bin, wall, registered, rule, failed, hist>>

Delete ==
  /\ pc = "delete" /\ LookedAt(todo \ {at})
  /\ \/ key' = key \ {at} /\ command' = [command EXCEPT ![at] = "none"] /\ UNCHANGED failed
     \/ failed' = TRUE /\ UNCHANGED <<key, command>>
  /\ UNCHANGED <<host, files, default, bin, wall, at, registered, rule, hist>>

(* unregister_linux: both entries; the defaults stay, without an entry.    *)
UnregisterLinux ==
  /\ pc = "unlink" /\ pc' = "close" /\ todo' = {}
  /\ \E kept \in SUBSET {f \in {"dign", "app"} : files[f] # "none"} :
       /\ files' = [f \in {"dign", "app"} |-> IF f \in kept THEN files[f] ELSE "none"]
       /\ failed' = (failed \/ kept # {})
  /\ UNCHANGED <<host, key, command, default, bin, wall, at, registered, rule, hist>>

---------------------------------------------------------------------------
Crash ==
  /\ pc # "idle" /\ pc' = "idle" /\ registered' = {} /\ rule' = "none" /\ failed' = TRUE
  /\ UNCHANGED <<host, links, bin, wall, todo, at, hist>>

(* Another program claims a scheme; the user turns the firewall on or off. *)
Claim ==
  /\ os # "macos" /\ edits < MaxEdits /\ edits' = edits + 1
  /\ \E s \in Schemes, who \in {"theirs"} \cup (IF os = "windows" THEN {"alike"} ELSE {}) :
       /\ theirs' = theirs \cup {s}
       /\ raced' = IF pc = "delete" /\ at = s THEN raced \cup {s} ELSE raced \ {s}
       /\ lookalike' = IF who = "alike" THEN lookalike \cup {s} ELSE lookalike \ {s}
       /\ registered' = registered \ {File(s)}
       /\ IF os = "windows"
          THEN /\ key' = key \cup {s} /\ command' = [command EXCEPT ![s] = who]
               /\ UNCHANGED default
          ELSE default' = [default EXCEPT ![s] = "theirs"] /\ UNCHANGED <<key, command>>
  /\ UNCHANGED <<host, files, bin, wall, pc, todo, at, rule, failed, runs>>

Toggle ==
  /\ os = "macos" /\ alf' = ~alf
  /\ UNCHANGED <<host, links, bin, rules, pc, todo, at, registered, rule, failed, hist>>

Next ==
  \/ Begin \/ Open \/ Close \/ RegisterWindows \/ RegisterLinux \/ Look \/ Delete
  \/ UnregisterLinux \/ Crash \/ Claim \/ Toggle

Spec == Init /\ [][Next]_vars

---------------------------------------------------------------------------
(* Another program's handler is still there.                               *)
Kept(s) == IF os = "windows" THEN command[s] \in {"theirs", "alike"} ELSE default[s] = "theirs"

(* A handler another program has claimed since we last registered stays    *)
(* that program's through our uninstalls, unless it was claimed between    *)
(* the look and the deletion, or passes for one that starts dign; what     *)
(* passes for that goes only where dign is looked for, never from dig-app: *)
(* links (unregister_windows).                                             *)
TheirsKept == \A s \in theirs \ (raced \cup (lookalike \cap DignSchemes)) : Kept(s)

(* As documented: each key is removed only when its command is the exact   *)
(* shape we write, so a foreign registration is never clobbered            *)
(* (unregister); but for a claim behind the look's back.                   *)
ForeignHandlersKept == \A s \in theirs \ raced : Kept(s)

(* When the uninstall has gone through its schemes and no call has failed, *)
(* no link starts our program and no exception for dig-node is left (on    *)
(* macOS: but for a program in another place); and a registration that is  *)
(* reported holds, but for what another program has claimed since.         *)
NothingLeft ==
  /\ pc = "close" /\ ~failed => /\ \A s \in Schemes : command[s] # "ours"
                               /\ \A f \in {"dign", "app"} : files[f] = "none"
  /\ rule = "closed" => rules \subseteq (IF os = "windows" THEN {} ELSE Bins \ {bin})
  /\ \A f \in registered :
       IF os = "linux" THEN files[f] = "whole"
       ELSE \A s \in Schemes \ theirs : File(s) = f => command[s] = "ours"

(* What registering and removing promise of the handlers of links: others' *)
(* stay, and ours go with us.                                              *)
HandlersHold == TheirsKept /\ NothingLeft

=============================================================================
