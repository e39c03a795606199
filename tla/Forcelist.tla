------------------------------- MODULE Forcelist -------------------------------
(***************************************************************************)
(* The browser extension's entry in each browser's managed policy          *)
(* (forcelist, with the targets of browsers.rs and the callers in lib.rs). *)
(* Windows keeps a key of numbered values that an administrator fills too; *)
(* macOS one file per browser, which is ours or not; Linux a file of our   *)
(* own that the browser merges.  Each look at a policy and the write that  *)
(* follows are two steps, between which an administrator may act.          *)
(***************************************************************************)
EXTENDS Naturals, FiniteSets

CONSTANTS
  CATALOGUE,           \* the browsers known
  MaxEdits, MaxRuns    \* bounds: what the administrator does, and runs

Channels == {"stable", "nightly"}
Entries  == Channels           \* forcelist_entry: ours, told by the extension's id
Ids      == CATALOGUE \cup {"unknown"}

VARIABLES
  os,
  policy,    \* browser -> the value under each name; off Windows there is one name
  op, channel, selected,
  pc, at,    \* what is done, to which browser
  todo,      \* browsers yet to come
  seen,      \* what the look at its policy found
  removed,   \* how the removal half of a reinstall went
  outcome,   \* browser -> what is reported of it, until the administrator acts
  (* history *)
  had,       \* browsers with our entry when this run came to them
  orgs,      \* <<browser, name>>: values the administrator has put there
  lost,      \* those that may have been overwritten unseen
  unread,    \* browsers whose key could not be opened
  runs, edits

run  == <<os, op, channel, selected>>
hist == <<had, orgs, lost, unread, runs, edits>>
vars == <<run, policy, pc, at, todo, seen, removed, outcome, hist>>

Names  == IF os = "windows" THEN 1..3 ELSE {1}
Values == Entries \cup {"none", "org"} \cup (IF os = "macos" THEN {"torn"} ELSE {})

Actions == {"Wrote", "AlreadyPresent", "Updated", "Removed", "NothingToRemove", "Skipped", "Failed"}

TypeOK ==
  /\ os \in {"windows", "macos", "linux"} /\ policy \in [CATALOGUE -> [Names -> Values]]
  /\ op \in {"apply", "remove", "reinstall"} /\ channel \in Channels /\ selected \subseteq Ids
  /\ pc \in {"idle", "remove", "removing", "apply", "applying"}
  /\ at \in CATALOGUE /\ todo \subseteq CATALOGUE /\ seen \in [Names -> Values]
  /\ removed \in Actions /\ outcome \in [CATALOGUE -> Actions \cup {"none"}]
  /\ had \subseteq CATALOGUE /\ orgs \subseteq CATALOGUE \X Names /\ lost \subseteq orgs
  /\ unread \subseteq CATALOGUE /\ runs \in 0..MaxRuns /\ edits \in 0..MaxEdits

Init ==
  /\ os \in {"windows", "macos", "linux"}
  /\ policy = [b \in CATALOGUE |-> [n \in Names |-> "none"]]
  /\ op = "apply" /\ channel = "stable" /\ selected = {} /\ pc = "idle"
  /\ at = CHOOSE b \in CATALOGUE : TRUE
  /\ todo = {} /\ seen = policy[at] /\ removed = "NothingToRemove"
  /\ outcome = [b \in CATALOGUE |-> "none"]
  /\ had = {} /\ orgs = {} /\ lost = {} /\ unread = {} /\ runs = 0 /\ edits = 0

---------------------------------------------------------------------------
Ours(p) == {n \in DOMAIN p : p[n] \in Entries}

(* The next browser, or the end.                                           *)
GoOn(left) ==
  IF left = {} THEN pc' = "idle" /\ todo' = {} /\ UNCHANGED at
  ELSE /\ at' \in left /\ todo' = left \ {at'}
       /\ pc' = IF op = "apply" THEN "apply" ELSE "remove"

(* policy_targets_for: a browser that is not in the catalogue is dropped.  *)
PolicyTargets(ids) == ids \cap CATALOGUE

Begin ==
  /\ pc = "idle" /\ runs < MaxRuns /\ runs' = runs + 1
  /\ op' \in {"apply", "remove", "reinstall"} /\ channel' \in Channels
  /\ selected' \in {{b, "unknown"} : b \in CATALOGUE} \cup {CATALOGUE}
  /\ LET t == PolicyTargets(selected')
     IN  at' \in t /\ todo' = t \ {at'} /\ pc' = IF op' = "apply" THEN "apply" ELSE "remove"
  /\ outcome' = [b \in CATALOGUE |-> "none"] /\ had' = {} /\ unread' = {}
  /\ removed' = "NothingToRemove"
  /\ UNCHANGED <<os, policy, seen, orgs, lost, edits>>

Report(action) ==
  /\ outcome' = [outcome EXCEPT ![at] = action] /\ GoOn(todo) /\ UNCHANGED removed

(* The removal half is over: a reinstall goes on with the other.           *)
EndRemove(action) ==
  IF op = "reinstall"
  THEN removed' = action /\ pc' = "apply" /\ UNCHANGED <<outcome, at, todo>>
  ELSE Report(action)

(* Mutant: a reinstall is reported as an update whatever became of it. *)
CombinedAnyway(applied) == "Updated"

(* combine_reinstall: a failed re-adding after a removal has left the      *)
(* extension removed.                                                      *)
Combined(applied) ==
  IF applied \in {"Wrote", "AlreadyPresent"} THEN "Updated"
  ELSE IF removed = "Removed" THEN "Failed" ELSE applied

EndApply(action) == Report(IF op = "reinstall" THEN Combined(action) ELSE action)

Met == had' = IF Ours(policy[at]) # {} /\ pc = "remove" THEN had \cup {at} ELSE had

---------------------------------------------------------------------------
LookToRemove ==
  /\ pc = "remove" /\ seen' = policy[at] /\ Met
  /\ \/ /\ IF Ours(seen') # {} THEN pc' = "removing" /\ UNCHANGED <<outcome, removed, at, todo>>
           ELSE EndRemove(IF os = "macos" /\ seen'[1] # "none" THEN "Skipped" ELSE "NothingToRemove")
        /\ UNCHANGED unread
     \/ /\ os = "windows" /\ EndRemove("NothingToRemove")    \* the key cannot be opened
        /\ unread' = unread \cup {at}
  /\ UNCHANGED <<run, policy, orgs, lost, runs, edits>>

(* Each value of ours by its name, until one cannot be deleted.            *)
Remove ==
  /\ pc = "removing"
  /\ \E kept \in SUBSET Ours(seen) :
       /\ policy' = [policy EXCEPT ![at] =
            [n \in Names |-> IF n \in Ours(seen) \ kept THEN "none" ELSE @[n]]]
       /\ EndRemove(IF kept = {} THEN "Removed" ELSE "Failed")
  /\ UNCHANGED <<run, seen, hist>>

(* The key or the folder cannot be made, or it is as wanted, or (macOS)    *)
(* somebody else's.                                                        *)
LookToApply ==
  /\ pc = "apply" /\ seen' = policy[at]
  /\ LET current == channel \in {seen'[n] : n \in Ours(seen')}
         theirs  == os = "macos" /\ seen'[1] \in {"org", "torn"}
     IN  \/ current /\ EndApply("AlreadyPresent")
         \/ theirs /\ EndApply("Skipped")
         \/ /\ ~current /\ ~theirs /\ pc' = "applying"
            /\ UNCHANGED <<outcome, removed, at, todo>>
         \/ (os = "windows" \/ (~current /\ ~theirs)) /\ EndApply("Failed")
  /\ UNCHANGED <<run, policy, hist>>

Free(p) == {n \in Names : p[n] = "none"}

(* next_free_name: the lowest number nobody uses.                          *)
NextFreeName(p) == CHOOSE n \in Free(p) : \A k \in Free(p) : n <= k

(* Ours, to be replaced, or a new one.                                     *)
Target(p) ==
  IF os # "windows" THEN 1
  ELSE IF Ours(p) # {} THEN CHOOSE n \in Ours(p) : TRUE
  ELSE NextFreeName(p)

(* On macOS the file is written in place, so a failure may leave it torn.  *)
Apply ==
  /\ pc = "applying"
  /\ LET n == Target(seen)
     IN  \/ /\ policy' = [policy EXCEPT ![at][n] = channel]
            /\ EndApply(IF os = "windows" /\ Ours(seen) # {} THEN "Updated" ELSE "Wrote")
         \/ policy' = policy /\ EndApply("Failed")
         \/ /\ os = "macos" /\ policy' = [policy EXCEPT ![at][n] = "torn"] /\ EndApply("Failed")
  /\ UNCHANGED <<run, seen, hist>>

Crash ==
  /\ pc # "idle" /\ pc' = "idle" /\ todo' = {}
  /\ policy' \in {policy} \cup
       (IF os = "macos" /\ pc = "applying" THEN {[policy EXCEPT ![at][1] = "torn"]} ELSE {})
  /\ UNCHANGED <<run, at, seen, removed, outcome, hist>>

(* The administrator: not where the file is ours alone.  A name is left    *)
(* free for us.                                                            *)
Edit ==
  /\ os # "linux" /\ edits < MaxEdits /\ edits' = edits + 1
  /\ \E b \in CATALOGUE, n \in Names \ (IF os = "windows" THEN {3} ELSE {}) :
       /\ \/ /\ policy[b][n] # "org" /\ policy' = [policy EXCEPT ![b][n] = "org"]
             /\ orgs' = orgs \cup {<<b, n>>}
             /\ lost' = IF b = at /\ pc \in {"removing", "applying"} THEN lost \cup {<<b, n>>}
                        ELSE lost \ {<<b, n>>}
          \/ /\ policy[b][n] = "org" /\ policy' = [policy EXCEPT ![b][n] = "none"]
             /\ orgs' = orgs \ {<<b, n>>} /\ lost' = lost \ {<<b, n>>}
       /\ outcome' = [outcome EXCEPT ![b] = "none"]
       /\ had' = had \ {b}
  /\ UNCHANGED <<run, pc, at, todo, seen, removed, unread, runs>>

Next == Begin \/ LookToRemove \/ Remove \/ LookToApply \/ Apply \/ Crash \/ Edit

Spec == Init /\ [][Next]_vars

---------------------------------------------------------------------------
(* What an administrator has put into a policy stays, unless it was put    *)
(* there between a look and the write that followed.                       *)
OrgKept == \A o \in orgs \ lost : policy[o[1]][o[2]] = "org"

(* Our entry is in a browser's policy once at most, on whatever channel.   *)
OneEntry == \A b \in CATALOGUE : Cardinality(Ours(policy[b])) <= 1

(* What is reported of a browser is so: its entry is there on the channel  *)
(* asked for, or is gone; and a reinstall that leaves without the entry a  *)
(* browser that had it has failed.                                         *)
OutcomeTrue ==
  \A b \in CATALOGUE \ unread :
    /\ outcome[b] \in {"Wrote", "AlreadyPresent", "Updated"} =>
         \E n \in Names : policy[b][n] = channel
    /\ outcome[b] \in {"Removed", "NothingToRemove"} => Ours(policy[b]) = {}
    /\ (op = "reinstall" /\ b \in had /\ outcome[b] # "none" /\ Ours(policy[b]) = {})
         => outcome[b] = "Failed"

(* What a run promises of a browser's policy: the administrator's entries, *)
(* one of ours, and a true outcome.                                        *)
PolicyHolds == OrgKept /\ OneEntry /\ OutcomeTrue

=============================================================================
