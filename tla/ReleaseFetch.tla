------------------------------ MODULE ReleaseFetch ------------------------------
(***************************************************************************)
(* Finding and fetching one component: the release of its repository, the  *)
(* asset for this machine, for dig-app the first build this machine can    *)
(* load, and the download; each request tried again when a failure may     *)
(* pass.  What happens to the bytes is module BinaryWrite.                 *)
(***************************************************************************)
EXTENDS Naturals, FiniteSets

CONSTANTS
  ATTEMPTS,    \* HTTP_ATTEMPTS
  MaxFaults    \* requests of one fetch that fail though there is an answer

VARIABLES
  target,      \* os and architecture of this machine
  component,   \* "dig-node", "dig-app" or "alias"
  pinned,      \* the user asked for a version
  token,       \* GITHUB_TOKEN is set
  hosted,      \* the release of each repository, as the server has it
  source,      \* the repository asked: "renamed" or "legacy"
  request,     \* what is asked for, or "idle"
  tries,       \* attempts made at this request
  left,        \* dig-app's candidates still to look at
  permissive,  \* the first candidate nothing was found out about
  asset,       \* the asset chosen
  result,      \* how it ended
  faults       \* failures so far

place == <<target, component, pinned, token, hosted>>
vars == <<place, source, request, tries, left, permissive, asset, result, faults>>

Machines == {"linux", "windows", "macos-arm64", "macos-x64"}
None == [os |-> "none", arch |-> "none", headless |-> FALSE, loads |-> "no"]

(* A raw program in a release; loads: what its ELF header says of this host. *)
Assets ==
  [os : {"linux"}, arch : {"x64"}, headless : BOOLEAN, loads : {"yes", "no", "unknown"}]
  \cup [os : {"linux", "macos"}, arch : {"arm64"}, headless : {FALSE}, loads : {"unknown"}]
  \cup [os : {"windows", "macos"}, arch : {"x64"}, headless : {FALSE}, loads : {"unknown"}]

OsOf(t) == IF t \in {"linux", "windows"} THEN t ELSE "macos"

-------------------------------------------------------------------------------
(* select_asset: the names of one component, by extension, architecture and *)
(* how specific the first token is that matches.                            *)
has_accepted_ext(a, t) == (a.os = "windows") <=> (t = "windows")

Competes(a, t) == a.arch # IF t = "macos-arm64" THEN "arm64" ELSE "x64"

(* The bare "x64" is a token of Windows and Linux: it also matches the      *)
(* program of macOS, which has no extension either.                         *)
HasToken(a, t) == a.os = OsOf(t) \/ (t \in {"windows", "linux"} /\ a.arch = "x64")

token_rank(a, t) == IF a.os = OsOf(t) THEN 0 ELSE 4

(* Mutant: the tokens decide, whatever other architecture is named. *)
CandidatesOfAnyArch(as, t) == {a \in as : has_accepted_ext(a, t) /\ HasToken(a, t)}

matched_candidates(as, t) ==
  {a \in as : has_accepted_ext(a, t) /\ ~Competes(a, t) /\ HasToken(a, t)}

(* The more specific token first, then the shorter name: "-headless" is     *)
(* longer.  Where headless counts, it counts before anything else.          *)
base_rank(a, t) == 2 * token_rank(a, t) + (IF a.headless THEN 1 ELSE 0)
variant_rank(a, t) == (IF a.headless THEN 100 ELSE 0) + base_rank(a, t)

FirstBy(rank) == CHOOSE a \in DOMAIN rank : \A b \in DOMAIN rank : rank[a] <= rank[b]

-------------------------------------------------------------------------------
(* One request, through with_retry.                                         *)
(* What the API is asked carries the token, a download never does.          *)
Authenticated == token /\ request \in {"tag", "latest", "list"}
Retryable(f) == f = "blip" \/ (f = "forbidden" /\ ~Authenticated)

Ask(what) == request' = what /\ tries' = 0

LastTry == tries + 1 >= ATTEMPTS

(* A failure that may pass, with attempts left.                             *)
Again ==
  /\ request \in {"tag", "latest", "list", "probe", "download"} /\ faults < MaxFaults /\ ~LastTry
  /\ \E f \in {"blip", "forbidden"} : Retryable(f)
  /\ tries' = tries + 1 /\ faults' = faults + 1
  /\ UNCHANGED <<place, source, request, left, permissive, asset, result>>

(* The request fails for good: with its last attempt, or at once.           *)
Failed(f) == faults < MaxFaults /\ faults' = faults + 1 /\ (Retryable(f) => LastTry)

(* An answer, be it that there is nothing.                                  *)
Answered == UNCHANGED faults

Ends(how) == result' = how /\ request' = "idle" /\ tries' = 0

-------------------------------------------------------------------------------
(* A repository is given up: dig-node goes on with the one it had before    *)
(* its renaming, whatever the reason was; an alias that is not published is *)
(* skipped; any other failure ends the installation.                        *)
First == IF pinned THEN "tag" ELSE "latest"

GiveUp(why) ==
  /\ IF component = "dig-node" /\ source = "renamed"
     THEN source' = "legacy" /\ Ask(First) /\ UNCHANGED result
     ELSE /\ UNCHANGED source
          /\ Ends(IF component = "alias" /\ why = "missing" THEN "skipped" ELSE why)

Published == hosted[source]

(* release_by_tag: the version asked for may not be there.                  *)
ByTag ==
  /\ request = "tag"
  /\ \/ Answered /\ GiveUp("missing")
     \/ /\ Answered /\ Published.state # "none"
        /\ Ask("select") /\ UNCHANGED <<source, result>>
     \/ \E f \in {"blip", "forbidden"} : Failed(f) /\ GiveUp("network")
  /\ UNCHANGED <<place, left, permissive, asset>>

(* latest_release: prereleases are not "latest"; the list has them.         *)
Latest ==
  /\ request = "latest"
  /\ \/ /\ Answered /\ Published.state # "latest"
        /\ Ask("list") /\ UNCHANGED <<source, result>>
     \/ /\ Answered /\ Published.state = "latest"
        /\ Ask("select") /\ UNCHANGED <<source, result>>
     \/ \E f \in {"blip", "forbidden"} : Failed(f) /\ GiveUp("network")
  /\ UNCHANGED <<place, left, permissive, asset>>

(* An empty list is no 404: its error passes for a failure of the network.  *)
List ==
  /\ request = "list"
  /\ \/ /\ Answered /\ Published.state # "none"
        /\ Ask("select") /\ UNCHANGED <<source, result>>
     \/ Answered /\ Published.state = "none" /\ GiveUp("network")
     \/ \E f \in {"blip", "forbidden"} : Failed(f) /\ GiveUp("network")
  /\ UNCHANGED <<place, left, permissive, asset>>

(* resolve_component and, for dig-app, resolve_variant_component.           *)
Select ==
  LET found == matched_candidates(Published.assets, target)
  IN /\ request = "select"
     /\ CASE found = {} -> GiveUp("missing") /\ UNCHANGED <<left, asset>>
          [] found # {} /\ component = "dig-app" ->
               Ask("probe") /\ left' = found /\ UNCHANGED <<source, result, asset>>
          [] OTHER ->
               /\ Ask("download") /\ asset' = FirstBy([a \in found |-> base_rank(a, target)])
               /\ UNCHANGED <<source, result, left>>
     /\ UNCHANGED <<place, permissive, faults>>

-------------------------------------------------------------------------------
(* select_loadable_variant: each candidate is downloaded and looked into;   *)
(* what could not be downloaded is not known to be bad.                     *)
Candidate == FirstBy([a \in left |-> variant_rank(a, target)])

Chosen(a) == asset' = a /\ Ask("download") /\ UNCHANGED result

TakenAtOnce(c, verdict) == verdict = "yes"

Kept(c, verdict) == IF permissive = None /\ verdict = "unknown" THEN c ELSE permissive

Judge(verdict) ==
  LET c == Candidate
      rest == left \ {c}
      kept == Kept(c, verdict)
  IN /\ left' = rest /\ permissive' = kept
     /\ CASE TakenAtOnce(c, verdict) -> Chosen(c)
          [] ~TakenAtOnce(c, verdict) /\ rest # {} -> Ask("probe") /\ UNCHANGED <<asset, result>>
          [] OTHER -> IF kept = None THEN Ends("refused") /\ UNCHANGED asset ELSE Chosen(kept)

Probe ==
  /\ request = "probe"
  /\ \/ Answered /\ Judge(Candidate.loads)
     \/ \E f \in {"blip", "forbidden"} : Failed(f) /\ Judge("unknown")
  /\ UNCHANGED <<place, source>>

(* The chosen asset is downloaded, a probed one for the second time.        *)
Download ==
  /\ request = "download"
  /\ \/ Answered /\ Ends("fetched")
     \/ \E f \in {"blip", "forbidden"} : Failed(f) /\ Ends("network")
  /\ UNCHANGED <<place, source, left, permissive, asset>>

-------------------------------------------------------------------------------
Releases ==
  {[state |-> "none", assets |-> {}]}
  \cup [state : {"latest", "prerelease"}, assets : {s \in SUBSET Assets : Cardinality(s) <= 2}]

(* The old repository, if it is still there, has a program for everyone.    *)
OldReleases ==
  {[state |-> "none", assets |-> {}],
   [state |-> "latest", assets |-> {a \in Assets : a.loads = "unknown" /\ ~a.headless}]}

Init ==
  /\ target \in Machines /\ token \in BOOLEAN /\ pinned \in BOOLEAN
  /\ component \in {"dig-node", "dig-app", "alias"}
  /\ \E new \in Releases, old \in OldReleases :
       /\ component # "dig-node" => old.state = "none"
       /\ component # "dig-app" => \A a \in new.assets : a.loads = "unknown"
       /\ hosted = [renamed |-> new, legacy |-> old]
  /\ source = "renamed" /\ request = First /\ tries = 0
  /\ left = {} /\ permissive = None /\ asset = None
  /\ result = "pending" /\ faults = 0

Next == Again \/ ByTag \/ Latest \/ List \/ Select \/ Probe \/ Download

Spec == Init /\ [][Next]_vars

-------------------------------------------------------------------------------
Results == {"pending", "fetched", "network", "missing", "skipped", "refused"}

TypeOK ==
  /\ target \in Machines /\ component \in {"dig-node", "dig-app", "alias"}
  /\ {pinned, token} \subseteq BOOLEAN
  /\ hosted \in [{"renamed", "legacy"} ->
                  [state : {"none", "latest", "prerelease"}, assets : SUBSET Assets]]
  /\ source \in {"renamed", "legacy"}
  /\ request \in {"idle", "tag", "latest", "list", "select", "probe", "download"}
  /\ tries \in 0..(ATTEMPTS - 1) /\ faults \in 0..MaxFaults
  /\ left \subseteq Assets /\ {permissive, asset} \subseteq Assets \cup {None}
  /\ result \in Results

Fitting == matched_candidates(Published.assets, target)

(* As many failures as one request has attempts are needed to end a fetch   *)
(* for which there is an asset, wherever in the chain of requests they      *)
(* happen (a rejected token is another matter).                             *)
BlipsSurvived ==
  result = "network" /\ ~token /\ Fitting # {} => faults >= ATTEMPTS

(* The program fetched is not one for another architecture, and, but for    *)
(* dig-app, whose builds for this system may not load, not one for another  *)
(* system unless the release has none for this one.                         *)
RightMachine ==
  asset # None =>
    /\ ~Competes(asset, target)
    /\ component # "dig-app" /\ asset.os # OsOf(target) => \A a \in Fitting : a.os # OsOf(target)

(* dig-app is refused only when every build was looked into and none loads. *)
RefusedForCause ==
  result = "refused" => \A a \in Fitting : a.loads = "no"

(* A build that loads is preferred to one nothing is known of, unless a     *)
(* download failed for good on the way.                                     *)
LoadablePreferred ==
  component = "dig-app" /\ asset # None /\ faults < ATTEMPTS =>
    \/ asset.loads = "yes"
    \/ asset.loads = "unknown" /\ \A a \in Fitting : a.loads # "yes"

(* What a fetch promises: the right program, refused or given up only with *)
(* a cause.                                                                *)
ChoiceHolds == RightMachine /\ RefusedForCause /\ LoadablePreferred /\ BlipsSurvived

===============================================================================
