------------------------------ MODULE Uninstall ------------------------------
(***************************************************************************)
(* The whole-stack uninstall: uninstall.rs (orchestrate) and the actions   *)
(* lib.rs gives it (SystemActions), with running.rs, beacon.rs, msi.rs.    *)
(* Every step is tried, whatever became of the ones before; what a failed  *)
(* teardown leaves must keep its program; and the report is complete only  *)
(* if every step said so and the scan afterwards finds nothing.            *)
(*                                                                         *)
(* dig-relay is treated as dig-node is and is not listed, nor are aliases. *)
(* What the steps that have a module of their own do inside (TlsRoot,      *)
(* HostsFile, Forcelist, Resolver, EngineService) enters here as what they *)
(* leave and what they say.                                                *)
(***************************************************************************)
EXTENDS Naturals, FiniteSets, Sequences

CONSTANTS MaxFailures   \* bound: how many calls go wrong, over all runs

ASSUME MaxFailuresAssumption == MaxFailures \in Nat

(* In the order they are deleted.                                          *)
COMPONENT_STEMS == <<"dig-node", "dig-dns", "dig-updater", "dig-app", "dig-installer">>

Stems    == {COMPONENT_STEMS[i] : i \in 1..Len(COMPONENT_STEMS)}
Services == {"dig-node", "dig-dns"}

(* What an install leaves besides programs.  A service here is its         *)
(* registration.                                                           *)
Artifacts == Services \cup
  {"resolver", "schedule", "entry", "unit", "handlers", "hosts", "rule", "anchor",
   "fragment", "product", "arp", "policy"}

VARIABLES
  os,        \* "windows", "linux" or "macos"
  custom,    \* the install has a --bin-dir of its own beside the protected root
  self,      \* where the running installer is: a root, or "elsewhere"
  bin,       \* program -> the roots it is in
  there,     \* the artifacts
  leftovers, \* programs an interrupted write has left a file of
  links,     \* programs linked from /usr/local/bin
  running,   \* programs that run
  queued,    \* roots whose dig-installer is deleted at the next restart
  pc,
  next,      \* the program delete_binaries has come to
  failed,    \* failed_components
  ok,        \* every step so far has reported success
  result,    \* "none", "complete" or "incomplete"
  (* history *)
  unseen,    \* what a step took for gone, and was not
  trouble,   \* a call has failed in this run
  failures   \* calls that have failed

system == <<os, custom, self>>
disk   == <<bin, there, leftovers, links>>
report == <<failed, ok, result>>
vars   == <<system, disk, running, queued, pc, next, report, unseen, trouble, failures>>

Roots  == {"protected"} \cup (IF custom THEN {"bin_dir"} ELSE {})   \* distinct_roots
BinDir == IF custom THEN "bin_dir" ELSE "protected"

(* What an install of all the programs leaves on this system.              *)
Installed ==
  Services \cup {"resolver", "schedule", "entry", "handlers", "hosts", "rule", "anchor", "policy"}
  \cup (IF os = "windows" THEN {"product", "arp"} ELSE {"fragment"})
  \cup (IF os = "linux" THEN {"unit"} ELSE {})

Of(artifact) ==
  CASE artifact \in Services -> artifact
    [] artifact = "resolver" -> "dig-dns"
    [] artifact = "schedule" -> "dig-updater"
    [] artifact \in {"entry", "unit"} -> "dig-app"
    [] artifact \in {"arp", "fragment"} -> "dig-installer"
    [] OTHER -> "dig-node"

Phases == {"idle", "node", "dns", "agent", "beacon", "scheme", "network", "trust", "path",
           "msi", "delete", "sweep", "forcelist", "scan"}

TypeOK ==
  /\ os \in {"windows", "linux", "macos"} /\ custom \in BOOLEAN
  /\ self \in Roots \cup {"elsewhere"}
  /\ bin \in [Stems -> SUBSET Roots] /\ there \subseteq Artifacts
  /\ leftovers \subseteq Stems /\ links \subseteq Stems /\ running \subseteq Stems
  /\ queued \subseteq Roots
  /\ pc \in Phases /\ next \in 1..Len(COMPONENT_STEMS) /\ failed \subseteq Services /\ ok \in BOOLEAN
  /\ result \in {"none", "complete", "incomplete"}
  /\ unseen \subseteq Artifacts /\ trouble \in BOOLEAN /\ failures \in 0..MaxFailures

(* Some programs, each in the root the install was given or in both, with  *)
(* what belongs to them.                                                   *)
Init ==
  /\ os \in {"windows", "linux", "macos"} /\ custom \in BOOLEAN
  /\ self \in {BinDir, "elsewhere"}
  /\ \E sel \in {Stems, Stems \ {"dig-dns"}, {"dig-node", "dig-updater"}},
        old \in {{}, Roots} :
       /\ bin = [s \in Stems |-> IF s \in sel THEN {BinDir} \cup old ELSE {}]
       /\ there = {a \in Installed : Of(a) \in sel}
       /\ leftovers \in {{}, sel \cap {"dig-node"}}
       /\ links = IF os # "windows" /\ ~custom THEN sel \ {"dig-updater"} ELSE {}
       /\ running = sel \cap (Services \cup {"dig-app"})
  /\ queued = {} /\ pc = "idle" /\ next = 1 /\ failed = {} /\ ok = TRUE
  /\ result = "none" /\ unseen = {} /\ trouble = FALSE /\ failures = 0

---------------------------------------------------------------------------
Goes(from, to) == pc = from /\ pc' = to

(* How a call turns out: n of them go wrong.                               *)
Failing(n) ==
  /\ failures + n <= MaxFailures /\ failures' = failures + n
  /\ trouble' = (trouble \/ n > 0)

Says(good) == ok' = (ok /\ good)

(* A step that removes A, keeps what it cannot remove, and says so.        *)
RemoveAll(A) ==
  \E kept \in SUBSET (A \cap there) :
    /\ there' = there \ (A \ kept) /\ Failing(Cardinality(kept)) /\ Says(kept = {})

(* A step that keeps what it cannot remove and does not say so.            *)
RemoveQuietly(A) ==
  \E kept \in SUBSET (A \cap there) :
    there' = there \ (A \ kept) /\ Failing(Cardinality(kept)) /\ UNCHANGED ok

Begin ==
  /\ Goes("idle", "node") /\ failed' = {} /\ ok' = TRUE /\ result' = "none"
  /\ unseen' = {} /\ trouble' = FALSE
  /\ UNCHANGED <<system, disk, running, queued, next, failures>>

---------------------------------------------------------------------------
(* stop_services.  A teardown succeeds, or fails having done its work or   *)
(* not, or is believed to have succeeded: the scope that holds the         *)
(* registration could not be read, or (macOS) the job is unloaded and its  *)
(* file is left (EngineService).                                           *)
Stopped(s) == running' = running \ {s}

TornDown(s) == UNCHANGED failed /\ Says(TRUE)

LeftStanding(s) == failed' = failed \cup {s} /\ Says(FALSE)

Believed(s) == s \in there /\ unseen' = unseen \cup {s}

StopNode ==
  /\ Goes("node", "dns")
  /\ LET s == "dig-node"
     IN  \/ /\ there' = there \ {s} /\ Stopped(s) /\ TornDown(s) /\ Failing(0)
            /\ UNCHANGED unseen
         \/ /\ there' \in {there, there \ {s}} /\ running' \in {running, running \ {s}}
            /\ LeftStanding(s) /\ Failing(1) /\ UNCHANGED unseen
         \/ /\ Believed(s) /\ running' \in {running, running \ {s}}
            /\ TornDown(s) /\ UNCHANGED there
            /\ Failing(IF os = "macos" /\ bin[s] = {} THEN 0 ELSE 1)
  /\ UNCHANGED <<system, bin, leftovers, links, queued, next, result>>

(* dns::uninstall.  On Windows sc says afterwards whether the service is   *)
(* there, and not being able to run sc says that it is not; elsewhere the  *)
(* verdict is the exit of the removal, which fails of a service that is    *)
(* not there.  The resolver goes through dig-dns itself, if it is there.   *)
Unconfigured == IF bin["dig-dns"] # {} THEN {there \ {"resolver"}, there} ELSE {there}

StopDns ==
  /\ Goes("dns", "agent")
  /\ \E t \in Unconfigured :
       LET s     == "dig-dns"
           quiet == IF "resolver" \in t /\ bin[s] # {} THEN 1 ELSE 0
       IN  \/ /\ s \in there \/ os = "windows"
              /\ there' = t \ {s} /\ Stopped(s) /\ TornDown(s) /\ Failing(quiet)
              /\ UNCHANGED unseen
           \/ /\ os # "windows" /\ s \notin there
              /\ there' = t /\ LeftStanding(s) /\ Failing(quiet) /\ UNCHANGED <<running, unseen>>
           \/ /\ s \in there /\ there' \in {t, t \ {s}} /\ (os = "windows" => s \in there')
              /\ running' \in {running, running \ {s}}
              /\ LeftStanding(s) /\ Failing(1 + quiet) /\ UNCHANGED unseen
           \/ /\ os = "windows" /\ Believed(s)
              /\ there' = t /\ TornDown(s) /\ Failing(1 + quiet) /\ UNCHANGED running
  /\ UNCHANGED <<system, bin, leftovers, links, queued, next, result>>

(* stop_image: whether the image is dead, and what the tool says.  A pkill *)
(* that is not there reads as not running.                                 *)
StopImage ==
  {[dead |-> TRUE, says |-> TRUE], [dead |-> FALSE, says |-> FALSE]} \cup
  (IF os = "windows" THEN {} ELSE {[dead |-> FALSE, says |-> TRUE]})

(* autostart::deregister: Linux has had two kinds of login entry.          *)
LoginEntries == {"entry", "unit"} \cap there

StopUserAgent ==
  /\ Goes("agent", "beacon")
  /\ \E image \in StopImage, kept \in SUBSET LoginEntries :
       /\ running' = IF image.dead THEN running \ {"dig-app"} ELSE running
       /\ there' = there \ (LoginEntries \ kept)
       /\ Says(image.says /\ kept = {})
       /\ Failing((IF image.dead THEN 0 ELSE 1) + Cardinality(kept))
  /\ UNCHANGED <<system, bin, leftovers, links, queued, next, failed, result, unseen>>

(* uninstall_beacon runs the dig-updater of the install root, and its      *)
(* failure is reported as success.                                         *)
RemoveBeacon ==
  /\ Goes("beacon", "scheme")
  /\ IF BinDir \in bin["dig-updater"]
     THEN RemoveQuietly({"schedule"})
     ELSE Failing(0) /\ UNCHANGED <<there, ok>>
  /\ UNCHANGED <<system, bin, leftovers, links, running, queued, next, failed, result, unseen>>

(* scheme::unregister: not on macOS.                                       *)
UnregisterScheme ==
  /\ Goes("scheme", "network")
  /\ IF os # "macos" THEN RemoveQuietly({"handlers"}) ELSE Failing(0) /\ UNCHANGED <<there, ok>>
  /\ UNCHANGED <<system, bin, leftovers, links, running, queued, next, failed, result, unseen>>

(* The hosts entry, which counts, and the firewall rule, which does not.   *)
RemoveNetwork ==
  /\ Goes("network", "trust")
  /\ \E kept \in SUBSET ({"hosts", "rule"} \cap there) :
       /\ there' = there \ ({"hosts", "rule"} \ kept)
       /\ Failing(Cardinality(kept)) /\ Says("hosts" \notin kept)
  /\ UNCHANGED <<system, bin, leftovers, links, running, queued, next, failed, result, unseen>>

(* A trust tool that fails is not noticed (TlsRoot).                       *)
RemoveTrust ==
  /\ Goes("trust", "path")
  /\ \/ RemoveAll({"anchor"}) /\ UNCHANGED unseen
     \/ Believed("anchor") /\ Says(TRUE) /\ Failing(1) /\ UNCHANGED there
  /\ UNCHANGED <<system, bin, leftovers, links, running, queued, next, failed, result>>

RemoveLoginPath ==
  /\ Goes("path", "msi") /\ RemoveAll({"fragment"})
  /\ UNCHANGED <<system, bin, leftovers, links, running, queued, next, failed, result, unseen>>

(* What the Windows Installer lists, by upgrade code or by its entry under *)
(* Add/Remove Programs (installed_dig_products).                           *)
Products == {"product"} \cap there

(* msiexec /x, by its exit code (classify_exit): removed, absent already or *)
(* at the restart; or failed, perhaps midway.  The product's own sequence  *)
(* takes the service it registered.                                        *)
RemoveProduct ==
  \/ there' = there \ {"product", "dig-node"} /\ Failing(0) /\ UNCHANGED ok
  \/ there' \in {there, there \ {"dig-node"}} /\ Failing(1) /\ Says(FALSE)

RemoveMsi ==
  /\ Goes("msi", "delete") /\ next' = 1
  /\ IF Products # {} THEN RemoveProduct ELSE Failing(0) /\ UNCHANGED <<there, ok>>
  /\ running' = IF "dig-node" \in there' THEN running ELSE running \ {"dig-node"}
  /\ UNCHANGED <<system, bin, leftovers, links, queued, failed, result, unseen>>

---------------------------------------------------------------------------
(* delete_binaries.                                                        *)
Running(s) == os = "windows" /\ s \in running

(* Mutant: the programs of services that would not go are deleted too. *)
DeleteAny(s) ==
  /\ bin' = [bin EXCEPT ![s] = {}] /\ queued' = queued /\ Failing(0) /\ UNCHANGED ok

(* Mutant: only the root the install was given is visited. *)
DeleteFromBinDir(s) ==
  IF s \in failed THEN Failing(0) /\ UNCHANGED <<bin, queued, ok>>
  ELSE /\ bin' = [bin EXCEPT ![s] = @ \ {BinDir}] /\ queued' = queued
       /\ Failing(0) /\ UNCHANGED ok

(* From every root, but the image that runs, which Windows deletes at the  *)
(* restart and Unix at once.                                               *)
Delete(s) ==
  IF s \in failed THEN Failing(0) /\ UNCHANGED <<bin, queued, ok>>
  ELSE LET own == IF os = "windows" /\ s = "dig-installer" THEN bin[s] \cap {self} ELSE {}
       IN  \E kept \in SUBSET bin[s] :
             /\ Running(s) => kept = bin[s]
             /\ bin' = [bin EXCEPT ![s] = kept \cup own]
             /\ queued' = queued \cup (own \ kept)
             /\ IF Running(s) THEN trouble' = (trouble \/ kept # {}) /\ UNCHANGED failures
                              ELSE Failing(Cardinality(kept))
             /\ Says(kept = {})

DeleteBinaries ==
  /\ pc = "delete" /\ Delete(COMPONENT_STEMS[next])
  /\ IF next = Len(COMPONENT_STEMS) THEN pc' = "sweep" /\ UNCHANGED next
                                    ELSE next' = next + 1 /\ UNCHANGED pc
  /\ UNCHANGED <<system, there, leftovers, links, running, failed, result, unseen>>

(* remove_interrupted_install_leftovers, remove_veneer_links, whose        *)
(* failures are not looked at, and remove_arp_entry.                       *)
SweepLeftovers ==
  /\ Goes("sweep", "forcelist")
  /\ \E keep \in SUBSET (leftovers \ failed), dangling \in SUBSET (links \ failed) :
       /\ leftovers' = keep \cup (leftovers \cap failed)
       /\ links' = dangling \cup (links \cap failed)
       /\ \E kept \in SUBSET ({"arp"} \cap there) :
            /\ there' = there \ ({"arp"} \ kept)
            /\ Failing(Cardinality(keep) + Cardinality(dangling) + Cardinality(kept))
            /\ Says(keep = {} /\ kept = {})
  /\ UNCHANGED <<system, bin, running, queued, next, failed, result, unseen>>

UnconfigureForcelist ==
  /\ Goes("forcelist", "scan") /\ RemoveAll({"policy"})
  /\ UNCHANGED <<system, bin, leftovers, links, running, queued, next, failed, result, unseen>>

(* Mutant: the links are not looked at. *)
ResidueOfRoots ==
  \/ \E s \in Stems : bin[s] \ (IF s = "dig-installer" THEN {self} ELSE {}) # {}
  \/ leftovers # {} \/ "product" \in there

(* residue_in: any of the programs in any of the roots but the one that    *)
(* runs, what an interrupted write left, a link; and installed products.   *)
Residue ==
  \/ \E s \in Stems : bin[s] \ (IF s = "dig-installer" THEN {self} ELSE {}) # {}
  \/ leftovers # {} \/ links # {} \/ "product" \in there

ScanResidue ==
  /\ Goes("scan", "idle")
  /\ result' = IF ok /\ ~Residue THEN "complete" ELSE "incomplete"
  /\ UNCHANGED <<system, disk, running, queued, next, failed, ok, unseen, trouble, failures>>

---------------------------------------------------------------------------
(* The environment.                                                        *)
Starts ==
  /\ \E s \in (there \cap Services) \cup {"dig-app"} :
       s \notin running /\ bin[s] # {} /\ running' = running \cup {s}
  /\ UNCHANGED <<system, disk, queued, pc, next, report, unseen, trouble, failures>>

Restart ==
  /\ pc = "idle" /\ bin' = [bin EXCEPT !["dig-installer"] = @ \ queued] /\ queued' = {}
  /\ running' = {s \in there \cap Services : bin[s] # {}}
  /\ UNCHANGED <<system, there, leftovers, links, pc, next, report, unseen, trouble, failures>>

Crash ==
  /\ pc # "idle" /\ pc' = "idle" /\ next' = 1 /\ result' = "none"
  /\ UNCHANGED <<system, disk, running, queued, failed, ok, unseen, trouble, failures>>

Step ==
  \/ StopNode \/ StopDns \/ StopUserAgent \/ RemoveBeacon \/ UnregisterScheme
  \/ RemoveNetwork \/ RemoveTrust \/ RemoveLoginPath \/ RemoveMsi
  \/ DeleteBinaries \/ SweepLeftovers \/ UnconfigureForcelist \/ ScanResidue

Next == Begin \/ Step \/ Starts \/ Restart \/ Crash

Spec == Init /\ [][Next]_vars

---------------------------------------------------------------------------
(* The best-effort steps: their failure does not count.                    *)
BestEffort == {"resolver", "schedule", "handlers", "rule"}

(* An uninstall that reports itself complete has left no registration, no  *)
(* login entry, no hosts entry, trust anchor, PATH fragment, product or    *)
(* policy, but what a step was told was gone and what is best effort; and  *)
(* no program anywhere but the one that ran, which goes at the restart     *)
(* (UninstallReport::complete, "zero residue").                            *)
CompleteMeansGone ==
  result = "complete" =>
    /\ there \subseteq unseen \cup BestEffort
    /\ \A s \in Stems : bin[s] = {} \/ (s = "dig-installer" /\ bin[s] \subseteq queued)
    /\ leftovers = {} /\ links = {}

(* The last copy of a service's program is deleted only when nothing is    *)
(* registered that would start it, or the service manager said so          *)
(* (delete_binaries, failed_components).                                   *)
NeverOrphansService ==
  [][\A s \in Services : bin[s] # {} /\ bin'[s] = {} => s \notin there' \/ s \in unseen']_vars

(* A run in which no call fails is complete, whatever runs, failures and   *)
(* crashes came before: what is gone already is no failure                 *)
(* (UninstallActions); but off Windows where dig-dns is not registered.    *)
CleanRunCompletes ==
  result = "incomplete" /\ ~trouble =>
    os # "windows" /\ failed = {"dig-dns"} /\ "dig-dns" \notin there

=============================================================================
