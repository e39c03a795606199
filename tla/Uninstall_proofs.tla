--------------------------- MODULE Uninstall_proofs ---------------------------
(***************************************************************************)
(* What an uninstall may delete and what its verdict promises, for any     *)
(* number of calls that go wrong.                                          *)
(***************************************************************************)
EXTENDS Uninstall, FiniteSetTheorems, TLAPS

(* The phases a run can be in once it is past one.                         *)
AfterForcelist == {"scan"}
AfterSweep     == {"forcelist"} \cup AfterForcelist
AfterDelete    == {"sweep"} \cup AfterSweep
AfterMsi       == {"delete"} \cup AfterDelete
AfterPath      == {"msi"} \cup AfterMsi
AfterTrust     == {"path"} \cup AfterPath
AfterNetwork   == {"trust"} \cup AfterTrust
AfterAgent     == {"beacon", "scheme", "network"} \cup AfterNetwork
AfterDns       == {"agent"} \cup AfterAgent
AfterNode      == {"dns"} \cup AfterDns

Gone(a) == a \notin there \/ a \in unseen

USE DEF Gone, AfterNode, AfterDns, AfterAgent, AfterNetwork, AfterTrust, AfterPath, AfterMsi,
        AfterDelete, AfterSweep, AfterForcelist

(* A service the run is past is gone, or among the failed, whose programs  *)
(* stay; and then the run has said so.                                     *)
Settled ==
  /\ pc \in AfterNode => "dig-node" \in failed \/ Gone("dig-node")
  /\ pc \in AfterDns  => "dig-dns" \in failed \/ Gone("dig-dns")
  /\ ok => failed = {}

(* What every step having said so comes to, step by step.                  *)
SaidSo ==
  ok =>
    /\ pc \in AfterAgent     => Gone("entry") /\ Gone("unit")
    /\ pc \in AfterNetwork   => Gone("hosts")
    /\ pc \in AfterTrust     => Gone("anchor")
    /\ pc \in AfterPath      => Gone("fragment")
    /\ pc \in AfterMsi       => Gone("product")
    /\ pc \in AfterDelete    => bin["dig-installer"] \subseteq queued
    /\ pc \in AfterSweep     => Gone("arp")
    /\ pc \in AfterForcelist => Gone("policy")

Invariant ==
  /\ TypeOK /\ Settled /\ SaidSo /\ CompleteMeansGone
  /\ result # "none" => pc = "idle"

---------------------------------------------------------------------------
(* The sets are finite, so that failures can be counted.                   *)
LEMMA Enumerated ==
  ASSUME NEW a, NEW b, NEW c, NEW d
  PROVE  IsFiniteSet({a, b, c, d})
<1>1. IsFiniteSet({a})
  BY FS_Singleton
<1>2. IsFiniteSet({a} \cup {b})
  BY <1>1, FS_AddElement
<1>3. IsFiniteSet({a} \cup {b} \cup {c})
  BY <1>2, FS_AddElement
<1>4. IsFiniteSet({a} \cup {b} \cup {c} \cup {d})
  BY <1>3, FS_AddElement
<1>5. {a, b, c, d} = {a} \cup {b} \cup {c} \cup {d}
  OBVIOUS
<1> QED  BY <1>4, <1>5

LEMMA StemsAre ==
  /\ Len(COMPONENT_STEMS) = 5
  /\ Stems = {"dig-node", "dig-dns", "dig-updater", "dig-app", "dig-installer"}
  /\ \A i \in 1..5 : COMPONENT_STEMS[i] \in Stems
  /\ COMPONENT_STEMS[5] = "dig-installer"
<1>1. Len(COMPONENT_STEMS) = 5
  BY DEF COMPONENT_STEMS
<1>2. 1..5 = {1, 2, 3, 4, 5}
  OBVIOUS
<1>3. /\ COMPONENT_STEMS[1] = "dig-node" /\ COMPONENT_STEMS[2] = "dig-dns"
      /\ COMPONENT_STEMS[3] = "dig-updater" /\ COMPONENT_STEMS[4] = "dig-app"
      /\ COMPONENT_STEMS[5] = "dig-installer"
  BY DEF COMPONENT_STEMS
<1> QED  BY <1>1, <1>2, <1>3 DEF Stems

LEMMA Counting ==
  /\ IsFiniteSet(Artifacts) /\ IsFiniteSet(Stems) /\ IsFiniteSet(Roots)
  /\ \A S : IsFiniteSet(S) =>
       /\ Cardinality(S) \in Nat
       /\ \A T \in SUBSET S : Cardinality(T) \in Nat
<1>1. IsFiniteSet(Artifacts)
  <2>1. Artifacts = {"dig-node", "dig-dns", "resolver", "schedule"}
                    \cup {"entry", "unit", "handlers", "hosts"}
                    \cup {"rule", "anchor", "fragment", "product"}
                    \cup {"arp", "policy", "arp", "policy"}
    BY DEF Artifacts, Services
  <2> QED  BY <2>1, Enumerated, FS_Union
<1>2. IsFiniteSet(Stems)
  <2>1. Stems = {"dig-node", "dig-dns", "dig-updater", "dig-app"}
                \cup {"dig-installer", "dig-installer", "dig-installer", "dig-installer"}
    BY StemsAre
  <2> QED  BY <2>1, Enumerated, FS_Union
<1>3. IsFiniteSet(Roots)
  <2>1. Roots \subseteq {"protected", "bin_dir", "protected", "bin_dir"}
    BY DEF Roots
  <2> QED  BY <2>1, Enumerated, FS_Subset
<1> QED  BY <1>1, <1>2, <1>3, FS_Subset, FS_CardinalityType

(* A call turns out within the bound.                                      *)
LEMMA Outcomes ==
  ASSUME TypeOK, NEW n \in Nat, Failing(n)
  PROVE  failures' \in 0..MaxFailures /\ trouble' \in BOOLEAN
BY MaxFailuresAssumption DEF TypeOK, Failing

LEMMA InitInvariant == Init => Invariant
<1> SUFFICES ASSUME Init PROVE Invariant
  OBVIOUS
<1>1. PICK sel \in {Stems, Stems \ {"dig-dns"}, {"dig-node", "dig-updater"}},
           old \in {{}, Roots} :
        /\ bin = [s \in Stems |-> IF s \in sel THEN {BinDir} \cup old ELSE {}]
        /\ there = {a \in Installed : Of(a) \in sel}
        /\ leftovers \in {{}, sel \cap {"dig-node"}}
        /\ links = IF os # "windows" /\ ~custom THEN sel \ {"dig-updater"} ELSE {}
        /\ running = sel \cap (Services \cup {"dig-app"})
  BY DEF Init
<1>2. sel \subseteq Stems
  BY StemsAre
<1>3. bin \in [Stems -> SUBSET Roots]
  BY <1>1 DEF Init, BinDir, Roots
<1>4. there \subseteq Artifacts
  <2>1. Installed \subseteq Artifacts
    BY DEF Installed, Artifacts
  <2> QED  BY <1>1, <2>1
<1>5. leftovers \subseteq Stems /\ links \subseteq Stems /\ running \subseteq Stems
  BY <1>1, <1>2
<1>6. self \in Roots \cup {"elsewhere"}
  BY DEF Init, BinDir, Roots
<1>7. pc = "idle" /\ next \in 1..5 /\ failed = {} /\ result = "none" /\ queued = {}
      /\ ok = TRUE /\ unseen = {} /\ trouble = FALSE /\ failures = 0
  BY DEF Init
<1>8. TypeOK
  <2>1. os \in {"windows", "linux", "macos"} /\ custom \in BOOLEAN
    BY DEF Init
  <2>2. 0 \in 0..MaxFailures
    BY MaxFailuresAssumption
  <2> QED  BY <1>3, <1>4, <1>5, <1>6, <1>7, <2>1, <2>2, StemsAre DEF TypeOK, Phases
<1> QED  BY <1>7, <1>8
         DEF Invariant, Settled, SaidSo, CompleteMeansGone

---------------------------------------------------------------------------
(* Steps that remove artifacts.                                            *)
LEMMA RemovingAll ==
  ASSUME TypeOK, NEW A, RemoveAll(A)
  PROVE  /\ there' \subseteq there /\ failures' \in 0..MaxFailures /\ trouble' \in BOOLEAN
         /\ ok' \in BOOLEAN /\ (ok' => ok /\ there' \cap A = {})
<1>1. PICK kept \in SUBSET (A \cap there) :
        there' = there \ (A \ kept) /\ Failing(Cardinality(kept)) /\ Says(kept = {})
  BY DEF RemoveAll
<1>2. Cardinality(kept) \in Nat
  BY <1>1, Counting DEF TypeOK
<1> QED  BY <1>1, <1>2, Outcomes DEF Says, TypeOK

LEMMA RemovingQuietly ==
  ASSUME TypeOK, NEW A, RemoveQuietly(A)
  PROVE  /\ there' \subseteq there /\ failures' \in 0..MaxFailures /\ trouble' \in BOOLEAN
         /\ UNCHANGED ok
<1>1. PICK kept \in SUBSET (A \cap there) :
        there' = there \ (A \ kept) /\ Failing(Cardinality(kept)) /\ UNCHANGED ok
  BY DEF RemoveQuietly
<1>2. Cardinality(kept) \in Nat
  BY <1>1, Counting DEF TypeOK
<1> QED  BY <1>1, <1>2, Outcomes

(* What all the steps after the services' have in common: they bring       *)
(* nothing back and take nothing back that has been said.                  *)
Onward ==
  /\ there' \subseteq there /\ unseen' = unseen /\ failed' = failed
  /\ ok' \in BOOLEAN /\ (ok' => ok) /\ result' = result
  /\ failures' \in 0..MaxFailures /\ trouble' \in BOOLEAN
  /\ UNCHANGED <<system, links, next, queued, leftovers, bin>> /\ running' \subseteq running

LEMMA OnwardType ==
  ASSUME TypeOK, Onward, pc' \in Phases
  PROVE  TypeOK'
BY DEF TypeOK, Onward, system, Roots

LEMMA StopUserAgentInvariant ==
  ASSUME Invariant, StopUserAgent
  PROVE  Invariant'
<1> USE DEF Invariant
<1>1. PICK image \in StopImage, kept \in SUBSET LoginEntries :
        /\ running' = IF image.dead THEN running \ {"dig-app"} ELSE running
        /\ there' = there \ (LoginEntries \ kept)
        /\ Says(image.says /\ kept = {})
        /\ Failing((IF image.dead THEN 0 ELSE 1) + Cardinality(kept))
  BY DEF StopUserAgent
<1>2. Cardinality(kept) \in Nat
  <2>1. kept \in SUBSET Artifacts
    BY DEF LoginEntries, TypeOK
  <2> QED  BY <2>1, Counting
<1>3. failures' \in 0..MaxFailures /\ trouble' \in BOOLEAN
  <2>1. (IF image.dead THEN 0 ELSE 1) + Cardinality(kept) \in Nat
    BY <1>2
  <2> QED  BY <1>1, <2>1, Outcomes
<1>4. pc = "agent" /\ pc' = "beacon" /\ Onward
  BY <1>1, <1>3 DEF StopUserAgent, Goes, Onward, Says, TypeOK
<1>5. ok' => there' \cap {"entry", "unit"} = {}
  BY <1>1 DEF Says, LoginEntries
<1>6. TypeOK'
  BY <1>4, OnwardType DEF Phases
<1> QED  BY <1>4, <1>5, <1>6
         DEF Onward, Settled, SaidSo, CompleteMeansGone

(* Steps whose failure is not told.                                        *)
LEMMA BestEffortInvariant ==
  ASSUME Invariant, RemoveBeacon \/ UnregisterScheme
  PROVE  Invariant'
<1> USE DEF Invariant
<1>1. pc \in {"beacon", "scheme"} /\ pc' \in {"scheme", "network"} /\ Onward
  <2>1. 0 \in Nat
    OBVIOUS
  <2>2. CASE RemoveBeacon
    BY <2>1, <2>2, RemovingQuietly, Outcomes DEF RemoveBeacon, Goes, Onward, TypeOK
  <2>3. CASE UnregisterScheme
    BY <2>1, <2>3, RemovingQuietly, Outcomes DEF UnregisterScheme, Goes, Onward, TypeOK
  <2> QED  BY <2>2, <2>3
<1>2. TypeOK'
  BY <1>1, OnwardType DEF Phases
<1> QED  BY <1>1, <1>2
         DEF Onward, Settled, SaidSo, CompleteMeansGone

LEMMA RemoveNetworkInvariant ==
  ASSUME Invariant, RemoveNetwork
  PROVE  Invariant'
<1> USE DEF Invariant
<1>1. PICK kept \in SUBSET ({"hosts", "rule"} \cap there) :
       /\ there' = there \ ({"hosts", "rule"} \ kept)
       /\ Failing(Cardinality(kept)) /\ Says("hosts" \notin kept)
  BY DEF RemoveNetwork
<1>2. Cardinality(kept) \in Nat
  BY <1>1, Counting DEF TypeOK
<1>3. pc = "network" /\ pc' = "trust" /\ Onward /\ (ok' => "hosts" \notin there')
  BY <1>1, <1>2, Outcomes DEF RemoveNetwork, Goes, Onward, Says, TypeOK
<1>4. TypeOK'
  BY <1>3, OnwardType DEF Phases
<1> QED  BY <1>3, <1>4
         DEF Onward, Settled, SaidSo, CompleteMeansGone

(* A trust tool that fails unnoticed: the anchor is still there, unseen.   *)
LEMMA RemoveTrustInvariant ==
  ASSUME Invariant, RemoveTrust
  PROVE  Invariant'
<1> USE DEF Invariant
<1>1. /\ pc = "trust" /\ pc' = "path"
      /\ UNCHANGED <<system, bin, leftovers, links, running, queued, next, failed, result>>
  BY DEF RemoveTrust, Goes
<1>2. /\ there' \subseteq there /\ ok' \in BOOLEAN /\ (ok' => ok)
      /\ failures' \in 0..MaxFailures /\ trouble' \in BOOLEAN
      /\ unseen \subseteq unseen' /\ unseen' \subseteq unseen \cup {"anchor"}
      /\ ok' => "anchor" \notin there' \/ "anchor" \in unseen'
  <2>1. CASE RemoveAll({"anchor"}) /\ UNCHANGED unseen
    BY <2>1, RemovingAll
  <2>2. CASE Believed("anchor") /\ Says(TRUE) /\ Failing(1) /\ UNCHANGED there
    BY <2>2, Outcomes DEF Believed, Says, TypeOK
  <2> QED  BY <2>1, <2>2 DEF RemoveTrust
<1>3. TypeOK'
  BY <1>1, <1>2 DEF TypeOK, Phases, Artifacts, system, Roots
<1> QED  BY <1>1, <1>2, <1>3
         DEF Settled, SaidSo, CompleteMeansGone

LEMMA RemoveLoginPathInvariant ==
  ASSUME Invariant, RemoveLoginPath
  PROVE  Invariant'
<1> USE DEF Invariant
<1>1. pc = "path" /\ pc' = "msi" /\ Onward /\ (ok' => "fragment" \notin there')
  BY RemovingAll DEF RemoveLoginPath, Goes, Onward
<1>2. TypeOK'
  BY <1>1, OnwardType DEF Phases
<1> QED  BY <1>1, <1>2
         DEF Onward, Settled, SaidSo, CompleteMeansGone

LEMMA UnconfigureForcelistInvariant ==
  ASSUME Invariant, UnconfigureForcelist
  PROVE  Invariant'
<1> USE DEF Invariant
<1>1. pc = "forcelist" /\ pc' = "scan" /\ Onward /\ (ok' => "policy" \notin there')
  BY RemovingAll DEF UnconfigureForcelist, Goes, Onward
<1>2. TypeOK'
  BY <1>1, OnwardType DEF Phases
<1> QED  BY <1>1, <1>2
         DEF Onward, Settled, SaidSo, CompleteMeansGone

(* The product takes its service with it, and failing may have.            *)
LEMMA RemoveMsiInvariant ==
  ASSUME Invariant, RemoveMsi
  PROVE  Invariant'
<1> USE DEF Invariant
<1>1. /\ pc = "msi" /\ pc' = "delete" /\ next' = 1 /\ running' \subseteq running
      /\ UNCHANGED <<system, bin, leftovers, links, queued, failed, result, unseen>>
  BY DEF RemoveMsi, Goes
<1>2. /\ there' \subseteq there /\ ok' \in BOOLEAN /\ (ok' => ok)
      /\ failures' \in 0..MaxFailures /\ trouble' \in BOOLEAN
      /\ ok' => "product" \notin there'
  <2>1. CASE Products = {} /\ Failing(0) /\ UNCHANGED <<there, ok>>
    BY <2>1, Outcomes DEF Products, TypeOK
  <2>2. CASE there' = there \ {"product", "dig-node"} /\ Failing(0) /\ UNCHANGED ok
    BY <2>2, Outcomes DEF TypeOK
  <2>3. CASE there' \in {there, there \ {"dig-node"}} /\ Failing(1) /\ Says(FALSE)
    BY <2>3, Outcomes DEF Says
  <2> QED  BY <2>1, <2>2, <2>3 DEF RemoveMsi, RemoveProduct
<1>3. TypeOK'
  BY <1>1, <1>2, StemsAre DEF TypeOK, Phases, system, Roots
<1> QED  BY <1>1, <1>2, <1>3
         DEF Settled, SaidSo, CompleteMeansGone

---------------------------------------------------------------------------
(* The services: torn down, left standing, or believed to be gone.         *)
LEMMA StopNodeInvariant ==
  ASSUME Invariant, StopNode
  PROVE  Invariant'
<1> USE DEF Invariant
<1>1. /\ pc = "node" /\ pc' = "dns"
      /\ UNCHANGED <<system, bin, leftovers, links, queued, next, result>>
  BY DEF StopNode, Goes
<1>2. /\ there' \subseteq there /\ running' \subseteq running /\ ok' \in BOOLEAN /\ (ok' => ok)
      /\ unseen \subseteq unseen' /\ unseen' \subseteq unseen \cup {"dig-node"}
      /\ failed \subseteq failed' /\ failed' \subseteq failed \cup {"dig-node"}
      /\ ok' => failed' = failed
      /\ "dig-node" \in failed' \/ "dig-node" \notin there' \/ "dig-node" \in unseen'
      /\ \E n \in {0, 1} : Failing(n)
  BY DEF StopNode, Stopped, TornDown, LeftStanding, Believed, Says, TypeOK
<1>3. failures' \in 0..MaxFailures /\ trouble' \in BOOLEAN
  BY <1>2, Outcomes
<1>4. TypeOK'
  BY <1>1, <1>2, <1>3 DEF TypeOK, Phases, Artifacts, Services, system, Roots
<1> QED  BY <1>1, <1>2, <1>4 DEF Settled, SaidSo, CompleteMeansGone

LEMMA StopDnsInvariant ==
  ASSUME Invariant, StopDns
  PROVE  Invariant'
<1> USE DEF Invariant
<1>1. /\ pc = "dns" /\ pc' = "agent"
      /\ UNCHANGED <<system, bin, leftovers, links, queued, next, result>>
  BY DEF StopDns, Goes
<1> DEFINE quiet(t) == IF "resolver" \in t /\ bin["dig-dns"] # {} THEN 1 ELSE 0
<1>2. PICK t \in Unconfigured :
         \/ /\ there' = t \ {"dig-dns"} /\ Stopped("dig-dns") /\ TornDown("dig-dns")
            /\ Failing(quiet(t)) /\ UNCHANGED unseen
         \/ /\ "dig-dns" \notin there
            /\ there' = t /\ LeftStanding("dig-dns") /\ Failing(quiet(t))
            /\ UNCHANGED <<running, unseen>>
         \/ /\ there' \in {t, t \ {"dig-dns"}}
            /\ running' \in {running, running \ {"dig-dns"}}
            /\ LeftStanding("dig-dns") /\ Failing(1 + quiet(t)) /\ UNCHANGED unseen
         \/ /\ Believed("dig-dns")
            /\ there' = t /\ TornDown("dig-dns") /\ Failing(1 + quiet(t)) /\ UNCHANGED running
  BY DEF StopDns
<1>3. t \subseteq there /\ quiet(t) \in Nat
  BY <1>2 DEF Unconfigured
<1>4. /\ there' \subseteq there /\ running' \subseteq running /\ ok' \in BOOLEAN /\ (ok' => ok)
      /\ unseen \subseteq unseen' /\ unseen' \subseteq unseen \cup {"dig-dns"}
      /\ failed \subseteq failed' /\ failed' \subseteq failed \cup {"dig-dns"}
      /\ ok' => failed' = failed
      /\ "dig-dns" \in failed' \/ "dig-dns" \notin there' \/ "dig-dns" \in unseen'
  BY <1>2, <1>3 DEF Stopped, TornDown, LeftStanding, Believed, Says, TypeOK
<1>5. failures' \in 0..MaxFailures /\ trouble' \in BOOLEAN
  <2>1. \E n \in Nat : Failing(n)
    <3> HIDE DEF quiet
    <3> QED  BY <1>2, <1>3
  <2> QED  BY <2>1, Outcomes
<1>6. TypeOK'
  BY <1>1, <1>4, <1>5 DEF TypeOK, Phases, Artifacts, Services, system, Roots
<1> QED  BY <1>1, <1>4, <1>6 DEF Settled, SaidSo, CompleteMeansGone

---------------------------------------------------------------------------
(* The programs: those of the failed stay, of the others goes what can, and *)
(* the running installer's own copy is queued.                             *)
LEMMA Deleting ==
  ASSUME TypeOK, NEW s \in Stems, Delete(s)
  PROVE  /\ bin' \in [Stems -> SUBSET Roots] /\ queued \subseteq queued'
         /\ queued' \subseteq Roots
         /\ \A r \in Stems : bin'[r] \subseteq bin[r] /\ (r # s => bin'[r] = bin[r])
         /\ s \in failed => bin' = bin
         /\ ok' \in BOOLEAN /\ (ok' => ok)
         /\ ok' /\ s \notin failed => bin'[s] \subseteq queued'
         /\ failures' \in 0..MaxFailures /\ trouble' \in BOOLEAN
<1>1. CASE s \in failed
  BY <1>1, Outcomes DEF Delete, TypeOK
<1>2. CASE s \notin failed
  <2> DEFINE own == IF os = "windows" /\ s = "dig-installer" THEN bin[s] \cap {self} ELSE {}
  <2>1. PICK kept \in SUBSET bin[s] :
             /\ bin' = [bin EXCEPT ![s] = kept \cup own]
             /\ queued' = queued \cup (own \ kept)
             /\ IF Running(s) THEN trouble' = (trouble \/ kept # {}) /\ UNCHANGED failures
                              ELSE Failing(Cardinality(kept))
             /\ Says(kept = {})
    BY <1>2 DEF Delete
  <2>2. own \subseteq bin[s] /\ bin[s] \subseteq Roots
    BY DEF TypeOK
  <2>3. Cardinality(kept) \in Nat
    BY <2>1, <2>2, Counting
  <2>4. failures' \in 0..MaxFailures /\ trouble' \in BOOLEAN
    BY <2>1, <2>3, Outcomes DEF TypeOK
  <2>5. ok' \in BOOLEAN /\ (ok' => ok /\ kept = {})
    BY <2>1 DEF Says, TypeOK
  <2> HIDE DEF own
  <2> QED  BY <1>2, <2>1, <2>2, <2>4, <2>5 DEF TypeOK
<1> QED  BY <1>1, <1>2

LEMMA DeleteBinariesInvariant ==
  ASSUME Invariant, DeleteBinaries
  PROVE  Invariant'
<1> USE DEF Invariant
<1> DEFINE s == COMPONENT_STEMS[next]
<1>1. /\ pc = "delete" /\ Delete(s) /\ s \in Stems
      /\ UNCHANGED <<system, there, leftovers, links, running, failed, result, unseen>>
      /\ \/ next = 5 /\ pc' = "sweep" /\ UNCHANGED next
         \/ next # 5 /\ next' = next + 1 /\ UNCHANGED pc
  BY StemsAre DEF DeleteBinaries, TypeOK
<1>2. /\ bin' \in [Stems -> SUBSET Roots] /\ queued' \subseteq Roots
      /\ ok' \in BOOLEAN /\ (ok' => ok)
      /\ ok' /\ s \notin failed => bin'[s] \subseteq queued'
      /\ failures' \in 0..MaxFailures /\ trouble' \in BOOLEAN
  BY <1>1, Deleting
<1>3. pc' \in {"delete", "sweep"} /\ next' \in 1..5
      /\ (pc' = "sweep" => s = "dig-installer")
  BY <1>1, StemsAre DEF TypeOK
<1> HIDE DEF s
<1>4. TypeOK'
  BY <1>1, <1>2, <1>3, StemsAre DEF TypeOK, Phases, system, Roots
<1>5. pc' = "sweep" /\ ok' => bin'["dig-installer"] \subseteq queued'
  BY <1>2, <1>3 DEF TypeOK, Services
<1> QED  BY <1>1, <1>2, <1>3, <1>4, <1>5 DEF Settled, SaidSo, CompleteMeansGone

LEMMA SweepLeftoversInvariant ==
  ASSUME Invariant, SweepLeftovers
  PROVE  Invariant'
<1> USE DEF Invariant
<1>1. PICK keep \in SUBSET (leftovers \ failed), dangling \in SUBSET (links \ failed) :
       /\ leftovers' = keep \cup (leftovers \cap failed)
       /\ links' = dangling \cup (links \cap failed)
       /\ \E kept \in SUBSET ({"arp"} \cap there) :
            /\ there' = there \ ({"arp"} \ kept)
            /\ Failing(Cardinality(keep) + Cardinality(dangling) + Cardinality(kept))
            /\ Says(keep = {} /\ kept = {})
  BY DEF SweepLeftovers
<1>2. PICK kept \in SUBSET ({"arp"} \cap there) :
         /\ there' = there \ ({"arp"} \ kept)
         /\ Failing(Cardinality(keep) + Cardinality(dangling) + Cardinality(kept))
         /\ Says(keep = {} /\ kept = {})
  BY <1>1
<1>3. /\ Cardinality(keep) \in Nat /\ Cardinality(dangling) \in Nat
      /\ Cardinality(kept) \in Nat
  <2>1. keep \in SUBSET Stems /\ dangling \in SUBSET Stems /\ kept \in SUBSET Artifacts
    BY <1>1, <1>2 DEF TypeOK
  <2> QED  BY <2>1, Counting
<1>4. failures' \in 0..MaxFailures /\ trouble' \in BOOLEAN
  <2>1. Cardinality(keep) + Cardinality(dangling) + Cardinality(kept) \in Nat
    BY <1>3
  <2> QED  BY <1>2, <2>1, Outcomes
<1>5. /\ pc = "sweep" /\ pc' = "forcelist"
      /\ UNCHANGED <<system, bin, running, queued, next, failed, result, unseen>>
  BY DEF SweepLeftovers, Goes
<1>6. /\ there' \subseteq there /\ ok' \in BOOLEAN /\ (ok' => ok /\ "arp" \notin there')
      /\ leftovers' \subseteq Stems /\ links' \subseteq Stems
  BY <1>1, <1>2 DEF Says, TypeOK
<1>7. TypeOK'
  BY <1>4, <1>5, <1>6 DEF TypeOK, Phases, system, Roots
<1> QED  BY <1>5, <1>6, <1>7 DEF Settled, SaidSo, CompleteMeansGone

(* The verdict.                                                            *)
LEMMA ScanResidueInvariant ==
  ASSUME Invariant, ScanResidue
  PROVE  Invariant'
<1> USE DEF Invariant
<1>1. /\ pc = "scan" /\ pc' = "idle"
      /\ result' = IF ok /\ ~Residue THEN "complete" ELSE "incomplete"
      /\ UNCHANGED <<system, disk, running, queued, next, failed, ok, unseen, trouble, failures>>
  BY DEF ScanResidue, Goes
<1>2. TypeOK'
  BY <1>1 DEF TypeOK, Phases, system, disk, Roots
<1>3. ASSUME ok, ~Residue
      PROVE  CompleteMeansGone'
  <2>1. \A s \in Stems : s # "dig-installer" => bin[s] = {}
    BY <1>3 DEF Residue, TypeOK
  <2>2. leftovers = {} /\ links = {} /\ bin["dig-installer"] \subseteq queued
    BY <1>1, <1>3 DEF Residue, SaidSo
  <2>3. \A a \in there : a \in unseen \cup BestEffort
    <3>1. \A a \in Artifacts \ BestEffort : Gone(a)
      BY <1>1, <1>3 DEF Settled, SaidSo, Artifacts, Services, BestEffort
    <3> QED  BY <3>1 DEF TypeOK
  <2> QED  BY <1>1, <2>1, <2>2, <2>3 DEF CompleteMeansGone, disk
<1> QED  BY <1>1, <1>2, <1>3 DEF Settled, SaidSo, CompleteMeansGone, disk

LEMMA BeginInvariant ==
  ASSUME Invariant, Begin
  PROVE  Invariant'
<1> USE DEF Invariant
<1>1. /\ pc' = "node" /\ failed' = {} /\ ok' = TRUE /\ result' = "none" /\ unseen' = {}
      /\ trouble' = FALSE /\ UNCHANGED <<system, disk, running, queued, next, failures>>
  BY DEF Begin, Goes
<1>2. TypeOK'
  BY <1>1 DEF TypeOK, Phases, system, disk, Roots
<1> QED  BY <1>1, <1>2 DEF Settled, SaidSo, CompleteMeansGone

(* A restart carries out the deletions that are queued; a run that dies    *)
(* says nothing.                                                           *)
LEMMA EnvironmentInvariant ==
  ASSUME Invariant, Starts \/ Restart \/ Crash \/ UNCHANGED vars
  PROVE  Invariant'
<1> USE DEF Invariant
<1>1. CASE Starts
  <2>1. /\ running' \subseteq Stems
        /\ UNCHANGED <<system, disk, queued, pc, next, report, unseen, trouble, failures>>
    BY <1>1, StemsAre DEF Starts, TypeOK, Services
  <2>2. TypeOK'
    BY <2>1 DEF TypeOK, system, disk, report, Roots
  <2> QED  BY <2>1, <2>2 DEF disk, report, Settled, SaidSo, CompleteMeansGone
<1>2. CASE Restart
  <2>1. /\ pc = "idle" /\ bin' = [bin EXCEPT !["dig-installer"] = @ \ queued] /\ queued' = {}
        /\ running' \subseteq Stems
        /\ UNCHANGED <<system, there, leftovers, links, pc, next, report, unseen, trouble,
                       failures>>
    BY <1>2, StemsAre DEF Restart, Services
  <2>2. bin' \in [Stems -> SUBSET Roots]
        /\ \A s \in Stems : bin'[s] = IF s = "dig-installer" THEN bin[s] \ queued ELSE bin[s]
    BY <2>1 DEF TypeOK
  <2>3. TypeOK'
    BY <2>1, <2>2 DEF TypeOK, system, report, Roots
  <2>4. CompleteMeansGone'
    BY <2>1, <2>2 DEF report, CompleteMeansGone
  <2> QED  BY <2>1, <2>3, <2>4 DEF report, Settled, SaidSo
<1>3. CASE Crash
  <2>1. /\ pc' = "idle" /\ next' = 1 /\ result' = "none"
        /\ UNCHANGED <<system, disk, running, queued, failed, ok, unseen, trouble, failures>>
    BY <1>3 DEF Crash
  <2>2. TypeOK'
    BY <2>1, StemsAre DEF TypeOK, Phases, system, disk, Roots
  <2> QED  BY <2>1, <2>2 DEF Settled, SaidSo, CompleteMeansGone
<1>4. CASE UNCHANGED vars
  BY <1>4 DEF vars, system, disk, report, TypeOK, Roots, Settled, SaidSo, CompleteMeansGone
<1> QED  BY <1>1, <1>2, <1>3, <1>4

LEMMA StepInvariant ==
  ASSUME Invariant, [Next]_vars
  PROVE  Invariant'
BY BeginInvariant, EnvironmentInvariant, StopNodeInvariant, StopDnsInvariant,
   StopUserAgentInvariant, BestEffortInvariant, RemoveNetworkInvariant,
   RemoveTrustInvariant, RemoveLoginPathInvariant, RemoveMsiInvariant,
   DeleteBinariesInvariant, SweepLeftoversInvariant, UnconfigureForcelistInvariant,
   ScanResidueInvariant
   DEF Next, Step

LEMMA InvariantHolds == Spec => []Invariant
BY InitInvariant, StepInvariant, PTL DEF Spec

(* The variables keep their types.                                         *)
THEOREM TypeCorrect == Spec => []TypeOK
<1>1. Invariant => TypeOK
  BY DEF Invariant
<1> QED  BY <1>1, InvariantHolds, PTL

(* An uninstall that reports itself complete has left nothing but what it  *)
(* was told was gone, what is best effort, and its own program, which goes *)
(* with the next restart (UninstallReport::complete).                      *)
THEOREM CompleteIsGone == Spec => []CompleteMeansGone
<1>1. Invariant => CompleteMeansGone
  BY DEF Invariant
<1> QED  BY <1>1, InvariantHolds, PTL

(* No step of any run deletes the last program of a service that is still  *)
(* registered, unless the service manager had it gone (delete_binaries).   *)
THEOREM ServicesAreNotOrphaned == Spec => NeverOrphansService
<1> DEFINE Spared == \A s \in Services :
             bin[s] # {} /\ bin'[s] = {} => s \notin there' \/ s \in unseen'
<1>1. ASSUME Invariant, Next PROVE Spared
  <2>1. CASE DeleteBinaries
    <3>1. /\ pc = "delete" /\ Delete(COMPONENT_STEMS[next])
          /\ COMPONENT_STEMS[next] \in Stems /\ UNCHANGED <<there, unseen>>
      BY <1>1, <2>1, StemsAre DEF DeleteBinaries, Invariant, TypeOK
    <3>2. \A s \in Stems : bin'[s] = bin[s] \/ s \notin failed
      BY <1>1, <3>1, Deleting DEF Invariant
    <3>3. Services = {"dig-node", "dig-dns"} /\ Services \subseteq Stems
      BY StemsAre DEF Services
    <3> QED  BY <1>1, <3>1, <3>2, <3>3 DEF Invariant, Settled
  <2>2. CASE Restart
    <3>1. bin' = [bin EXCEPT !["dig-installer"] = @ \ queued]
      BY <2>2 DEF Restart
    <3>2. \A s \in Services : s \in Stems /\ s # "dig-installer"
      BY StemsAre DEF Services
    <3> QED  BY <1>1, <3>1, <3>2 DEF Invariant, TypeOK
  <2>3. CASE ~DeleteBinaries /\ ~Restart
    <3>1. UNCHANGED bin
      BY <1>1, <2>3
      DEF Next, Step, Begin, Starts, Crash, StopNode, StopDns, StopUserAgent, RemoveBeacon,
          UnregisterScheme, RemoveNetwork, RemoveTrust, RemoveLoginPath, RemoveMsi,
          SweepLeftovers, UnconfigureForcelist, ScanResidue, disk
    <3> QED  BY <3>1
  <2> QED  BY <2>1, <2>2, <2>3
<1>2. ASSUME Invariant, [Next]_vars PROVE [Spared]_vars
  BY <1>1, <1>2
<1> QED  BY <1>2, InvariantHolds, PTL DEF Spec, NeverOrphansService
---------------------------------------------------------------------------
(* A run without a failing call: nothing has gone wrong yet, or only that  *)
(* dig-dns was not registered; and what it is past is gone.                *)
NotRegistered == os # "windows" /\ failed = {"dig-dns"} /\ "dig-dns" \notin there
Fine == ok /\ failed = {}
Itself(s) == IF s = "dig-installer" THEN {self} ELSE {}

Clean ==
  ~trouble =>
    /\ pc # "idle" => Fine \/ (pc \in AfterDns /\ NotRegistered)
    /\ Fine /\ pc \in AfterMsi => "product" \notin there
    /\ Fine /\ pc = "delete" =>
         \A i \in 1..5 : i < next => bin[COMPONENT_STEMS[i]] \subseteq Itself(COMPONENT_STEMS[i])
    /\ Fine /\ pc \in AfterDelete => \A s \in Stems : bin[s] \subseteq Itself(s)
    /\ Fine /\ pc \in AfterSweep => leftovers = {} /\ links = {}
    /\ result = "incomplete" => NotRegistered

(* Where no call has failed, none of these has.                            *)
LEMMA NoFailure ==
  ASSUME TypeOK, NEW n \in Nat, Failing(n), ~trouble'
  PROVE  n = 0 /\ ~trouble
<1>1. ~(n > 0) /\ ~trouble
  BY Zenon DEF Failing
<1> QED  BY <1>1

LEMMA NothingKept ==
  ASSUME NEW S, IsFiniteSet(S), Cardinality(S) = 0
  PROVE  S = {}
BY FS_EmptySet

LEMMA CleanRemoval ==
  ASSUME TypeOK, NEW A, RemoveAll(A), ~trouble'
  PROVE  ~trouble /\ ok' = ok /\ there' \subseteq there
<1>1. PICK kept \in SUBSET (A \cap there) :
        there' = there \ (A \ kept) /\ Failing(Cardinality(kept)) /\ Says(kept = {})
  BY DEF RemoveAll
<1>2. kept \in SUBSET Artifacts /\ IsFiniteSet(kept) /\ Cardinality(kept) \in Nat
  BY <1>1, Counting, FS_Subset DEF TypeOK
<1>3. ~trouble /\ Cardinality(kept) = 0
  BY <1>1, <1>2, NoFailure
<1> QED  BY <1>1, <1>2, <1>3, NothingKept DEF Says, TypeOK

LEMMA CleanQuietRemoval ==
  ASSUME TypeOK, NEW A, RemoveQuietly(A), ~trouble'
  PROVE  ~trouble /\ ok' = ok /\ there' \subseteq there
<1>1. PICK kept \in SUBSET (A \cap there) :
        there' = there \ (A \ kept) /\ Failing(Cardinality(kept)) /\ UNCHANGED ok
  BY DEF RemoveQuietly
<1>2. kept \in SUBSET Artifacts /\ Cardinality(kept) \in Nat
  BY <1>1, Counting DEF TypeOK
<1> QED  BY <1>1, <1>2, NoFailure

(* A step of a clean run that leaves the programs alone.                   *)
LEMMA CleanOnward ==
  ASSUME Invariant, Clean, ~trouble, ok' = ok, there' \subseteq there,
         UNCHANGED <<system, bin, failed, result>>,
         pc' \in AfterDns, pc' # "delete",
         pc \in AfterDns \/ Fine, pc # "idle",
         pc' \in AfterMsi => pc \in AfterMsi,
         pc' \in AfterDelete => pc \in AfterDelete,
         pc' \in AfterSweep => pc \in AfterSweep /\ UNCHANGED <<leftovers, links>>
  PROVE  Clean'
BY DEF Clean, Fine, NotRegistered, Itself, system, Invariant

LEMMA CleanServices ==
  ASSUME Invariant, Clean, StopNode \/ StopDns
  PROVE  Clean'
<1> SUFFICES ASSUME ~trouble' PROVE Clean'
  BY DEF Clean
<1> USE DEF Invariant
<1>1. CASE StopNode
  <2>1. /\ pc = "node" /\ pc' = "dns" /\ \E n \in {0, 1} : Failing(n)
        /\ UNCHANGED <<system, failed, result, ok>>
        /\ ~trouble
    BY <1>1, NoFailure DEF StopNode, Goes, Stopped, TornDown, LeftStanding, Believed, Says, TypeOK
  <2> QED  BY <2>1 DEF Clean, Fine, NotRegistered, system
<1>2. CASE StopDns
  <2>1. /\ pc = "dns" /\ pc' = "agent"
        /\ UNCHANGED <<system, bin, leftovers, links, queued, next, result>>
    BY <1>2 DEF StopDns, Goes
  <2> DEFINE quiet(t) == IF "resolver" \in t /\ bin["dig-dns"] # {} THEN 1 ELSE 0
  <2>2. PICK t \in Unconfigured :
           \/ /\ there' = t \ {"dig-dns"} /\ TornDown("dig-dns") /\ Failing(quiet(t))
           \/ /\ os # "windows" /\ "dig-dns" \notin there
              /\ there' = t /\ LeftStanding("dig-dns") /\ Failing(quiet(t))
           \/ Failing(1 + quiet(t))
    BY <1>2 DEF StopDns
  <2>3. t \subseteq there /\ quiet(t) \in Nat
    BY <2>2 DEF Unconfigured
  <2>4. ~trouble /\ ~Failing(1 + quiet(t))
    <3> HIDE DEF quiet
    <3>1. 1 + quiet(t) \in Nat /\ 1 + quiet(t) # 0
      BY <2>3
    <3> QED  BY <2>2, <2>3, <3>1, NoFailure
  <2>5. \/ TornDown("dig-dns")
        \/ /\ os # "windows" /\ "dig-dns" \notin there' /\ LeftStanding("dig-dns")
    BY <2>2, <2>3, <2>4
  <2>6. Fine
    BY <2>1, <2>4 DEF Clean
  <2>7. Fine' \/ NotRegistered'
    BY <2>1, <2>5, <2>6 DEF TornDown, LeftStanding, Says, Fine, NotRegistered, system
  <2> QED  BY <2>1, <2>7 DEF Clean, Invariant
<1> QED  BY <1>1, <1>2

LEMMA CleanSettings ==
  ASSUME Invariant, Clean,
         \/ StopUserAgent \/ RemoveBeacon \/ UnregisterScheme \/ RemoveNetwork \/ RemoveTrust
         \/ RemoveLoginPath \/ UnconfigureForcelist
  PROVE  Clean'
<1> SUFFICES ASSUME ~trouble' PROVE Clean'
  BY DEF Clean
<1> USE DEF Invariant
<1>0. 0 \in Nat /\ 1 \in Nat
  OBVIOUS
<1>1. ~trouble /\ ok' = ok /\ there' \subseteq there
  <2>1. CASE StopUserAgent
    <3>1. PICK image \in StopImage, kept \in SUBSET LoginEntries :
            /\ there' = there \ (LoginEntries \ kept)
            /\ Says(image.says /\ kept = {})
            /\ Failing((IF image.dead THEN 0 ELSE 1) + Cardinality(kept))
      BY <2>1 DEF StopUserAgent
    <3>2. kept \in SUBSET Artifacts /\ IsFiniteSet(kept) /\ Cardinality(kept) \in Nat
      <4>1. kept \in SUBSET Artifacts
        BY DEF LoginEntries, TypeOK
      <4> QED  BY <4>1, Counting, FS_Subset
    <3>3. ~trouble /\ (IF image.dead THEN 0 ELSE 1) + Cardinality(kept) = 0
      <4>1. (IF image.dead THEN 0 ELSE 1) + Cardinality(kept) \in Nat
        BY <3>2
      <4> QED  BY <3>1, <4>1, NoFailure
    <3>4. image.dead /\ Cardinality(kept) = 0
      BY <3>2, <3>3
    <3>5. image.says
      BY <3>4 DEF StopImage
    <3> QED  BY <3>1, <3>2, <3>3, <3>4, <3>5, NothingKept DEF Says, TypeOK
  <2>2. CASE RemoveBeacon
    BY <1>0, <2>2, CleanQuietRemoval, NoFailure DEF RemoveBeacon
  <2>3. CASE UnregisterScheme
    BY <1>0, <2>3, CleanQuietRemoval, NoFailure DEF UnregisterScheme
  <2>4. CASE RemoveNetwork
    <3>1. PICK kept \in SUBSET ({"hosts", "rule"} \cap there) :
           /\ there' = there \ ({"hosts", "rule"} \ kept)
           /\ Failing(Cardinality(kept)) /\ Says("hosts" \notin kept)
      BY <2>4 DEF RemoveNetwork
    <3>2. kept \in SUBSET Artifacts /\ IsFiniteSet(kept) /\ Cardinality(kept) \in Nat
      BY <3>1, Counting, FS_Subset DEF TypeOK
    <3>3. ~trouble /\ Cardinality(kept) = 0
      BY <3>1, <3>2, NoFailure
    <3> QED  BY <3>1, <3>2, <3>3, NothingKept DEF Says, TypeOK
  <2>5. CASE RemoveTrust
    <3>1. ~Failing(1)
      BY <1>0, NoFailure
    <3> QED  BY <2>5, <3>1, CleanRemoval DEF RemoveTrust
  <2>6. CASE RemoveLoginPath
    BY <2>6, CleanRemoval DEF RemoveLoginPath
  <2>7. CASE UnconfigureForcelist
    BY <2>7, CleanRemoval DEF UnconfigureForcelist
  <2> QED  BY <2>1, <2>2, <2>3, <2>4, <2>5, <2>6, <2>7
<1>2. /\ UNCHANGED <<system, bin, failed, result, leftovers, links>>
      /\ \/ pc = "agent" /\ pc' = "beacon"
         \/ pc = "beacon" /\ pc' = "scheme"
         \/ pc = "scheme" /\ pc' = "network"
         \/ pc = "network" /\ pc' = "trust"
         \/ pc = "trust" /\ pc' = "path"
         \/ pc = "path" /\ pc' = "msi"
         \/ pc = "forcelist" /\ pc' = "scan"
  BY DEF StopUserAgent, RemoveBeacon, UnregisterScheme, RemoveNetwork, RemoveTrust,
         RemoveLoginPath, UnconfigureForcelist, Goes
<1> QED  BY <1>1, <1>2, CleanOnward

LEMMA CleanMsi ==
  ASSUME Invariant, Clean, RemoveMsi
  PROVE  Clean'
<1> SUFFICES ASSUME ~trouble' PROVE Clean'
  BY DEF Clean
<1> USE DEF Invariant
<1>1. /\ pc = "msi" /\ pc' = "delete" /\ next' = 1
      /\ UNCHANGED <<system, bin, leftovers, links, failed, result>>
  BY DEF RemoveMsi, Goes
<1>2. 0 \in Nat /\ 1 \in Nat /\ 1 # 0
  OBVIOUS
<1>3. ~Failing(1) /\ (Failing(0) => ~trouble)
  BY <1>2, NoFailure
<1>4. ~trouble /\ ok' = ok /\ there' \subseteq there /\ "product" \notin there'
  BY <1>3 DEF RemoveMsi, RemoveProduct, Products
<1> QED  BY <1>1, <1>4 DEF Clean, Fine, NotRegistered, system

LEMMA CleanDeleting ==
  ASSUME TypeOK, NEW s \in Stems, Delete(s), ~trouble'
  PROVE  ~trouble /\ ok' = ok /\ (failed = {} => bin'[s] \subseteq Itself(s))
<1>1. CASE s \in failed
  <2>1. Failing(0) /\ ok' = ok /\ 0 \in Nat
    BY <1>1 DEF Delete
  <2> QED  BY <1>1, <2>1, NoFailure
<1>2. CASE s \notin failed
  <2> DEFINE own == IF os = "windows" /\ s = "dig-installer" THEN bin[s] \cap {self} ELSE {}
  <2>1. PICK kept \in SUBSET bin[s] :
             /\ bin' = [bin EXCEPT ![s] = kept \cup own]
             /\ IF Running(s) THEN trouble' = (trouble \/ kept # {}) /\ UNCHANGED failures
                              ELSE Failing(Cardinality(kept))
             /\ Says(kept = {})
    BY <1>2 DEF Delete
  <2>2. own \subseteq Itself(s)
    BY DEF Itself
  <2>3. IsFiniteSet(kept) /\ Cardinality(kept) \in Nat
    <3>1. kept \in SUBSET Roots
      BY <2>1 DEF TypeOK
    <3> QED  BY <3>1, Counting, FS_Subset
  <2>4. ~trouble /\ kept = {}
    <3>1. CASE Running(s)
      <4>1. trouble' = (trouble \/ kept # {})
        BY <2>1, <3>1
      <4> QED  BY ONLY <4>1, ~trouble', Zenon
    <3>2. CASE ~Running(s)
      <4>1. Failing(Cardinality(kept))
        BY <2>1, <3>2
      <4>2. Cardinality(kept) = 0 /\ ~trouble
        BY <2>3, <4>1, NoFailure
      <4> QED  BY <2>3, <4>2, NothingKept
    <3> QED  BY <3>1, <3>2
  <2> HIDE DEF own
  <2> QED  BY <2>1, <2>2, <2>4 DEF Says, TypeOK
<1> QED  BY <1>1, <1>2

LEMMA CleanDelete ==
  ASSUME Invariant, Clean, DeleteBinaries
  PROVE  Clean'
<1> SUFFICES ASSUME ~trouble' PROVE Clean'
  BY DEF Clean
<1> USE DEF Invariant
<1> DEFINE s == COMPONENT_STEMS[next]
<1>1. /\ pc = "delete" /\ Delete(s) /\ s \in Stems /\ next \in 1..5
      /\ UNCHANGED <<system, there, leftovers, links, failed, result>>
      /\ \/ next = 5 /\ pc' = "sweep" /\ UNCHANGED next
         \/ next # 5 /\ next' = next + 1 /\ UNCHANGED pc
  BY StemsAre DEF DeleteBinaries, TypeOK
<1>2. /\ bin \in [Stems -> SUBSET Roots]
      /\ bin' \in [Stems -> SUBSET Roots]
      /\ \A r \in Stems : bin'[r] \subseteq bin[r]
  BY <1>1, Deleting DEF TypeOK
<1>3. ~trouble /\ ok' = ok /\ (failed = {} => bin'[s] \subseteq Itself(s))
  BY <1>1, CleanDeleting
<1> HIDE DEF s
<1>4. Fine' /\ pc' = "delete" =>
        \A i \in 1..5 : i < next' =>
           bin'[COMPONENT_STEMS[i]] \subseteq Itself(COMPONENT_STEMS[i])
  <2> SUFFICES ASSUME Fine, pc' = "delete", NEW i \in 1..5, i < next'
               PROVE  bin'[COMPONENT_STEMS[i]] \subseteq Itself(COMPONENT_STEMS[i])
    BY <1>1, <1>3 DEF Fine
  <2>1. next' = next + 1
    BY <1>1
  <2>2. CASE i = next
    BY <1>3, <2>2 DEF Fine, s
  <2>3. CASE i < next
    BY <1>1, <1>2, <1>3, <2>3, StemsAre DEF Clean
  <2> QED  BY <1>1, <2>1, <2>2, <2>3
<1>5. Fine' /\ pc' = "sweep" => \A r \in Stems : bin'[r] \subseteq Itself(r)
  <2> SUFFICES ASSUME Fine, pc' = "sweep"
               PROVE  \A r \in Stems : bin'[r] \subseteq Itself(r)
    BY <1>1, <1>3 DEF Fine
  <2>1. next = 5
    BY <1>1
  <2>2. \A i \in 1..5 : bin'[COMPONENT_STEMS[i]] \subseteq Itself(COMPONENT_STEMS[i])
    <3> TAKE i \in 1..5
    <3>1. CASE i = 5
      BY <1>3, <2>1, <3>1 DEF Fine, s
    <3>2. CASE i # 5
      BY <1>1, <1>2, <1>3, <2>1, <3>2, StemsAre DEF Clean
    <3> QED  BY <3>1, <3>2
  <2>3. \A r \in Stems : \E i \in 1..5 : r = COMPONENT_STEMS[i]
    BY StemsAre DEF Stems
  <2> QED  BY <2>2, <2>3
<1>6. Itself(COMPONENT_STEMS[1])' = Itself(COMPONENT_STEMS[1]) /\ self' = self /\ os' = os
  BY <1>1 DEF system, Itself
<1>7. CASE pc' = "delete"
  BY <1>1, <1>3, <1>4, <1>6, <1>7 DEF Clean, Fine, NotRegistered, Itself
<1>8. CASE pc' = "sweep"
  BY <1>1, <1>3, <1>5, <1>6, <1>8 DEF Clean, Fine, NotRegistered, Itself
<1> QED  BY <1>1, <1>7, <1>8

LEMMA CleanSweep ==
  ASSUME Invariant, Clean, SweepLeftovers
  PROVE  Clean'
<1> SUFFICES ASSUME ~trouble' PROVE Clean'
  BY DEF Clean
<1> USE DEF Invariant
<1>1. /\ pc = "sweep" /\ pc' = "forcelist"
      /\ UNCHANGED <<system, bin, running, queued, next, failed, result, unseen>>
  BY DEF SweepLeftovers, Goes
<1>2. PICK keep \in SUBSET (leftovers \ failed), dangling \in SUBSET (links \ failed),
           kept \in SUBSET ({"arp"} \cap there) :
       /\ leftovers' = keep \cup (leftovers \cap failed)
       /\ links' = dangling \cup (links \cap failed)
       /\ there' = there \ ({"arp"} \ kept)
       /\ Failing(Cardinality(keep) + Cardinality(dangling) + Cardinality(kept))
       /\ Says(keep = {} /\ kept = {})
  BY DEF SweepLeftovers
<1>3. /\ IsFiniteSet(keep) /\ Cardinality(keep) \in Nat
      /\ IsFiniteSet(dangling) /\ Cardinality(dangling) \in Nat
      /\ IsFiniteSet(kept) /\ Cardinality(kept) \in Nat
  <2>1. keep \in SUBSET Stems /\ dangling \in SUBSET Stems /\ kept \in SUBSET Artifacts
    BY <1>2 DEF TypeOK
  <2> QED  BY <2>1, Counting, FS_Subset
<1>4. ~trouble /\ Cardinality(keep) + Cardinality(dangling) + Cardinality(kept) = 0
  <2>1. Cardinality(keep) + Cardinality(dangling) + Cardinality(kept) \in Nat
    BY <1>3
  <2> QED  BY <1>2, <2>1, NoFailure
<1>5. keep = {} /\ dangling = {} /\ kept = {}
  <2>1. Cardinality(keep) = 0 /\ Cardinality(dangling) = 0 /\ Cardinality(kept) = 0
    BY <1>3, <1>4
  <2> QED  BY <1>3, <2>1, NothingKept
<1>6. ok' = ok /\ there' \subseteq there
  BY <1>2, <1>5 DEF Says, TypeOK
<1> QED  BY <1>1, <1>2, <1>4, <1>5, <1>6 DEF Clean, Fine, NotRegistered, Itself, system

LEMMA CleanScan ==
  ASSUME Invariant, Clean, ScanResidue
  PROVE  Clean'
<1> SUFFICES ASSUME ~trouble' PROVE Clean'
  BY DEF Clean
<1>1. /\ pc = "scan" /\ pc' = "idle" /\ ~trouble
      /\ result' = IF ok /\ ~Residue THEN "complete" ELSE "incomplete"
      /\ UNCHANGED <<system, there, failed, ok>>
  BY DEF ScanResidue, Goes, disk
<1>2. Fine => ~Residue
  BY <1>1 DEF Clean, Residue, Itself
<1> QED  BY <1>1, <1>2 DEF Clean, Fine, NotRegistered, system

LEMMA CleanEnvironment ==
  ASSUME Invariant, Clean, Begin \/ Starts \/ Restart \/ Crash \/ UNCHANGED vars
  PROVE  Clean'
<1>1. CASE Begin
  BY <1>1 DEF Begin, Goes, Clean, Fine
<1>2. CASE Starts
  BY <1>2 DEF Starts, Clean, Fine, NotRegistered, Itself, system, disk, report
<1>3. CASE Restart
  BY <1>3 DEF Restart, Clean, Fine, NotRegistered, system, report
<1>4. CASE Crash
  BY <1>4 DEF Crash, Clean, Fine
<1>5. CASE UNCHANGED vars
  BY <1>5 DEF vars, Clean, Fine, NotRegistered, Itself, system, disk, report
<1> QED  BY <1>1, <1>2, <1>3, <1>4, <1>5

(* A run in which no call fails is complete, whatever came before it, but  *)
(* off Windows where dig-dns is not registered (UninstallActions).         *)
THEOREM CleanIsComplete == Spec => []CleanRunCompletes
<1>1. Init => Clean
  BY DEF Init, Clean
<1>2. ASSUME Invariant, Clean, [Next]_vars
      PROVE  Clean'
  BY <1>2, CleanServices, CleanSettings, CleanMsi, CleanDelete, CleanSweep, CleanScan,
     CleanEnvironment DEF Next, Step
<1>3. Clean => CleanRunCompletes
  BY DEF Clean, NotRegistered, CleanRunCompletes
<1> QED  BY <1>1, <1>2, <1>3, InvariantHolds, PTL DEF Spec
=============================================================================
