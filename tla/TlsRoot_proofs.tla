----------------------------- MODULE TlsRoot_proofs -----------------------------
(***************************************************************************)
(* What the model of the TLS root promises for every number of mints, and  *)
(* whatever dig_cert says of a key and a certificate that do not belong    *)
(* together.                                                               *)
(***************************************************************************)
EXTENDS TlsRoot, TLAPS

(* An authority that is trusted and not adrift is the one of the root, and *)
(* the root is one that no run mints anew.                                 *)
AnchorsKept ==
  /\ \A a \in Live \ adrift : should_skip_mint /\ file["ca.crt"] = a
  /\ pc \in Material => Live \subseteq adrift

(* While a run mints, the files before the one in hand are the new         *)
(* authority's, and there was no usable root to begin with.                *)
Minting ==
  /\ pc \in Material => fresh \in Authorities /\ found \notin Authorities
  /\ pc = "ca.crt" => file["ca.key"] = fresh
  /\ pc = "leaf.key" => file["ca.key"] = fresh /\ file["ca.crt"] = fresh
  /\ pc = "leaf.crt" => \A n \in Material \ {"leaf.crt"} : file[n] = fresh
  /\ minting => found \notin Authorities
  /\ pc \in {"idle", "harden", "check"} => ~minting

(* While it installs the anchor, the root is complete, and is the one the  *)
(* run found if that was usable.                                           *)
Trusting ==
  /\ pc \in {"trust", "rebuild", "ledger"} =>
       /\ should_skip_mint
       /\ found \in Authorities => Of(found)
       /\ Usable \/ found = Torn
  /\ pc = "rebuild" => system = "linux"
  /\ pc \in {"rebuild", "ledger"} /\ system = "linux" => anchor = file["ca.crt"]
  /\ pc = "ledger" => file["ca.crt"] \in store

(* What a run takes for what it found is what it found, except a root of a *)
(* stranger that it has removed.                                           *)
FoundTrue ==
  /\ pc = "harden" => found = Found
  /\ pc = "check" =>
       found = Found \/ (found \notin Authorities /\ \A n \in Names : file[n] = Absent)
  /\ squatted => /\ pc \in {"idle", "harden", "revert", "remove"}
                 /\ \A n \in Names : file[n] \notin Authorities

(* There is a result only between runs.                                    *)
ResultTrue ==
  /\ pc # "idle" => result = Failed
  /\ result.trusted /\ system = "linux" => anchor = file["ca.crt"]

(* The properties of the runs.                                            *)
Promises ==
  /\ WorkingAuthorityKept /\ CreatedIsUsable /\ AnchorsAccounted
  /\ TrustedMeansRecorded /\ UninstallForgets

Invariant ==
  /\ AnchorsKept /\ Minting /\ Trusting /\ FoundTrue /\ ResultTrue /\ Promises

(* Types.                                                                  *)
LEMMA ContentTypes ==
  /\ Absent \in Content /\ Torn \in Content /\ Authorities \subseteq Content
  /\ Absent \notin Authorities /\ Torn \notin Authorities /\ Torn # Absent
  BY MintAssumption DEF Content, Authorities, Absent, Torn

Results == [created : BOOLEAN, minted : BOOLEAN, trusted : BOOLEAN, removed : BOOLEAN]

LEMMA ResultTypes ==
  /\ \A m \in BOOLEAN : /\ Result(TRUE, m, FALSE, FALSE) \in Results
                        /\ Result(TRUE, m, TRUE, FALSE) \in Results
  /\ Result(FALSE, FALSE, FALSE, TRUE) \in Results /\ Failed \in Results
  BY DEF Result, Failed, Results

LEMMA TypeInit == Init => TypeOK
  <1> SUFFICES ASSUME Init PROVE TypeOK
    OBVIOUS
  <1>1. system \in {"windows", "macos", "linux"} /\ squatted \in BOOLEAN
    BY DEF Init
  <1>2. file \in [Names -> Content] /\ anchor \in Content /\ found \in Content
    BY ContentTypes DEF Init
  <1>3. fresh \in 0..MaxMints /\ pc \in Phases
    BY MintAssumption DEF Init, Phases
  <1> QED
    BY <1>1, <1>2, <1>3, ResultTypes DEF Init, TypeOK, Results

LEMMA TypeStep == ASSUME TypeOK, [Next]_vars PROVE TypeOK'
  <1> USE ContentTypes DEF TypeOK, Go, End, Fail, Results
  <1>1. \A S : Removed(S) \in [Names -> Content]
    BY DEF Removed
  <1>2. /\ Recorded \subseteq Authorities /\ Live \subseteq Authorities
        /\ Bundle \subseteq Authorities
    BY DEF Recorded, Live, Bundle
  <1>3. CASE BeginProvision
    <2>1. Found \in Content
      BY DEF Found, Names, Material
    <2> QED
      BY <1>3, <2>1, ResultTypes DEF BeginProvision, Phases
  <1>4. CASE Harden
    <2>1. file' \in [Names -> Content] /\ adrift' \subseteq Authorities
      <3>1. adrift' \in {adrift, adrift \cup Recorded}
        BY <1>4 DEF Harden
      <3>2. file' = file \/ \E S : file' = Removed(S)
        BY <1>4 DEF Harden
      <3> QED
        BY <1>1, <1>2, <3>1, <3>2
    <2>2. squatted' \in BOOLEAN
      BY <1>4 DEF Harden
    <2> QED
      BY <1>4, <2>1, <2>2, ResultTypes DEF Harden, Phases
  <1>n. NotTrusted => pc' \in Phases /\ result' \in Results /\ minting' \in BOOLEAN
    BY ResultTypes DEF NotTrusted, Phases
  <1>5. CASE EnsureCaAndLeaf
    <2>1. fresh' \in 0..MaxMints
      BY <1>5, MintAssumption DEF EnsureCaAndLeaf
    <2> QED
      BY <1>5, <2>1, ResultTypes DEF EnsureCaAndLeaf, Phases, Material
  <1>6. CASE WriteMaterial
    <2>1. fresh \in Content
      BY MintAssumption DEF Authorities, Content, Absent
    <2>2. file' \in [Names -> Content]
      BY <1>6, <2>1 DEF WriteMaterial, Material, Names
    <2>3. pc' \in Phases
      BY <1>6 DEF WriteMaterial, After, Phases, Material
    <2> QED
      BY <1>6, <2>2, <2>3, ResultTypes DEF WriteMaterial
  <1>7. CASE InstallTrustAnchor
    <2>1. store' \subseteq Authorities /\ anchor' \in Content
      BY <1>7 DEF InstallTrustAnchor
    <2> QED
      BY <1>7, <1>n, <2>1 DEF InstallTrustAnchor, Phases
  <1>8. CASE Rebuild
    BY <1>2, <1>8, <1>n DEF Rebuild, Lose, Phases
  <1>9. CASE RecordAnchor
    <2>1. file' \in [Names -> Content] /\ adrift' \subseteq Authorities
      <3>1. file["ca.crt"] \in Content
        BY DEF Names, Material
      <3>2. \E c \in Content : file' = [file EXCEPT !["trust.json"] = c]
        BY <1>9, <3>1 DEF RecordAnchor, Names
      <3>3. adrift' = adrift \/ adrift' = adrift \cup ({file["ca.crt"]} \cap Authorities)
        BY <1>9 DEF RecordAnchor, Lose
      <3> QED
        BY <3>2, <3>3
    <2>2. pc' \in Phases /\ result' \in Results /\ minting' \in BOOLEAN
      BY <1>9, <1>n, ResultTypes DEF RecordAnchor, Phases
    <2> QED
      BY <1>9, <2>1, <2>2 DEF RecordAnchor
  <1>10. CASE BeginUninstall
    BY <1>10, ResultTypes DEF BeginUninstall, Phases
  <1>11. CASE RevertTrustEntries
    BY <1>2, <1>11 DEF RevertTrustEntries, Live, Phases
  <1>12. CASE RemoveRoot
    <2>1. \E S : file' = Removed(S)
      BY <1>12 DEF RemoveRoot
    <2>2. squatted' \in BOOLEAN /\ pc' \in Phases /\ result' \in Results /\ minting' \in BOOLEAN
      BY <1>12, ResultTypes DEF RemoveRoot, Phases
    <2> QED
      BY <1>1, <1>12, <2>1, <2>2 DEF RemoveRoot
  <1>13. CASE Crash
    <2>1. file' \in [Names -> Content] /\ anchor' \in Content /\ adrift' \subseteq Authorities
      BY <1>13 DEF Crash, Lose
    <2> QED
      BY <1>13, <2>1, ResultTypes DEF Crash, Phases
  <1>14. CASE RebuildByOthers
    BY <1>2, <1>14 DEF RebuildByOthers
  <1>15. CASE UNCHANGED vars
    BY <1>15 DEF vars
  <1> QED
    BY <1>3, <1>4, <1>5, <1>6, <1>7, <1>8, <1>9, <1>10, <1>11, <1>12, <1>13, <1>14, <1>15
       DEF Next

(* Every variable keeps its type.                                          *)
THEOREM TypeCorrect == Spec => []TypeOK
  BY TypeInit, TypeStep, PTL DEF Spec

---------------------------------------------------------------------------
(* The invariant holds on a host without a root, or with a stranger's.     *)
LEMMA InvariantInit == Init => Invariant
  <1> SUFFICES ASSUME Init PROVE Invariant
    OBVIOUS
  <1>1. Live = {} /\ pc = "idle" /\ ~minting
    BY ContentTypes DEF Init, Live
  <1>2. ~result.created /\ ~result.trusted /\ ~result.removed
    BY DEF Init, Failed, Result
  <1>3. \A n \in Names : file[n] \notin Authorities
    BY ContentTypes DEF Init
  <1> QED
    BY <1>1, <1>2, <1>3 DEF Invariant, AnchorsKept, Minting, Trusting, FoundTrue, ResultTrue,
         Promises, WorkingAuthorityKept, CreatedIsUsable, AnchorsAccounted,
         TrustedMeansRecorded, UninstallForgets, Material

(* A step that ends a run or an uninstall with a failure has only the      *)
(* anchors to answer for.                                                  *)
LEMMA FailKeeps ==
  ASSUME Fail, AnchorsKept', (Live \subseteq Recorded \cup adrift)',
         squatted' => \A n \in Names : file'[n] \notin Authorities
  PROVE  Invariant'
  <1>1. pc' = "idle" /\ ~minting' /\ result' = Failed
    BY DEF Fail, End
  <1>2. ~Failed.created /\ ~Failed.trusted /\ ~Failed.removed
    BY DEF Failed, Result
  <1>3. Minting' /\ Trusting' /\ FoundTrue' /\ ResultTrue'
    BY <1>1, <1>2 DEF Minting, Trusting, FoundTrue, ResultTrue, Material
  <1>4. Promises'
    BY <1>1, <1>2 DEF Promises, WorkingAuthorityKept, CreatedIsUsable, AnchorsAccounted,
         TrustedMeansRecorded, UninstallForgets
  <1> QED
    BY <1>3, <1>4 DEF Invariant

(* A run that goes on has nothing to promise but the anchors.              *)
LEMMA GoKeeps ==
  ASSUME result' = Failed, pc' # "idle", AnchorsKept', Minting', Trusting', FoundTrue',
         AnchorsAccounted'
  PROVE  Invariant'
  <1>1. ~Failed.created /\ ~Failed.trusted /\ ~Failed.removed
    BY DEF Failed, Result
  <1>2. ResultTrue' /\ Promises'
    BY <1>1 DEF ResultTrue, Promises, WorkingAuthorityKept, CreatedIsUsable,
         TrustedMeansRecorded, UninstallForgets
  <1> QED
    BY <1>2 DEF Invariant

(* What hangs on the files alone does not change with the rest.            *)
LEMMA FilesSame ==
  ASSUME UNCHANGED file
  PROVE  /\ should_skip_mint' = should_skip_mint /\ Usable' = Usable
         /\ Recorded' = Recorded /\ Found' = Found
         /\ \A a : Of(a)' = Of(a)
  BY DEF should_skip_mint, Usable, Of, Recorded, Found

LEMMA MaterialSame ==
  ASSUME \A n \in Material : file'[n] = file[n]
  PROVE  /\ should_skip_mint' = should_skip_mint /\ Usable' = Usable
         /\ \A a : Of(a)' = Of(a)
         /\ file'["ca.crt"] = file["ca.crt"]
  BY DEF should_skip_mint, Usable, Of, Material

(* Each action keeps the invariant.                                        *)
LEMMA HardenKeeps == ASSUME TypeOK, Invariant, Harden PROVE Invariant'
  <1> USE DEF Invariant
  <1>1. /\ pc = "harden" /\ found' = found /\ found = Found /\ result = Failed /\ ~minting
        /\ Live' = Live
    BY DEF Harden, FoundTrue, ResultTrue, Minting, Live
  <1>2. squatted => Live \subseteq adrift /\ found \notin Authorities
    <2> HAVE squatted
    <2>1. \A n \in Names : file[n] \notin Authorities
      BY DEF FoundTrue
    <2>2. Live \subseteq Authorities
      BY DEF Live, TypeOK
    <2> QED
      BY <1>1, <2>1, <2>2, ContentTypes DEF AnchorsKept, Found, Usable, Of, Names, Material
  <1>3. Live \subseteq Recorded \cup adrift
    BY <1>1 DEF Promises, AnchorsAccounted
  <1>4. CASE Fail
    <2>1. PICK S : file' = Removed(S)
      BY <1>1, <1>4 DEF Harden, Fail, End, Go
    <2>2. CASE file' = file
      <3>1. squatted' \in {FALSE, squatted} /\ adrift' = adrift
        BY <1>4, <1>1, <2>2 DEF Harden, Fail, End, Go
      <3>2. AnchorsKept' /\ (Live \subseteq Recorded \cup adrift)'
        BY <1>1, <1>3, <1>4, <2>2, <3>1, FilesSame DEF AnchorsKept, Fail, End, Material
      <3>3. squatted' => \A n \in Names : file'[n] \notin Authorities
        BY <2>2, <3>1 DEF FoundTrue
      <3> QED
        BY <1>4, <3>2, <3>3, FailKeeps
    <2>3. CASE file' # file
      <3>1. squatted' \in {FALSE, squatted} /\ adrift' = adrift \cup Recorded
        BY <1>4, <1>1, <2>3 DEF Harden, Fail, End, Go
      <3>2. Live' \subseteq adrift'
        BY <1>1, <1>3, <3>1
      <3>3. AnchorsKept'
        BY <3>2 DEF AnchorsKept
      <3>4. \A n \in Names : file'[n] \in {Absent, file[n]}
        BY <2>1 DEF Removed
      <3>5. squatted' => \A n \in Names : file'[n] \notin Authorities
        BY <3>1, <3>4, ContentTypes DEF FoundTrue
      <3>6. (Live \subseteq Recorded \cup adrift)'
        BY <3>2
      <3> QED
        BY <1>4, <3>3, <3>5, <3>6, FailKeeps
    <2> QED
      BY <2>2, <2>3
  <1>5. CASE Go("check")
    <2>1. pc' = "check" /\ result' = Failed /\ ~minting' /\ ~squatted' /\ adrift' = adrift
      BY <1>1, <1>5 DEF Harden, Go, Fail, End
    <2>2. Minting' /\ Trusting'
      BY <2>1 DEF Minting, Trusting, Material
    <2>3. CASE squatted
      <3>1. \A n \in Names : file'[n] = Absent
        BY <1>1, <1>5, <2>3 DEF Harden, Removed, Go, Fail, End
      <3>2. AnchorsKept' /\ FoundTrue' /\ AnchorsAccounted'
        BY <1>1, <1>2, <2>1, <2>3, <3>1 DEF AnchorsKept, FoundTrue, AnchorsAccounted
      <3> QED
        BY <2>1, <2>2, <3>2, GoKeeps
    <2>4. CASE ~squatted
      <3>1. file' = file
        BY <1>1, <1>5, <2>4 DEF Harden, Go, Fail, End
      <3>2. AnchorsKept' /\ FoundTrue' /\ AnchorsAccounted'
        BY <1>1, <1>3, <2>1, <3>1, FilesSame
           DEF AnchorsKept, FoundTrue, AnchorsAccounted, Material
      <3> QED
        BY <2>1, <2>2, <3>2, GoKeeps
    <2> QED
      BY <2>3, <2>4
  <1> QED
    BY <1>4, <1>5 DEF Harden

LEMMA EnsureKeeps == ASSUME TypeOK, Invariant, EnsureCaAndLeaf PROVE Invariant'
  <1> USE DEF Invariant
  <1>1. /\ pc = "check" /\ result = Failed /\ ~minting
        /\ UNCHANGED <<squatted, file, found, adrift, system, anchor, store>> /\ Live' = Live
    BY DEF EnsureCaAndLeaf, ResultTrue, Minting, Live
  <1>2. Live \subseteq Recorded \cup adrift
    BY <1>1 DEF Promises, AnchorsAccounted
  <1>3. ~should_skip_mint => Live \subseteq adrift
    BY DEF AnchorsKept
  <1>4. Of(found) /\ found \in Authorities => should_skip_mint
    BY ContentTypes DEF Of, should_skip_mint, Parses, Material
  <1>5. CASE Fail
    <2>1. AnchorsKept'
      BY <1>1, <1>5, FilesSame DEF AnchorsKept, Fail, End, Material
    <2> QED
      BY <1>1, <1>2, <1>5, <2>1, FilesSame, FailKeeps DEF FoundTrue
  <1>6. CASE should_skip_mint /\ Go("trust")
    <2>1. pc' = "trust" /\ result' = Failed /\ minting' = minting
      BY <1>1, <1>6 DEF Go
    <2>2. found = Found
      BY <1>1, <1>6 DEF FoundTrue, should_skip_mint, Material, Names
    <2>3. /\ found \in Authorities => Of(found)
          /\ Usable \/ found = Torn
      BY <1>6, <2>2, ContentTypes DEF Found, Usable, Of, should_skip_mint, Material
    <2>4. Minting' /\ Trusting'
      BY <1>1, <1>6, <2>1, <2>3, FilesSame DEF Minting, Trusting, Material
    <2>5. AnchorsKept' /\ FoundTrue' /\ AnchorsAccounted'
      BY <1>1, <1>2, <2>1, FilesSame DEF AnchorsKept, FoundTrue, AnchorsAccounted, Material
    <2> QED
      BY <2>1, <2>4, <2>5, GoKeeps
  <1>7. CASE ~should_skip_mint /\ pc' = "ca.key"
    <2>1. /\ result' = Failed /\ fresh' = fresh + 1 /\ fresh < MaxMints
      BY <1>1, <1>7 DEF EnsureCaAndLeaf, Go, Fail, End
    <2>2. fresh' \in Authorities
      BY <2>1, MintAssumption DEF TypeOK, Authorities
    <2>3. found \notin Authorities
      <3>1. found = Found => (found \in Authorities => Of(found))
        BY ContentTypes DEF Found, Usable, Of, Material
      <3> QED
        BY <1>1, <1>4, <1>7, <3>1 DEF FoundTrue
    <2>4. Minting' /\ Trusting'
      BY <1>1, <1>7, <2>2, <2>3 DEF Minting, Trusting
    <2>5. AnchorsKept' /\ FoundTrue' /\ AnchorsAccounted'
      BY <1>1, <1>2, <1>3, <1>7, FilesSame DEF AnchorsKept, FoundTrue, AnchorsAccounted
    <2> QED
      BY <1>7, <2>1, <2>4, <2>5, GoKeeps
  <1> QED
    BY <1>5, <1>6, <1>7 DEF EnsureCaAndLeaf

LEMMA WriteKeeps == ASSUME TypeOK, Invariant, WriteMaterial PROVE Invariant'
  <1> USE DEF Invariant
  <1>1. /\ pc \in Material /\ result = Failed /\ UNCHANGED <<found, adrift, squatted, fresh>>
        /\ Live' = Live /\ Live \subseteq adrift
        /\ found \notin Authorities /\ fresh \in Authorities
    BY DEF WriteMaterial, ResultTrue, Minting, AnchorsKept, Live, Material
  <1>2. AnchorsKept' /\ AnchorsAccounted' /\ (Live \subseteq Recorded \cup adrift)'
    BY <1>1 DEF AnchorsKept, AnchorsAccounted
  <1>3. ~squatted'
    BY <1>1 DEF FoundTrue, Material
  <1>4. CASE Fail
    BY <1>2, <1>3, <1>4, FailKeeps
  <1>5. CASE Go(After(pc))
    <2>1. /\ file' = [file EXCEPT ![pc] = fresh] /\ pc' = After(pc) /\ pc' # "idle"
          /\ result' = Failed /\ minting' = minting
      BY <1>1, <1>5 DEF WriteMaterial, Go, Fail, End, After, Material
    <2>2. file'[pc] = fresh /\ \A n \in Names \ {pc} : file'[n] = file[n]
      BY <1>1, <2>1 DEF TypeOK, Names
    <2>3. Minting'
      BY <1>1, <2>1, <2>2 DEF Minting, After, Material, Names
    <2>4. FoundTrue'
      BY <1>1, <1>3, <2>1 DEF FoundTrue, After, Material
    <2>5. Trusting'
      <3>1. CASE pc = "leaf.crt"
        <4>1. \A n \in Material : file'[n] = fresh
          BY <2>2, <3>1 DEF Minting, Material, Names
        <4>2. Usable' /\ should_skip_mint'
          BY <1>1, <4>1, ContentTypes DEF Usable, Of, should_skip_mint, Parses, Material
        <4> QED
          BY <1>1, <2>1, <3>1, <4>2 DEF Trusting, After
      <3>2. CASE pc # "leaf.crt"
        BY <1>1, <2>1, <3>2 DEF Trusting, After, Material
      <3> QED
        BY <3>1, <3>2
    <2> QED
      BY <1>2, <2>1, <2>3, <2>4, <2>5, GoKeeps
  <1> QED
    BY <1>4, <1>5 DEF WriteMaterial

(* A run that trusts its authority, or could not, ends with created.       *)
LEMMA NotTrustedKeeps ==
  ASSUME TypeOK, Trusting, Minting, FoundTrue,
         pc \in {"trust", "rebuild", "ledger"}, NotTrusted,
         UNCHANGED <<squatted, found>>, \A n \in Material : file'[n] = file[n],
         AnchorsKept', (Live \subseteq Recorded \cup adrift)'
  PROVE  Invariant'
  <1>1. /\ pc' = "idle" /\ ~minting' /\ ~result'.trusted /\ ~result'.removed
        /\ result'.created /\ result'.minted = minting
    BY DEF NotTrusted, End, Result
  <1>2. Minting' /\ Trusting' /\ ResultTrue'
    BY <1>1 DEF Minting, Trusting, ResultTrue, Material
  <1>3. FoundTrue'
    BY <1>1 DEF FoundTrue
  <1>4. WorkingAuthorityKept' /\ CreatedIsUsable'
    BY <1>1, MaterialSame DEF WorkingAuthorityKept, CreatedIsUsable, Trusting, Minting
  <1>5. AnchorsAccounted' /\ TrustedMeansRecorded' /\ UninstallForgets'
    BY <1>1 DEF AnchorsAccounted, TrustedMeansRecorded, UninstallForgets
  <1> QED
    BY <1>2, <1>3, <1>4, <1>5 DEF Invariant, Promises

LEMMA InstallAnchorKeeps == ASSUME TypeOK, Invariant, InstallTrustAnchor PROVE Invariant'
  <1> USE DEF Invariant
  <1>1. /\ pc = "trust" /\ result = Failed /\ should_skip_mint
        /\ UNCHANGED <<system, squatted, file, fresh, found, adrift>>
        /\ Live \subseteq Recorded \cup adrift
        /\ \A a \in Live \ adrift : file["ca.crt"] = a
    BY DEF InstallTrustAnchor, ResultTrue, Trusting, Promises, AnchorsAccounted, AnchorsKept
  <1>2. CASE NotTrusted
    <2>1. store' = store /\ anchor' \in {anchor, Torn}
      BY <1>2 DEF InstallTrustAnchor, NotTrusted, End, Go
    <2>2. Live' \subseteq Live
      BY <2>1, ContentTypes DEF Live
    <2>3. AnchorsKept' /\ (Live \subseteq Recorded \cup adrift)'
      BY <1>1, <1>2, <2>2, FilesSame DEF AnchorsKept, NotTrusted, End, Material
    <2> QED
      BY <1>1, <1>2, <2>3, NotTrustedKeeps
  <1>3. CASE ~NotTrusted
    <2>1. /\ file["ca.crt"] \in Authorities /\ result' = Failed /\ minting' = minting
          /\ Live' \subseteq Live \cup {file["ca.crt"]}
          /\ \/ pc' = "ledger" /\ system # "linux" /\ file["ca.crt"] \in store'
             \/ pc' = "rebuild" /\ system = "linux" /\ anchor' = file["ca.crt"]
      BY <1>1, <1>3 DEF InstallTrustAnchor, Go, Live
    <2>2. AnchorsKept' /\ AnchorsAccounted'
      BY <1>1, <2>1, FilesSame DEF AnchorsKept, AnchorsAccounted, Material
    <2>3. Minting' /\ FoundTrue'
      BY <1>1, <2>1 DEF Minting, FoundTrue, Material
    <2>4. Trusting'
      BY <1>1, <2>1, FilesSame DEF Trusting
    <2> QED
      BY <2>1, <2>2, <2>3, <2>4, GoKeeps
  <1> QED
    BY <1>2, <1>3

LEMMA RebuildKeeps == ASSUME TypeOK, Invariant, Rebuild PROVE Invariant'
  <1> USE DEF Invariant
  <1>1. /\ pc = "rebuild" /\ result = Failed /\ should_skip_mint
        /\ UNCHANGED <<system, squatted, file, anchor, fresh, found>>
        /\ Live \subseteq Recorded \cup adrift \cup {file["ca.crt"]}
        /\ \A a \in Live \ adrift : file["ca.crt"] = a
    BY DEF Rebuild, ResultTrue, Trusting, Promises, AnchorsAccounted, AnchorsKept
  <1>2. Live' \subseteq Live /\ Live \subseteq Authorities
    BY DEF Rebuild, Bundle, Live, TypeOK
  <1>3. CASE NotTrusted /\ Lose /\ UNCHANGED store
    <2>1. AnchorsKept' /\ (Live \subseteq Recorded \cup adrift)'
      BY <1>1, <1>2, <1>3, FilesSame DEF AnchorsKept, NotTrusted, End, Material, Lose
    <2> QED
      BY <1>1, <1>3, <2>1, NotTrustedKeeps
  <1>4. CASE store' = Bundle /\ Go("ledger") /\ UNCHANGED adrift
    <2>1. /\ pc' = "ledger" /\ result' = Failed /\ minting' = minting
      BY <1>1, <1>4 DEF Go
    <2>2. file["ca.crt"] \in store'
      BY <1>1, <1>4, ContentTypes DEF Trusting, Bundle, should_skip_mint, Parses
    <2>3. AnchorsKept' /\ AnchorsAccounted'
      BY <1>1, <1>2, <1>4, <2>1, FilesSame DEF AnchorsKept, AnchorsAccounted, Material
    <2>4. Minting' /\ FoundTrue'
      BY <1>1, <2>1 DEF Minting, FoundTrue, Material
    <2>5. Trusting'
      BY <1>1, <2>1, <2>2, FilesSame DEF Trusting
    <2> QED
      BY <2>1, <2>3, <2>4, <2>5, GoKeeps
  <1> QED
    BY <1>3, <1>4 DEF Rebuild

LEMMA RecordKeeps == ASSUME TypeOK, Invariant, RecordAnchor PROVE Invariant'
  <1> USE DEF Invariant
  <1>1. /\ pc = "ledger" /\ result = Failed /\ should_skip_mint
        /\ UNCHANGED <<system, squatted, anchor, store, fresh, found>> /\ Live' = Live
        /\ Live \subseteq Recorded \cup adrift \cup {file["ca.crt"]}
        /\ \A a \in Live \ adrift : file["ca.crt"] = a
        /\ file["ca.crt"] \in store
    BY DEF RecordAnchor, ResultTrue, Trusting, Promises, AnchorsAccounted, AnchorsKept, Live
  <1>2. \A n \in Material : file'[n] = file[n]
    BY DEF RecordAnchor, Material, TypeOK, Names
  <1>3. Live \subseteq Authorities /\ file["ca.crt"] \in Authorities
    BY <1>1 DEF Live, TypeOK
  <1>4. CASE NotTrusted /\ Lose
    <2>1. AnchorsKept' /\ (Live \subseteq Recorded \cup adrift)'
      BY <1>1, <1>2, <1>3, <1>4, MaterialSame
         DEF AnchorsKept, NotTrusted, End, Material, Lose
    <2> QED
      BY <1>1, <1>2, <1>4, <2>1, NotTrustedKeeps
  <1>5. CASE /\ End(Result(TRUE, minting, TRUE, FALSE)) /\ UNCHANGED adrift
             /\ file' = [file EXCEPT !["trust.json"] = file["ca.crt"]]
    <2>1. /\ pc' = "idle" /\ ~minting' /\ result'.trusted /\ ~result'.removed
          /\ result'.created /\ result'.minted = minting
      BY <1>5 DEF End, Result
    <2>2. file'["trust.json"] = file["ca.crt"] /\ Recorded' = {file["ca.crt"]}
      BY <1>3, <1>5 DEF TypeOK, Recorded, Names
    <2>3. AnchorsKept' /\ AnchorsAccounted'
      BY <1>1, <1>2, <1>5, <2>1, <2>2, MaterialSame DEF AnchorsKept, AnchorsAccounted, Material
    <2>4. Minting' /\ Trusting'
      BY <2>1 DEF Minting, Trusting, Material
    <2>5. ResultTrue' /\ FoundTrue'
      BY <1>1, <1>2, <2>1, MaterialSame DEF ResultTrue, FoundTrue, Trusting
    <2>6. WorkingAuthorityKept' /\ CreatedIsUsable'
      BY <1>1, <1>2, <2>1, MaterialSame
         DEF WorkingAuthorityKept, CreatedIsUsable, Trusting, Minting
    <2>7. TrustedMeansRecorded' /\ UninstallForgets'
      BY <1>1, <1>2, <2>1, <2>2, MaterialSame DEF TrustedMeansRecorded, UninstallForgets
    <2> QED
      BY <2>3, <2>4, <2>5, <2>6, <2>7 DEF Promises
  <1> QED
    BY <1>4, <1>5 DEF RecordAnchor

LEMMA RevertKeeps == ASSUME TypeOK, Invariant, RevertTrustEntries PROVE Invariant'
  <1> USE DEF Invariant
  <1>1. /\ pc = "revert" /\ pc' = "remove" /\ result' = Failed
        /\ UNCHANGED <<file, found, fresh, minting, squatted>>
        /\ Live \subseteq Recorded \cup adrift
    BY DEF RevertTrustEntries, Go, ResultTrue, Promises, AnchorsAccounted
  <1>2. Live' \subseteq Live
    <2>1. CASE system = "linux"
      <3>1. anchor' \in {Absent, anchor} /\ store' \in {store, {anchor'} \cap Authorities}
        BY <2>1 DEF RevertTrustEntries
      <3> QED
        BY <3>1, ContentTypes DEF Live
    <2>2. CASE system # "linux"
      <3>1. anchor' = anchor /\ store' \in {store, store \ Recorded}
        BY <2>2 DEF RevertTrustEntries
      <3> QED
        BY <3>1 DEF Live
    <2> QED
      BY <2>1, <2>2
  <1>3. Live' \subseteq adrift'
    BY <1>1, <1>2 DEF RevertTrustEntries
  <1>4. AnchorsKept' /\ AnchorsAccounted'
    BY <1>3 DEF AnchorsKept, AnchorsAccounted
  <1>5. Minting' /\ Trusting'
    BY <1>1 DEF Minting, Trusting, Material
  <1>6. FoundTrue'
    BY <1>1 DEF FoundTrue
  <1> QED
    BY <1>1, <1>4, <1>5, <1>6, GoKeeps

LEMMA RemoveKeeps == ASSUME TypeOK, Invariant, RemoveRoot PROVE Invariant'
  <1> USE DEF Invariant
  <1>1. /\ pc = "remove" /\ Live' = Live /\ adrift' = adrift /\ Live \subseteq adrift
        /\ UNCHANGED <<system, anchor, store, fresh, found>>
    BY DEF RemoveRoot, Live, Promises, AnchorsAccounted
  <1>2. AnchorsKept' /\ (Live \subseteq Recorded \cup adrift)'
    BY <1>1 DEF AnchorsKept
  <1>3. CASE Fail
    <2>1. PICK S : file' = Removed(S)
      BY DEF RemoveRoot
    <2>2. squatted' => \A n \in Names : file'[n] \notin Authorities
      <3>1. squatted' => squatted
        BY DEF RemoveRoot
      <3>2. \A n \in Names : file'[n] \in {Absent, file[n]}
        BY <2>1 DEF Removed
      <3> QED
        BY <3>1, <3>2, ContentTypes DEF FoundTrue
    <2> QED
      BY <1>2, <1>3, <2>2, FailKeeps
  <1>4. CASE End(Result(FALSE, FALSE, FALSE, TRUE)) /\ squatted' = FALSE
    <2>1. /\ pc' = "idle" /\ ~minting' /\ ~result'.created /\ ~result'.trusted
      BY <1>4 DEF End, Result
    <2>2. Minting' /\ Trusting' /\ FoundTrue' /\ ResultTrue'
      BY <1>4, <2>1 DEF Minting, Trusting, FoundTrue, ResultTrue, Material
    <2>3. Promises'
      BY <1>1, <2>1 DEF Promises, WorkingAuthorityKept, CreatedIsUsable, AnchorsAccounted,
           TrustedMeansRecorded, UninstallForgets
    <2> QED
      BY <1>2, <2>2, <2>3
  <1> QED
    BY <1>3, <1>4 DEF RemoveRoot

LEMMA CrashKeeps == ASSUME TypeOK, Invariant, Crash PROVE Invariant'
  <1> USE DEF Invariant
  <1>1. pc # "idle" /\ Fail /\ pc' = "idle" /\ UNCHANGED <<squatted, store>>
    BY DEF Crash, Fail, End
  <1>2. /\ \A n \in Material : file'[n] = file[n]
        /\ pc # "ledger" => file' = file
    BY DEF Crash, Material, TypeOK, Names
  <1>3. Live' \subseteq Live /\ Live \subseteq Authorities
    BY ContentTypes DEF Crash, Live, TypeOK
  <1>4. AnchorsKept' /\ (Live \subseteq Recorded \cup adrift)'
    <2>1. CASE pc \in {"rebuild", "ledger"}
      <3>1. adrift' = adrift \cup ({file["ca.crt"]} \cap Authorities)
        BY <2>1 DEF Crash, Lose
      <3>2. /\ Live \subseteq Recorded \cup adrift \cup {file["ca.crt"]}
            /\ \A a \in Live \ adrift : file["ca.crt"] = a
        BY <2>1 DEF Promises, AnchorsAccounted, AnchorsKept
      <3>3. Live' \subseteq adrift'
        BY <1>3, <3>1, <3>2
      <3> QED
        BY <3>3 DEF AnchorsKept
    <2>2. CASE pc \notin {"rebuild", "ledger"}
      <3>1. file' = file /\ adrift' = adrift
        BY <1>2, <2>2 DEF Crash
      <3>2. Live \subseteq Recorded \cup adrift
        BY <2>2 DEF Promises, AnchorsAccounted
      <3> QED
        BY <1>1, <1>3, <3>1, <3>2, FilesSame DEF AnchorsKept, Material
    <2> QED
      BY <2>1, <2>2
  <1>5. squatted' => \A n \in Names : file'[n] \notin Authorities
    BY <1>1, <1>2 DEF FoundTrue
  <1> QED
    BY <1>1, <1>4, <1>5, FailKeeps

LEMMA RebuildByOthersKeeps ==
  ASSUME TypeOK, Invariant, RebuildByOthers
  PROVE  Invariant'
  <1> USE DEF Invariant
  <1>1. /\ UNCHANGED <<system, squatted, file, anchor, pc, fresh, minting, result,
                       found, adrift>>
        /\ system = "linux" /\ store' = {anchor} \cap Authorities
    BY DEF RebuildByOthers, Bundle
  <1>2. Live' \subseteq Live
    BY <1>1 DEF Live
  <1>3. file["ca.crt"] \in store => file["ca.crt"] \in Authorities
    BY DEF TypeOK
  <1>4. AnchorsKept' /\ Minting' /\ FoundTrue' /\ ResultTrue'
    BY <1>1, <1>2, FilesSame DEF AnchorsKept, Minting, FoundTrue, ResultTrue, Material
  <1>5. Trusting'
    BY <1>1, <1>3, FilesSame DEF Trusting
  <1>6. Promises'
    BY <1>1, <1>2, <1>3, FilesSame
       DEF Promises, WorkingAuthorityKept, CreatedIsUsable, AnchorsAccounted,
           TrustedMeansRecorded, UninstallForgets, ResultTrue
  <1> QED
    BY <1>4, <1>5, <1>6

LEMMA BeginKeeps ==
  ASSUME TypeOK, Invariant, BeginProvision \/ BeginUninstall
  PROVE  Invariant'
  <1> USE DEF Invariant
  <1>1. /\ pc = "idle" /\ result' = Failed /\ pc' \in {"harden", "revert"}
        /\ UNCHANGED <<system, squatted, file, anchor, store, fresh, minting, adrift>>
        /\ Live' = Live /\ (pc' = "harden" => found' = Found) /\ ~minting
    BY DEF BeginProvision, BeginUninstall, Live, Minting
  <1>2. AnchorsKept' /\ AnchorsAccounted'
    BY <1>1, FilesSame DEF AnchorsKept, Promises, AnchorsAccounted, Material
  <1>3. Minting' /\ Trusting' /\ FoundTrue'
    BY <1>1, FilesSame DEF Minting, Trusting, FoundTrue, Material
  <1> QED
    BY <1>1, <1>2, <1>3, GoKeeps

LEMMA InvariantStep == ASSUME TypeOK, Invariant, [Next]_vars PROVE Invariant'
  <1>1. CASE UNCHANGED vars
    <2>1. Live' = Live
      BY <1>1 DEF vars, Live
    <2> QED
      BY <1>1, <2>1, FilesSame
         DEF vars, Invariant, AnchorsKept, Minting, Trusting, FoundTrue, ResultTrue, Promises,
             WorkingAuthorityKept, CreatedIsUsable, AnchorsAccounted, TrustedMeansRecorded,
             UninstallForgets
  <1> QED
    BY <1>1, BeginKeeps, HardenKeeps, EnsureKeeps, WriteKeeps, InstallAnchorKeeps,
       RebuildKeeps, RecordKeeps, RevertKeeps, RemoveKeeps, CrashKeeps, RebuildByOthersKeeps
       DEF Next

(* The invariant, from which the promises follow, holds in every reachable *)
(* state, for every number of mints.                                       *)
THEOREM Invariance == Spec => [](TypeOK /\ Invariant)
  <1>1. Init => TypeOK /\ Invariant
    BY TypeInit, InvariantInit
  <1>2. TypeOK /\ Invariant /\ [Next]_vars => (TypeOK /\ Invariant)'
    BY TypeStep, InvariantStep
  <1> QED
    BY <1>1, <1>2, PTL DEF Spec

(* A working authority is never replaced by a run that ends with created   *)
(* (should_skip_mint).                                                     *)
THEOREM AuthorityIsKept == Spec => []WorkingAuthorityKept
  BY Invariance, PTL DEF Invariant, Promises

(* A run that ends with created leaves a root dig-node can serve from,     *)
(* unless it found all four files and took them as they were               *)
(* (ensure_ca_and_leaf).                                                   *)
THEOREM CreatedHolds == Spec => []CreatedIsUsable
  BY Invariance, PTL DEF Invariant, Promises

(* No authority is trusted behind the back of the ledger, except where the *)
(* ledger's entry was lost (install_trust_anchor, harden_root).            *)
THEOREM LedgerAccounts == Spec => []AnchorsAccounted
  BY Invariance, PTL DEF Invariant, Promises

(* A run that says the anchor is installed has it in the system's store    *)
(* and in the ledger (provision_at).                                       *)
THEOREM TrustIsRecorded == Spec => []TrustedMeansRecorded
  BY Invariance, PTL DEF Invariant, Promises

(* A complete uninstall leaves the system no authority it trusts but those *)
(* adrift (remove_trust_and_root_at).                                      *)
THEOREM UninstallIsThorough == Spec => []UninstallForgets
  BY Invariance, PTL DEF Invariant, Promises
=============================================================================
