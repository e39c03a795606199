-------------------------------- MODULE TlsRoot --------------------------------
(***************************************************************************)
(* The privileged TLS root, src/src/tlsroot.rs: the certificate authority  *)
(* and the leaf dig-node serves HTTPS with, the anchor that makes the      *)
(* system trust the authority, and the ledger of anchors by which the      *)
(* uninstall finds them again.  All are files written one after the other, *)
(* any write may break off, and the next run goes by what exists.          *)
(*                                                                         *)
(* An authority is the number of its mint; a file holds the authority it   *)
(* is of, or belongs to.                                                   *)
(***************************************************************************)
EXTENDS Naturals, FiniteSets

CONSTANTS MaxMints,         \* bound: authorities ever minted
          MixedPairParses   \* dig_cert takes a key and a certificate of two authorities

ASSUME MintAssumption == MaxMints \in Nat /\ MixedPairParses \in BOOLEAN

Authorities == 1..MaxMints
Absent  == 0
Torn    == MaxMints + 1    \* a write that broke off, or what a stranger left
Content == Authorities \cup {Absent, Torn}

Material == {"ca.key", "ca.crt", "leaf.key", "leaf.crt"}
Names    == Material \cup {"trust.json"}

VARIABLES
  system,   \* Windows and macOS keep a store of authorities, Linux rebuilds
            \* its bundle from an anchor file; never changes
  squatted, \* the root is there under an owner that is not trusted (Windows)
  file,     \* the files of the root
  anchor,   \* the anchor file in the directory of the system (Linux)
  store,    \* the authorities the system trusts
  pc,
  fresh,    \* the last authority minted
  minting,  \* ca_minted
  result,   \* TlsRootResult of the last run, or the last uninstall's ok
  (* history *)
  found,    \* the authority of the root the run found (Found)
  adrift    \* authorities that may be trusted and that the ledger has lost

vars == <<system, squatted, file, anchor, store, pc, fresh, minting, result, found, adrift>>

Phases == {"idle", "harden", "check", "trust", "rebuild", "ledger", "revert", "remove"}
          \cup Material

Result(created, minted, trusted, removed) ==
  [created |-> created, minted |-> minted, trusted |-> trusted, removed |-> removed]

Failed == Result(FALSE, FALSE, FALSE, FALSE)

TypeOK ==
  /\ system \in {"windows", "macos", "linux"} /\ squatted \in BOOLEAN
  /\ file \in [Names -> Content] /\ anchor \in Content /\ store \subseteq Authorities
  /\ pc \in Phases /\ fresh \in 0..MaxMints /\ minting \in BOOLEAN
  /\ result \in [created : BOOLEAN, minted : BOOLEAN, trusted : BOOLEAN, removed : BOOLEAN]
  /\ found \in Content /\ adrift \subseteq Authorities

(* A host without a root or, on Windows, where anyone may create a         *)
(* directory under ProgramData, with one that a stranger made.             *)
Init ==
  /\ system \in {"windows", "macos", "linux"}
  /\ squatted \in {FALSE, system = "windows"}
  /\ file \in [Names -> IF squatted THEN {Absent, Torn} ELSE {Absent}]
  /\ anchor = Absent /\ store = {} /\ pc = "idle" /\ fresh = 0 /\ minting = FALSE
  /\ result = Failed /\ found = Absent /\ adrift = {}

---------------------------------------------------------------------------
(* How a run ends.                                                         *)
Go(phase) == pc' = phase /\ UNCHANGED <<minting, result>>

End(r) == pc' = "idle" /\ result' = r /\ minting' = FALSE

Fail == End(Failed)

Removed(S) == [n \in Names |-> IF n \in S THEN Absent ELSE file[n]]

Recorded == {file["trust.json"]} \cap Authorities

(* What is trusted, or will be when the bundle is next rebuilt.            *)
Live == store \cup ({anchor} \cap Authorities)

(* A root dig-node can serve HTTPS from: an authority and a leaf of it.    *)
Of(a) == \A n \in Material : file[n] = a

Usable == \E a \in Authorities : Of(a)

(* What a run finds: a usable root, of an authority; one with all its      *)
(* files that is not usable; or none.                                      *)
Found ==
  IF Usable THEN file["ca.crt"]
  ELSE IF \A n \in Material : file[n] # Absent THEN Torn ELSE Absent

BeginProvision ==
  /\ pc = "idle" /\ pc' = "harden" /\ result' = Failed
  /\ found' = Found
  /\ UNCHANGED <<system, squatted, file, anchor, store, fresh, minting, adrift>>

(* harden_root.  A root of an untrusted owner is removed first, with all   *)
(* that is in it; if it cannot be locked down and verified, it is removed  *)
(* afterwards, ledger and all.  Removing a directory may stop halfway.     *)
Harden ==
  /\ pc = "harden"
  /\ \/ /\ Go("check") /\ squatted' = FALSE
        /\ file' = IF squatted THEN Removed(Names) ELSE file
        /\ UNCHANGED adrift
     \/ /\ Fail /\ squatted' \in {FALSE, squatted}
        /\ \E S \in SUBSET Names : file' = Removed(S)
        /\ adrift' = IF file' = file THEN adrift ELSE adrift \cup Recorded
  /\ UNCHANGED <<system, anchor, store, fresh, found>>

(* ensure_ca_and_leaf: the four files exist and the authority parses; what *)
(* the leaf's files hold is not looked at.                                 *)
Parses(key, crt) ==
  key \in Authorities /\ crt \in Authorities /\ (key = crt \/ MixedPairParses)

(* Mutant: a leaf without a certificate will do. *)
should_skip_mint_without_leaf ==
  /\ \A n \in Material \ {"leaf.crt"} : file[n] # Absent
  /\ Parses(file["ca.key"], file["ca.crt"])

(* Mutant: the authority is minted anew on every run. *)
should_never_skip_mint == FALSE

should_skip_mint ==
  /\ \A n \in Material : file[n] # Absent
  /\ Parses(file["ca.key"], file["ca.crt"])

EnsureCaAndLeaf ==
  /\ pc = "check"
  /\ \/ should_skip_mint /\ Go("trust") /\ UNCHANGED fresh
     \/ /\ ~should_skip_mint /\ fresh < MaxMints /\ pc' = "ca.key"
        /\ minting' = TRUE /\ fresh' = fresh + 1 /\ UNCHANGED result
     \/ ~should_skip_mint /\ Fail /\ UNCHANGED fresh
  /\ UNCHANGED <<system, squatted, file, anchor, store, found, adrift>>

After(n) ==
  CASE n = "ca.key"   -> "ca.crt"
    [] n = "ca.crt"   -> "leaf.key"
    [] n = "leaf.key" -> "leaf.crt"
    [] n = "leaf.crt" -> "trust"

(* write_material truncates the file, fills it, and then sets its mode;    *)
(* what fails is left as it is.                                            *)
WriteMaterial ==
  /\ pc \in Material
  /\ \/ Go(After(pc)) /\ file' = [file EXCEPT ![pc] = fresh]
     \/ Fail /\ \E c \in {file[pc], Torn, fresh} : file' = [file EXCEPT ![pc] = c]
  /\ UNCHANGED <<system, squatted, anchor, store, fresh, found, adrift>>

(* install_trust_anchor: one call of the tool on Windows and macOS; on     *)
(* Linux the anchor file is copied and the bundle rebuilt.  A failure is   *)
(* noted, and the run goes on.                                             *)
NotTrusted == End(Result(TRUE, minting, FALSE, FALSE))

InstallTrustAnchor ==
  /\ pc = "trust"
  /\ \/ /\ system # "linux" /\ file["ca.crt"] \in Authorities
        /\ store' = store \cup {file["ca.crt"]} /\ Go("ledger") /\ UNCHANGED anchor
     \/ /\ system = "linux" /\ file["ca.crt"] \in Authorities
        /\ anchor' = file["ca.crt"] /\ Go("rebuild") /\ UNCHANGED store
     \/ /\ NotTrusted /\ UNCHANGED store
        /\ anchor' \in {anchor} \cup (IF system = "linux" THEN {Torn} ELSE {})
  /\ UNCHANGED <<system, squatted, file, fresh, found, adrift>>

Bundle == {anchor} \cap Authorities

Lose == adrift' = adrift \cup ({file["ca.crt"]} \cap Authorities)

Rebuild ==
  /\ pc = "rebuild"
  /\ \/ store' = Bundle /\ Go("ledger") /\ UNCHANGED adrift
     \/ NotTrusted /\ Lose /\ UNCHANGED store
  /\ UNCHANGED <<system, squatted, file, anchor, fresh, found>>

(* The ledger is written whole, with the one entry of this run.            *)
(* Mutant: a ledger that cannot be written is no failure. *)
RecordAnchorOrNot ==
  /\ pc = "ledger"
  /\ End(Result(TRUE, minting, TRUE, FALSE))
  /\ \E c \in {file["trust.json"], Torn, file["ca.crt"]} :
       file' = [file EXCEPT !["trust.json"] = c]
  /\ Lose
  /\ UNCHANGED <<system, squatted, anchor, store, fresh, found>>

RecordAnchor ==
  /\ pc = "ledger"
  /\ \/ /\ End(Result(TRUE, minting, TRUE, FALSE))
        /\ file' = [file EXCEPT !["trust.json"] = file["ca.crt"]] /\ UNCHANGED adrift
     \/ /\ NotTrusted /\ Lose
        /\ \E c \in {file["trust.json"], Torn} : file' = [file EXCEPT !["trust.json"] = c]
  /\ UNCHANGED <<system, squatted, anchor, store, fresh, found>>

---------------------------------------------------------------------------
(* remove_trust_and_root_at: each anchor of the ledger is taken out, by a  *)
(* tool whose failure is not looked at, and then the root goes.            *)
BeginUninstall ==
  /\ pc = "idle" /\ pc' = "revert" /\ result' = Failed
  /\ UNCHANGED <<system, squatted, file, anchor, store, fresh, minting, found, adrift>>

(* Mutant: the anchor file is removed and the bundle not rebuilt. *)
RevertWithoutRebuild ==
  /\ pc = "revert" /\ Go("remove")
  /\ anchor' = IF Recorded # {} /\ system = "linux" THEN Absent ELSE anchor
  /\ store' = IF system = "linux" THEN store ELSE store \ Recorded
  /\ UNCHANGED <<system, squatted, file, fresh, found, adrift>>

RevertTrustEntries ==
  /\ pc = "revert" /\ Go("remove")
  /\ IF system = "linux"
     THEN /\ anchor' \in IF Recorded = {} THEN {anchor} ELSE {Absent, anchor}
          /\ store' \in {store} \cup
               (IF Recorded = {} THEN {} ELSE {{anchor'} \cap Authorities})
     ELSE store' \in {store, store \ Recorded} /\ UNCHANGED anchor
  /\ adrift' = adrift \cup (Recorded \cap Live')
  /\ UNCHANGED <<system, squatted, file, fresh, found>>

RemoveRoot ==
  /\ pc = "remove"
  /\ \/ /\ file' = Removed(Names) /\ squatted' = FALSE
        /\ End(Result(FALSE, FALSE, FALSE, TRUE))
     \/ \E S \in SUBSET Names : file' = Removed(S) /\ Fail /\ UNCHANGED squatted
  /\ UNCHANGED <<system, anchor, store, fresh, found, adrift>>

---------------------------------------------------------------------------
(* The environment: the process dies, and what it was writing is torn (in  *)
(* a phase whose failure ends the run, that failure is no different); and  *)
(* on Linux anything may have the bundle rebuilt.                          *)
Crash ==
  /\ pc # "idle" /\ Fail
  /\ file' \in {file} \cup
       (IF pc = "ledger" THEN {[file EXCEPT !["trust.json"] = Torn]} ELSE {})
  /\ anchor' \in {anchor} \cup
       (IF pc = "trust" /\ system = "linux" THEN {Torn} ELSE {})
  /\ IF pc \in {"rebuild", "ledger"} THEN Lose ELSE UNCHANGED adrift
  /\ UNCHANGED <<system, squatted, store, fresh, found>>

RebuildByOthers ==
  /\ system = "linux" /\ store' = Bundle
  /\ UNCHANGED <<system, squatted, file, anchor, pc, fresh, minting, result, found,
                 adrift>>

Next ==
  \/ BeginProvision \/ Harden \/ EnsureCaAndLeaf \/ WriteMaterial
  \/ InstallTrustAnchor \/ Rebuild \/ RecordAnchor
  \/ BeginUninstall \/ RevertTrustEntries \/ RemoveRoot
  \/ Crash \/ RebuildByOthers

Spec == Init /\ [][Next]_vars

---------------------------------------------------------------------------
(* A run that finds a usable root and ends with created leaves its files   *)
(* alone: a working authority is never replaced, which would leave the     *)
(* anchor behind (should_skip_mint).                                       *)
WorkingAuthorityKept ==
  result.created /\ found \in Authorities => ~result.minted /\ Of(found)

(* A run that ends with created leaves a usable root, whatever earlier     *)
(* runs were cut short, unless it found one with all its files that was    *)
(* not (ensure_ca_and_leaf).                                               *)
CreatedIsUsable == result.created => Usable \/ found = Torn

(* Every authority that the system trusts, or will trust when it rebuilds  *)
(* its bundle, is in the ledger or being put there, unless its entry was   *)
(* lost: the root purged, the ledger's write broken off, the run dead in   *)
(* between, or a tool that failed (install_trust_anchor).                  *)
AnchorsAccounted ==
  LET coming == IF pc \in {"rebuild", "ledger"} THEN {file["ca.crt"]} ELSE {}
      going  == IF pc = "remove" THEN {} ELSE Recorded
  IN  Live \subseteq going \cup coming \cup adrift

(* A run that says the anchor is installed has the authority of the root   *)
(* in the system's store and in the ledger (provision_at).                 *)
TrustedMeansRecorded ==
  result.trusted =>
    /\ file["ca.crt"] \in store
    /\ file["trust.json"] = file["ca.crt"]

(* After an uninstall that says it is complete, the system trusts no       *)
(* authority but those adrift, nor will it when it rebuilds its bundle     *)
(* (remove_trust_and_root_at).                                             *)
UninstallForgets == result.removed => Live \subseteq adrift

=============================================================================
