---------------------------- MODULE Installer_proofs ----------------------------
(***************************************************************************)
(* What the installer's model promises for every set of machines, every    *)
(* number of releases and every number of runs, assuming MachineAssumption *)
(* alone.  The order of the argument:                                      *)
(*   - the types, from what the rows of a run are (RowsTyped, RowTargets); *)
(*   - Accounts, what the guard's entries and the files of the host have   *)
(*     to do with each other at any moment of a run: an entry of a file is *)
(*     true of it, is the only one, and was made by a row that is behind,  *)
(*     and a file without one is as the run found it.  That a rollback     *)
(*     restores the files follows from it;                                 *)
(*   - ClaimsBacked, the same for what the report claims was re-armed;     *)
(*   - that a run, seen from outside, is one step of AtomicInstall.        *)
(***************************************************************************)
EXTENDS Installer, TLAPS

---------------------------------------------------------------------------
(* The types.                                                              *)

(* A run has 31 rows, each with a target of its kind.                      *)

LEMMA RowCount == DOMAIN Rows = 1..31
  BY DEF Rows

LEMMA RowsTyped ==
  ASSUME NEW i \in DOMAIN Rows
  PROVE
    /\ Rows[i].do \in {"resolve", "write", "alias", "place"} => Rows[i].of \in Components
    /\ Rows[i].do = "stop" => Rows[i].on \in {"dig-node", "dig-dns", "dig-relay"}
    /\ Rows[i].do = "register" => Rows[i].on \in Services /\ Rows[i].of = Rows[i].on
    /\ Rows[i].do \in {"autostart", "scheme", "harden"} =>
         Rows[i].of \in Components \cup {"hardening"}
    /\ Rows[i].do = "autostart" => Rows[i].on = "autostart"
  BY RowCount, SMTT(60) DEF Rows, Row, Components, Services

(* No two rows write the same file, so that no file has two entries.       *)
Writing == {"write", "alias", "place"}

LEMMA WritesDiffer ==
  ASSUME NEW i \in DOMAIN Rows, NEW j \in DOMAIN Rows,
         Rows[i].do \in Writing, Rows[j].do \in Writing, Rows[i].on = Rows[j].on
  PROVE  i = j
  BY RowCount, SMTT(60) DEF Rows, Row, Writing

(* What a row works on is a file, a service or a user entry of the host.   *)
LEMMA RowTargets ==
  ASSUME NEW i \in DOMAIN Rows
  PROVE  /\ Rows[i].do \in Writing \cup {"resolve"} => Rows[i].on \in Files
         /\ Rows[i].do = "stop" => Rows[i].on \in Services \cap Images
         /\ Rows[i].do = "register" => Rows[i].on \in Services
         /\ Rows[i].do \in {"autostart", "scheme", "harden"} => Rows[i].on \in UserArtifacts
  BY RowsTyped DEF Files, FilesOf, UserArtifacts, UserOf, Writing, Services, Images

(* The entries the actions make are entries, the contents they write are   *)
(* contents.                                                               *)
LEMMA EntryTypes ==
  /\ \A k \in {"FileCreated", "FileReplaced", "StagingCreated"}, f \in Files :
       Entry(k, f) \in Entries
  /\ \A k \in {"ServiceRegistered", "BeaconRearmed"}, s \in Services : Entry(k, s) \in Entries
  /\ \A a \in UserArtifacts : Entry("Artifact", a) \in Entries
  BY DEF Entry, Entries, FileEntries, RegEntries, UserEntries

LEMMA ContentTypes ==
  /\ Absent \in Content /\ Torn \in Content /\ Latest \in Content /\ Versions \subseteq Content
  /\ Latest \in Versions /\ Latest # Absent /\ Absent \notin Versions /\ Torn \notin Versions
  /\ Torn # Absent /\ Torn # Latest
  BY MachineAssumption DEF Content, Absent, Torn, Latest, Versions

(* The invariant of types: initially, and at every step.                   *)
LEMMA TypeInit == Init => TypeOK
  <1> SUFFICES ASSUME Init PROVE TypeOK
    OBVIOUS
  <1>1. machine \in Machines /\ machine \in Machine /\ plan \in Plan
    BY MachineAssumption DEF Init, NoPlan, Plan
  <1>2. PICK h \in [FilesOf(machine.has) -> machine.versions \cup {Absent}] :
          file = [f \in Files |-> IF f \in DOMAIN h THEN h[f] ELSE Absent]
    BY DEF Init
  <1>3. machine.versions \subseteq Content
    BY <1>1, ContentTypes DEF Machine, Versions
  <1>4. {file, saved, staged} \subseteq [Files -> Content]
    BY <1>2, <1>3, ContentTypes DEF Init
  <1>5. user \subseteq UserArtifacts /\ running \subseteq Images
    <2>1. machine.has \subseteq Components
      BY <1>1 DEF Machine
    <2>2. UserOf(Parts(machine.has)) \subseteq UserArtifacts
      BY <2>1, RowsTyped DEF UserOf, UserArtifacts, Parts
    <2> QED
      BY <2>2 DEF Init
  <1>6. at \in DOMAIN Rows /\ runs \in 0..MaxRuns
    BY RowCount, MachineAssumption DEF Init
  <1>7. reg \in [Services -> Registrations] /\ staged \in [Files -> Content]
    BY <1>4 DEF Init
  <1>8. /\ before.file = file /\ before.reg = reg /\ before.running = running
        /\ before.user = user /\ before.staged = staged
    BY DEF Init, Snapshot
  <1>9. guard \in Seq(Entries) /\ mode \in Modes
    BY DEF Init, Modes
  <1>10. outcome \in [Services -> {"none", "failed", "installed", "healthy"}]
    BY DEF Init
  <1>11. /\ decision \in {"Install", "Update", "Skip", "Unavailable"} /\ ready \in BOOLEAN
         /\ unmoved = {} /\ claims = {} /\ failedRegs = {} /\ audited = {}
         /\ damaged = {} /\ stuck = {} /\ halted = {}
    BY DEF Init
  <1> QED
    BY <1>1, <1>4, <1>5, <1>6, <1>7, <1>8, <1>9, <1>10, <1>11 DEF TypeOK

LEMMA TypeStep == ASSUME TypeOK, [Next]_vars PROVE TypeOK'
  <1> USE DEF TypeOK, verdict
  <1>p. Proceed => /\ at' \in DOMAIN Rows
                  /\ UNCHANGED <<mode, verdict, runs, plan, machine>>
    BY DEF Proceed
  <1>r. row = Rows[at]
    BY DEF row
  <1>a. \A e \in Entries : Append(guard, e) \in Seq(Entries)
    OBVIOUS
  <1>1. CASE Begin
    <2>1. plan' \in Plan
      BY <1>1, MachineAssumption DEF Begin, Machine
    <2>2. at' \in DOMAIN Rows /\ runs' \in 0..MaxRuns /\ mode' \in Modes
      BY <1>1, RowCount, MachineAssumption DEF Begin, Forget, Modes
    <2>3. guard' \in Seq(Entries)
      BY <1>1 DEF Begin, Forget
    <2>4. outcome' \in [Services -> {"none", "failed", "installed", "healthy"}]
      BY <1>1 DEF Begin, Forget
    <2>5. /\ before'.file = file /\ before'.reg = reg /\ before'.running = running
          /\ before'.user = user /\ before'.staged = staged
      BY <1>1 DEF Begin, Forget, Snapshot, host
    <2> QED
      BY <1>1, <2>1, <2>2, <2>3, <2>4, <2>5 DEF Begin, Forget, host
  <1>2. CASE Supersede
    BY <1>2, <1>p DEF Supersede, Unregister, book, hist, Registrations
  <1>3. CASE Migrate
    <2>1. PICK moved \in SUBSET Services, rearmed \in SUBSET Services :
            /\ moved \subseteq Legacy /\ rearmed \subseteq Declined(moved)
            /\ guard' = guard \o RearmEntries(rearmed) /\ claims' = rearmed
            /\ failedRegs' = Declined(moved) \ rearmed
            /\ unmoved' \subseteq Services
            /\ running' \in {running \ moved, (running \ moved) \cup (rearmed \cap {"dig-dns"})}
      BY <1>3 DEF Migrate, Legacy, Declined
    <2>2. Legacy \subseteq Services /\ Declined(moved) \subseteq Services
      BY DEF Legacy, Declined
    <2>3. RearmEntries(rearmed) \in Seq(Entries)
      BY EntryTypes DEF RearmEntries, Services
    <2>4. running' \subseteq Images
      BY <2>1 DEF Images
    <2>5. guard' \in Seq(Entries)
      BY <2>1, <2>3
    <2>6. reg' \in [Services -> Registrations]
      BY <1>3 DEF Migrate, Registrations
    <2> QED
      BY <1>3, <1>p, <2>1, <2>2, <2>4, <2>5, <2>6 DEF Migrate
  <1>4. CASE Resolve
    BY <1>4, <1>p DEF Resolve, Decision, Fail, host, hist, Modes
  <1>5. CASE Stop
    BY <1>5, <1>p, <1>r, RowTargets DEF Stop, Doing, Fail, book, Modes
  <1>6. ASSUME NEW f \in Files, Download(f) PROVE
          /\ at' \in DOMAIN Rows /\ {file', saved', staged'} \subseteq [Files -> Content]
          /\ guard' \in Seq(Entries) /\ damaged' \subseteq Files /\ mode' \in Modes
          /\ UNCHANGED <<verdict, runs, plan, machine>>
    <2>1. CASE Replace(f)
      BY <2>1, <1>p, EntryTypes, ContentTypes DEF Replace
    <2>2. CASE StageReplacement(f)
      BY <2>2, <1>p, EntryTypes, ContentTypes DEF StageReplacement
    <2>3. CASE FetchOrWriteFails(f)
      BY <2>3, ContentTypes DEF FetchOrWriteFails, Fail, Modes
    <2> QED
      BY <1>6, <2>1, <2>2, <2>3 DEF Download
  <1>7. CASE Write
    <2>1. row.on \in Files
      BY <1>7, <1>r, RowTargets DEF Write, Doing, Writing
    <2> QED
      BY <1>7, <1>p, <1>6, <2>1 DEF Write, NoDownload
  <1>8. CASE Place
    <2>1. row.on \in Files
      BY <1>8, <1>r, RowTargets DEF Place, Doing, Writing
    <2> QED
      BY <1>8, <1>6, <2>1 DEF Place
  <1>9. CASE Alias
    <2>1. row.on \in Files
      BY <1>9, <1>r, RowTargets DEF Alias, Doing, Writing
    <2> QED
      BY <1>9, <1>p, <1>6, <2>1 DEF Alias, NoDownload
  <1>10. CASE Register
    <2>1. row.on \in Services
      BY <1>10, <1>r, RowTargets DEF Register, Doing
    <2>2. guard' \in Seq(Entries)
      <3>1. Entry("ServiceRegistered", row.on) \in Entries
        BY <2>1, EntryTypes
      <3> QED
        BY <1>10, <1>a, <3>1 DEF Register
    <2>3. /\ reg' \in [Services -> Registrations] /\ running' \subseteq Images
          /\ outcome' \in [Services -> {"none", "failed", "installed", "healthy"}]
          /\ failedRegs' \subseteq Services
      <3>1. CASE UNCHANGED <<reg, running, outcome, failedRegs>>
        BY <3>1
      <3>2. CASE RegisterBeacon(row.on)
        BY <2>1, <3>2 DEF RegisterBeacon, Set, Report, Registrations
      <3>3. CASE KeepService(row.on)
        BY <2>1, <3>3 DEF KeepService, Report, Seen
      <3>4. CASE InstallEngine(row.on)
        <4>1. row.on \in Images
          BY <3>4 DEF InstallEngine, Images
        <4>2. /\ reg' \in {reg, [reg EXCEPT ![row.on] = "own"]}
              /\ running' \in {running, running \cup {row.on}}
              /\ \E o \in {"failed", "installed", "healthy"} : Report(row.on, o)
          BY <3>4 DEF InstallEngine, Set, Seen
        <4> QED
          BY <2>1, <4>1, <4>2 DEF Report, Registrations
      <3>5. CASE InstallDns(row.on)
        <4>1. row.on \in Images
          BY <3>5 DEF InstallDns, Images
        <4>2. /\ reg' \in {reg, [reg EXCEPT ![row.on] = "own"],
                          [reg EXCEPT ![row.on] = "none"]}
              /\ running' \in {running, running \ {row.on}, running \cup {row.on}}
              /\ \E o \in {"failed", "installed", "healthy"} : Report(row.on, o)
          BY <3>5 DEF InstallDns, Set, Seen
        <4> QED
          BY <2>1, <4>1, <4>2 DEF Report, Registrations
      <3> QED
        BY <1>10, <3>1, <3>2, <3>3, <3>4, <3>5 DEF Register
    <2> QED
      BY <1>10, <1>p, <2>2, <2>3 DEF Register
  <1>11. CASE Autostart
    <2>1. "autostart" \in UserArtifacts
      BY <1>11, <1>r, RowsTyped, RowTargets DEF Autostart, Doing
    <2>2. Entry("Artifact", "autostart") \in Entries
      BY <2>1, EntryTypes
    <2>3. guard' \in Seq(Entries) /\ user' \subseteq UserArtifacts /\ running' \subseteq Images
      BY <1>11, <1>a, <2>1, <2>2 DEF Autostart, Images
    <2> QED
      BY <1>11, <1>p, <2>3 DEF Autostart, hist
  <1>12. ASSUME NEW do \in {"scheme", "harden"}, Artifact(do) PROVE TypeOK'
    <2>1. row.on \in UserArtifacts
      BY <1>12, <1>r, RowTargets DEF Artifact, Doing
    <2>2. Entry("Artifact", row.on) \in Entries
      BY <2>1, EntryTypes
    <2>3. guard' \in Seq(Entries) /\ user' \subseteq UserArtifacts
      BY <1>12, <1>a, <2>1, <2>2 DEF Artifact
    <2> QED
      BY <1>12, <1>p, <2>3 DEF Artifact, hist
  <1>13. CASE Scheme \/ Harden
    BY <1>12, <1>13 DEF Scheme, Harden
  <1>14. CASE Finish
    <2>1. saved' \in [Files -> Content]
      BY <1>14, ContentTypes DEF Finish
    <2>2. ready' \in BOOLEAN /\ audited' \subseteq Services
      <3>1. \A audit \in Audits : Ready(audit) \in BOOLEAN /\ audit \subseteq Services
        BY DEF Ready, Audits
      <3>2. PICK audit \in Audits : audited' = audit /\ ready' \in {FALSE, Ready(audit)}
        BY <1>14 DEF Finish
      <3> QED
        BY <3>1, <3>2
    <2> QED
      BY <1>14, <2>1, <2>2 DEF Finish, book, hist, Modes
  <1>15. ASSUME NEW kinds, Undoing(kinds)
         PROVE  /\ guard' \in Seq(Entries) /\ last \in Entries /\ last.kind \in kinds
                /\ UNCHANGED <<machine, plan, mode, at, verdict, runs, decision, outcome, unmoved,
                               before, failedRegs, halted>>
    BY <1>15 DEF Undoing, last
  <1>16. /\ \A k \in {"FileCreated", "FileReplaced", "StagingCreated"} :
              \A e \in Entries : e.kind = k => e.on \in Files
         /\ \A k \in {"ServiceRegistered", "BeaconRearmed"} :
              \A e \in Entries : e.kind = k => e.on \in Services
    BY DEF Entries, FileEntries, RegEntries, UserEntries
  <1>17. CASE UndoFile \/ UndoStaging \/ UndoFileFails
    <2>1. last.on \in Files
      <3>1. \E kinds \in SUBSET {"FileCreated", "FileReplaced", "StagingCreated"} : Undoing(kinds)
        BY <1>17 DEF UndoFile, UndoStaging, UndoFileFails
      <3> QED
        BY <1>15, <1>16, <3>1
    <2>2. CASE UndoFile
      BY <1>15, <2>1, <2>2, ContentTypes DEF UndoFile
    <2>3. CASE UndoStaging
      BY <1>15, <2>1, <2>3, ContentTypes DEF UndoStaging
    <2>4. CASE UndoFileFails
      BY <1>15, <2>1, <2>4 DEF UndoFileFails
    <2> QED
      BY <1>17, <2>2, <2>3, <2>4
  <1>18. CASE UndoService
    <2>1. last.on \in Services
      BY <1>15, <1>16, <1>18 DEF UndoService
    <2>2. /\ reg' \in {reg, [reg EXCEPT ![last.on] = "none"]}
          /\ running' \in {running, running \ {last.on}}
          /\ claims' \in {claims, claims \ {last.on}}
          /\ stuck' \in {stuck, stuck \cup {last.on}}
      BY <1>18 DEF UndoService, Set
    <2> QED
      BY <1>15, <1>18, <2>1, <2>2 DEF UndoService, Registrations
  <1>19. CASE UndoBeacon
    <2>1. last.on \in Services
      BY <1>15, <1>16, <1>19 DEF UndoBeacon
    <2>2. /\ reg' \in {reg, [reg EXCEPT ![last.on] = "none"]}
          /\ claims' \in {claims, claims \ {last.on}}
          /\ stuck' \in {stuck, stuck \cup {last.on}}
      BY <1>19 DEF UndoBeacon, Set
    <2> QED
      BY <1>15, <1>19, <2>1, <2>2 DEF UndoBeacon, Registrations
  <1>20. CASE UndoArtifact
    BY <1>15, <1>20 DEF UndoArtifact
  <1>21. CASE EndRollback
    BY <1>21 DEF EndRollback, host, book, hist, Modes
  <1>22. ASSUME Crash \/ Reboot PROVE TypeOK'
    <2>1. mode' \in Modes /\ at' \in DOMAIN Rows
      BY <1>22, RowCount DEF Crash, Reboot, Forget, Modes
    <2>6. plan' = NoPlan /\ NoPlan \in Plan
      BY <1>22 DEF Crash, Reboot, NoPlan, Plan
    <2>2. {file', saved', staged'} \subseteq [Files -> Content] /\ running' \subseteq Images
      BY <1>22, ContentTypes DEF Crash, Reboot, host
    <2>3. guard' = <<>> /\ <<>> \in Seq(Entries)
      BY <1>22 DEF Crash, Reboot, Forget
    <2>4. outcome' \in [Services -> {"none", "failed", "installed", "healthy"}]
      BY <1>22 DEF Crash, Reboot, Forget
    <2>5. /\ before'.file = file' /\ before'.reg = reg' /\ before'.running = running'
          /\ before'.user = user' /\ before'.staged = staged'
      BY <1>22 DEF Crash, Reboot, Forget, Snapshot
    <2> QED
      BY <1>22, <2>1, <2>2, <2>3, <2>4, <2>5, <2>6 DEF Crash, Reboot, Forget, host
  <1>23. ASSUME NEW f \in Images, StartImage(f) \/ StopImage(f) PROVE TypeOK'
    BY <1>23 DEF StartImage, StopImage, book, hist
  <1>24. CASE UNCHANGED vars
    BY <1>24 DEF vars
  <1> QED
    BY <1>1, <1>2, <1>3, <1>4, <1>5, <1>7, <1>8, <1>9, <1>10, <1>11, <1>13, <1>14, <1>17,
       <1>18, <1>19, <1>20, <1>21, <1>22, <1>23, <1>24
       DEF Next, Step, RollBack, Environment

(* Every variable keeps its type: in particular a row is always in hand,   *)
(* the guard holds entries only, and an undo finds a file or service of    *)
(* the host behind every one of them.                                      *)
THEOREM TypeCorrect == Spec => []TypeOK
  BY TypeInit, TypeStep, PTL DEF Spec

---------------------------------------------------------------------------
(* The accounts: what the guard and the files have to do with each other.  *)

(* A file has at most one entry,                                           *)
FileEntry(e) == e.kind \in {"FileCreated", "FileReplaced", "StagingCreated"}

Touched(f) == \E i \in DOMAIN guard : FileEntry(guard[i]) /\ guard[i].on = f

OncePerFile ==
  \A i, j \in DOMAIN guard :
    FileEntry(guard[i]) /\ FileEntry(guard[j]) /\ guard[i].on = guard[j].on => i = j

(* made by a row the run has been through,                                 *)
EntriesBehind ==
  mode = "steps" =>
    \A i \in DOMAIN guard : FileEntry(guard[i]) =>
      \E k \in DOMAIN Rows : k < at /\ Rows[k].do \in Writing /\ Rows[k].on = guard[i].on

(* and saying what became of the file: what it holds, what the backup      *)
(* holds, what is due at the next restart.                                 *)
EntryTrue(e) ==
  /\ e.kind \in {"FileCreated", "FileReplaced"} =>
       file[e.on] = Latest /\ staged[e.on] = before.staged[e.on]
  /\ e.kind = "FileCreated" => before.file[e.on] = Absent
  /\ e.kind = "FileReplaced" => saved[e.on] = before.file[e.on]
  /\ e.kind = "StagingCreated" => file[e.on] = before.file[e.on] /\ staged[e.on] = Latest

EntriesTrue == Busy => \A i \in DOMAIN guard : FileEntry(guard[i]) => EntryTrue(guard[i])

(* A file without one is as the run found it, except the damaged, which    *)
(* are half written, or are the release, now or at the next restart.       *)
Same(f) == file[f] = before.file[f] /\ staged[f] = before.staged[f]

UntouchedSame ==
  mode \in {"steps", "rollback", "failed"} =>
    \A f \in Files \ damaged : Touched(f) \/ Same(f)

DamageKnown ==
  /\ mode = "steps" => damaged = {}
  /\ mode = "rollback" =>
       \A f \in damaged :
         \/ file[f] \in {Torn, Latest} /\ staged[f] = before.staged[f]
         \/ file[f] = before.file[f] /\ staged[f] = Latest
         \/ Same(f)

(* A rollback is not over while an entry is left.                          *)
NothingOwed == mode = "failed" => guard = <<>>

Accounts ==
  /\ OncePerFile /\ EntriesBehind /\ EntriesTrue
  /\ UntouchedSame /\ DamageKnown /\ NothingOwed

(* Most steps leave the files alone and make or undo no entry of a file:   *)
(* they keep the accounts.                                                 *)
FileEntriesKept ==
  /\ \A i \in DOMAIN guard : FileEntry(guard[i]) => i \in DOMAIN guard' /\ guard'[i] = guard[i]
  /\ \A i \in DOMAIN guard' : FileEntry(guard'[i]) => i \in DOMAIN guard /\ guard'[i] = guard[i]

OnlyAdvances ==
  \/ mode' = mode /\ at' \in Nat /\ at' >= at
  \/ mode = "steps" /\ mode' = "rollback"

LEMMA AccountsFramed ==
  ASSUME TypeOK, Accounts, FileEntriesKept, OnlyAdvances, mode # "failed" \/ guard' = guard,
         UNCHANGED <<file, saved, staged, before, damaged>>
  PROVE  Accounts'
  <1> USE DEF Accounts, FileEntriesKept, OnlyAdvances
  <1>1. \A f : Touched(f)' <=> Touched(f)
    BY DEF Touched
  <1>2. OncePerFile'
    BY DEF OncePerFile
  <1>3. EntriesBehind'
    <2>1. at \in DOMAIN Rows
      BY DEF TypeOK
    <2>2. at \in Nat /\ \A k \in DOMAIN Rows : k \in Nat
      BY <2>1, RowCount
    <2> QED
      BY <2>2 DEF EntriesBehind
  <1>4. EntriesTrue'
    BY DEF EntriesTrue, EntryTrue, Busy
  <1>5. UntouchedSame'
    BY <1>1 DEF UntouchedSame, Same
  <1>6. DamageKnown' /\ NothingOwed'
    BY DEF DamageKnown, NothingOwed, Same
  <1> QED
    BY <1>2, <1>3, <1>4, <1>5, <1>6

(* Entries of services and of user artifacts are of that sort.             *)
LEMMA GuardAppended ==
  ASSUME NEW g \in Seq(Entries), NEW e, ~FileEntry(e), guard = g, guard' = Append(g, e)
  PROVE  FileEntriesKept
  <1>1. DOMAIN guard' = 1..(Len(g) + 1) /\ DOMAIN g = 1..Len(g)
    OBVIOUS
  <1>2. \A i \in DOMAIN g : guard'[i] = g[i]
    OBVIOUS
  <1>3. guard'[Len(g) + 1] = e
    OBVIOUS
  <1> QED
    BY <1>1, <1>2, <1>3 DEF FileEntriesKept

LEMMA GuardExtended ==
  ASSUME NEW g \in Seq(Entries), NEW x \in Seq(Entries),
         \A i \in DOMAIN x : ~FileEntry(x[i]),
         guard = g, guard' = g \o x
  PROVE  FileEntriesKept
  <1>1. DOMAIN guard' = 1..(Len(g) + Len(x)) /\ DOMAIN g = 1..Len(g) /\ DOMAIN x = 1..Len(x)
    OBVIOUS
  <1>2. \A i \in DOMAIN guard' : i \in DOMAIN g \/ i - Len(g) \in DOMAIN x
    BY <1>1
  <1>3. \A i \in DOMAIN guard' : guard'[i] = IF i \in DOMAIN g THEN g[i] ELSE x[i - Len(g)]
    BY <1>1
  <1> QED
    BY <1>1, <1>2, <1>3 DEF FileEntriesKept

(* A run only goes forward through its rows.                               *)
LEMMA AtIsNatural == ASSUME TypeOK PROVE at \in Nat
  <1>1. at \in DOMAIN Rows
    BY DEF TypeOK
  <1> QED
    BY <1>1, RowCount

LEMMA ProceedAdvances ==
  ASSUME TypeOK, Proceed
  PROVE  OnlyAdvances /\ at' > at /\ at' \in Nat /\ at \in Nat
  <1>1. at \in DOMAIN Rows /\ at' \in DOMAIN Rows
    BY DEF TypeOK, Proceed
  <1> QED
    BY <1>1, RowCount DEF Proceed, OnlyAdvances

(* With no run in progress there is nothing to account for.                *)
LEMMA AccountsFresh == ASSUME Forget PROVE Accounts'
  <1>1. guard' = <<>> /\ damaged' = {} /\ DOMAIN guard' = {}
    BY DEF Forget
  <1>2. \A f : Same(f)'
    BY DEF Forget, Snapshot, Same
  <1> QED
    BY <1>1, <1>2 DEF Accounts, OncePerFile, EntriesBehind, EntriesTrue, UntouchedSame,
                      DamageKnown, NothingOwed

(* The row that writes a file finds it without an entry, its writer being  *)
(* the row in hand, hence as the run found it, and makes a true entry, or  *)
(* none, or one file torn and the run failed.                              *)
LEMMA AccountsWrite ==
  ASSUME TypeOK, Accounts, mode = "steps", row.do \in Writing,
         NoDownload \/ Download(row.on), UNCHANGED before
  PROVE  Accounts'
  <1> PICK f : f = row.on
    OBVIOUS
  <1>1. at \in DOMAIN Rows /\ row = Rows[at] /\ at \in Nat /\ f \in Files
    <2>1. at \in DOMAIN Rows /\ row = Rows[at]
      BY DEF TypeOK, row
    <2> QED
      BY <2>1, RowCount, RowTargets
  <1>2. ~Touched(f) /\ f \notin damaged /\ Same(f)
    <2>1. ~Touched(f)
      BY <1>1, WritesDiffer DEF Accounts, EntriesBehind, Touched
    <2> QED
      BY <1>1, <2>1 DEF Accounts, DamageKnown, UntouchedSame
  <1>3. CASE NoDownload
    <2>1. OnlyAdvances
      BY <1>3, ProceedAdvances DEF NoDownload
    <2>2. FileEntriesKept
      BY <1>3 DEF NoDownload, FileEntriesKept
    <2> QED
      BY <1>3, <2>1, <2>2, AccountsFramed DEF NoDownload
  <1>4. ASSUME NEW e, e.on = f, FileEntry(e), guard' = Append(guard, e), EntryTrue(e)',
               Proceed, UNCHANGED damaged,
               \A g \in Files : g # f => /\ file'[g] = file[g] /\ saved'[g] = saved[g]
                                        /\ staged'[g] = staged[g]
        PROVE  Accounts'
    <2>1. /\ guard \in Seq(Entries) /\ Len(guard) \in Nat /\ DOMAIN guard = 1..Len(guard)
          /\ DOMAIN guard' = 1..(Len(guard) + 1) /\ guard'[Len(guard) + 1] = e
          /\ \A i \in DOMAIN guard : guard'[i] = guard[i] /\ guard[i] \in Entries
      BY <1>4 DEF TypeOK
    <2>2. \A i \in DOMAIN guard :
            FileEntry(guard[i]) => guard[i].on # f /\ guard[i].on \in Files
      BY <1>2, <2>1 DEF Touched, FileEntry, Entries, FileEntries, RegEntries, UserEntries
    <2>3. OncePerFile'
      BY <1>4, <2>1, <2>2 DEF Accounts, OncePerFile
    <2>4. at' > at /\ at' \in Nat
      BY <1>4, ProceedAdvances
    <2>5. EntriesBehind'
      <3>1. \A i \in DOMAIN guard : FileEntry(guard[i]) =>
              \E k \in DOMAIN Rows : k < at' /\ Rows[k].do \in Writing
                                      /\ Rows[k].on = guard[i].on
        BY <1>1, <2>4, RowCount DEF Accounts, EntriesBehind
      <3> QED
        BY <1>1, <1>4, <2>1, <2>4, <3>1 DEF EntriesBehind
    <2>6. EntriesTrue'
      <3>1. \A i \in DOMAIN guard : FileEntry(guard[i]) => EntryTrue(guard[i])'
        BY <1>4, <2>1, <2>2 DEF Accounts, EntriesTrue, EntryTrue, Busy
      <3> QED
        BY <1>4, <2>1, <3>1 DEF EntriesTrue
    <2>7. \A g \in Files : Touched(g)' <=> Touched(g) \/ g = f
      BY <1>4, <2>1 DEF Touched
    <2>8. UntouchedSame' /\ DamageKnown' /\ NothingOwed'
      BY <1>4, <2>7 DEF Accounts, UntouchedSame, Same, DamageKnown, NothingOwed, Proceed
    <2> QED
      BY <2>3, <2>5, <2>6, <2>8 DEF Accounts
  <1>5. CASE Replace(f)
    <2>1. /\ file'[f] = Latest /\ saved'[f] = file[f] /\ staged'[f] = before'.staged[f]
          /\ file[f] = before'.file[f]
      BY <1>1, <1>2, <1>5 DEF Replace, Same, TypeOK
    <2>2. /\ \A g \in Files : g # f => /\ file'[g] = file[g] /\ saved'[g] = saved[g]
                                       /\ staged'[g] = staged[g]
          /\ Proceed /\ UNCHANGED damaged
      BY <1>5 DEF Replace, TypeOK
    <2>3. ASSUME NEW k \in {"FileCreated", "FileReplaced"},
                 guard' = Append(guard, Entry(k, f)),
                 k = "FileCreated" => file[f] = Absent
          PROVE  Accounts'
      <3>1. Entry(k, f).on = f /\ FileEntry(Entry(k, f)) /\ Entry(k, f).kind = k
        BY DEF FileEntry, Entry
      <3>2. EntryTrue(Entry(k, f))'
        BY <2>1, <2>3, <3>1 DEF EntryTrue
      <3> QED
        BY <1>4, <2>2, <2>3, <3>1, <3>2
    <2>4. \/ file[f] = Absent /\ guard' = Append(guard, Entry("FileCreated", f))
          \/ guard' = Append(guard, Entry("FileReplaced", f))
      BY <1>5 DEF Replace
    <2> QED
      BY <2>3, <2>4
  <1>6. CASE StageReplacement(f)
    <2>1. file'[f] = before'.file[f] /\ staged'[f] = Latest
      BY <1>1, <1>2, <1>6 DEF StageReplacement, Same, TypeOK
    <2>2. /\ \A g \in Files : g # f => /\ file'[g] = file[g] /\ saved'[g] = saved[g]
                                       /\ staged'[g] = staged[g]
          /\ Proceed /\ UNCHANGED damaged /\ guard' = Append(guard, Entry("StagingCreated", f))
      BY <1>6 DEF StageReplacement, TypeOK
    <2>3. /\ Entry("StagingCreated", f).on = f /\ FileEntry(Entry("StagingCreated", f))
          /\ Entry("StagingCreated", f).kind = "StagingCreated"
      BY DEF FileEntry, Entry
    <2>4. EntryTrue(Entry("StagingCreated", f))'
      BY <2>1, <2>3 DEF EntryTrue
    <2> QED
      BY <1>4, <2>2, <2>3, <2>4
  <1>7. CASE FetchOrWriteFails(f)
    <2>1. CASE UNCHANGED <<file, damaged>>
      <3>1. OnlyAdvances /\ FileEntriesKept
        BY <1>7 DEF FetchOrWriteFails, Fail, OnlyAdvances, FileEntriesKept
      <3> QED
        BY <1>7, <2>1, <3>1, AccountsFramed DEF FetchOrWriteFails
    <2>2. CASE file' = [file EXCEPT ![f] = Torn] /\ damaged' = damaged \cup {f}
      <3>1. /\ damaged' = {f} /\ mode' = "rollback" /\ guard' = guard
            /\ UNCHANGED <<saved, staged>>
        BY <1>7, <2>2 DEF FetchOrWriteFails, Fail, Accounts, DamageKnown
      <3>2. file'[f] = Torn /\ \A g \in Files : g # f => file'[g] = file[g]
        BY <1>1, <2>2 DEF TypeOK
      <3>3. \A i \in DOMAIN guard :
              FileEntry(guard[i]) => guard[i].on # f /\ guard[i].on \in Files
        <4>1. \A i \in DOMAIN guard : guard[i] \in Entries
          BY DEF TypeOK
        <4> QED
          BY <1>2, <4>1 DEF Touched, FileEntry, Entries, FileEntries, RegEntries, UserEntries
      <3>4. OncePerFile' /\ EntriesBehind' /\ NothingOwed'
        BY <3>1 DEF Accounts, OncePerFile, EntriesBehind, NothingOwed
      <3>5. EntriesTrue'
        BY <3>1, <3>2, <3>3 DEF Accounts, EntriesTrue, EntryTrue, Busy
      <3>6. UntouchedSame'
        BY <3>1, <3>2 DEF Accounts, UntouchedSame, Touched, Same, DamageKnown
      <3>7. DamageKnown'
        BY <1>2, <3>1, <3>2 DEF DamageKnown, Same
      <3> QED
        BY <3>4, <3>5, <3>6, <3>7 DEF Accounts
    <2> QED
      BY <1>7, <2>1, <2>2 DEF FetchOrWriteFails
  <1> QED
    BY <1>3, <1>5, <1>6, <1>7 DEF Download

(* An undo takes the last entry off the guard.                             *)
LEMMA LastRemoved ==
  ASSUME TypeOK, NEW kinds, Undoing(kinds)
  PROVE  /\ Len(guard) \in DOMAIN guard /\ last = guard[Len(guard)] /\ last \in Entries
         /\ last.kind \in kinds
         /\ DOMAIN guard' = DOMAIN guard \ {Len(guard)}
         /\ \A i \in DOMAIN guard' : guard'[i] = guard[i] /\ guard[i] \in Entries
  <1>1. /\ guard \in Seq(Entries) /\ guard # <<>> /\ last = guard[Len(guard)]
        /\ guard' = SubSeq(guard, 1, Len(guard) - 1) /\ last.kind \in kinds
    BY DEF TypeOK, Undoing, last
  <1>2. Len(guard) \in Nat /\ Len(guard) > 0 /\ DOMAIN guard = 1..Len(guard)
    BY <1>1
  <1>3. /\ DOMAIN guard' = 1..(Len(guard) - 1)
        /\ \A i \in 1..(Len(guard) - 1) : guard'[i] = guard[i]
    BY <1>1, <1>2
  <1> QED
    BY <1>1, <1>2, <1>3

LEMMA EntryTargets ==
  ASSUME NEW e \in Entries
  PROVE  /\ FileEntry(e) => e.on \in Files
         /\ e.kind \in {"ServiceRegistered", "BeaconRearmed"} => e.on \in Services
  BY DEF FileEntry, Entries, FileEntries, RegEntries, UserEntries

(* An undo makes the file what the entry's truth says it was before, or    *)
(* reports it; the entry being the only one of its file, the others stay   *)
(* true.                                                                   *)
LEMMA AccountsUndo ==
  ASSUME TypeOK, Accounts, UndoFile \/ UndoStaging \/ UndoFileFails
  PROVE  Accounts'
  <1> DEFINE Kinds == {"FileCreated", "FileReplaced", "StagingCreated"}
  <1>1. Undoing(Kinds) /\ mode = "rollback" /\ mode' = "rollback" /\ UNCHANGED before
    BY DEF UndoFile, UndoStaging, UndoFileFails, Undoing
  <1> PICK f : f = last.on
    OBVIOUS
  <1>2. /\ Len(guard) \in DOMAIN guard /\ last = guard[Len(guard)] /\ last \in Entries
        /\ last.kind \in Kinds /\ FileEntry(last) /\ f \in Files
        /\ DOMAIN guard' = DOMAIN guard \ {Len(guard)}
        /\ \A i \in DOMAIN guard' : guard'[i] = guard[i] /\ guard[i] \in Entries
    BY <1>1, LastRemoved, EntryTargets DEF FileEntry
  <1>3. \A i \in DOMAIN guard' : FileEntry(guard[i]) => guard[i].on # f /\ guard[i].on \in Files
    BY <1>2, EntryTargets DEF Accounts, OncePerFile
  <1>4. EntryTrue(last)
    BY <1>1, <1>2 DEF Accounts, EntriesTrue, Busy
  <1>5. OncePerFile' /\ EntriesBehind' /\ NothingOwed'
    BY <1>1, <1>2 DEF Accounts, OncePerFile, EntriesBehind, NothingOwed
  <1>6. \A g \in Files : g # f => Touched(g)' = Touched(g)
    BY <1>2 DEF Touched
  <1>7. \A g \in Files : g # f => /\ file'[g] = file[g] /\ saved'[g] = saved[g]
                                 /\ staged'[g] = staged[g]
    BY <1>2 DEF UndoFile, UndoStaging, UndoFileFails, TypeOK
  <1>8. EntriesTrue'
    BY <1>1, <1>2, <1>3, <1>7 DEF Accounts, EntriesTrue, EntryTrue, Busy
  <1>9. \/ Same(f)' /\ UNCHANGED damaged
        \/ damaged' = damaged \cup {f} /\ UNCHANGED <<file, staged>>
    <2>1. CASE UndoFile
      BY <1>1, <1>2, <1>4, <2>1 DEF UndoFile, Undoing, EntryTrue, Same, TypeOK
    <2>2. CASE UndoStaging
      BY <1>1, <1>2, <1>4, <2>2 DEF UndoStaging, Undoing, EntryTrue, Same, TypeOK
    <2> QED
      BY <2>1, <2>2 DEF UndoFileFails
  <1>10. UntouchedSame'
    <2>1. ASSUME NEW g \in Files, g \notin damaged' PROVE (Touched(g) \/ Same(g))'
      <3>1. CASE g = f
        BY <1>9, <2>1, <3>1
      <3>2. CASE g # f
        BY <1>1, <1>6, <1>7, <1>9, <2>1, <3>2 DEF Accounts, UntouchedSame, Same
      <3> QED
        BY <3>1, <3>2
    <2> QED
      BY <2>1 DEF UntouchedSame
  <1>11. DamageKnown'
    <2>1. ASSUME NEW g \in damaged'
          PROVE  \/ file'[g] \in {Torn, Latest} /\ staged'[g] = before'.staged[g]
                 \/ file'[g] = before'.file[g] /\ staged'[g] = Latest
                 \/ Same(g)'
      BY <1>1, <1>2, <1>4, <1>7, <1>9, <2>1 DEF Accounts, DamageKnown, EntryTrue, Same, TypeOK
    <2> QED
      BY <1>1, <2>1 DEF DamageKnown, Same
  <1> QED
    BY <1>5, <1>8, <1>10, <1>11 DEF Accounts

(* Every step keeps the accounts; one step of the proof for each action.   *)
LEMMA AccountsStep == ASSUME TypeOK, Accounts, [Next]_vars PROVE Accounts'
  <1> DEFINE Frame == UNCHANGED <<file, saved, staged, before, damaged>>
  <1>1. guard' = guard => FileEntriesKept
    BY DEF FileEntriesKept
  <1>2. ASSUME Frame, OnlyAdvances, FileEntriesKept, mode # "failed" \/ guard' = guard
        PROVE  Accounts'
    BY <1>2, AccountsFramed
  <1>3. CASE Begin \/ Crash \/ Reboot
    BY <1>3, AccountsFresh DEF Begin, Crash, Reboot
  <1>4. CASE Supersede \/ Resolve \/ Stop
    <2>1. Frame /\ guard' = guard /\ OnlyAdvances
      BY <1>4, ProceedAdvances
         DEF Supersede, Resolve, Stop, Unregister, host, book, hist, Fail, Doing, OnlyAdvances
    <2> QED
      BY <1>1, <1>2, <2>1
  <1>5. CASE Migrate
    <2>1. PICK x \in Seq(Entries) : /\ \A i \in DOMAIN x : ~FileEntry(x[i])
                                   /\ guard' = guard \o x
      <3>1. ASSUME NEW S PROVE /\ RearmEntries(S) \in Seq(Entries)
                               /\ \A i \in DOMAIN RearmEntries(S) : ~FileEntry(RearmEntries(S)[i])
        <4>1. \A k \in {"ServiceRegistered", "BeaconRearmed"}, s \in Services :
                Entry(k, s) \in Entries /\ ~FileEntry(Entry(k, s))
          BY EntryTypes DEF FileEntry, Entry
        <4>2. ASSUME NEW e \in Entries, ~FileEntry(e), NEW x \in {<<e>>, <<>>}
              PROVE  x \in Seq(Entries) /\ \A i \in DOMAIN x : ~FileEntry(x[i])
          <5>1. CASE x = <<>>
            BY <5>1
          <5>2. CASE x = <<e>>
            <6>1. DOMAIN x = {1} /\ x[1] = e
              BY <5>2
            <6> QED
              BY <4>2, <5>2, <6>1
          <5> QED
            BY <5>1, <5>2
        <4>3. ASSUME NEW x \in Seq(Entries), \A i \in DOMAIN x : ~FileEntry(x[i]),
                     NEW y \in Seq(Entries), \A i \in DOMAIN y : ~FileEntry(y[i])
              PROVE  /\ x \o y \in Seq(Entries)
                     /\ \A i \in DOMAIN (x \o y) : ~FileEntry((x \o y)[i])
          BY <4>3
        <4> DEFINE a == IF "dig-updater" \in S
                        THEN <<Entry("BeaconRearmed", "dig-updater")>> ELSE <<>>
                   b == IF "dig-node" \in S
                        THEN <<Entry("ServiceRegistered", "dig-node")>> ELSE <<>>
                   c == IF "dig-relay" \in S
                        THEN <<Entry("ServiceRegistered", "dig-relay")>> ELSE <<>>
                   d == IF "dig-dns" \in S
                        THEN <<Entry("ServiceRegistered", "dig-dns")>> ELSE <<>>
                   Ok(x) == x \in Seq(Entries) /\ \A i \in DOMAIN x : ~FileEntry(x[i])
        <4>4. Ok(a) /\ Ok(b) /\ Ok(c) /\ Ok(d)
          BY <4>1, <4>2 DEF Services
        <4>5. RearmEntries(S) = a \o b \o c \o d
          BY DEF RearmEntries
        <4> HIDE DEF a, b, c, d
        <4>6. Ok(a \o b)
          BY <4>3, <4>4
        <4>7. Ok(a \o b \o c)
          BY <4>3, <4>4, <4>6
        <4>8. Ok(a \o b \o c \o d)
          BY <4>3, <4>4, <4>7
        <4> QED
          BY <4>5, <4>8
      <3> QED
        BY <1>5, <3>1 DEF Migrate
    <2>2. FileEntriesKept
      BY <2>1, GuardExtended DEF TypeOK
    <2>3. Frame /\ OnlyAdvances /\ mode # "failed"
      BY <1>5, ProceedAdvances DEF Migrate, Doing
    <2> QED
      BY <1>2, <2>2, <2>3
  <1>6. CASE Write \/ Place \/ Alias
    <2>1. /\ mode = "steps" /\ row.do \in Writing /\ UNCHANGED before
          /\ NoDownload \/ Download(row.on)
      BY <1>6 DEF Write, Place, Alias, Doing, Writing
    <2> QED
      BY <2>1, AccountsWrite
  <1>7. CASE Register \/ Autostart \/ Scheme \/ Harden
    <2>1. Frame /\ OnlyAdvances /\ mode # "failed"
      BY <1>7, ProceedAdvances DEF Register, Autostart, Scheme, Harden, Artifact, Doing, hist
    <2>2. \/ guard' = guard
          \/ guard' = Append(guard, Entry("ServiceRegistered", row.on))
          \/ guard' = Append(guard, Entry("Artifact", row.on))
          \/ guard' = Append(guard, Entry("Artifact", "autostart"))
      BY <1>7 DEF Register, Autostart, Scheme, Harden, Artifact
    <2>3. \A k \in {"ServiceRegistered", "Artifact"} : \A o : ~FileEntry(Entry(k, o))
      BY DEF FileEntry, Entry
    <2>4. FileEntriesKept
      BY <1>1, <2>2, <2>3, GuardAppended DEF TypeOK
    <2> QED
      BY <1>2, <2>1, <2>4
  <1>8. CASE Finish
    BY <1>8 DEF Finish, book, hist, Accounts, OncePerFile, EntriesBehind, EntriesTrue, Busy,
                UntouchedSame, DamageKnown, NothingOwed
  <1>9. CASE UndoFile \/ UndoStaging \/ UndoFileFails
    BY <1>9, AccountsUndo
  <1>10. CASE UndoService \/ UndoBeacon \/ UndoArtifact
    <2>1. Frame /\ OnlyAdvances /\ mode # "failed"
      <3>1. at \in Nat
        BY AtIsNatural
      <3> QED
        BY <1>10, <3>1 DEF UndoService, UndoBeacon, UndoArtifact, Undoing, OnlyAdvances
    <2>2. PICK kinds :
            /\ Undoing(kinds)
            /\ kinds \cap {"FileCreated", "FileReplaced", "StagingCreated"} = {}
      BY <1>10 DEF UndoService, UndoBeacon, UndoArtifact
    <2>3. FileEntriesKept
      BY <2>2, LastRemoved DEF FileEntriesKept, FileEntry
    <2> QED
      BY <1>2, <2>1, <2>3
  <1>11. CASE EndRollback
    BY <1>11 DEF EndRollback, host, book, hist, Accounts, OncePerFile, EntriesBehind,
                 EntriesTrue, Busy, UntouchedSame, Same, Touched, DamageKnown, NothingOwed
  <1>12. ASSUME NEW f \in Images, StartImage(f) \/ StopImage(f) PROVE Accounts'
    <2>1. Frame /\ OnlyAdvances /\ guard' = guard
      <3>1. at \in Nat
        BY AtIsNatural
      <3> QED
        BY <1>12, <3>1 DEF StartImage, StopImage, book, hist, OnlyAdvances
    <2> QED
      BY <1>1, <1>2, <2>1
  <1>13. CASE UNCHANGED vars
    <2>1. Frame /\ OnlyAdvances /\ guard' = guard
      <3>1. at \in Nat
        BY AtIsNatural
      <3> QED
        BY <1>13, <3>1 DEF vars, OnlyAdvances
    <2> QED
      BY <1>1, <1>2, <2>1
  <1> QED
    BY <1>3, <1>4, <1>5, <1>6, <1>7, <1>8, <1>9, <1>10, <1>11, <1>12, <1>13
       DEF Next, Step, RollBack, Environment

LEMMA AccountsInit == Init => Accounts
  <1> SUFFICES ASSUME Init PROVE Accounts
    OBVIOUS
  <1>1. mode = "idle" /\ guard = <<>> /\ DOMAIN guard = {}
    BY DEF Init
  <1> QED
    BY <1>1 DEF Accounts, OncePerFile, EntriesBehind, EntriesTrue, Busy, UntouchedSame,
                DamageKnown, NothingOwed

(* At every moment of a run, what RollbackGuard has recorded of the files  *)
(* is true of them, and what it has not recorded has not changed.          *)
THEOREM Accounting == Spec => [](TypeOK /\ Accounts)
  <1>1. Init => TypeOK /\ Accounts
    BY TypeInit, AccountsInit
  <1>2. TypeOK /\ Accounts /\ [Next]_vars => (TypeOK /\ Accounts)'
    BY TypeStep, AccountsStep
  <1> QED
    BY <1>1, <1>2, PTL DEF Spec

(* A failed run leaves every file, and what is due at the next restart, as *)
(* it found it, but for those it reports (note_binary_written and          *)
(* rollback_partial_install).                                              *)
THEOREM RollbackRestores == Spec => []RollbackRestoresFiles
  <1>1. Accounts => RollbackRestoresFiles
    BY DEF Accounts, NothingOwed, UntouchedSame, Touched, Same, RollbackRestoresFiles
  <1> QED
    BY Accounting, <1>1, PTL

---------------------------------------------------------------------------
(* The claims: what a run claims to have re-armed is of a component its    *)
(* plan does not select, so no later row of it touches the registration,   *)
(* and an undo that does retracts the claim or reports that it failed.     *)
ClaimsBacked ==
  /\ mode = "steps" => InPlan(row)
  /\ \A s \in claims \ stuck : reg[s] = "own" /\ (mode = "steps" => s \notin Selected)

LEMMA ClaimsStep == ASSUME TypeOK, ClaimsBacked, [Next]_vars PROVE ClaimsBacked'
  <1> USE DEF ClaimsBacked
  <1>1. reg \in [Services -> Registrations] /\ claims \subseteq Services /\ at \in DOMAIN Rows
    BY DEF TypeOK
  <1>2. Proceed => InPlan(row)' /\ UNCHANGED <<mode, plan>>
    BY DEF Proceed, InPlan, row, Parts, Selected, Windows
  <1>3. UNCHANGED <<mode, at, plan, machine>> =>
          InPlan(row)' = InPlan(row) /\ Selected' = Selected
    BY DEF InPlan, row, Parts, Selected, Windows
  <1>4. UNCHANGED plan => Selected' = Selected
    BY DEF Selected
  <1>5. CASE Begin
    BY <1>5, RowCount DEF Begin, Forget, InPlan, row, Rows, Row, Parts
  <1>6. CASE Crash \/ Reboot
    BY <1>6 DEF Crash, Reboot, Forget
  <1>7. CASE Supersede
    BY <1>1, <1>2, <1>4, <1>7 DEF Supersede, Unregister, book, hist
  <1>8. CASE Migrate
    <2>1. PICK rearmed :
            /\ claims' = rearmed /\ rearmed \cap Selected = {} /\ rearmed \subseteq Services
            /\ \A s \in rearmed : reg'[s] = "own"
      BY <1>8 DEF Migrate, Declined, Legacy
    <2> QED
      BY <1>2, <1>4, <1>8, <2>1 DEF Migrate
  <1>9. CASE Resolve \/ Stop
    BY <1>2, <1>4, <1>9 DEF Resolve, Stop, Fail, host, book, hist
  <1>10. CASE Write \/ Place \/ Alias
    <2>1. /\ UNCHANGED <<reg, claims, stuck, plan>>
          /\ Proceed \/ mode' = "rollback"
      BY <1>10 DEF Write, Place, Alias, Download, NoDownload, Replace, StageReplacement,
                   FetchOrWriteFails, Fail, Proceed
    <2> QED
      BY <1>2, <1>4, <2>1
  <1>11. CASE Register
    <2>1. row.on \in Services /\ row.of = row.on /\ Proceed /\ mode = "steps"
      BY <1>1, <1>11, RowsTyped DEF Register, Doing, row
    <2>2. row.on \in Selected
      BY <2>1 DEF InPlan, Parts, Services
    <2>3. \A s \in Services : s # row.on => reg'[s] = reg[s]
      BY <1>1, <1>11 DEF Register, RegisterBeacon, KeepService, InstallEngine, InstallDns, Set
    <2>4. UNCHANGED <<claims, stuck, plan>>
      BY <1>11, <2>1 DEF Register, Proceed
    <2> QED
      BY <1>1, <1>2, <1>4, <2>1, <2>2, <2>3, <2>4
  <1>12. CASE Autostart \/ Scheme \/ Harden
    BY <1>2, <1>4, <1>12 DEF Autostart, Scheme, Harden, Artifact, hist
  <1>13. CASE Finish \/ EndRollback
    BY <1>4, <1>13 DEF Finish, EndRollback, host, book, hist
  <1>14. CASE UndoFile \/ UndoStaging \/ UndoFileFails \/ UndoArtifact
    BY <1>14 DEF UndoFile, UndoStaging, UndoFileFails, UndoArtifact, Undoing
  <1>15. CASE UndoService
    <2>1. mode' = "rollback" /\ \A s \in Services : s # last.on => reg'[s] = reg[s]
      BY <1>1, <1>15 DEF UndoService, Undoing, Set
    <2>2. claims' \ stuck' \subseteq (claims \ stuck) \ {last.on}
      BY <1>15 DEF UndoService
    <2> QED
      BY <1>1, <2>1, <2>2
  <1>16. CASE UndoBeacon
    <2>1. mode' = "rollback" /\ \A s \in Services : s # last.on => reg'[s] = reg[s]
      BY <1>1, <1>16 DEF UndoBeacon, Undoing, Set
    <2>2. claims' \ stuck' \subseteq (claims \ stuck) \ {last.on}
      BY <1>16 DEF UndoBeacon
    <2> QED
      BY <1>1, <2>1, <2>2
  <1>17. ASSUME NEW f \in Images, StartImage(f) \/ StopImage(f) PROVE ClaimsBacked'
    BY <1>3, <1>17 DEF StartImage, StopImage, book, hist
  <1>18. CASE UNCHANGED vars
    BY <1>3, <1>18 DEF vars
  <1> QED
    BY <1>5, <1>6, <1>7, <1>8, <1>9, <1>10, <1>11, <1>12, <1>13, <1>14, <1>15, <1>16,
       <1>17, <1>18
       DEF Next, Step, RollBack, Environment

(* What the report claims was re-armed after the migration is registered   *)
(* when the run is over (retract_beacon_rearm_claim,                       *)
(* retract_service_rearm_claims).                                          *)
THEOREM ClaimsAreTrue == Spec => []ClaimsHold
  <1>1. Init => ClaimsBacked
    BY DEF Init, ClaimsBacked
  <1>2. TypeOK /\ ClaimsBacked /\ [Next]_vars => ClaimsBacked'
    BY ClaimsStep
  <1>3. ClaimsBacked => ClaimsHold
    BY DEF ClaimsBacked, ClaimsHold
  <1> QED
    BY TypeCorrect, <1>1, <1>2, <1>3, PTL DEF Spec

---------------------------------------------------------------------------
(* The refinement: the variables of AtomicInstall in terms of the model's. *)
Store == [f \in Files |-> [now |-> Root.file[f], next |-> Root.staged[f]]]

LEMMA RootIs ==
  /\ Busy => Root.file = before.file /\ Root.staged = before.staged
  /\ ~Busy => Root.file = file /\ Root.staged = staged
  BY DEF Root, Snapshot

(* A host at rest is one AtomicInstall starts from.                        *)
LEMMA AtomicInit == Init => Atomic!Init
  <1> SUFFICES ASSUME Init PROVE Atomic!Init
    OBVIOUS
  <1>1. ~Busy /\ damaged = {}
    BY DEF Init, Busy
  <1>2. \A f \in Files : file[f] \in Content \ {Torn} /\ staged[f] = Absent
    <2>1. PICK h \in [FilesOf(machine.has) -> machine.versions \cup {Absent}] :
            file = [f \in Files |-> IF f \in DOMAIN h THEN h[f] ELSE Absent]
      BY DEF Init
    <2>2. machine.versions \subseteq Versions
      BY MachineAssumption DEF Init, Machine, Versions
    <2> QED
      BY <2>1, <2>2, ContentTypes DEF Init
  <1>3. \A f \in Files : [now |-> Root.file[f], next |-> Root.staged[f]]
                         \in {Atomic!Slot(c, Absent) : c \in Content \ {Torn}}
    BY <1>1, <1>2, RootIs DEF Atomic!Slot
  <1> QED
    BY <1>1, <1>3 DEF Atomic!Init

(* A step inside a run, or one that changes no file, is a stutter.         *)
LEMMA AtomicStutter ==
  ASSUME Busy' = Busy, Busy => before' = before, ~Busy => UNCHANGED <<file, staged, damaged>>
  PROVE  UNCHANGED Atomic!Vars
  <1>1. UNCHANGED <<Root.file, Root.staged>>
    BY RootIs DEF Root, Snapshot
  <1> QED
    BY <1>1 DEF Atomic!Vars

(* The store is the host as it is, or, during a run, as it was before.     *)
LEMMA StoreIs ==
  /\ DOMAIN Store = Files
  /\ \A f \in Files : Busy => Store[f] = Atomic!Slot(before.file[f], before.staged[f])
  /\ \A f \in Files : ~Busy => Store[f] = Atomic!Slot(file[f], staged[f])
  BY RootIs DEF Store, Atomic!Slot

(* What the accounts say of each program, whatever the rollback has done.   *)
LEMMA BusySlots ==
  ASSUME TypeOK, Accounts, Busy, NEW f \in Files
  PROVE  /\ Atomic!Slot(file[f], staged[f]) \in Atomic!Halfway(f)
         /\ mode = "steps" => Atomic!Slot(file[f], staged[f]) \in Atomic!Installed(f)
         /\ mode = "rollback" /\ guard = <<>> /\ f \notin damaged =>
              Atomic!Slot(file[f], staged[f]) = Store[f]
  <1>1. Store[f] = Atomic!Slot(before.file[f], before.staged[f])
    BY StoreIs
  <1>2. Same(f) => Atomic!Slot(file[f], staged[f]) = Store[f]
    BY <1>1 DEF Same
  <1>3. /\ Store[f].now = before.file[f] /\ Store[f].next = before.staged[f]
        /\ Atomic!Installed(f) = {Store[f], Atomic!Slot(Latest, before.staged[f]),
                                  Atomic!Slot(before.file[f], Latest)}
        /\ Atomic!Halfway(f) = Atomic!Installed(f) \cup {Atomic!Slot(Torn, before.staged[f])}
    BY <1>1 DEF Atomic!Installed, Atomic!Halfway, Atomic!Slot, Store
  <1>4. CASE Touched(f)
    <2>1. PICK i \in DOMAIN guard : FileEntry(guard[i]) /\ guard[i].on = f
      BY <1>4 DEF Touched
    <2>2. EntryTrue(guard[i])
      BY <2>1 DEF Accounts, EntriesTrue
    <2>3. Atomic!Slot(file[f], staged[f]) \in Atomic!Installed(f)
      BY <1>3, <2>1, <2>2 DEF EntryTrue, FileEntry
    <2> QED
      BY <1>3, <2>1, <2>3
  <1>5. CASE ~Touched(f) /\ f \notin damaged
    BY <1>2, <1>3, <1>5 DEF Accounts, UntouchedSame, Busy
  <1>6. CASE f \in damaged
    BY <1>2, <1>3, <1>6 DEF Accounts, DamageKnown, Busy
  <1> QED
    BY <1>4, <1>5, <1>6

(* Every step is a step of AtomicInstall or a stutter: a run opens, and    *)
(* commits, aborts or dies, and the accounts say in what state of its      *)
(* programs.                                                               *)
LEMMA AtomicStep ==
  ASSUME TypeOK, Accounts, [Next]_vars
  PROVE  [Atomic!Next]_(Atomic!Vars)
  <1>1. CASE Begin
    <2>1. ~Busy /\ Busy' /\ UNCHANGED <<file, staged>>
      BY <1>1 DEF Begin, Busy, host
    <2>2. before'.file = file /\ before'.staged = staged
      BY <1>1, <2>1 DEF Begin, Forget, Snapshot
    <2>3. UNCHANGED Store
      BY <2>1, <2>2, RootIs DEF Store, Root
    <2> QED
      BY <2>1, <2>3 DEF Atomic!Next, Atomic!Open, Store
  <1>2. CASE Finish
    <2>1. Busy /\ ~Busy' /\ mode = "steps" /\ UNCHANGED <<file, staged, damaged>>
      BY <1>2 DEF Finish, Busy, Doing, hist
    <2>2. damaged' = {}
      BY <2>1 DEF Accounts, DamageKnown
    <2>3. \A f \in Files : Store'[f] = Atomic!Slot(file[f], staged[f])
      BY <2>1, RootIs DEF Store, Root, Snapshot, Atomic!Slot
    <2>4. \A f \in Files : Store'[f] \in Atomic!Installed(f)
      BY <2>1, <2>3, BusySlots
    <2> QED
      BY <2>1, <2>2, <2>4 DEF Atomic!Next, Atomic!Commit, Store
  <1>3. CASE EndRollback
    <2>1. /\ Busy /\ ~Busy' /\ mode = "rollback" /\ guard = <<>>
          /\ UNCHANGED <<file, staged, damaged>>
      BY <1>3 DEF EndRollback, Busy, host, hist
    <2>2. \A f \in Files : Store'[f] = Atomic!Slot(file[f], staged[f])
      BY <2>1, RootIs DEF Store, Root, Snapshot, Atomic!Slot
    <2>3. \A f \in Files \ damaged' : Store'[f] = Store[f]
      BY <2>1, <2>2, BusySlots
    <2>4. damaged' \subseteq Files
      BY <2>1 DEF TypeOK
    <2> QED
      BY <2>1, <2>3, <2>4 DEF Atomic!Next, Atomic!Abort, Store
  <1>4. CASE Crash
    <2>1. Busy /\ ~Busy' /\ UNCHANGED <<file, staged>> /\ damaged' = {}
      BY <1>4 DEF Crash, Forget, Busy, host
    <2>2. \A f \in Files : Store'[f] = Atomic!Slot(file[f], staged[f])
      BY <2>1, RootIs DEF Store, Root, Snapshot, Atomic!Slot
    <2>3. \A f \in Files : Store'[f] \in Atomic!Halfway(f)
      BY <2>1, <2>2, BusySlots
    <2> QED
      BY <2>1, <2>3 DEF Atomic!Next, Atomic!Die, Store
  <1>5. CASE Reboot
    <2>1. /\ ~Busy' /\ damaged' = {}
          /\ \A f \in Files : /\ file'[f] = IF staged[f] = Absent THEN file[f] ELSE staged[f]
                             /\ staged'[f] = Absent
      BY <1>5 DEF Reboot, Forget, Busy
    <2>2. \A f \in Files : Store'[f] = Atomic!Promoted(Atomic!Slot(file[f], staged[f]))
      BY <2>1, RootIs DEF Store, Root, Snapshot, Atomic!Slot, Atomic!Promoted
    <2>3. CASE Busy
      <3>1. \A f \in Files : Store'[f] \in {Atomic!Promoted(s) : s \in Atomic!Halfway(f)}
        BY <2>2, <2>3, BusySlots
      <3> QED
        BY <2>1, <2>3, <3>1 DEF Atomic!Next, Atomic!Die, Store
    <2>4. CASE ~Busy
      <3>1. Store' = [f \in Files |-> Atomic!Promoted(Store[f])]
        BY <2>2, <2>4, StoreIs DEF Store
      <3>2. Atomic!Restart
        <4>1. ~Busy /\ UNCHANGED Busy /\ (IF Busy THEN {} ELSE damaged)' = {}
          BY <2>1, <2>4 DEF Busy
        <4>2. [f \in Files |-> [now |-> Root.file[f], next |-> Root.staged[f]]]'
                = [f \in Files |-> Atomic!Promoted(
                    [g \in Files |-> [now |-> Root.file[g], next |-> Root.staged[g]]][f])]
          BY <3>1 DEF Store
        <4> QED
          BY <4>1, <4>2 DEF Atomic!Restart
      <3> QED
        BY <3>2 DEF Atomic!Next
    <2> QED
      BY <2>3, <2>4
  <1>6. ASSUME Busy, Busy', before' = before PROVE UNCHANGED Atomic!Vars
    BY <1>6, AtomicStutter
  <1>7. CASE Supersede \/ Migrate \/ Resolve \/ Stop \/ Autostart \/ Scheme \/ Harden
    BY <1>6, <1>7 DEF Supersede, Migrate, Resolve, Stop, Autostart, Scheme, Harden, Artifact,
                      Doing, Proceed, Fail, Busy, hist
  <1>8. CASE Write \/ Place \/ Alias
    BY <1>6, <1>8 DEF Write, Place, Alias, Download, NoDownload, Replace, StageReplacement,
                      FetchOrWriteFails, Doing, Proceed, Fail, Busy
  <1>9. CASE Register
    BY <1>6, <1>9 DEF Register, Doing, Proceed, Busy
  <1>10. CASE RollBack
    BY <1>6, <1>10 DEF RollBack, UndoFile, UndoStaging, UndoFileFails, UndoService, UndoBeacon,
                       UndoArtifact, Undoing, Busy
  <1>11. ASSUME NEW f \in Images, StartImage(f) \/ StopImage(f) PROVE UNCHANGED Atomic!Vars
    BY <1>11, AtomicStutter DEF StartImage, StopImage, Busy, hist
  <1>12. CASE UNCHANGED vars
    BY <1>12, AtomicStutter DEF vars, Busy
  <1> QED
    BY <1>1, <1>2, <1>3, <1>4, <1>5, <1>7, <1>8, <1>9, <1>10, <1>11, <1>12
       DEF Next, Step, Environment

(* The installer implements AtomicInstall: to who looks at the programs    *)
(* and at what is due at the next restart, a run is a single step, however *)
(* it ends and whatever starts, stops or restarts in the meantime.         *)
THEOREM Atomicity == Spec => RunIsAtomic
  <1>1. TypeOK /\ Accounts /\ [Next]_vars => [Atomic!Next]_(Atomic!Vars)
    BY AtomicStep
  <1> QED
    BY Accounting, AtomicInit, <1>1, PTL DEF Spec, RunIsAtomic, Atomic!Spec
===========================================================================
