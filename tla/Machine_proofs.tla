---------------------------- MODULE Machine_proofs ----------------------------
(***************************************************************************)
(* What holds of the folders, the registrations, the release lookup, the   *)
(* window and the resolver, each by itself as MCMachine instantiates it,   *)
(* for any people, services, browsers and bounds.                          *)
(***************************************************************************)
EXTENDS MCMachine, FiniteSets, SequenceTheorems, WellFoundedInduction, TLAPS

(* The least number of a set, by which a claim about all of them is proved *)
(* where an induction would need an operator as a parameter.               *)
LEMMA NatMin ==
  ASSUME NEW T \in SUBSET Nat, T # {}
  PROVE  \E n \in T : \A m \in T : n <= m
<1> DEFINE less == OpToRel(<, Nat)
<1>1. \A n, m \in Nat : m < n => <<m, n>> \in less
  BY Zenon DEF OpToRel
<1>2. IsWellFoundedOn(less, Nat)
  BY NatLessThanWellFounded, Zenon
<1> HIDE DEF less
<1>3. \E n \in T : \A m \in T : <<m, n>> \notin less
  BY <1>2, WFMin, Zenon
<1>4. \E n \in T : \A m \in T : ~(m < n)
  BY <1>1, <1>3, Zenon
<1> QED  BY <1>4

LEMMA NatBounds ==
  /\ Attempts \in Nat /\ Runs \in Nat /\ ResolverRuns \in Nat /\ Toggles \in Nat
  /\ Faults \in Nat /\ FetchFaults \in Nat
BY BoundsAssumption

------------------------------------------------------------------------------
(* DaemonDir.                                                              *)
FolderRows == [created : BOOLEAN, applied : BOOLEAN]
FolderLooks == [trusted : BOOLEAN, known : BOOLEAN, kept : BOOLEAN]

(* What the daemon kept in a folder of the system's is in it.              *)
FilesFit(f, s) == s.kept /\ s.trusted /\ s.known => "daemon" \in f.files

(* What the row of a locked folder says.                                   *)
Fits(f, s) ==
  /\ f.exists /\ ~f.inherits
  /\ os = "windows" => D!Trusts(f.owner) /\ f.grants = D!Required(sid)
  /\ FilesFit(f, s)

(* A folder that is not there is nothing at all; on Unix no user makes     *)
(* one.                                                                    *)
Possible(f) ==
  /\ f \in D!Folder
  /\ f.exists \/ f = D!Absent
  /\ os = "unix" => f.owner \in D!TRUSTED

Disk == folder \in [D!DAEMONS -> D!Folder] /\ \A d \in D!DAEMONS : Possible(folder[d])

(* The rows: of the folder in hand and of those to come none is locked     *)
(* yet, and no other is half done.                                         *)
RowsSoFar ==
  /\ result \in [D!DAEMONS -> FolderRows]
  /\ \A d \in D!DAEMONS : step = "idle" \/ d # at => result[d].created = result[d].applied
  /\ step # "idle" => ~result[at].applied /\ \A d \in D!Later(at) : ~result[d].applied
  /\ \A d \in D!DAEMONS : result[d].applied => Fits(folder[d], found[d])

(* The folder in hand, once it has been looked at.                         *)
InHand ==
  /\ step \notin {"idle", "look"} => FilesFit(folder[at], found[at])
  /\ step \notin {"idle", "look", "create"} => folder[at].exists
  /\ step \in {"owner", "reset", "grant", "verify"} => os = "windows"
  /\ step = "mode" => os = "unix"

FolderInvariant == D!TypeOK /\ Disk /\ RowsSoFar /\ InHand

(* What a user left in a folder of theirs is in a folder that still is,    *)
(* which no run has in hand, or in one taken from them and not removed.    *)
Apart ==
  \A d \in D!DAEMONS :
    "before" \in folder[d].files =>
      d \in taken \/ (folder[d].owner = "user" /\ ~D!InHand(d))

(* The invariant gives the promise.                                        *)
LEMMA FolderSuffices == FolderInvariant /\ Apart => D!TypeOK /\ D!FolderHolds
<1> SUFFICES ASSUME FolderInvariant, Apart PROVE D!TypeOK /\ D!FolderHolds
  OBVIOUS
<1>1. D!TypeOK /\ D!AppliedMeansLocked /\ D!DaemonKeepsState /\ D!NoOpenFolderReported
  BY DEF FolderInvariant, RowsSoFar, Fits, FilesFit, D!AppliedMeansLocked,
         D!DaemonKeepsState, D!NoOpenFolderReported
<1>2. \A d \in D!DAEMONS : result[d].applied => folder[d].owner # "user"
  BY DEF FolderInvariant, RowsSoFar, Fits, Disk, Possible, D!Trusts, D!TRUSTED, D!TypeOK
<1> QED  BY <1>1, <1>2 DEF Apart, D!UsersFilesGone, D!FolderHolds

LEMMA TheDaemons == D!DAEMONS = {"dig-node", "dig-dns"} /\ D!Later("dig-node") = {"dig-dns"}
                 /\ D!Later("dig-dns") = {}
BY DEF D!DAEMONS, D!Later

LEMMA FolderFaults ==
  ASSUME D!TypeOK, D!Fault \/ D!NoFault
  PROVE  faults' \in 0..Faults
BY NatBounds DEF D!TypeOK, D!Fault, D!NoFault

LEMMA FolderShapes ==
  /\ D!Absent \in D!Folder /\ Possible(D!Absent)
  /\ \A who \in D!OWNERS : D!Made(who) \in D!Folder /\ D!Made(who).exists
BY DEF D!Absent, D!Made, D!Folder, D!OWNERS, D!TRUSTED, D!PARTIES, D!FILES, Possible

(* The folder in hand gets this content, and no other one changes.         *)
FolderChanged(f) == folder' = [folder EXCEPT ![at] = f]

LEMMA DiskKept ==
  ASSUME FolderInvariant, NEW f, Possible(f), FolderChanged(f), os' = os
  PROVE  Disk' /\ folder'[at] = f /\ \A d \in D!DAEMONS : d # at => folder'[d] = folder[d]
BY DEF FolderInvariant, Disk, FolderChanged, Possible, D!TypeOK

(* A step that stays with the folder in hand.                              *)
LEMMA FolderMovesOn ==
  ASSUME FolderInvariant, D!Running, D!Fault \/ D!NoFault, UNCHANGED <<at, result>>,
         NEW f, Possible(f), FolderChanged(f), taken' \in SUBSET D!DAEMONS,
         found' \in [D!DAEMONS -> FolderLooks], \A d \in D!DAEMONS : d # at => found'[d] = found[d],
         step' \in D!STEPS \ {"idle"}, InHand'
  PROVE  FolderInvariant'
<1>1. Disk' /\ \A d \in D!DAEMONS : d # at => folder'[d] = folder[d]
  BY DiskKept DEF D!Running
<1>2. D!TypeOK'
  BY <1>1, FolderFaults DEF FolderInvariant, D!TypeOK, D!Running, Disk, FolderLooks
<1>3. RowsSoFar'
  BY <1>1 DEF FolderInvariant, RowsSoFar, D!Running, Fits, D!TypeOK
<1> QED  BY <1>1, <1>2, <1>3 DEF FolderInvariant

(* A step that reports the folder in hand, locked or given up.             *)
LEMMA FolderReported ==
  ASSUME FolderInvariant, D!Running, D!Fault \/ D!NoFault,
         NEW f, Possible(f), FolderChanged(f), taken' \in SUBSET D!DAEMONS,
         found' \in [D!DAEMONS -> FolderLooks], \A d \in D!DAEMONS : d # at => found'[d] = found[d],
         NEW applied \in BOOLEAN, D!Report(D!Row(applied, applied)),
         applied => Fits(f, found'[at])
  PROVE  FolderInvariant'
<1>1. Disk' /\ folder'[at] = f /\ \A d \in D!DAEMONS : d # at => folder'[d] = folder[d]
  BY DiskKept DEF D!Running
<1>2. /\ at \in D!DAEMONS /\ at' \in D!DAEMONS /\ step' \in {"idle", "look"}
      /\ step' = "look" => at' \in D!Later(at)
      /\ step' = "idle" => at' = at /\ D!Later(at) = {}
  BY TheDaemons DEF D!Report, FolderInvariant, D!TypeOK
<1>3. /\ result' = [result EXCEPT ![at] = D!Row(applied, applied)]
      /\ D!Row(applied, applied) \in FolderRows
  BY DEF D!Report, D!Row, FolderRows
<1>4. D!TypeOK'
  BY <1>1, <1>2, <1>3, FolderFaults
  DEF FolderInvariant, D!TypeOK, D!Running, Disk, FolderLooks, FolderRows, D!STEPS
<1>5. RowsSoFar'
  <2>1. result' \in [D!DAEMONS -> FolderRows] /\ result'[at].applied = applied
        /\ result'[at].created = applied
    BY <1>2, <1>3 DEF FolderInvariant, RowsSoFar, D!Row
  <2>2. \A d \in D!DAEMONS : d # at => result'[d] = result[d]
    BY <1>2, <1>3 DEF FolderInvariant, RowsSoFar
  <2>3. \A d \in D!DAEMONS : result[d].applied /\ d # at => Fits(folder[d], found[d])'
    BY <1>1 DEF FolderInvariant, RowsSoFar, D!Running, Fits
  <2>4. \A d \in D!DAEMONS : applied /\ d = at => Fits(folder[d], found[d])'
    BY <1>1 DEF D!Running, Fits
  <2>5. \A d \in D!DAEMONS : d # at => result[d].created = result[d].applied
    BY DEF FolderInvariant, RowsSoFar
  <2>6. \A d \in D!Later(at) : ~result[d].applied /\ d # at /\ D!Later(d) = {}
    BY <1>2, TheDaemons DEF FolderInvariant, RowsSoFar, D!Running
  <2>7. \A d \in D!DAEMONS : result'[d].applied => Fits(folder[d], found[d])'
    BY <2>1, <2>2, <2>3, <2>4
  <2>8. \A d \in D!DAEMONS : step' = "idle" \/ d # at' => result'[d].created = result'[d].applied
    BY <1>2, <2>1, <2>2, <2>5, TheDaemons
  <2>9. step' # "idle" => ~result'[at'].applied /\ \A d \in D!Later(at') : ~result'[d].applied
    BY <1>2, <2>2, <2>6
  <2> QED  BY <2>1, <2>7, <2>8, <2>9 DEF RowsSoFar
<1>6. InHand'
  BY <1>2 DEF InHand
<1> QED  BY <1>1, <1>4, <1>5, <1>6 DEF FolderInvariant

(* A folder given up: what becomes of it, nothing of it is reported.       *)
LEMMA FolderGivenUp ==
  ASSUME FolderInvariant, D!Running, D!Fault \/ D!NoFault,
         found' \in [D!DAEMONS -> FolderLooks], \A d \in D!DAEMONS : d # at => found'[d] = found[d],
         taken' \in SUBSET D!DAEMONS, D!Report(D!Row(FALSE, FALSE)),
         NEW g, Possible(g), D!Removed(at) \/ D!HalfRemoved(at, g)
  PROVE  FolderInvariant'
<1>1. CASE D!Removed(at)
  <2>1. FolderChanged(D!Absent)
    BY <1>1 DEF D!Removed, FolderChanged
  <2> QED  BY <2>1, FolderShapes, FolderReported
<1>2. CASE D!HalfRemoved(at, g)
  <2>1. PICK rest \in SUBSET g.files : folder' = [folder EXCEPT ![at] = [g EXCEPT !.files = rest]]
    BY <1>2 DEF D!HalfRemoved
  <2> DEFINE f == [g EXCEPT !.files = rest]
  <2>2. g \in D!Folder
    BY DEF Possible
  <2>3. f \in D!Folder /\ f.exists = g.exists /\ f.owner = g.owner
    BY <2>2 DEF D!Folder
  <2>4. g = D!Absent => f = D!Absent
    BY DEF D!Absent
  <2>5. Possible(f) /\ FolderChanged(f)
    BY <2>1, <2>2, <2>3, <2>4 DEF Possible, FolderChanged
  <2> QED  BY <2>5, FolderReported
<1> QED  BY <1>1, <1>2

LEMMA FolderLeft ==
  ASSUME FolderInvariant, D!Running, D!Fault \/ D!NoFault, UNCHANGED found, D!GiveUp
  PROVE  FolderInvariant'
<1>1. /\ found' \in [D!DAEMONS -> FolderLooks] /\ \A d \in D!DAEMONS : d # at => found'[d] = found[d]
      /\ taken \in SUBSET D!DAEMONS /\ Possible(folder[at])
  BY DEF FolderInvariant, Disk, D!TypeOK, FolderLooks
<1>2. taken' \in SUBSET D!DAEMONS /\ D!Report(D!Row(FALSE, FALSE))
  BY <1>1 DEF D!GiveUp, D!Removed
<1>3. D!Removed(at) \/ D!HalfRemoved(at, folder[at])
  BY DEF D!GiveUp
<1> QED  BY <1>1, <1>2, <1>3, FolderGivenUp

(* Nothing changes on the disk, and the folder is not reported.            *)
LEMMA FolderRefused ==
  ASSUME FolderInvariant, D!Running, D!Fault \/ D!NoFault, UNCHANGED <<folder, found, taken>>,
         D!Report(D!Row(FALSE, FALSE))
  PROVE  FolderInvariant'
<1>1. Possible(folder[at]) /\ FolderChanged(folder[at])
  BY DEF FolderInvariant, Disk, D!TypeOK, FolderChanged
<1>2. found' \in [D!DAEMONS -> FolderLooks] /\ \A d \in D!DAEMONS : d # at => found'[d] = found[d]
  BY DEF FolderInvariant, D!TypeOK, FolderLooks
<1>3. taken' \in SUBSET D!DAEMONS
  BY DEF FolderInvariant, D!TypeOK
<1> QED  BY <1>1, <1>2, <1>3, FolderReported

LEMMA FolderLook ==
  ASSUME FolderInvariant, D!Look
  PROVE  FolderInvariant'
<1>1. PICK read \in D!Reads(at) :
       /\ found' = [found EXCEPT ![at] =
            [trusted |-> folder[at].owner \in D!TRUSTED, known |-> ~read.fault,
             kept |-> "daemon" \in folder[at].files]]
       /\ IF read.fault THEN D!Fault ELSE D!NoFault
       /\ IF folder[at].exists /\ ~D!Trusts(read.owner)
            THEN D!Purge
            ELSE step' = "create" /\ UNCHANGED <<folder, taken, at, result>>
  BY DEF D!Look
<1>2. /\ D!Running /\ (D!Fault \/ D!NoFault) /\ at \in D!DAEMONS
      /\ Possible(folder[at]) /\ folder \in [D!DAEMONS -> D!Folder]
      /\ taken \in SUBSET D!DAEMONS
  <2>1. D!Running /\ (D!Fault \/ D!NoFault)
    BY <1>1 DEF D!Look
  <2> QED  BY <2>1 DEF FolderInvariant, D!TypeOK, Disk
<1>3. folder' = folder => FolderChanged(folder[at])
  BY <1>2 DEF FolderChanged
<1>4. ~read.fault /\ folder[at].exists =>
        read.owner = IF os = "windows" THEN folder[at].owner ELSE "system"
  BY DEF D!Reads, D!dir_owner_sid
<1>5. /\ found' \in [D!DAEMONS -> FolderLooks]
      /\ \A d \in D!DAEMONS : d # at => found'[d] = found[d]
      /\ found'[at].trusted = (folder[at].owner \in D!TRUSTED)
      /\ found'[at].known = ~read.fault
      /\ found'[at].kept = ("daemon" \in folder[at].files)
  <2> DEFINE s == [trusted |-> folder[at].owner \in D!TRUSTED, known |-> ~read.fault,
                   kept |-> "daemon" \in folder[at].files]
  <2>1. s \in FolderLooks
    BY DEF FolderLooks
  <2>2. found' = [found EXCEPT ![at] = s] /\ found \in [D!DAEMONS -> FolderLooks]
    BY <1>1 DEF FolderInvariant, D!TypeOK, FolderLooks
  <2>3. found'[at] = s
    BY <1>2, <2>2
  <2> QED  BY <1>2, <2>1, <2>2, <2>3
<1>6. CASE step' = "create" /\ UNCHANGED <<folder, taken, at, result>>
  <2>1. FilesFit(folder[at], found'[at])
    BY <1>5 DEF FilesFit
  <2>2. InHand'
    BY <1>6, <2>1 DEF InHand, FilesFit
  <2> QED  BY <1>2, <1>3, <1>5, <1>6, <2>2, FolderMovesOn DEF D!STEPS
<1>7. CASE D!Removed(at) /\ folder[at].exists /\ ~D!Trusts(read.owner)
           /\ step' = "create" /\ UNCHANGED <<at, result>>
  <2>1. FolderChanged(D!Absent) /\ folder'[at] = D!Absent /\ taken' \in SUBSET D!DAEMONS
    BY <1>2, <1>7 DEF D!Removed, FolderChanged, FolderInvariant, D!TypeOK
  <2>2. ~(found'[at].trusted /\ found'[at].known)
    BY <1>4, <1>2, <1>5, <1>7 DEF D!Trusts, D!TRUSTED
  <2>3. InHand'
    BY <1>7, <2>1, <2>2 DEF InHand, FilesFit, D!Absent
  <2> QED  BY <1>2, <1>5, <1>7, <2>1, <2>3, FolderShapes, FolderMovesOn DEF D!STEPS
<1>8. CASE /\ \/ D!HalfRemoved(at, D!setowner_system(folder[at]))
                 /\ taken' = IF D!Trusts(folder[at].owner) THEN taken ELSE taken \cup {at}
              \/ D!HalfRemoved(at, folder[at]) /\ UNCHANGED taken
           /\ D!Report(D!Row(FALSE, FALSE))
  <2>1. taken' \in SUBSET D!DAEMONS
    BY <1>2, <1>8
  <2>2. Possible(D!setowner_system(folder[at]))
    <3> DEFINE g == [folder[at] EXCEPT !.owner = "system"]
    <3>1. g \in D!Folder /\ g.exists = folder[at].exists /\ g.owner = "system"
      BY <1>2 DEF D!Folder, D!OWNERS, D!TRUSTED, Possible
    <3>2. folder[at] = D!Absent => g = D!Absent
      BY DEF D!Absent
    <3> QED  BY <1>2, <3>1, <3>2 DEF Possible, D!setowner_system, D!TRUSTED
  <2> QED  BY <1>2, <1>5, <1>8, <2>1, <2>2, FolderGivenUp
<1> QED  BY <1>1, <1>6, <1>7, <1>8 DEF D!Purge

LEMMA FolderCreate ==
  ASSUME FolderInvariant, D!Create
  PROVE  FolderInvariant'
<1>1. CASE D!Fault /\ D!Report(D!Row(FALSE, FALSE)) /\ UNCHANGED folder
  BY <1>1, FolderRefused DEF D!Create
<1>2. CASE /\ D!NoFault
           /\ folder' = [folder EXCEPT ![at] = IF @.exists THEN @ ELSE D!Made("admins")]
           /\ result' = [result EXCEPT ![at] = D!Row(TRUE, FALSE)]
           /\ step' = IF os = "windows" THEN "owner" ELSE "mode"
           /\ UNCHANGED at
  <2> DEFINE f == IF folder[at].exists THEN folder[at] ELSE D!Made("admins")
  <2>1. /\ at \in D!DAEMONS /\ D!Running /\ UNCHANGED found /\ step = "create" /\ os' = os
        /\ Possible(folder[at]) /\ os \in {"windows", "unix"}
    BY DEF D!Create, D!Running, FolderInvariant, D!TypeOK, Disk
  <2>2. f \in D!Folder /\ f.exists /\ Possible(f) /\ FolderChanged(f)
    BY <1>2, <2>1, FolderShapes DEF Possible, FolderChanged, D!Made, D!OWNERS, D!TRUSTED
  <2>3. Disk' /\ folder'[at] = f /\ \A d \in D!DAEMONS : d # at => folder'[d] = folder[d]
    BY <2>1, <2>2, DiskKept
  <2>4. FilesFit(f, found[at]) /\ UNCHANGED taken
    BY <2>1 DEF D!Create, FolderInvariant, InHand, FilesFit, Possible, D!Absent, D!Made
  <2>5. InHand'
    BY <1>2, <2>1, <2>2, <2>3, <2>4 DEF InHand, FilesFit
  <2>6. D!TypeOK'
    BY <1>2, <2>1, <2>3, <2>4, FolderFaults DEF FolderInvariant, D!TypeOK, D!Running, Disk,
                                          D!Row, D!STEPS
  <2>7. RowsSoFar'
    BY <1>2, <2>1, <2>3, TheDaemons
    DEF FolderInvariant, RowsSoFar, D!Running, Fits, FilesFit, D!Row, FolderRows, D!TypeOK
  <2> QED  BY <2>3, <2>5, <2>6, <2>7 DEF FolderInvariant
<1> QED  BY <1>1, <1>2 DEF D!Create

(* What a tool makes of a folder that is there is such a folder, with the  *)
(* same files.                                                             *)
LEMMA ToolShapes ==
  ASSUME D!TypeOK, NEW f, Possible(f), f.exists, os = "windows",
         NEW g \in {D!setowner_system(f), D!reset_dacl(f), D!lockdown_grant(f)}
  PROVE  Possible(g) /\ g.exists /\ g.files = f.files
<1>1. f \in D!Folder /\ D!Required(sid) \subseteq D!PARTIES /\ "system" \in D!OWNERS
  BY DEF Possible, D!TypeOK, D!Required, D!PARTIES, D!OWNERS, D!TRUSTED
<1>2. CASE g = D!setowner_system(f)
  BY <1>1, <1>2 DEF D!setowner_system, Possible, D!Folder
<1>3. CASE g = D!reset_dacl(f)
  BY <1>1, <1>3 DEF D!reset_dacl, Possible, D!Folder
<1>4. CASE g = D!lockdown_grant(f)
  <2>1. f.grants \cup D!Required(sid) \in SUBSET D!PARTIES
    BY <1>1 DEF D!Folder
  <2> QED  BY <1>1, <1>4, <2>1 DEF D!lockdown_grant, Possible, D!Folder
<1> QED  BY <1>2, <1>3, <1>4

LEMMA FolderTool ==
  ASSUME FolderInvariant,
         NEW this \in {"owner", "reset", "grant"}, NEW next \in {"reset", "grant", "verify"},
         NEW g \in {D!setowner_system(folder[at]), D!reset_dacl(folder[at]),
                     D!lockdown_grant(folder[at])},
         D!Tool(this, g, next)
  PROVE  FolderInvariant'
<1>1. /\ at \in D!DAEMONS /\ D!Running /\ UNCHANGED found /\ step = this /\ os = "windows"
      /\ Possible(folder[at]) /\ folder[at].exists /\ FilesFit(folder[at], found[at])
      /\ folder \in [D!DAEMONS -> D!Folder] /\ os' = os
  BY DEF D!Tool, D!Running, FolderInvariant, D!TypeOK, Disk, InHand
<1>2. found' \in [D!DAEMONS -> FolderLooks] /\ \A d \in D!DAEMONS : d # at => found'[d] = found[d]
  BY <1>1 DEF FolderInvariant, D!TypeOK, FolderLooks
<1>3. CASE D!NoFault /\ D!Worked(g) /\ step' = next /\ UNCHANGED <<at, result>>
  <2>1. Possible(g) /\ g.exists /\ g.files = folder[at].files
    BY <1>1, ToolShapes DEF FolderInvariant
  <2>2. FolderChanged(g) /\ folder'[at] = g /\ taken' \in SUBSET D!DAEMONS
    BY <1>1, <1>3 DEF D!Worked, FolderChanged, FolderInvariant, D!TypeOK
  <2>3. InHand'
    BY <1>1, <1>3, <2>1, <2>2 DEF InHand, FilesFit
  <2> QED  BY <1>1, <1>2, <1>3, <2>1, <2>2, <2>3, FolderMovesOn DEF D!STEPS
<1>4. CASE D!Fault /\ step' = next /\ UNCHANGED <<folder, taken, at, result>>
  <2>1. FolderChanged(folder[at]) /\ taken' \in SUBSET D!DAEMONS
    BY <1>1, <1>4 DEF FolderChanged, FolderInvariant, D!TypeOK
  <2>2. InHand'
    BY <1>1, <1>4 DEF InHand, FilesFit
  <2> QED  BY <1>1, <1>2, <1>4, <2>1, <2>2, FolderMovesOn DEF D!STEPS
<1>5. CASE D!Fault /\ D!GiveUp
  BY <1>1, <1>2, <1>5, FolderLeft
<1> QED  BY <1>3, <1>4, <1>5 DEF D!Tool

(* What the read-back passes is what the row says.                         *)
LEMMA FolderVerify ==
  ASSUME FolderInvariant, D!Verify
  PROVE  FolderInvariant'
<1>1. /\ at \in D!DAEMONS /\ D!Running /\ UNCHANGED found /\ os = "windows"
      /\ Possible(folder[at]) /\ folder[at].exists /\ FilesFit(folder[at], found[at])
      /\ folder \in [D!DAEMONS -> D!Folder]
  BY DEF D!Verify, D!Running, FolderInvariant, D!TypeOK, Disk, InHand
<1>2. found' \in [D!DAEMONS -> FolderLooks] /\ \A d \in D!DAEMONS : d # at => found'[d] = found[d]
  BY <1>1 DEF FolderInvariant, D!TypeOK, FolderLooks
<1>3. CASE /\ D!NoFault /\ D!verify_locked_dacl(folder[at])
           /\ D!Report(D!Row(TRUE, TRUE)) /\ UNCHANGED <<folder, taken>>
  <2>1. /\ FolderChanged(folder[at]) /\ Fits(folder[at], found'[at])
        /\ taken' \in SUBSET D!DAEMONS
    BY <1>1, <1>3 DEF FolderChanged, Fits, D!verify_locked_dacl, FolderInvariant, D!TypeOK
  <2> QED  BY <1>1, <1>2, <1>3, <2>1, FolderReported
<1>4. CASE (D!Fault \/ D!NoFault) /\ D!GiveUp
  BY <1>1, <1>2, <1>4, FolderLeft
<1> QED  BY <1>3, <1>4 DEF D!Verify

LEMMA FolderMode ==
  ASSUME FolderInvariant, D!Mode
  PROVE  FolderInvariant'
<1>1. /\ at \in D!DAEMONS /\ D!Running /\ UNCHANGED found /\ os = "unix" /\ sid \in People
      /\ Possible(folder[at]) /\ folder[at].exists /\ FilesFit(folder[at], found[at])
      /\ folder \in [D!DAEMONS -> D!Folder]
  BY DEF D!Mode, D!Running, FolderInvariant, D!TypeOK, Disk, InHand
<1>2. found' \in [D!DAEMONS -> FolderLooks] /\ \A d \in D!DAEMONS : d # at => found'[d] = found[d]
  BY <1>1 DEF FolderInvariant, D!TypeOK, FolderLooks
<1>3. ASSUME NEW acl \in BOOLEAN,
             D!Worked(D!closed(folder[at], acl)),
             IF acl THEN D!NoFault ELSE D!Fault,
             D!Report(D!Row(TRUE, TRUE))
      PROVE  FolderInvariant'
  <2> DEFINE g == D!closed(folder[at], acl)
             opened == IF acl THEN {"system", sid} ELSE {"system"}
  <2>1. opened \in SUBSET D!PARTIES
    BY <1>1 DEF D!PARTIES
  <2>2. Possible(g) /\ g.exists /\ ~g.inherits /\ g.files = folder[at].files
    <3>1. g = [folder[at] EXCEPT !.inherits = FALSE, !.grants = @ \cup opened]
      BY DEF D!closed
    <3>2. folder[at] \in D!Folder
      BY <1>1
    <3> HIDE DEF g, opened
    <3> QED  BY <1>1, <2>1, <3>1, <3>2 DEF Possible, D!Folder
  <2> HIDE DEF g
  <2>3. FolderChanged(g) /\ Fits(g, found'[at]) /\ taken' \in SUBSET D!DAEMONS
    BY <1>1, <1>3, <2>2 DEF D!Worked, FolderChanged, Fits, FilesFit, FolderInvariant, D!TypeOK, g
  <2> QED  BY <1>1, <1>2, <1>3, <2>2, <2>3, FolderReported
<1>4. CASE D!Fault /\ D!GiveUp
  BY <1>1, <1>2, <1>4, FolderLeft
<1> QED  BY <1>3, <1>4 DEF D!Mode

(* A folder somebody else changes while nothing of it is reported as       *)
(* locked, or in a way that leaves what is reported as it was.             *)
LEMMA FolderOthers ==
  ASSUME FolderInvariant, UNCHANGED <<os, step, at, sid, result, found, taken, runs, faults>>,
         NEW d \in D!DAEMONS, NEW g, Possible(g), folder' = [folder EXCEPT ![d] = g],
         g.exists, result[d].applied => Fits(g, found[d]),
         step \notin {"idle", "look"} /\ d = at => FilesFit(g, found[at])
  PROVE  FolderInvariant'
<1>1. Disk' /\ folder'[d] = g /\ \A e \in D!DAEMONS : e # d => folder'[e] = folder[e]
  BY DEF FolderInvariant, Disk, Possible
<1>2. D!TypeOK'
  BY <1>1 DEF FolderInvariant, D!TypeOK, Disk
<1>3. \A e \in D!DAEMONS : result'[e].applied => Fits(folder[e], found[e])'
  BY <1>1 DEF FolderInvariant, RowsSoFar, Fits
<1>4. RowsSoFar'
  BY <1>3 DEF FolderInvariant, RowsSoFar
<1>5. InHand'
  BY <1>1 DEF FolderInvariant, InHand, FilesFit
<1> QED  BY <1>1, <1>2, <1>4, <1>5 DEF FolderInvariant

(* Daemons and users write beside the run.                                 *)
LEMMA FolderWrites ==
  ASSUME FolderInvariant, D!DaemonWrites \/ D!UserMakes \/ D!UserWrites
  PROVE  FolderInvariant'
<1>1. CASE D!DaemonWrites
  <2>1. PICK d \in D!DAEMONS :
          /\ folder[d].exists
          /\ folder' = [folder EXCEPT ![d].files = @ \cup {"daemon"}]
    BY <1>1 DEF D!DaemonWrites
  <2> DEFINE g == [folder[d] EXCEPT !.files = @ \cup {"daemon"}]
  <2>2. Possible(folder[d])
    BY DEF FolderInvariant, Disk
  <2>3. Possible(g) /\ folder' = [folder EXCEPT ![d] = g]
    BY <2>1, <2>2 DEF Possible, D!Folder, D!FILES
  <2>4. result[d].applied => Fits(g, found[d])
    BY <2>1, <2>2 DEF FolderInvariant, RowsSoFar, Fits, FilesFit, Possible, D!Folder
  <2>5. g.exists /\ step = "idle" /\ d \in D!DAEMONS
    BY <1>1, <2>1, <2>2 DEF D!DaemonWrites, Possible, D!Folder
  <2> HIDE DEF g
  <2> QED  BY <1>1, <2>3, <2>4, <2>5, FolderOthers DEF D!DaemonWrites
<1>2. CASE D!UserMakes
  <2>1. PICK d \in D!DAEMONS :
          ~folder[d].exists /\ folder' = [folder EXCEPT ![d] = D!Made("user")]
    BY <1>2 DEF D!UserMakes
  <2>2. Possible(D!Made("user")) /\ D!Made("user").exists /\ ~result[d].applied
    BY <1>2, <2>1, FolderShapes DEF D!UserMakes, Possible, D!OWNERS, FolderInvariant,
                                    RowsSoFar, Fits
  <2>3. step \notin {"idle", "look"} /\ d = at => FilesFit(D!Made("user"), found[at])
    BY <2>1 DEF FolderInvariant, InHand, FilesFit, Disk, Possible, D!Absent
  <2> QED  BY <1>2, <2>1, <2>2, <2>3, FolderOthers DEF D!UserMakes
<1>3. CASE D!UserWrites
  <2>1. PICK d \in D!DAEMONS, tag \in {"before", "during"} :
          /\ folder[d].exists /\ folder[d].inherits
          /\ folder' = [folder EXCEPT ![d].files = @ \cup {tag}]
    BY <1>3 DEF D!UserWrites
  <2> DEFINE g == [folder[d] EXCEPT !.files = @ \cup {tag}]
  <2>2. Possible(folder[d]) /\ ~result[d].applied
    BY <2>1 DEF FolderInvariant, Disk, RowsSoFar, Fits
  <2>3. Possible(g) /\ g.exists /\ folder' = [folder EXCEPT ![d] = g]
    BY <2>1, <2>2 DEF Possible, D!Folder, D!FILES
  <2>4. step \notin {"idle", "look"} /\ d = at => FilesFit(g, found[at])
    BY <2>2 DEF FolderInvariant, InHand, FilesFit, Possible, D!Folder
  <2> QED  BY <1>3, <2>2, <2>3, <2>4, FolderOthers DEF D!UserWrites
<1> QED  BY <1>1, <1>2, <1>3

LEMMA FolderBegin ==
  ASSUME FolderInvariant, D!Begin
  PROVE  FolderInvariant'
<1>1. Disk'
  BY DEF D!Begin, FolderInvariant, Disk, Possible
<1>2. /\ step' = "look" /\ at' = "dig-node" /\ sid' \in People
      /\ UNCHANGED <<os, folder, taken, faults>>
      /\ result' = [d \in D!DAEMONS |-> D!Row(FALSE, FALSE)]
      /\ found' = [d \in D!DAEMONS |-> D!Unseen]
  BY DEF D!Begin
<1>3. runs' \in 0..Runs
  BY NatBounds DEF D!Begin, FolderInvariant, D!TypeOK
<1>4. D!TypeOK'
  BY <1>2, <1>3, TheDaemons DEF FolderInvariant, D!TypeOK, D!Row, D!Unseen, D!STEPS
<1>5. RowsSoFar'
  BY <1>2, TheDaemons DEF RowsSoFar, D!Row, FolderRows
<1>6. InHand'
  BY <1>2 DEF InHand
<1> QED  BY <1>1, <1>4, <1>5, <1>6 DEF FolderInvariant

LEMMA FolderCrash ==
  ASSUME FolderInvariant, D!Crash
  PROVE  FolderInvariant'
<1>1. D!TypeOK' /\ Disk'
  BY FolderFaults DEF D!Crash, D!Running, FolderInvariant, D!TypeOK, Disk, Possible, D!Row,
                      D!STEPS
<1>2. RowsSoFar'
  BY DEF D!Crash, RowsSoFar, D!Row, FolderRows
<1>3. InHand'
  BY DEF D!Crash, InHand
<1> QED  BY <1>1, <1>2, <1>3 DEF FolderInvariant

LEMMA FolderInit ==
  ASSUME D!Init
  PROVE  FolderInvariant
<1>1. D!TypeOK
  BY NatBounds, PeopleAssumption, FolderShapes, TheDaemons DEF D!Init, D!TypeOK, D!Row, D!Unseen,
     D!OWNERS, D!STEPS
<1>2. Disk
  BY FolderShapes DEF D!Init, Disk, Possible, D!OWNERS
<1>3. RowsSoFar /\ InHand
  BY DEF D!Init, RowsSoFar, InHand, D!Row, FolderRows
<1> QED  BY <1>1, <1>2, <1>3 DEF FolderInvariant

(* Nothing a user put into a folder of theirs gets into one in hand: by    *)
(* action, the folder it changes and whose hands it leaves it in.          *)
LEMMA ApartGone ==
  ASSUME FolderInvariant, Apart, D!Report(D!Row(FALSE, FALSE)),
         \/ D!Removed(at)
         \/ /\ D!HalfRemoved(at, folder[at]) /\ UNCHANGED taken
            /\ "before" \in folder[at].files => folder[at].owner = "user" \/ at \in taken
         \/ /\ D!HalfRemoved(at, D!setowner_system(folder[at]))
            /\ taken' = IF D!Trusts(folder[at].owner) THEN taken ELSE taken \cup {at}
            /\ "before" \in folder[at].files => folder[at].owner = "user" \/ at \in taken
  PROVE  Apart'
<1>1. /\ at \in D!DAEMONS /\ folder \in [D!DAEMONS -> D!Folder] /\ step' \in {"idle", "look"}
      /\ \A d \in D!DAEMONS : ~D!InHand(d)'
  BY DEF FolderInvariant, D!TypeOK, D!Report, D!InHand
<1>2. CASE D!Removed(at)
  <2>1. \A d \in D!DAEMONS : d # at => folder'[d] = folder[d] /\ (d \in taken => d \in taken')
    BY <1>1, <1>2 DEF D!Removed
  <2>2. folder'[at].files = {}
    BY <1>1, <1>2 DEF D!Removed, D!Absent
  <2> QED  BY <1>1, <2>1, <2>2 DEF Apart
<1>3. ASSUME NEW f \in {folder[at], D!setowner_system(folder[at])}, D!HalfRemoved(at, f)
      PROVE  /\ \A d \in D!DAEMONS : d # at => folder'[d] = folder[d]
             /\ folder'[at].files \subseteq folder[at].files /\ folder'[at].owner = f.owner
  <2>1. f \in D!Folder /\ f.files = folder[at].files
    BY <1>1 DEF D!setowner_system, D!Folder, D!OWNERS, D!TRUSTED
  <2>2. PICK rest \in SUBSET f.files : folder' = [folder EXCEPT ![at] = [f EXCEPT !.files = rest]]
    BY <1>3 DEF D!HalfRemoved
  <2>3. [f EXCEPT !.files = rest].files = rest /\ [f EXCEPT !.files = rest].owner = f.owner
    BY <2>1 DEF D!Folder
  <2> HIDE DEF D!setowner_system
  <2>4. folder'[at] = [f EXCEPT !.files = rest]
        /\ \A d \in D!DAEMONS : d # at => folder'[d] = folder[d]
    BY <1>1, <2>2
  <2> QED  BY <2>1, <2>2, <2>3, <2>4
<1>4. CASE /\ D!HalfRemoved(at, folder[at]) /\ UNCHANGED taken
           /\ "before" \in folder[at].files => folder[at].owner = "user" \/ at \in taken
  BY <1>1, <1>3, <1>4 DEF Apart
<1>5. CASE /\ D!HalfRemoved(at, D!setowner_system(folder[at]))
           /\ taken' = IF D!Trusts(folder[at].owner) THEN taken ELSE taken \cup {at}
           /\ "before" \in folder[at].files => folder[at].owner = "user" \/ at \in taken
  BY <1>1, <1>3, <1>5 DEF Apart, D!Trusts, D!TRUSTED
<1> QED  BY <1>2, <1>4, <1>5

(* A change to one folder that no user's file of before is in.             *)
LEMMA ApartOne ==
  ASSUME FolderInvariant, Apart, NEW d \in D!DAEMONS, NEW f, folder' = [folder EXCEPT ![d] = f],
         UNCHANGED taken, \A e \in D!DAEMONS : e # d /\ ~D!InHand(e) => ~D!InHand(e)',
         "before" \in f.files => d \in taken \/ (f.owner = "user" /\ ~D!InHand(d)')
  PROVE  Apart'
<1>1. folder'[d] = f /\ \A e \in D!DAEMONS : e # d => folder'[e] = folder[e]
  BY DEF FolderInvariant, D!TypeOK
<1> QED  BY <1>1 DEF Apart

LEMMA ApartStep ==
  ASSUME FolderInvariant, Apart, [D!Next]_(D!vars)
  PROVE  Apart'
<1>1. /\ at \in D!DAEMONS /\ folder \in [D!DAEMONS -> D!Folder] /\ os \in {"windows", "unix"}
      /\ folder[at] \in D!Folder
  BY DEF FolderInvariant, D!TypeOK
<1>2. CASE D!Begin \/ D!NoPerson \/ D!Crash \/ UNCHANGED D!vars
  BY <1>2 DEF D!Begin, D!NoPerson, D!Crash, D!Report, D!vars, Apart, D!InHand
<1>3. CASE D!Look
  <2>1. PICK read \in D!Reads(at) :
          IF folder[at].exists /\ ~D!Trusts(read.owner)
            THEN D!Purge
            ELSE step' = "create" /\ UNCHANGED <<folder, taken, at, result>>
    BY <1>3 DEF D!Look
  <2>2. step = "look" /\ ("before" \in folder[at].files => folder[at].owner = "user" \/ at \in taken)
    BY <1>1, <1>3 DEF D!Look, Apart
  <2>3. CASE step' = "create" /\ UNCHANGED <<folder, taken, at>> /\
             ~(folder[at].exists /\ ~D!Trusts(read.owner))
    <3>1. "before" \in folder[at].files => at \in taken
      BY <1>1, <2>2, <2>3 DEF FolderInvariant, Disk, Possible, D!Absent, D!Reads, D!dir_owner_sid,
                              D!Trusts, D!TRUSTED
    <3> QED  BY <2>3, <3>1 DEF Apart, D!InHand
  <2>4. CASE D!Removed(at) /\ step' = "create" /\ UNCHANGED <<at, result>>
    <3>1. folder'[at].files = {} /\ \A d \in D!DAEMONS : d # at =>
            folder'[d] = folder[d] /\ ~D!InHand(d)' /\ (d \in taken => d \in taken')
      BY <1>1, <2>4 DEF D!Removed, D!Absent, D!InHand
    <3> QED  BY <3>1 DEF Apart
  <2> QED  BY <2>1, <2>2, <2>3, <2>4, ApartGone DEF D!Purge
<1>4. CASE D!Create
  <2>1. CASE D!Report(D!Row(FALSE, FALSE)) /\ UNCHANGED folder
    BY <1>4, <2>1 DEF D!Create, D!Report, Apart, D!InHand
  <2>2. CASE /\ folder' = [folder EXCEPT ![at] = IF @.exists THEN @ ELSE D!Made("admins")]
             /\ step' = (IF os = "windows" THEN "owner" ELSE "mode") /\ UNCHANGED at
    <3> DEFINE f == IF folder[at].exists THEN folder[at] ELSE D!Made("admins")
    <3>1. "before" \in f.files => at \in taken
      BY <1>1, <1>4 DEF D!Made, D!Create, Apart, D!InHand
    <3>2. folder' = [folder EXCEPT ![at] = f] /\ UNCHANGED taken
      BY <1>4, <2>2 DEF D!Create
    <3> HIDE DEF f
    <3> QED  BY <1>1, <2>2, <3>1, <3>2, ApartOne DEF D!InHand
  <2> QED  BY <1>4, <2>1, <2>2 DEF D!Create
<1>5. ASSUME step \notin {"idle", "look"}, D!GiveUp PROVE Apart'
  <2>1. "before" \in folder[at].files => at \in taken
    BY <1>1, <1>5 DEF Apart, D!InHand
  <2> QED  BY <1>5, <2>1, ApartGone DEF D!GiveUp
<1>6. ASSUME step \notin {"idle", "look"}, NEW f, f.files = folder[at].files, D!Worked(f),
             at' = at \/ step' \in {"idle", "look"}
      PROVE  Apart'
  <2>1. "before" \in f.files => at \in taken
    BY <1>1, <1>6 DEF Apart, D!InHand
  <2> QED  BY <1>1, <1>6, <2>1, ApartOne DEF D!Worked, D!InHand
<1>7. ASSUME NEW this \in {"owner", "reset", "grant"}, NEW next \in {"reset", "grant", "verify"},
             NEW f, f.files = folder[at].files, D!Tool(this, f, next)
      PROVE  Apart'
  <2>1. step \notin {"idle", "look"}
    BY <1>7 DEF D!Tool
  <2>2. CASE D!Worked(f) /\ UNCHANGED at
    BY <1>6, <1>7, <2>1, <2>2
  <2>3. CASE UNCHANGED <<folder, taken, at>>
    BY <1>7, <2>1, <2>3 DEF Apart, D!InHand
  <2> QED  BY <1>5, <1>7, <2>1, <2>2, <2>3 DEF D!Tool
<1>8. CASE D!SetOwner \/ D!Reset \/ D!Grant
  BY <1>1, <1>7, <1>8 DEF D!SetOwner, D!Reset, D!Grant, D!setowner_system, D!reset_dacl,
                          D!lockdown_grant, D!Folder
<1>9. CASE D!Verify
  BY <1>5, <1>9 DEF D!Verify, D!Report, Apart, D!InHand
<1>10. CASE D!Mode
  <2>1. step = "mode"
    BY <1>10 DEF D!Mode
  <2>2. ASSUME NEW acl \in BOOLEAN,
               D!Worked(D!closed(folder[at], acl)),
               D!Report(D!Row(TRUE, TRUE))
        PROVE  Apart'
    <3>1. D!closed(folder[at], acl).files = folder[at].files /\ step' \in {"idle", "look"}
      BY <1>1, <2>2 DEF D!Folder, D!Report, D!closed
    <3> QED  BY <1>6, <2>1, <2>2, <3>1
  <2> QED  BY <1>5, <1>10, <2>1, <2>2 DEF D!Mode
<1>11. CASE D!DaemonWrites
  <2>1. PICK d \in D!DAEMONS : folder' = [folder EXCEPT ![d].files = @ \cup {"daemon"}]
    BY <1>11 DEF D!DaemonWrites
  <2>2. /\ folder' = [folder EXCEPT ![d] = [folder[d] EXCEPT !.files = @ \cup {"daemon"}]]
        /\ folder[d] \in D!Folder /\ UNCHANGED <<taken, step, at>>
    BY <1>1, <1>11, <2>1 DEF D!DaemonWrites
  <2>3. "before" \in [folder[d] EXCEPT !.files = @ \cup {"daemon"}].files =>
          d \in taken \/ (folder[d].owner = "user" /\ ~D!InHand(d)')
    BY <2>2 DEF Apart, D!Folder, D!InHand
  <2> QED  BY <2>2, <2>3, ApartOne DEF D!InHand, D!Folder
<1>12. CASE D!UserMakes
  BY <1>12, ApartOne DEF D!UserMakes, D!Made, D!InHand
<1>13. CASE D!UserWrites
  <2>1. PICK d \in D!DAEMONS :
          folder' = [folder EXCEPT ![d].files =
            @ \cup {IF folder[d].owner = "user" /\ ~D!InHand(d) THEN "before" ELSE "during"}]
    BY <1>13 DEF D!UserWrites
  <2> DEFINE tag == IF folder[d].owner = "user" /\ ~D!InHand(d) THEN "before" ELSE "during"
             g == [folder[d] EXCEPT !.files = @ \cup {tag}]
  <2>2. /\ folder' = [folder EXCEPT ![d] = g]
        /\ folder[d] \in D!Folder /\ UNCHANGED <<taken, step, at>>
    BY <1>1, <1>13, <2>1 DEF D!UserWrites
  <2>3. g.owner = folder[d].owner /\ ("before" \in g.files => tag = "before" \/ "before" \in folder[d].files)
    BY <2>2 DEF D!Folder
  <2>4. "before" \in g.files => d \in taken \/ (g.owner = "user" /\ ~D!InHand(d)')
    BY <2>2, <2>3 DEF Apart, D!InHand
  <2> HIDE DEF g
  <2> QED  BY <2>2, <2>4, ApartOne DEF D!InHand
<1> QED  BY <1>2, <1>3, <1>4, <1>8, <1>9, <1>10, <1>11, <1>12, <1>13 DEF D!Next

LEMMA FolderStep ==
  ASSUME FolderInvariant, [D!Next]_(D!vars)
  PROVE  FolderInvariant'
<1>1. CASE D!NoPerson
  BY <1>1, FolderRefused DEF D!NoPerson
<1>2. CASE D!SetOwner \/ D!Reset \/ D!Grant
  BY <1>2, FolderTool DEF D!SetOwner, D!Reset, D!Grant
<1>3. CASE UNCHANGED D!vars
  BY <1>3 DEF D!vars, FolderInvariant, D!TypeOK, Disk, Possible, RowsSoFar, Fits, FilesFit,
              InHand
<1> QED  BY <1>1, <1>2, <1>3, FolderBegin, FolderLook, FolderCreate, FolderVerify,
            FolderMode, FolderCrash, FolderWrites DEF D!Next

(* A folder that a run reports as locked is locked for exactly the parties *)
(* asked for, without a user's files -- but in a folder an earlier run     *)
(* took from its owner and failed to remove -- and with the daemon's,      *)
(* whatever tools did nothing and said otherwise (verify_locked_dacl) and  *)
(* whatever users made meanwhile; and no row stops half way.               *)
THEOREM FoldersAreLocked == Spec => []FolderHolds
<1>1. Init => (which = "folders" => FolderInvariant /\ Apart)
  <2>1. D!Init => Apart
    BY DEF D!Init, Apart, D!Absent, D!Made
  <2> QED  BY <2>1, FolderInit DEF Init
<1>2. (which = "folders" => FolderInvariant /\ Apart) /\ [Next]_vars
      => (which = "folders" => FolderInvariant /\ Apart)'
  BY FolderStep, ApartStep DEF Next, vars, D!vars
<1>3. (which = "folders" => FolderInvariant /\ Apart) => FolderHolds
  BY FolderSuffices DEF FolderHolds
<1> QED  BY <1>1, <1>2, <1>3, PTL DEF Spec

------------------------------------------------------------------------------
(* WebviewDir.                                                             *)
(* A folder in the system's hands whose list is the one asked for.         *)
Secure(l) == W!Trusted(level[l].owner) /\ level[l].list = "locked"

(* One of the installer's own levels that is no link, was never taken from *)
(* a user, and hangs from one such.                                        *)
OWNS == {"installer", "webview"}
Clean(l) == {"installer", l} \cap (link \cup taken) = {}

LevelsMade == \A l \in W!LEVELS : level[l].owner = "none" => (level[l] = W!None)

(* Once the root is locked a launch goes on from one locked level to the   *)
(* next.                                                                   *)
WindowProgress ==
  /\ at # "idle" => ~launched
  /\ at \in {"look", "installer", "webview", "recheck"} => Secure("root")
  /\ at \in {"webview", "recheck"} => Secure("installer")
  /\ at = "recheck" => Secure("webview")
  /\ at \in {"installer", "webview", "recheck"} /\ met => profile = "ours"

(* No entry of a user's is in a clean level that is trusted, and after the *)
(* look no clean level is a user's.                                        *)
CleanLists ==
  \A l \in OWNS : Clean(l) /\ W!Trusted(level[l].owner) => level[l].list \in {"open", "locked"}
CleanOwners ==
  at \in OWNS => \A l \in OWNS : Clean(l) => level[l].owner # "user"

(* A window's profile is in folders no user can get at; a user's, in one   *)
(* that is theirs if it is clean.                                          *)
ProfileKnown ==
  /\ profile \in {"ours", "new"} =>
       /\ link = {}
       /\ \A l \in W!LEVELS : level[l].owner # "none" /\ level[l].list \in {"open", "locked"}
  /\ profile = "users" /\ Clean("webview") => level["webview"].owner = "user"

WindowOpen ==
  launched => /\ link = {} /\ profile # "none"
              /\ \A l \in W!LEVELS : Secure(l)
              /\ met => profile = "ours"

WindowInvariant ==
  /\ W!TypeOK /\ LevelsMade /\ WindowProgress /\ CleanLists /\ CleanOwners /\ ProfileKnown
  /\ WindowOpen

(* The invariant gives the promise.                                        *)
LEMMA WindowSuffices == WindowInvariant => W!TypeOK /\ W!WindowHolds
<1> SUFFICES ASSUME WindowInvariant PROVE W!TypeOK /\ W!WindowHolds
  OBVIOUS
<1>1. W!TypeOK /\ W!WindowMeansLocked /\ W!ProfileKept
  BY DEF WindowInvariant, WindowOpen, Secure, W!WindowMeansLocked, W!ProfileKept
<1>2. launched /\ taken = {} => profile # "users"
  BY DEF WindowInvariant, WindowOpen, ProfileKnown, Clean, Secure, W!Trusted, W!LEVELS
<1>3. launched => profile \in {"ours", "new", "users"}
  BY DEF WindowInvariant, WindowOpen, W!TypeOK
<1> QED  BY <1>1, <1>2, <1>3 DEF W!WindowHolds, W!WindowHasOwnProfile

LEMMA TheLevels ==
  /\ W!LEVELS = {"root", "installer", "webview"} /\ OWNS \subseteq W!LEVELS
  /\ W!Below("root") = OWNS /\ W!Below("installer") = {"webview"} /\ W!Below("webview") = {}
  /\ W!None \in W!Level /\ W!Users \in W!Level /\ W!Safe \in W!Level
  /\ W!None.owner = "none" /\ W!Users.owner = "user" /\ W!Safe.owner = "system"
  /\ W!None.list = "none" /\ W!Users.list = "users" /\ W!Safe.list = "locked"
BY DEF W!LEVELS, OWNS, W!Below, W!None, W!Users, W!Safe, W!Level

LEMMA WindowFaults ==
  ASSUME W!TypeOK, W!Fault \/ UNCHANGED faults
  PROVE  faults' \in 0..Faults
BY NatBounds DEF W!TypeOK, W!Fault

(* What the three tools leave, whichever of them worked, is a folder, a    *)
(* user's only if it was, and with no entry of a user's if it had none.    *)
LEMMA LockShapes ==
  ASSUME NEW l \in W!LEVELS, NEW done \in SUBSET W!TOOLS, W!TypeOK, LevelsMade
  PROVE  /\ W!Partly(l, done) \in W!Level /\ W!Partly(l, done).owner # "none"
         /\ W!Partly(l, done).owner = "user" => level[l].owner = "user"
         /\ level[l].owner = "none" \/ level[l].list \in {"open", "locked"} =>
              W!Partly(l, done).list \in {"open", "locked"}
<1>1. /\ W!Made(l) \in W!Level /\ W!Made(l).owner # "none"
      /\ W!Made(l).owner = "user" => level[l].owner = "user"
      /\ level[l].owner = "none" \/ level[l].list \in {"open", "locked"} =>
           W!Made(l).list \in {"open", "locked"}
  BY DEF W!Made, W!Fresh, W!Level, W!TypeOK, LevelsMade, W!Exists, W!None
<1>2. W!Closed(W!Cleared(W!Made(l).list, done), done)
        \in {"none", "open", "users", "mixed", "locked"}
  BY <1>1 DEF W!Closed, W!Cleared, W!Level
<1>3. W!Made(l).list \in {"open", "locked"} =>
        W!Closed(W!Cleared(W!Made(l).list, done), done) \in {"open", "locked"}
  BY DEF W!Closed, W!Cleared
<1> QED  BY <1>1, <1>2, <1>3 DEF W!Partly, W!lock_here, W!Level

(* The tools run over the level in hand.                                   *)
LEMMA LevelWorked ==
  ASSUME WindowInvariant, NEW l \in W!LEVELS, NEW done \in SUBSET W!TOOLS,
         level' = [level EXCEPT ![l] = W!Partly(l, done)], UNCHANGED <<link, taken, profile>>,
         l \in OWNS => at = l
  PROVE  /\ level' \in [W!LEVELS -> W!Level] /\ level'[l] = W!Partly(l, done)
         /\ \A k \in W!LEVELS : k # l => level'[k] = level[k]
         /\ LevelsMade' /\ CleanLists' /\ ProfileKnown'
         /\ at \in OWNS => \A k \in OWNS : Clean(k)' => level'[k].owner # "user"
<1> USE DEF WindowInvariant
<1>1. /\ level' \in [W!LEVELS -> W!Level] /\ level'[l] = W!Partly(l, done)
      /\ \A k \in W!LEVELS : k # l => level'[k] = level[k]
  BY LockShapes DEF W!TypeOK
<1>2. \A k \in W!LEVELS : Clean(k)' = Clean(k)
  BY DEF Clean
<1>3. LevelsMade'
  BY <1>1, LockShapes DEF LevelsMade
<1>4. l \in OWNS /\ Clean(l) => level[l].owner # "user"
  BY DEF CleanOwners
<1>5. l \in OWNS /\ Clean(l) => level[l].owner = "none" \/ level[l].list \in {"open", "locked"}
  BY <1>4 DEF CleanLists, W!TypeOK, W!Level, W!Trusted
<1>6. CleanLists'
  BY <1>1, <1>2, <1>5, TheLevels, LockShapes DEF CleanLists
<1>7. ProfileKnown'
  <2>1. profile \in {"ours", "new"} =>
          \A k \in W!LEVELS : level'[k].owner # "none" /\ level'[k].list \in {"open", "locked"}
    BY <1>1, LockShapes DEF ProfileKnown
  <2>2. profile = "users" /\ Clean("webview") => l # "webview"
    BY <1>4, TheLevels DEF ProfileKnown, OWNS
  <2> QED  BY <1>1, <1>2, <2>1, <2>2, TheLevels DEF ProfileKnown, OWNS
<1>8. at \in OWNS => \A k \in OWNS : Clean(k)' => level'[k].owner # "user"
  BY <1>1, <1>2, TheLevels, LockShapes DEF CleanOwners
<1> QED  BY <1>1, <1>3, <1>6, <1>7, <1>8

(* A level read back as locked is secure.                                  *)
LEMMA LockSecures ==
  ASSUME WindowInvariant, NEW l \in W!LEVELS, NEW done \in SUBSET W!TOOLS, W!Locked(l, done)
  PROVE  /\ level' = [level EXCEPT ![l] = W!Partly(l, done)] /\ Secure(l)'
         /\ faults' \in 0..Faults
<1>1. level' = [level EXCEPT ![l] = W!Partly(l, done)] /\ W!read_and_verify(W!Partly(l, done))
  BY DEF W!Locked, W!Partly
<1>2. level'[l] = W!Partly(l, done)
  BY <1>1 DEF W!TypeOK, WindowInvariant
<1>3. faults' \in 0..Faults
  BY WindowFaults DEF W!Locked, WindowInvariant
<1> QED  BY <1>1, <1>2, <1>3 DEF Secure, W!read_and_verify

(* A level gone with all below it.                                         *)
LEMMA LevelGone ==
  ASSUME WindowInvariant, NEW l \in W!LEVELS, W!Removed(l)
  PROVE  /\ level' \in [W!LEVELS -> W!Level]
         /\ \A k \in W!LEVELS :
              level'[k] = IF k \in {l} \cup W!Below(l) THEN W!None ELSE level[k]
         /\ link' \subseteq link /\ taken' \subseteq taken /\ profile' = "none"
         /\ LevelsMade' /\ CleanLists' /\ ProfileKnown'
         /\ (\A k \in OWNS : Clean(k) => level[k].owner # "user")
              => (\A k \in OWNS : Clean(k)' => level'[k].owner # "user")
<1> USE DEF WindowInvariant
<1>1. /\ level' \in [W!LEVELS -> W!Level]
      /\ \A k \in W!LEVELS :
           level'[k] = IF k \in {l} \cup W!Below(l) THEN W!None ELSE level[k]
      /\ link' = link \ ({l} \cup W!Below(l)) /\ taken' = taken \ ({l} \cup W!Below(l))
      /\ profile' = "none"
  BY TheLevels DEF W!Removed, W!TypeOK
<1>2. \A k \in OWNS : k \notin {l} \cup W!Below(l) => k = "installer" /\ l = "webview"
  BY TheLevels DEF OWNS
<1>3. \A k \in OWNS : level'[k] = W!None \/ (level'[k] = level[k] /\ (Clean(k)' => Clean(k)))
  BY <1>1, <1>2, TheLevels DEF Clean
<1>4. LevelsMade'
  BY <1>1 DEF LevelsMade
<1>5. CleanLists' /\ ProfileKnown'
  BY <1>1, <1>3, TheLevels DEF CleanLists, ProfileKnown, W!Trusted
<1>6. (\A k \in OWNS : Clean(k) => level[k].owner # "user")
        => (\A k \in OWNS : Clean(k)' => level'[k].owner # "user")
  BY <1>3, TheLevels
<1> QED  BY <1>1, <1>4, <1>5, <1>6

(* A level whose removal failed.                                           *)
LEMMA LevelHalfGone ==
  ASSUME WindowInvariant, NEW l \in OWNS, W!HalfRemoved(l)
  PROVE  /\ level' \in [W!LEVELS -> W!Level]
         /\ link' \subseteq W!LEVELS /\ taken' \subseteq W!LEVELS
         /\ profile' \in {profile, "none"}
         /\ LevelsMade' /\ CleanLists' /\ ProfileKnown'
<1> USE DEF WindowInvariant
<1>1. PICK given \in BOOLEAN, gone \in SUBSET W!Below(l) :
    /\ level' = [k \in W!LEVELS |->
          IF k \in gone THEN W!None
          ELSE IF given /\ k \in {l} \cup W!Below(l) /\ W!Exists(k)
               THEN [level[k] EXCEPT !.owner = "system"] ELSE level[k]]
    /\ link' = link \ gone
    /\ taken' = (taken \ gone) \cup
          {k \in {l} \cup W!Below(l) : k \notin gone /\ given /\ level[k].owner = "user"}
    /\ profile' \in IF "webview" \in gone THEN {"none"} ELSE {profile, "none"}
  BY DEF W!HalfRemoved
<1> DEFINE given_to(k) == given /\ k \in {l} \cup W!Below(l) /\ W!Exists(k)
<1>2. gone \subseteq {"webview"} /\ l \in W!LEVELS /\ l \notin gone
      /\ {l} \cup W!Below(l) \subseteq OWNS /\ level \in [W!LEVELS -> W!Level]
  BY TheLevels DEF OWNS, W!TypeOK
<1>3. \A k \in W!LEVELS : [level[k] EXCEPT !.owner = "system"] \in W!Level
        /\ [level[k] EXCEPT !.owner = "system"].owner = "system"
        /\ [level[k] EXCEPT !.owner = "system"].list = level[k].list
  BY <1>2 DEF W!Level
<1>4. \A k \in W!LEVELS :
        /\ level'[k] \in W!Level
        /\ k \in gone => level'[k] = W!None
        /\ k \notin gone /\ given_to(k) => level'[k].owner = "system" /\ level'[k].list = level[k].list
        /\ k \notin gone /\ ~given_to(k) => level'[k] = level[k]
  BY <1>1, <1>2, <1>3, TheLevels
<1>5. level' \in [W!LEVELS -> W!Level]
  BY <1>1, <1>4
<1>6. link' \subseteq W!LEVELS /\ taken' \subseteq W!LEVELS /\ profile' \in {profile, "none"}
  BY <1>1, <1>2, TheLevels DEF W!TypeOK
<1>7. \A k \in OWNS : k \notin gone /\ Clean(k)' => Clean(k)
  BY <1>1, <1>2 DEF Clean
<1>8. \A k \in OWNS : k \notin gone /\ Clean(k)' /\ given_to(k) => level[k].owner # "user"
  BY <1>1, <1>2 DEF Clean
<1>9. LevelsMade'
  BY <1>4 DEF LevelsMade
<1>10. \A k \in OWNS : k \notin gone /\ given_to(k) => level[k].owner # "none"
  BY TheLevels DEF LevelsMade, W!Exists
<1> HIDE DEF given_to
<1>11. CleanLists'
  <2> SUFFICES ASSUME NEW k \in OWNS, Clean(k)', W!Trusted(level'[k].owner)
               PROVE  level'[k].list \in {"open", "locked"}
    BY DEF CleanLists, W!Trusted
  <2>1. k \in W!LEVELS /\ k \notin gone /\ Clean(k)
    BY <1>4, <1>7, TheLevels DEF W!Trusted
  <2>2. CASE given_to(k)
    <3>1. W!Trusted(level[k].owner)
      BY <1>2, <1>8, <1>10, <2>1, <2>2 DEF W!Level, W!Trusted
    <3> QED  BY <1>4, <2>1, <2>2, <3>1 DEF CleanLists
  <2>3. CASE ~given_to(k)
    BY <1>4, <2>1, <2>3 DEF CleanLists
  <2> QED  BY <2>2, <2>3
<1>12. ProfileKnown'
  <2>1. CASE profile' = "none"
    BY <2>1 DEF ProfileKnown
  <2>2. CASE profile' = profile /\ "webview" \notin gone
    <3>1. gone = {} /\ link' = link
      BY <1>1, <1>2, <2>2
    <3>2. profile \in {"ours", "new"} =>
            \A k \in W!LEVELS : level'[k].owner # "none" /\ level'[k].list \in {"open", "locked"}
      BY <1>4, <3>1 DEF ProfileKnown
    <3>3. profile = "users" /\ Clean("webview")' => level'["webview"].owner = "user"
      BY <1>4, <1>7, <1>8, <2>2, TheLevels DEF ProfileKnown, OWNS
    <3> QED  BY <2>2, <3>1, <3>2, <3>3 DEF ProfileKnown
  <2> QED  BY <1>1, <2>1, <2>2
<1> QED  BY <1>5, <1>6, <1>9, <1>11, <1>12

(* The initial states.                                                     *)
LEMMA WindowInit ==
  ASSUME W!Init
  PROVE  WindowInvariant
<1>1. PICK there \in BOOLEAN :
        /\ level = [l \in W!LEVELS |-> IF there THEN W!Safe ELSE W!None]
        /\ logs = there /\ profile = IF there THEN "ours" ELSE "none"
  BY DEF W!Init
<1>2. level \in [W!LEVELS -> W!Level] /\ profile \in {"none", "ours"} /\ logs \in BOOLEAN
  BY <1>1, TheLevels
<1>3. \A l \in W!LEVELS : level[l] = W!None \/ level[l] = W!Safe
  BY <1>1
<1>4. profile = "ours" => \A l \in W!LEVELS : level[l] = W!Safe
  BY <1>1
<1>5. /\ at = "idle" /\ launched = FALSE /\ met = FALSE /\ link = {} /\ taken = {}
      /\ launches \in 0..Runs /\ faults \in 0..Faults
  BY NatBounds DEF W!Init
<1>6. W!TypeOK
  BY <1>2, <1>5 DEF W!TypeOK
<1>7. LevelsMade /\ CleanLists
  BY <1>3, TheLevels DEF LevelsMade, CleanLists, W!Trusted
<1>8. ProfileKnown
  BY <1>2, <1>4, <1>5, TheLevels DEF ProfileKnown
<1> QED  BY <1>5, <1>6, <1>7, <1>8
         DEF WindowInvariant, WindowProgress, CleanOwners, WindowOpen, OWNS

(* A launch that ends with no window.                                      *)
LEMMA WindowEnds ==
  ASSUME WindowInvariant, at # "idle", at' = "idle", UNCHANGED launched,
         W!TypeOK', LevelsMade', CleanLists', ProfileKnown'
  PROVE  WindowInvariant'
BY DEF WindowInvariant, WindowProgress, CleanOwners, WindowOpen, OWNS

(* The root: locked where it stands, whatever is in it.                    *)
LEMMA WindowRoot ==
  ASSUME WindowInvariant, W!Root
  PROVE  WindowInvariant'
<1>1. PICK done \in SUBSET W!TOOLS :
        \/ W!Locked("root", done) /\ at' = "look"
        \/ W!Fault /\ level' = [level EXCEPT !["root"] = W!Partly("root", done)] /\ at' = "idle"
  BY DEF W!Root
<1>2. /\ UNCHANGED <<link, logs, profile, launches, launched, met, taken>> /\ at = "root"
      /\ "root" \in W!LEVELS /\ "root" \notin OWNS
  BY TheLevels DEF W!Root, OWNS
<1>3. level' = [level EXCEPT !["root"] = W!Partly("root", done)] /\ faults' \in 0..Faults
  BY <1>1, <1>2, LockSecures, WindowFaults DEF WindowInvariant
<1>4. level' \in [W!LEVELS -> W!Level] /\ LevelsMade' /\ CleanLists' /\ ProfileKnown'
  BY <1>2, <1>3, LevelWorked
<1>5. W!TypeOK'
  BY <1>1, <1>2, <1>3, <1>4 DEF WindowInvariant, W!TypeOK
<1>6. CASE W!Locked("root", done) /\ at' = "look"
  <2>1. Secure("root")'
    BY <1>2, <1>6, LockSecures
  <2> QED  BY <1>2, <1>4, <1>5, <1>6, <2>1
           DEF WindowInvariant, WindowProgress, CleanOwners, WindowOpen, OWNS
<1>7. CASE at' = "idle"
  BY <1>2, <1>4, <1>5, <1>7, WindowEnds
<1> QED  BY <1>1, <1>6, <1>7

(* The look: when the launch goes on no level is a user's any more.        *)
LEMMA WindowLook ==
  ASSUME WindowInvariant, W!Look
  PROVE  WindowInvariant'
<1> USE DEF WindowInvariant
<1>1. PICK owners \in [W!LEVELS -> {"none", "system", "admins", "user"}] :
       /\ \A l \in W!LEVELS : owners[l] \in {level[l].owner, "none"}
       /\ LET unread == \E l \in {"installer", "webview"} : W!Exists(l) /\ owners[l] = "none"
              bad == W!shallowest_untrusted(owners) IN
          /\ IF unread THEN W!Fault ELSE UNCHANGED faults
          /\ met' = (profile = "ours" /\ ~unread
                      /\ W!Trusted(level["installer"].owner) /\ W!Trusted(level["webview"].owner))
          /\ \/ bad = {} /\ at' = "installer" /\ UNCHANGED <<level, link, taken, profile>>
             \/ \E l \in bad : W!Removed(l) /\ at' = "installer"
             \/ \E l \in bad : W!HalfRemoved(l) /\ at' = "idle"
  BY DEF W!Look
<1> DEFINE unread == \E l \in {"installer", "webview"} : W!Exists(l) /\ owners[l] = "none"
           bad == W!shallowest_untrusted(owners)
<1>2. /\ at = "look" /\ Secure("root") /\ ~launched
      /\ UNCHANGED <<logs, launches, launched>>
  BY DEF W!Look, WindowProgress
<1>3. met' \in BOOLEAN /\ faults' \in 0..Faults
  BY <1>1, WindowFaults
<1>4. /\ bad \subseteq OWNS
      /\ \A l \in OWNS : W!Exists(l) /\ ~W!Trusted(owners[l]) => l \in bad \/ "installer" \in bad
      /\ \A l \in bad : W!Exists(l) /\ ~W!Trusted(owners[l])
  BY DEF W!shallowest_untrusted, OWNS
<1>5. \A l \in OWNS : level[l].owner = "user" => W!Exists(l) /\ ~W!Trusted(owners[l])
  BY <1>1, TheLevels DEF W!Exists, W!Trusted
<1>6. \A l \in OWNS : l \in bad => ~met'
  <2> SUFFICES ASSUME NEW l \in OWNS, l \in bad, met' PROVE FALSE
    OBVIOUS
  <2>1. owners[l] = level[l].owner
    BY <1>1, <1>4, TheLevels DEF OWNS
  <2> QED  BY <1>1, <1>4, <2>1 DEF OWNS
<1>7. met' => profile = "ours"
  BY <1>1
<1> HIDE DEF bad, unread
<1>8. CASE bad = {} /\ at' = "installer" /\ UNCHANGED <<level, link, taken, profile>>
  <2>1. \A l \in OWNS : level[l].owner # "user"
    BY <1>4, <1>5, <1>8
  <2>2. LevelsMade' /\ CleanLists' /\ CleanOwners' /\ ProfileKnown' /\ Secure("root")'
    BY <1>2, <1>8, <2>1 DEF LevelsMade, CleanLists, CleanOwners, ProfileKnown, Clean, Secure
  <2>3. W!TypeOK'
    BY <1>2, <1>3, <1>8 DEF W!TypeOK, W!LEVELS
  <2>4. WindowProgress' /\ WindowOpen'
    BY <1>2, <1>7, <1>8, <2>2 DEF WindowProgress, WindowOpen
  <2> QED  BY <2>2, <2>3, <2>4
<1>9. ASSUME NEW l \in bad, W!Removed(l), at' = "installer"
      PROVE  WindowInvariant'
  <2>1. l \in W!LEVELS /\ l \in OWNS
    BY <1>4, TheLevels
  <2>2. /\ level' \in [W!LEVELS -> W!Level]
        /\ \A k \in W!LEVELS :
             level'[k] = IF k \in {l} \cup W!Below(l) THEN W!None ELSE level[k]
        /\ link' \subseteq link /\ taken' \subseteq taken /\ profile' = "none"
        /\ LevelsMade' /\ CleanLists' /\ ProfileKnown'
    BY <1>9, <2>1, LevelGone
  <2>3. level'["root"] = level["root"]
    BY <2>1, <2>2, TheLevels DEF OWNS
  <2>4. \A k \in OWNS : level'[k].owner # "user"
    <3>1. "installer" \in bad => l = "installer"
      BY DEF bad, W!shallowest_untrusted
    <3>2. \A k \in OWNS : k \notin {l} \cup W!Below(l) => k = "installer" /\ l = "webview"
      BY <2>1, TheLevels DEF OWNS
    <3>3. \A k \in OWNS : k \notin {l} \cup W!Below(l) => level[k].owner # "user"
      BY <1>4, <1>5, <3>1, <3>2
    <3> QED  BY <2>2, <3>3, TheLevels
  <2>5. CleanOwners' /\ Secure("root")'
    BY <1>2, <2>3, <2>4 DEF CleanOwners, Secure
  <2>6. ~met'
    BY <1>6, <2>1
  <2>7. W!TypeOK'
    BY <1>2, <1>3, <1>9, <2>2 DEF W!TypeOK, W!LEVELS
  <2>8. WindowProgress' /\ WindowOpen'
    BY <1>2, <1>9, <2>5, <2>6 DEF WindowProgress, WindowOpen
  <2> QED  BY <2>2, <2>5, <2>7, <2>8
<1>10. ASSUME NEW l \in bad, W!HalfRemoved(l), at' = "idle"
       PROVE  WindowInvariant'
  <2>1. l \in OWNS
    BY <1>4
  <2>2. /\ level' \in [W!LEVELS -> W!Level]
        /\ link' \subseteq W!LEVELS /\ taken' \subseteq W!LEVELS
        /\ profile' \in {profile, "none"}
        /\ LevelsMade' /\ CleanLists' /\ ProfileKnown'
    BY <1>10, <2>1, LevelHalfGone
  <2>3. W!TypeOK'
    BY <1>2, <1>3, <1>10, <2>2 DEF W!TypeOK
  <2> QED  BY <1>2, <1>10, <2>2, <2>3, WindowEnds
<1> QED  BY <1>1, <1>8, <1>9, <1>10 DEF bad

(* One of the installer's levels: made and locked under a level already    *)
(* locked, removed again, or left as far as the tools got.                 *)
LEMMA WindowOwn ==
  ASSUME WindowInvariant,
         NEW l \in OWNS, NEW next \in {"webview", "recheck"},
         next = "webview" <=> l = "installer", W!Own(l, next)
  PROVE  WindowInvariant'
<1> USE DEF WindowInvariant
<1>1. PICK done \in SUBSET W!TOOLS :
        \/ /\ W!Locked(l, done) /\ at' = next
           /\ UNCHANGED <<link, logs, profile, launched, launches, met, taken>>
        \/ W!Fault /\ W!Purge /\ W!End
        \/ W!Fault /\ level' = [level EXCEPT ![l] = W!Partly(l, done)]
                 /\ UNCHANGED <<link, logs, profile, taken>> /\ W!End
  BY DEF W!Own
<1>2. /\ l \in W!LEVELS /\ "installer" \in W!LEVELS /\ at = l /\ at \in OWNS /\ at # "idle"
      /\ ~launched /\ Secure("root") /\ (l = "webview" => Secure("installer"))
      /\ met => profile = "ours"
  BY TheLevels DEF OWNS, W!Own, WindowProgress
<1>3. CASE /\ W!Locked(l, done) /\ at' = next
           /\ UNCHANGED <<link, logs, profile, launched, launches, met, taken>>
  <2>1. level' = [level EXCEPT ![l] = W!Partly(l, done)] /\ Secure(l)' /\ faults' \in 0..Faults
    BY <1>2, <1>3, LockSecures
  <2>2. /\ level' \in [W!LEVELS -> W!Level] /\ LevelsMade' /\ CleanLists' /\ ProfileKnown'
        /\ \A k \in W!LEVELS : k # l => level'[k] = level[k]
        /\ \A k \in OWNS : Clean(k)' => level'[k].owner # "user"
    BY <1>2, <1>3, <2>1, LevelWorked
  <2>3. Secure("root")' /\ Secure("installer")' /\ (l = "webview" => Secure("webview")')
    BY <1>2, <2>1, <2>2, TheLevels DEF Secure, OWNS
  <2>4. W!TypeOK'
    BY <1>3, <2>1, <2>2 DEF W!TypeOK, W!LEVELS
  <2>5. WindowProgress' /\ CleanOwners' /\ WindowOpen'
    BY <1>2, <1>3, <2>2, <2>3 DEF WindowProgress, CleanOwners, WindowOpen, OWNS
  <2> QED  BY <2>2, <2>4, <2>5
<1>4. CASE W!Fault /\ W!Purge /\ W!End
  <2>1. W!Removed("installer") /\ UNCHANGED <<logs, met, launches, launched>> /\ at' = "idle"
    BY <1>4 DEF W!Purge, W!End
  <2>2. /\ level' \in [W!LEVELS -> W!Level] /\ LevelsMade' /\ CleanLists' /\ ProfileKnown'
        /\ link' \subseteq link /\ taken' \subseteq taken /\ profile' = "none"
    BY <1>2, <2>1, LevelGone
  <2>3. W!TypeOK'
    BY <1>4, <2>1, <2>2, WindowFaults DEF W!TypeOK
  <2> QED  BY <1>2, <2>1, <2>2, <2>3, WindowEnds
<1>5. CASE W!Fault /\ level' = [level EXCEPT ![l] = W!Partly(l, done)]
                 /\ UNCHANGED <<link, logs, profile, taken>> /\ W!End
  <2>1. /\ level' \in [W!LEVELS -> W!Level] /\ LevelsMade' /\ CleanLists' /\ ProfileKnown'
        /\ UNCHANGED <<met, launches, launched>> /\ at' = "idle"
    BY <1>2, <1>5, LevelWorked DEF W!End
  <2>2. W!TypeOK'
    BY <1>5, <2>1, WindowFaults DEF W!TypeOK
  <2> QED  BY <1>2, <2>1, <2>2, WindowEnds
<1> QED  BY <1>1, <1>3, <1>4, <1>5

(* The links looked for again: over levels that are all locked the window  *)
(* opens when there is none.                                               *)
LEMMA WindowRecheck ==
  ASSUME WindowInvariant, W!Recheck
  PROVE  WindowInvariant'
<1> USE DEF WindowInvariant
<1>1. /\ at = "recheck" /\ at' = "idle" /\ UNCHANGED <<logs, met, launches, faults>>
      /\ \A l \in W!LEVELS : Secure(l)
      /\ met => profile = "ours"
  BY TheLevels DEF W!Recheck, WindowProgress
<1>2. CASE /\ link = {} /\ launched' = TRUE
           /\ profile' = IF profile = "none" THEN "new" ELSE profile
           /\ UNCHANGED <<level, link, taken>>
  <2>1. W!TypeOK' /\ LevelsMade' /\ CleanLists' /\ CleanOwners' /\ WindowProgress'
    BY <1>1, <1>2 DEF W!TypeOK, LevelsMade, CleanLists, CleanOwners, WindowProgress, Clean, OWNS
  <2>2. ProfileKnown'
    BY <1>1, <1>2 DEF ProfileKnown, Clean, Secure, W!Trusted
  <2>3. WindowOpen'
    BY <1>1, <1>2 DEF WindowOpen, Secure
  <2> QED  BY <2>1, <2>2, <2>3
<1>3. CASE W!Removed("installer") /\ UNCHANGED launched
  <2>1. /\ level' \in [W!LEVELS -> W!Level] /\ LevelsMade' /\ CleanLists' /\ ProfileKnown'
        /\ link' \subseteq link /\ taken' \subseteq taken /\ profile' = "none"
    BY <1>3, LevelGone, TheLevels DEF OWNS
  <2>2. W!TypeOK'
    BY <1>1, <1>3, <2>1 DEF W!TypeOK
  <2> QED  BY <1>1, <1>3, <2>1, <2>2, WindowEnds
<1>4. CASE UNCHANGED <<level, link, profile, launched, taken>>
  <2>1. W!TypeOK' /\ LevelsMade' /\ CleanLists' /\ ProfileKnown'
    BY <1>1, <1>4 DEF W!TypeOK, LevelsMade, CleanLists, ProfileKnown, Clean
  <2> QED  BY <1>1, <1>4, <2>1, WindowEnds
<1> QED  BY <1>2, <1>3, <1>4 DEF W!Recheck

(* A folder or a link a user makes, where they may.                        *)
LEMMA UserGives ==
  ASSUME WindowInvariant, NEW l \in W!LEVELS, NEW to \in {W!Users, W!Safe},
         level' = [level EXCEPT ![l] = to],
         link' = link \cup {l} \/ (to = W!Users /\ UNCHANGED link),
         profile' = IF l = "webview" THEN "users" ELSE profile,
         UNCHANGED <<logs, at, launched, met, taken, launches, faults>>,
         level[l].owner = "none" \/ level[l].list \in {"users", "mixed"},
         at \in OWNS /\ UNCHANGED link => ~Clean(l)
  PROVE  WindowInvariant'
<1> USE DEF WindowInvariant
<1>1. /\ level' \in [W!LEVELS -> W!Level] /\ level'[l] = to /\ ~Secure(l)
      /\ \A k \in W!LEVELS : k # l => level'[k] = level[k]
  BY TheLevels DEF W!TypeOK, Secure, W!Trusted
<1>2. profile \notin {"ours", "new"} /\ ~launched
  BY <1>1 DEF ProfileKnown, WindowOpen
<1>3. /\ W!TypeOK' /\ LevelsMade'
  BY <1>1, TheLevels DEF W!TypeOK, LevelsMade
<1>4. \A k \in W!LEVELS : (Clean(k)' => Clean(k)) /\ (k = l /\ Clean(k)' => to = W!Users /\ link' = link)
  BY DEF Clean
<1>5. CleanLists'
  BY <1>1, <1>4, TheLevels DEF CleanLists, W!Trusted
<1>6. CleanOwners'
  BY <1>1, <1>4, TheLevels DEF CleanOwners
<1>7. ProfileKnown'
  <2>1. profile' \notin {"ours", "new"}
    BY <1>2
  <2>2. profile' = "users" /\ Clean("webview")' => level'["webview"].owner = "user"
    BY <1>1, <1>4, TheLevels DEF ProfileKnown
  <2> QED  BY <2>1, <2>2 DEF ProfileKnown
<1>8. WindowProgress' /\ WindowOpen'
  <2>1. \A k \in W!LEVELS : Secure(k) => Secure(k)'
    BY <1>1 DEF Secure
  <2> QED  BY <1>2, <2>1, TheLevels DEF WindowProgress, WindowOpen
<1> QED  BY <1>3, <1>5, <1>6, <1>7, <1>8

(* What the users of the machine do.                                       *)
LEMMA WindowUsers ==
  ASSUME WindowInvariant, W!UserMakes \/ W!UserLinks \/ W!UserTakes
  PROVE  WindowInvariant'
<1> USE DEF WindowInvariant
<1>1. CASE W!UserMakes
  <2>1. PICK l \in W!LEVELS :
          /\ ~W!Exists(l) /\ (l # "root" => W!Exists(W!Parent(l))) /\ W!MayMake(l)
          /\ \/ level' = [level EXCEPT ![l] = W!Users] /\ UNCHANGED link
             \/ \E to \in {W!Users, W!Safe} :
                  level' = [level EXCEPT ![l] = to] /\ link' = link \cup {l}
          /\ profile' = IF l = "webview" THEN "users" ELSE profile
    BY <1>1 DEF W!UserMakes
  <2>2. UNCHANGED <<logs, at, launched, met, taken, launches, faults>>
    BY <1>1 DEF W!UserMakes
  <2>3. level[l].owner = "none"
    BY <2>1, TheLevels DEF W!Exists
  <2>4. at \in OWNS => ~Clean(l)
    <3> SUFFICES ASSUME at \in OWNS, Clean(l) PROVE FALSE
      OBVIOUS
    <3>1. Secure("root") /\ ~W!Lets("root") /\ W!Exists("root")
      BY TheLevels DEF WindowProgress, OWNS, Secure, W!Lets, W!Exists, W!Trusted
    <3>2. l = "webview" /\ W!Exists("installer") /\ level["installer"].list \in {"users", "mixed"}
      BY <2>1, <3>1, TheLevels DEF W!MayMake, W!Lets, W!Parent
    <3>3. Clean("installer") /\ "installer" \in OWNS /\ "installer" \in W!LEVELS
      BY TheLevels DEF Clean, OWNS
    <3>4. level["installer"].owner \notin {"user", "none"} /\ level["installer"] \in W!Level
      BY <3>2, <3>3 DEF CleanOwners, LevelsMade, W!Exists, W!TypeOK
    <3> QED  BY <3>2, <3>3, <3>4 DEF CleanLists, W!Trusted, W!Level
  <2> QED  BY <2>1, <2>2, <2>3, <2>4, UserGives
<1>2. CASE W!UserLinks
  <2>1. PICK l \in W!LEVELS, to \in {W!Users, W!Safe} :
          /\ W!Theirs(l) /\ l \notin link
          /\ level' = [level EXCEPT ![l] = to] /\ link' = link \cup {l}
          /\ profile' = IF l = "webview" THEN "users" ELSE profile
    BY <1>2 DEF W!UserLinks
  <2>2. UNCHANGED <<logs, at, launched, met, taken, launches, faults>>
    BY <1>2 DEF W!UserLinks
  <2> QED  BY <2>1, <2>2, UserGives DEF W!Theirs
<1>3. CASE W!UserTakes
  <2>1. PICK l \in W!LEVELS :
          /\ W!Exists(l)
          /\ W!Theirs(l) \/ l \in link \/ (l # "root" /\ W!Theirs(W!Parent(l)))
          /\ at = "idle" \/ link \cap ({l} \cup W!Below(l)) = {}
          /\ W!Removed(l)
    BY <1>3 DEF W!UserTakes
  <2>2. UNCHANGED <<logs, at, launched, met, launches, faults>>
    BY <1>3 DEF W!UserTakes
  <2>3. /\ level' \in [W!LEVELS -> W!Level]
        /\ \A k \in W!LEVELS :
             level'[k] = IF k \in {l} \cup W!Below(l) THEN W!None ELSE level[k]
        /\ link' \subseteq link /\ taken' \subseteq taken /\ profile' = "none"
        /\ LevelsMade' /\ CleanLists' /\ ProfileKnown'
        /\ (\A k \in OWNS : Clean(k) => level[k].owner # "user")
             => (\A k \in OWNS : Clean(k)' => level'[k].owner # "user")
    BY <2>1, LevelGone
  <2>4. W!TypeOK' /\ CleanOwners'
    BY <2>2, <2>3 DEF W!TypeOK, CleanOwners
  <2>5. \/ link # {}
        \/ \E k \in W!LEVELS : level[k].list \in {"users", "mixed"}
    BY <2>1, TheLevels DEF W!Theirs, W!Parent
  <2>6. profile \notin {"ours", "new"} /\ ~launched
    BY <2>5 DEF ProfileKnown, WindowOpen, Secure
  <2>7. ASSUME at # "idle", Secure("root")
        PROVE  /\ Secure("root")' /\ l # "root"
               /\ Secure("installer") => Secure("installer")' /\ l # "installer"
               /\ Secure("installer") /\ Secure("webview") => Secure("webview")'
    <3>1. /\ l \notin link
          /\ W!Theirs(l) \/ (l # "root" /\ W!Theirs(W!Parent(l)))
      BY <2>1, <2>7
    <3>2. l # "root" /\ (l = "installer" => ~Secure("installer"))
      BY <2>7, <3>1 DEF Secure, W!Theirs, W!Parent
    <3>3. ~(Secure("installer") /\ Secure("webview") /\ l = "webview")
      BY <2>7, <3>1 DEF Secure, W!Theirs, W!Parent
    <3>4. \A k \in W!LEVELS : k \notin {l} \cup W!Below(l) => level'[k] = level[k]
      BY <2>3
    <3>5. Secure("root")'
      BY <2>7, <3>2, <3>4, TheLevels DEF Secure, OWNS
    <3>6. Secure("installer") => l = "webview"
      BY <3>2, TheLevels
    <3>7. Secure("installer") => Secure("installer")'
      BY <3>4, <3>6, TheLevels DEF Secure
    <3> QED  BY <3>2, <3>3, <3>5, <3>6, <3>7
  <2>8. WindowOpen'
    BY <2>2, <2>6 DEF WindowOpen
  <2>9. WindowProgress'
    <3> USE DEF WindowProgress
    <3>1. CASE at = "idle"
      BY <2>2, <3>1
    <3>2. CASE at # "idle"
      <4>1. at \in {"look", "installer", "webview", "recheck"} => Secure("root")'
        BY <2>7, <3>2
      <4>2. at \in {"webview", "recheck"} => Secure("installer")'
        BY <2>7, <3>2
      <4>3. at = "recheck" => Secure("webview")'
        BY <2>7, <3>2
      <4>4. at \in {"installer", "webview", "recheck"} => ~met
        BY <2>6
      <4> QED  BY <2>2, <2>6, <4>1, <4>2, <4>3, <4>4
    <3> QED  BY <3>1, <3>2
  <2> QED  BY <2>3, <2>4, <2>8, <2>9
<1> QED  BY <1>1, <1>2, <1>3

LEMMA WindowRest ==
  ASSUME WindowInvariant,
         W!Begin \/ W!Check \/ W!Crash \/ W!ServiceWrites \/ UNCHANGED W!vars
  PROVE  WindowInvariant'
<1> USE DEF WindowInvariant
<1>1. CASE W!Begin
  <2>1. /\ at' = "check" /\ launched' = FALSE /\ met' = FALSE
        /\ UNCHANGED <<level, link, logs, taken, faults>>
        /\ profile' = IF profile = "new" THEN "ours" ELSE profile
    BY <1>1 DEF W!Begin
  <2>2. launches' \in 0..Runs
    BY <1>1, NatBounds DEF W!Begin, W!TypeOK
  <2>3. W!TypeOK' /\ LevelsMade' /\ CleanLists' /\ ProfileKnown'
    BY <2>1, <2>2 DEF W!TypeOK, LevelsMade, CleanLists, ProfileKnown, Clean
  <2> QED  BY <2>1, <2>3 DEF WindowProgress, CleanOwners, WindowOpen, OWNS
<1>2. CASE W!Crash \/ W!Check \/ W!ServiceWrites \/ UNCHANGED W!vars
  <2>1. /\ UNCHANGED <<level, link, profile, launched, met, taken, launches>>
        /\ faults' \in 0..Faults /\ logs' \in BOOLEAN
        /\ at' \in {at, "idle"} \/ (at' = "root" /\ at = "check")
    BY <1>2, WindowFaults
    DEF W!Crash, W!Check, W!ServiceWrites, W!vars, W!TypeOK
  <2>2. W!TypeOK' /\ LevelsMade' /\ CleanLists' /\ ProfileKnown'
    BY <2>1, TheLevels DEF W!TypeOK, LevelsMade, CleanLists, ProfileKnown, Clean
  <2>3. WindowProgress' /\ CleanOwners' /\ WindowOpen'
    BY <2>1 DEF WindowProgress, CleanOwners, WindowOpen, OWNS, Secure, Clean
  <2> QED  BY <2>2, <2>3
<1> QED  BY <1>1, <1>2

LEMMA WindowStep ==
  ASSUME WindowInvariant, [W!Next]_(W!vars)
  PROVE  WindowInvariant'
<1>1. CASE W!Own("installer", "webview") \/ W!Own("webview", "recheck")
  BY <1>1, WindowOwn DEF OWNS
<1> QED  BY <1>1, WindowRoot, WindowLook, WindowRecheck, WindowUsers, WindowRest DEF W!Next

(* A window opens over folders that are locked down from the shared root   *)
(* and reached by no link, with the profile an earlier window left or a    *)
(* new one, and never with one that a user left (read_and_verify,          *)
(* shallowest_untrusted, the two checks of reparse points) -- but in  *)
(* a level an earlier launch took from its owner and failed to remove.     *)
THEOREM WindowIsSafe == Spec => []WindowHolds
<1>1. Init => (which = "profile" => WindowInvariant)
  BY WindowInit DEF Init
<1>2. (which = "profile" => WindowInvariant) /\ [Next]_vars
      => (which = "profile" => WindowInvariant)'
  BY WindowStep DEF Next, vars, W!vars
<1>3. (which = "profile" => WindowInvariant) => WindowHolds
  BY WindowSuffices DEF WindowHolds
<1> QED  BY <1>1, <1>2, <1>3, PTL DEF Spec

(* No step of a launch costs the other services their files under the      *)
(* shared root (purge_own_levels leaves the root alone).                   *)
LEMMA LogsAreKept == W!Next => W!KeepsLogs
BY DEF W!Next, W!KeepsLogs, W!Begin, W!Check, W!Root, W!Look, W!Own, W!Purge, W!Recheck,
       W!Crash, W!UserMakes, W!UserLinks, W!UserTakes, W!ServiceWrites

------------------------------------------------------------------------------
(* RegAudit.                                                               *)

(* What a manager knows is a unit with a program or nothing at all; the    *)
(* file launchd keeps is one the next boot loads; a file that is not ours  *)
(* to remove is one of systemd's.                                          *)
UnitsFit(us) ==
  \A r \in A!REGS, s \in A!SCOPES :
    /\ us[r][s].path = "none" => us[r][s] = A!NoUnit
    /\ os = "macos" /\ us[r][s].path # "none" => us[r][s].enabled

Placed == place # "etc" => os = "linux"

AuditInvariant ==
  /\ A!TypeOK /\ A!MigrationHolds
  /\ UnitsFit(unit) /\ Placed
  /\ step # "idle" => ~ready

LEMMA AuditUnits ==
  /\ A!NoUnit \in A!Unit
  /\ \A p \in A!PATHS : A!Running(p) \in A!Unit
  /\ A!REGS = Services \cup {"beacon"} /\ "beacon" \in A!REGS
  /\ A!SCOPES = {"user", "system"}
BY DEF A!NoUnit, A!Unit, A!PATHS, A!Running, A!REGS, A!SCOPES

LEMMA NothingThere ==
  \A v \in A!Unit : v.path = "none" /\ v.enabled = FALSE /\ v.up = FALSE => v = A!NoUnit
BY DEF A!Unit, A!NoUnit

LEMMA AuditFaults ==
  ASSUME A!TypeOK, A!Fault \/ UNCHANGED faults
  PROVE  faults' \in 0..Faults
BY NatBounds DEF A!TypeOK, A!Fault

(* What the tools leave of one unit.                                       *)
LEMMA LeftFits ==
  ASSUME NEW u \in A!Unit, u.path = "none" => u = A!NoUnit,
         os = "macos" /\ u.path # "none" => u.enabled
  PROVE  \A v \in {A!Left(u), [u EXCEPT !.up = FALSE], u} :
           /\ v \in A!Unit /\ (v.path = "none" => v = A!NoUnit)
           /\ os = "macos" /\ v.path # "none" => v.enabled
<1>1. /\ [u EXCEPT !.up = FALSE] \in A!Unit
      /\ [u EXCEPT !.up = FALSE].path = u.path /\ [u EXCEPT !.up = FALSE].enabled = u.enabled
  BY DEF A!Unit
<1>7. u = A!NoUnit => [u EXCEPT !.up = FALSE] = A!NoUnit
  <2>1. u = A!NoUnit => u.path = "none" /\ u.enabled = FALSE
    BY DEF A!NoUnit
  <2>2. [u EXCEPT !.up = FALSE].up = FALSE
    BY DEF A!Unit
  <2> QED  BY <1>1, <2>1, <2>2, NothingThere
<1>2. [u EXCEPT !.up = FALSE, !.enabled = (os = "macos")] \in A!Unit
  BY DEF A!Unit
<1>3. A!NoUnit \in A!Unit /\ A!NoUnit.path = "none"
  BY DEF A!Unit, A!NoUnit, A!PATHS
<1>4. A!Left(u) = A!NoUnit \/ (u # A!NoUnit
        /\ A!Left(u) = [u EXCEPT !.up = FALSE, !.enabled = (os = "macos")])
  BY DEF A!Left
<1>5. u # A!NoUnit => [u EXCEPT !.up = FALSE, !.enabled = (os = "macos")].path # "none"
  BY DEF A!Unit
<1>6. os = "macos" => [u EXCEPT !.up = FALSE, !.enabled = (os = "macos")].enabled
  BY DEF A!Unit
<1> QED  BY <1>1, <1>2, <1>3, <1>4, <1>5, <1>6, <1>7

LEMMA DeregisteredFits ==
  ASSUME A!TypeOK, UnitsFit(unit), NEW r \in A!REGS, NEW tools \in {"both", "stop", "none"}
  PROVE  /\ A!Deregistered(r, tools) \in [A!SCOPES -> A!Unit]
         /\ UnitsFit([unit EXCEPT ![r] = A!Deregistered(r, tools)])
<1>1. \A s \in A!SCOPES : A!Deregistered(r, tools)[s] \in
        {A!Left(unit[r][s]), [unit[r][s] EXCEPT !.up = FALSE], unit[r][s]}
  BY DEF A!Deregistered
<1>2. ASSUME NEW s \in A!SCOPES
      PROVE  LET v == A!Deregistered(r, tools)[s] IN
             /\ v \in A!Unit /\ (v.path = "none" => v = A!NoUnit)
             /\ os = "macos" /\ v.path # "none" => v.enabled
  <2>1. /\ unit[r][s] \in A!Unit /\ (unit[r][s].path = "none" => unit[r][s] = A!NoUnit)
        /\ os = "macos" /\ unit[r][s].path # "none" => unit[r][s].enabled
    BY DEF A!TypeOK, UnitsFit
  <2> QED  BY <1>1, <2>1, LeftFits
<1>3. A!Deregistered(r, tools) \in [A!SCOPES -> A!Unit]
  BY <1>2 DEF A!Deregistered
<1> QED  BY <1>2, <1>3 DEF UnitsFit, A!TypeOK

LEMMA DeregisteredUp ==
  ASSUME A!TypeOK, NEW r \in A!REGS, NEW tools \in {"both", "stop", "none"},
         NEW s \in A!SCOPES, A!Deregistered(r, tools)[s].up
  PROVE  A!Deregistered(r, tools)[s] = unit[r][s]
<1>1. unit[r][s] \in A!Unit
  BY DEF A!TypeOK
<1>2. ~A!Left(unit[r][s]).up
  BY <1>1 DEF A!Left, A!Unit, A!NoUnit
<1>3. ~[unit[r][s] EXCEPT !.up = FALSE].up
  BY <1>1 DEF A!Unit
<1> QED  BY <1>2, <1>3 DEF A!Deregistered

LEMMA AuditInit ==
  ASSUME A!Init
  PROVE  AuditInvariant
<1>1. PICK paths \in [A!REGS -> A!PATHS], perUser \in SUBSET Services :
        /\ perUser # {} => os = "linux"
        /\ unit = [r \in A!REGS |-> [s \in A!SCOPES |->
             IF paths[r] = "none" \/ (s = "user") # (r \in perUser) THEN A!NoUnit
             ELSE A!Running(paths[r])]]
        /\ oldProgram = {r \in A!REGS : paths[r] = "old"}
        /\ place \in IF os = "linux" /\ paths["beacon"] # "none"
                     THEN {"etc", "vendor", "alias"} ELSE {"etc"}
  BY DEF A!Init
<1>2. unit \in [A!REGS -> [A!SCOPES -> A!Unit]]
  BY <1>1, AuditUnits
<1>3. UnitsFit(unit) /\ Placed
  BY <1>1 DEF UnitsFit, Placed, A!NoUnit, A!Running
<1>4. /\ os \in {"windows", "linux", "macos"}
      /\ has = {} /\ step = "idle" /\ ready = FALSE /\ blind = FALSE /\ runs = 0 /\ faults = 0
      /\ vacating = {} /\ clearing = {} /\ retired = {} /\ notes = {}
  BY DEF A!Init
<1>5. 0 \in 0..Runs /\ 0 \in 0..Faults
  BY NatBounds
<1>6. place \in {"etc", "vendor", "alias"} /\ oldProgram \subseteq A!REGS
  BY <1>1
<1>7. A!TypeOK
  BY <1>2, <1>4, <1>5, <1>6 DEF A!TypeOK
<1> QED  BY <1>3, <1>4, <1>7
         DEF AuditInvariant, A!MigrationHolds, A!RetiredIsDown, A!ReadyMeansMoved

(* The steps that leave the units alone and end no run.                    *)
LEMMA AuditLooks ==
  ASSUME AuditInvariant, A!Begin \/ A!Scan \/ A!ClearProgram \/ A!Crash
  PROVE  AuditInvariant'
<1> USE DEF AuditInvariant
<1>1. CASE A!Begin
  <2>1. runs' \in 0..Runs
    BY <1>1, NatBounds DEF A!Begin, A!TypeOK
  <2>2. A!TypeOK'
    BY <1>1, <2>1 DEF A!Begin, A!TypeOK, A!Machine
  <2> QED  BY <1>1, <2>2 DEF A!Begin, A!Machine, UnitsFit, Placed, A!MigrationHolds,
                             A!RetiredIsDown, A!ReadyMeansMoved
<1>2. CASE A!Scan
  <2>1. PICK read \in [A!REGS -> A!PATHS] :
          A!Read(read) /\ vacating' = A!regs_pointing_under_legacy(read)
    BY <1>2 DEF A!Scan
  <2>2. faults' \in 0..Faults /\ blind' \in BOOLEAN /\ (blind => blind')
    BY <2>1, AuditFaults DEF A!Read, A!TypeOK
  <2>3. A!TypeOK'
    BY <1>2, <2>1, <2>2
    DEF A!Scan, A!TypeOK, A!InRun, A!Machine, A!regs_pointing_under_legacy
  <2> QED  BY <1>2, <2>2, <2>3 DEF A!Scan, A!InRun, A!Machine, UnitsFit, Placed,
                                   A!MigrationHolds, A!RetiredIsDown, A!ReadyMeansMoved
<1>3. CASE A!ClearProgram
  <2>1. PICK r \in clearing :
          /\ clearing' = clearing \ {r}
          /\ \/ oldProgram' = oldProgram \ {r} /\ UNCHANGED faults
             \/ A!Fault /\ UNCHANGED oldProgram
    BY <1>3 DEF A!ClearProgram
  <2>2. faults' \in 0..Faults
    BY <2>1, AuditFaults
  <2>3. A!TypeOK'
    BY <1>3, <2>1, <2>2 DEF A!ClearProgram, A!TypeOK, A!InRun
  <2> QED  BY <1>3, <2>3 DEF A!ClearProgram, A!InRun, UnitsFit, Placed,
                             A!MigrationHolds, A!RetiredIsDown, A!ReadyMeansMoved
<1>4. CASE A!Crash
  <2>1. A!TypeOK'
    BY <1>4, AuditFaults DEF A!Crash, A!TypeOK, A!Machine
  <2> QED  BY <1>4, <2>1 DEF A!Crash, A!Machine, UnitsFit, Placed,
                             A!MigrationHolds, A!RetiredIsDown, A!ReadyMeansMoved
<1> QED  BY <1>1, <1>2, <1>3, <1>4

(* A service that is no longer seen to run is down in both scopes.         *)
LEMMA AuditVacates ==
  ASSUME AuditInvariant, A!VacateService
  PROVE  AuditInvariant'
<1> USE DEF AuditInvariant
<1>1. PICK r \in vacating \cap Services, tools \in {"both", "stop", "none"}, seen \in BOOLEAN :
       /\ IF tools = "both" /\ seen THEN UNCHANGED faults ELSE A!Fault
       /\ blind' = (blind \/ ~seen)
       /\ unit' = [unit EXCEPT ![r] = A!Deregistered(r, tools)]
       /\ A!Dealt(r, ~seen \/ ~A!StillRuns(A!Deregistered(r, tools)))
  BY DEF A!VacateService
<1>2. r \in A!REGS
  BY AuditUnits
<1>3. /\ A!Deregistered(r, tools) \in [A!SCOPES -> A!Unit]
      /\ UnitsFit([unit EXCEPT ![r] = A!Deregistered(r, tools)])
  BY <1>2, DeregisteredFits
<1>4. /\ unit' \in [A!REGS -> [A!SCOPES -> A!Unit]]
      /\ unit'[r] = A!Deregistered(r, tools)
      /\ \A q \in A!REGS : q # r => unit'[q] = unit[q]
  BY <1>1, <1>2, <1>3 DEF A!TypeOK
<1>5. /\ step = "vacate" /\ step' = step /\ ready' = ready /\ place' = place /\ os' = os
      /\ faults' \in 0..Faults
  BY <1>1, AuditFaults DEF A!VacateService, A!InRun
<1>6. blind' \in BOOLEAN
  BY <1>1
<1>7. vacating' \subseteq A!REGS /\ retired' \subseteq A!REGS /\ notes' \subseteq A!REGS
  BY <1>1, <1>2 DEF A!Dealt, A!TypeOK
<1>8. A!TypeOK'
  BY <1>4, <1>5, <1>6, <1>7 DEF A!VacateService, A!InRun, A!TypeOK
<1>9. UnitsFit(unit)' /\ Placed'
  BY <1>1, <1>3, <1>5 DEF UnitsFit, Placed
<1>10. A!RetiredIsDown'
  <2>1. SUFFICES ASSUME ~blind', NEW q \in retired', NEW s \in A!SCOPES, unit'[q][s].up
                 PROVE  unit'[q][s].path = "new"
    BY DEF A!RetiredIsDown
  <2>2. seen /\ ~blind
    BY <1>1, <2>1
  <2>3. q \in retired /\ q \in A!REGS
    BY <1>1, <1>4, <1>7, <2>1, <2>2 DEF A!Dealt, A!StillRuns
  <2>4. unit'[q][s] = unit[q][s]
    BY <1>2, <1>4, <2>1, <2>3, DeregisteredUp
  <2> QED  BY <1>5, <2>1, <2>2, <2>3, <2>4 DEF A!MigrationHolds, A!RetiredIsDown
<1> QED  BY <1>5, <1>8, <1>9, <1>10 DEF A!MigrationHolds, A!ReadyMeansMoved

(* The schedule counts as gone once the manager has nothing of it; a file  *)
(* that is not ours to remove is kept, and the registration with it.       *)
LEMMA AuditVacatesBeacon ==
  ASSUME AuditInvariant, A!VacateBeacon
  PROVE  AuditInvariant' /\ A!KeepsForeignUnit
<1> USE DEF AuditInvariant
<1>1. PICK worked \in BOOLEAN :
       /\ IF worked THEN UNCHANGED faults ELSE A!Fault
       /\ unit' = [unit EXCEPT !["beacon"] = A!BeaconLeft(worked)]
       /\ place' = IF A!beacon_is_registered(A!BeaconLeft(worked)) THEN place ELSE "etc"
       /\ A!Dealt("beacon", ~A!beacon_is_registered(A!BeaconLeft(worked)))
  BY DEF A!VacateBeacon
<1> DEFINE u == unit["beacon"]["system"]
           gone == worked /\ (os # "linux" \/ A!vet_unit_file_path)
           after == A!BeaconLeft(worked)
<1>2. /\ u \in A!Unit /\ (u.path = "none" => u = A!NoUnit)
      /\ os = "macos" /\ u.path # "none" => u.enabled
  BY AuditUnits DEF A!TypeOK, UnitsFit
<1>3. /\ after["user"] = A!NoUnit
      /\ after["system"] = IF gone THEN A!NoUnit
           ELSE IF worked THEN [u EXCEPT !.up = FALSE, !.enabled = FALSE] ELSE u
      /\ after \in [A!SCOPES -> A!Unit]
  <2>1. [u EXCEPT !.up = FALSE, !.enabled = FALSE] \in A!Unit
    BY <1>2 DEF A!Unit
  <2> QED  BY <1>2, <2>1, AuditUnits DEF A!BeaconLeft
<1>4. [u EXCEPT !.up = FALSE, !.enabled = FALSE].path = u.path
  BY <1>2 DEF A!Unit
<1>5. A!NoUnit.path = "none" /\ ~A!NoUnit.up
  BY DEF A!NoUnit
<1>6. u = A!NoUnit => [u EXCEPT !.up = FALSE, !.enabled = FALSE] = A!NoUnit
  <2> DEFINE v == [u EXCEPT !.up = FALSE, !.enabled = FALSE]
  <2>1. v \in A!Unit /\ v.up = FALSE /\ v.enabled = FALSE /\ v.path = u.path
    BY <1>2 DEF A!Unit
  <2> QED  BY <1>5, <2>1, NothingThere
<1>7. /\ unit' \in [A!REGS -> [A!SCOPES -> A!Unit]] /\ unit'["beacon"] = after
      /\ \A q \in A!REGS : q # "beacon" => unit'[q] = unit[q]
  BY <1>1, <1>3, AuditUnits DEF A!TypeOK
<1>8. /\ step = "vacate" /\ step' = step /\ ready' = ready /\ os' = os /\ blind' = blind
      /\ place' \in {place, "etc"} /\ faults' \in 0..Faults
  BY <1>1, AuditFaults DEF A!VacateBeacon, A!InRun
<1>9. A!TypeOK'
  <2>1. vacating' \subseteq A!REGS /\ retired' \subseteq A!REGS /\ notes' \subseteq A!REGS
    BY <1>1, AuditUnits DEF A!Dealt, A!TypeOK
  <2> QED  BY <1>7, <1>8, <2>1 DEF A!VacateBeacon, A!InRun, A!TypeOK
<1>10. gone \/ after["system"].path = u.path
  BY <1>3, <1>4
<1>11. os = "macos" /\ ~gone => after["system"] = u
  BY <1>3
<1>12. UnitsFit(unit)'
  <2>1. ASSUME NEW s \in A!SCOPES
        PROVE  /\ after[s].path = "none" => after[s] = A!NoUnit
               /\ os = "macos" /\ after[s].path # "none" => after[s].enabled
    BY <1>2, <1>3, <1>4, <1>5, <1>6, <1>11, AuditUnits
  <2> QED  BY <1>7, <1>8, <2>1 DEF UnitsFit
<1>13. Placed'
  BY <1>8 DEF Placed
<1>14. A!RetiredIsDown'
  <2>1. SUFFICES ASSUME ~blind, NEW q \in retired', NEW s \in A!SCOPES, unit'[q][s].up
                 PROVE  unit'[q][s].path = "new"
    BY <1>8 DEF A!RetiredIsDown
  <2>2. CASE q # "beacon"
    BY <1>1, <1>7, <1>8, <2>1, <2>2 DEF A!Dealt, A!MigrationHolds, A!RetiredIsDown, A!TypeOK
  <2>3. CASE q = "beacon" /\ A!beacon_is_registered(after)
    <3>1. s = "system" /\ after["system"] = u /\ "beacon" \in retired
      <4>1. s = "system" /\ after["system"] # A!NoUnit
        BY <1>3, <1>5, <1>7, <2>1, <2>3, AuditUnits DEF A!beacon_is_registered
      <4>2. ~[u EXCEPT !.up = FALSE, !.enabled = FALSE].up
        BY <1>2 DEF A!Unit
      <4> QED  BY <1>1, <1>3, <1>7, <2>1, <2>3, <4>1, <4>2 DEF A!Dealt
    <3> QED  BY <1>7, <1>8, <2>1, <2>3, <3>1 DEF A!MigrationHolds, A!RetiredIsDown
  <2>4. CASE q = "beacon" /\ ~A!beacon_is_registered(after)
    BY <1>3, <1>5, <1>7, <2>1, <2>4, AuditUnits DEF A!beacon_is_registered
  <2> QED  BY <2>2, <2>3, <2>4
<1>15. AuditInvariant'
  BY <1>8, <1>9, <1>12, <1>13, <1>14 DEF A!MigrationHolds, A!ReadyMeansMoved
<1>16. A!KeepsForeignUnit
  <2>1. SUFFICES ASSUME place # "etc", u # A!NoUnit
                 PROVE  after["system"] # A!NoUnit
    BY <1>7 DEF A!KeepsForeignUnit
  <2>2. ~gone
    BY <2>1 DEF Placed, A!vet_unit_file_path
  <2> QED  BY <1>2, <1>5, <1>10, <2>1, <2>2
<1> QED  BY <1>15, <1>16

(* What is registered anew runs from the protected folder.                 *)
LEMMA AuditRegisters ==
  ASSUME AuditInvariant, A!Register
  PROVE  AuditInvariant' /\ A!KeepsForeignUnit
<1> USE DEF AuditInvariant
<1>1. PICK failing \in SUBSET has, s \in A!SCOPES :
       /\ IF failing = {} THEN UNCHANGED faults ELSE A!Fault
       /\ unit' = [r \in A!REGS |->
            IF r \notin has \ failing THEN unit[r]
            ELSE [unit[r] EXCEPT ![IF r = "beacon" THEN "system" ELSE s] = A!Running("new")]]
       /\ place' = IF "beacon" \in has \ failing THEN "etc" ELSE place
       /\ notes' = notes \cup failing
  BY DEF A!Register
<1>2. /\ A!Running("new") \in A!Unit /\ A!Running("new").path = "new"
      /\ A!Running("new").enabled /\ A!Running("new") # A!NoUnit
  BY DEF A!Running, A!Unit, A!PATHS, A!NoUnit
<1>3. \A r \in A!REGS, t \in A!SCOPES : unit'[r][t] \in {unit[r][t], A!Running("new")}
  BY <1>1, AuditUnits DEF A!TypeOK
<1>4. unit' \in [A!REGS -> [A!SCOPES -> A!Unit]]
  BY <1>1, <1>2, AuditUnits DEF A!TypeOK
<1>5. /\ step = "vacate" /\ step' = "audit" /\ ready' = ready /\ os' = os /\ blind' = blind
      /\ retired' = retired /\ place' \in {place, "etc"} /\ faults' \in 0..Faults
  BY <1>1, AuditFaults DEF A!Register, A!InRun
<1>6. A!TypeOK'
  BY <1>1, <1>4, <1>5 DEF A!Register, A!InRun, A!TypeOK
<1>7. UnitsFit(unit)' /\ Placed'
  BY <1>2, <1>3, <1>5 DEF UnitsFit, Placed
<1>8. A!RetiredIsDown'
  BY <1>2, <1>3, <1>5 DEF A!MigrationHolds, A!RetiredIsDown, A!TypeOK
<1>9. A!KeepsForeignUnit
  BY <1>2, <1>3, AuditUnits DEF A!KeepsForeignUnit
<1> QED  BY <1>5, <1>6, <1>7, <1>8, <1>9 DEF A!MigrationHolds, A!ReadyMeansMoved

(* Ready: every answer of the manager is the protected folder or none.     *)
LEMMA AuditReads ==
  ASSUME AuditInvariant, A!Audit
  PROVE  AuditInvariant'
<1> USE DEF AuditInvariant
<1>1. PICK read \in [A!REGS -> A!PATHS] :
        A!Read(read) /\ ready' = (notes = {} /\ A!audit_failures(read) = {})
  BY DEF A!Audit
<1>2. faults' \in 0..Faults /\ blind' \in BOOLEAN
  BY <1>1, AuditFaults DEF A!Read, A!TypeOK
<1>3. A!TypeOK'
  BY <1>1, <1>2 DEF A!Audit, A!TypeOK, A!InRun, A!Machine
<1>4. UnitsFit(unit)' /\ Placed' /\ A!RetiredIsDown'
  BY DEF A!Audit, A!InRun, A!Machine, UnitsFit, Placed, A!RetiredIsDown
<1>5. A!ReadyMeansMoved'
  <2>1. SUFFICES ASSUME ready', ~blind', NEW r \in A!REGS, NEW s \in A!SCOPES,
                        unit[r][s].path \notin {"none", "new"}
                 PROVE  \/ os = "macos" /\ unit[r][s].enabled
                        \/ s = "system" /\ unit[r]["user"].path = "new"
    BY DEF A!ReadyMeansMoved, A!Audit, A!Machine, A!InRun
  <2>2. read = [q \in A!REGS |-> A!registered_bin_path(q)]
    BY <1>1, <2>1 DEF A!Read
  <2>3. A!registered_bin_path(r) \in {"none", "new"}
    BY <1>1, <2>1, <2>2 DEF A!audit_failures
  <2>4. CASE os = "macos"
    BY <2>1, <2>4 DEF UnitsFit
  <2>5. CASE os # "macos"
    BY <2>1, <2>3, <2>5, AuditUnits DEF A!registered_bin_path, A!Known
  <2> QED  BY <2>4, <2>5
<1> QED  BY <1>3, <1>4, <1>5 DEF A!MigrationHolds, A!Audit

(* A boot changes only what runs.                                          *)
LEMMA AuditBoots ==
  ASSUME AuditInvariant, A!Boot
  PROVE  AuditInvariant' /\ A!KeepsForeignUnit
<1> USE DEF AuditInvariant
<1> DEFINE starts(r, s) == /\ unit[r][s].enabled
                           /\ os = "macos" \/ unit[r][s].path # "old" \/ r \in oldProgram
<1>1. unit' = [r \in A!REGS |-> [s \in A!SCOPES |-> [unit[r][s] EXCEPT !.up = starts(r, s)]]]
  BY DEF A!Boot
<1>2. ASSUME NEW r \in A!REGS, NEW s \in A!SCOPES
      PROVE  /\ unit'[r][s] \in A!Unit
             /\ unit'[r][s].path = unit[r][s].path
             /\ unit'[r][s].enabled = unit[r][s].enabled
             /\ unit[r][s] = A!NoUnit => unit'[r][s] = A!NoUnit
  <2>1. unit[r][s] \in A!Unit /\ unit'[r][s] = [unit[r][s] EXCEPT !.up = starts(r, s)]
    BY <1>1 DEF A!TypeOK
  <2>2. starts(r, s) \in BOOLEAN
    BY <2>1 DEF A!Unit
  <2> HIDE DEF starts
  <2>3. /\ unit'[r][s] \in A!Unit /\ unit'[r][s].path = unit[r][s].path
        /\ unit'[r][s].enabled = unit[r][s].enabled /\ unit'[r][s].up = starts(r, s)
    BY <2>1, <2>2 DEF A!Unit
  <2>4. unit[r][s] = A!NoUnit => unit[r][s].path = "none" /\ unit[r][s].enabled = FALSE
    BY DEF A!NoUnit
  <2>5. unit[r][s].enabled = FALSE => starts(r, s) = FALSE
    BY <2>2 DEF starts
  <2> QED  BY <2>3, <2>4, <2>5, NothingThere
<1>3. unit' \in [A!REGS -> [A!SCOPES -> A!Unit]]
  BY <1>1, <1>2
<1> HIDE DEF starts
<1>4. A!TypeOK'
  BY <1>3 DEF A!Boot, A!TypeOK
<1>5. UnitsFit(unit)' /\ Placed'
  BY <1>2 DEF A!Boot, UnitsFit, Placed
<1>6. A!MigrationHolds'
  <2>1. step' = "idle" /\ UNCHANGED <<os, ready, blind>>
    BY DEF A!Boot
  <2>2. A!RetiredIsDown'
    BY <2>1 DEF A!RetiredIsDown
  <2>3. A!ReadyMeansMoved'
    BY <1>2, <2>1, AuditUnits DEF A!MigrationHolds, A!ReadyMeansMoved
  <2> QED  BY <2>2, <2>3 DEF A!MigrationHolds
<1>7. A!KeepsForeignUnit
  <2>1. unit["beacon"]["system"] # A!NoUnit => unit["beacon"]["system"].path # "none"
    BY AuditUnits DEF UnitsFit
  <2>2. A!NoUnit.path = "none"
    BY DEF A!NoUnit
  <2> QED  BY <1>2, <2>1, <2>2, AuditUnits DEF A!KeepsForeignUnit
<1> QED  BY <1>4, <1>5, <1>6, <1>7 DEF A!Boot

LEMMA AuditStep ==
  ASSUME AuditInvariant, A!Next \/ UNCHANGED A!vars
  PROVE  AuditInvariant' /\ A!KeepsForeignUnit
<1>1. CASE A!VacateService
  <2>1. unit'["beacon"] = unit["beacon"]
    BY <1>1, AuditUnits, ServicesAssumption DEF A!VacateService, AuditInvariant, A!TypeOK
  <2> QED  BY <1>1, <2>1, AuditVacates DEF A!KeepsForeignUnit
<1>2. CASE A!Audit
  BY <1>2, AuditReads DEF A!Audit, A!Machine, A!KeepsForeignUnit
<1>3. CASE A!Begin \/ A!Scan \/ A!ClearProgram \/ A!Crash
  BY <1>3, AuditLooks
  DEF A!Begin, A!Scan, A!ClearProgram, A!Crash, A!Machine, A!KeepsForeignUnit
<1>4. CASE UNCHANGED A!vars
  BY <1>4 DEF A!vars, AuditInvariant, A!TypeOK, A!MigrationHolds, A!RetiredIsDown,
              A!ReadyMeansMoved, UnitsFit, Placed, A!KeepsForeignUnit
<1> QED  BY <1>1, <1>2, <1>3, <1>4, AuditVacatesBeacon, AuditRegisters, AuditBoots DEF A!Next

LEMMA AuditIsInvariant == Spec => [](which = "audit" => AuditInvariant)
<1>1. Init => (which = "audit" => AuditInvariant)
  BY AuditInit DEF Init
<1>2. (which = "audit" => AuditInvariant) /\ [Next]_vars => (which = "audit" => AuditInvariant)'
  BY AuditStep DEF Next, vars, A!vars
<1> QED  BY <1>1, <1>2, PTL DEF Spec

(* A service reported as off the old folder no longer runs from there, and *)
(* a run is ready only when what the managers know is in the protected     *)
(* folder (migrate.rs, regaudit.rs).                                       *)
THEOREM RegistrationsMove == Spec => []MigrationHolds
<1>1. (which = "audit" => AuditInvariant) => MigrationHolds
  BY DEF AuditInvariant, MigrationHolds
<1> QED  BY <1>1, AuditIsInvariant, PTL

(* No launch as the system account costs the other services their files,   *)
(* and no run removes a unit file that is a package's or another unit's    *)
(* (purge_own_levels, vet_unit_file_path).                                 *)
THEOREM OthersFilesKept == Spec => ForeignKept
<1>1. (which = "audit" => AuditInvariant) /\ [Next]_vars
      => [/\ which = "profile" => W!KeepsLogs
          /\ which = "audit" => A!KeepsForeignUnit]_vars
  BY AuditStep, LogsAreKept DEF Next
<1> QED  BY <1>1, AuditIsInvariant, PTL DEF Spec, ForeignKept

---------------------------------------------------------------------------
(* ReleaseFetch.  A fetch that has ended asks for nothing, each attempt    *)
(* but the first of a request is paid for with a failure, and nothing is   *)
(* chosen before the release has been looked through.                      *)
FetchShape ==
  /\ result = "pending" <=> request # "idle"
  /\ \A s \in {"renamed", "legacy"} : hosted[s].state = "none" => hosted[s].assets = {}
  /\ tries <= faults
  /\ request \in {"tag", "latest", "list", "select"} => permissive = F!None /\ asset = F!None
  /\ request = "probe" => asset = F!None

(* The builds of dig-app that have been looked into.                       *)
FetchProbing ==
  request = "probe" =>
    /\ component = "dig-app"
    /\ left # {} /\ left \subseteq F!Fitting /\ permissive \in F!Fitting \cup {F!None}
    /\ permissive = F!None => \A a \in F!Fitting \ left : a.loads = "no"
    /\ faults < Attempts =>
         /\ \A a \in F!Fitting \ left : a.loads # "yes"
         /\ permissive # F!None => permissive.loads = "unknown"

FetchInvariant == F!TypeOK /\ F!ChoiceHolds /\ FetchShape /\ FetchProbing

(* The first by a rank: there is one whose rank is the least.              *)
LEMMA FirstIs ==
  ASSUME NEW S, S # {}, NEW rank \in [S -> Nat]
  PROVE  /\ F!FirstBy(rank) \in S
         /\ \A b \in S : rank[F!FirstBy(rank)] <= rank[b]
<1> DEFINE T == {rank[a] : a \in S}
<1>1. T # {} /\ T \in SUBSET Nat
  OBVIOUS
<1>2. PICK n \in T : \A m \in T : n <= m
  BY <1>1, NatMin
<1>3. PICK a \in S : rank[a] = n
  BY <1>2
<1>4. \A b \in S : rank[a] <= rank[b]
  BY <1>2, <1>3
<1>5. DOMAIN rank = S
  OBVIOUS
<1> QED  BY <1>4, <1>5 DEF F!FirstBy

LEMMA FetchTypes ==
  ASSUME F!TypeOK
  PROVE  /\ F!Published \in [state : {"none", "latest", "prerelease"}, assets : SUBSET F!Assets]
         /\ F!Fitting \subseteq F!Assets /\ F!Fitting \subseteq F!Published.assets
         /\ tries \in Nat /\ tries + 1 <= Attempts /\ faults \in Nat /\ faults <= FetchFaults
         /\ Attempts \in Nat
         /\ F!None \notin F!Assets
<1>1. F!Published \in [state : {"none", "latest", "prerelease"}, assets : SUBSET F!Assets]
  BY DEF F!TypeOK, F!Published
<1>2. F!Fitting \subseteq F!Published.assets
  BY DEF F!Fitting, F!matched_candidates
<1>3. tries \in Nat /\ tries + 1 <= Attempts /\ faults \in Nat /\ faults <= FetchFaults
  BY NatBounds DEF F!TypeOK
<1>4. F!None \notin F!Assets
  BY DEF F!None, F!Assets
<1> QED  BY <1>1, <1>2, <1>3, <1>4, NatBounds

(* The rank of an asset: one for another system comes after the others.    *)
LEMMA FetchRanks ==
  ASSUME F!TypeOK
  PROVE  /\ [a \in F!Fitting |-> F!base_rank(a, target)] \in [F!Fitting -> Nat]
         /\ \A S \in SUBSET F!Assets :
              [a \in S |-> F!variant_rank(a, target)] \in [S -> Nat]
         /\ \A a, b \in F!Fitting :
              F!base_rank(a, target) <= F!base_rank(b, target) /\ a.os # F!OsOf(target) =>
                b.os # F!OsOf(target)
BY DEF F!base_rank, F!variant_rank, F!token_rank

LEMMA FetchStarts ==
  ASSUME F!Init
  PROVE  FetchInvariant
<1>1. hosted \in [{"renamed", "legacy"} ->
                  [state : {"none", "latest", "prerelease"}, assets : SUBSET F!Assets]]
      /\ \A s \in {"renamed", "legacy"} : hosted[s].state = "none" => hosted[s].assets = {}
  <2>1. PICK new \in F!Releases, then \in F!OldReleases :
          hosted = [renamed |-> new, legacy |-> then]
    BY DEF F!Init
  <2>2. \A r \in F!Releases \cup F!OldReleases :
          /\ r \in [state : {"none", "latest", "prerelease"}, assets : SUBSET F!Assets]
          /\ r.state = "none" => r.assets = {}
    BY DEF F!Releases, F!OldReleases
  <2>3. hosted = [s \in {"renamed", "legacy"} |-> IF s = "renamed" THEN new ELSE then]
    BY <2>1
  <2>4. new \in F!Releases \cup F!OldReleases /\ then \in F!Releases \cup F!OldReleases
    BY <2>1
  <2> HIDE DEF F!Releases
  <2> QED  BY <2>2, <2>3, <2>4
<1>2. F!TypeOK
  <2>1. target \in F!Machines /\ component \in {"dig-node", "dig-app", "alias"}
        /\ {pinned, token} \subseteq BOOLEAN
        /\ source = "renamed" /\ request \in {"tag", "latest"} /\ tries = 0 /\ faults = 0
        /\ left = {} /\ permissive = F!None /\ asset = F!None /\ result = "pending"
    BY DEF F!Init, F!First
  <2>2. tries \in 0..(Attempts - 1) /\ faults \in 0..FetchFaults
    BY <2>1, NatBounds, AttemptsAssumption
  <2> QED  BY <1>1, <2>1, <2>2 DEF F!TypeOK, F!Results
<1>3. F!ChoiceHolds
  BY DEF F!ChoiceHolds, F!RightMachine, F!RefusedForCause, F!LoadablePreferred, F!BlipsSurvived,
     F!Init
<1>4. FetchShape /\ FetchProbing
  BY <1>1 DEF FetchShape, FetchProbing, F!Init, F!First
<1> QED  BY <1>2, <1>3, <1>4 DEF FetchInvariant

(* A failure for good: without a token, the request's attempts are used up, *)
(* as are those of a download in any case.                                 *)
LEMMA FetchFails ==
  ASSUME FetchInvariant, NEW f \in {"blip", "forbidden"}, F!Failed(f)
  PROVE  /\ faults' \in 0..FetchFaults /\ faults' = faults + 1
         /\ ~token \/ request \in {"probe", "download"} => faults' >= Attempts
<1>1. faults' \in 0..FetchFaults /\ faults' = faults + 1
  BY FetchTypes, NatBounds DEF F!Failed, FetchInvariant
<1>2. ASSUME ~token \/ request \in {"probe", "download"}
      PROVE  faults' >= Attempts
  <2>1. F!Retryable(f)
    BY <1>2 DEF F!Retryable, F!Authenticated
  <2>2. F!LastTry
    BY <2>1 DEF F!Failed
  <2> QED  BY <1>1, <2>2, FetchTypes DEF F!LastTry, FetchInvariant, FetchShape
<1> QED  BY <1>1, <1>2

(* Steps that change nothing of what has been chosen or looked into.       *)
LEMMA FetchSame ==
  ASSUME UNCHANGED <<target, hosted, source>>
  PROVE  F!Published' = F!Published /\ F!Fitting' = F!Fitting
BY DEF F!Published, F!Fitting, F!matched_candidates, F!has_accepted_ext, F!Competes, F!HasToken,
   F!OsOf

LEMMA FetchAgain ==
  ASSUME FetchInvariant, F!Again \/ UNCHANGED F!vars
  PROVE  FetchInvariant'
<1> USE DEF FetchInvariant
<1>1. UNCHANGED <<target, component, pinned, token, hosted, source, request, left, permissive,
                  asset, result>>
  BY DEF F!Again, F!vars, F!place
<1>2. \/ tries' = tries + 1 /\ faults' = faults + 1 /\ ~F!LastTry /\ faults < FetchFaults
      \/ tries' = tries /\ faults' = faults
  BY DEF F!Again, F!vars
<1>3. /\ tries' \in 0..(Attempts - 1) /\ faults' \in 0..FetchFaults
      /\ tries' <= faults' /\ faults <= faults' /\ faults' \in Nat
  BY <1>2, FetchTypes, NatBounds DEF F!LastTry, FetchShape
<1>4. F!TypeOK'
  BY <1>1, <1>3 DEF F!TypeOK
<1>5. F!Fitting' = F!Fitting /\ F!OsOf(target)' = F!OsOf(target)
  BY <1>1, FetchSame DEF F!OsOf
<1>6. F!ChoiceHolds'
  BY <1>1, <1>3, <1>5, FetchTypes DEF F!ChoiceHolds, F!RightMachine, F!RefusedForCause,
     F!LoadablePreferred, F!BlipsSurvived, F!Competes
<1>7. FetchShape'
  BY <1>1, <1>3 DEF FetchShape
<1>8. FetchProbing'
  BY <1>1, <1>3, <1>5, FetchTypes DEF FetchProbing
<1> QED  BY <1>4, <1>6, <1>7, <1>8
(* While the release is looked for, nothing is chosen: a step that ends    *)
(* the fetch there has used up a request or found no asset.                *)
LEMMA FetchAsks ==
  ASSUME FetchInvariant, request \in {"tag", "latest", "list", "select"},
         UNCHANGED <<F!place, left, permissive, asset>>, tries' = 0,
         faults' \in 0..FetchFaults, faults <= faults', source' \in {"renamed", "legacy"},
         request' \in {"idle", "tag", "latest", "list", "select"},
         result' \in {"pending", "network", "missing", "skipped"},
         result' = "pending" <=> request' # "idle",
         result' = "network" /\ ~token =>
           source' = source /\ (faults' >= Attempts \/ F!Fitting = {})
  PROVE  FetchInvariant'
<1> USE DEF FetchInvariant
<1>1. UNCHANGED <<target, component, pinned, token, hosted>>
  BY DEF F!place
<1>2. tries' \in 0..(Attempts - 1) /\ tries' <= faults'
  BY NatBounds, AttemptsAssumption
<1>3. F!TypeOK'
  BY <1>1, <1>2 DEF F!TypeOK, F!Results
<1>4. asset' = F!None /\ permissive' = F!None
  BY DEF FetchShape
<1>5. FetchShape'
  BY <1>1, <1>2, <1>4 DEF FetchShape
<1>6. F!BlipsSurvived'
  <2>1. CASE result' = "network" /\ ~token
    <3>1. F!Fitting' = F!Fitting
      BY <1>1, <2>1, FetchSame
    <3> QED  BY <2>1, <3>1 DEF F!BlipsSurvived
  <2>2. CASE ~(result' = "network" /\ ~token)
    BY <1>1, <2>2 DEF F!BlipsSurvived
  <2> QED  BY <2>1, <2>2
<1>7. F!ChoiceHolds' /\ FetchProbing'
  BY <1>4, <1>6 DEF F!ChoiceHolds, F!RightMachine, F!RefusedForCause, F!LoadablePreferred,
     FetchProbing
<1> QED  BY <1>3, <1>5, <1>7

(* Giving up a repository.                                                 *)
LEMMA FetchGivesUp ==
  ASSUME FetchInvariant, request \in {"tag", "latest", "list", "select"},
         NEW why \in {"missing", "network"}, F!GiveUp(why),
         UNCHANGED <<F!place, left, permissive, asset>>,
         faults' \in 0..FetchFaults, faults <= faults',
         why = "network" /\ ~token => faults' >= Attempts \/ F!Fitting = {}
  PROVE  FetchInvariant'
<1>1. result = "pending" /\ source \in {"renamed", "legacy"}
  BY DEF FetchInvariant, FetchShape, F!TypeOK
<1>2. CASE component = "dig-node" /\ source = "renamed"
  <2>1. /\ source' = "legacy" /\ request' \in {"tag", "latest"} /\ tries' = 0
        /\ result' = "pending"
    BY <1>1, <1>2 DEF F!GiveUp, F!Ask, F!First
  <2> QED  BY <2>1, FetchAsks
<1>3. CASE ~(component = "dig-node" /\ source = "renamed")
  <2>1. /\ source' = source /\ request' = "idle" /\ tries' = 0
        /\ result' = IF component = "alias" /\ why = "missing" THEN "skipped" ELSE why
    BY <1>3 DEF F!GiveUp, F!Ends
  <2>2. result' \in {"network", "missing", "skipped"} /\ (result' = "network" => why = "network")
    BY <2>1
  <2> QED  BY <1>1, <2>1, <2>2, FetchAsks
<1> QED  BY <1>2, <1>3

(* The repository's answer is there: what is asked next.                   *)
LEMMA FetchGoesOn ==
  ASSUME FetchInvariant, request \in {"tag", "latest", "list"},
         NEW what \in {"list", "select"}, F!Ask(what),
         UNCHANGED <<F!place, left, permissive, asset, source, result, faults>>
  PROVE  FetchInvariant'
<1>1. /\ result' = "pending" /\ source' \in {"renamed", "legacy"} /\ request' = what /\ tries' = 0
      /\ faults' \in 0..FetchFaults /\ faults <= faults'
  BY FetchTypes, NatBounds DEF FetchInvariant, FetchShape, F!TypeOK, F!Ask
<1> QED  BY <1>1, FetchAsks

(* A release that is not there has nothing that fits.                      *)
LEMMA NothingFits ==
  ASSUME FetchInvariant, F!Published.state = "none"
  PROVE  F!Fitting = {}
<1>1. F!Published.assets = {}
  BY DEF FetchInvariant, FetchShape, F!Published, F!TypeOK
<1> QED  BY <1>1, FetchTypes DEF FetchInvariant

LEMMA FetchLooks ==
  ASSUME FetchInvariant, F!ByTag \/ F!Latest \/ F!List
  PROVE  FetchInvariant'
<1>1. UNCHANGED <<F!place, left, permissive, asset>> /\ request \in {"tag", "latest", "list"}
  BY DEF F!ByTag, F!Latest, F!List
<1>2. faults \in 0..FetchFaults /\ faults <= faults
  BY FetchTypes, NatBounds DEF FetchInvariant, F!TypeOK
<1>3. CASE F!Answered /\ F!GiveUp("missing")
  BY <1>1, <1>2, <1>3, FetchGivesUp DEF F!Answered
<1>4. CASE F!Answered /\ F!Published.state = "none" /\ F!GiveUp("network")
  BY <1>1, <1>2, <1>4, FetchGivesUp, NothingFits DEF F!Answered
<1>5. CASE \E what \in {"list", "select"} :
             F!Answered /\ F!Ask(what) /\ UNCHANGED <<source, result>>
  BY <1>1, <1>5, FetchGoesOn DEF F!Answered
<1>6. CASE \E f \in {"blip", "forbidden"} : F!Failed(f) /\ F!GiveUp("network")
  <2>1. PICK f \in {"blip", "forbidden"} : F!Failed(f) /\ F!GiveUp("network")
    BY <1>6
  <2>2. /\ faults' \in 0..FetchFaults /\ faults' = faults + 1
        /\ ~token => faults' >= Attempts
    BY <2>1, FetchFails
  <2>3. faults <= faults'
    BY <2>2, FetchTypes DEF FetchInvariant
  <2> QED  BY <1>1, <2>1, <2>2, <2>3, FetchGivesUp
<1> QED  BY <1>3, <1>4, <1>5, <1>6 DEF F!ByTag, F!Latest, F!List

LEMMA FetchSelects ==
  ASSUME FetchInvariant, F!Select
  PROVE  FetchInvariant'
<1>1. UNCHANGED <<target, component, pinned, token, hosted, permissive, faults>>
      /\ request = "select"
  BY DEF F!Select, F!place
<1>2. faults \in 0..FetchFaults /\ faults <= faults /\ 0 \in 0..(Attempts - 1) /\ 0 <= faults
  BY FetchTypes, NatBounds, AttemptsAssumption DEF FetchInvariant, F!TypeOK
<1>3. result = "pending" /\ permissive = F!None /\ asset = F!None
  BY <1>1 DEF FetchInvariant, FetchShape
<1>4. CASE F!Fitting = {}
  <2>1. F!GiveUp("missing") /\ UNCHANGED <<left, asset>>
    BY <1>4 DEF F!Select, F!Fitting
  <2> QED  BY <1>1, <1>2, <2>1, FetchGivesUp DEF F!place
<1>5. CASE F!Fitting # {} /\ component = "dig-app"
  <2>1. F!Ask("probe") /\ left' = F!Fitting /\ UNCHANGED <<source, result, asset>>
    BY <1>5 DEF F!Select, F!Fitting
  <2>2. request' = "probe" /\ tries' = 0
    BY <2>1 DEF F!Ask
  <2>3. F!Fitting' = F!Fitting /\ F!Fitting \subseteq F!Assets
    BY <1>1, <2>1, FetchSame, FetchTypes DEF FetchInvariant
  <2>4. F!TypeOK'
    BY <1>1, <1>2, <2>1, <2>2, <2>3 DEF FetchInvariant, F!TypeOK
  <2>5. F!ChoiceHolds'
    BY <1>1, <1>3, <2>1 DEF F!ChoiceHolds, F!RightMachine, F!RefusedForCause,
       F!LoadablePreferred, F!BlipsSurvived
  <2>6. FetchShape' /\ FetchProbing'
    BY <1>1, <1>2, <1>3, <1>5, <2>1, <2>2, <2>3 DEF FetchInvariant, FetchShape, FetchProbing
  <2> QED  BY <2>4, <2>5, <2>6 DEF FetchInvariant
<1>6. CASE F!Fitting # {} /\ component # "dig-app"
  <2> DEFINE rank == [a \in F!Fitting |-> F!base_rank(a, target)]
  <2>1. F!Ask("download") /\ asset' = F!FirstBy(rank) /\ UNCHANGED <<source, result, left>>
    BY <1>6 DEF F!Select, F!Fitting
  <2>2. request' = "download" /\ tries' = 0
    BY <2>1 DEF F!Ask
  <2>3. rank \in [F!Fitting -> Nat]
    BY FetchRanks DEF FetchInvariant
  <2>4. asset' \in F!Fitting /\ \A b \in F!Fitting : rank[asset'] <= rank[b]
    <3> HIDE DEF rank
    <3> QED  BY <1>6, <2>1, <2>3, FirstIs
  <2>5. \A b \in F!Fitting : F!base_rank(asset', target) <= F!base_rank(b, target)
    BY <2>4
  <2>6. F!Fitting' = F!Fitting /\ F!Fitting \subseteq F!Assets /\ F!OsOf(target)' = F!OsOf(target)
    BY <1>1, <2>1, FetchSame, FetchTypes DEF FetchInvariant, F!OsOf
  <2>7. F!TypeOK'
    BY <1>1, <1>2, <2>1, <2>2, <2>4, <2>6 DEF FetchInvariant, F!TypeOK
  <2>8. F!RightMachine'
    <3>1. ~F!Competes(asset', target)
      BY <2>4 DEF F!Fitting, F!matched_candidates
    <3>2. asset'.os # F!OsOf(target) => \A a \in F!Fitting : a.os # F!OsOf(target)
      BY <2>4, <2>5, FetchRanks DEF FetchInvariant
    <3> QED  BY <1>1, <2>6, <3>1, <3>2 DEF F!RightMachine, F!Competes
  <2>9. F!ChoiceHolds'
    BY <1>1, <1>3, <1>6, <2>1, <2>8 DEF F!ChoiceHolds, F!RefusedForCause, F!LoadablePreferred,
       F!BlipsSurvived
  <2>10. FetchShape' /\ FetchProbing'
    BY <1>1, <1>2, <1>3, <2>1, <2>2 DEF FetchInvariant, FetchShape, FetchProbing
  <2> QED  BY <2>7, <2>9, <2>10 DEF FetchInvariant
<1> QED  BY <1>4, <1>5, <1>6

(* Looking into a build: what is known of it is true, but for one that     *)
(* could not be downloaded.                                                *)
LEMMA FetchJudges ==
  ASSUME FetchInvariant, request = "probe", NEW verdict, F!Judge(verdict),
         UNCHANGED <<F!place, source>>, faults' \in 0..FetchFaults, faults <= faults',
         verdict = F!Candidate.loads \/ (verdict = "unknown" /\ faults' >= Attempts)
  PROVE  FetchInvariant'
<1> USE DEF FetchInvariant
<1> DEFINE c == F!Candidate
           kept == F!Kept(c, verdict)
<1>1. UNCHANGED <<target, component, pinned, token, hosted, source>>
  BY DEF F!place
<1>2. F!Fitting' = F!Fitting /\ F!Fitting \subseteq F!Assets /\ F!None \notin F!Fitting
      /\ Attempts \in Nat /\ faults \in Nat /\ faults' \in Nat
  BY <1>1, FetchSame, FetchTypes, NatBounds
<1>3. /\ component = "dig-app" /\ result = "pending" /\ asset = F!None
      /\ left # {} /\ left \subseteq F!Fitting /\ permissive \in F!Fitting \cup {F!None}
      /\ permissive = F!None => \A a \in F!Fitting \ left : a.loads = "no"
      /\ faults < Attempts => /\ \A a \in F!Fitting \ left : a.loads # "yes"
                              /\ permissive # F!None => permissive.loads = "unknown"
  BY DEF FetchShape, FetchProbing
<1>4. c \in left
  <2> DEFINE rank == [a \in left |-> F!variant_rank(a, target)]
  <2>1. rank \in [left -> Nat]
    BY <1>2, <1>3, FetchRanks
  <2>2. c = F!FirstBy(rank)
    BY DEF F!Candidate
  <2> HIDE DEF rank
  <2> QED  BY <1>3, <2>1, <2>2, FirstIs
<1>5. c \in F!Fitting /\ c # F!None /\ c.loads \in {"yes", "no", "unknown"}
  BY <1>2, <1>3, <1>4 DEF F!Assets
<1>6. /\ left' = left \ {c} /\ permissive' = kept
      /\ \/ verdict = "yes" /\ F!Chosen(c)
         \/ verdict # "yes" /\ left' # {} /\ F!Ask("probe") /\ UNCHANGED <<asset, result>>
         \/ verdict # "yes" /\ left' = {} /\ kept = F!None /\ F!Ends("refused") /\ UNCHANGED asset
         \/ verdict # "yes" /\ left' = {} /\ kept # F!None /\ F!Chosen(kept)
  BY DEF F!Judge, F!TakenAtOnce
<1>7. kept = IF permissive = F!None /\ verdict = "unknown" THEN c ELSE permissive
  BY DEF F!Kept
<1> HIDE DEF c, kept
<1>8. /\ verdict \in {"yes", "no", "unknown"}
      /\ verdict = c.loads \/ (verdict = "unknown" /\ faults' >= Attempts)
  BY <1>5 DEF c
<1>9. kept \in F!Fitting \cup {F!None}
  BY <1>3, <1>5, <1>7
<1>10. verdict # "yes" =>
         /\ kept = F!None => \A a \in F!Fitting \ left' : a.loads = "no"
         /\ faults' < Attempts => /\ \A a \in F!Fitting \ left' : a.loads # "yes"
                                  /\ kept # F!None => kept.loads = "unknown"
  <2>1. ASSUME verdict # "yes", kept = F!None, NEW a \in F!Fitting \ left'
        PROVE  a.loads = "no"
    <3>1. permissive = F!None /\ verdict = "no"
      BY <1>5, <1>7, <1>8, <2>1
    <3>2. c.loads = "no"
      BY <1>8, <3>1
    <3> QED  BY <1>3, <1>6, <2>1, <3>1, <3>2
  <2>2. ASSUME verdict # "yes", faults' < Attempts
        PROVE  /\ \A a \in F!Fitting \ left' : a.loads # "yes"
               /\ kept # F!None => kept.loads = "unknown"
    <3>1. verdict = c.loads /\ faults < Attempts
      BY <1>2, <1>8, <2>2
    <3> QED  BY <1>3, <1>6, <1>7, <2>2, <3>1
  <2> QED  BY <2>1, <2>2
<1>11. 0 \in 0..(Attempts - 1) /\ 0 <= faults'
  BY <1>2, AttemptsAssumption
<1>12. \A a \in F!Fitting : ~F!Competes(a, target)'
  BY <1>1 DEF F!Fitting, F!matched_candidates, F!Competes
<1>13. CASE /\ asset' \in F!Fitting /\ request' = "download" /\ tries' = 0 /\ result' = "pending"
            /\ faults' < Attempts =>
                 \/ asset'.loads = "yes"
                 \/ asset'.loads = "unknown" /\ \A b \in F!Fitting : b.loads # "yes"
  <2>3. F!TypeOK'
    BY <1>1, <1>2, <1>3, <1>6, <1>9, <1>11, <1>13 DEF F!TypeOK
  <2>4. F!RightMachine' /\ F!LoadablePreferred' /\ F!RefusedForCause' /\ F!BlipsSurvived'
    BY <1>1, <1>2, <1>3, <1>12, <1>13 DEF F!RightMachine, F!LoadablePreferred,
       F!RefusedForCause, F!BlipsSurvived
  <2>5. FetchShape' /\ FetchProbing'
    BY <1>1, <1>11, <1>13 DEF FetchShape, FetchProbing
  <2> QED  BY <2>3, <2>4, <2>5 DEF F!ChoiceHolds
<1>14. CASE verdict # "yes" /\ left' # {} /\ F!Ask("probe") /\ UNCHANGED <<asset, result>>
  <2>1. request' = "probe" /\ tries' = 0 /\ asset' = F!None /\ result' = "pending"
    BY <1>3, <1>14 DEF F!Ask
  <2>2. F!TypeOK'
    BY <1>1, <1>2, <1>3, <1>6, <1>9, <1>11, <2>1 DEF F!TypeOK
  <2>3. F!ChoiceHolds'
    BY <1>1, <2>1 DEF F!ChoiceHolds, F!RightMachine, F!LoadablePreferred, F!RefusedForCause,
       F!BlipsSurvived
  <2>4. FetchShape'
    BY <1>1, <1>11, <2>1 DEF FetchShape
  <2>5. FetchProbing'
    BY <1>1, <1>2, <1>3, <1>6, <1>9, <1>10, <1>14, <2>1 DEF FetchProbing
  <2> QED  BY <2>2, <2>3, <2>4, <2>5
<1>15. CASE verdict # "yes" /\ left' = {} /\ kept = F!None /\ F!Ends("refused") /\ UNCHANGED asset
  <2>1. request' = "idle" /\ tries' = 0 /\ asset' = F!None /\ result' = "refused"
    BY <1>3, <1>15 DEF F!Ends
  <2>2. F!TypeOK'
    BY <1>1, <1>2, <1>3, <1>6, <1>9, <1>11, <2>1 DEF F!TypeOK, F!Results
  <2>3. F!ChoiceHolds'
    BY <1>1, <1>2, <1>10, <1>15, <2>1 DEF F!ChoiceHolds, F!RightMachine, F!LoadablePreferred,
       F!RefusedForCause, F!BlipsSurvived
  <2>4. FetchShape' /\ FetchProbing'
    BY <1>1, <1>11, <2>1 DEF FetchShape, FetchProbing
  <2> QED  BY <2>2, <2>3, <2>4
<1>16. verdict = "yes" /\ faults' < Attempts => c.loads = "yes"
  BY <1>8
<1>17. CASE verdict = "yes" /\ F!Chosen(c)
  <2>1. asset' = c /\ request' = "download" /\ tries' = 0 /\ result' = "pending"
    BY <1>3, <1>17 DEF F!Chosen, F!Ask
  <2> QED  BY <1>5, <1>13, <1>16, <1>17, <2>1
<1>18. CASE verdict # "yes" /\ left' = {} /\ kept # F!None /\ F!Chosen(kept)
  <2>1. asset' = kept /\ request' = "download" /\ tries' = 0 /\ result' = "pending"
    BY <1>3, <1>18 DEF F!Chosen, F!Ask
  <2>2. kept \in F!Fitting
    BY <1>9, <1>18
  <2>3. faults' < Attempts => kept.loads = "unknown" /\ \A b \in F!Fitting : b.loads # "yes"
    BY <1>10, <1>18
  <2> QED  BY <1>13, <2>1, <2>2, <2>3
<1> QED  BY <1>6, <1>14, <1>15, <1>17, <1>18

LEMMA FetchProbes ==
  ASSUME FetchInvariant, F!Probe
  PROVE  FetchInvariant'
<1>1. UNCHANGED <<F!place, source>> /\ request = "probe"
  BY DEF F!Probe
<1>2. CASE F!Answered /\ F!Judge(F!Candidate.loads)
  <2>1. faults' \in 0..FetchFaults /\ faults <= faults'
    BY <1>2, FetchTypes, NatBounds DEF FetchInvariant, F!TypeOK, F!Answered
  <2>2. PICK verdict : verdict = F!Candidate.loads
    OBVIOUS
  <2>3. F!Judge(verdict)
    BY <1>2, <2>2 DEF F!Judge, F!Kept, F!TakenAtOnce
  <2>4. verdict = F!Candidate.loads \/ (verdict = "unknown" /\ faults' >= Attempts)
    BY <2>2
  <2> QED  BY <1>1, <2>1, <2>3, <2>4, FetchJudges
<1>3. CASE \E f \in {"blip", "forbidden"} : F!Failed(f) /\ F!Judge("unknown")
  <2>1. PICK f \in {"blip", "forbidden"} : F!Failed(f) /\ F!Judge("unknown")
    BY <1>3
  <2>2. faults' \in 0..FetchFaults /\ faults' = faults + 1 /\ faults' >= Attempts
    BY <1>1, <2>1, FetchFails
  <2>3. faults <= faults'
    BY <2>2, FetchTypes DEF FetchInvariant
  <2> QED  BY <1>1, <2>1, <2>2, <2>3, FetchJudges
<1> QED  BY <1>2, <1>3 DEF F!Probe

LEMMA FetchDownloads ==
  ASSUME FetchInvariant, F!Download
  PROVE  FetchInvariant'
<1> USE DEF FetchInvariant
<1>1. UNCHANGED <<target, component, pinned, token, hosted, source, left, permissive, asset>>
      /\ request = "download"
  BY DEF F!Download, F!place
<1>2. /\ request' = "idle" /\ tries' = 0 /\ result' \in {"fetched", "network"}
      /\ faults' \in 0..FetchFaults /\ faults <= faults'
      /\ result' = "network" => faults' >= Attempts
  <2>1. CASE F!Answered /\ F!Ends("fetched")
    BY <2>1, FetchTypes, NatBounds DEF F!TypeOK, F!Answered, F!Ends
  <2>2. CASE \E f \in {"blip", "forbidden"} : F!Failed(f) /\ F!Ends("network")
    <3>1. PICK f \in {"blip", "forbidden"} : F!Failed(f) /\ F!Ends("network")
      BY <2>2
    <3>2. faults' \in 0..FetchFaults /\ faults' = faults + 1 /\ faults' >= Attempts
      BY <1>1, <3>1, FetchFails
    <3> QED  BY <3>1, <3>2, FetchTypes DEF F!Ends
  <2> QED  BY <2>1, <2>2 DEF F!Download
<1>3. faults \in Nat /\ faults' \in Nat /\ Attempts \in Nat /\ 0 \in 0..(Attempts - 1)
  BY <1>2, FetchTypes, NatBounds, AttemptsAssumption
<1>4. F!TypeOK'
  BY <1>1, <1>2, <1>3 DEF F!TypeOK, F!Results
<1>5. F!Fitting' = F!Fitting /\ F!OsOf(target)' = F!OsOf(target)
  BY <1>1, FetchSame DEF F!OsOf
<1>6. F!ChoiceHolds'
  BY <1>1, <1>2, <1>3, <1>5 DEF F!ChoiceHolds, F!RightMachine, F!LoadablePreferred,
     F!RefusedForCause, F!BlipsSurvived, F!Competes
<1>7. FetchShape' /\ FetchProbing'
  BY <1>1, <1>2, <1>3 DEF FetchShape, FetchProbing
<1> QED  BY <1>4, <1>6, <1>7

(* What a fetch chooses is for this machine, and loads there if that can   *)
(* be known; a refusal has a cause; failures fewer than the attempts of a  *)
(* request do not end it.                                                  *)
THEOREM ChoiceIsRight == Spec => []ChoiceHolds
<1>1. Init => (which = "fetch" => FetchInvariant)
  BY FetchStarts DEF Init
<1>2. (which = "fetch" => FetchInvariant) /\ [Next]_vars
        => (which = "fetch" => FetchInvariant)'
  <2> SUFFICES ASSUME which = "fetch" => FetchInvariant, [Next]_vars, which' = "fetch"
               PROVE  FetchInvariant'
    OBVIOUS
  <2>1. which = "fetch" /\ (F!Next \/ UNCHANGED F!vars)
    BY DEF Next, vars, F!vars, F!place
  <2> QED  BY <2>1, FetchAgain, FetchLooks, FetchSelects, FetchProbes, FetchDownloads DEF F!Next
<1>3. (which = "fetch" => FetchInvariant) => ChoiceHolds
  BY DEF FetchInvariant, ChoiceHolds
<1> QED  BY <1>1, <1>2, <1>3, PTL DEF Spec

------------------------------------------------------------------------------
(* GuiRun.                                                                 *)
NoOrphan == \A w \in DOMAIN workers : ~G!Orphan(w)

(* Nobody of this window is at work.                                       *)
Quiet == \A w \in DOMAIN workers : G!Works(w) => G!Orphan(w)

Queued(kind) == \E i \in DOMAIN events : events[i] = kind

Complete == cli = "whole" /\ (sel.extras => extras) /\ G!Chosen \subseteq policy

(* Only the last worker is at work for the window; an orphan, like anyone  *)
(* past the first step, was not to be refused.                             *)
GuiWorkers ==
  \A w \in DOMAIN workers :
    /\ G!Works(w) /\ ~G!Orphan(w) => w = Len(workers)
    /\ workers[w].pc \notin {"spawned", "over"} => ~G!Refused(workers[w].opts)
    /\ workers[w].pc = "prompt" => G!Relaunches(workers[w].opts)
    /\ G!Orphan(w) =>
         tool /\ os # "windows" /\ workers[w].pc \in {"child", "report", "force", "over"}
    /\ workers[w].opts.browsers \subseteq asked
    /\ workers[w].pc = "spawned" => ~changed \/ ~NoOrphan

(* Whatever is shown or on its way was sent by a worker that has ended.    *)
GuiQuiet ==
  ~open \/ events # <<>> \/ full \/ message # "" \/ page # "installing" => Quiet

GuiTold ==
  /\ system => os = "windows"
  /\ ~open => events = <<>>
  /\ open /\ (message = "refused" \/ Queued("refused")) => ~changed /\ NoOrphan

(* The list of browsers remembers what the user unchecked.                 *)
GuiList == off \cap checked = {} /\ off \subseteq known /\ found \ G!NoList \subseteq known

(* How far the worker has come, without the orphan of an earlier window.   *)
GuiBuilt ==
  NoOrphan /\ page = "installing" =>
    /\ full \/ Queued("full") \/ Queued("done") => Complete
    /\ \A w \in DOMAIN workers : G!Works(w) =>
         /\ workers[w].opts = G!Request
         /\ workers[w].pc \in {"around", "verify", "prompt", "child", "report", "force", "done"} =>
              cli = "whole"
         /\ workers[w].pc \in {"force", "done"} => (workers[w].opts.extras => extras)
         /\ workers[w].pc = "done" => workers[w].opts.browsers \subseteq policy

GuiInvariant ==
  /\ G!TypeOK /\ G!WizardHolds
  /\ GuiWorkers /\ GuiQuiet /\ GuiTold /\ GuiList /\ GuiBuilt

Kinds == {"full", "done", "refused", "failed"}
WorkerRows ==
  [pc : G!PCS, orphan : BOOLEAN,
   opts : [extension : BOOLEAN, extras : BOOLEAN, browsers : SUBSET Browsers]]

LEMMA GuiTypes ==
  ASSUME G!TypeOK
  PROVE  /\ workers \in Seq(WorkerRows) /\ Len(workers) \in Nat /\ DOMAIN workers = 1..Len(workers)
         /\ \A w \in DOMAIN workers : workers[w] \in WorkerRows
         /\ events \in Seq(Kinds) /\ Len(events) \in Nat /\ DOMAIN events = 1..Len(events)
         /\ token \in Nat /\ runs \in Nat /\ toggles \in Nat
<1>1. workers \in Seq(WorkerRows) /\ events \in Seq(Kinds)
  BY DEF G!TypeOK, WorkerRows, Kinds
<1>2. /\ Len(workers) \in Nat /\ DOMAIN workers = 1..Len(workers)
      /\ Len(events) \in Nat /\ DOMAIN events = 1..Len(events)
  BY <1>1, LenProperties
<1>3. \A w \in DOMAIN workers : workers[w] \in WorkerRows
  BY <1>1, <1>2, ElementOfSeq
<1>4. token \in Nat /\ runs \in 0..Runs /\ toggles \in 0..Toggles
  BY DEF G!TypeOK
<1> QED  BY <1>1, <1>2, <1>3, <1>4, NatBounds

(* What a run needs depends on the platform and its token alone.           *)
LEMMA GuiHost ==
  ASSUME UNCHANGED G!host, NEW o
  PROVE  (G!Refused(o)' <=> G!Refused(o)) /\ (G!Relaunches(o)' <=> G!Relaunches(o))
BY DEF G!host, G!Refused, G!Relaunches, G!needs_elevation, G!wants_extension_forcelist

LEMMA GuiGoes ==
  ASSUME G!TypeOK, NEW w \in DOMAIN workers, NEW pc \in G!PCS, G!Goes(w, pc)
  PROVE  /\ workers' \in Seq(WorkerRows) /\ Len(workers') = Len(workers)
         /\ DOMAIN workers' = DOMAIN workers
         /\ workers'[w].pc = pc
         /\ \A v \in DOMAIN workers : /\ v # w => workers'[v] = workers[v]
                                      /\ workers'[v].opts = workers[v].opts
                                      /\ workers'[v].orphan = workers[v].orphan
<1> DEFINE new == [workers[w] EXCEPT !.pc = pc]
<1>1. workers[w] \in WorkerRows /\ w \in 1..Len(workers) /\ workers \in Seq(WorkerRows)
  BY GuiTypes
<1>2. /\ new \in WorkerRows /\ new.pc = pc /\ new.opts = workers[w].opts
      /\ new.orphan = workers[w].orphan
  BY <1>1 DEF WorkerRows
<1>3. workers' = [workers EXCEPT ![w] = new]
  BY DEF G!Goes
<1> HIDE DEF new
<1>4. /\ workers' \in Seq(WorkerRows) /\ Len(workers') = Len(workers)
      /\ \A j \in 1..Len(workers) : workers'[j] = IF j = w THEN new ELSE workers[j]
  BY <1>1, <1>2, <1>3, ExceptSeq
<1>5. DOMAIN workers' = 1..Len(workers') /\ DOMAIN workers = 1..Len(workers)
  BY <1>4, LenProperties, GuiTypes
<1> QED  BY <1>2, <1>4, <1>5

(* The events an ending worker sends, when none were on their way.         *)
LEMMA GuiSends ==
  ASSUME events = <<>>, NEW kind \in Kinds, NEW byRun, G!Told(kind, byRun)
  PROVE  events' \in Seq(Kinds) /\ \A k : Queued(k)' => k = kind
<1> DEFINE first == IF byRun THEN <<kind>> ELSE <<>>
           sent == events \o first
<1>1. first \in Seq(Kinds) /\ \A i \in 1..Len(first) : first[i] = kind
  OBVIOUS
<1>2. events \in Seq(Kinds)
  BY EmptySeq
<1>3. <<kind>> \in Seq(Kinds) /\ Len(<<kind>>) = 1 /\ <<kind>>[1] = kind
  OBVIOUS
<1>4. events' = sent \o <<kind>>
  BY DEF G!Told
<1> HIDE DEF first
<1>5. sent = first
  BY <1>1, ConcatEmptySeq
<1> HIDE DEF sent
<1>6. /\ sent \o <<kind>> \in Seq(Kinds)
      /\ Len(sent \o <<kind>>) = Len(sent) + Len(<<kind>>)
      /\ \A i \in 1..Len(sent) + Len(<<kind>>) :
           (sent \o <<kind>>)[i] = IF i <= Len(sent) THEN sent[i] ELSE <<kind>>[i - Len(sent)]
  BY <1>1, <1>3, <1>5, ConcatProperties
<1>7. Len(sent) \in Nat
  BY <1>1, <1>5, LenProperties
<1>8. \A i \in 1..Len(events') : events'[i] = kind
  <2> SUFFICES ASSUME NEW i \in 1..Len(events')
               PROVE  events'[i] = kind
    OBVIOUS
  <2>1. i \in 1..(Len(sent) + 1)
    BY <1>3, <1>4, <1>6
  <2>2. CASE i <= Len(sent)
    BY <1>1, <1>3, <1>4, <1>5, <1>6, <1>7, <2>1, <2>2
  <2>3. CASE i = Len(sent) + 1
    <3>1. i - Len(sent) = 1 /\ ~(i <= Len(sent))
      BY <1>7, <2>3
    <3> QED  BY <1>3, <1>4, <1>6, <2>1, <3>1
  <2> QED  BY <1>7, <2>1, <2>2, <2>3
<1>9. events' \in Seq(Kinds) /\ DOMAIN events' = 1..Len(events')
  BY <1>4, <1>6, LenProperties
<1> QED  BY <1>8, <1>9 DEF Queued

LEMMA GuiTypesKept ==
  ASSUME G!TypeOK, UNCHANGED G!rest, workers' \in Seq(WorkerRows), events' \in Seq(Kinds),
         cli' \in {"none", "torn", "whole"}, extras' \in BOOLEAN, changed' \in BOOLEAN,
         policy' \subseteq Browsers
  PROVE  G!TypeOK'
BY DEF G!TypeOK, G!rest, G!host, G!ui, WorkerRows, Kinds

LEMMA GuiGoesOn ==
  ASSUME G!TypeOK, NEW w \in DOMAIN workers, NEW pc \in G!PCS, G!Goes(w, pc)
  PROVE  /\ NoOrphan' <=> NoOrphan
         /\ \A v \in DOMAIN workers : /\ G!Orphan(v)' <=> G!Orphan(v)
                                      /\ v # w => (G!Works(v)' <=> G!Works(v))
         /\ G!Works(w)' <=> pc # "over"
<1>1. \A v \in DOMAIN workers : G!Orphan(v)' <=> G!Orphan(v)
  BY GuiGoes DEF G!Orphan
<1>2. NoOrphan' <=> NoOrphan
  BY <1>1, GuiGoes DEF NoOrphan
<1>3. \A v \in DOMAIN workers : v # w => (G!Works(v)' <=> G!Works(v))
  BY GuiGoes DEF G!Works
<1>4. G!Works(w)' <=> pc # "over"
  BY GuiGoes DEF G!Works
<1> QED  BY <1>1, <1>2, <1>3, <1>4

(* What every step of a worker keeps.                                      *)
LEMMA GuiWorkersKept ==
  ASSUME GuiInvariant, NEW w \in DOMAIN workers, NEW pc \in G!PCS \ {"spawned"}, G!Goes(w, pc),
         G!Works(w), UNCHANGED G!rest, changed' \in BOOLEAN,
         pc # "over" => ~G!Refused(workers[w].opts),
         pc = "prompt" => G!Relaunches(workers[w].opts),
         G!Orphan(w) => pc \in {"report", "force", "over"},
         changed' => changed \/ ~NoOrphan \/ ~G!Orphan(w)
  PROVE  GuiWorkers' /\ G!OneWorker'
<1> USE DEF GuiInvariant
<1>1. UNCHANGED <<tool, os, asked>> /\ UNCHANGED G!host
  BY DEF G!rest, G!host
<1>2. /\ DOMAIN workers' = DOMAIN workers /\ Len(workers') = Len(workers)
      /\ workers'[w].pc = pc
      /\ \A v \in DOMAIN workers : /\ v # w => workers'[v] = workers[v]
                                   /\ workers'[v].opts = workers[v].opts
                                   /\ workers'[v].orphan = workers[v].orphan
  BY GuiGoes
<1>3. ASSUME NEW v \in DOMAIN workers
      PROVE  /\ (G!Works(v) /\ ~G!Orphan(v) => v = Len(workers))'
             /\ workers'[v].pc \notin {"spawned", "over"} => ~G!Refused(workers[v].opts)'
             /\ workers'[v].pc = "prompt" => G!Relaunches(workers[v].opts)'
             /\ G!Orphan(v)' =>
                  tool /\ os # "windows" /\ workers'[v].pc \in {"child", "report", "force", "over"}
             /\ workers'[v].opts.browsers \subseteq asked
             /\ workers'[v].pc = "spawned" => ~changed' \/ ~NoOrphan
  <2>1. G!Works(v)' => G!Works(v)
    BY <1>2 DEF G!Works
  <2>2. G!Orphan(v)' <=> G!Orphan(v)
    BY <1>2 DEF G!Orphan
  <2>3. (G!Works(v) /\ ~G!Orphan(v) => v = Len(workers))'
    BY <1>2, <2>1, <2>2 DEF GuiWorkers
  <2>4. G!Refused(workers[v].opts)' <=> G!Refused(workers[v].opts)
    BY <1>1, <1>2 DEF G!host, G!Refused, G!Relaunches, G!needs_elevation,
       G!wants_extension_forcelist
  <2>5. workers'[v].pc \notin {"spawned", "over"} => ~G!Refused(workers[v].opts)'
    BY <1>2, <2>4 DEF GuiWorkers
  <2>9. workers'[v].pc = "prompt" => G!Relaunches(workers[v].opts)'
    <3>1. G!Relaunches(workers[v].opts)' <=> G!Relaunches(workers[v].opts)
      BY <1>1, <1>2 DEF G!host, G!Relaunches, G!needs_elevation, G!wants_extension_forcelist
    <3> QED  BY <1>2, <3>1 DEF GuiWorkers
  <2>6. G!Orphan(v)' =>
          tool /\ os # "windows" /\ workers'[v].pc \in {"child", "report", "force", "over"}
    BY <1>2, <2>2 DEF GuiWorkers
  <2>7. workers'[v].opts.browsers \subseteq asked
    BY <1>2 DEF GuiWorkers
  <2>8. workers'[v].pc = "spawned" => ~changed' \/ ~NoOrphan
    <3> SUFFICES ASSUME workers'[v].pc = "spawned", NoOrphan
                 PROVE  ~changed'
      OBVIOUS
    <3>1. v # w /\ workers[v].pc = "spawned" /\ ~G!Orphan(v)
      BY <1>2 DEF NoOrphan
    <3>2. G!Works(v) /\ ~changed
      BY <3>1 DEF G!Works, GuiWorkers
    <3>3. G!Orphan(w)
      BY <3>1, <3>2 DEF GuiWorkers
    <3> QED  BY <3>2, <3>3
  <2> QED  BY <2>3, <2>5, <2>6, <2>7, <2>8, <2>9
<1>4. NoOrphan' <=> NoOrphan
  BY GuiGoesOn
<1>5. GuiWorkers'
  BY <1>1, <1>2, <1>3, <1>4 DEF GuiWorkers
<1>6. G!OneWorker'
  BY <1>2, <1>3 DEF G!OneWorker
<1> QED  BY <1>5, <1>6

(* A child whose window is gone.                                           *)
LEMMA GuiOrphanWorks ==
  ASSUME GuiInvariant, NEW w \in DOMAIN workers, G!Orphan(w), G!Works(w),
         NEW pc \in {"report", "force", "over"}, G!Goes(w, pc), UNCHANGED <<G!rest, events, cli>>,
         extras' \in BOOLEAN, changed' \in BOOLEAN,
         policy' \subseteq policy \cup workers[w].opts.browsers
  PROVE  GuiInvariant'
<1> USE DEF GuiInvariant
<1>1. UNCHANGED <<open, page, sel, found, checked, known, full, message, system, os, asked, off>>
  BY DEF G!rest, G!host, G!ui
<1>2. ~NoOrphan /\ pc \in G!PCS \ {"spawned"}
  BY DEF NoOrphan, G!PCS
<1>3. ~NoOrphan' /\ workers' \in Seq(WorkerRows)
  BY <1>2, GuiGoesOn, GuiGoes
<1>4. policy' \subseteq asked /\ policy' \subseteq Browsers
  BY DEF GuiWorkers, G!WizardHolds, G!PolicyWasAsked, G!TypeOK
<1>5. G!TypeOK'
  BY <1>3, <1>4, GuiTypesKept, GuiTypes DEF G!TypeOK
<1>6. workers[w].pc \notin {"spawned", "over"}
  BY DEF G!Works, GuiWorkers
<1>7. GuiWorkers' /\ G!OneWorker'
  BY <1>2, <1>6, GuiWorkersKept DEF GuiWorkers
<1>8. GuiQuiet'
  <2>1. Quiet => Quiet'
    BY <1>2, GuiGoes, GuiGoesOn DEF Quiet
  <2> QED  BY <1>1, <2>1 DEF GuiQuiet
<1>9. GuiTold'
  BY <1>1, <1>2 DEF GuiTold, Queued
<1>10. GuiList' /\ GuiBuilt'
  BY <1>1, <1>3 DEF GuiList, GuiBuilt, G!NoList
<1>11. G!FinishMeansDone'
  BY <1>3 DEF G!FinishMeansDone, NoOrphan
<1>12. G!RefusalIsClean'
  BY <1>1, <1>2 DEF G!RefusalIsClean, GuiTold
<1> QED  BY <1>1, <1>4, <1>5, <1>7, <1>8, <1>9, <1>10, <1>11, <1>12 DEF G!WizardHolds,
            G!PolicyWasAsked

(* The worker of this window, with what its step has to bring about.       *)
LEMMA GuiWindowWorks ==
  ASSUME GuiInvariant, NEW w \in DOMAIN workers, ~G!Orphan(w), G!Works(w),
         NEW pc \in G!PCS \ {"spawned"}, G!Goes(w, pc), UNCHANGED G!rest,
         cli' \in {"none", "torn", "whole"}, extras' \in BOOLEAN, changed' \in BOOLEAN,
         policy' \subseteq policy \cup workers[w].opts.browsers,
         events' \in Seq(Kinds), pc # "over" => events' = <<>>,
         pc # "over" => ~G!Refused(workers[w].opts),
         pc = "prompt" => G!Relaunches(workers[w].opts),
         Queued("refused")' => ~changed' /\ NoOrphan,
         NoOrphan =>
           /\ Queued("full")' \/ Queued("done")' => Complete'
           /\ pc \in {"around", "verify", "prompt", "child", "report", "force", "done"} =>
                cli' = "whole"
           /\ pc \in {"force", "done"} => (workers[w].opts.extras => extras')
           /\ pc = "done" => workers[w].opts.browsers \subseteq policy'
  PROVE  GuiInvariant'
<1> USE DEF GuiInvariant
<1>1. UNCHANGED <<open, page, sel, found, checked, known, full, message, system, os, asked, off>>
  BY DEF G!rest, G!host, G!ui
<1>2. /\ open /\ events = <<>> /\ ~full /\ message = "" /\ page = "installing"
      /\ \A v \in DOMAIN workers : G!Works(v) /\ v # w => G!Orphan(v)
  <2>1. ~Quiet
    BY DEF Quiet
  <2>2. \A v \in DOMAIN workers : G!Works(v) /\ v # w => G!Orphan(v)
    BY DEF GuiWorkers
  <2> QED  BY <2>1, <2>2 DEF GuiQuiet
<1>3. (NoOrphan' <=> NoOrphan) /\ workers' \in Seq(WorkerRows) /\ DOMAIN workers' = DOMAIN workers
  BY GuiGoesOn, GuiGoes
<1>4. policy' \subseteq asked /\ policy' \subseteq Browsers
  BY DEF GuiWorkers, G!WizardHolds, G!PolicyWasAsked, G!TypeOK
<1>5. G!TypeOK'
  BY <1>3, <1>4, GuiTypesKept
<1>6. GuiWorkers' /\ G!OneWorker'
  BY GuiWorkersKept
<1>7. GuiQuiet'
  <2>1. CASE pc = "over"
    <3>1. Quiet'
      BY <1>2, <1>3, <2>1, GuiGoesOn DEF Quiet
    <3> QED  BY <3>1 DEF GuiQuiet
  <2>2. CASE pc # "over"
    BY <1>1, <1>2, <2>2 DEF GuiQuiet
  <2> QED  BY <2>1, <2>2
<1>8. GuiTold'
  BY <1>1, <1>2, <1>3 DEF GuiTold
<1>9. GuiList'
  BY <1>1 DEF GuiList, G!NoList
<1>10. GuiBuilt'
  <2> SUFFICES ASSUME NoOrphan
               PROVE  /\ full' \/ Queued("full")' \/ Queued("done")' => Complete'
                      /\ \A v \in DOMAIN workers : G!Works(v)' =>
                           /\ workers'[v].opts = G!Request'
                           /\ workers'[v].pc \in {"around", "verify", "prompt", "child", "report",
                                                  "force", "done"} => cli' = "whole"
                           /\ workers'[v].pc \in {"force", "done"} =>
                                (workers'[v].opts.extras => extras')
                           /\ workers'[v].pc = "done" => workers'[v].opts.browsers \subseteq policy'
    BY <1>3 DEF GuiBuilt
  <2>1. full' \/ Queued("full")' \/ Queued("done")' => Complete'
    BY <1>1, <1>2
  <2>2. ASSUME NEW v \in DOMAIN workers, G!Works(v)'
        PROVE  v = w
    BY <1>2, <2>2, GuiGoesOn DEF NoOrphan
  <2>3. workers'[w].opts = G!Request'
    <3>1. workers[w].opts = G!Request
      BY <1>2 DEF GuiBuilt
    <3>2. G!Request' = G!Request
      BY <1>1 DEF G!Request, G!Chosen, G!NoList
    <3> QED  BY <3>1, <3>2, GuiGoes
  <2>4. workers'[w].pc = pc /\ workers'[w].opts = workers[w].opts
    BY GuiGoes
  <2> QED  BY <2>1, <2>2, <2>3, <2>4
<1>11. G!FinishMeansDone' /\ G!RefusalIsClean'
  BY <1>1, <1>2 DEF G!FinishMeansDone, G!RefusalIsClean
<1>12. G!PolicyWasAsked'
  BY <1>1, <1>4 DEF G!PolicyWasAsked
<1>13. G!WizardHolds'
  BY <1>6, <1>11, <1>12 DEF G!WizardHolds
<1> QED  BY <1>5, <1>6, <1>7, <1>8, <1>9, <1>10, <1>13

LEMMA GuiStart ==
  ASSUME GuiInvariant, UNCHANGED G!rest, NEW w \in DOMAIN workers, G!Start(w)
  PROVE  GuiInvariant'
<1> USE DEF GuiInvariant
<1>1. workers[w].pc = "spawned" /\ UNCHANGED <<cli, extras, policy, changed>>
  BY DEF G!Start, G!machine
<1>2. ~G!Orphan(w) /\ G!Works(w) /\ ~Quiet
  BY <1>1 DEF GuiWorkers, G!Works, Quiet
<1>3. events = <<>>
  BY <1>2 DEF GuiQuiet
<1>4. CASE cancelled
  <2>1. G!Goes(w, "over") /\ events' = events
    BY <1>1, <1>4 DEF G!Start
  <2>2. \A k : ~Queued(k)'
    BY <1>3, <2>1 DEF Queued
  <2>3. events' \in Seq(Kinds) /\ "over" \in G!PCS \ {"spawned"}
    BY <2>1, GuiTypes DEF G!PCS
  <2> QED  BY <1>1, <1>2, <2>1, <2>2, <2>3, GuiWindowWorks DEF G!TypeOK
<1>5. CASE ~cancelled /\ G!Refused(workers[w].opts)
  <2>1. G!Ends(w, "refused", TRUE)
    BY <1>1, <1>5 DEF G!Start
  <2>2. G!Goes(w, "over") /\ G!Told("refused", TRUE)
    BY <2>1 DEF G!Ends
  <2>3. events' \in Seq(Kinds) /\ (\A k : Queued(k)' => k = "refused")
    BY <1>3, <2>2, GuiSends DEF Kinds
  <2>4. NoOrphan
    <3> SUFFICES ASSUME NEW v \in DOMAIN workers, G!Orphan(v)
                 PROVE  FALSE
      BY DEF NoOrphan
    <3>1. tool /\ os # "windows" /\ ~system
      BY DEF GuiWorkers, GuiTold
    <3> QED  BY <1>5, <3>1 DEF G!Refused, G!Relaunches
  <2>5. ~changed
    BY <1>1, <2>4 DEF GuiWorkers
  <2>6. "over" \in G!PCS \ {"spawned"} /\ ~Queued("full")' /\ ~Queued("done")'
    BY <2>3 DEF G!PCS
  <2> QED  BY <1>1, <1>2, <2>2, <2>3, <2>4, <2>5, <2>6, GuiWindowWorks DEF G!TypeOK
<1>6. CASE ~cancelled /\ ~G!Refused(workers[w].opts)
  <2>1. G!Goes(w, "payload") /\ events' = events
    BY <1>1, <1>6 DEF G!Start
  <2>2. \A k : ~Queued(k)'
    BY <1>3, <2>1 DEF Queued
  <2>3. events' \in Seq(Kinds) /\ "payload" \in G!PCS \ {"spawned"}
    BY <2>1, GuiTypes DEF G!PCS
  <2> QED  BY <1>1, <1>2, <1>3, <1>6, <2>1, <2>2, <2>3, GuiWindowWorks DEF G!TypeOK
<1> QED  BY <1>4, <1>5, <1>6

LEMMA GuiAt ==
  ASSUME GuiInvariant, NEW w \in DOMAIN workers, workers[w].pc # "over"
  PROVE  /\ G!Works(w)
         /\ workers[w].pc \notin {"child", "report", "force"} => ~G!Orphan(w)
         /\ workers[w].pc # "spawned" => ~G!Refused(workers[w].opts)
         /\ ~G!Orphan(w) => page = "installing" /\ events = <<>>
         /\ workers[w] \in WorkerRows /\ extras \in BOOLEAN
         /\ NoOrphan =>
              /\ workers[w].opts = G!Request
              /\ workers[w].pc \in {"around", "verify", "prompt", "child", "report", "force",
                                    "done"} => cli = "whole"
              /\ workers[w].pc \in {"force", "done"} => (workers[w].opts.extras => extras)
              /\ workers[w].pc = "done" => workers[w].opts.browsers \subseteq policy
<1> USE DEF GuiInvariant
<1>1. G!Works(w)
  BY DEF G!Works
<1>2. /\ workers[w].pc \notin {"child", "report", "force"} => ~G!Orphan(w)
      /\ workers[w].pc # "spawned" => ~G!Refused(workers[w].opts)
  BY DEF GuiWorkers
<1>3. ~G!Orphan(w) => page = "installing" /\ events = <<>>
  BY <1>1 DEF GuiQuiet, Quiet
<1>4. NoOrphan => page = "installing"
  BY <1>3 DEF NoOrphan
<1>5. workers[w] \in WorkerRows /\ extras \in BOOLEAN
  BY GuiTypes DEF G!TypeOK
<1>6. NoOrphan =>
        /\ workers[w].opts = G!Request
        /\ workers[w].pc \in {"around", "verify", "prompt", "child", "report", "force",
                              "done"} => cli = "whole"
        /\ workers[w].pc \in {"force", "done"} => (workers[w].opts.extras => extras)
        /\ workers[w].pc = "done" => workers[w].opts.browsers \subseteq policy
  BY <1>1, <1>4 DEF GuiBuilt
<1> QED  BY <1>1, <1>2, <1>3, <1>5, <1>6

(* A step of this window's worker that fails.                              *)
LEMMA GuiFails ==
  ASSUME GuiInvariant, UNCHANGED G!rest, NEW w \in DOMAIN workers, ~G!Orphan(w), G!Works(w),
         NEW byRun, G!Ends(w, "failed", byRun),
         cli' \in {"none", "torn", "whole"}, extras' \in BOOLEAN, changed' \in BOOLEAN,
         policy' \subseteq policy \cup workers[w].opts.browsers
  PROVE  GuiInvariant'
<1>1. G!Goes(w, "over") /\ G!Told("failed", byRun)
  BY DEF G!Ends
<1>2. events = <<>>
  BY DEF GuiInvariant, GuiQuiet, Quiet
<1>3. events' \in Seq(Kinds) /\ (\A k : Queued(k)' => k = "failed")
  BY <1>1, <1>2, GuiSends DEF Kinds
<1>4. /\ "over" \in G!PCS \ {"spawned"} /\ ~Queued("full")' /\ ~Queued("done")'
      /\ ~Queued("refused")'
  BY <1>3 DEF G!PCS
<1> QED  BY <1>1, <1>3, <1>4, GuiWindowWorks

(* One that goes on to its next step.                                      *)
LEMMA GuiPasses ==
  ASSUME GuiInvariant, UNCHANGED G!rest, NEW w \in DOMAIN workers, ~G!Orphan(w), G!Works(w),
         workers[w].pc # "spawned", UNCHANGED events,
         cli' \in {"none", "torn", "whole"}, extras' \in BOOLEAN, changed' \in BOOLEAN,
         policy' \subseteq policy \cup workers[w].opts.browsers,
         NEW pc \in G!PCS \ {"spawned", "over"}, G!Goes(w, pc),
         pc = "prompt" => G!Relaunches(workers[w].opts),
         NoOrphan =>
           /\ pc \in {"around", "verify", "prompt", "child", "report", "force", "done"} =>
                cli' = "whole"
           /\ pc \in {"force", "done"} => (workers[w].opts.extras => extras')
           /\ pc = "done" => workers[w].opts.browsers \subseteq policy'
  PROVE  GuiInvariant'
<1>1. events = <<>> /\ ~G!Refused(workers[w].opts)
  <2>1. ~Quiet
    BY DEF Quiet
  <2>2. workers[w].pc \notin {"spawned", "over"}
    BY DEF G!Works
  <2> QED  BY <2>1, <2>2 DEF GuiInvariant, GuiQuiet, GuiWorkers
<1>2. events' = <<>> /\ events' \in Seq(Kinds) /\ (\A k : ~Queued(k)')
  BY <1>1, EmptySeq DEF Queued
<1> QED  BY <1>1, <1>2, GuiWindowWorks

LEMMA GuiFiles ==
  ASSUME GuiInvariant, UNCHANGED G!rest, NEW w \in DOMAIN workers,
         G!Payload(w) \/ G!Unpack(w) \/ G!Fill(w) \/ G!Around(w)
  PROVE  GuiInvariant'
<1>1. workers[w].pc \in {"payload", "unpack", "fill", "around"}
      /\ UNCHANGED <<extras, policy>> /\ cli' \in {"none", "torn", "whole"} /\ changed' \in BOOLEAN
  BY DEF G!Payload, G!Unpack, G!Fill, G!Around, G!machine, GuiInvariant, G!TypeOK
<1>2. /\ G!Works(w) /\ ~G!Orphan(w) /\ extras \in BOOLEAN
      /\ NoOrphan /\ workers[w].pc = "around" => cli = "whole"
  BY <1>1, GuiAt
<1>3. {"unpack", "fill", "around", "verify"} \subseteq G!PCS \ {"spawned", "over"}
  BY DEF G!PCS
<1>4. CASE \E byRun \in BOOLEAN : G!Ends(w, "failed", byRun)
  BY <1>1, <1>2, <1>4, GuiFails
<1>5. CASE G!Goes(w, "unpack") /\ UNCHANGED events
  BY <1>1, <1>2, <1>3, <1>5, GuiPasses
<1>6. CASE G!Goes(w, "fill") /\ UNCHANGED events
  BY <1>1, <1>2, <1>3, <1>6, GuiPasses
<1>7. CASE G!Goes(w, "around") /\ UNCHANGED events /\ cli' = "whole"
  BY <1>1, <1>2, <1>3, <1>7, GuiPasses
<1>8. CASE G!Around(w) /\ G!Goes(w, "verify") /\ UNCHANGED events
  <2>1. workers[w].pc = "around" /\ cli' = cli
    BY <1>8 DEF G!Around, G!machine
  <2> QED  BY <1>1, <1>2, <1>3, <1>8, <2>1, GuiPasses
<1> QED  BY <1>4, <1>5, <1>6, <1>7, <1>8 DEF G!Payload, G!Unpack, G!Fill, G!Around

LEMMA GuiVerify ==
  ASSUME GuiInvariant, UNCHANGED G!rest, NEW w \in DOMAIN workers, G!Verify(w)
  PROVE  GuiInvariant'
<1> DEFINE o == workers[w].opts
           more == o.extras \/ G!wants_extension_forcelist(o)
<1>1. /\ workers[w].pc = "verify" /\ UNCHANGED <<cli, extras, policy>>
      /\ cli \in {"none", "torn", "whole"} /\ changed' \in BOOLEAN
  BY DEF G!Verify, G!machine, GuiInvariant, G!TypeOK
<1>2. /\ G!Works(w) /\ ~G!Orphan(w) /\ extras \in BOOLEAN /\ workers[w] \in WorkerRows
      /\ NoOrphan => cli = "whole" /\ o = G!Request
  BY <1>1, GuiAt
<1>3. {"done", "prompt", "report"} \subseteq G!PCS \ {"spawned", "over"}
  BY DEF G!PCS
<1>4. CASE G!Ends(w, "failed", TRUE)
  BY <1>1, <1>2, <1>4, GuiFails
<1>5. CASE G!Goes(w, "done") /\ UNCHANGED events /\ ~more
  <2>1. NoOrphan => ~o.extras /\ o.browsers = {}
    BY <1>2, <1>5 DEF G!wants_extension_forcelist, G!Request, G!Chosen, WorkerRows
  <2> QED  BY <1>1, <1>2, <1>3, <1>5, <2>1, GuiPasses
<1>6. CASE G!Goes(w, "prompt") /\ UNCHANGED events /\ G!Relaunches(o)
  BY <1>1, <1>2, <1>3, <1>6, GuiPasses
<1>7. CASE G!Goes(w, "report") /\ UNCHANGED events
  BY <1>1, <1>2, <1>3, <1>7, GuiPasses
<1> QED  BY <1>4, <1>5, <1>6, <1>7 DEF G!Verify

LEMMA GuiPrompt ==
  ASSUME GuiInvariant, UNCHANGED G!rest, NEW w \in DOMAIN workers, G!Prompt(w)
  PROVE  GuiInvariant'
<1>1. /\ workers[w].pc = "prompt" /\ UNCHANGED <<cli, extras, policy>>
      /\ cli \in {"none", "torn", "whole"} /\ changed' \in BOOLEAN
  BY DEF G!Prompt, G!machine, GuiInvariant, G!TypeOK
<1>2. /\ G!Works(w) /\ ~G!Orphan(w) /\ extras \in BOOLEAN /\ ~G!Refused(workers[w].opts)
      /\ NoOrphan => cli = "whole"
  BY <1>1, GuiAt
<1>3. tool
  BY <1>1, <1>2 DEF GuiInvariant, GuiWorkers, G!Refused
<1>4. "child" \in G!PCS \ {"spawned", "over"}
  BY DEF G!PCS
<1>5. CASE G!Ends(w, "failed", TRUE)
  BY <1>1, <1>2, <1>5, GuiFails
<1>6. CASE G!Goes(w, "child") /\ UNCHANGED events
  BY <1>1, <1>2, <1>4, <1>6, GuiPasses
<1> QED  BY <1>3, <1>5, <1>6 DEF G!Prompt, G!PromptOnLinux, G!PromptOnMac, G!relaunch_elevated

(* The steps an orphan takes as well: it ends without telling anyone.      *)
LEMMA GuiReturns ==
  ASSUME GuiInvariant, UNCHANGED G!rest, NEW w \in DOMAIN workers, G!Returns(w, "failed"),
         workers[w].pc # "over", UNCHANGED cli, extras' \in BOOLEAN, changed' \in BOOLEAN,
         policy' \subseteq policy \cup workers[w].opts.browsers
  PROVE  GuiInvariant'
<1>1. G!Works(w) /\ cli' \in {"none", "torn", "whole"}
  BY GuiAt DEF GuiInvariant, G!TypeOK
<1>2. CASE G!Orphan(w)
  <2>1. G!Goes(w, "over") /\ UNCHANGED events
    BY <1>2 DEF G!Returns
  <2> QED  BY <1>1, <1>2, <2>1, GuiOrphanWorks
<1>3. CASE ~G!Orphan(w)
  <2>1. G!Ends(w, "failed", TRUE)
    BY <1>3 DEF G!Returns
  <2> QED  BY <1>1, <1>3, <2>1, GuiFails
<1> QED  BY <1>2, <1>3

LEMMA GuiChild ==
  ASSUME GuiInvariant, UNCHANGED G!rest, NEW w \in DOMAIN workers, G!Child(w)
  PROVE  GuiInvariant'
<1>1. /\ workers[w].pc = "child" /\ UNCHANGED <<cli, extras, policy>>
      /\ cli \in {"none", "torn", "whole"} /\ changed' \in BOOLEAN
  BY DEF G!Child, G!machine, GuiInvariant, G!TypeOK
<1>2. G!Works(w) /\ extras \in BOOLEAN /\ (NoOrphan => cli = "whole")
  BY <1>1, GuiAt
<1>3. CASE G!Returns(w, "failed")
  BY <1>1, <1>2, <1>3, GuiReturns
<1>4. CASE G!Goes(w, "report") /\ UNCHANGED events
  <2>1. "report" \in G!PCS \ {"spawned", "over"}
    BY DEF G!PCS
  <2>2. CASE G!Orphan(w)
    BY <1>1, <1>2, <1>4, <2>2, GuiOrphanWorks
  <2>3. CASE ~G!Orphan(w)
    BY <1>1, <1>2, <1>4, <2>1, <2>3, GuiPasses
  <2> QED  BY <2>2, <2>3
<1> QED  BY <1>3, <1>4 DEF G!Child, G!ChildOnLinux, G!ChildOnMac, G!ReadsPlan

LEMMA GuiReport ==
  ASSUME GuiInvariant, UNCHANGED G!rest, NEW w \in DOMAIN workers, G!Report(w)
  PROVE  GuiInvariant'
<1>1. /\ workers[w].pc = "report" /\ UNCHANGED <<cli, policy>>
      /\ cli \in {"none", "torn", "whole"} /\ changed' \in BOOLEAN
  BY DEF G!Report, GuiInvariant, G!TypeOK
<1>2. /\ G!Works(w) /\ extras \in BOOLEAN /\ workers[w] \in WorkerRows
      /\ NoOrphan => cli = "whole"
  BY <1>1, GuiAt
<1>3. CASE (extras' \in BOOLEAN) /\ G!Returns(w, "failed")
  BY <1>1, <1>2, <1>3, GuiReturns
<1>4. CASE /\ extras' = (extras \/ workers[w].opts.extras)
           /\ G!Goes(w, "force") /\ UNCHANGED events
  <2>1. extras' \in BOOLEAN /\ (workers[w].opts.extras => extras')
    BY <1>4
  <2>2. "force" \in G!PCS \ {"spawned", "over"}
    BY DEF G!PCS
  <2>3. CASE G!Orphan(w)
    BY <1>1, <1>2, <1>4, <2>1, <2>3, GuiOrphanWorks
  <2>4. CASE ~G!Orphan(w)
    BY <1>1, <1>2, <1>4, <2>1, <2>2, <2>4, GuiPasses
  <2> QED  BY <2>3, <2>4
<1> QED  BY <1>3, <1>4 DEF G!Report

LEMMA GuiForce ==
  ASSUME GuiInvariant, UNCHANGED G!rest, NEW w \in DOMAIN workers, G!Force(w)
  PROVE  GuiInvariant'
<1> DEFINE want == G!Forced(workers[w].opts)
<1>1. /\ workers[w].pc = "force" /\ UNCHANGED <<cli, extras>>
      /\ cli \in {"none", "torn", "whole"} /\ changed' \in BOOLEAN
  BY DEF G!Force, GuiInvariant, G!TypeOK
<1>2. /\ G!Works(w) /\ extras \in BOOLEAN /\ workers[w] \in WorkerRows
      /\ NoOrphan => /\ cli = "whole" /\ workers[w].opts = G!Request
                     /\ workers[w].opts.extras => extras
  BY <1>1, GuiAt
<1>3. want \subseteq workers[w].opts.browsers
  BY DEF G!Forced
<1>4. CASE \E done \in SUBSET want :
             done # want /\ policy' = policy \cup done /\ G!Returns(w, "failed")
  BY <1>1, <1>2, <1>3, <1>4, GuiReturns
<1>5. CASE /\ policy' = policy \cup want
           /\ G!Goes(w, IF G!Orphan(w) THEN "over" ELSE "done")
           /\ UNCHANGED events
  <2>1. /\ "done" \in G!PCS \ {"spawned", "over"}
        /\ policy' \subseteq policy \cup workers[w].opts.browsers
    BY <1>3, <1>5 DEF G!PCS
  <2>2. CASE G!Orphan(w)
    BY <1>1, <1>2, <1>5, <2>1, <2>2, GuiOrphanWorks
  <2>3. CASE ~G!Orphan(w)
    <3>1. G!Goes(w, "done")
      BY <1>5, <2>3
    <3>2. NoOrphan => workers[w].opts.browsers \subseteq policy'
      BY <1>2, <1>5 DEF G!Forced, G!wants_extension_forcelist, G!Request, G!Chosen
    <3> QED  BY <1>1, <1>2, <1>5, <2>1, <2>3, <3>1, <3>2, GuiPasses
  <2> QED  BY <2>2, <2>3
<1> QED  BY <1>4, <1>5 DEF G!Force

LEMMA GuiDone ==
  ASSUME GuiInvariant, UNCHANGED G!rest, NEW w \in DOMAIN workers, G!Done(w)
  PROVE  GuiInvariant'
<1>1. /\ workers[w].pc = "done" /\ G!Goes(w, "over") /\ UNCHANGED <<cli, extras, policy, changed>>
      /\ events' = events \o <<"full", "done">>
      /\ cli \in {"none", "torn", "whole"} /\ changed' \in BOOLEAN
  BY DEF G!Done, G!machine, GuiInvariant, G!TypeOK
<1>2. /\ G!Works(w) /\ ~G!Orphan(w) /\ extras \in BOOLEAN /\ events = <<>>
      /\ NoOrphan => /\ cli = "whole" /\ workers[w].opts = G!Request
                     /\ workers[w].opts.extras => extras
                     /\ workers[w].opts.browsers \subseteq policy
  BY <1>1, GuiAt
<1>3. <<"full", "done">> \in Seq(Kinds)
  BY DEF Kinds
<1>4. events' = <<"full", "done">>
  BY <1>1, <1>2, <1>3, ConcatEmptySeq
<1>5. ~Queued("refused")'
  BY <1>4 DEF Queued
<1>6. NoOrphan => Complete'
  <2>1. UNCHANGED <<sel, found, checked>>
    BY DEF G!rest, G!ui
  <2> QED  BY <1>1, <1>2, <2>1 DEF Complete, G!Request, G!Chosen, G!NoList
<1>7. "over" \in G!PCS \ {"spawned"}
  BY DEF G!PCS
<1> QED  BY <1>1, <1>2, <1>3, <1>4, <1>5, <1>6, <1>7, GuiWindowWorks

LEMMA GuiStarts ==
  ASSUME G!Init
  PROVE  GuiInvariant
<1>1. /\ workers = <<>> /\ events = <<>> /\ found = {"unknown"}
      /\ os \in {"windows", "linux", "macos"}
      /\ {elevated, system, tool, open, detecting, full, cancelled, extras, changed}
           \subseteq BOOLEAN
      /\ page = "components" /\ sel \in [extension : BOOLEAN, extras : BOOLEAN]
      /\ checked = {} /\ known = {} /\ policy = {} /\ asked = {} /\ off = {} /\ open
      /\ runs = 0 /\ toggles = 0 /\ token = 0 /\ listening = {} /\ message = "" /\ cli = "none"
      /\ full = FALSE /\ (system => os = "windows")
  BY DEF G!Init, G!AllOn, G!NoList
<1>2. /\ DOMAIN workers = {} /\ DOMAIN events = {}
      /\ workers \in Seq(WorkerRows) /\ events \in Seq(Kinds)
  <2>1. workers = <<>> /\ events = <<>>
    BY <1>1
  <2>2. /\ workers \in Seq(WorkerRows) /\ events \in Seq(Kinds)
        /\ Len(workers) = 0 /\ Len(events) = 0
    BY <2>1, EmptySeq
  <2>3. DOMAIN workers = 1..0 /\ DOMAIN events = 1..0
    BY <2>2, LenProperties
  <2> QED  BY <2>2, <2>3
<1>3. runs \in 0..Runs /\ toggles \in 0..Toggles
  <2>1. runs = 0 /\ toggles = 0
    BY DEF G!Init
  <2> QED  BY <2>1, NatBounds
<1>4. G!TypeOK
  BY <1>1, <1>2, <1>3 DEF G!TypeOK, G!NoList, WorkerRows, Kinds
<1>5. G!WizardHolds
  BY <1>1, <1>2 DEF G!WizardHolds, G!FinishMeansDone, G!PolicyWasAsked, G!RefusalIsClean,
     G!OneWorker
<1>6. GuiWorkers /\ GuiQuiet
  BY <1>2 DEF GuiWorkers, GuiQuiet, Quiet
<1>7. GuiTold
  BY <1>1, <1>2 DEF GuiTold, Queued
<1>8. GuiList /\ GuiBuilt
  BY <1>1 DEF GuiList, GuiBuilt, G!NoList
<1> QED  BY <1>4, <1>5, <1>6, <1>7, <1>8 DEF GuiInvariant

LEMMA GuiDelivers ==
  ASSUME GuiInvariant, G!Deliver
  PROVE  GuiInvariant'
<1> USE DEF GuiInvariant
<1>1. /\ UNCHANGED <<G!host, G!ui, runs, token, cancelled, workers, G!machine, changed, asked, off>>
      /\ UNCHANGED <<open, page, sel, found, checked, known, system, os, elevated, tool, cli,
                     extras, policy>>
  BY DEF G!Deliver, G!host, G!ui, G!machine
<1> DEFINE e == Head(events)
<1>2. e \in Kinds /\ events' \in Seq(Kinds) /\ Queued(e) /\ (\A k : Queued(k)' => Queued(k))
  <2>1. events # <<>> /\ events' = Tail(events)
    BY DEF G!Deliver
  <2>2. /\ events \in Seq(Kinds) /\ Len(events) \in Nat /\ DOMAIN events = 1..Len(events)
        /\ Len(events) # 0
    BY <2>1, GuiTypes, EmptySeq
  <2>3. /\ Head(events) \in Kinds /\ Tail(events) \in Seq(Kinds)
        /\ Len(Tail(events)) = Len(events) - 1
        /\ \A i \in 1..Len(Tail(events)) : Tail(events)[i] = events[i + 1]
    BY <2>1, <2>2, HeadTailProperties
  <2>4. DOMAIN events' = 1..(Len(events) - 1)
    BY <2>1, <2>3, LenProperties
  <2>5. \A k : Queued(k)' => Queued(k)
    <3> SUFFICES ASSUME NEW k, NEW i \in 1..(Len(events) - 1), events'[i] = k
                 PROVE  \E j \in 1..Len(events) : events[j] = k
      BY <2>2, <2>4 DEF Queued
    <3>1. i + 1 \in 1..Len(events) /\ events[i + 1] = k
      BY <2>1, <2>2, <2>3
    <3> QED  BY <3>1
  <2>6. 1 \in DOMAIN events /\ events[1] = Head(events)
    BY <2>1, <2>2
  <2> QED  BY <2>1, <2>3, <2>5, <2>6 DEF Queued
<1>3. /\ open /\ Quiet /\ full' \in BOOLEAN /\ listening' \subseteq listening
      /\ full' => full \/ e = "full" \/ e = "done"
      /\ message' = message \/ (message' = e /\ e \in {"refused", "failed"})
  BY DEF G!Deliver, GuiQuiet, G!TypeOK
<1> HIDE DEF e
<1>4. Quiet' /\ (NoOrphan' <=> NoOrphan)
  BY <1>1, <1>3 DEF Quiet, NoOrphan, G!Works, G!Orphan
<1>5. G!TypeOK'
  BY <1>1, <1>2, <1>3 DEF G!TypeOK, G!host, G!ui, WorkerRows, Kinds
<1>6. GuiTold'
  <2>1. open' /\ system' = system /\ os' = os
    BY <1>1, <1>3
  <2>2. message' = "refused" \/ Queued("refused")' => ~changed' /\ NoOrphan'
    BY <1>1, <1>2, <1>3, <1>4 DEF GuiTold
  <2> QED  BY <2>1, <2>2 DEF GuiTold
<1>7. G!FinishMeansDone' /\ G!PolicyWasAsked' /\ G!OneWorker'
  BY <1>1 DEF G!WizardHolds, G!FinishMeansDone, G!PolicyWasAsked, G!OneWorker, G!Works, G!Orphan,
     G!Chosen, G!NoList
<1>8. G!RefusalIsClean'
  BY <1>6 DEF GuiTold, G!RefusalIsClean
<1>9. GuiWorkers'
  <2>1. \A o : /\ G!Refused(o)' <=> G!Refused(o)
               /\ G!Relaunches(o)' <=> G!Relaunches(o)
    BY <1>1, GuiHost
  <2> QED  BY <1>1, <1>4, <2>1 DEF GuiWorkers, G!Works, G!Orphan, G!Refused, G!Relaunches,
              G!needs_elevation, G!wants_extension_forcelist
<1>10. GuiQuiet' /\ GuiList'
  BY <1>1, <1>4 DEF GuiQuiet, GuiList, G!NoList
<1>11. GuiBuilt'
  <2>1. Complete' <=> Complete
    BY <1>1 DEF Complete, G!Chosen, G!NoList
  <2>2. full' \/ Queued("full")' \/ Queued("done")' => full \/ Queued("full") \/ Queued("done")
    BY <1>2, <1>3
  <2> QED  BY <1>1, <1>4, <2>1, <2>2 DEF GuiBuilt, G!Works, G!Request, G!Chosen, G!NoList
<1> QED  BY <1>5, <1>6, <1>7, <1>8, <1>9, <1>10, <1>11 DEF G!WizardHolds

(* Steps that leave the threads, the events and the machine alone.         *)
LEMMA GuiIdle ==
  ASSUME GuiInvariant,
         UNCHANGED <<G!host, runs, listening, workers, events, G!machine, changed, asked, full,
                     message, open>>,
         cancelled' \in BOOLEAN, token' \in Nat, token <= token', detecting' \in BOOLEAN,
         page' \in {"components", "browsers", "finish"}, Quiet,
         sel' \in [extension : BOOLEAN, extras : BOOLEAN], toggles' \in 0..Toggles,
         found' \subseteq Browsers \cup G!NoList, checked' \subseteq Browsers,
         known' \subseteq Browsers, off' \subseteq Browsers, GuiList',
         page' = "finish" => /\ UNCHANGED <<sel, found, checked>>
                             /\ NoOrphan => Complete
  PROVE  GuiInvariant'
<1> USE DEF GuiInvariant
<1>1. UNCHANGED <<system, os, elevated, tool, cli, extras, policy>>
  BY DEF G!host, G!machine
<1>2. Quiet' /\ (NoOrphan' <=> NoOrphan)
  BY DEF Quiet, NoOrphan, G!Works, G!Orphan
<1>3. G!TypeOK'
  <2>1. listening' \subseteq 0..token'
    <3>1. listening \subseteq 0..token /\ token \in Nat
      BY DEF G!TypeOK
    <3> QED  BY <3>1
  <2>2. /\ os' \in {"windows", "linux", "macos"} /\ runs' \in 0..Runs /\ toggles' \in 0..Toggles
        /\ {elevated', system', tool', open', detecting', full', cancelled', extras', changed'}
             \subseteq BOOLEAN
        /\ checked' \cup known' \cup policy' \cup asked' \cup off' \subseteq Browsers
        /\ found' \subseteq Browsers \cup {"unknown"}
    BY <1>1 DEF G!TypeOK, G!NoList
  <2>3. /\ workers' \in Seq(WorkerRows) /\ events' \in Seq(Kinds)
        /\ message' \in {"", "refused", "failed"} /\ cli' \in {"none", "torn", "whole"}
    BY <1>1 DEF G!TypeOK, WorkerRows, Kinds
  <2> QED  BY <2>1, <2>2, <2>3 DEF G!TypeOK, WorkerRows, Kinds, G!NoList
<1>4. GuiTold'
  BY <1>1, <1>2 DEF GuiTold, Queued
<1>5. G!FinishMeansDone'
  BY <1>1, <1>2 DEF G!FinishMeansDone, Complete, G!Chosen, G!NoList, NoOrphan
<1>6. G!PolicyWasAsked' /\ G!OneWorker' /\ G!RefusalIsClean'
  BY <1>1 DEF G!WizardHolds, G!PolicyWasAsked, G!OneWorker, G!RefusalIsClean, G!Works, G!Orphan
<1>7. GuiWorkers'
  BY <1>1, <1>2 DEF GuiWorkers, G!Works, G!Orphan, G!Refused, G!Relaunches, G!needs_elevation,
     G!wants_extension_forcelist
<1>8. GuiQuiet' /\ GuiBuilt'
  BY <1>2 DEF GuiQuiet, GuiBuilt
<1> QED  BY <1>3, <1>4, <1>5, <1>6, <1>7, <1>8 DEF G!WizardHolds

(* The list of browsers and the check boxes.                               *)
LEMMA GuiChecks ==
  ASSUME GuiInvariant, G!ToggleComponent \/ G!ToggleBrowser \/ G!Detected \/ G!RetryDetect
  PROVE  GuiInvariant'
<1> USE DEF GuiInvariant
<1>1. /\ UNCHANGED <<G!host, runs, listening, workers, events, G!machine, changed, asked, full,
                     message, open, page, token, cancelled>>
      /\ page \in {"components", "browsers"}
  BY DEF G!ToggleComponent, G!ToggleBrowser, G!Detected, G!RetryDetect, G!OnlyUI
<1>8. Quiet /\ token \in Nat /\ token <= token
  <2>1. Quiet
    BY <1>1 DEF GuiQuiet
  <2>2. token \in Nat
    BY GuiTypes
  <2> QED  BY <2>1, <2>2
<1>2. /\ cancelled \in BOOLEAN
      /\ sel \in [extension : BOOLEAN, extras : BOOLEAN] /\ toggles \in 0..Toggles
      /\ found \subseteq Browsers \cup G!NoList /\ detecting \in BOOLEAN
      /\ checked \subseteq Browsers /\ known \subseteq Browsers /\ off \subseteq Browsers
  BY DEF G!TypeOK
<1>3. ASSUME toggles' = toggles + 1, toggles < Toggles
      PROVE  toggles' \in 0..Toggles
  BY <1>2, <1>3, NatBounds
<1>4. CASE G!ToggleComponent
  <2>1. /\ UNCHANGED <<found, checked, known, detecting, off>> /\ toggles' \in 0..Toggles
        /\ sel' \in [extension : BOOLEAN, extras : BOOLEAN]
    BY <1>2, <1>3, <1>4 DEF G!ToggleComponent
  <2>2. GuiList'
    BY <2>1 DEF GuiList, G!NoList
  <2> QED  BY <1>1, <1>2, <2>1, <2>2, <1>8, GuiIdle
<1>5. CASE G!ToggleBrowser
  <2>1. /\ UNCHANGED <<sel, found, known, detecting>> /\ toggles' \in 0..Toggles
    BY <1>2, <1>3, <1>5 DEF G!ToggleBrowser
  <2>2. PICK b \in found \ G!NoList :
             /\ checked' = IF b \in checked THEN checked \ {b} ELSE checked \cup {b}
             /\ off' = IF b \in checked THEN off \cup {b} ELSE off \ {b}
    BY <1>5 DEF G!ToggleBrowser
  <2>3. b \in Browsers /\ b \in known
    BY <1>2 DEF GuiList
  <2>4. checked' \subseteq Browsers /\ off' \subseteq Browsers
    BY <1>2, <2>2, <2>3
  <2>5. GuiList'
    BY <2>1, <2>2, <2>3 DEF GuiList, G!NoList
  <2> QED  BY <1>1, <1>2, <2>1, <2>4, <2>5, <1>8, GuiIdle
<1>6. CASE G!Detected
  <2>1. /\ UNCHANGED <<sel, toggles, off>> /\ detecting' \in BOOLEAN
        /\ \/ /\ found' = Browsers /\ known' = Browsers
              /\ checked' = (checked \cap Browsers) \cup (Browsers \ known)
           \/ UNCHANGED <<found, checked, known>>
    BY <1>6 DEF G!Detected, G!Rechecked
  <2>2. /\ found' \subseteq Browsers \cup G!NoList /\ checked' \subseteq Browsers
        /\ known' \subseteq Browsers
    BY <1>2, <2>1
  <2>3. GuiList'
    BY <1>2, <2>1 DEF GuiList, G!NoList
  <2> QED  BY <1>1, <1>2, <2>1, <2>2, <2>3, <1>8, GuiIdle
<1>7. CASE G!RetryDetect
  <2>1. /\ UNCHANGED <<sel, found, checked, known, off>> /\ detecting' \in BOOLEAN
        /\ toggles' \in 0..Toggles
    BY <1>2, <1>3, <1>7 DEF G!RetryDetect
  <2>2. GuiList'
    BY <2>1 DEF GuiList, G!NoList
  <2> QED  BY <1>1, <1>2, <2>1, <2>2, <1>8, GuiIdle
<1> QED  BY <1>4, <1>5, <1>6, <1>7

(* A click that installs: there is one more worker, and nothing is known   *)
(* of it yet.                                                              *)
LEMMA GuiInstalls ==
  ASSUME GuiInvariant, Quiet, open, events = <<>>, G!StartInstall, page' = "installing",
         detecting' \in BOOLEAN,
         UNCHANGED <<open, sel, found, checked, known, toggles, off, G!host>>
  PROVE  GuiInvariant'
<1> USE DEF GuiInvariant
<1> DEFINE new == [pc |-> "spawned", opts |-> G!Request, orphan |-> FALSE]
           n == Len(workers) + 1
<1>1. /\ runs' = runs + 1 /\ runs < Runs /\ token' = token + 1
      /\ listening' = listening \cup {token'}
      /\ full' = FALSE /\ message' = "" /\ cancelled' = FALSE /\ changed' = FALSE
      /\ workers' = Append(workers, new)
      /\ asked' = IF sel.extension THEN asked \cup (Browsers \ off) ELSE asked
      /\ UNCHANGED <<events, cli, extras, policy>>
  BY DEF G!StartInstall, G!machine
<1>2. UNCHANGED <<system, os, elevated, tool>>
  BY DEF G!host
<1>3. /\ G!Request \in [extension : BOOLEAN, extras : BOOLEAN, browsers : SUBSET Browsers]
      /\ G!Request' = G!Request /\ G!Request.browsers \subseteq asked'
      /\ G!Request.browsers = G!Chosen
  <2>1. G!Chosen \subseteq checked /\ (G!Chosen # {} => sel.extension)
    BY DEF G!Chosen
  <2>2. checked \subseteq Browsers /\ checked \cap off = {}
        /\ sel \in [extension : BOOLEAN, extras : BOOLEAN]
    BY DEF G!TypeOK, GuiList
  <2>3. G!Request.browsers \subseteq asked'
    BY <1>1, <2>1, <2>2 DEF G!Request
  <2> QED  BY <2>1, <2>2, <2>3 DEF G!Request, G!Chosen, G!NoList
<1>4. /\ new \in WorkerRows /\ new.pc = "spawned" /\ new.opts = G!Request /\ ~new.orphan
  BY <1>3 DEF WorkerRows, G!PCS
<1>5. workers \in Seq(WorkerRows) /\ Len(workers) \in Nat /\ DOMAIN workers = 1..Len(workers)
  BY GuiTypes
<1> HIDE DEF new
<1>6. /\ workers' \in Seq(WorkerRows) /\ Len(workers') = n
      /\ \A w \in 1..Len(workers) : workers'[w] = workers[w]
      /\ workers'[n] = new
  <2>1. /\ Append(workers, new) \in Seq(WorkerRows)
        /\ Len(Append(workers, new)) = n
        /\ \A w \in 1..Len(workers) : Append(workers, new)[w] = workers[w]
        /\ Append(workers, new)[n] = new
    BY <1>4, <1>5, AppendProperties
  <2> QED  BY <1>1, <2>1
<1>7. DOMAIN workers' = DOMAIN workers \cup {n} /\ n \notin DOMAIN workers
  <2>1. DOMAIN workers' = 1..n
    BY <1>6, LenProperties
  <2> QED  BY <1>5, <2>1
<1> HIDE DEF n
<1>8. \A w \in DOMAIN workers' : ~(w = n) =>
        /\ w \in DOMAIN workers /\ workers'[w] = workers[w]
        /\ workers[w].pc # "over" => workers[w].orphan
  BY <1>5, <1>6, <1>7 DEF Quiet, G!Works, G!Orphan
<1>9. NoOrphan' => NoOrphan
  BY <1>6, <1>7, <1>8 DEF NoOrphan, G!Orphan
<1>10. G!TypeOK'
  <2>1. runs' \in 0..Runs /\ token' \in Nat /\ listening' \subseteq 0..token'
    <3>1. runs \in 0..Runs /\ token \in Nat /\ listening \subseteq 0..token
      BY DEF G!TypeOK
    <3>2. token' = token + 1 /\ listening' = listening \cup {token'}
          /\ runs' = runs + 1 /\ runs < Runs
      BY <1>1
    <3>3. \A t \in 0..token : t \in 0..(token + 1)
      BY <3>1
    <3>4. listening' \subseteq 0..token' /\ token' \in Nat
      BY <3>1, <3>2, <3>3
    <3>5. runs' \in 0..Runs
      BY <3>1, <3>2, NatBounds
    <3> QED  BY <3>4, <3>5
  <2>2. asked' \subseteq Browsers
    BY <1>1 DEF G!TypeOK
  <2> QED  BY <1>1, <1>2, <1>6, <2>1, <2>2 DEF G!TypeOK, WorkerRows
<1>11. G!OneWorker'
  BY <1>8 DEF G!OneWorker, G!Works, G!Orphan
<1>12. G!PolicyWasAsked' /\ G!FinishMeansDone' /\ G!RefusalIsClean'
  BY <1>1 DEF G!PolicyWasAsked, G!FinishMeansDone, G!RefusalIsClean, G!WizardHolds
<1>17. \A k : ~Queued(k)'
  <2>1. events' = <<>>
    BY <1>1
  <2> QED  BY <2>1 DEF Queued
<1>13. GuiTold'
  BY <1>1, <1>2, <1>17 DEF GuiTold
<1>14. GuiQuiet' /\ GuiList'
  BY <1>1 DEF GuiQuiet, GuiList, G!NoList
<1>15. GuiBuilt'
  <2> SUFFICES ASSUME NoOrphan'
               PROVE  \A w \in DOMAIN workers' : G!Works(w)' =>
                        workers'[w].opts = G!Request' /\ workers'[w].pc = "spawned"
    BY <1>1, <1>17 DEF GuiBuilt
  <2> QED  BY <1>3, <1>4, <1>6, <1>8 DEF NoOrphan, G!Works, G!Orphan
<1>16. GuiWorkers'
  <2> SUFFICES ASSUME NEW w \in DOMAIN workers'
               PROVE  /\ (G!Works(w) /\ ~G!Orphan(w) => w = Len(workers))'
                      /\ workers'[w].pc \notin {"spawned", "over"} =>
                           ~G!Refused(workers[w].opts)'
                      /\ workers'[w].pc = "prompt" => G!Relaunches(workers[w].opts)'
                      /\ G!Orphan(w)' => /\ tool /\ os # "windows"
                                         /\ workers'[w].pc \in {"child", "report", "force", "over"}
                      /\ workers'[w].opts.browsers \subseteq asked'
                      /\ workers'[w].pc = "spawned" => ~changed' \/ ~NoOrphan'
    BY <1>2 DEF GuiWorkers
  <2>1. CASE w = n
    BY <1>1, <1>3, <1>4, <1>6, <2>1 DEF G!Orphan
  <2>2. CASE w # n
    <3>1. w \in DOMAIN workers /\ workers'[w] = workers[w]
          /\ (workers[w].pc # "over" => workers[w].orphan)
      BY <1>8, <2>2
    <3>2. workers'[w].opts.browsers \subseteq asked'
      BY <1>1, <3>1 DEF GuiWorkers
    <3>3. (G!Works(w) /\ ~G!Orphan(w) => w = Len(workers))'
      BY <3>1 DEF G!Works, G!Orphan
    <3>4. /\ G!Refused(workers[w].opts)' <=> G!Refused(workers[w].opts)
          /\ G!Relaunches(workers[w].opts)' <=> G!Relaunches(workers[w].opts)
      BY <1>2, <3>1 DEF G!Refused, G!Relaunches, G!needs_elevation, G!wants_extension_forcelist
    <3>5. /\ workers[w].pc \notin {"spawned", "over"} => ~G!Refused(workers[w].opts)
          /\ workers[w].pc = "prompt" => G!Relaunches(workers[w].opts)
          /\ workers[w].orphan => /\ tool /\ os # "windows"
                                  /\ workers[w].pc \in {"child", "report", "force", "over"}
      BY <3>1 DEF GuiWorkers, G!Orphan
    <3> QED  BY <1>1, <3>1, <3>2, <3>3, <3>4, <3>5 DEF G!Orphan
  <2> QED  BY <2>1, <2>2
<1> QED  BY <1>10, <1>11, <1>12, <1>13, <1>14, <1>15, <1>16 DEF G!WizardHolds

LEMMA GuiTurns ==
  ASSUME GuiInvariant, G!Continue \/ G!GoBack \/ G!Retry
  PROVE  GuiInvariant'
<1> USE DEF GuiInvariant
<1>1. open /\ events = <<>>
  BY DEF G!Continue, G!GoBack, G!Retry, G!MayClick
<1>2. Quiet
  BY <1>1 DEF G!Continue, G!GoBack, G!Retry, G!MayGoBack, G!canContinue, GuiQuiet
<1>3. CASE G!Retry
  <2>1. /\ G!StartInstall /\ page' = "installing" /\ detecting' \in BOOLEAN
        /\ UNCHANGED <<open, sel, found, checked, known, toggles, off, G!host>>
    BY <1>3 DEF G!Retry, G!ui, G!TypeOK
  <2> QED  BY <1>1, <1>2, <2>1, GuiInstalls
<1>4. CASE \E to \in {"components", "browsers", "installing", "finish"} :
             /\ G!Turn(to)
             /\ to = "installing" => page # "installing"
             /\ to = "finish" => page = "installing" /\ full
  <2>1. PICK to \in {"components", "browsers", "installing", "finish"} :
               /\ G!Turn(to)
               /\ to = "installing" => page # "installing"
               /\ to = "finish" => page = "installing" /\ full
    BY <1>4
  <2>2. /\ page' = to /\ detecting' \in BOOLEAN
        /\ UNCHANGED <<open, sel, found, checked, known, toggles, off, G!host>>
    BY <2>1 DEF G!Turn
  <2>3. CASE to = "installing"
    <3>1. G!StartInstall
      BY <2>1, <2>3 DEF G!Turn
    <3> QED  BY <1>1, <1>2, <2>2, <2>3, <3>1, GuiInstalls
  <2>4. CASE to # "installing"
    <3>1. /\ UNCHANGED <<runs, listening, workers, events, G!machine, changed, asked, full,
                         message>>
          /\ token' = token \/ token' = token + 1
          /\ cancelled' = cancelled \/ cancelled' = TRUE
      BY <2>1, <2>4 DEF G!Turn, G!LeaveInstalling
    <3>2. cancelled' \in BOOLEAN
      BY <3>1 DEF G!TypeOK
    <3>3. token' \in Nat /\ token <= token'
      <4>1. token \in Nat
        BY GuiTypes
      <4> QED  BY <3>1, <4>1
    <3>4. /\ sel \in [extension : BOOLEAN, extras : BOOLEAN] /\ toggles \in 0..Toggles
          /\ found \subseteq Browsers \cup G!NoList /\ checked \subseteq Browsers
          /\ known \subseteq Browsers /\ off \subseteq Browsers
      BY DEF G!TypeOK
    <3>5. GuiList'
      BY <2>2 DEF GuiList, G!NoList
    <3>6. to = "finish" => (NoOrphan => Complete)
      BY <2>1 DEF GuiBuilt
    <3> QED  BY <1>2, <2>2, <2>4, <3>1, <3>2, <3>3, <3>4, <3>5, <3>6, GuiIdle
  <2> QED  BY <2>3, <2>4
<1>5. CASE G!Continue
  <2>1. /\ G!After(page) \in {"components", "browsers", "installing", "finish"}
        /\ G!After(page) = "installing" => page # "installing"
        /\ G!After(page) = "finish" => page = "installing" /\ full
    BY <1>5 DEF G!Continue, G!After, G!canContinue, G!TypeOK
  <2>2. PICK to \in {"components", "browsers", "installing", "finish"} : to = G!After(page)
    BY <2>1
  <2>3. G!Turn(to)
    BY <1>5, <2>2 DEF G!Continue, G!Turn
  <2> QED  BY <1>4, <2>1, <2>2, <2>3
<1>6. CASE G!GoBack
  <2>1. G!Before(page) \subseteq {"components", "browsers", "installing"}
    BY DEF G!Before
  <2>2. PICK to \in G!Before(page) : G!Turn(to)
    BY <1>6 DEF G!GoBack
  <2>3. page # "installing"
    BY <1>6 DEF G!GoBack, G!MayGoBack
  <2> QED  BY <1>4, <2>1, <2>2, <2>3
<1> QED  BY <1>3, <1>5, <1>6

(* Closing the window makes an orphan of the child, if there is one.       *)
LEMMA GuiCloses ==
  ASSUME GuiInvariant, G!Close
  PROVE  GuiInvariant'
<1> USE DEF GuiInvariant
<1>1. /\ open /\ open' = FALSE /\ events' = <<>> /\ listening' = {}
      /\ UNCHANGED <<G!host, page, sel, found, checked, known, detecting, toggles, runs, token,
                     full, message, cancelled, G!machine, changed, asked, off>>
      /\ UNCHANGED <<system, os, elevated, tool, cli, extras, policy>>
  BY DEF G!Close, G!host, G!machine
<1>2. /\ workers \in Seq(WorkerRows) /\ Len(workers) \in Nat /\ DOMAIN workers = 1..Len(workers)
      /\ \A w \in DOMAIN workers : workers[w] \in WorkerRows
  BY GuiTypes
<1>3. ASSUME NEW w \in DOMAIN workers
      PROVE  /\ workers'[w] \in WorkerRows /\ workers'[w].opts = workers[w].opts
             /\ \/ /\ workers[w].pc \in {"child", "report", "force"}
                   /\ G!Relaunches(workers[w].opts)
                   /\ workers'[w].orphan = TRUE /\ workers'[w].pc = workers[w].pc
                \/ /\ workers'[w].orphan = workers[w].orphan /\ workers'[w].pc = "over"
  <2>1. workers'[w] = IF workers[w].pc \in {"child", "report", "force"}
                         /\ G!Relaunches(workers[w].opts)
                      THEN [workers[w] EXCEPT !.orphan = TRUE]
                      ELSE [workers[w] EXCEPT !.pc = "over"]
    BY DEF G!Close
  <2>2. workers[w] \in WorkerRows /\ "over" \in G!PCS
    BY <1>2 DEF G!PCS
  <2>3. CASE workers[w].pc \in {"child", "report", "force"} /\ G!Relaunches(workers[w].opts)
    BY <2>1, <2>2, <2>3 DEF WorkerRows
  <2>4. CASE ~(workers[w].pc \in {"child", "report", "force"} /\ G!Relaunches(workers[w].opts))
    BY <2>1, <2>2, <2>4 DEF WorkerRows
  <2> QED  BY <2>3, <2>4
<1>4. /\ DOMAIN workers' = DOMAIN workers /\ workers' \in Seq(WorkerRows)
      /\ Len(workers') = Len(workers)
  <2>1. workers' = [w \in 1..Len(workers) |-> workers'[w]]
    BY <1>2 DEF G!Close
  <2>2. workers' \in [1..Len(workers) -> WorkerRows]
    BY <1>2, <1>3, <2>1
  <2>3. workers' \in Seq(WorkerRows)
    BY <1>2, <2>2, SeqDef
  <2>4. DOMAIN workers' = 1..Len(workers') /\ Len(workers') \in Nat
    BY <2>3, LenProperties
  <2>5. DOMAIN workers' = 1..Len(workers)
    BY <2>2
  <2>6. \A m, n \in Nat : 1..m = 1..n => m = n
    <3> SUFFICES ASSUME NEW m \in Nat, NEW n \in Nat, 1..m = 1..n, m # n
                 PROVE  FALSE
      OBVIOUS
    <3>1. m \in 1..m \/ n \in 1..n
      OBVIOUS
    <3>2. m > n \/ n > m
      OBVIOUS
    <3>3. ~(m \in 1..n /\ n \in 1..m)
      BY <3>2
    <3> QED  BY <3>1, <3>2
  <2>7. Len(workers') = Len(workers)
    <3>1. 1..Len(workers') = 1..Len(workers)
      BY <2>4, <2>5
    <3> QED  BY <1>2, <2>4, <2>6, <3>1
  <2> QED  BY <1>2, <2>3, <2>5, <2>7
<1>5. Quiet'
  BY <1>3, <1>4 DEF Quiet, G!Works, G!Orphan
<1>6. NoOrphan' => NoOrphan
  <2> SUFFICES ASSUME NoOrphan', NEW w \in DOMAIN workers
               PROVE  ~workers[w].orphan
    BY DEF NoOrphan, G!Orphan
  <2>1. ~workers'[w].orphan
    BY <1>4 DEF NoOrphan, G!Orphan
  <2> QED  BY <1>3, <2>1
<1>7. G!TypeOK'
  <2>1. events' \in Seq(Kinds)
    BY <1>1, EmptySeq
  <2> QED  BY <1>1, <1>4, <2>1 DEF G!TypeOK, WorkerRows, Kinds
<1>8. G!FinishMeansDone' /\ G!PolicyWasAsked' /\ G!RefusalIsClean'
  <2>1. NoOrphan' /\ page = "finish" => cli = "whole" /\ (sel.extras => extras)
                                        /\ G!Chosen \subseteq policy
    BY <1>6 DEF G!WizardHolds, G!FinishMeansDone, NoOrphan
  <2>2. G!Chosen' = G!Chosen
    BY <1>1 DEF G!Chosen, G!NoList
  <2>3. G!FinishMeansDone'
    BY <1>1, <2>1, <2>2 DEF G!FinishMeansDone, NoOrphan
  <2> QED  BY <1>1, <2>3 DEF G!WizardHolds, G!PolicyWasAsked, G!RefusalIsClean
<1>9. G!OneWorker'
  BY <1>5 DEF Quiet, G!OneWorker
<1>10. GuiQuiet' /\ GuiList' /\ GuiTold'
  BY <1>1, <1>5 DEF GuiQuiet, GuiList, GuiTold, G!NoList
<1>11. GuiWorkers'
  <2> SUFFICES ASSUME NEW w \in DOMAIN workers
               PROVE  /\ (G!Works(w) /\ ~G!Orphan(w) => w = Len(workers))'
                      /\ workers'[w].pc \notin {"spawned", "over"} =>
                           ~G!Refused(workers[w].opts)'
                      /\ workers'[w].pc = "prompt" => G!Relaunches(workers[w].opts)'
                      /\ G!Orphan(w)' => /\ tool /\ os # "windows"
                                         /\ workers'[w].pc \in {"child", "report", "force", "over"}
                      /\ workers'[w].opts.browsers \subseteq asked'
                      /\ workers'[w].pc = "spawned" => ~changed' \/ ~NoOrphan'
    BY <1>1, <1>4 DEF GuiWorkers
  <2>1. /\ G!Refused(workers[w].opts)' <=> G!Refused(workers[w].opts)
        /\ G!Relaunches(workers[w].opts)' <=> G!Relaunches(workers[w].opts)
    BY <1>1, <1>3 DEF G!Refused, G!Relaunches, G!needs_elevation, G!wants_extension_forcelist
  <2>2. /\ workers[w].pc \notin {"spawned", "over"} => ~G!Refused(workers[w].opts)
        /\ workers[w].orphan => tool /\ os # "windows"
        /\ workers[w].opts.browsers \subseteq asked
    BY DEF GuiWorkers, G!Orphan
  <2>3. ~G!Refused(workers[w].opts) /\ G!Relaunches(workers[w].opts) => tool /\ os # "windows"
    BY DEF G!Refused, G!Relaunches
  <2>4. (G!Works(w) /\ ~G!Orphan(w) => w = Len(workers))'
    BY <1>4, <1>5 DEF Quiet
  <2>5. workers'[w].pc \in {"child", "report", "force", "over"}
    BY <1>3
  <2>6. G!Orphan(w)' => tool /\ os # "windows"
    BY <1>3, <2>2, <2>3 DEF G!Orphan
  <2>7. workers'[w].pc \notin {"spawned", "over"} => ~G!Refused(workers[w].opts)'
    BY <1>3, <2>1, <2>2
  <2> QED  BY <1>1, <1>3, <2>2, <2>4, <2>5, <2>6, <2>7
<1>12. GuiBuilt'
  <2> SUFFICES ASSUME NoOrphan', page = "installing"
               PROVE  /\ full' \/ Queued("full")' \/ Queued("done")' => Complete'
                      /\ \A w \in DOMAIN workers' : ~G!Works(w)'
    BY <1>1 DEF GuiBuilt
  <2>1. \A k : ~Queued(k)'
    BY <1>1 DEF Queued
  <2>2. Complete' <=> Complete
    BY <1>1 DEF Complete, G!Chosen, G!NoList
  <2>3. full' => Complete'
    BY <1>1, <1>6, <2>2 DEF GuiBuilt
  <2>4. \A w \in DOMAIN workers' : ~G!Works(w)'
    BY <1>5 DEF Quiet, NoOrphan
  <2> QED  BY <2>1, <2>3, <2>4
<1> QED  BY <1>7, <1>8, <1>9, <1>10, <1>11, <1>12 DEF G!WizardHolds

LEMMA GuiReopens ==
  ASSUME GuiInvariant, G!Reopen
  PROVE  GuiInvariant'
<1> USE DEF GuiInvariant
<1>1. /\ ~open /\ open' = TRUE /\ page' = "components" /\ full' = FALSE /\ message' = ""
      /\ sel' \in [extension : BOOLEAN, extras : BOOLEAN]
      /\ found' = G!NoList /\ checked' = {} /\ known' = {} /\ detecting' = FALSE /\ off' = {}
      /\ cancelled' = FALSE
      /\ UNCHANGED <<G!host, toggles, runs, token, listening, workers, events, changed, asked>>
      /\ UNCHANGED <<system, os, elevated, tool, cli, extras, policy>>
  BY DEF G!Reopen, G!host, G!machine, G!AllOn
<1>2. Quiet' /\ (NoOrphan' <=> NoOrphan)
  BY <1>1 DEF GuiQuiet, Quiet, NoOrphan, G!Works, G!Orphan
<1>3. G!TypeOK'
  BY <1>1 DEF G!TypeOK, G!NoList
<1>4. \A k : ~Queued(k)'
  <2>1. events' = <<>>
    BY <1>1 DEF GuiTold
  <2> QED  BY <2>1 DEF Queued
<1>5. GuiTold' /\ GuiQuiet' /\ GuiList' /\ GuiBuilt'
  BY <1>1, <1>2, <1>4 DEF GuiTold, GuiQuiet, GuiList, GuiBuilt, G!NoList
<1>6. G!WizardHolds'
  BY <1>1 DEF G!WizardHolds, G!FinishMeansDone, G!PolicyWasAsked, G!RefusalIsClean, G!OneWorker,
     G!Works, G!Orphan
<1>7. GuiWorkers'
  BY <1>1, <1>2 DEF GuiWorkers, G!Works, G!Orphan, G!Refused, G!Relaunches, G!needs_elevation,
     G!wants_extension_forcelist
<1> QED  BY <1>3, <1>5, <1>6, <1>7

LEMMA GuiStutters ==
  ASSUME GuiInvariant, UNCHANGED G!vars
  PROVE  GuiInvariant'
<1> USE DEF GuiInvariant
<1>1. UNCHANGED <<os, elevated, system, tool, open, page, sel, found, checked, known, detecting,
                  runs, toggles, token, listening, full, message, cancelled, workers, events,
                  cli, extras, policy, changed, asked, off>>
  BY DEF G!vars, G!host, G!ui, G!machine
<1>2. G!TypeOK' /\ G!WizardHolds'
  BY <1>1 DEF G!TypeOK, G!WizardHolds, G!FinishMeansDone, G!PolicyWasAsked, G!RefusalIsClean,
     G!OneWorker, G!Works, G!Orphan, G!Chosen, G!NoList
<1>3. Quiet' = Quiet /\ NoOrphan' = NoOrphan
  BY <1>1 DEF Quiet, NoOrphan, G!Works, G!Orphan
<1>4. GuiWorkers'
  BY <1>1, <1>3 DEF GuiWorkers, G!Works, G!Orphan, G!Refused, G!Relaunches, G!needs_elevation,
     G!wants_extension_forcelist
<1>5. GuiQuiet' /\ GuiTold' /\ GuiList'
  BY <1>1, <1>3 DEF GuiQuiet, GuiTold, GuiList, Queued, G!NoList
<1>6. GuiBuilt'
  BY <1>1, <1>3 DEF GuiBuilt, Queued, Complete, G!Works, G!Request, G!Chosen, G!NoList
<1> QED  BY <1>2, <1>4, <1>5, <1>6

(* The wizard's promises, however often it is opened, closed and retried,  *)
(* with any browsers.                                                      *)
THEOREM WizardKeepsItsWord == Spec => []WizardHolds
<1>1. Init => (which = "gui" => GuiInvariant)
  BY GuiStarts DEF Init
<1>2. (which = "gui" => GuiInvariant) /\ [Next]_vars => (which = "gui" => GuiInvariant)'
  <2> SUFFICES ASSUME which = "gui" => GuiInvariant, [Next]_vars, which' = "gui"
               PROVE  GuiInvariant'
    OBVIOUS
  <2>1. which = "gui" /\ (G!Next \/ UNCHANGED G!vars)
    BY DEF Next, vars, G!vars, G!host, G!ui, G!machine
  <2>2. CASE G!Worker
    <3>1. UNCHANGED G!rest
      BY <2>2 DEF G!Worker
    <3>2. PICK w \in DOMAIN workers :
            \/ G!Start(w)  \/ G!Payload(w) \/ G!Unpack(w) \/ G!Fill(w)  \/ G!Around(w)
            \/ G!Verify(w) \/ G!Prompt(w)  \/ G!Child(w)  \/ G!Report(w) \/ G!Force(w)  \/ G!Done(w)
      BY <2>2 DEF G!Worker
    <3> QED  BY <2>1, <3>1, <3>2, GuiStart, GuiFiles, GuiVerify, GuiPrompt, GuiChild, GuiReport,
                GuiForce, GuiDone
  <2>3. CASE G!User
    BY <2>1, <2>3, GuiChecks, GuiTurns, GuiCloses, GuiReopens DEF G!User
  <2> QED  BY <2>1, <2>2, <2>3, GuiDelivers, GuiChecks, GuiStutters DEF G!Next
<1>3. (which = "gui" => GuiInvariant) => WizardHolds
  BY DEF GuiInvariant, WizardHolds
<1> QED  BY <1>1, <1>2, <1>3, PTL DEF Spec

------------------------------------------------------------------------------
(* Resolver.  The steps a run may still have before it.                    *)
RunSteps ==
  /\ report.op = "none" => todo = {}
  /\ report.op = "skip" => todo \subseteq {"wait"}
  /\ report.op = "install" => todo \subseteq {"stop_before", "replace", "wait"} \cup R!Install
  /\ report.op = "uninstall" => todo \subseteq R!Uninstall
  /\ report.op = "install" /\ "stop" \notin todo =>
       todo \subseteq {"unregister", "gone", "user", "alias", "register", "start", "configure",
                       "wait"}
  /\ report.op = "install" /\ "register" \notin todo =>
       todo \subseteq {"start", "configure", "wait"}

(* What holds whatever has failed: on Windows only what is registered     *)
(* runs, and without its program nothing is registered, or wired but where *)
(* taking the wiring back failed.                                          *)
Standing ==
  /\ report.op # "none" => run # 0
  /\ os = "windows" /\ R!Running => R!Registered
  /\ program = R!None => reg = R!None /\ (wired => stuck)
  /\ report.removed => report.op = "uninstall" /\ reg = R!None
  /\ report.op = "install" /\ "replace" \notin todo => program # R!None
  /\ report.op = "install" /\ "start" \in todo /\ "register" \notin todo => reg # R!None /\ ~leaving
  /\ report.op = "uninstall" /\ "unconfigure" \notin todo => (wired => stuck)

(* How far a run that installs, or one that uninstalls, has come where no  *)
(* call has failed.                                                        *)
Installing ==
  report.op = "install" /\ clean =>
    /\ program = R!None => ~R!Running
    /\ "replace" \notin todo => program = run
    /\ "stop_before" \notin todo => (R!Running => R!Registered)
    /\ os # "windows" /\ "stop" \notin todo /\ "register" \in todo =>
         ~R!Running /\ (held \/ ~R!Registered)
    /\ "register" \notin todo =>
         /\ reg = run /\ ~leaving
         /\ R!Running => proc = [program |-> run, settings |-> run]
    /\ os = "macos" /\ "alias" \notin todo => needs

Uninstalling ==
  report.op = "uninstall" /\ clean =>
    /\ "delete" \notin todo => reg = R!None
    /\ "lo0" \notin todo => ~lo0
    /\ "unconfigure" \notin todo => (wired => program = R!None)

ResolverInvariant == R!TypeOK /\ RunSteps /\ Standing /\ Installing /\ Uninstalling

(* No run asks for a restart before it has wired the resolver.             *)
Telling == (report.restart => "configure" \notin todo) /\ R!RestartTold

LEMMA ResolverPlaces ==
  /\ R!Place("stop_before") = 1 /\ R!Place("replace") = 2 /\ R!Place("exists") = 3
  /\ R!Place("stop") = 4 /\ R!Place("unregister") = 5 /\ R!Place("gone") = 6
  /\ R!Place("user") = 7 /\ R!Place("alias") = 8 /\ R!Place("register") = 9
  /\ R!Place("start") = 10 /\ R!Place("configure") = 11 /\ R!Place("wait") = 12
  /\ R!Place("halt") = 13 /\ R!Place("delete") = 14 /\ R!Place("lo0") = 15
  /\ R!Place("unconfigure") = 16 /\ R!Place("userdel") = 17 /\ R!Place("binaries") = 18
<1>1. DOMAIN R!Order = 1..18
  BY DEF R!Order
<1>2. /\ R!Order[1] = "stop_before" /\ R!Order[2] = "replace" /\ R!Order[3] = "exists"
      /\ R!Order[4] = "stop" /\ R!Order[5] = "unregister" /\ R!Order[6] = "gone"
      /\ R!Order[7] = "user" /\ R!Order[8] = "alias" /\ R!Order[9] = "register"
      /\ R!Order[10] = "start" /\ R!Order[11] = "configure" /\ R!Order[12] = "wait"
      /\ R!Order[13] = "halt" /\ R!Order[14] = "delete" /\ R!Order[15] = "lo0"
      /\ R!Order[16] = "unconfigure" /\ R!Order[17] = "userdel" /\ R!Order[18] = "binaries"
  BY DEF R!Order
<1>3. \A i, j \in 1..18 : R!Order[i] = R!Order[j] => i = j
  BY <1>2
<1>4. ASSUME NEW n \in 1..18, NEW one, R!Order[n] = one
      PROVE  R!Place(one) = n
  BY <1>1, <1>3, <1>4 DEF R!Place
<1> QED  BY <1>2, <1>4

(* A step is taken when those before it are behind.                        *)
LEMMA ResolverOrder ==
  /\ R!At("replace") => "stop_before" \notin todo
  /\ R!At("exists") => todo \cap {"stop_before", "replace"} = {}
  /\ R!At("stop") => todo \cap {"stop_before", "replace", "exists"} = {}
  /\ R!At("unregister") => todo \cap {"stop_before", "replace", "exists", "stop"} = {}
  /\ R!At("gone") => todo \cap {"stop_before", "replace", "exists", "stop", "unregister"} = {}
  /\ R!At("user") \/ R!At("alias") =>
       todo \cap {"stop_before", "replace", "exists", "stop", "unregister", "gone"} = {}
  /\ R!At("register") =>
       todo \cap {"stop_before", "replace", "exists", "stop", "unregister", "gone", "user",
                  "alias"} = {}
  /\ R!At("start") \/ R!At("configure") \/ R!At("wait") => "register" \notin todo
  /\ R!At("unconfigure") => todo \cap {"halt", "delete", "lo0"} = {}
  /\ R!At("binaries") => todo \cap {"halt", "delete", "lo0", "unconfigure", "userdel"} = {}
  /\ \A one : R!At(one) => one \in todo
BY ResolverPlaces DEF R!At

LEMMA ResolverShapes ==
  ASSUME R!TypeOK
  PROVE  /\ R!Install \subseteq {"exists", "stop", "unregister", "gone", "user", "alias",
                                 "register", "start", "configure"}
         /\ {"stop", "register", "configure"} \subseteq R!Install
         /\ os = "macos" => "alias" \in R!Install
         /\ R!Uninstall \subseteq {"halt", "delete", "lo0", "unconfigure", "userdel", "binaries"}
         /\ {"delete", "unconfigure"} \subseteq R!Uninstall
         /\ os = "macos" => "lo0" \in R!Uninstall
<1>1. os \in {"windows", "linux", "macos"}
  BY DEF R!TypeOK, R!Systems
<1> QED  BY <1>1 DEF R!Install, R!WindowsInstall, R!LinuxInstall, R!MacInstall, R!Uninstall,
            R!WindowsUninstall, R!LinuxUninstall, R!MacUninstall

(* Which run has a step before it.                                         *)
LEMMA ResolverSteps ==
  ASSUME ResolverInvariant
  PROVE  /\ todo \cap {"stop_before", "replace", "exists", "stop", "unregister", "gone", "user",
                       "alias", "register", "start", "configure"} # {} => report.op = "install"
         /\ todo \cap {"halt", "delete", "lo0", "unconfigure", "userdel", "binaries"} # {} =>
              report.op = "uninstall"
         /\ "wait" \in todo => report.op \in {"install", "skip"}
         /\ report.op \in {"none", "install", "skip", "uninstall"}
         /\ report.op = "uninstall" =>
              todo \cap {"stop_before", "replace", "exists", "stop", "unregister", "gone", "user",
                        "alias", "register", "start", "configure", "wait"} = {}
         /\ report.op = "install" =>
              todo \cap {"halt", "delete", "lo0", "unconfigure", "userdel", "binaries"} = {}
<1>1. report.op \in {"none", "install", "skip", "uninstall"}
  BY DEF ResolverInvariant, R!TypeOK
<1> QED  BY <1>1, ResolverShapes DEF ResolverInvariant, RunSteps

(* What the invariant says of a run that is over is what is promised.      *)
LEMMA ResolverEnds ==
  ASSUME ResolverInvariant, Telling
  PROVE  R!ResolverHolds
<1>1. R!InstallReplaces
  <2> SUFFICES ASSUME todo = {}, report.op = "install", clean
               PROVE  /\ reg = run /\ ~leaving /\ program = run
                      /\ R!Running => proc = R!Current
                      /\ os = "macos" => needs
    BY DEF R!InstallReplaces, R!Ended
  <2>1. /\ program = run /\ reg = run /\ ~leaving
        /\ R!Running => proc = [program |-> run, settings |-> run]
        /\ os = "macos" => needs
    BY DEF ResolverInvariant, Installing
  <2> QED  BY <2>1 DEF R!Current
<1>2. R!RestartTold
  BY DEF Telling
<1>3. R!UninstallClears
  <2> SUFFICES ASSUME todo = {}, report.op = "uninstall", clean
               PROVE  reg = R!None /\ ~lo0 /\ (wired => stuck /\ program = R!None)
    BY DEF R!UninstallClears, R!Ended, R!Registered
  <2>1. reg = R!None /\ ~lo0 /\ (wired => program = R!None)
    BY DEF ResolverInvariant, Uninstalling
  <2>2. program = R!None => (wired => stuck)
    BY DEF ResolverInvariant, Standing
  <2> QED  BY <2>1, <2>2
<1> QED  BY <1>1, <1>2, <1>3 DEF R!ResolverHolds

(* What is remembered of the restarts asked for changes with few steps.    *)
LEMMA ResolverMarks ==
  ASSUME R!TypeOK, R!Next \/ UNCHANGED R!vars
  PROVE  told' \in BOOLEAN /\ lost' \in BOOLEAN
<1>1. told \in BOOLEAN /\ lost \in BOOLEAN
  BY DEF R!TypeOK
<1>2. \/ told' = told \/ told' = (told \/ report.restart) \/ told' = FALSE
  BY DEF R!Next, R!vars, R!resolver, R!Begin, R!StopBeforeReplace, R!Replace, R!Exists, R!Stop,
         R!Unregister, R!WaitForRemoval, R!EnsureUser, R!EnsureAlias, R!Register, R!Start,
         R!Configure, R!Wait, R!BeginUninstall, R!Delete, R!RemoveLo0, R!Unconfigure,
         R!RemoveUser, R!DeleteProgram, R!DeletionEnds, R!ServiceEnds, R!ServiceStarts,
         R!Restart, R!Crash
<1>3. \/ lost' = lost \/ lost' = (lost \/ report.restart) \/ lost' = (lost \/ wired' # wired)
      \/ lost' = FALSE
  BY DEF R!Next, R!vars, R!resolver, R!Begin, R!StopBeforeReplace, R!Replace, R!Exists, R!Stop,
         R!Unregister, R!WaitForRemoval, R!EnsureUser, R!EnsureAlias, R!Register, R!Start,
         R!Configure, R!Wait, R!BeginUninstall, R!Delete, R!RemoveLo0, R!Unconfigure,
         R!RemoveUser, R!DeleteProgram, R!DeletionEnds, R!ServiceEnds, R!ServiceStarts,
         R!Restart, R!Crash
<1>4. (told \/ report.restart) \in BOOLEAN /\ (lost \/ report.restart) \in BOOLEAN
      /\ (lost \/ wired' # wired) \in BOOLEAN
  OBVIOUS
<1> QED  BY <1>1, <1>2, <1>3, <1>4, Zenon

(* The types of what a step leaves alone, and of what it changes.          *)
LEMMA ResolverTypes ==
  ASSUME R!TypeOK, R!Next \/ UNCHANGED R!vars, run' \in 0..ResolverRuns, run <= run', os' = os,
         program' \in 0..run', reg' \in 0..run', leaving' \in BOOLEAN, held' \in BOOLEAN,
         needs' \in BOOLEAN, lo0' \in BOOLEAN, wired' \in BOOLEAN, live' \in BOOLEAN,
         stuck' \in BOOLEAN, clean' \in BOOLEAN,
         leaving' => os = "windows" /\ reg' # R!None, lo0' => lo0, live' => wired',
         proc' \in {proc, R!Down} \/ (proc'.program \in 1..run' /\ proc'.settings \in 1..run'),
         report' \in [op: {"none", "install", "skip", "uninstall"}, installed: BOOLEAN,
                      running: BOOLEAN, restart: BOOLEAN, removed: BOOLEAN]
  PROVE  R!TypeOK'
<1>1. proc' = R!Down \/ (proc'.program \in 1..run' /\ proc'.settings \in 1..run')
  <2>1. CASE proc' = proc
    <3>1. proc = R!Down \/ (proc.program \in 1..run /\ proc.settings \in 1..run)
      BY DEF R!TypeOK
    <3>2. 1..run \subseteq 1..run'
      BY DEF R!TypeOK
    <3> QED  BY <2>1, <3>1, <3>2
  <2> QED  BY <2>1
<1>2. {held', needs', lo0', leaving', wired', live', stuck', clean', told', lost'}
        \subseteq BOOLEAN
  BY ResolverMarks
<1>3. os' \in R!Systems /\ (lo0' => os' = "macos")
  BY DEF R!TypeOK
<1>4. (R!Down)' = R!Down
  BY DEF R!Down
<1> QED  BY <1>1, <1>2, <1>3, <1>4 DEF R!TypeOK

(* What the types say of each variable.                                    *)
LEMMA ResolverTyped ==
  ASSUME R!TypeOK
  PROVE  /\ os \in {"windows", "linux", "macos"} /\ run \in 0..ResolverRuns /\ run <= run
         /\ run \in Nat /\ R!None \in 0..run
         /\ program \in 0..run /\ reg \in 0..run
         /\ leaving \in BOOLEAN /\ held \in BOOLEAN /\ needs \in BOOLEAN /\ lo0 \in BOOLEAN
         /\ wired \in BOOLEAN /\ live \in BOOLEAN /\ stuck \in BOOLEAN /\ clean \in BOOLEAN
         /\ leaving => os = "windows" /\ reg # R!None
         /\ lo0 => os = "macos"
         /\ live => wired
         /\ proc = R!Down \/ (proc.program \in 1..run /\ proc.settings \in 1..run)
         /\ report \in [op: {"none", "install", "skip", "uninstall"}, installed: BOOLEAN,
                        running: BOOLEAN, restart: BOOLEAN, removed: BOOLEAN]
<1>1. /\ leaving \in BOOLEAN /\ held \in BOOLEAN /\ needs \in BOOLEAN /\ lo0 \in BOOLEAN
      /\ wired \in BOOLEAN /\ live \in BOOLEAN /\ stuck \in BOOLEAN /\ clean \in BOOLEAN
  BY DEF R!TypeOK
<1>2. run \in 0..ResolverRuns /\ run \in Nat
  BY NatBounds DEF R!TypeOK
<1>3. R!None \in 0..run /\ run <= run
  BY <1>2 DEF R!None
<1> QED  BY <1>1, <1>2, <1>3 DEF R!TypeOK, R!Systems

LEMMA ResolverStarts ==
  ASSUME R!Init
  PROVE  ResolverInvariant
<1>1. report.op = "none" /\ report.removed = FALSE
  BY DEF R!Init, R!Says
<1>2. report \in [op: {"none", "install", "skip", "uninstall"}, installed: BOOLEAN,
                  running: BOOLEAN, restart: BOOLEAN, removed: BOOLEAN]
  BY DEF R!Init, R!Says
<1>3. lo0 \in BOOLEAN /\ (lo0 => os = "macos") /\ needs \in BOOLEAN
  BY DEF R!Init
<1>4. {held, needs, lo0, leaving, wired, live, stuck, clean, told, lost} \subseteq BOOLEAN
  BY <1>3 DEF R!Init
<1>5. run \in 0..ResolverRuns /\ program \in 0..run /\ reg \in 0..run
  BY NatBounds DEF R!Init, R!None
<1>6. R!TypeOK
  BY <1>2, <1>3, <1>4, <1>5 DEF R!Init, R!TypeOK
<1> QED  BY <1>1, <1>6 DEF R!Init, ResolverInvariant, RunSteps, Standing, Installing, Uninstalling,
            R!Running

LEMMA ResolverSurroundings ==
  ASSUME ResolverInvariant, R!DeletionEnds \/ R!ServiceEnds \/ R!ServiceStarts
  PROVE  ResolverInvariant'
<1> USE DEF ResolverInvariant
<1>1. UNCHANGED <<os, run, program, todo, needs, lo0, wired, live, stuck, clean, report>>
  BY DEF R!DeletionEnds, R!ServiceEnds, R!ServiceStarts, R!this, R!resolver
<1>2. RunSteps'
  BY <1>1 DEF RunSteps, R!Install, R!Uninstall, R!WindowsInstall, R!LinuxInstall, R!MacInstall,
     R!WindowsUninstall, R!LinuxUninstall, R!MacUninstall
<1>3. CASE R!DeletionEnds
  <2>1. leaving /\ ~R!Running /\ leaving' = FALSE /\ reg' = R!None /\ UNCHANGED <<held, proc>>
    BY <1>3 DEF R!DeletionEnds
  <2>2. R!TypeOK'
    <3>1. reg' \in 0..run' /\ leaving' \in BOOLEAN /\ ~leaving'
      BY <1>1, <2>1, ResolverTyped
    <3>2. held' \in BOOLEAN /\ proc' \in {proc, R!Down}
      BY <2>1, ResolverTyped
    <3> QED  BY <1>1, <3>1, <3>2, ResolverTyped, ResolverTypes DEF R!Next
  <2>3. ~R!Running' /\ Standing' /\ Uninstalling'
    BY <1>1, <2>1 DEF Standing, Uninstalling, R!Running, R!Down
  <2>4. Installing'
    BY <1>1, <2>1, <2>3, ResolverTyped DEF Installing, R!Registered
  <2> QED  BY <1>2, <2>2, <2>3, <2>4
<1>4. CASE R!ServiceEnds
  <2>1. proc' = R!Down /\ UNCHANGED <<reg, leaving, held>>
    BY <1>4 DEF R!ServiceEnds
  <2>2. R!TypeOK'
    BY <1>1, <2>1, ResolverTyped, ResolverTypes DEF R!Next
  <2>3. Standing' /\ Installing' /\ Uninstalling'
    BY <1>1, <2>1 DEF Standing, Installing, Uninstalling, R!Running, R!Registered, R!Down
  <2> QED  BY <1>2, <2>2, <2>3
<1>5. CASE R!ServiceStarts
  <2>1. /\ ~R!Running /\ R!Registered /\ ~leaving /\ ~held /\ program # R!None
        /\ proc' = [program |-> program, settings |-> reg] /\ UNCHANGED <<reg, leaving, held>>
    BY <1>5 DEF R!ServiceStarts, R!Current
  <2>2. R!TypeOK'
    <3>1. program \in 1..run /\ reg \in 1..run
      BY <2>1, ResolverTyped DEF R!Registered, R!None
    <3>2. proc'.program \in 1..run' /\ proc'.settings \in 1..run'
      BY <1>1, <2>1, <3>1
    <3> QED  BY <1>1, <2>1, <3>2, ResolverTyped, ResolverTypes DEF R!Next
  <2>3. Standing'
    BY <1>1, <2>1 DEF Standing, R!Registered, R!Running, R!Down
  <2>4. Installing'
    <3> SUFFICES ASSUME report'.op = "install", clean'
                 PROVE  Installing'
      BY DEF Installing
    <3>1. report.op = "install" /\ clean /\ R!Registered'
      BY <1>1, <2>1 DEF R!Registered
    <3>2. "register" \notin todo => program = run /\ reg = run
      BY <3>1, ResolverOrder DEF Installing, RunSteps
    <3> QED  BY <1>1, <2>1, <3>1, <3>2 DEF Installing, R!Registered
  <2>5. Uninstalling'
    BY <1>1, <2>1 DEF Uninstalling
  <2> QED  BY <1>2, <2>2, <2>3, <2>4, <2>5
<1> QED  BY <1>3, <1>4, <1>5

(* The end of a run, but for the machine's restart all stays as it is.     *)
LEMMA ResolverStops ==
  ASSUME ResolverInvariant, R!Restart \/ R!Crash
  PROVE  ResolverInvariant'
<1> USE DEF ResolverInvariant
<1>1. /\ UNCHANGED <<os, run, program, lo0, wired, stuck, clean>> /\ todo' = {}
      /\ report' = R!Says("none")
  BY DEF R!Restart, R!Crash, R!this, R!resolver, R!service
<1>2. /\ report'.op = "none" /\ ~report'.removed
      /\ report' \in [op: {"none", "install", "skip", "uninstall"}, installed: BOOLEAN,
                      running: BOOLEAN, restart: BOOLEAN, removed: BOOLEAN]
  BY <1>1 DEF R!Says
<1>3. CASE R!Restart
  <2>1. /\ reg' = IF leaving THEN R!None ELSE reg
        /\ leaving' = FALSE /\ held' = FALSE /\ proc' = R!Down /\ live' = wired
        /\ needs' = IF os = "macos" THEN wired \/ lo0 ELSE needs
    BY <1>3 DEF R!Restart
  <2>2. R!TypeOK'
    <3>1. needs' \in BOOLEAN
      <4>1. CASE os = "macos"
        <5>1. needs' = (wired \/ lo0)
          BY <2>1, <4>1
        <5> QED  BY <5>1
      <4> QED  BY <2>1, <4>1, ResolverTyped
    <3>2. reg' \in 0..run
      BY <2>1, ResolverTyped
    <3> QED  BY <1>1, <1>2, <2>1, <3>1, <3>2, ResolverTyped, ResolverTypes DEF R!Next
  <2> QED  BY <1>1, <1>2, <2>1, <2>2 DEF RunSteps, Standing, Installing, Uninstalling, R!Running,
              R!Registered, R!Down
<1>4. CASE R!Crash
  <2>1. UNCHANGED <<reg, leaving, held, proc, needs, live>>
    BY <1>4 DEF R!Crash, R!service, R!resolver
  <2>2. R!TypeOK'
    BY <1>1, <1>2, <2>1, ResolverTyped, ResolverTypes DEF R!Next
  <2> QED  BY <1>1, <1>2, <2>1, <2>2 DEF RunSteps, Standing, Installing, Uninstalling, R!Running,
              R!Registered, R!Down
<1> QED  BY <1>3, <1>4

(* A step that is done leaves a run's steps in their order.                *)
LEMMA ResolverProgress ==
  ASSUME ResolverInvariant, NEW one, R!Done(one), os' = os, report'.op = report.op
  PROVE  RunSteps' /\ todo' = todo \ {one} /\ R!At(one) /\ one \in todo
<1>1. R!Install' = R!Install /\ R!Uninstall' = R!Uninstall
  BY DEF R!Install, R!Uninstall, R!WindowsInstall, R!LinuxInstall, R!MacInstall,
     R!WindowsUninstall, R!LinuxUninstall, R!MacUninstall
<1>2. todo' = todo \ {one} /\ R!At(one) /\ one \in todo
  BY DEF R!Done, R!Without, R!At
<1>3. ASSUME report.op = "install", "stop" \notin todo'
      PROVE  todo' \subseteq {"unregister", "gone", "user", "alias", "register", "start",
                              "configure", "wait"}
  <2>1. CASE one = "stop"
    BY <1>2, <1>3, <2>1, ResolverOrder, ResolverShapes DEF ResolverInvariant, RunSteps
  <2>2. CASE one # "stop"
    BY <1>2, <1>3, <2>2 DEF ResolverInvariant, RunSteps
  <2> QED  BY <2>1, <2>2
<1>4. ASSUME report.op = "install", "register" \notin todo'
      PROVE  todo' \subseteq {"start", "configure", "wait"}
  <2>1. CASE one = "register"
    BY <1>2, <1>4, <2>1, ResolverOrder, ResolverShapes DEF ResolverInvariant, RunSteps
  <2>2. CASE one # "register"
    BY <1>2, <1>4, <2>2 DEF ResolverInvariant, RunSteps
  <2> QED  BY <2>1, <2>2
<1>5. /\ report'.op = "none" => todo' = {}
      /\ report'.op = "skip" => todo' \subseteq {"wait"}
      /\ report'.op = "install" =>
           todo' \subseteq {"stop_before", "replace", "wait"} \cup R!Install'
      /\ report'.op = "uninstall" => todo' \subseteq R!Uninstall'
  BY <1>1, <1>2 DEF ResolverInvariant, RunSteps
<1> QED  BY <1>2, <1>3, <1>4, <1>5 DEF RunSteps

LEMMA ResolverBegin ==
  ASSUME ResolverInvariant, R!Begin
  PROVE  ResolverInvariant'
<1>1. /\ todo = {} /\ run < ResolverRuns /\ run' = run + 1
      /\ clean' = ~(program = R!None /\ R!Running)
      /\ UNCHANGED <<os, program, reg, leaving, held, proc, needs, lo0, wired, live, stuck>>
  BY DEF R!Begin, R!service, R!resolver
<1>2. R!TypeOK /\ R!Running' = R!Running /\ R!Install' = R!Install
  BY <1>1 DEF ResolverInvariant, R!Running, R!Down, R!Install, R!WindowsInstall, R!LinuxInstall,
     R!MacInstall
<1>3. /\ \/ /\ report' = R!Says("install")
            /\ todo' \subseteq {"stop_before", "replace", "wait"} \cup R!Install
            /\ {"stop_before", "replace"} \cup (R!Install \ {"start"}) \subseteq todo'
         \/ report' = R!Says("skip") /\ todo' \subseteq {"wait"}
  <2> PICK start \in BOOLEAN :
        \/ /\ todo' = ({"stop_before", "replace", "wait"} \cup R!Install)
                        \ (IF start THEN {} ELSE {"start", "wait"})
           /\ report' = R!Says("install")
        \/ /\ program # R!None
           /\ todo' = (IF start THEN {"wait"} ELSE {})
           /\ report' = R!Says("skip")
    BY DEF R!Begin
  <2>1. CASE start
    BY <2>1
  <2>2. CASE ~start
    <3>1. "wait" \notin R!Install
      BY <1>2, ResolverShapes
    <3> QED  BY <2>2, <3>1
  <2> QED  BY <2>1, <2>2
<1>4. /\ ~report'.removed /\ report'.op \in {"install", "skip"}
      /\ report' \in [op: {"none", "install", "skip", "uninstall"}, installed: BOOLEAN,
                      running: BOOLEAN, restart: BOOLEAN, removed: BOOLEAN]
  <2>1. CASE report' = R!Says("install")
    BY <2>1 DEF R!Says
  <2>2. CASE report' = R!Says("skip")
    BY <2>2 DEF R!Says
  <2> QED  BY <1>3, <2>1, <2>2
<1>5. report'.op = "install" =>
        /\ todo' \subseteq {"stop_before", "replace", "wait"} \cup R!Install
        /\ {"stop_before", "replace", "stop", "register", "configure"} \subseteq todo'
        /\ os = "macos" => "alias" \in todo'
  BY <1>2, <1>3, ResolverShapes DEF R!Says
<1>6. report'.op = "skip" => todo' \subseteq {"wait"}
  BY <1>3 DEF R!Says
<1>7. run' \in 0..ResolverRuns /\ run <= run' /\ run' # 0 /\ 0..run \subseteq 0..run'
  BY <1>1, <1>2, NatBounds, ResolverTyped
<1>8. R!TypeOK'
  <2>1. /\ clean' \in BOOLEAN /\ leaving' \in BOOLEAN /\ held' \in BOOLEAN /\ needs' \in BOOLEAN
        /\ lo0' \in BOOLEAN /\ wired' \in BOOLEAN /\ live' \in BOOLEAN /\ stuck' \in BOOLEAN
    BY <1>1, <1>2, ResolverTyped
  <2>2. program' \in 0..run' /\ reg' \in 0..run'
    BY <1>1, <1>2, <1>7, ResolverTyped
  <2>3. /\ leaving' => os = "windows" /\ reg' # R!None
        /\ lo0' => lo0
        /\ live' => wired'
    BY <1>1, <1>2, ResolverTyped
  <2> QED  BY <1>1, <1>2, <1>4, <1>7, <2>1, <2>2, <2>3, ResolverTypes DEF R!Next
<1>9. RunSteps'
  BY <1>2, <1>4, <1>5, <1>6 DEF RunSteps
<1>10. Standing'
  BY <1>1, <1>2, <1>4, <1>5, <1>7 DEF ResolverInvariant, Standing, R!Registered
<1>11. Installing' /\ Uninstalling'
  BY <1>1, <1>2, <1>4, <1>5 DEF Installing, Uninstalling
<1> QED  BY <1>8, <1>9, <1>10, <1>11 DEF ResolverInvariant

LEMMA ResolverLeaves ==
  ASSUME ResolverInvariant, R!BeginUninstall
  PROVE  ResolverInvariant'
<1>1. /\ todo = {} /\ run < ResolverRuns /\ run' = run + 1 /\ clean' = TRUE
      /\ todo' = R!Uninstall /\ report' = R!Says("uninstall")
      /\ UNCHANGED <<os, program, reg, leaving, held, proc, needs, lo0, wired, live, stuck>>
  BY DEF R!BeginUninstall, R!service, R!resolver
<1>2. R!TypeOK /\ R!Running' = R!Running /\ R!Uninstall' = R!Uninstall
  BY <1>1 DEF ResolverInvariant, R!Running, R!Down, R!Uninstall, R!WindowsUninstall,
     R!LinuxUninstall, R!MacUninstall
<1>3. /\ ~report'.removed /\ report'.op = "uninstall"
      /\ report' \in [op: {"none", "install", "skip", "uninstall"}, installed: BOOLEAN,
                      running: BOOLEAN, restart: BOOLEAN, removed: BOOLEAN]
  BY <1>1 DEF R!Says
<1>4. run' \in 0..ResolverRuns /\ run <= run' /\ run' # 0 /\ 0..run \subseteq 0..run'
  BY <1>1, <1>2, NatBounds, ResolverTyped
<1>5. R!TypeOK'
  <2>1. /\ clean' \in BOOLEAN /\ leaving' \in BOOLEAN /\ held' \in BOOLEAN /\ needs' \in BOOLEAN
        /\ lo0' \in BOOLEAN /\ wired' \in BOOLEAN /\ live' \in BOOLEAN /\ stuck' \in BOOLEAN
    BY <1>1, <1>2, ResolverTyped
  <2>2. program' \in 0..run' /\ reg' \in 0..run'
    BY <1>1, <1>2, <1>4, ResolverTyped
  <2>3. /\ leaving' => os = "windows" /\ reg' # R!None
        /\ lo0' => lo0
        /\ live' => wired'
    BY <1>1, <1>2, ResolverTyped
  <2> QED  BY <1>1, <1>2, <1>3, <1>4, <2>1, <2>2, <2>3, ResolverTypes DEF R!Next
<1>6. RunSteps'
  BY <1>1, <1>2, <1>3 DEF RunSteps
<1>7. {"delete", "unconfigure"} \subseteq todo' /\ ("lo0" \notin todo' => ~lo0)
  BY <1>1, <1>2, ResolverShapes, ResolverTyped
<1>8. Standing'
  BY <1>1, <1>2, <1>3, <1>4, <1>7 DEF ResolverInvariant, Standing, R!Registered
<1>9. Installing' /\ Uninstalling'
  BY <1>1, <1>3, <1>7 DEF Installing, Uninstalling
<1> QED  BY <1>5, <1>6, <1>8, <1>9 DEF ResolverInvariant

(* The steps of a run that installs.                                       *)
LEMMA ResolverStopBefore ==
  ASSUME ResolverInvariant, R!StopBeforeReplace
  PROVE  ResolverInvariant'
<1>1. /\ R!Done("stop_before")
      /\ UNCHANGED <<os, run, program, reg, leaving, needs, lo0, wired, live, stuck, report>>
  BY DEF R!StopBeforeReplace, R!Stopped, R!this, R!resolver, R!service
<1>2. RunSteps' /\ todo' = todo \ {"stop_before"} /\ "stop_before" \in todo
  BY <1>1, ResolverProgress
<1>3. report.op = "install" /\ R!TypeOK
  BY <1>2, ResolverSteps DEF ResolverInvariant
<1>4. /\ clean' \in {clean, FALSE} /\ held' \in BOOLEAN
      /\ proc' = proc \/ proc' = R!Down
      /\ clean' => (program = R!None => proc' = R!Down \/ ~R!Running)
      /\ clean' => proc' = R!Down \/ os = "windows" \/ ~R!Running \/ program = R!None
  <2>1. held \in BOOLEAN /\ (os # "macos") \in BOOLEAN
    BY <1>3, ResolverTyped
  <2> QED  BY <2>1, <1>1, <1>3 DEF R!StopBeforeReplace, R!Stopped, R!Works, R!Fails, R!service,
              ResolverInvariant, Installing
<1>5. R!TypeOK'
  <2>1. clean' \in BOOLEAN /\ leaving' \in BOOLEAN
    BY <1>1, <1>3, <1>4, ResolverTyped
  <2> QED  BY <1>1, <1>3, <1>4, <2>1, ResolverTyped, ResolverTypes DEF R!Next
<1>6. R!Running' => R!Running /\ proc' = proc
  BY <1>4 DEF R!Running, R!Down
<1>7. "replace" \in todo \/ program # R!None
  BY <1>3 DEF ResolverInvariant, Standing
<1>8. Standing'
  BY <1>1, <1>2, <1>3, <1>6 DEF ResolverInvariant, Standing, R!Registered
<1>9. ASSUME clean' PROVE Installing'
  <2>1. clean
    BY <1>3, <1>4, <1>9, ResolverTyped
  <2>2. R!Running' => R!Registered'
    BY <1>1, <1>3, <1>4, <1>6, <1>9, <2>1 DEF ResolverInvariant, Installing, Standing, R!Registered,
       R!Running, R!Down
  <2>3. "stop" \in todo' /\ "register" \in todo'
    BY <1>2, <1>3 DEF ResolverInvariant, RunSteps
  <2> QED  BY <1>1, <1>2, <1>3, <1>6, <1>7, <2>1, <2>2, <2>3 DEF ResolverInvariant, Installing
<1>10. Installing' /\ Uninstalling'
  BY <1>1, <1>3, <1>9 DEF Installing, Uninstalling
<1> QED  BY <1>2, <1>5, <1>8, <1>10 DEF ResolverInvariant

LEMMA ResolverReplaces ==
  ASSUME ResolverInvariant, R!Replace
  PROVE  ResolverInvariant'
<1>1. /\ R!Done("replace")
      /\ UNCHANGED <<os, run, reg, leaving, held, proc, needs, lo0, wired, live, stuck, report>>
      /\ \/ os = "windows" /\ R!Running /\ program' = program /\ clean' = FALSE
         \/ ~(os = "windows" /\ R!Running) /\ program' = run /\ clean' = clean
  BY DEF R!Replace, R!resolver, R!service, R!Works, R!Fails
<1>2. RunSteps' /\ todo' = todo \ {"replace"} /\ R!At("replace") /\ "replace" \in todo
  BY <1>1, ResolverProgress
<1>3. report.op = "install" /\ R!TypeOK /\ "stop_before" \notin todo /\ run # R!None
  BY <1>2, ResolverSteps, ResolverOrder DEF ResolverInvariant, Standing, R!None
<1>4. program' \in 0..run /\ program' # R!None
  BY <1>1, <1>3, ResolverTyped DEF ResolverInvariant, Standing, R!Registered, R!None
<1>5. R!TypeOK'
  <2>1. /\ clean' \in BOOLEAN /\ leaving' \in BOOLEAN /\ held' \in BOOLEAN /\ needs' \in BOOLEAN
        /\ lo0' \in BOOLEAN /\ wired' \in BOOLEAN /\ live' \in BOOLEAN /\ stuck' \in BOOLEAN
    BY <1>1, <1>3, ResolverTyped
  <2> QED  BY <1>1, <1>3, <1>4, <2>1, ResolverTyped, ResolverTypes DEF R!Next
<1>6. R!Running' = R!Running
  BY <1>1 DEF R!Running, R!Down
<1>7. "register" \in todo' /\ "stop" \in todo'
  BY <1>2, <1>3 DEF ResolverInvariant, RunSteps
<1>8. Standing'
  BY <1>1, <1>3, <1>4, <1>6, <1>7 DEF ResolverInvariant, Standing, R!Registered
<1>9. ASSUME clean' PROVE Installing'
  <2>1. clean /\ program' = run
    BY <1>1, <1>9
  <2> QED  BY <1>1, <1>2, <1>3, <1>4, <1>6, <1>7, <2>1 DEF ResolverInvariant, Installing,
              R!Registered
<1>10. Installing' /\ Uninstalling'
  BY <1>1, <1>3, <1>9 DEF Installing, Uninstalling
<1> QED  BY <1>2, <1>5, <1>8, <1>10 DEF ResolverInvariant

LEMMA ResolverAsks ==
  ASSUME ResolverInvariant, R!Exists
  PROVE  ResolverInvariant'
<1>1. /\ R!At("exists")
      /\ UNCHANGED <<os, run, program, reg, leaving, held, proc, needs, lo0, wired, live, stuck,
                     clean, report>>
      /\ \/ R!Registered /\ todo' = todo \ {"exists"}
         \/ ~R!Registered /\ todo' = todo \ {"exists", "stop", "unregister", "gone"}
  BY DEF R!Exists, R!Without, R!this, R!resolver, R!service
<1>2. "exists" \in todo /\ todo \cap {"stop_before", "replace"} = {}
  BY <1>1, ResolverOrder
<1>3. report.op = "install" /\ R!TypeOK /\ "register" \in todo /\ "stop" \in todo
  BY <1>2, ResolverSteps DEF ResolverInvariant, RunSteps
<1>4. R!TypeOK'
  BY <1>1, <1>3, ResolverTyped, ResolverTypes DEF R!Next
<1>5. R!Running' = R!Running /\ R!Registered' = R!Registered /\ R!Install' = R!Install
  BY <1>1 DEF R!Running, R!Down, R!Registered, R!Install, R!WindowsInstall, R!LinuxInstall,
     R!MacInstall
<1>6. RunSteps'
  <2>1. todo' \subseteq R!Install' \cup {"wait"} /\ "register" \in todo'
    BY <1>1, <1>2, <1>3, <1>5 DEF ResolverInvariant, RunSteps
  <2>2. "stop" \notin todo' => todo' \subseteq {"unregister", "gone", "user", "alias", "register",
                                                "start", "configure", "wait"}
    BY <1>1, <1>3, <1>5, <2>1, ResolverShapes
  <2> QED  BY <1>1, <1>3, <2>1, <2>2 DEF RunSteps
<1>7. Standing'
  BY <1>1, <1>2, <1>3, <1>5 DEF ResolverInvariant, Standing
<1>8. Installing'
  BY <1>1, <1>2, <1>3, <1>5 DEF ResolverInvariant, Installing
<1>9. Uninstalling'
  BY <1>1, <1>3 DEF Uninstalling
<1> QED  BY <1>4, <1>6, <1>7, <1>8, <1>9 DEF ResolverInvariant

(* Told to stop, only a Windows service may still run.                     *)
LEMMA ResolverHalts ==
  ASSUME ResolverInvariant, R!Stop
  PROVE  ResolverInvariant'
<1>1. /\ R!Done("stop") \/ R!Done("halt")
      /\ UNCHANGED <<os, run, program, reg, leaving, needs, lo0, wired, live, stuck, report>>
  BY DEF R!Stop, R!Stopped, R!BootedOut, R!this, R!resolver, R!service
<1>2. PICK one \in {"stop", "halt"} : R!Done(one)
  BY <1>1
<1>3. RunSteps' /\ todo' = todo \ {one} /\ R!At(one) /\ one \in todo
  <2>1. R!Done(one) /\ os' = os /\ report'.op = report.op
    BY <1>1, <1>2
  <2> QED  BY <2>1, ResolverProgress
<1>4. R!TypeOK
  BY DEF ResolverInvariant
<1>5. R!Done("stop") => one = "stop"
  BY <1>3, ResolverPlaces DEF R!Done, R!At, R!Without
<1>6. /\ proc' = proc \/ proc' = R!Down
      /\ held' \in BOOLEAN /\ clean' \in {clean, FALSE}
      /\ clean' /\ os # "windows" => proc' = R!Down
      /\ clean' /\ one = "stop" /\ os # "windows" => held'
  <2>1. held \in BOOLEAN /\ clean \in BOOLEAN /\ (os # "macos") \in BOOLEAN
    BY <1>4, ResolverTyped
  <2>2. CASE R!Done("stop") /\ (IF os = "macos" THEN R!BootedOut ELSE R!Stopped) /\ R!Works
    BY <2>1, <2>2 DEF R!BootedOut, R!Stopped, R!Works
  <2>3. CASE R!Done("halt") /\ R!Stopped /\ R!Works
    <3>1. one = "halt"
      BY <1>3, <2>3, ResolverPlaces DEF R!Done, R!At
    <3> QED  BY <2>1, <2>3, <3>1 DEF R!Stopped, R!Works
  <2>4. CASE UNCHANGED R!service /\ R!Fails
    BY <2>1, <2>4 DEF R!service, R!Fails
  <2> QED  BY <2>2, <2>3, <2>4 DEF R!Stop
<1>7. R!TypeOK'
  <2>1. clean' \in BOOLEAN /\ leaving' \in BOOLEAN
    BY <1>1, <1>4, <1>6, ResolverTyped
  <2> QED  BY <1>1, <1>4, <1>6, <2>1, ResolverTyped, ResolverTypes DEF R!Next
<1>8. (R!Running' => R!Running) /\ R!Registered' = R!Registered
      /\ (proc' = R!Down => ~R!Running')
  BY <1>1, <1>6 DEF R!Running, R!Down, R!Registered
<1>9. \/ report.op = "install" /\ "register" \in todo /\ "replace" \notin todo
      \/ report.op = "uninstall"
  <2>1. one \in todo
    BY <1>3
  <2>2. CASE one = "stop"
    <3>1. report.op = "install" /\ "replace" \notin todo
      BY <1>3, <2>2, ResolverSteps, ResolverOrder
    <3> QED  BY <2>1, <2>2, <3>1 DEF ResolverInvariant, RunSteps
  <2>3. CASE one = "halt"
    BY <2>1, <2>3, ResolverSteps
  <2> QED  BY <2>2, <2>3
<1>10. Standing'
  BY <1>1, <1>3, <1>8, <1>9 DEF ResolverInvariant, Standing
<1>11. ASSUME clean', report.op = "install" PROVE Installing'
  <2>1. clean /\ one = "stop"
    BY <1>3, <1>4, <1>6, <1>11, ResolverTyped, ResolverSteps
  <2> QED  BY <1>1, <1>3, <1>6, <1>8, <1>9, <1>11, <2>1 DEF ResolverInvariant, Installing
<1>12. ASSUME clean', report.op = "uninstall" PROVE Uninstalling'
  <2>1. clean /\ one = "halt"
    BY <1>3, <1>4, <1>6, <1>12, ResolverTyped, ResolverSteps
  <2> QED  BY <1>1, <1>3, <2>1 DEF ResolverInvariant, Uninstalling
<1>13. Installing' /\ Uninstalling'
  BY <1>1, <1>11, <1>12 DEF Installing, Uninstalling
<1> QED  BY <1>3, <1>7, <1>10, <1>13 DEF ResolverInvariant

LEMMA ResolverUnregisters ==
  ASSUME ResolverInvariant, R!Unregister
  PROVE  ResolverInvariant'
<1>1. /\ R!Done("unregister")
      /\ UNCHANGED <<os, run, program, held, needs, lo0, wired, live, stuck, report>>
  BY DEF R!Unregister, R!Unregistered, R!this, R!resolver, R!service
<1>2. RunSteps' /\ todo' = todo \ {"unregister"} /\ R!At("unregister") /\ "unregister" \in todo
  BY <1>1, ResolverProgress
<1>3. /\ report.op = "install" /\ R!TypeOK /\ "register" \in todo
      /\ todo \cap {"stop_before", "replace", "stop"} = {}
  BY <1>2, ResolverSteps, ResolverOrder DEF ResolverInvariant, RunSteps
<1>4. /\ proc' = proc \/ proc' = R!Down
      /\ \/ reg' = reg /\ leaving' \in {leaving, TRUE}
            /\ (leaving' => leaving \/ (os = "windows" /\ reg # R!None))
         \/ reg' = R!None /\ leaving' = FALSE /\ (os = "windows" => ~R!Running)
      /\ clean' \in {clean, FALSE}
  <2>1. CASE R!Unregistered /\ R!Works
    <3>1. /\ proc' = proc \/ proc' = R!Down
          /\ \/ os = "windows" /\ reg # R!None /\ leaving' = TRUE /\ reg' = reg
             \/ reg' = R!None /\ leaving' = FALSE /\ (os = "windows" => ~R!Running)
      BY <2>1 DEF R!Unregistered
    <3> QED  BY <2>1, <3>1 DEF R!Works
  <2>2. CASE UNCHANGED R!service /\ R!Fails
    BY <2>2 DEF R!Fails, R!service
  <2> QED  BY <2>1, <2>2 DEF R!Unregister
<1>5. R!TypeOK'
  <2>1. clean' \in BOOLEAN /\ leaving' \in BOOLEAN /\ reg' \in 0..run
    BY <1>3, <1>4, ResolverTyped
  <2>2. leaving' => os = "windows" /\ reg' # R!None
    BY <1>3, <1>4, ResolverTyped
  <2> QED  BY <1>1, <1>3, <1>4, <2>1, <2>2, ResolverTyped, ResolverTypes DEF R!Next
<1>6. /\ R!Running' => R!Running
      /\ R!Registered' => R!Registered
      /\ os = "windows" => R!Registered' = R!Registered \/ ~R!Running
  BY <1>1, <1>4 DEF R!Running, R!Down, R!Registered
<1>7. Standing'
  <2>1. os = "windows" /\ R!Running' => R!Registered'
    BY <1>6 DEF ResolverInvariant, Standing
  <2> QED  BY <1>1, <1>2, <1>3, <1>4, <2>1 DEF ResolverInvariant, Standing, R!Registered
<1>8. ASSUME clean' PROVE Installing'
  <2>1. clean
    BY <1>3, <1>4, <1>8, ResolverTyped
  <2>2. R!Running' => R!Registered'
    <3>1. os # "windows" => ~R!Running
      BY <1>3, <2>1 DEF ResolverInvariant, Installing
    <3>2. os = "windows" => (R!Running => R!Registered)
      BY DEF ResolverInvariant, Standing
    <3> QED  BY <1>6, <3>1, <3>2
  <2> QED  BY <1>1, <1>2, <1>3, <1>6, <2>1, <2>2 DEF ResolverInvariant, Installing
<1>9. Installing' /\ Uninstalling'
  BY <1>1, <1>3, <1>8 DEF Installing, Uninstalling
<1> QED  BY <1>2, <1>5, <1>7, <1>9 DEF ResolverInvariant

(* Waiting for the deletion and seeing to the user or the address.         *)
LEMMA ResolverPrepares ==
  ASSUME ResolverInvariant, R!WaitForRemoval \/ R!EnsureUser \/ R!EnsureAlias
  PROVE  ResolverInvariant'
<1>1. UNCHANGED <<os, run, program, reg, leaving, held, proc, lo0, wired, live, stuck, report>>
  BY DEF R!WaitForRemoval, R!EnsureUser, R!EnsureAlias, R!this, R!resolver, R!service
<1>2. PICK one \in {"gone", "user", "alias"} :
        /\ R!Done(one) /\ needs' \in {needs, TRUE} /\ clean' \in {clean, FALSE}
        /\ clean' /\ one = "alias" => needs' = TRUE
  BY DEF R!WaitForRemoval, R!EnsureUser, R!EnsureAlias, R!resolver, R!Works, R!Fails
<1>3. RunSteps' /\ todo' = todo \ {one} /\ R!At(one) /\ one \in todo
  <2>1. R!Done(one) /\ os' = os /\ report'.op = report.op
    BY <1>1, <1>2
  <2> QED  BY <2>1, ResolverProgress
<1>4. /\ report.op = "install" /\ R!TypeOK /\ "register" \in todo
      /\ todo \cap {"stop_before", "replace", "stop"} = {}
  <2>1. report.op = "install" /\ R!TypeOK
    BY <1>3, ResolverSteps DEF ResolverInvariant
  <2>2. "register" \in todo
    BY <1>3, <2>1 DEF ResolverInvariant, RunSteps
  <2> QED  BY <1>2, <1>3, <2>1, <2>2, ResolverOrder
<1>5. R!TypeOK'
  <2>1. clean' \in BOOLEAN /\ needs' \in BOOLEAN
    BY <1>2, <1>4, ResolverTyped
  <2> QED  BY <1>1, <1>4, <2>1, ResolverTyped, ResolverTypes DEF R!Next
<1>6. R!Running' = R!Running /\ R!Registered' = R!Registered
  BY <1>1 DEF R!Running, R!Down, R!Registered
<1>7. Standing'
  BY <1>1, <1>3, <1>4, <1>6 DEF ResolverInvariant, Standing
<1>8. ASSUME clean' PROVE Installing'
  <2>1. clean
    BY <1>2, <1>4, <1>8, ResolverTyped
  <2>2. one = "alias" => needs'
    BY <1>2, <1>8
  <2>3. needs => needs'
    BY <1>2
  <2> QED  BY <1>1, <1>3, <1>4, <1>6, <2>1, <2>2, <2>3 DEF ResolverInvariant, Installing
<1>9. Installing' /\ Uninstalling'
  BY <1>1, <1>4, <1>8 DEF Installing, Uninstalling
<1> QED  BY <1>3, <1>5, <1>7, <1>9 DEF ResolverInvariant

LEMMA ResolverRegisters ==
  ASSUME ResolverInvariant, R!Register
  PROVE  ResolverInvariant'
<1>1. /\ UNCHANGED <<os, run, program, needs, lo0, wired, live, stuck>>
      /\ R!At("register")
      /\ report' \in {report, [report EXCEPT !.installed = TRUE]}
  BY DEF R!Register, R!Done, R!this, R!resolver
<1>2. R!TypeOK /\ "register" \in todo
  BY <1>1, ResolverOrder DEF ResolverInvariant
<1>3. /\ report'.op = report.op /\ report'.removed = report.removed
      /\ report'.restart = report.restart
      /\ report' \in [op: {"none", "install", "skip", "uninstall"}, installed: BOOLEAN,
                      running: BOOLEAN, restart: BOOLEAN, removed: BOOLEAN]
  BY <1>1, <1>2, ResolverTyped
<1>4. /\ report.op = "install" /\ program # R!None /\ run # R!None
      /\ todo \cap {"stop_before", "replace", "exists", "stop", "unregister", "gone", "user",
                    "alias"} = {}
  BY <1>1, <1>2, ResolverSteps, ResolverOrder DEF ResolverInvariant, Standing, R!None
<1>5. /\ leaving \in BOOLEAN /\ held \in BOOLEAN /\ needs \in BOOLEAN /\ lo0 \in BOOLEAN
      /\ wired \in BOOLEAN /\ live \in BOOLEAN /\ stuck \in BOOLEAN /\ clean \in BOOLEAN
  BY <1>2, ResolverTyped
<1>6. CASE R!Done("register") /\ ~(os = "windows" /\ R!Registered) /\ R!NewlyRegistered /\ R!Works
  <2>1. RunSteps' /\ todo' = todo \ {"register"}
    BY <1>1, <1>3, <1>6, ResolverProgress
  <2>2. /\ reg' = run /\ leaving' = leaving /\ clean' = clean
        /\ \/ ~R!Running /\ proc' = [program |-> program, settings |-> run]
           \/ proc' = proc
    BY <1>6 DEF R!NewlyRegistered, R!Works
  <2>3. ~leaving
    BY <1>2, <1>6, ResolverTyped DEF R!Registered
  <2>4. held' \in BOOLEAN
    <3>1. held' = (held /\ os # "macos")
      BY <1>6 DEF R!NewlyRegistered
    <3> QED  BY <3>1
  <2>5. R!TypeOK'
    <3>1. program \in 1..run /\ run \in 1..run
      BY <1>2, <1>4, ResolverTyped DEF R!None
    <3>2. proc' = proc \/ (proc'.program \in 1..run' /\ proc'.settings \in 1..run')
      BY <1>1, <2>2, <3>1
    <3>3. reg' \in 0..run
      BY <2>2, <3>1
    <3> QED  BY <1>1, <1>2, <1>3, <1>5, <2>2, <2>3, <2>4, <3>2, <3>3, ResolverTyped, ResolverTypes DEF R!Next
  <2>6. Standing'
    BY <1>1, <1>3, <1>4, <2>2, <2>3 DEF ResolverInvariant, Standing, R!Registered
  <2>7. ASSUME clean' PROVE Installing'
    <3>1. clean /\ program = run
      BY <1>4, <2>2, <2>7 DEF ResolverInvariant, Installing
    <3>2. ~R!Running
      <4>1. os = "windows" => ~R!Running
        BY <1>6 DEF ResolverInvariant, Standing
      <4> QED  BY <1>2, <1>4, <3>1, <4>1 DEF ResolverInvariant, Installing
    <3>3. R!Running' => proc' = [program |-> run, settings |-> run]
      BY <2>2, <3>1, <3>2 DEF R!Running, R!Down
    <3> QED  BY <1>1, <1>3, <1>4, <2>1, <2>2, <2>3, <3>1, <3>3 DEF ResolverInvariant, Installing,
                R!Registered
  <2>8. Installing' /\ Uninstalling'
    BY <1>3, <1>4, <2>7 DEF Installing, Uninstalling
  <2> QED  BY <2>1, <2>5, <2>6, <2>8 DEF ResolverInvariant
<1>7. CASE UNCHANGED R!service /\ R!Fails /\ (todo' = {} \/ todo' = todo \ {"register", "start"})
  <2>1. UNCHANGED <<reg, leaving, held, proc>> /\ clean' = FALSE
    BY <1>7 DEF R!service, R!Fails
  <2>2. R!TypeOK'
    BY <1>1, <1>2, <1>3, <1>5, <2>1, ResolverTyped, ResolverTypes DEF R!Next
  <2>3. RunSteps'
    <3>1. R!Install' = R!Install
      BY <1>1 DEF R!Install, R!WindowsInstall, R!LinuxInstall, R!MacInstall
    <3>2. todo' \subseteq {"configure", "wait"}
      BY <1>4, <1>7, ResolverShapes, <1>2 DEF ResolverInvariant, RunSteps
    <3> QED  BY <1>2, <1>3, <1>4, <3>1, <3>2, ResolverShapes DEF RunSteps
  <2>4. R!Running' = R!Running /\ R!Registered' = R!Registered
    BY <2>1 DEF R!Running, R!Down, R!Registered
  <2>5. Standing'
    BY <1>1, <1>3, <1>4, <1>7, <2>1, <2>4 DEF ResolverInvariant, Standing
  <2> QED  BY <1>3, <1>4, <2>1, <2>2, <2>3, <2>5 DEF ResolverInvariant, Installing, Uninstalling
<1> QED  BY <1>6, <1>7 DEF R!Register, R!Without

LEMMA ResolverServes ==
  ASSUME ResolverInvariant, R!Start
  PROVE  ResolverInvariant'
<1>1. /\ R!Done("start")
      /\ UNCHANGED <<os, run, program, reg, leaving, needs, lo0, wired, live, stuck, report>>
  BY DEF R!Start, R!Started, R!this, R!resolver, R!service
<1>2. /\ RunSteps' /\ todo' = todo \ {"start"} /\ R!At("start") /\ "start" \in todo
      /\ "register" \notin todo
  BY <1>1, ResolverProgress, ResolverOrder
<1>3. /\ R!TypeOK /\ report.op = "install" /\ reg # R!None /\ ~leaving /\ program # R!None
      /\ "replace" \notin todo
  <2>1. report.op = "install"
    BY <1>2, ResolverSteps
  <2>2. "replace" \notin todo
    BY <1>2, <2>1 DEF ResolverInvariant, RunSteps
  <2> QED  BY <1>2, <2>1, <2>2 DEF ResolverInvariant, Standing
<1>4. /\ \/ ~R!Running /\ proc' = [program |-> program, settings |-> reg]
         \/ proc' = proc
      /\ held' \in BOOLEAN /\ clean' \in {clean, FALSE}
  <2>1. CASE R!Started /\ R!Works
    BY <2>1 DEF R!Started, R!Works, R!Current
  <2>2. CASE UNCHANGED R!service /\ R!Fails
    BY <1>3, <2>2, ResolverTyped DEF R!service, R!Fails
  <2> QED  BY <2>1, <2>2 DEF R!Start
<1>5. R!TypeOK'
  <2>1. program \in 1..run /\ reg \in 1..run
    BY <1>3, ResolverTyped DEF R!None
  <2>2. proc' = proc \/ (proc'.program \in 1..run' /\ proc'.settings \in 1..run')
    BY <1>1, <1>4, <2>1
  <2>3. clean' \in BOOLEAN /\ leaving' \in BOOLEAN
    BY <1>1, <1>3, <1>4, ResolverTyped
  <2> QED  BY <1>1, <1>3, <1>4, <2>2, <2>3, ResolverTyped, ResolverTypes DEF R!Next
<1>6. Standing'
  BY <1>1, <1>2, <1>3 DEF ResolverInvariant, Standing, R!Registered
<1>7. ASSUME clean' PROVE Installing'
  <2>1. clean
    BY <1>3, <1>4, <1>7, ResolverTyped
  <2>2. reg = run
    BY <1>2, <1>3, <2>1 DEF ResolverInvariant, Installing
  <2>3. program = run /\ (R!Running => proc = [program |-> run, settings |-> run])
    BY <1>2, <1>3, <2>1 DEF ResolverInvariant, Installing
  <2>4. R!Running' => proc' = [program |-> run, settings |-> run]
    BY <1>4, <2>2, <2>3 DEF R!Running, R!Down
  <2> QED  BY <1>1, <1>2, <1>3, <2>1, <2>2, <2>3, <2>4 DEF ResolverInvariant, Installing,
              R!Registered
<1>8. Installing' /\ Uninstalling'
  BY <1>1, <1>3, <1>7 DEF Installing, Uninstalling
<1> QED  BY <1>2, <1>5, <1>6, <1>8 DEF ResolverInvariant

LEMMA ResolverWires ==
  ASSUME ResolverInvariant, R!Configure
  PROVE  ResolverInvariant'
<1>1. /\ R!Done("configure")
      /\ UNCHANGED <<os, run, program, reg, leaving, held, proc, needs, lo0, stuck>>
  BY DEF R!Configure, R!this, R!service
<1>2. R!TypeOK
  BY DEF ResolverInvariant
<1>3. /\ clean \in BOOLEAN /\ live \in BOOLEAN /\ wired \in BOOLEAN /\ (live => wired)
      /\ report \in [op: {"none", "install", "skip", "uninstall"}, installed: BOOLEAN,
                     running: BOOLEAN, restart: BOOLEAN, removed: BOOLEAN]
  BY <1>2, ResolverTyped
<1>4. /\ report'.op = report.op /\ report'.removed = report.removed
      /\ clean' => clean
      /\ report' \in [op: {"none", "install", "skip", "uninstall"}, installed: BOOLEAN,
                      running: BOOLEAN, restart: BOOLEAN, removed: BOOLEAN]
      /\ clean' \in BOOLEAN /\ live' \in BOOLEAN /\ wired' \in BOOLEAN /\ (live' => wired')
  <2>1. ASSUME NEW applied \in BOOLEAN, NEW activated \in BOOLEAN, NEW says \in BOOLEAN,
               wired' = (wired \/ applied),
               live' \in IF applied THEN {activated} ELSE {live, wired},
               report' = [report EXCEPT !.restart = R!RestartReason(applied, activated, says)],
               clean' = clean
        PROVE  <1>4!:
    <3>1. R!RestartReason(applied, activated, says) \in BOOLEAN
      BY DEF R!RestartReason
    <3>2. /\ report'.op = report.op /\ report'.removed = report.removed
          /\ report' \in [op: {"none", "install", "skip", "uninstall"}, installed: BOOLEAN,
                          running: BOOLEAN, restart: BOOLEAN, removed: BOOLEAN]
      BY <1>3, <2>1, <3>1
    <3>3. wired' \in BOOLEAN /\ live' \in BOOLEAN /\ (live' => wired')
      <4>1. CASE applied
        BY <2>1, <4>1
      <4>2. CASE ~applied
        BY <1>3, <2>1, <4>2
      <4> QED  BY <4>1, <4>2
    <3> QED  BY <1>3, <2>1, <3>2, <3>3
  <2>2. CASE wired' \in {wired, TRUE} /\ live' \in {live, wired'} /\ report' = report
             /\ clean' = FALSE
    <3>1. wired' \in BOOLEAN /\ (wired => wired')
      <4>1. CASE wired' = wired
        BY <1>3, <4>1
      <4>2. CASE wired' = TRUE
        BY <4>2
      <4> QED  BY <2>2, <4>1, <4>2
    <3>2. live' \in BOOLEAN /\ (live' => wired')
      BY <1>3, <2>2, <3>1
    <3> QED  BY <1>3, <2>2, <3>1, <3>2
  <2> QED  BY <2>1, <2>2 DEF R!Configure, R!Works, R!Fails
<1>5. /\ RunSteps' /\ todo' = todo \ {"configure"} /\ R!At("configure") /\ "configure" \in todo
      /\ "register" \notin todo
  BY <1>1, <1>4, ResolverProgress, ResolverOrder
<1>6. report.op = "install" /\ "replace" \notin todo /\ program # R!None
  <2>1. report.op = "install"
    BY <1>5, ResolverSteps
  <2>2. "replace" \notin todo
    BY <1>5, <2>1 DEF ResolverInvariant, RunSteps
  <2> QED  BY <2>1, <2>2 DEF ResolverInvariant, Standing
<1>7. R!TypeOK'
  <2>1. leaving' \in BOOLEAN /\ held' \in BOOLEAN /\ needs' \in BOOLEAN /\ lo0' \in BOOLEAN
        /\ stuck' \in BOOLEAN
    BY <1>1, <1>2, ResolverTyped
  <2> QED  BY <1>1, <1>2, <1>4, <2>1, ResolverTyped, ResolverTypes DEF R!Next
<1>8. R!Running' = R!Running /\ R!Registered' = R!Registered
  BY <1>1 DEF R!Running, R!Down, R!Registered
<1>9. Standing'
  BY <1>1, <1>4, <1>5, <1>6, <1>8 DEF ResolverInvariant, Standing
<1>10. ASSUME clean' PROVE Installing'
  <2>1. clean
    BY <1>4, <1>10
  <2> QED  BY <1>1, <1>4, <1>5, <1>6, <1>8, <2>1 DEF ResolverInvariant, Installing
<1>11. Installing' /\ Uninstalling'
  BY <1>4, <1>6, <1>10 DEF Installing, Uninstalling
<1> QED  BY <1>5, <1>7, <1>9, <1>11 DEF ResolverInvariant

LEMMA ResolverWaits ==
  ASSUME ResolverInvariant, R!Wait
  PROVE  ResolverInvariant'
<1>1. /\ R!Done("wait")
      /\ UNCHANGED <<os, run, program, reg, leaving, held, proc, needs, lo0, wired, live, stuck,
                     clean>>
      /\ report' = [report EXCEPT !.running = R!Running]
  BY DEF R!Wait, R!Works, R!this, R!service, R!resolver
<1>2. R!TypeOK
  BY DEF ResolverInvariant
<1>3. /\ report'.op = report.op /\ report'.removed = report.removed
      /\ report'.restart = report.restart
      /\ report' \in [op: {"none", "install", "skip", "uninstall"}, installed: BOOLEAN,
                      running: BOOLEAN, restart: BOOLEAN, removed: BOOLEAN]
  <2>1. R!Running \in BOOLEAN
    BY DEF R!Running
  <2> QED  BY <1>1, <1>2, <2>1, ResolverTyped
<1>4. RunSteps' /\ todo' = todo \ {"wait"} /\ "wait" \in todo /\ R!At("wait")
  BY <1>1, <1>3, ResolverProgress
<1>5. report.op \in {"install", "skip"}
  BY <1>4, ResolverSteps
<1>6. R!TypeOK'
  BY <1>1, <1>2, <1>3, ResolverTyped, ResolverTypes DEF R!Next
<1>7. R!Running' = R!Running /\ R!Registered' = R!Registered
  BY <1>1 DEF R!Running, R!Down, R!Registered
<1>8. Standing'
  BY <1>1, <1>3, <1>4, <1>5, <1>7 DEF ResolverInvariant, Standing
<1>9. Installing' /\ Uninstalling'
  BY <1>1, <1>3, <1>4, <1>5, <1>7 DEF ResolverInvariant, Installing, Uninstalling
<1> QED  BY <1>4, <1>6, <1>8, <1>9 DEF ResolverInvariant

(* The steps of a run that uninstalls.                                     *)
LEMMA ResolverDeletes ==
  ASSUME ResolverInvariant, R!Delete
  PROVE  ResolverInvariant'
<1>1. /\ R!Done("delete")
      /\ UNCHANGED <<os, run, program, held, needs, lo0, wired, live, stuck>>
  BY DEF R!Delete, R!Unregistered, R!this, R!resolver, R!service
<1>2. R!TypeOK
  BY DEF ResolverInvariant
<1>3. /\ report'.op = report.op
      /\ report'.removed => reg' = R!None
      /\ report' \in [op: {"none", "install", "skip", "uninstall"}, installed: BOOLEAN,
                      running: BOOLEAN, restart: BOOLEAN, removed: BOOLEAN]
  <2> DEFINE gone == reg' = R!None /\ (os = "windows" \/ R!Registered)
  <2>1. report' = [report EXCEPT !.removed = gone] /\ gone \in BOOLEAN
    BY DEF R!Delete
  <2>2. gone => reg' = R!None
    OBVIOUS
  <2>3. report \in [op: {"none", "install", "skip", "uninstall"}, installed: BOOLEAN,
                    running: BOOLEAN, restart: BOOLEAN, removed: BOOLEAN]
    BY <1>2, ResolverTyped
  <2> HIDE DEF gone
  <2>4. report'.op = report.op /\ report'.removed = gone
    BY <2>1, <2>3
  <2> QED  BY <2>1, <2>2, <2>3, <2>4
<1>4. RunSteps' /\ todo' = todo \ {"delete"} /\ R!At("delete") /\ "delete" \in todo
  BY <1>1, <1>3, ResolverProgress
<1>5. report.op = "uninstall"
  BY <1>4, ResolverSteps
<1>6. /\ proc' = proc \/ proc' = R!Down
      /\ \/ reg' = reg /\ leaving' \in {leaving, TRUE}
            /\ (leaving' => leaving \/ (os = "windows" /\ reg # R!None))
         \/ reg' = R!None /\ leaving' = FALSE /\ (os = "windows" => ~R!Running)
      /\ clean' \in {clean, FALSE}
      /\ clean' => reg' = R!None
  <2>1. CASE R!Registered /\ R!Unregistered /\ (IF reg' = R!None THEN R!Works ELSE R!Fails)
    <3>1. /\ proc' = proc \/ proc' = R!Down
          /\ \/ os = "windows" /\ reg # R!None /\ leaving' = TRUE /\ reg' = reg
             \/ reg' = R!None /\ leaving' = FALSE /\ (os = "windows" => ~R!Running)
      BY <2>1 DEF R!Unregistered
    <3> QED  BY <2>1, <3>1 DEF R!Works, R!Fails
  <2>2. CASE UNCHANGED R!service /\ R!Fails
    BY <2>2 DEF R!Fails, R!service
  <2>3. CASE ~R!Registered /\ UNCHANGED R!service /\ R!Works
    BY <2>3 DEF R!Works, R!service, R!Registered
  <2> QED  BY <2>1, <2>2, <2>3 DEF R!Delete
<1>7. R!TypeOK'
  <2>1. clean' \in BOOLEAN /\ leaving' \in BOOLEAN /\ reg' \in 0..run
    BY <1>2, <1>6, ResolverTyped
  <2>2. leaving' => os = "windows" /\ reg' # R!None
    BY <1>2, <1>6, ResolverTyped
  <2> QED  BY <1>1, <1>2, <1>3, <1>6, <2>1, <2>2, ResolverTyped, ResolverTypes DEF R!Next
<1>8. /\ R!Running' => R!Running
      /\ R!Registered' => R!Registered
      /\ os = "windows" => R!Registered' = R!Registered \/ ~R!Running
  BY <1>1, <1>6 DEF R!Running, R!Down, R!Registered
<1>9. Standing'
  <2>1. os = "windows" /\ R!Running' => R!Registered'
    BY <1>8 DEF ResolverInvariant, Standing
  <2>2. program = R!None => reg' = R!None
    BY <1>6 DEF ResolverInvariant, Standing
  <2> QED  BY <1>1, <1>3, <1>4, <1>5, <2>1, <2>2 DEF ResolverInvariant, Standing
<1>10. Uninstalling'
  <2> SUFFICES ASSUME clean' PROVE Uninstalling'
    BY DEF Uninstalling
  <2>1. clean /\ reg' = R!None
    BY <1>2, <1>6, ResolverTyped
  <2> QED  BY <1>1, <1>4, <1>5, <2>1 DEF ResolverInvariant, Uninstalling
<1>11. Installing'
  BY <1>3, <1>5 DEF Installing
<1> QED  BY <1>4, <1>7, <1>9, <1>10, <1>11 DEF ResolverInvariant

(* The old daemon goes, then the wiring, then the service's user.          *)
LEMMA ResolverClears ==
  ASSUME ResolverInvariant, R!RemoveLo0 \/ R!Unconfigure \/ R!RemoveUser
  PROVE  ResolverInvariant'
<1>1. UNCHANGED <<os, run, program, reg, leaving, held, proc, report>>
  BY DEF R!RemoveLo0, R!Unconfigure, R!RemoveUser, R!this, R!service
<1>2. R!TypeOK
  BY DEF ResolverInvariant
<1>3. /\ leaving \in BOOLEAN /\ held \in BOOLEAN /\ needs \in BOOLEAN /\ lo0 \in BOOLEAN
      /\ wired \in BOOLEAN /\ live \in BOOLEAN /\ stuck \in BOOLEAN /\ clean \in BOOLEAN
      /\ (live => wired)
  BY <1>2, ResolverTyped
<1>4. R!Running' = R!Running /\ R!Registered' = R!Registered
  BY <1>1 DEF R!Running, R!Down, R!Registered
<1>5. CASE R!RemoveLo0
  <2>1. R!Done("lo0") /\ UNCHANGED <<needs, wired, live, stuck>>
    BY <1>5 DEF R!RemoveLo0
  <2>2. RunSteps' /\ todo' = todo \ {"lo0"} /\ R!At("lo0") /\ "lo0" \in todo
    BY <1>1, <2>1, ResolverProgress
  <2>3. \/ lo0' = FALSE /\ clean' = clean
        \/ lo0' = lo0 /\ clean' = FALSE
    BY <1>5 DEF R!RemoveLo0, R!Works, R!Fails
  <2>4. R!TypeOK'
    <3>1. lo0' \in BOOLEAN /\ clean' \in BOOLEAN /\ (lo0' => lo0)
      <4>1. CASE lo0' = FALSE /\ clean' = clean
        BY <1>3, <4>1
      <4>2. CASE lo0' = lo0 /\ clean' = FALSE
        BY <1>3, <4>2
      <4> QED  BY <2>3, <4>1, <4>2
    <3> QED  BY <1>1, <1>2, <1>3, <2>1, <3>1, ResolverTyped, ResolverTypes DEF R!Next
  <2>5. report.op = "uninstall"
    BY <2>2, ResolverSteps
  <2>6. Standing'
    BY <1>1, <1>4, <2>1, <2>2, <2>5 DEF ResolverInvariant, Standing
  <2>7. Installing' /\ Uninstalling'
    BY <1>1, <2>1, <2>2, <2>3, <2>5 DEF ResolverInvariant, Installing, Uninstalling
  <2> QED  BY <2>2, <2>4, <2>6, <2>7 DEF ResolverInvariant
<1>6. CASE R!Unconfigure
  <2>1. R!Done("unconfigure") /\ UNCHANGED lo0
    BY <1>6 DEF R!Unconfigure
  <2>2. RunSteps' /\ todo' = todo \ {"unconfigure"} /\ R!At("unconfigure") /\ "unconfigure" \in todo
    BY <1>1, <2>1, ResolverProgress
  <2>3. report.op = "uninstall" /\ todo \cap {"halt", "delete", "lo0"} = {}
    BY <2>2, ResolverSteps, ResolverOrder
  <2>4. /\ wired' \in BOOLEAN /\ live' \in BOOLEAN /\ stuck' \in BOOLEAN /\ needs' \in BOOLEAN
        /\ clean' \in BOOLEAN
        /\ live' => wired'
        /\ wired' => stuck'
        /\ program = R!None \/ (clean' => ~wired')
        /\ clean' => clean
    <3>1. CASE /\ program # R!None /\ wired' = FALSE /\ live' = FALSE /\ stuck' = FALSE
               /\ needs' = (needs /\ os # "macos") /\ R!Works
      <4>1. needs' \in BOOLEAN
        BY <3>1
      <4> QED  BY <1>3, <3>1, <4>1 DEF R!Works
    <3>2. CASE /\ program # R!None /\ wired' \in {wired, FALSE} /\ live' = (live /\ wired')
               /\ stuck' = wired' /\ UNCHANGED needs /\ R!Fails
      <4>1. live' \in BOOLEAN /\ (live' => wired')
        BY <3>2
      <4>2. wired' \in BOOLEAN
        BY <1>3, <3>2
      <4> QED  BY <1>3, <3>2, <4>1, <4>2 DEF R!Fails
    <3>3. CASE program = R!None /\ UNCHANGED <<needs, wired, live, stuck, clean>>
      <4>1. wired => stuck
        BY <3>3 DEF ResolverInvariant, Standing
      <4> QED  BY <1>3, <3>3, <4>1
    <3> QED  BY <1>6, <3>1, <3>2, <3>3 DEF R!Unconfigure
  <2>5. R!TypeOK'
    BY <1>1, <1>2, <1>3, <2>1, <2>4, ResolverTyped, ResolverTypes DEF R!Next
  <2>6. Standing'
    BY <1>1, <1>4, <2>2, <2>3, <2>4 DEF ResolverInvariant, Standing
  <2>7. Installing' /\ Uninstalling'
    BY <1>1, <2>1, <2>2, <2>3, <2>4 DEF ResolverInvariant, Installing, Uninstalling
  <2> QED  BY <2>2, <2>5, <2>6, <2>7 DEF ResolverInvariant
<1>7. CASE R!RemoveUser
  <2>1. R!Done("userdel") /\ UNCHANGED <<lo0, wired, live, stuck>>
    BY <1>7 DEF R!RemoveUser
  <2>2. RunSteps' /\ todo' = todo \ {"userdel"} /\ R!At("userdel") /\ "userdel" \in todo
    BY <1>1, <2>1, ResolverProgress
  <2>3. needs' \in {needs, FALSE} /\ clean' \in {clean, FALSE}
    BY <1>7 DEF R!RemoveUser, R!Works, R!Fails
  <2>4. R!TypeOK'
    <3>1. needs' \in BOOLEAN /\ clean' \in BOOLEAN
      BY <1>3, <2>3
    <3> QED  BY <1>1, <1>2, <1>3, <2>1, <3>1, ResolverTyped, ResolverTypes DEF R!Next
  <2>5. report.op = "uninstall"
    BY <2>2, ResolverSteps
  <2>6. Standing'
    BY <1>1, <1>4, <2>1, <2>2, <2>5 DEF ResolverInvariant, Standing
  <2>7. clean' => clean
    BY <1>3, <2>3
  <2>8. Installing' /\ Uninstalling'
    BY <1>1, <2>1, <2>2, <2>5, <2>7 DEF ResolverInvariant, Installing, Uninstalling
  <2> QED  BY <2>2, <2>4, <2>6, <2>8 DEF ResolverInvariant
<1> QED  BY <1>5, <1>6, <1>7

(* The program goes last, and only when the service has gone.              *)
LEMMA ResolverProgramGoes ==
  ASSUME ResolverInvariant, R!DeleteProgram
  PROVE  ResolverInvariant'
<1>1. /\ R!Done("binaries")
      /\ UNCHANGED <<os, run, reg, leaving, held, proc, needs, lo0, wired, live, stuck, report>>
      /\ \/ report.removed /\ program' = R!None
         \/ program' = program
      /\ clean' \in {clean, FALSE}
  BY DEF R!DeleteProgram, R!service, R!resolver, R!Works, R!Fails
<1>2. RunSteps' /\ todo' = todo \ {"binaries"} /\ R!At("binaries") /\ "binaries" \in todo
  BY <1>1, ResolverProgress
<1>3. /\ R!TypeOK /\ report.op = "uninstall"
      /\ todo \cap {"halt", "delete", "lo0", "unconfigure", "userdel"} = {}
  BY <1>2, ResolverSteps, ResolverOrder DEF ResolverInvariant
<1>4. R!TypeOK'
  <2>1. /\ leaving' \in BOOLEAN /\ held' \in BOOLEAN /\ needs' \in BOOLEAN /\ lo0' \in BOOLEAN
        /\ wired' \in BOOLEAN /\ live' \in BOOLEAN /\ stuck' \in BOOLEAN /\ clean' \in BOOLEAN
    BY <1>1, <1>3, ResolverTyped
  <2>2. program' \in 0..run'
    BY <1>1, <1>3, ResolverTyped
  <2> QED  BY <1>1, <1>3, <2>1, <2>2, ResolverTyped, ResolverTypes DEF R!Next
<1>5. R!Running' = R!Running /\ R!Registered' = R!Registered
  BY <1>1 DEF R!Running, R!Down, R!Registered
<1>6. program' = R!None => reg = R!None /\ (wired => stuck)
  BY <1>1, <1>3 DEF ResolverInvariant, Standing
<1>7. Standing'
  BY <1>1, <1>3, <1>5, <1>6 DEF ResolverInvariant, Standing
<1>8. clean' => clean
  BY <1>1, <1>3, ResolverTyped
<1>9. Installing' /\ Uninstalling'
  BY <1>1, <1>2, <1>3, <1>8 DEF ResolverInvariant, Installing, Uninstalling
<1> QED  BY <1>2, <1>4, <1>7, <1>9 DEF ResolverInvariant

LEMMA ResolverStutters ==
  ASSUME ResolverInvariant, UNCHANGED R!vars
  PROVE  ResolverInvariant'
<1>1. UNCHANGED <<os, run, todo, program, reg, leaving, held, proc, needs, lo0, wired, live,
                  stuck, clean, report>>
  BY DEF R!vars
<1>2. R!Install' = R!Install /\ R!Uninstall' = R!Uninstall /\ (R!Running)' = R!Running
      /\ R!Registered' = R!Registered
  BY <1>1 DEF R!Install, R!Uninstall, R!WindowsInstall, R!LinuxInstall, R!MacInstall,
     R!WindowsUninstall, R!LinuxUninstall, R!MacUninstall, R!Running, R!Down, R!Registered
<1>3. R!TypeOK'
  BY <1>1, ResolverTyped, ResolverTypes DEF ResolverInvariant, R!vars, R!Next
<1>4. RunSteps' /\ Standing'
  BY <1>1, <1>2 DEF ResolverInvariant, RunSteps, Standing
<1>5. Installing' /\ Uninstalling'
  BY <1>1, <1>2 DEF ResolverInvariant, Installing, Uninstalling
<1> QED  BY <1>3, <1>4, <1>5 DEF ResolverInvariant

LEMMA ResolverKept ==
  ASSUME ResolverInvariant, R!Next
  PROVE  ResolverInvariant'
BY ResolverBegin, ResolverStopBefore, ResolverReplaces, ResolverAsks, ResolverHalts,
   ResolverUnregisters, ResolverPrepares, ResolverRegisters, ResolverServes, ResolverWires,
   ResolverWaits, ResolverLeaves, ResolverDeletes, ResolverClears, ResolverProgramGoes,
   ResolverSurroundings, ResolverStops DEF R!Next

(* A resolver that comes to be wired and not live has a report of it.      *)
LEMMA ResolverTells ==
  ASSUME ResolverInvariant, Telling, R!Next \/ UNCHANGED R!vars
  PROVE  Telling'
<1>1. /\ report \in [op: {"none", "install", "skip", "uninstall"}, installed: BOOLEAN,
                     running: BOOLEAN, restart: BOOLEAN, removed: BOOLEAN]
      /\ wired \in BOOLEAN /\ live \in BOOLEAN /\ report.restart \in BOOLEAN
      /\ told \in BOOLEAN /\ lost \in BOOLEAN
  BY ResolverTyped DEF ResolverInvariant, R!TypeOK
<1>2. CASE R!Configure
  <2>1. ~report.restart /\ "configure" \notin todo' /\ UNCHANGED told
    BY <1>2, ResolverOrder DEF Telling, R!Configure, R!Done, R!Without
  <2>2. ASSUME NEW applied \in BOOLEAN, NEW activated \in BOOLEAN, NEW says \in BOOLEAN,
               wired' = (wired \/ applied),
               live' \in IF applied THEN {activated} ELSE {live, wired},
               report' = [report EXCEPT !.restart = R!RestartReason(applied, activated, says)],
               lost' = lost
        PROVE  Telling'
    <3>1. report'.restart = R!RestartReason(applied, activated, says)
      BY <1>1, <2>2
    <3>2. applied => live' = activated /\ (~activated => report'.restart)
      BY <2>2, <3>1 DEF R!RestartReason
    <3>3. ~applied /\ wired' /\ ~live' => wired /\ ~live
      BY <1>1, <2>2
    <3> QED  BY <1>1, <2>1, <2>2, <3>2, <3>3 DEF Telling, R!RestartTold
  <2>3. CASE /\ wired' \in {wired, TRUE} /\ live' \in {live, wired'}
             /\ lost' = (lost \/ wired' # wired) /\ report' = report
    <3>1. CASE wired' = wired
      <4>1. wired' /\ ~live' => wired /\ ~live
        BY <1>1, <2>3, <3>1
      <4>2. lost => lost'
        BY <1>1, <2>3
      <4> QED  BY <2>1, <2>3, <4>1, <4>2 DEF Telling, R!RestartTold
    <3>2. CASE wired' # wired
      <4>1. lost'
        BY <2>3, <3>2
      <4> QED  BY <2>1, <2>3, <4>1 DEF Telling, R!RestartTold
    <3> QED  BY <3>1, <3>2
  <2> QED  BY <1>2, <2>1, <2>2, <2>3 DEF R!Configure, R!Works
<1>3. CASE R!Begin \/ R!BeginUninstall
  <2>1. report'.restart = FALSE /\ told' = (told \/ report.restart) /\ UNCHANGED <<wired, live, lost>>
    BY <1>3 DEF R!Begin, R!BeginUninstall, R!Says
  <2> QED  BY <1>1, <2>1 DEF Telling, R!RestartTold
<1>4. CASE R!Restart \/ R!Crash
  <2>1. report'.restart = FALSE
    BY <1>4 DEF R!Restart, R!Crash, R!Says
  <2>2. R!RestartTold'
    BY <1>1, <1>4 DEF R!Restart, R!Crash, Telling, R!RestartTold
  <2> QED  BY <2>1, <2>2 DEF Telling
<1>5. CASE R!Unconfigure
  <2>1. /\ wired' /\ ~live' => wired /\ ~live
        /\ UNCHANGED <<told, lost, report>> /\ todo' \subseteq todo
    <3>1. UNCHANGED <<told, lost, report>> /\ todo' \subseteq todo
      BY <1>5 DEF R!Unconfigure, R!Done, R!Without
    <3>2. \/ wired' = FALSE
          \/ wired' \in {wired, FALSE} /\ live' = (live /\ wired')
          \/ UNCHANGED <<wired, live>>
      BY <1>5 DEF R!Unconfigure
    <3>3. ASSUME wired', ~live', wired' \in {wired, FALSE}, live' = (live /\ wired')
          PROVE  wired /\ ~live
      <4>1. wired' = wired
        BY <3>3
      <4> QED  BY <1>1, <3>3, <4>1
    <3>4. wired' /\ ~live' => wired /\ ~live
      BY <3>2, <3>3
    <3> QED  BY <3>1, <3>4
  <2> QED  BY <2>1 DEF Telling, R!RestartTold
<1>6. CASE \/ R!StopBeforeReplace \/ R!Replace \/ R!Exists \/ R!Stop \/ R!Unregister
           \/ R!WaitForRemoval \/ R!EnsureUser \/ R!EnsureAlias \/ R!Start \/ R!RemoveLo0
           \/ R!RemoveUser \/ R!DeleteProgram \/ R!DeletionEnds \/ R!ServiceEnds
           \/ R!ServiceStarts \/ UNCHANGED R!vars
  <2>1. UNCHANGED <<wired, live, told, lost, report>> /\ todo' \subseteq todo
    BY <1>6 DEF R!StopBeforeReplace, R!Replace, R!Exists, R!Stop, R!Unregister,
       R!WaitForRemoval, R!EnsureUser, R!EnsureAlias, R!Start, R!RemoveLo0, R!RemoveUser,
       R!DeleteProgram, R!DeletionEnds, R!ServiceEnds, R!ServiceStarts, R!vars, R!resolver,
       R!Done, R!Without
  <2> QED  BY <2>1 DEF Telling, R!RestartTold
<1>7. CASE R!Register \/ R!Wait \/ R!Delete
  <2>1. UNCHANGED <<wired, live, told, lost>> /\ todo' \subseteq todo
    BY <1>7 DEF R!Register, R!Wait, R!Delete, R!resolver, R!Done, R!Without
  <2>2. report'.restart = report.restart
    BY <1>1, <1>7 DEF R!Register, R!Wait, R!Delete
  <2> QED  BY <2>1, <2>2 DEF Telling, R!RestartTold
<1> QED  BY <1>2, <1>3, <1>4, <1>5, <1>6, <1>7 DEF R!Next

(* After an install of dig-dns where no call failed the service that runs  *)
(* is the one just installed; of a resolver that is live only after a      *)
(* restart some run has told since the machine came up, also when a later  *)
(* one had nothing to apply, unless the run that wired it died or had no   *)
(* report; after an uninstall where no call failed nothing is left but     *)
(* what an earlier run could not take back.                                *)
THEOREM ResolverIsWired == Spec => []ResolverHolds
<1>1. Init => (which = "dns" => ResolverInvariant /\ Telling)
  <2>1. R!Init => Telling
    BY DEF R!Init, R!Says, Telling, R!RestartTold
  <2> QED  BY <2>1, ResolverStarts DEF Init
<1>2. (which = "dns" => ResolverInvariant /\ Telling) /\ [Next]_vars
        => (which = "dns" => ResolverInvariant /\ Telling)'
  <2> SUFFICES ASSUME which = "dns" => ResolverInvariant /\ Telling, [Next]_vars, which' = "dns"
               PROVE  (ResolverInvariant /\ Telling)'
    OBVIOUS
  <2>1. which = "dns" /\ (R!Next \/ UNCHANGED R!vars)
    BY DEF Next, vars, R!vars
  <2> QED  BY <2>1, ResolverKept, ResolverStutters, ResolverTells
<1>3. (which = "dns" => ResolverInvariant /\ Telling) => ResolverHolds
  BY ResolverEnds DEF ResolverHolds, ResolverInvariant
<1> QED  BY <1>1, <1>2, <1>3, PTL DEF Spec

=============================================================================
