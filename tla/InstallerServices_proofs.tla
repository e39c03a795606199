----------------------- MODULE InstallerServices_proofs -----------------------
(***************************************************************************)
(* What a run of the installer promises of the services' registrations,    *)
(* for every set of machines, every number of releases and of runs: what a *)
(* rollback leaves alone, what a plan that declines a component keeps, and *)
(* what the verdict of a completed run is worth.  The argument rests on    *)
(* where in its rows a run is: what has been decided of a service holds    *)
(* from its first row to its last, and no other row touches it.            *)
(***************************************************************************)
EXTENDS Installer_proofs

(* The rows that resolve and register a service.                           *)
ResRow(s) == CASE s = "dig-node"    -> 6
               [] s = "dig-dns"     -> 15
               [] s = "dig-updater" -> 20
               [] s = "dig-relay"   -> 24

RegRow(s) == CASE s = "dig-node"    -> 10
               [] s = "dig-dns"     -> 19
               [] s = "dig-updater" -> 23
               [] s = "dig-relay"   -> 27

Stoppable == {"dig-node", "dig-dns", "dig-relay"}

LEMMA ServiceRows ==
  ASSUME NEW i \in 1..31
  PROVE  /\ Rows[i].do \in {"supersede", "migrate"} <=> i <= 2
         /\ Rows[i].do = "register" => i = RegRow(Rows[i].on)
         /\ Rows[i].do = "stop" =>
              Rows[i].on \in Stoppable /\ Rows[i].of = Rows[i].on /\ i < RegRow(Rows[i].on)
         /\ Rows[i].do = "resolve" /\ Rows[i].on \in Services => i = ResRow(Rows[i].on)
         /\ \A s \in Services : ResRow(s) <= i /\ i <= RegRow(s) => Rows[i].of = s
  BY SMTT(60) DEF Rows, Row, Services, ResRow, RegRow, Stoppable

(* The row that writes a program comes after the one that resolves it.     *)
LEMMA WritesLater ==
  ASSUME NEW i \in 1..31, NEW s \in Services, Rows[i].do \in Writing, Rows[i].on = s
  PROVE  i > ResRow(s)
  BY SMTT(60) DEF Rows, Row, Services, ResRow, Writing

LEMMA StoppedFirst ==
  ASSUME NEW i \in 1..31, NEW j \in 1..31,
         Rows[i].do = "stop", Rows[j].do \in Writing, Rows[j].on = Rows[i].on
  PROVE  i < j
  BY SMTT(60) DEF Rows, Row, Writing

LEMMA RowNumbers ==
  ASSUME NEW s \in Services
  PROVE  ResRow(s) \in 1..31 /\ RegRow(s) \in 1..31 /\ ResRow(s) < RegRow(s) /\ 2 < ResRow(s)
  BY DEF Services, ResRow, RegRow

---------------------------------------------------------------------------
(* Where a run is.                                                         *)
Order ==
  mode = "steps" =>
    /\ InPlan(row)
    /\ at <= 2 =>
         failedRegs = {} /\ \A s \in Services : reg[s] = "legacy" => before.reg[s] = "legacy"
    /\ \A s \in Services : outcome[s] # "none" => RegRow(s) < at

(* The decision in hand is that of the component in hand.                  *)
Fresh ==
  mode = "steps" =>
    \A s \in Services : ResRow(s) < at /\ at <= RegRow(s) =>
      IF s = "dig-relay" THEN decision = "Install"
                         ELSE decision = "Install" => before.file[s] = Absent

Packaging == \A s \in Services : "packaged" \in {reg[s], before.reg[s]} => s = "dig-node"

(* What the report says of a service, when services are started.           *)
Good(s) == outcome[s] = "healthy" \/ (outcome[s] = "installed" /\ s \notin {"dig-node", "dig-dns"})

Backed ==
  mode \in {"steps", "done"} =>
    /\ \A s \in Services : s \in running /\ reg[s] = "none" => Orphaned(s)
    /\ halted \subseteq Selected \cap Stoppable
    /\ plan.start => \A s \in Services : Good(s) =>
         s \notin halted /\ (reg[s] # "none" \/ Orphaned(s))

Verdict ==
  mode = "done" /\ ready =>
    \A s \in Services : /\ s \in audited => reg[s] # "legacy"
                        /\ s \in Selected /\ plan.start => Good(s)

(* What a plan that does not select it leaves a service.                   *)
Kept ==
  mode \in {"steps", "done"} =>
    \A s \in Services \ (Selected \cup failedRegs) : before.reg[s] # "none" => reg[s] # "none"

(* What a rollback has to leave alone, and that no entry is against it.    *)
Protected(s) ==
  /\ s \notin failedRegs \cup {"dig-relay"}
  /\ before.reg[s] = "packaged" \/ (before.reg[s] = "own" /\ before.file[s] # Absent)

Undoable(e) ==
  /\ e.kind = "BeaconRearmed" => before.reg[e.on] = "legacy" /\ e.on \notin Selected
  /\ e.kind = "ServiceRegistered" =>
       \/ e.on = "dig-relay" \/ before.file[e.on] = Absent
       \/ before.reg[e.on] = "legacy" /\ e.on \notin Selected

Sparing ==
  mode \in {"steps", "rollback", "failed"} =>
    /\ \A s \in Services : Protected(s) => reg[s] = before.reg[s]
    /\ \A i \in DOMAIN guard : Undoable(guard[i])

(* A service that was stopped had a program, so that no entry is about its *)
(* registration; and is registered, as it was when it was stopped.         *)
Stopping ==
  mode \in {"steps", "rollback", "failed"} =>
    /\ mode = "steps" /\ at <= 2 => halted = {}
    /\ \A s \in halted \ {"dig-relay"} :
         /\ s \in Selected \cap Stoppable /\ before.file[s] # Absent
         /\ s \in failedRegs \/ reg[s] # "none"

Standing ==
  Order /\ Fresh /\ Packaging /\ Backed /\ Verdict /\ Kept /\ Sparing /\ Stopping

LEMMA StandingSuffices ==
  ASSUME TypeOK, Standing, RollbackRestoresFiles
  PROVE  RollbackSparesServices /\ DecliningKeepsRegistration /\ ReadyHolds
  <1>1. RollbackSparesServices
    <2>1. Stoppable \cap Services \subseteq Files
      BY DEF Stoppable, Files, FilesOf, Components, Rows, Row
    <2>2. ASSUME mode = "failed", NEW s \in halted \ (failedRegs \cup {"dig-relay"})
          PROVE  Startable(s)
      BY <2>1, <2>2 DEF Standing, Stopping, Startable, RollbackRestoresFiles, TypeOK
    <2> QED
      BY <2>2 DEF Standing, Sparing, Protected, RollbackSparesServices
  <1>2. DecliningKeepsRegistration
    BY DEF Standing, Kept, DecliningKeepsRegistration
  <1>3. ReadyMeansRegistered
    BY DEF Standing, Verdict, Backed, ReadyMeansRegistered
  <1>4. ReadyMeansRestarted
    <2>1. ASSUME mode = "done", ready, plan.start, NEW s \in halted PROVE FALSE
      <3>1. s \in Services /\ s \in Selected
        BY <2>1 DEF Standing, Backed, Stoppable, Services
      <3> QED
        BY <2>1, <3>1 DEF Standing, Verdict, Backed
    <2> QED
      BY <2>1 DEF ReadyMeansRestarted
  <1> QED
    BY <1>1, <1>2, <1>3, <1>4 DEF ReadyHolds

---------------------------------------------------------------------------
(* A run, where it begins; and a host where none is in progress.           *)
LEMMA FreshStart ==
  ASSUME TypeOK, Standing, Begin \/ Crash \/ Reboot
  PROVE  Standing'
  <1>1. /\ reg' = reg /\ guard' = <<>> /\ failedRegs' = {} /\ at' = 1 /\ halted' = {}
        /\ \A s \in Services : outcome'[s] = "none"
        /\ before'.reg = reg' /\ before'.running = running' /\ before'.file = file'
        /\ mode' \in {"steps", "idle"}
    BY DEF Begin, Crash, Reboot, Forget, host, Snapshot
  <1>2. mode' = "steps" => InPlan(row)'
    BY <1>1, RowCount DEF InPlan, row, Rows, Row, Parts
  <1>3. Order' /\ Fresh'
    BY <1>1, <1>2, RowNumbers DEF Order, Fresh
  <1>4. Packaging'
    BY <1>1 DEF Standing, Packaging
  <1>5. Backed' /\ Verdict' /\ Kept'
    BY <1>1 DEF Backed, Verdict, Kept, Orphaned, Good
  <1>6. Sparing'
    <2>1. DOMAIN guard' = {}
      BY <1>1
    <2> QED
      BY <1>1, <2>1 DEF Sparing
  <1>7. Stopping'
    BY <1>1 DEF Stopping
  <1> QED
    BY <1>3, <1>4, <1>5, <1>6, <1>7 DEF Standing

(* Proceeding leads to the next row of the plan: no component is entered   *)
(* but by its first row.                                                   *)
LEMMA EnteredFirst ==
  ASSUME TypeOK, Proceed, NEW s \in Services, ResRow(s) < at', at' <= RegRow(s)
  PROVE  ResRow(s) <= at
  <1>1. at \in 1..31 /\ at' \in 1..31 /\ ResRow(s) \in 1..31
    BY RowCount, RowNumbers DEF TypeOK, Proceed
  <1>2. Rows[at'].of = s /\ Rows[ResRow(s)].of = s
    BY <1>1, ServiceRows, RowNumbers
  <1>3. InPlan(Rows[at']) => InPlan(Rows[ResRow(s)])
    BY <1>2 DEF InPlan
  <1> QED
    BY <1>1, <1>3, RowCount DEF Proceed

LEMMA Proceeding ==
  ASSUME TypeOK, Proceed
  PROVE  /\ at \in 1..31 /\ at' \in 1..31 /\ at < at' /\ InPlan(row)'
         /\ UNCHANGED <<mode, verdict, runs, plan, machine>>
         /\ Selected' = Selected
  BY RowCount DEF TypeOK, Proceed, InPlan, row, Parts, Selected, Windows

(* A step of a run that leaves the services alone.                         *)
ServicesAside ==
  /\ UNCHANGED <<reg, outcome, failedRegs, halted, before>>
  /\ running' \cap Services = running \cap Services
  /\ \A i \in DOMAIN guard' : guard'[i].kind \in {"ServiceRegistered", "BeaconRearmed"} =>
       \E j \in DOMAIN guard : guard[j] = guard'[i]

LEMMA AsideProceeds ==
  ASSUME TypeOK, Standing, mode = "steps", Proceed, ServicesAside, at > 2, Fresh'
  PROVE  Standing'
  <1> USE DEF Standing, ServicesAside
  <1>1. /\ at \in 1..31 /\ at' \in 1..31 /\ at < at' /\ InPlan(row)'
        /\ UNCHANGED <<mode, verdict, runs, plan, machine>> /\ Selected' = Selected
    BY Proceeding
  <1>2. at' > 2
    BY <1>1
  <1>3. Order'
    BY <1>1, <1>2, RowNumbers DEF Order
  <1>4. Packaging' /\ Verdict' /\ Kept'
    BY <1>1 DEF Packaging, Verdict, Kept
  <1>5. Backed'
    BY <1>1 DEF Backed, Orphaned, Good
  <1>6. Sparing' /\ Stopping'
    BY <1>1, <1>2 DEF Sparing, Protected, Undoable, Stopping
  <1> QED
    BY <1>3, <1>4, <1>5, <1>6

LEMMA AsideFails ==
  ASSUME TypeOK, Standing, mode = "steps", Fail, ServicesAside
  PROVE  Standing'
  <1> USE DEF Standing, ServicesAside
  <1>1. mode' = "rollback" /\ Selected' = Selected
    BY DEF Fail, Selected
  <1>2. Sparing' /\ Stopping'
    BY <1>1 DEF Sparing, Protected, Undoable, Stopping
  <1> QED
    BY <1>1, <1>2 DEF Order, Fresh, Packaging, Backed, Verdict, Kept

(* The decision is kept from row to row of a component.                    *)
LEMMA FreshKept ==
  ASSUME TypeOK, Fresh, mode = "steps", row.do # "resolve", Proceed,
         UNCHANGED <<decision, before>>
  PROVE  Fresh'
  <1>1. at \in 1..31 /\ at' \in 1..31 /\ at < at' /\ row = Rows[at]
    BY Proceeding DEF row
  <1>2. ASSUME NEW s \in Services, ResRow(s) < at', at' <= RegRow(s)
        PROVE  ResRow(s) < at /\ at <= RegRow(s)
    <2>1. ResRow(s) <= at
      BY <1>2, EnteredFirst
    <2>2. Rows[ResRow(s)].do = "resolve"
      BY DEF ResRow, Services, Rows, Row
    <2>3. at # ResRow(s)
      BY <1>1, <2>2
    <2> QED
      BY <1>1, <1>2, <2>1, <2>3, RowNumbers
  <1> QED
    BY <1>2 DEF Fresh

---------------------------------------------------------------------------
(* The steps of a run, one by one.                                         *)
LEMMA InHand ==
  ASSUME TypeOK
  PROVE  /\ at \in 1..31 /\ row = Rows[at]
         /\ row.do \in {"supersede", "migrate"} <=> at <= 2
  BY RowCount, ServiceRows DEF TypeOK, row

LEMMA SupersedeStanding ==
  ASSUME TypeOK, Standing, Supersede
  PROVE  Standing'
  <1> USE DEF Standing
  <1>1. PICK S \in SUBSET {s \in Services \cap Selected : reg[s] = "msi"} : Unregister(S)
    BY DEF Supersede
  <1>2. /\ mode = "steps" /\ at <= 2 /\ Proceed /\ row.do = "supersede"
        /\ UNCHANGED <<file, saved, staged, user, book, hist>>
    BY InHand DEF Supersede, Doing
  <1>3. /\ \A s \in Services : reg'[s] = IF s \in S THEN "none" ELSE reg[s]
        /\ running' = running \ S
    BY <1>1 DEF Unregister
  <1>4. /\ at \in 1..31 /\ at' \in 1..31 /\ at < at' /\ InPlan(row)'
        /\ UNCHANGED <<mode, verdict, runs, plan, machine>> /\ Selected' = Selected
    BY <1>2, Proceeding
  <1>5. \A s \in Services : outcome[s] = "none"
    BY <1>2, <1>4, RowNumbers DEF Order
  <1>6. Order'
    BY <1>1, <1>2, <1>3, <1>4, <1>5 DEF Order, book, hist
  <1>7. Fresh'
    BY <1>2, FreshKept DEF book, hist
  <1>8. Packaging' /\ Verdict'
    BY <1>2, <1>3, <1>4 DEF Packaging, Verdict, hist
  <1>9. Backed'
    BY <1>1, <1>2, <1>3, <1>4, <1>5 DEF Backed, Good, Orphaned, book, hist
  <1>10. Kept'
    BY <1>1, <1>2, <1>3, <1>4 DEF Kept, hist
  <1>11. Sparing'
    <2>1. \A s \in Services : Protected(s) => s \notin S
      BY <1>1, <1>2 DEF Sparing, Protected
    <2> QED
      BY <1>2, <1>3, <1>4, <2>1 DEF Sparing, Protected, Undoable, book, hist
  <1>12. Stopping'
    BY <1>2, <1>4 DEF Stopping, hist
  <1> QED
    BY <1>6, <1>7, <1>8, <1>9, <1>10, <1>11, <1>12

LEMMA RearmEntriesAre ==
  ASSUME NEW S \in SUBSET Services, NEW i \in DOMAIN RearmEntries(S)
  PROVE  RearmEntries(S)[i].on \in S
  BY DEF RearmEntries, Entry

LEMMA MigrateStanding ==
  ASSUME TypeOK, Standing, Migrate
  PROVE  Standing'
  <1> USE DEF Standing
  <1> DEFINE Moves(seen, moved, gone, rearmed) ==
         /\ "dig-updater" \in moved => "dig-updater" \in gone
         /\ reg' = [s \in Services |-> IF s \in rearmed THEN "own"
                                       ELSE IF s \in gone THEN "none" ELSE reg[s]]
         /\ running' \in {running \ moved, (running \ moved) \cup (rearmed \cap {"dig-dns"})}
         /\ unmoved' = seen \ moved
         /\ claims' = rearmed
         /\ guard' = guard \o RearmEntries(rearmed)
         /\ failedRegs' = Declined(moved) \ rearmed
  <1>n. PICK seen \in SUBSET (IF Privileged = {} THEN {} ELSE Legacy) :
        \E moved \in SUBSET seen :
        \E gone \in SUBSET moved :
        \E rearmed \in SUBSET {s \in Declined(moved) : ~plan.customRoot /\ file[s] # Absent} :
          Moves(seen, moved, gone, rearmed)
    BY Zenon DEF Migrate
  <1>m. PICK moved \in SUBSET seen :
        \E gone \in SUBSET moved :
        \E rearmed \in SUBSET {s \in Declined(moved) : ~plan.customRoot /\ file[s] # Absent} :
          Moves(seen, moved, gone, rearmed)
    BY <1>n
  <1>g. PICK gone \in SUBSET moved :
         \E rearmed \in SUBSET {s \in Declined(moved) : ~plan.customRoot /\ file[s] # Absent} :
          Moves(seen, moved, gone, rearmed)
    BY <1>m
  <1>r. PICK rearmed \in SUBSET Declined(moved) : Moves(seen, moved, gone, rearmed)
    BY <1>g
  <1>1. /\ moved \subseteq Legacy /\ gone \subseteq moved /\ rearmed \subseteq Declined(moved)
        /\ \A s \in Services : reg'[s] = IF s \in rearmed THEN "own"
                                         ELSE IF s \in gone THEN "none" ELSE reg[s]
        /\ running' \in {running \ moved, (running \ moved) \cup (rearmed \cap {"dig-dns"})}
        /\ guard' = guard \o RearmEntries(rearmed)
        /\ failedRegs' = Declined(moved) \ rearmed
    BY <1>n, <1>m, <1>g, <1>r
  <1> HIDE DEF Moves
  <1>2. /\ mode = "steps" /\ at <= 2 /\ Proceed /\ row.do = "migrate" /\ row = Rows[at]
        /\ UNCHANGED <<file, decision, outcome, before, halted>>
    BY InHand DEF Migrate, Doing
  <1>3. /\ at \in 1..31 /\ at' \in 1..31 /\ at < at' /\ InPlan(row)'
        /\ UNCHANGED <<mode, verdict, runs, plan, machine>> /\ Selected' = Selected
    BY <1>2, Proceeding
  <1>4. failedRegs = {} /\ \A s \in Services :
          outcome[s] = "none" /\ (reg[s] = "legacy" => before.reg[s] = "legacy")
    BY <1>2, <1>3, RowNumbers DEF Order
  <1>5. /\ moved \subseteq Services /\ rearmed \subseteq moved \ Selected
        /\ \A s \in moved : reg[s] = "legacy" /\ before.reg[s] = "legacy"
    BY <1>1, <1>4 DEF Legacy, Declined
  <1>6. at' > 2
    <2>1. Rows[1].do = "supersede"
      BY DEF Rows, Row
    <2> QED
      BY <1>2, <1>3, <2>1
  <1>7. Order'
    BY <1>2, <1>3, <1>4, <1>6 DEF Order
  <1>8. Fresh'
    BY <1>2, FreshKept
  <1>9. Packaging' /\ Verdict'
    BY <1>1, <1>2, <1>3 DEF Packaging, Verdict
  <1>10. Backed'
    BY <1>1, <1>2, <1>3, <1>4, <1>5 DEF Backed, Good, Orphaned
  <1>11. Kept'
    BY <1>1, <1>2, <1>3, <1>4, <1>5 DEF Kept, Declined
  <1>12. Sparing'
    <2>1. \A s \in Services : Protected(s)' => reg'[s] = before'.reg[s]
      BY <1>1, <1>2, <1>3, <1>4, <1>5 DEF Sparing, Protected
    <2>2. \A i \in DOMAIN guard' : Undoable(guard[i])'
      <3>1. rearmed \in SUBSET Services /\ guard \in Seq(Entries)
            /\ RearmEntries(rearmed) \in Seq(Entries)
        <4>1. rearmed \in SUBSET Services /\ guard \in Seq(Entries)
          BY <1>5 DEF TypeOK
        <4> QED
          BY <4>1, EntryTypes DEF RearmEntries, Services
      <3>2. ASSUME NEW i \in DOMAIN guard'
            PROVE  \/ i \in DOMAIN guard /\ guard'[i] = guard[i]
                   \/ \E j \in DOMAIN RearmEntries(rearmed) : guard'[i] = RearmEntries(rearmed)[j]
        <4> DEFINE g == guard
                   r == RearmEntries(rearmed)
        <4>1. g \in Seq(Entries) /\ r \in Seq(Entries) /\ guard' = g \o r
          BY <1>1, <3>1
        <4> HIDE DEF g, r
        <4>2. i \in 1..(Len(g) + Len(r)) /\ DOMAIN g = 1..Len(g) /\ DOMAIN r = 1..Len(r)
              /\ guard'[i] = IF i <= Len(g) THEN g[i] ELSE r[i - Len(g)]
          BY <4>1
        <4>3. i \in DOMAIN g \/ i - Len(g) \in DOMAIN r
          BY <4>1, <4>2
        <4>4. (i \in DOMAIN g /\ guard'[i] = g[i]) \/ \E j \in DOMAIN r : guard'[i] = r[j]
          BY <4>1, <4>2, <4>3
        <4> QED
          BY <4>4 DEF g, r
      <3>3. \A j \in DOMAIN RearmEntries(rearmed) :
              /\ before.reg[RearmEntries(rearmed)[j].on] = "legacy"
              /\ RearmEntries(rearmed)[j].on \notin Selected
        BY <1>5, <3>1, RearmEntriesAre
      <3>5. \A e : before.reg[e.on] = "legacy" /\ e.on \notin Selected => Undoable(e)
        BY DEF Undoable
      <3>6. \A i \in DOMAIN guard' : Undoable(guard'[i])
        BY <1>2, <3>2, <3>3, <3>5 DEF Sparing
      <3> QED
        BY <1>2, <1>3, <3>6 DEF Undoable
    <2> QED
      BY <2>1, <2>2 DEF Sparing
  <1>13. Stopping'
    BY <1>2, <1>3 DEF Stopping
  <1> QED
    BY <1>7, <1>8, <1>9, <1>10, <1>11, <1>12, <1>13

(* A component that is resolved, or stopped, has not been written yet, so  *)
(* what is in its place is what the run has found.                         *)
LEMMA AsFound ==
  ASSUME TypeOK, Accounts, mode = "steps", NEW s \in Files,
         \A i \in 1..31 : Rows[i].do \in Writing /\ Rows[i].on = s => at < i
  PROVE  file[s] = before.file[s]
  <1>1. ~Touched(s)
    <2> SUFFICES ASSUME NEW i \in DOMAIN guard, FileEntry(guard[i]), guard[i].on = s
                 PROVE  FALSE
      BY DEF Touched
    <2>1. PICK k \in DOMAIN Rows : k < at /\ Rows[k].do \in Writing /\ Rows[k].on = s
      BY DEF Accounts, EntriesBehind
    <2>2. k \in 1..31
      BY RowCount
    <2>3. at \in 1..31
      BY InHand
    <2>4. at < k
      BY <2>1, <2>2
    <2> QED
      BY <2>1, <2>2, <2>3, <2>4
  <1> QED
    BY <1>1 DEF Accounts, DamageKnown, UntouchedSame, Same

LEMMA ResolveStanding ==
  ASSUME TypeOK, Accounts, Standing, Resolve
  PROVE  Standing'
  <1>1. /\ mode = "steps" /\ row.do = "resolve" /\ row = Rows[at] /\ at \in 1..31 /\ at > 2
        /\ UNCHANGED <<host, guard, outcome, unmoved, claims, hist>>
    BY InHand DEF Resolve, Doing
  <1>2. ServicesAside
    BY <1>1 DEF ServicesAside, host, hist
  <1>3. CASE Fail
    BY <1>1, <1>2, <1>3, AsideFails
  <1>4. CASE Proceed /\ decision' \in {Decision(row.on), "Unavailable"}
                     /\ (row.on = "dig-relay" => decision' = Decision(row.on))
    <2>1. at' \in 1..31 /\ at < at' /\ UNCHANGED mode
      BY <1>4, Proceeding
    <2>2. ASSUME NEW s \in Services, ResRow(s) < at', at' <= RegRow(s)
          PROVE  IF s = "dig-relay" THEN decision' = "Install"
                 ELSE decision' = "Install" => before.file[s] = Absent
      <3>1. at = ResRow(s) /\ row.on = s
        <4>1. ResRow(s) <= at
          BY <1>4, <2>2, EnteredFirst
        <4>2. row.of = s
          BY <1>1, <2>1, <2>2, <4>1, ServiceRows, RowNumbers
        <4>3. \A i \in 1..31 : Rows[i].do = "resolve" /\ Rows[i].of \in Services =>
                Rows[i].on = Rows[i].of
          BY SMTT(60) DEF Rows, Row, Services
        <4> QED
          BY <1>1, <4>2, <4>3, ServiceRows
      <3>2. s = "dig-relay" => decision' = "Install"
        BY <1>4, <3>1 DEF Decision
      <3>3. s # "dig-relay" /\ decision' = "Install" => file[s] = Absent
        BY <1>4, <3>1 DEF Decision
      <3>4. s \in Files
        BY <1>1, <3>1, RowTargets, RowCount
      <3>5. file[s] = before.file[s]
        BY <1>1, <3>1, <3>4, WritesLater, AsFound
      <3> QED
        BY <3>2, <3>3, <3>5
    <2>3. Fresh'
      BY <1>1, <2>2 DEF Fresh, hist
    <2> QED
      BY <1>1, <1>2, <1>4, <2>3, AsideProceeds
  <1>5. \/ Fail
        \/ Proceed /\ decision' \in {Decision(row.on), "Unavailable"}
                   /\ (row.on = "dig-relay" => decision' = Decision(row.on))
    BY DEF Resolve
  <1> QED
    BY <1>3, <1>4, <1>5

LEMMA StopStanding ==
  ASSUME TypeOK, Accounts, Standing, Stop
  PROVE  Standing'
  <1>1. /\ mode = "steps" /\ row.do = "stop" /\ row = Rows[at] /\ at \in 1..31 /\ at > 2
        /\ UNCHANGED <<file, saved, staged, reg, user, book, before, damaged, failedRegs, stuck>>
    BY InHand DEF Stop, Doing
  <1>2. /\ running' \subseteq running /\ halted' \subseteq halted \cup {row.on}
        /\ Fail => UNCHANGED <<running, halted>>
        /\ Fail \/ Proceed
        /\ row.on \in halted' \ halted => file[row.on] # Absent /\ reg[row.on] # "none"
    BY DEF Stop, Fail, Proceed, Addressable
  <1>3. CASE Fail
    <2>1. ServicesAside
      BY <1>1, <1>2, <1>3 DEF ServicesAside, book
    <2> QED
      BY <1>1, <1>3, <2>1, AsideFails
  <1>4. CASE Proceed
    <2> USE DEF Standing
    <2>1. /\ at' \in 1..31 /\ at < at' /\ InPlan(row)'
          /\ UNCHANGED <<mode, verdict, runs, plan, machine>> /\ Selected' = Selected
      BY <1>4, Proceeding
    <2>2. row.on \in Stoppable /\ row.of = row.on /\ at < RegRow(row.on)
      BY <1>1, ServiceRows
    <2>3. row.on \in Services /\ RegRow(row.on) \in 1..31 /\ outcome[row.on] = "none"
      BY <1>1, <2>2, RowNumbers DEF Order, Stoppable, Services
    <2>4. row.on \in Selected
      BY <1>1, <2>2, <2>3 DEF Order, InPlan, Parts, Services
    <2>5. Order'
      BY <1>1, <2>1, RowNumbers DEF Order, book
    <2>6. Fresh'
      BY <1>1, <1>4, FreshKept DEF book
    <2>7. Packaging' /\ Verdict' /\ Kept'
      BY <1>1, <2>1 DEF Packaging, Verdict, Kept
    <2>8. Backed'
      BY <1>1, <1>2, <2>1, <2>2, <2>3, <2>4 DEF Backed, Good, Orphaned, book
    <2>9. Sparing'
      BY <1>1, <2>1 DEF Sparing, Protected, Undoable, book
    <2>10. Stopping'
      <3>1. row.on \in Files
        BY <2>2 DEF Stoppable, Files, FilesOf, Components, Rows, Row
      <3>2. file[row.on] = before.file[row.on]
        BY <1>1, <3>1, StoppedFirst, AsFound
      <3>3. at' > 2
        BY <1>1, <2>1
      <3> QED
        BY <1>1, <1>2, <2>1, <2>2, <2>4, <3>2, <3>3 DEF Stopping
    <2> QED
      BY <2>5, <2>6, <2>7, <2>8, <2>9, <2>10
  <1> QED
    BY <1>2, <1>3, <1>4

(* Writing files, and making entries of them.                              *)
LEMMA Appended ==
  ASSUME NEW g \in Seq(Entries), NEW e \in Entries,
         guard = g, guard' = Append(g, e), e.kind \notin {"ServiceRegistered", "BeaconRearmed"}
  PROVE  \A i \in DOMAIN guard' : guard'[i].kind \in {"ServiceRegistered", "BeaconRearmed"} =>
           \E j \in DOMAIN guard : guard[j] = guard'[i]
  <1>1. DOMAIN guard' = 1..(Len(g) + 1) /\ DOMAIN g = 1..Len(g)
    OBVIOUS
  <1>2. \A i \in DOMAIN g : guard'[i] = g[i]
    OBVIOUS
  <1>3. guard'[Len(g) + 1] = e
    OBVIOUS
  <1> QED
    BY <1>1, <1>2, <1>3

LEMMA WriteStanding ==
  ASSUME TypeOK, Standing, Write \/ Place \/ Alias
  PROVE  Standing'
  <1>1. /\ mode = "steps" /\ row.do \in Writing /\ at > 2 /\ at \in 1..31
        /\ UNCHANGED <<reg, running, user, decision, outcome, unmoved, claims,
                       before, failedRegs, stuck, halted>>
        /\ Download(row.on) \/ NoDownload
    BY InHand DEF Write, Place, Alias, Doing, Writing
  <1>2. row.on \in Files /\ guard \in Seq(Entries)
    BY <1>1, InHand, RowTargets DEF TypeOK
  <1>3. \/ Fail /\ UNCHANGED guard
        \/ Proceed /\ UNCHANGED guard
        \/ /\ Proceed
           /\ \E k \in {"FileCreated", "FileReplaced", "StagingCreated"} :
                guard' = Append(guard, Entry(k, row.on))
    BY <1>1 DEF Download, NoDownload, Replace, StageReplacement, FetchOrWriteFails
  <1>4. ServicesAside
    <2>1. CASE UNCHANGED guard
      BY <1>1, <2>1 DEF ServicesAside
    <2>2. ASSUME NEW k \in {"FileCreated", "FileReplaced", "StagingCreated"},
                 guard' = Append(guard, Entry(k, row.on))
          PROVE  ServicesAside
      <3>1. Entry(k, row.on) \in Entries /\ Entry(k, row.on).kind = k
        BY <1>2, <2>2, EntryTypes DEF Entry
      <3> QED
        BY <1>1, <1>2, <2>2, <3>1, Appended DEF ServicesAside
    <2> QED
      BY <1>3, <2>1, <2>2
  <1>5. CASE Fail
    BY <1>1, <1>4, <1>5, AsideFails
  <1>6. CASE Proceed
    <2>1. Fresh'
      BY <1>1, <1>6, FreshKept DEF Standing, Writing
    <2> QED
      BY <1>1, <1>4, <1>6, <2>1, AsideProceeds
  <1> QED
    BY <1>3, <1>5, <1>6

LEMMA UserStanding ==
  ASSUME TypeOK, Standing, Autostart \/ Scheme \/ Harden
  PROVE  Standing'
  <1>1. /\ mode = "steps" /\ row.do \in {"autostart", "scheme", "harden"} /\ at > 2
        /\ Proceed /\ at \in 1..31
        /\ UNCHANGED <<reg, decision, outcome, before, failedRegs, halted>>
        /\ running' \in {running, running \cup {"dig-app"}}
        /\ UNCHANGED guard \/ \E a \in {"autostart", row.on} :
                                guard' = Append(guard, Entry("Artifact", a))
    <2>1. CASE Autostart
      BY <2>1, InHand DEF Autostart, Doing, hist
    <2>2. CASE Scheme
      BY <2>2, InHand DEF Scheme, Artifact, Doing, hist
    <2>3. CASE Harden
      BY <2>3, InHand DEF Harden, Artifact, Doing, hist
    <2> QED
      BY <2>1, <2>2, <2>3
  <1>2. "dig-app" \notin Services /\ guard \in Seq(Entries)
    BY DEF Services, TypeOK
  <1>3. ServicesAside
    <2>1. CASE UNCHANGED guard
      BY <1>1, <1>2, <2>1 DEF ServicesAside
    <2>2. ASSUME NEW a, guard' = Append(guard, Entry("Artifact", a))
          PROVE  ServicesAside
      <3> DEFINE g == guard
                 e == Entry("Artifact", a)
      <3>1. g \in Seq(Entries) /\ e.kind = "Artifact" /\ guard' = Append(g, e)
        BY <1>2, <2>2 DEF Entry
      <3> HIDE DEF g, e
      <3>2. /\ DOMAIN guard' = 1..(Len(g) + 1) /\ DOMAIN g = 1..Len(g)
            /\ \A i \in DOMAIN g : guard'[i] = g[i]
            /\ guard'[Len(g) + 1] = e
        BY <3>1
      <3>3. \A i \in DOMAIN guard' : guard'[i].kind \in {"ServiceRegistered", "BeaconRearmed"} =>
              \E j \in DOMAIN g : g[j] = guard'[i]
        BY <3>1, <3>2
      <3> QED
        BY <1>1, <1>2, <3>3 DEF ServicesAside, g
    <2> QED
      BY <1>1, <2>1, <2>2
  <1>4. Fresh'
    BY <1>1, FreshKept DEF Standing
  <1> QED
    BY <1>1, <1>3, <1>4, AsideProceeds

LEMMA FinishStanding ==
  ASSUME TypeOK, Standing, Finish
  PROVE  Standing'
  <1> USE DEF Standing
  <1>1. /\ mode = "steps" /\ mode' = "done" /\ UNCHANGED <<at, runs, plan, machine>>
        /\ ready' => Ready(audited')
        /\ UNCHANGED <<file, staged, reg, running, user, book, hist>>
    BY DEF Finish, Doing
  <1>2. Selected' = Selected
    BY <1>1 DEF Selected
  <1>3. Order' /\ Fresh' /\ Packaging' /\ Sparing' /\ Stopping'
    BY <1>1 DEF Order, Fresh, Packaging, Sparing, Stopping, hist
  <1>4. Backed' /\ Kept'
    BY <1>1, <1>2 DEF Backed, Kept, Good, Orphaned, book, hist
  <1>5. Verdict'
    <2> SUFFICES ASSUME Ready(audited')
                 PROVE  \A s \in Services : /\ s \in audited' => reg[s] # "legacy"
                                            /\ s \in Selected /\ plan.start => Good(s)
      BY <1>1, <1>2 DEF Verdict, Good, book
    <2> QED
      BY DEF Ready, ServiceReady, Good
  <1> QED
    BY <1>3, <1>4, <1>5

(* Undoing: an entry of a service is one a rollback may undo.              *)
LEMMA Shortened ==
  ASSUME TypeOK, NEW kinds, Undoing(kinds)
  PROVE  /\ mode = "rollback" /\ mode' = "rollback"
         /\ \A i \in DOMAIN guard' : i \in DOMAIN guard /\ guard'[i] = guard[i]
         /\ last.kind \in kinds /\ \E i \in DOMAIN guard : guard[i] = last
         /\ UNCHANGED <<before, failedRegs, halted>> /\ Selected' = Selected
  <1> DEFINE g == guard
  <1>1. g \in Seq(Entries) /\ g # <<>> /\ guard' = SubSeq(g, 1, Len(g) - 1)
    BY DEF TypeOK, Undoing
  <1> HIDE DEF g
  <1>2. Len(g) \in Nat \ {0} /\ DOMAIN g = 1..Len(g)
    BY <1>1
  <1>3. \A i \in DOMAIN guard' : i \in DOMAIN g /\ guard'[i] = g[i]
    BY <1>1, <1>2
  <1>4. Len(g) \in DOMAIN g
    BY <1>2
  <1> QED
    BY <1>3, <1>4 DEF Undoing, last, g, Selected

LEMMA RollBackStanding ==
  ASSUME TypeOK, Standing, RollBack
  PROVE  Standing'
  <1> USE DEF Standing
  <1>1. /\ mode = "rollback" /\ mode' = "rollback"
        /\ \A i \in DOMAIN guard' : i \in DOMAIN guard /\ guard'[i] = guard[i]
        /\ \E i \in DOMAIN guard : guard[i] = last
        /\ UNCHANGED <<before, failedRegs, halted>> /\ Selected' = Selected
    BY Shortened
    DEF RollBack, UndoFile, UndoStaging, UndoFileFails, UndoService, UndoBeacon, UndoArtifact
  <1>2. Order' /\ Fresh' /\ Backed' /\ Verdict' /\ Kept'
    BY <1>1 DEF Order, Fresh, Backed, Verdict, Kept
  <1>3. Undoable(last)
    BY <1>1 DEF Sparing
  <1>4. reg \in [Services -> Registrations] /\ \A r \in {"none", "legacy", "msi", "own"} : r # "packaged"
    BY DEF TypeOK
  <1>5. \/ UNCHANGED reg
        \/ UndoService /\ Addressable(last.on) /\ reg' = [reg EXCEPT ![last.on] = "none"]
        \/ UndoBeacon /\ reg' = [reg EXCEPT ![last.on] = "none"]
    BY DEF RollBack, UndoFile, UndoStaging, UndoFileFails, UndoService, UndoBeacon, UndoArtifact,
           Set
  <1>6. \A s \in Services : reg'[s] \in {reg[s], "none"}
    BY <1>4, <1>5
  <1>7. Packaging'
    BY <1>1, <1>6 DEF Packaging
  <1>8. Sparing'
    <2>1. ASSUME NEW s \in Services, Protected(s) PROVE reg'[s] = before.reg[s]
      <3>1. reg[s] = before.reg[s]
        BY <1>1, <2>1 DEF Sparing
      <3>2. CASE UndoService /\ Addressable(last.on) /\ reg' = [reg EXCEPT ![last.on] = "none"]
        <4>1. last.kind = "ServiceRegistered"
          BY <3>2 DEF UndoService, Undoing
        <4>2. last.on # s
          BY <1>3, <2>1, <3>1, <3>2, <4>1 DEF Undoable, Protected, Addressable
        <4> QED
          BY <1>4, <3>1, <3>2, <4>2
      <3>3. CASE UndoBeacon /\ reg' = [reg EXCEPT ![last.on] = "none"]
        <4>1. last.kind = "BeaconRearmed"
          BY <3>3 DEF UndoBeacon, Undoing
        <4>2. last.on # s
          BY <1>3, <2>1, <4>1 DEF Undoable, Protected
        <4> QED
          BY <1>4, <3>1, <3>3, <4>2
      <3> QED
        BY <1>5, <3>1, <3>2, <3>3
    <2> QED
      BY <1>1, <2>1 DEF Sparing, Protected, Undoable
  <1>9. Stopping'
    <2> SUFFICES ASSUME NEW s \in halted \ {"dig-relay"}, reg[s] # "none", s \in Services,
                        s \in Selected, before.file[s] # Absent
                 PROVE  reg'[s] # "none"
      BY <1>1 DEF Stopping, Stoppable, Services
    <2>1. last.kind \in {"ServiceRegistered", "BeaconRearmed"} => last.on # s
      BY <1>3 DEF Undoable
    <2>2. reg' # reg => last.kind \in {"ServiceRegistered", "BeaconRearmed"}
      BY <1>5 DEF UndoService, UndoBeacon, Undoing
    <2> QED
      BY <1>4, <1>5, <2>1, <2>2
  <1> QED
    BY <1>2, <1>7, <1>8, <1>9

LEMMA EnvironmentStanding ==
  ASSUME TypeOK, Standing,
         EndRollback \/ UNCHANGED vars \/ \E f \in Images : StartImage(f) \/ StopImage(f)
  PROVE  Standing'
  <1> USE DEF Standing
  <1>1. CASE EndRollback
    <2>1. Selected' = Selected
      BY <1>1 DEF EndRollback, Selected
    <2>2. /\ mode = "rollback" /\ mode' = "failed"
          /\ UNCHANGED <<file, reg, running, guard, before, failedRegs, halted>>
      BY <1>1 DEF EndRollback, host, book, hist
    <2>3. Sparing' /\ Stopping'
      BY <2>1, <2>2 DEF Sparing, Protected, Undoable, Stopping
    <2> QED
      BY <2>2, <2>3 DEF Order, Fresh, Packaging, Backed, Verdict, Kept
  <1>2. ASSUME UNCHANGED vars \/ \E f \in Images : StartImage(f) \/ StopImage(f)
        PROVE  Standing'
    <2>1. /\ UNCHANGED <<machine, file, reg, plan, mode, at, verdict, decision, guard, outcome,
                         before, failedRegs>>
          /\ halted' \subseteq halted
          /\ \A s \in Services : s \in running' => s \in running \/ reg[s] # "none"
      BY <1>2 DEF vars, StartImage, StopImage, book, hist, verdict
    <2>2. Selected' = Selected /\ InPlan(row)' = InPlan(row)
      BY <2>1 DEF Selected, InPlan, row, Parts, Windows
    <2>3. Order' /\ Fresh' /\ Packaging'
      BY <2>1, <2>2 DEF Order, Fresh, Packaging
    <2>4. Backed' /\ Verdict' /\ Kept'
      BY <2>1, <2>2 DEF Backed, Verdict, Kept, Good, Orphaned, verdict
    <2>5. Sparing' /\ Stopping'
      BY <2>1, <2>2 DEF Sparing, Protected, Undoable, Stopping
    <2> QED
      BY <2>3, <2>4, <2>5
  <1> QED
    BY <1>1, <1>2

(* The registration of the service in hand: of the others nothing changes. *)
LEMMA RegisterStanding ==
  ASSUME TypeOK, Standing, Register
  PROVE  Standing'
  <1> USE DEF Standing
  <1>s. PICK s : s = row.on
    OBVIOUS
  <1>0. mode = "steps" /\ row.do = "register" /\ row = Rows[at] /\ at \in 1..31
    <2>1. row.do = "register" /\ mode = "steps"
      BY DEF Register, Doing
    <2> QED
      BY <2>1, InHand
  <1>1a. s \in Services /\ row.of = s /\ at = RegRow(s) /\ at > 2
    <2>1. row.on \in Services /\ row.of = row.on
      BY <1>0, RowsTyped, RowCount
    <2> QED
      BY <1>0, <1>s, <2>1, ServiceRows, RowNumbers
  <1>1. /\ mode = "steps" /\ row.do = "register" /\ row = Rows[at] /\ at \in 1..31 /\ at > 2
        /\ Proceed /\ s \in Services /\ row.of = s /\ at = RegRow(s)
        /\ UNCHANGED <<file, saved, staged, user, decision, unmoved, claims, before, damaged,
                       stuck>>
        /\ halted' = halted \ running'
    BY <1>0, <1>1a DEF Register
  <1>2. /\ at' \in 1..31 /\ at < at' /\ InPlan(row)' /\ UNCHANGED <<mode, verdict, runs, plan, machine>>
        /\ Selected' = Selected
    BY <1>1, Proceeding
  <1>3. s \in Selected
    BY <1>1 DEF Order, InPlan, Parts, Services
  <1>4. ResRow(s) < at /\ at <= RegRow(s) /\ RegRow(s) \in 1..31
    BY <1>1, RowNumbers
  <1>5. IF s = "dig-relay" THEN decision = "Install"
                           ELSE decision = "Install" => before.file[s] = Absent
    BY <1>1, <1>4 DEF Fresh
  <1>6. outcome[s] = "none"
    BY <1>1, <1>4 DEF Order
  <1>7. /\ reg \in [Services -> Registrations] /\ guard \in Seq(Entries)
        /\ outcome \in [Services -> {"none", "failed", "installed", "healthy"}]
    BY DEF TypeOK
  (* What becomes of the service in hand. *)
  <1>8. /\ \A r \in Services : r # s => reg'[r] = reg[r] /\ outcome'[r] = outcome[r]
        /\ \A r \in Services : r # s => (r \in running' <=> r \in running)
        /\ failedRegs \subseteq failedRegs' /\ failedRegs' \subseteq failedRegs \cup {s}
        /\ reg'[s] \in {reg[s], "own", "none"}
        /\ reg'[s] = "none" => s \in failedRegs' \/ reg[s] = "none"
        /\ Protected(s) /\ s \notin failedRegs' => reg'[s] = before.reg[s]
        /\ s \in running' /\ reg'[s] = "none" => s \in running /\ reg[s] = "none"
        /\ plan.start /\ Good(s)' =>
             s \in running' \cup {"dig-updater"}
             /\ (reg'[s] # "none" \/ (s \in running /\ reg[s] = "none"))
    <2>1. CASE UNCHANGED <<reg, running, outcome, failedRegs>>
      <3>1. ~Good(s)'
        BY <1>6, <2>1 DEF Good
      <3> QED
        BY <1>1, <2>1, <3>1 DEF Sparing
    <2>2. CASE RegisterBeacon(s)
      <3>1. /\ s = "dig-updater" /\ UNCHANGED running
            /\ \/ reg' = [reg EXCEPT ![s] = "own"] /\ Report(s, "installed")
               \/ UNCHANGED reg /\ Report(s, "failed")
        BY <2>2 DEF RegisterBeacon, Set
      <3> QED
        BY <1>1, <1>7, <3>1 DEF Report, Good, Sparing, Protected, Packaging
    <2>3. CASE s # "dig-updater" /\ KeepService(s)
      <3>1. /\ UNCHANGED <<reg, running>> /\ s # "dig-updater"
            /\ decision = "Skip" \/ s = "dig-node"
            /\ \E o \in {"installed", "healthy"} :
                 Report(s, o) /\ (o = "healthy" => s \in running)
        BY <2>3 DEF KeepService, LeftAsIs, Seen
      <3>2. s # "dig-relay"
        BY <1>5, <3>1
      <3> QED
        BY <1>1, <1>7, <3>1, <3>2 DEF Report, Good, Sparing, Protected, Services
    <2>4. CASE InstallEngine(s)
      <3>1. /\ s \in {"dig-node", "dig-relay"} /\ (s = "dig-node" => reg[s] # "packaged")
            /\ \/ /\ reg' = [reg EXCEPT ![s] = "own"] \/ (reg[s] # "none" /\ UNCHANGED reg)
                  /\ \/ /\ running' = IF plan.start THEN running \cup {s} ELSE running
                        /\ \E o \in {"installed", "healthy"} : Report(s, o)
                     \/ plan.start /\ UNCHANGED running /\ Report(s, "failed")
               \/ UNCHANGED <<reg, running>> /\ Report(s, "failed")
        BY <2>4 DEF InstallEngine, LeftAsIs, Set, Seen
      <3> QED
        BY <1>1, <1>7, <3>1 DEF Report, Good, Sparing, Protected, Packaging
    <2>5. CASE InstallDns(s)
      <3>1. /\ s = "dig-dns"
            /\ \/ /\ reg' = [reg EXCEPT ![s] = "own"]
                  /\ \/ running' = running \ {s} /\ Report(s, "installed")
                     \/ /\ running' = running \cup {s}
                        /\ \E o \in {"installed", "healthy"} : Report(s, o)
               \/ /\ reg' = [reg EXCEPT ![s] = "none"] /\ running' = running \ {s}
                  /\ Report(s, "failed")
               \/ UNCHANGED reg /\ running' \in {running, running \ {s}} /\ Report(s, "failed")
        BY <2>5 DEF InstallDns, Set, Seen
      <3> QED
        BY <1>1, <1>7, <3>1 DEF Report, Good, Sparing, Protected, Packaging
    <2> QED
      BY <1>s, <2>1, <2>2, <2>3, <2>4, <2>5 DEF Register
  <1>9. \/ UNCHANGED guard
        \/ /\ guard' = Append(guard, Entry("ServiceRegistered", s))
           /\ s = "dig-relay" \/ before.file[s] = Absent
    BY <1>s, <1>5 DEF Register, Recorded
  <1>10. Order'
    BY <1>1, <1>2, <1>8, RowNumbers DEF Order
  <1>11. Fresh'
    BY <1>1, FreshKept
  <1>12. Packaging' /\ Verdict'
    BY <1>1, <1>2, <1>8 DEF Packaging, Verdict
  <1>13. Backed'
    <2>1. \A r \in Services : r # s => (Good(r)' <=> Good(r))
      BY <1>8 DEF Good
    <2>2. halted \subseteq Selected \cap Stoppable /\ halted' \subseteq halted \ running'
      BY <1>1 DEF Backed
    <2>3. \A r \in Services : r \in running' /\ reg'[r] = "none" => Orphaned(r)'
      BY <1>1, <1>8 DEF Backed, Orphaned
    <2>4. ASSUME plan.start, NEW r \in Services, Good(r)'
          PROVE  r \notin halted' /\ (reg'[r] # "none" \/ Orphaned(r)')
      <3>1. CASE r # s
        BY <1>1, <1>8, <2>1, <2>2, <2>4, <3>1 DEF Backed, Orphaned
      <3>2. CASE r = s
        BY <1>1, <1>8, <2>2, <2>4, <3>2 DEF Backed, Orphaned, Stoppable
      <3> QED
        BY <3>1, <3>2
    <2> QED
      BY <1>2, <2>2, <2>3, <2>4 DEF Backed
  <1>14. Kept'
    BY <1>1, <1>2, <1>3, <1>8 DEF Kept
  <1>15. Sparing'
    <2>1. \A r \in Services : Protected(r)' => reg'[r] = before.reg[r]
      BY <1>1, <1>8 DEF Sparing, Protected
    <2>2. \A i \in DOMAIN guard' : Undoable(guard'[i])
      <3>1. CASE UNCHANGED guard
        BY <1>1, <3>1 DEF Sparing
      <3>2. CASE UNCHANGED guard => FALSE
        <4> DEFINE g == guard
                   e == Entry("ServiceRegistered", s)
        <4>1. g \in Seq(Entries) /\ guard' = Append(g, e) /\ Undoable(e)
          BY <1>7, <1>9, <3>2 DEF Undoable, Entry
        <4>2. \A i \in DOMAIN g : Undoable(g[i])
          BY <1>1 DEF Sparing
        <4> HIDE DEF g, e
        <4>3. /\ DOMAIN guard' = 1..(Len(g) + 1) /\ DOMAIN g = 1..Len(g)
              /\ \A i \in DOMAIN g : guard'[i] = g[i]
              /\ guard'[Len(g) + 1] = e
          BY <4>1
        <4> QED
          BY <4>1, <4>2, <4>3
      <3> QED
        BY <3>1, <3>2
    <2> QED
      BY <1>1, <1>2, <2>1, <2>2 DEF Sparing, Undoable
  <1>16. Stopping'
    <2>1. at' > 2
      BY <1>1, <1>2
    <2> QED
      BY <1>1, <1>2, <1>8, <2>1 DEF Stopping, Stoppable, Services
  <1> QED
    BY <1>10, <1>11, <1>12, <1>13, <1>14, <1>15, <1>16

---------------------------------------------------------------------------
LEMMA StandingStep ==
  ASSUME TypeOK, Accounts, Standing, [Next]_vars
  PROVE  Standing'
  BY FreshStart, SupersedeStanding, MigrateStanding, ResolveStanding, StopStanding,
     WriteStanding, RegisterStanding, UserStanding, FinishStanding, RollBackStanding,
     EnvironmentStanding
     DEF Next, Step, Environment

LEMMA StandingInit == Init => Standing
  <1> SUFFICES ASSUME Init PROVE Standing
    OBVIOUS
  <1>1. /\ mode = "idle" /\ before.reg = reg /\ \A s \in Services : reg[s] \in HostReg(s)
    BY DEF Init, Snapshot
  <1>2. Packaging
    BY <1>1 DEF Packaging, HostReg
  <1> QED
    BY <1>1, <1>2 DEF Standing, Order, Fresh, Backed, Verdict, Kept, Sparing,
                     Stopping

LEMMA StandingHolds ==
  Spec => [](RollbackSparesServices /\ DecliningKeepsRegistration /\ ReadyHolds)
  <1>1. Spec => [](TypeOK /\ Accounts)
    BY Accounting
  <1>2. TypeOK /\ Accounts /\ Standing /\ [Next]_vars => Standing'
    BY StandingStep
  <1>3. TypeOK /\ Standing /\ RollbackRestoresFiles =>
          RollbackSparesServices /\ DecliningKeepsRegistration /\ ReadyHolds
    BY StandingSuffices
  <1> QED
    BY StandingInit, RollbackRestores, <1>1, <1>2, <1>3, PTL DEF Spec

(* A failed run has not unregistered the service of a program that was     *)
(* there before it, nor a packaged unit, and what it stopped can be started *)
(* again, but for dig-relay's and where a registration of the run itself   *)
(* failed (RollbackGuard, undo_service).                                   *)
THEOREM RollbackSpares == Spec => []RollbackSparesServices
  BY StandingHolds, PTL

(* A component the plan does not select keeps its registration over a      *)
(* completed run, or the run says that it is lost (rearm_after_migration). *)
THEOREM DecliningKeeps == Spec => []DecliningKeepsRegistration
  BY StandingHolds, PTL

(* A run that says the host is ready has left under a legacy root no       *)
(* registration its audit could read (which is none when the plan has no   *)
(* privileged program), has registered what it was to register, and has    *)
(* started again what it stopped (evaluate_readiness).                     *)
THEOREM ReadyIsMeant == Spec => []ReadyHolds
  BY StandingHolds, PTL
=============================================================================
