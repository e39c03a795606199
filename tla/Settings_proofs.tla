---------------------------- MODULE Settings_proofs ----------------------------
(***************************************************************************)
(* What each component of MCSettings promises, for any number of runs,     *)
(* edits by others, failures and browsers.                                 *)
(***************************************************************************)
EXTENDS MCSettings, FiniteSets, FiniteSetTheorems, SequenceTheorems, TLAPS

---------------------------------------------------------------------------
(* HostsFile.  The contents to be put in place say what others have put    *)
(* into the file as it was read, and the entry, or none of ours.           *)
HostsReplacement ==
  pc = "replace" =>
    /\ lost \/ wanted \subseteq H!Saying(new)
    /\ IF op = "install" THEN H!HasCorrectDigLocal(new) \/ H!DeliberateOverride(new)
                         ELSE \A l \in new : ~l.mark

HostsInvariant ==
  /\ H!TypeOK /\ H!EditsHold /\ HostsReplacement
  /\ report = "ok" => pc \in {"idle", "check"}

(* The edits keep what others say, and give what they are for.             *)
LEMMA StrippedLine ==
  ASSUME NEW text \in SUBSET H!Lines, NEW l \in text, l.hosts # {H!DIG_LOCAL_HOST}
  PROVE  /\ [l EXCEPT !.hosts = @ \ {H!DIG_LOCAL_HOST}] \in H!StripDigLocal(text)
         /\ [l EXCEPT !.hosts = @ \ {H!DIG_LOCAL_HOST}] \in H!Lines
BY DEF H!StripDigLocal, H!Lines, H!DIG_LOCAL_HOST, H!DIG_LOCAL_IP

LEMMA EnsuredText ==
  ASSUME NEW text \in SUBSET H!Lines
  PROVE  /\ H!EnsureDigLocalEntry(text) \in SUBSET H!Lines
         /\ H!Saying(text) \subseteq H!Saying(H!EnsureDigLocalEntry(text))
         /\ \/ H!HasCorrectDigLocal(H!EnsureDigLocalEntry(text))
            \/ H!DeliberateOverride(H!EnsureDigLocalEntry(text))
<1>1. CASE H!HasCorrectDigLocal(text) \/ H!DeliberateOverride(text)
  BY <1>1 DEF H!EnsureDigLocalEntry
<1>2. CASE ~(H!HasCorrectDigLocal(text) \/ H!DeliberateOverride(text))
  <2> DEFINE then == H!StripDigLocal(text) \cup {H!DigLocalLine}
  <2>1. H!EnsureDigLocalEntry(text) = then
    BY <1>2 DEF H!EnsureDigLocalEntry
  <2>2. H!DigLocalLine \in H!Lines /\ H!HasCorrectDigLocal(then)
    <3>1. H!DigLocalLine \in H!Lines
      BY DEF H!DigLocalLine, H!Lines
    <3>2. H!DigLocalLine.ip = H!DIG_LOCAL_IP /\ H!DIG_LOCAL_HOST \in H!DigLocalLine.hosts
      BY DEF H!DigLocalLine
    <3>3. H!DigLocalLine \in then
      OBVIOUS
    <3> QED  BY <3>1, <3>2, <3>3 DEF H!HasCorrectDigLocal, H!MapsDigLocal
  <2>3. then \subseteq H!Lines
    BY <2>2, StrippedLine DEF H!StripDigLocal
  <2>4. ASSUME NEW l \in text, NEW p \in H!Pairs(l)
        PROVE  \E k \in then : p \in H!Pairs(k)
    <3> DEFINE k == [l EXCEPT !.hosts = @ \ {H!DIG_LOCAL_HOST}]
    <3>1. ~l.mark /\ l \in H!Lines /\ p \in {l.ip} \X l.hosts
          /\ p # <<"127.0.0.1", H!DIG_LOCAL_HOST>>
      BY <2>4 DEF H!Pairs
    <3>2. H!DIG_LOCAL_HOST \in l.hosts => l.ip = "127.0.0.1"
      BY <1>2, <3>1 DEF H!HasCorrectDigLocal, H!DeliberateOverride, H!MapsDigLocal, H!Lines
    <3>3. p[2] # H!DIG_LOCAL_HOST /\ p = <<l.ip, p[2]>> /\ p[2] \in l.hosts
      BY <3>1, <3>2
    <3>4. k \in then
      BY <3>3, StrippedLine
    <3>5. ~k.mark /\ k.ip = l.ip /\ p[2] \in k.hosts
      BY <3>1, <3>3 DEF H!Lines
    <3> HIDE DEF k
    <3>6. p \in H!Pairs(k)
      BY <3>1, <3>3, <3>5 DEF H!Pairs
    <3> QED  BY <3>4, <3>6
  <2> QED  BY <2>1, <2>2, <2>3, <2>4 DEF H!Saying
<1> QED  BY <1>1, <1>2

LEMMA WithoutText ==
  ASSUME NEW text \in SUBSET H!Lines
  PROVE  /\ H!WithoutDigLocalEntry(text) \in SUBSET H!Lines
         /\ H!Saying(text) \subseteq H!Saying(H!WithoutDigLocalEntry(text))
         /\ \A l \in H!WithoutDigLocalEntry(text) : ~l.mark
BY DEF H!WithoutDigLocalEntry, H!Saying, H!Pairs

(* Two edits of one text are as good as one, and an uninstall undoes an    *)
(* install exactly, where the text spoke neither of dig.local nor had a    *)
(* line of ours (ensure_dig_local_entry, without_dig_local_entry).         *)
THEOREM HostsEditUndone ==
  ASSUME NEW text \in SUBSET H!Lines
  PROVE  /\ H!EnsureDigLocalEntry(H!EnsureDigLocalEntry(text)) = H!EnsureDigLocalEntry(text)
         /\ H!WithoutDigLocalEntry(H!WithoutDigLocalEntry(text)) = H!WithoutDigLocalEntry(text)
         /\ (\A l \in text : ~H!MapsDigLocal(l) /\ ~l.mark) =>
              H!WithoutDigLocalEntry(H!EnsureDigLocalEntry(text)) = text
<1>1. H!EnsureDigLocalEntry(H!EnsureDigLocalEntry(text)) = H!EnsureDigLocalEntry(text)
  BY EnsuredText DEF H!EnsureDigLocalEntry
<1>2. H!WithoutDigLocalEntry(H!WithoutDigLocalEntry(text)) = H!WithoutDigLocalEntry(text)
  BY DEF H!WithoutDigLocalEntry
<1>3. ASSUME \A l \in text : ~H!MapsDigLocal(l) /\ ~l.mark
      PROVE  H!WithoutDigLocalEntry(H!EnsureDigLocalEntry(text)) = text
  <2>1. ~(H!HasCorrectDigLocal(text) \/ H!DeliberateOverride(text))
    BY <1>3 DEF H!HasCorrectDigLocal, H!DeliberateOverride
  <2>2. \A l \in text : l.hosts # {H!DIG_LOCAL_HOST}
                        /\ [l EXCEPT !.hosts = @ \ {H!DIG_LOCAL_HOST}] = l
    <3>1. SUFFICES ASSUME NEW l \in text
                   PROVE  /\ l.hosts # {H!DIG_LOCAL_HOST}
                          /\ [l EXCEPT !.hosts = @ \ {H!DIG_LOCAL_HOST}] = l
      OBVIOUS
    <3>2. H!DIG_LOCAL_HOST \notin l.hosts
      BY <1>3 DEF H!MapsDigLocal
    <3>3. l.hosts \ {H!DIG_LOCAL_HOST} = l.hosts
      BY <3>2
    <3>4. l \in H!Lines
      OBVIOUS
    <3>5. [l EXCEPT !.hosts = l.hosts] = l
      BY <3>4 DEF H!Lines
    <3> QED  BY <3>2, <3>3, <3>5
  <2>3. H!StripDigLocal(text) = text
    <3>1. {k \in text : k.hosts # {H!DIG_LOCAL_HOST}} = text
      BY <2>2
    <3> QED  BY <2>2, <3>1 DEF H!StripDigLocal
  <2>4. H!EnsureDigLocalEntry(text) = text \cup {H!DigLocalLine}
    BY <2>1, <2>3 DEF H!EnsureDigLocalEntry
  <2>5. H!DigLocalLine.mark
    BY DEF H!DigLocalLine
  <2> QED  BY <1>3, <2>4, <2>5 DEF H!WithoutDigLocalEntry
<1> QED  BY <1>1, <1>2, <1>3

LEMMA HostsRead ==
  ASSUME HostsInvariant, H!Read
  PROVE  HostsInvariant'
<1> USE DEF HostsInvariant
<1> DEFINE text == IF binary THEN {} ELSE file
           then == IF op = "install" THEN H!EnsureDigLocalEntry(text)
                                     ELSE H!WithoutDigLocalEntry(text)
<1>1. /\ pc = "read" /\ attempt' = 0
      /\ UNCHANGED <<file, binary, op, resolves, wanted, runs, edits>>
      /\ IF then = text THEN H!Over("ok") /\ UNCHANGED <<new, lost>>
         ELSE /\ pc' = "replace" /\ new' = then
              /\ lost' = (lost \/ binary) /\ UNCHANGED report
  BY DEF H!Read
<1>2. text \in SUBSET H!Lines /\ op \in {"install", "uninstall"}
  BY DEF H!TypeOK
<1>3. /\ then \in SUBSET H!Lines /\ H!Saying(text) \subseteq H!Saying(then)
      /\ op = "install" => H!HasCorrectDigLocal(then) \/ H!DeliberateOverride(then)
      /\ op = "uninstall" => \A l \in then : ~l.mark
  BY <1>2, EnsuredText, WithoutText
<1>4. report # "ok"
  BY <1>1
<1> HIDE DEF then
<1>5. CASE then = text
  <2>1. /\ UNCHANGED <<new, lost, file, binary, op, resolves, wanted, runs, edits>>
        /\ report' = "ok" /\ pc' = (IF op = "install" THEN "check" ELSE "idle")
    BY <1>1, <1>5 DEF H!Over
  <2>2. op = "install" => file = text
    <3>1. H!Saying({}) = {} /\ ~H!HasCorrectDigLocal({}) /\ ~H!DeliberateOverride({})
      BY DEF H!Saying, H!HasCorrectDigLocal, H!DeliberateOverride
    <3> QED  BY <1>3, <1>5, <3>1
  <2>3. H!TypeOK'
    BY <1>1, <2>1 DEF H!TypeOK, H!REPLACE_ATTEMPTS
  <2>4. H!ReportTrue'
    BY <1>2, <1>3, <1>5, <2>1, <2>2 DEF H!ReportTrue
  <2>5. H!OthersKept'
    BY <2>1 DEF H!EditsHold, H!OthersKept
  <2> QED  BY <2>1, <2>3, <2>4, <2>5 DEF HostsReplacement, H!EditsHold
<1>6. CASE then # text
  <2>1. /\ UNCHANGED <<file, binary, op, resolves, wanted, runs, edits, report>>
        /\ pc' = "replace" /\ new' = then /\ lost' = (lost \/ binary)
    BY <1>1, <1>6
  <2>2. H!TypeOK'
    BY <1>1, <1>3, <2>1 DEF H!TypeOK, H!REPLACE_ATTEMPTS
  <2>3. lost \/ wanted \subseteq H!Saying(file)
    BY DEF H!EditsHold, H!OthersKept
  <2>4. HostsReplacement'
    BY <1>2, <1>3, <2>1, <2>3 DEF HostsReplacement
  <2>5. H!EditsHold'
    BY <1>4, <2>1, <2>3 DEF H!EditsHold, H!OthersKept, H!ReportTrue
  <2> QED  BY <1>4, <2>1, <2>2, <2>4, <2>5
<1> QED  BY <1>5, <1>6

LEMMA HostsEdited ==
  ASSUME HostsInvariant, H!Edit
  PROVE  HostsInvariant'
<1> USE DEF HostsInvariant
<1>1. /\ edits' = edits + 1 /\ edits' \in 0..HostsEdits
      /\ lost' = (lost \/ pc = "replace") /\ report' = "none"
      /\ UNCHANGED <<op, pc, new, attempt, resolves, runs>>
  BY BoundsAssumption DEF H!Edit, H!TypeOK
<1>2. lost \/ wanted \subseteq H!Saying(file)
  BY DEF H!EditsHold, H!OthersKept
<1>3. /\ file' \subseteq H!Lines /\ binary' \in BOOLEAN
      /\ wanted' \subseteq {"127.0.0.1", "127.0.0.2", "lan"} \X {H!DIG_LOCAL_HOST, "other"}
      /\ lost \/ wanted' \subseteq H!Saying(file')
  <2>1. CASE \E l \in H!Lines \ file : file' = file \cup {l} /\ wanted' = wanted \cup H!Pairs(l)
                                       /\ UNCHANGED binary
    <3>1. PICK l \in H!Lines \ file : file' = file \cup {l} /\ wanted' = wanted \cup H!Pairs(l)
                                      /\ UNCHANGED binary
      BY <2>1
    <3>2. H!Pairs(l) \subseteq {"127.0.0.1", "127.0.0.2", "lan"} \X {H!DIG_LOCAL_HOST, "other"}
      BY DEF H!Pairs, H!Lines, H!DIG_LOCAL_IP, H!DIG_LOCAL_HOST
    <3>3. H!Saying(file') = H!Saying(file) \cup H!Pairs(l)
      BY <3>1 DEF H!Saying
    <3> QED  BY <1>2, <3>1, <3>2, <3>3 DEF H!TypeOK
  <2>2. CASE \E l \in file : file' = file \ {l} /\ wanted' = wanted \cap H!Saying(file')
                             /\ UNCHANGED binary
    BY <2>2 DEF H!TypeOK
  <2>3. CASE binary' = ~binary /\ UNCHANGED <<file, wanted>>
    BY <1>2, <2>3 DEF H!TypeOK
  <2> QED  BY <2>1, <2>2, <2>3 DEF H!Edit
<1>4. H!TypeOK'
  BY <1>1, <1>3 DEF H!TypeOK
<1>5. H!EditsHold'
  BY <1>1, <1>3 DEF H!EditsHold, H!OthersKept, H!ReportTrue
<1>6. HostsReplacement'
  BY <1>1 DEF HostsReplacement
<1> QED  BY <1>1, <1>4, <1>5, <1>6

LEMMA HostsStep ==
  ASSUME HostsInvariant, H!Next \/ UNCHANGED H!vars
  PROVE  HostsInvariant'
<1> USE DEF HostsInvariant
<1>1. CASE H!Begin
  BY <1>1, BoundsAssumption
  DEF H!Begin, H!TypeOK, H!EditsHold, H!OthersKept, H!ReportTrue, HostsReplacement
<1>2. CASE H!Replace
  BY <1>2 DEF H!Replace, H!Over, H!TypeOK, H!EditsHold, H!OthersKept, H!ReportTrue,
              HostsReplacement
<1>3. CASE H!GiveUp \/ H!Crash
  BY <1>3 DEF H!GiveUp, H!Crash, H!Over, H!TypeOK, H!EditsHold, H!OthersKept, H!ReportTrue,
              HostsReplacement
<1>4. CASE H!Retry
  BY <1>4 DEF H!Retry, H!TypeOK, H!REPLACE_ATTEMPTS, H!EditsHold, H!OthersKept, H!ReportTrue,
              HostsReplacement
<1>5. CASE H!ResolveDigLocal
  <2>1. /\ pc = "check" /\ pc' = "idle" /\ resolves' \in BOOLEAN
        /\ UNCHANGED <<file, binary, op, new, attempt, report, wanted, lost, runs, edits>>
    BY <1>5 DEF H!ResolveDigLocal
  <2> QED  BY <2>1 DEF H!TypeOK, H!EditsHold, H!OthersKept, H!ReportTrue, HostsReplacement
<1>6. CASE UNCHANGED H!vars
  BY <1>6 DEF H!vars, H!TypeOK, H!EditsHold, H!OthersKept, H!ReportTrue, HostsReplacement
<1> QED  BY <1>1, <1>2, <1>3, <1>4, <1>5, <1>6, HostsRead, HostsEdited DEF H!Next

LEMMA HostsInit ==
  ASSUME H!Init
  PROVE  HostsInvariant
<1>1. 0 \in 0..Runs /\ 0 \in 0..HostsEdits /\ 0 \in 0..(H!REPLACE_ATTEMPTS - 1)
  BY BoundsAssumption DEF H!REPLACE_ATTEMPTS
<1>2. H!TypeOK
  BY <1>1 DEF H!Init, H!TypeOK
<1> QED  BY <1>2 DEF H!Init, HostsInvariant, H!EditsHold, H!OthersKept, H!ReportTrue,
                     HostsReplacement

(* Whatever the runs do and whenever others edit it, the hosts file goes   *)
(* on saying what others put there, and the report is true (hosts.rs).     *)
THEOREM HostsFileIsShared == Spec => []EditsHold
<1>1. Init => (which = "hosts" => HostsInvariant)
  BY HostsInit DEF Init
<1>2. (which = "hosts" => HostsInvariant) /\ [Next]_vars => (which = "hosts" => HostsInvariant)'
  BY HostsStep DEF Next, vars, H!vars
<1>3. (which = "hosts" => HostsInvariant) => EditsHold
  BY DEF HostsInvariant, EditsHold
<1> QED  BY <1>1, <1>2, <1>3, PTL DEF Spec

---------------------------------------------------------------------------
(* UserSession.                                                            *)

(* Whom a run is for: nobody is given root's things, and an id that goes   *)
(* with alice's home is hers.                                              *)
SessionUser ==
  /\ user.uid # "root"
  /\ user.home = "alice" => user.uid \in {"none", user.name}
  /\ ~acting => user.name \in U!Homes

(* Folders lie in folders, and root's home is root's.                      *)
SessionHomes ==
  /\ owner["root"][1] = "root"
  /\ \A h \in U!Places : owner[h][2] = "absent" => owner[h][3] = "absent"
  /\ os # "linux" => \A h \in U!Places : unit[h] = "none"

(* How far the run is: the entry is written in folders handed over, and    *)
(* is there when the old unit is dealt with.                               *)
SessionProgress ==
  LET f == owner[user.home]
      p == U!Place
  IN
  /\ pc \in {"register", "hand_over", "write", "stale", "remove"} => ~registered
  /\ pc # "idle" => ~removed
  /\ pc = "write" /\ acting /\ os # "windows" =>
       f[1] = user.uid /\ \A i \in 2..3 : f[i] \in {user.uid, "absent"}
  /\ pc = "stale" => entry[p] = "current" /\ os = "linux"
  /\ pc = "stale" /\ acting => \A i \in 1..3 : f[i] = user.uid
  /\ registered => entry[p] = "current" /\ (~stale => unit[p] = "none")
  /\ removed => ~registered /\ (unopened \/ (entry[p] = "none" /\ unit[p] = "none"))

SessionInvariant ==
  U!TypeOK /\ SessionUser /\ SessionHomes /\ SessionProgress /\ U!UsersOwn

(* One starter or none, as the entry and the unit are.                     *)
LEMMA SessionSuffices == SessionInvariant => U!TypeOK /\ U!EntryHolds
<1> SUFFICES ASSUME SessionInvariant
             PROVE  U!TypeOK /\ U!EntryHolds
  OBVIOUS
<1>0. user.home = "alice" /\ ~U!OutOfSight => U!Place = U!SessionPlace
  BY DEF U!OutOfSight, U!Place, U!SessionPlace
<1>1. registered /\ ~stale /\ U!Place = U!SessionPlace => U!Starters = {"login"}
  BY DEF SessionInvariant, SessionProgress, U!Starters
<1>2. removed /\ ~unopened /\ U!Place = U!SessionPlace => U!Starters = {}
  BY DEF SessionInvariant, SessionProgress, U!Starters
<1>3. U!Cardinality({"login"}) = 1
  <2>1. U!Cardinality({"login"}) = Cardinality({"login"})
    BY Zenon DEF U!Cardinality, Cardinality
  <2> QED  BY <2>1, FS_Singleton
<1> QED  BY <1>0, <1>1, <1>2, <1>3 DEF SessionInvariant, U!EntryHolds, U!LoginStartsOne

(* Three folders make a home.                                              *)
LEMMA ThreeFolders ==
  ASSUME NEW S, NEW f, f = [i \in 1..3 |-> f[i]], \A i \in 1..3 : f[i] \in S
  PROVE  f \in S \X S \X S
<1>1. f = <<f[1], f[2], f[3]>>
  OBVIOUS
<1> QED  BY <1>1

(* Where the run writes: where it was told, or in the home of the account  *)
(* it acts for.                                                            *)
LEMMA SessionPlaces ==
  ASSUME U!TypeOK
  PROVE  /\ U!Place \in U!Places /\ user.home \in U!Homes /\ U!Homes \subseteq U!Places
         /\ acting => U!Place = user.home
         /\ U!Place = "root" => user.home = "root"
  BY DEF U!TypeOK, U!Place, U!Places, U!Homes

LEMMA SessionInit ==
  ASSUME U!Init
  PROVE  SessionInvariant
<1>1. PICK a \in U!Owners \X U!Owners \X U!Owners :
        /\ a[2] = "absent" => a[3] = "absent"
        /\ owner = [p \in U!Places |-> IF p = "root" THEN <<"root", "root", "absent">>
                                       ELSE IF p = "alice" \/ xdg THEN a
                                       ELSE <<"absent", "absent", "absent">>]
  BY DEF U!Init, U!Owners
<1>2. owner \in [U!Places -> U!Owners \X U!Owners \X U!Owners]
  BY <1>1 DEF U!Owners
<1>3. /\ unit \in [U!Places -> {"none", "there", "enabled"}]
      /\ os # "linux" => \A h \in U!Places : unit[h] = "none"
  <2>1. PICK u \in {"none", "there", "enabled"} :
          /\ os # "linux" => u = "none"
          /\ unit = [p \in U!Places |-> IF p = "alice" \/ (p = "xdg" /\ xdg) THEN u ELSE "none"]
    BY DEF U!Init
  <2> QED  BY <2>1
<1>4. U!TypeOK
  <2>1. entry \in [U!Places -> {"none", "torn", "current"}] /\ xdg \in BOOLEAN
    BY DEF U!Init
  <2>2. 0 \in 0..Runs
    BY BoundsAssumption
  <2>3. user \in [name : U!Accounts, home : U!Homes, uid : U!Accounts \cup {"none"}]
    BY DEF U!Init, U!Accounts, U!Homes
  <2> QED  BY <1>2, <1>3, <2>1, <2>2, <2>3 DEF U!Init, U!TypeOK
<1>5. SessionUser
  BY DEF U!Init, SessionUser, U!Homes
<1>6. SessionHomes
  BY <1>1, <1>3 DEF SessionHomes, U!Places, U!Homes
<1>7. SessionProgress /\ U!UsersOwn
  BY DEF U!Init, SessionProgress, U!UsersOwn
<1> QED  BY <1>4, <1>5, <1>6, <1>7 DEF SessionInvariant

LEMMA SessionBegin ==
  ASSUME SessionInvariant, U!Begin
  PROVE  SessionInvariant'
<1> USE DEF SessionInvariant
<1>1. PICK h \in U!Hints : user' = U!Resolve(h) /\ acting' = U!ActingForAnotherAccount(h, user')
  BY DEF U!Begin
<1>2. user' \in [name : U!Accounts, home : U!Homes, uid : U!Accounts \cup {"none"}]
  BY <1>1 DEF U!Resolve, U!Hints, U!Hinted, U!Known, U!Accounts, U!Homes
<1>3. acting' \in BOOLEAN
  <2>1. U!ActingForAnotherAccount(h, user') \in BOOLEAN
    BY DEF U!ActingForAnotherAccount
  <2> QED  BY <1>1, <2>1
<1>4. SessionUser'
  BY <1>1 DEF SessionUser, U!Resolve, U!Hints, U!Hinted, U!Known, U!ActingForAnotherAccount,
              U!Homes
<1>5. runs' \in 0..Runs
  BY BoundsAssumption DEF U!Begin, U!TypeOK
<1>6. U!TypeOK'
  BY <1>2, <1>3, <1>5 DEF U!Begin, U!TypeOK, U!account, U!home
<1> QED  BY <1>4, <1>6 DEF U!Begin, U!account, U!home, SessionHomes, SessionProgress, U!UsersOwn

(* Only the home the run is for gets other owners, and none gets a folder  *)
(* in one that is not there.                                               *)
LEMMA SessionHandOver ==
  ASSUME SessionInvariant, U!HandOver
  PROVE  SessionInvariant'
<1> USE DEF SessionInvariant
<1> DEFINE h == user.home
           f == owner[h]
<1>1. /\ h \in U!Places /\ f \in U!Owners \X U!Owners \X U!Owners
      /\ pc = "hand_over" /\ ~registered /\ ~removed
  BY SessionPlaces DEF U!TypeOK, U!HandOver, SessionProgress
<1>2. /\ UNCHANGED <<os, headless, known, xdg, unopened, entry, unit, session, agents, op, user, acting,
                     registered, stale, launched, removed, runs>>
      /\ pc' \in {"launch", "write"}
  BY DEF U!HandOver, U!account, U!said
<1>3. CASE UNCHANGED owner /\ pc' = "launch"
  BY <1>1, <1>2, <1>3 DEF U!TypeOK, SessionUser, SessionHomes, SessionProgress, U!UsersOwn
<1>4. ASSUME NEW n \in 0..3, f[1] = user.uid,
             owner' = [owner EXCEPT ![h] = U!HandedOver(f, n)],
             pc' = "write" => n = 3 /\ \A i \in U!Present(f) : f[i] \in {"root", user.uid}
      PROVE  SessionInvariant'
  <2> DEFINE g == U!HandedOver(f, n)
  <2>1. /\ g = [i \in 1..3 |-> g[i]]
        /\ \A i \in 1..3 : g[i] = IF i \in 2..n /\ f[i] = "root" THEN user.uid ELSE f[i]
    BY DEF U!HandedOver
  <2>2. \A i \in 1..3 : f[i] \in U!Owners
    BY <1>1
  <2>3. user.uid \in U!Owners
    BY <1>4, <2>2
  <2>4. g \in U!Owners \X U!Owners \X U!Owners
    <3> HIDE DEF g, f
    <3>1. \A i \in 1..3 : g[i] \in U!Owners
      BY <2>1, <2>2, <2>3
    <3> QED  BY <2>1, <3>1, ThreeFolders
  <2>5. owner' \in [U!Places -> U!Owners \X U!Owners \X U!Owners] /\ owner'[h] = g
        /\ \A k \in U!Places : k # h => owner'[k] = owner[k]
    BY <1>1, <1>4, <2>4 DEF U!TypeOK
  <2>6. U!TypeOK'
    BY <1>2, <2>5 DEF U!TypeOK
  <2>7. SessionUser'
    BY <1>2 DEF SessionUser
  <2>8. g[1] = f[1] /\ (g[2] = "absent" => g[3] = "absent")
    <3>1. f[2] = "absent" => f[3] = "absent"
      BY <1>1 DEF SessionHomes
    <3>2. f[1] # "absent" => user.uid # "absent"
      BY <1>4
    <3>3. user.uid # "absent"
      BY DEF U!TypeOK, U!Accounts
    <3> QED  BY <2>1, <3>1, <3>3
  <2>9. SessionHomes'
    BY <1>2, <2>5, <2>8 DEF SessionHomes, U!Places, U!Homes
  <2>10. pc' = "write" => g[1] = user.uid /\ \A i \in 2..3 : g[i] \in {user.uid, "absent"}
    <3>1. SUFFICES ASSUME pc' = "write", NEW i \in 2..3
                   PROVE  g[1] = user.uid /\ g[i] \in {user.uid, "absent"}
      BY <2>1
    <3>2. g[1] = user.uid
      BY <1>4, <2>8
    <3>3. f[i] = "absent" \/ i \in U!Present(f)
      BY <1>1, <3>1 DEF SessionHomes, U!Present
    <3>4. n = 3 /\ (i \in U!Present(f) => f[i] \in {"root", user.uid})
      BY <1>4, <3>1
    <3> HIDE DEF g, f
    <3> QED  BY <2>1, <3>1, <3>2, <3>3, <3>4
  <2>11. SessionProgress'
    BY <1>1, <1>2, <2>5, <2>10 DEF SessionProgress
  <2>12. U!UsersOwn'
    BY <1>1, <1>2 DEF U!UsersOwn
  <2> QED  BY <2>6, <2>7, <2>9, <2>11, <2>12
<1>5. \/ UNCHANGED owner /\ pc' = "launch"
      \/ \E n \in 0..3 :
           /\ f[1] = user.uid /\ owner' = [owner EXCEPT ![h] = U!HandedOver(f, n)]
           /\ pc' = "write" => n = 3 /\ \A i \in U!Present(f) : f[i] \in {"root", user.uid}
  <2> DEFINE strange == {i \in U!Present(f) : f[i] \notin {"root", user.uid}}
  <2>1. CASE f[1] = user.uid /\ strange = {} /\ pc' = "write"
             /\ owner' = [owner EXCEPT ![h] = U!HandedOver(f, 3)]
    <3>1. \A i \in U!Present(f) : f[i] \in {"root", user.uid}
      BY <2>1
    <3> QED  BY <2>1, <3>1
  <2>2. CASE f[1] = user.uid /\ pc' = "launch"
             /\ \E n \in U!Present(f) : owner' = [owner EXCEPT ![h] = U!HandedOver(f, n - 1)]
    <3>1. PICK n \in U!Present(f) : owner' = [owner EXCEPT ![h] = U!HandedOver(f, n - 1)]
      BY <2>2
    <3>2. n - 1 \in 0..3
      BY DEF U!Present
    <3> QED  BY <2>2, <3>1, <3>2
  <2> QED  BY <2>1, <2>2 DEF U!HandOver
<1> QED  BY <1>3, <1>4, <1>5

(* What is written is the user's, in folders that are the user's.          *)
LEMMA SessionWrite ==
  ASSUME SessionInvariant, U!Write
  PROVE  SessionInvariant'
<1> USE DEF SessionInvariant
<1> DEFINE h == U!Place
           f == owner[h]
<1>0. /\ h \in U!Places /\ (acting => h = user.home) /\ (h = "root" => user.home = "root")
      /\ user.home \in U!Homes
  BY SessionPlaces
<1>1. /\ f \in U!Owners \X U!Owners \X U!Owners
      /\ pc = "write" /\ ~registered /\ ~removed
  BY <1>0 DEF U!TypeOK, U!Write, SessionProgress
<1>2. /\ UNCHANGED <<os, headless, known, xdg, unopened, unit, session, agents, op, user, acting,
                     stale, launched, removed, runs>>
      /\ U!Place' = h
  BY DEF U!Write, U!account, U!Place
<1> HIDE DEF h
<1>3. CASE /\ entry' \in {entry, [entry EXCEPT ![h] = "torn"]}
           /\ pc' = "launch" /\ UNCHANGED <<owner, registered>>
  <2>1. entry' \in [U!Places -> {"none", "torn", "current"}]
    BY <1>3 DEF U!TypeOK
  <2> QED  BY <1>0, <1>1, <1>2, <1>3, <2>1
           DEF U!TypeOK, SessionUser, SessionHomes, SessionProgress, U!UsersOwn
<1>4. CASE /\ entry' = [entry EXCEPT ![h] = "current"]
           /\ owner' = IF os = "windows" THEN owner ELSE
                [owner EXCEPT ![h] = [i \in 1..3 |-> IF @[i] = "absent" THEN user.name ELSE @[i]]]
           /\ IF os = "linux" THEN pc' = "stale" /\ UNCHANGED registered
              ELSE pc' = "launch" /\ registered' = TRUE
  <2> DEFINE g == [i \in 1..3 |-> IF f[i] = "absent" THEN user.name ELSE f[i]]
  <2>1. entry' \in [U!Places -> {"none", "torn", "current"}] /\ entry'[h] = "current"
    BY <1>0, <1>1, <1>4 DEF U!TypeOK
  <2>2. acting /\ os # "windows" => user.uid = user.name /\ user.name \in U!Owners
    <3>1. SUFFICES ASSUME acting, os # "windows"
                   PROVE  user.uid = user.name /\ user.name \in U!Owners
      OBVIOUS
    <3>2. f[1] = user.uid /\ f[1] \in U!Owners
      BY <1>0, <1>1, <3>1 DEF SessionProgress
    <3>3. user.home = "alice"
      BY <1>0, <3>1, <3>2 DEF SessionHomes, SessionUser, U!Homes
    <3> QED  BY <3>2, <3>3 DEF SessionUser, U!Owners
  <2>3. os # "windows" => user.name \in U!Owners
    BY <2>2 DEF SessionUser, U!Homes, U!Owners
  <2>4. os # "windows" => g \in U!Owners \X U!Owners \X U!Owners
    <3>1. \A i \in 1..3 : f[i] \in U!Owners
      BY <1>1
    <3>2. os # "windows" => \A i \in 1..3 : g[i] \in U!Owners
      BY <2>3, <3>1
    <3>3. g = [i \in 1..3 |-> g[i]]
      OBVIOUS
    <3> HIDE DEF g
    <3> QED  BY <3>2, <3>3, ThreeFolders
  <2>5. os # "windows" => owner' = [owner EXCEPT ![h] = g]
    BY <1>4
  <2>6. os = "windows" => owner' = owner
    BY <1>4
  <2>7. \A i \in 1..3 : g[i] = IF f[i] = "absent" THEN user.name ELSE f[i]
    OBVIOUS
  <2> HIDE DEF g
  <2>8. /\ owner' \in [U!Places -> U!Owners \X U!Owners \X U!Owners]
        /\ os # "windows" => owner'[h] = g
        /\ \A k \in U!Places : k # h => owner'[k] = owner[k]
    <3>1. owner \in [U!Places -> U!Owners \X U!Owners \X U!Owners]
      BY DEF U!TypeOK
    <3>2. CASE os # "windows"
      BY <1>0, <2>4, <2>5, <3>1, <3>2
    <3>3. CASE os = "windows"
      BY <2>6, <3>1, <3>3
    <3> QED  BY <3>2, <3>3
  <2>9. U!TypeOK'
    <3>1. pc' \in {"stale", "launch"} /\ registered' \in BOOLEAN
      BY <1>4 DEF U!TypeOK
    <3> QED  BY <1>2, <2>1, <2>8, <3>1 DEF U!TypeOK
  <2>10. user.name # "absent"
    BY DEF U!TypeOK, U!Accounts
  <2>11. SessionHomes'
    <3>1. os # "windows" => g[2] # "absent" /\ g[3] # "absent"
      BY <2>7, <2>10
    <3>2. f[1] # "absent" => g[1] = f[1]
      BY <2>7
    <3>3. owner'["root"][1] = "root"
      BY <1>0, <2>6, <2>8, <3>2 DEF SessionHomes, U!Places, U!Homes
    <3>4. \A k \in U!Places : owner'[k][2] = "absent" => owner'[k][3] = "absent"
      BY <1>0, <2>6, <2>8, <3>1 DEF SessionHomes
    <3> QED  BY <1>2, <3>3, <3>4 DEF SessionHomes
  <2>12. acting /\ os # "windows" => \A i \in 1..3 : owner'[h][i] = user.uid
    <3>1. SUFFICES ASSUME acting, os # "windows", NEW i \in 1..3
                   PROVE  g[i] = user.uid
      BY <2>8
    <3>2. f[i] \in {user.uid, "absent"}
      BY <1>0, <1>1, <3>1 DEF SessionProgress
    <3> QED  BY <2>2, <2>7, <3>1, <3>2
  <2>13. os # "linux" => unit[h] = "none"
    BY <1>0 DEF SessionHomes
  <2>14. SessionUser'
    BY <1>2 DEF SessionUser
  <2>15. SessionProgress'
    BY <1>0, <1>1, <1>2, <1>4, <2>1, <2>12, <2>13 DEF SessionProgress
  <2>16. U!UsersOwn'
    BY <1>0, <1>1, <1>2, <1>4, <2>12 DEF U!UsersOwn
  <2> QED  BY <2>9, <2>11, <2>14, <2>15, <2>16
<1> QED  BY <1>3, <1>4 DEF U!Write, U!Writer, h

(* The steps that leave the folders alone.                                 *)
LEMMA SessionRest ==
  ASSUME SessionInvariant,
         \/ U!Register \/ U!RemoveStaleSystemdUserUnit \/ U!Launch \/ U!Deregister \/ U!Crash
         \/ U!Login \/ U!Logout \/ UNCHANGED U!vars
  PROVE  SessionInvariant'
<1> USE DEF SessionInvariant
<1> DEFINE p == U!Place
<1>0. UNCHANGED <<xdg, user, acting>> /\ p' = p /\ p \in U!Places
  <2>1. UNCHANGED <<xdg, user, acting>>
    BY DEF U!Register, U!RemoveStaleSystemdUserUnit, U!Launch, U!Deregister, U!Crash, U!Login,
           U!Logout, U!vars, U!account
  <2> QED  BY <2>1, SessionPlaces DEF U!Place
<1> HIDE DEF p
<1>1. CASE U!Register
  BY <1>0, <1>1 DEF U!Register, U!TypeOK, U!account, U!home, U!said, SessionUser, SessionHomes,
                    SessionProgress, U!UsersOwn, p
<1>2. CASE U!RemoveStaleSystemdUserUnit
  <2>1. /\ unit' \in {unit, [unit EXCEPT ![p] = "none"]}
        /\ stale' \in BOOLEAN
        /\ ~stale' => unit'[p] = "none"
        /\ unit' \in [U!Places -> {"none", "there", "enabled"}]
    BY <1>0, <1>2 DEF U!RemoveStaleSystemdUserUnit, U!StaleUnit, U!TypeOK, p
  <2>2. pc = "stale" /\ pc' = "launch" /\ registered' = TRUE
        /\ UNCHANGED <<os, headless, known, xdg, unopened, owner, entry, session, agents, op,
                       user, acting, launched, removed, runs>>
    BY <1>2 DEF U!RemoveStaleSystemdUserUnit, U!account
  <2>3. U!TypeOK'
    BY <2>1, <2>2 DEF U!TypeOK
  <2>4. SessionHomes' /\ SessionUser'
    BY <2>1, <2>2 DEF SessionHomes, SessionUser, U!TypeOK, SessionProgress
  <2> QED  BY <1>0, <2>1, <2>2, <2>3, <2>4 DEF SessionProgress, U!UsersOwn, p
<1>3. CASE U!Launch
  <2>1. /\ agents' \subseteq {"login", "unit", "hand"} /\ launched' \in BOOLEAN
        /\ pc = "launch" /\ pc' = "idle"
        /\ UNCHANGED <<os, headless, known, xdg, unopened, owner, entry, session, op, user,
                       acting, registered, stale, removed, runs>>
    BY <1>3 DEF U!Launch, U!EnableNow, U!StartOther, U!account, U!TypeOK
  <2>2. CASE UNCHANGED unit
    BY <1>0, <2>1, <2>2 DEF U!TypeOK, SessionUser, SessionHomes, SessionProgress, U!UsersOwn, p
  <2>3. CASE U!EnableNow
    <3>1. /\ os = "linux" /\ registered /\ unit[U!SessionPlace] # "none"
          /\ unit' = [unit EXCEPT ![U!SessionPlace] = "enabled"]
      BY <2>3 DEF U!EnableNow, U!Plan
    <3>2. /\ unit' \in [U!Places -> {"none", "there", "enabled"}]
          /\ ~stale => unit'[p] = "none"
      BY <1>0, <3>1 DEF U!TypeOK, SessionProgress, p
    <3> QED  BY <1>0, <2>1, <3>1, <3>2
             DEF U!TypeOK, SessionUser, SessionHomes, SessionProgress, U!UsersOwn, p
  <2> QED  BY <1>3, <2>2, <2>3 DEF U!Launch, U!StartOther
<1>4. CASE U!Deregister
  <2>1. /\ pc = "remove" /\ pc' = "idle" /\ ~registered
        /\ UNCHANGED <<os, headless, known, xdg, owner, session, agents, op, user, acting,
                       registered, stale, launched, runs>>
    BY <1>4 DEF U!Deregister, U!account, SessionProgress
  <2>2. /\ entry' \in {entry, [entry EXCEPT ![p] = "none"]}
        /\ unit' \in {unit, [unit EXCEPT ![p] = "none"]}
        /\ removed' \in BOOLEAN /\ unopened' \in BOOLEAN
        /\ removed' /\ ~unopened' => /\ entry' = [entry EXCEPT ![p] = "none"]
                                     /\ os = "linux" => unit' = [unit EXCEPT ![p] = "none"]
    <3>1. CASE U!DeregisterWindows
      BY <3>1 DEF U!DeregisterWindows, p
    <3>2. CASE U!DeregisterUnix
      BY <3>2 DEF U!DeregisterUnix, p
    <3> QED  BY <1>4, <3>1, <3>2 DEF U!Deregister
  <2>3. /\ entry' \in [U!Places -> {"none", "torn", "current"}]
        /\ unit' \in [U!Places -> {"none", "there", "enabled"}]
        /\ \A k \in U!Places : unit'[k] \in {unit[k], "none"}
        /\ removed' /\ ~unopened' => entry'[p] = "none" /\ unit'[p] = "none"
    BY <1>0, <2>2 DEF U!TypeOK, SessionHomes
  <2>4. U!TypeOK'
    BY <2>1, <2>2, <2>3 DEF U!TypeOK
  <2> QED  BY <1>0, <2>1, <2>2, <2>3, <2>4 DEF SessionUser, SessionHomes, SessionProgress,
                                         U!UsersOwn, p
<1>5. CASE U!Crash
  <2>1. /\ entry' \in [U!Places -> {"none", "torn", "current"}]
        /\ registered => entry' = entry
    BY <1>5 DEF U!Crash, U!TypeOK, SessionProgress
  <2> QED  BY <1>0, <1>5, <2>1 DEF U!Crash, U!TypeOK, U!account, U!said, SessionUser, SessionHomes,
                             SessionProgress, U!UsersOwn, p
<1>6. CASE U!Login \/ U!Logout
  <2>1. agents' \subseteq {"login", "unit", "hand"} /\ session' \in BOOLEAN
    BY <1>6 DEF U!Login, U!Logout, U!Starters
  <2> QED  BY <1>0, <1>6, <2>1 DEF U!Login, U!Logout, U!TypeOK, U!account, U!home, U!said,
                             SessionUser, SessionHomes, SessionProgress, U!UsersOwn, p
<1>7. CASE UNCHANGED U!vars
  BY <1>0, <1>7 DEF U!vars, U!TypeOK, U!account, U!home, U!said, SessionUser, SessionHomes,
              SessionProgress, U!UsersOwn, p
<1> QED  BY <1>1, <1>2, <1>3, <1>4, <1>5, <1>6, <1>7

LEMMA SessionStep ==
  ASSUME SessionInvariant, U!Next \/ UNCHANGED U!vars
  PROVE  SessionInvariant'
BY SessionBegin, SessionHandOver, SessionWrite, SessionRest DEF U!Next

(* A login entry reported as registered starts dig-app once at the next    *)
(* login, one reported as removed not at all, but for a Run key taken for  *)
(* absent and for configuration kept where a run acting for the account    *)
(* does not look; and an entry written for another account lies in that    *)
(* account's folders (autostart.rs, launch.rs, userwrite.rs).              *)
THEOREM LoginEntryHolds == Spec => []EntryHolds
<1>1. Init => (which = "session" => SessionInvariant)
  BY SessionInit DEF Init
<1>2. (which = "session" => SessionInvariant) /\ [Next]_vars
      => (which = "session" => SessionInvariant)'
  BY SessionStep DEF Next, vars, U!vars, U!account, U!home, U!said
<1>3. (which = "session" => SessionInvariant) => EntryHolds
  BY SessionSuffices DEF EntryHolds
<1> QED  BY <1>1, <1>2, <1>3, PTL DEF Spec

---------------------------------------------------------------------------
(* Forcelist.                                                              *)

OneOrNone(p) == \A m, n \in F!Ours(p) : m = n

(* One name is left free for us; on Linux nobody else writes.              *)
PolicyNames ==
  /\ os = "windows" => \A b \in Browsers : policy[b][3] # "org"
  /\ os = "linux" => \A b \in Browsers : policy[b][1] # "org"

(* What the look found still bounds what the write may hit: nobody but the *)
(* run adds an entry, and what others put there since counts as lost.      *)
PolicyLooked ==
  pc \in {"removing", "applying"} =>
    /\ F!Ours(policy[at]) \subseteq F!Ours(seen) /\ OneOrNone(seen)
    /\ \A n \in F!Names : <<at, n>> \in orgs \ lost => seen[n] = "org"
    /\ os = "windows" => seen[3] # "org"
    /\ pc = "applying" /\ os # "windows" => seen[1] # "org"
    /\ pc = "removing" /\ at \in had => policy[at] = seen

(* The browsers yet to come have no outcome; a reinstall that goes on to   *)
(* write without having removed finds the entry it met.                    *)
PolicyProgress ==
  pc # "idle" =>
    /\ at \notin todo /\ todo \cap had = {}
    /\ \A b \in todo \cup {at} : outcome[b] = "none"
    /\ pc = "remove" => at \notin had
    /\ pc = "apply" /\ op = "reinstall" /\ at \in had \ unread /\ removed # "Removed" =>
         F!Ours(policy[at]) # {}

PolicyInvariant ==
  /\ F!TypeOK /\ F!OrgKept /\ F!OutcomeTrue
  /\ \A b \in Browsers : OneOrNone(policy[b])
  /\ PolicyNames /\ PolicyLooked /\ PolicyProgress

LEMMA PolicySuffices == PolicyInvariant => F!TypeOK /\ F!PolicyHolds
<1> SUFFICES ASSUME PolicyInvariant, NEW b \in Browsers
             PROVE  F!Cardinality(F!Ours(policy[b])) <= 1
  BY DEF PolicyInvariant, F!PolicyHolds, F!OneEntry
<1>1. F!Ours(policy[b]) = {} \/ \E n : F!Ours(policy[b]) = {n}
  BY DEF PolicyInvariant, OneOrNone
<1>2. F!Cardinality(F!Ours(policy[b])) = Cardinality(F!Ours(policy[b]))
  BY Zenon DEF F!Cardinality, Cardinality
<1>3. Cardinality(F!Ours(policy[b])) \in {0, 1}
  <2>1. CASE F!Ours(policy[b]) = {}
    BY <2>1, FS_EmptySet
  <2>2. ASSUME NEW n, F!Ours(policy[b]) = {n}
        PROVE  Cardinality(F!Ours(policy[b])) = 1
    BY <2>2, FS_Singleton
  <2> QED  BY <1>1, <2>1, <2>2
<1> QED  BY <1>2, <1>3

LEMMA PolicyInit ==
  ASSUME F!Init
  PROVE  PolicyInvariant
<1>1. at \in Browsers
  BY BrowsersAssumption DEF F!Init
<1>2. policy = [b \in Browsers |-> [n \in F!Names |-> "none"]] /\ seen = policy[at]
  BY DEF F!Init
<1>3. "none" \in F!Values
  BY DEF F!Values
<1>4. 0 \in 0..Runs /\ 0 \in 0..Edits
  BY BoundsAssumption
<1>5. F!TypeOK
  BY <1>1, <1>2, <1>3, <1>4 DEF F!Init, F!TypeOK, F!Channels, F!Actions
<1>6. \A b \in Browsers : F!Ours(policy[b]) = {}
  BY <1>2 DEF F!Ours, F!Entries, F!Channels
<1>7. PolicyNames
  BY <1>2 DEF PolicyNames, F!Names
<1> QED  BY <1>5, <1>6, <1>7 DEF F!Init, PolicyInvariant, F!OrgKept, F!OutcomeTrue, OneOrNone,
                                 PolicyLooked, PolicyProgress

(* What may be reported of a browser with this policy.                     *)
OutcomeFits(p, action, met) ==
  /\ action \in {"Wrote", "AlreadyPresent", "Updated"} => \E n \in F!Names : p[n] = channel
  /\ action \in {"Removed", "NothingToRemove"} => F!Ours(p) = {}
  /\ op = "reinstall" /\ met /\ F!Ours(p) = {} => action = "Failed"

(* The browser in hand is done with.                                       *)
LEMMA PolicyReports ==
  ASSUME PolicyInvariant, pc # "idle", NEW action \in F!Actions, F!Report(action),
         UNCHANGED <<os, op, channel, selected, orgs, lost, runs, edits>>,
         policy' \in [Browsers -> [F!Names -> F!Values]], seen' \in [F!Names -> F!Values],
         \A b \in Browsers \ {at} : policy'[b] = policy[b],
         had' \subseteq Browsers, had' \ {at} = had \ {at},
         unread' \subseteq Browsers, unread \subseteq unread',
         F!OrgKept', (\A b \in Browsers : OneOrNone(policy[b]))', PolicyNames',
         at \notin unread' => OutcomeFits(policy'[at], action, at \in had')
  PROVE  PolicyInvariant'
<1> USE DEF PolicyInvariant
<1>1. /\ outcome' = [outcome EXCEPT ![at] = action] /\ removed' = removed
      /\ \/ todo = {} /\ pc' = "idle" /\ todo' = {} /\ at' = at
         \/ /\ at' \in todo /\ todo' = todo \ {at'} /\ pc' \in {"apply", "remove"}
            /\ pc' = "apply" <=> op = "apply"
  BY DEF F!Report, F!GoOn
<1>2. /\ outcome' \in [Browsers -> F!Actions \cup {"none"}] /\ outcome'[at] = action
      /\ \A b \in Browsers : b # at => outcome'[b] = outcome[b]
      /\ at \in Browsers /\ at' \in Browsers /\ todo \subseteq Browsers
  BY <1>1 DEF F!TypeOK
<1>3. F!Names' = F!Names /\ F!Values' = F!Values
  BY DEF F!Names, F!Values
<1>4. F!TypeOK'
  BY <1>1, <1>2, <1>3 DEF F!TypeOK
<1>5. F!OutcomeTrue'
  <2>1. SUFFICES ASSUME NEW b \in Browsers \ unread'
                 PROVE  /\ outcome'[b] \in {"Wrote", "AlreadyPresent", "Updated"} =>
                             \E n \in F!Names : policy'[b][n] = channel
                        /\ outcome'[b] \in {"Removed", "NothingToRemove"} =>
                             F!Ours(policy'[b]) = {}
                        /\ op = "reinstall" /\ b \in had' /\ outcome'[b] # "none"
                             /\ F!Ours(policy'[b]) = {} => outcome'[b] = "Failed"
    BY <1>3 DEF F!OutcomeTrue, F!Ours
  <2>2. CASE b = at
    BY <1>2, <2>1, <2>2 DEF OutcomeFits
  <2>3. CASE b # at
    BY <1>2, <2>1, <2>3 DEF F!OutcomeTrue
  <2> QED  BY <2>2, <2>3
<1>6. PolicyLooked'
  BY <1>1 DEF PolicyLooked
<1>7. PolicyProgress'
  BY <1>1, <1>2 DEF PolicyProgress
<1> QED  BY <1>4, <1>5, <1>6, <1>7

LEMMA PolicyBegin ==
  ASSUME PolicyInvariant, F!Begin
  PROVE  PolicyInvariant'
<1> USE DEF PolicyInvariant
<1>1. /\ op' \in {"apply", "remove", "reinstall"} /\ channel' \in F!Channels
      /\ selected' \subseteq F!Ids /\ at' \in Browsers /\ todo' \subseteq Browsers
      /\ at' \notin todo' /\ pc' \in {"apply", "remove"} /\ runs' \in 0..Runs
  BY BoundsAssumption DEF F!Begin, F!PolicyTargets, F!Ids, F!TypeOK
<1>2. /\ outcome' = [b \in Browsers |-> "none"] /\ had' = {} /\ unread' = {}
      /\ removed' = "NothingToRemove" /\ UNCHANGED <<os, policy, seen, orgs, lost, edits>>
  BY DEF F!Begin
<1>3. F!Names' = F!Names /\ F!Values' = F!Values
  BY <1>2 DEF F!Names, F!Values
<1>4. F!TypeOK'
  BY <1>1, <1>2, <1>3 DEF F!TypeOK, F!Actions
<1>5. F!OutcomeTrue'
  BY <1>2 DEF F!OutcomeTrue
<1>6. PolicyLooked' /\ PolicyProgress'
  BY <1>1, <1>2 DEF PolicyLooked, PolicyProgress
<1> QED  BY <1>2, <1>4, <1>5, <1>6 DEF F!OrgKept, OneOrNone, F!Ours, PolicyNames

(* The policy of the browser in hand, as it is when it is looked at.       *)
LEMMA PolicyAt ==
  ASSUME PolicyInvariant
  PROVE  /\ at \in Browsers /\ policy[at] \in [F!Names -> F!Values]
         /\ OneOrNone(policy[at]) /\ F!Ours(policy[at]) \subseteq F!Names
         /\ \A n \in F!Names : <<at, n>> \in orgs \ lost => policy[at][n] = "org"
<1>1. at \in Browsers /\ policy[at] \in [F!Names -> F!Values]
  BY DEF PolicyInvariant, F!TypeOK
<1> QED  BY <1>1 DEF PolicyInvariant, F!OrgKept, F!Ours

LEMMA PolicyLookToRemove ==
  ASSUME PolicyInvariant, F!LookToRemove
  PROVE  PolicyInvariant'
<1> USE DEF PolicyInvariant
<1>1. /\ pc = "remove" /\ seen' = policy[at]
      /\ had' = IF F!Ours(policy[at]) # {} THEN had \cup {at} ELSE had
      /\ UNCHANGED <<os, op, channel, selected, policy, orgs, lost, runs, edits>>
  BY DEF F!LookToRemove, F!Met, F!run
<1>2. /\ at \in Browsers /\ at \notin had /\ at \notin todo /\ outcome[at] = "none"
      /\ had' \subseteq Browsers /\ had' \ {at} = had \ {at}
      /\ seen' \in [F!Names -> F!Values]
  BY <1>1, PolicyAt DEF PolicyProgress, F!TypeOK
<1>3. F!Names' = F!Names /\ F!Values' = F!Values
  BY <1>1 DEF F!Names, F!Values
<1>4. /\ F!OrgKept' /\ (\A b \in Browsers : OneOrNone(policy[b]))' /\ PolicyNames'
  BY <1>1 DEF F!OrgKept, OneOrNone, F!Ours, PolicyNames
<1>5. F!OutcomeTrue' \/ outcome' # outcome
  <2>1. SUFFICES ASSUME outcome' = outcome PROVE F!OutcomeTrue'
    OBVIOUS
  <2>2. unread \subseteq unread'
    BY DEF F!LookToRemove
  <2>3. \A b \in Browsers : b \in had' /\ outcome[b] # "none" => b \in had
    BY <1>1, <1>2
  <2> QED  BY <1>1, <1>3, <2>1, <2>2, <2>3 DEF F!OutcomeTrue, F!Ours
<1>6. ASSUME NEW action \in {"NothingToRemove", "Skipped"}, F!EndRemove(action),
             unread' \in {unread, unread \cup {at}},
             at \notin unread' => F!Ours(policy[at]) = {}
      PROVE  PolicyInvariant'
  <2>1. CASE op = "reinstall"
    <3>1. /\ removed' = action /\ pc' = "apply" /\ UNCHANGED <<outcome, at, todo>>
      BY <1>6, <2>1 DEF F!EndRemove
    <3>2. F!TypeOK'
      BY <1>1, <1>2, <1>3, <1>6, <3>1 DEF F!TypeOK, F!Actions
    <3>3. PolicyProgress'
      BY <1>1, <1>2, <1>6, <3>1 DEF PolicyProgress
    <3> QED  BY <1>4, <1>5, <3>1, <3>2, <3>3 DEF PolicyLooked
  <2>2. CASE op # "reinstall"
    <3>1. F!Report(action) /\ action \in F!Actions
      BY <1>6, <2>2 DEF F!EndRemove, F!Actions
    <3>2. unread' \subseteq Browsers /\ unread \subseteq unread'
      BY <1>2, <1>6 DEF F!TypeOK
    <3>3. at \notin unread' => OutcomeFits(policy'[at], action, at \in had')
      BY <1>1, <1>6, <2>2 DEF OutcomeFits
    <3>4. policy' \in [Browsers -> [F!Names -> F!Values]]
      BY <1>1 DEF F!TypeOK
    <3> QED  BY <1>1, <1>2, <1>4, <3>1, <3>2, <3>3, <3>4, PolicyReports
  <2> QED  BY <2>1, <2>2
<1>7. CASE /\ F!Ours(policy[at]) # {} /\ pc' = "removing"
           /\ UNCHANGED <<outcome, removed, at, todo, unread>>
  <2>1. F!TypeOK'
    BY <1>1, <1>2, <1>3, <1>7 DEF F!TypeOK
  <2>2. PolicyLooked'
    <3>1. F!Ours(policy[at])' = F!Ours(seen)'
      BY <1>1, <1>7
    <3>2. OneOrNone(seen)'
      BY <1>1, PolicyAt DEF OneOrNone, F!Ours
    <3>3. \A n \in F!Names : <<at, n>> \in orgs \ lost => seen'[n] = "org"
      BY <1>1, PolicyAt
    <3>4. os = "windows" => seen'[3] # "org"
      BY <1>1, <1>2 DEF PolicyNames
    <3> QED  BY <1>1, <1>3, <1>7, <3>1, <3>2, <3>3, <3>4 DEF PolicyLooked
  <2>3. PolicyProgress'
    BY <1>1, <1>2, <1>7 DEF PolicyProgress
  <2> QED  BY <1>4, <1>5, <1>7, <2>1, <2>2, <2>3
<1>8. F!Ours(seen') = F!Ours(policy[at])
  BY <1>1
<1>9. unread' = unread \/ unread' = unread \cup {at}
  BY DEF F!LookToRemove
<1>10. \/ /\ F!Ours(policy[at]) # {} /\ pc' = "removing"
          /\ UNCHANGED <<outcome, removed, at, todo, unread>>
       \/ \E action \in {"NothingToRemove", "Skipped"} :
            F!EndRemove(action) /\ (at \notin unread' => F!Ours(policy[at]) = {})
  BY <1>8, Zenon DEF F!LookToRemove
<1> QED  BY <1>6, <1>7, <1>9, <1>10

LEMMA PolicyRemove ==
  ASSUME PolicyInvariant, F!Remove
  PROVE  PolicyInvariant'
<1> USE DEF PolicyInvariant
<1>1. PICK kept \in SUBSET F!Ours(seen) :
        /\ policy' = [policy EXCEPT ![at] =
             [n \in F!Names |-> IF n \in F!Ours(seen) \ kept THEN "none" ELSE @[n]]]
        /\ F!EndRemove(IF kept = {} THEN "Removed" ELSE "Failed")
  BY DEF F!Remove
<1> DEFINE action == IF kept = {} THEN "Removed" ELSE "Failed"
           p == [n \in F!Names |-> IF n \in F!Ours(seen) \ kept THEN "none" ELSE policy[at][n]]
<1>2. /\ pc = "removing" /\ seen' = seen
      /\ UNCHANGED <<os, op, channel, selected, had, orgs, lost, unread, runs, edits>>
  BY DEF F!Remove, F!run, F!hist
<1>3. F!Names' = F!Names /\ F!Values' = F!Values
  BY <1>2 DEF F!Names, F!Values
<1>4. /\ at \in Browsers /\ p \in [F!Names -> F!Values]
      /\ policy' \in [Browsers -> [F!Names -> F!Values]] /\ policy'[at] = p
      /\ \A b \in Browsers \ {at} : policy'[b] = policy[b]
  <2>1. "none" \in F!Values
    BY DEF F!Values
  <2>2. p \in [F!Names -> F!Values]
    BY <2>1, PolicyAt
  <2> QED  BY <1>1, <2>2, PolicyAt DEF F!TypeOK
<1>5. /\ F!Ours(p) = F!Ours(policy[at]) \ (F!Ours(seen) \ kept)
      /\ \A n \in F!Names : p[n] \in {policy[at][n], "none"}
  BY <1>4, PolicyAt DEF F!Ours, F!Entries, F!Channels
<1> HIDE DEF p
<1>6. F!OrgKept'
  <2>1. ASSUME NEW n \in F!Names, <<at, n>> \in orgs \ lost
        PROVE  policy'[at][n] = "org"
    <3>1. seen[n] = "org" /\ policy[at][n] = "org"
      BY <1>2, <2>1, PolicyAt DEF PolicyLooked
    <3>2. n \notin F!Ours(seen)
      BY <3>1 DEF F!Ours, F!Entries, F!Channels
    <3> QED  BY <1>4, <3>1, <3>2 DEF p
  <2> QED  BY <1>2, <1>4, <2>1 DEF F!OrgKept, F!TypeOK
<1>7. (\A b \in Browsers : OneOrNone(policy[b]))'
  <2>1. OneOrNone(p)
    BY <1>5, PolicyAt DEF OneOrNone
  <2> QED  BY <1>4, <2>1 DEF OneOrNone
<1>8. PolicyNames'
  BY <1>2, <1>4, <1>5 DEF PolicyNames, F!Names
<1>9. kept = {} => F!Ours(p) = {}
  BY <1>2, <1>5 DEF PolicyLooked
<1>10. kept # {} /\ at \in had => F!Ours(p) # {}
  BY <1>2, <1>5 DEF PolicyLooked
<1>11. action \in F!Actions
  BY DEF F!Actions
<1>12. CASE op = "reinstall"
  <2>1. /\ removed' = action /\ pc' = "apply" /\ UNCHANGED <<outcome, at, todo>>
    BY <1>1, <1>12 DEF F!EndRemove
  <2>2. F!TypeOK'
    BY <1>2, <1>3, <1>4, <1>11, <2>1 DEF F!TypeOK
  <2>3. PolicyProgress'
    BY <1>2, <1>4, <1>10, <2>1 DEF PolicyProgress
  <2>4. F!OutcomeTrue'
    <3>1. outcome[at] = "none"
      BY <1>2 DEF PolicyProgress
    <3> QED  BY <1>2, <1>3, <1>4, <2>1, <3>1 DEF F!OutcomeTrue, F!Ours
  <2> QED  BY <1>6, <1>7, <1>8, <2>1, <2>2, <2>3, <2>4 DEF PolicyLooked
<1>13. CASE op # "reinstall"
  <2>1. F!Report(action)
    BY <1>1, <1>13 DEF F!EndRemove
  <2>2. OutcomeFits(policy'[at], action, at \in had')
    BY <1>4, <1>9, <1>13 DEF OutcomeFits
  <2>3. seen' \in [F!Names -> F!Values] /\ had' \subseteq Browsers /\ unread' \subseteq Browsers
    BY <1>2 DEF F!TypeOK
  <2> HIDE DEF action
  <2> QED  BY <1>2, <1>4, <1>6, <1>7, <1>8, <1>11, <2>1, <2>2, <2>3, PolicyReports
<1> QED  BY <1>12, <1>13

(* What a reinstall makes of the outcome of its second half.               *)
LEMMA EndsApply ==
  ASSUME NEW action \in {"Wrote", "AlreadyPresent", "Updated", "Skipped", "Failed"},
         F!EndApply(action)
  PROVE  \E done \in {"Wrote", "AlreadyPresent", "Updated", "Skipped", "Failed"} :
           /\ F!Report(done)
           /\ action = "Failed" => done = "Failed"
           /\ action = "Skipped" => done \in {"Skipped", "Failed"}
           /\ op = "reinstall" /\ removed = "Removed" /\ action = "Skipped" => done = "Failed"
<1> DEFINE done == IF op = "reinstall" THEN F!Combined(action) ELSE action
<1>1. F!Report(done)
  BY DEF F!EndApply
<1>2. /\ done \in {"Wrote", "AlreadyPresent", "Updated", "Skipped", "Failed"}
      /\ action = "Failed" => done = "Failed"
      /\ action = "Skipped" => done \in {"Skipped", "Failed"}
      /\ op = "reinstall" /\ removed = "Removed" /\ action = "Skipped" => done = "Failed"
  BY DEF F!Combined
<1> HIDE DEF done
<1> QED  BY <1>1, <1>2

LEMMA PolicyLookToApply ==
  ASSUME PolicyInvariant, F!LookToApply
  PROVE  PolicyInvariant'
<1> USE DEF PolicyInvariant
<1> DEFINE present == channel \in {seen'[n] : n \in F!Ours(seen')}
           foreigns == os = "macos" /\ seen'[1] \in {"org", "torn"}
<1>1. /\ pc = "apply" /\ seen' = policy[at] /\ F!Ours(seen') = F!Ours(policy[at])
      /\ UNCHANGED <<os, op, channel, selected, policy, had, orgs, lost, unread, runs, edits>>
  BY DEF F!LookToApply, F!run, F!hist
<1>2. at \in Browsers /\ seen' \in [F!Names -> F!Values] /\ outcome[at] = "none"
  BY <1>1, PolicyAt DEF PolicyProgress
<1>3. F!Names' = F!Names /\ F!Values' = F!Values
  BY <1>1 DEF F!Names, F!Values
<1>4. /\ F!OrgKept' /\ (\A b \in Browsers : OneOrNone(policy[b]))' /\ PolicyNames'
  BY <1>1 DEF F!OrgKept, OneOrNone, F!Ours, PolicyNames
<1>5. ASSUME NEW action \in {"AlreadyPresent", "Skipped", "Failed"}, F!EndApply(action),
             action = "AlreadyPresent" => present
      PROVE  PolicyInvariant'
  <2>1. PICK done \in {"Wrote", "AlreadyPresent", "Updated", "Skipped", "Failed"} :
           /\ F!Report(done)
           /\ action = "Failed" => done = "Failed"
           /\ action = "Skipped" => done \in {"Skipped", "Failed"}
           /\ op = "reinstall" /\ removed = "Removed" /\ action = "Skipped" => done = "Failed"
    BY <1>5, EndsApply
  <2>2. present => \E n \in F!Names : policy[at][n] = channel
    BY <1>1, PolicyAt
  <2>3. present => F!Ours(policy[at]) # {}
    BY <1>1
  <2>4. at \notin unread' => OutcomeFits(policy'[at], done, at \in had')
    <3>1. SUFFICES ASSUME at \notin unread
                   PROVE  OutcomeFits(policy[at], done, at \in had)
      BY <1>1 DEF OutcomeFits, F!Names, F!Ours
    <3>2. CASE action = "AlreadyPresent"
      BY <1>5, <2>2, <2>3, <3>2 DEF OutcomeFits
    <3>3. CASE action = "Failed"
      BY <2>1, <3>3 DEF OutcomeFits
    <3>4. CASE action = "Skipped"
      BY <1>1, <2>1, <3>1, <3>4 DEF OutcomeFits, PolicyProgress
    <3> QED  BY <3>2, <3>3, <3>4
  <2>5. /\ policy' \in [Browsers -> [F!Names -> F!Values]] /\ had' \subseteq Browsers
        /\ unread' \subseteq Browsers
    BY <1>1 DEF F!TypeOK
  <2> QED  BY <1>1, <1>2, <1>4, <2>1, <2>4, <2>5, PolicyReports DEF F!Actions
<1>6. CASE ~present /\ ~foreigns /\ pc' = "applying" /\ UNCHANGED <<outcome, removed, at, todo>>
  <2>1. F!TypeOK'
    BY <1>1, <1>2, <1>3, <1>6 DEF F!TypeOK
  <2>2. PolicyLooked'
    <3>1. OneOrNone(seen)'
      BY <1>1, PolicyAt DEF OneOrNone, F!Ours
    <3>2. \A n \in F!Names : <<at, n>> \in orgs \ lost => seen'[n] = "org"
      BY <1>1, PolicyAt
    <3>3. os = "windows" => seen'[3] # "org"
      BY <1>1, <1>2 DEF PolicyNames
    <3>4. os # "windows" => seen'[1] # "org"
      BY <1>1, <1>2, <1>6 DEF PolicyNames, F!TypeOK
    <3> QED  BY <1>1, <1>3, <1>6, <3>1, <3>2, <3>3, <3>4 DEF PolicyLooked
  <2>3. PolicyProgress'
    BY <1>1, <1>2, <1>6 DEF PolicyProgress
  <2>4. F!OutcomeTrue'
    BY <1>1, <1>3, <1>6 DEF F!OutcomeTrue, F!Ours
  <2> QED  BY <1>4, <2>1, <2>2, <2>3, <2>4
<1> HIDE DEF present, foreigns
<1>7. \/ ~present /\ ~foreigns /\ pc' = "applying" /\ UNCHANGED <<outcome, removed, at, todo>>
      \/ present /\ F!EndApply("AlreadyPresent")
      \/ F!EndApply("Skipped") \/ F!EndApply("Failed")
  BY DEF F!LookToApply, present, foreigns
<1> QED  BY <1>5, <1>6, <1>7

(* The name written is ours or free, so nobody's entry goes that was there *)
(* at the look.                                                            *)
LEMMA PolicyTarget ==
  ASSUME PolicyInvariant, pc = "applying"
  PROVE  /\ F!Target(seen) \in F!Names
         /\ seen[F!Target(seen)] # "org"
         /\ F!Ours(policy[at]) \subseteq {F!Target(seen)}
<1> DEFINE n == F!Target(seen)
<1>1. /\ seen \in [F!Names -> F!Values] /\ OneOrNone(seen) /\ F!Ours(seen) \subseteq F!Names
      /\ F!Ours(policy[at]) \subseteq F!Ours(seen)
      /\ os = "windows" => seen[3] # "org"
      /\ os # "windows" => seen[1] # "org"
  BY DEF PolicyInvariant, F!TypeOK, PolicyLooked, F!Ours
<1>2. CASE os # "windows"
  BY <1>1, <1>2 DEF F!Target, F!Names
<1>3. CASE os = "windows" /\ F!Ours(seen) # {}
  <2>1. n \in F!Ours(seen)
    BY <1>3 DEF F!Target
  <2> QED  BY <1>1, <2>1 DEF OneOrNone, F!Ours, F!Entries, F!Channels
<1>4. CASE os = "windows" /\ F!Ours(seen) = {}
  <2>1. n = F!NextFreeName(seen) /\ F!Names = 1..3
    BY <1>4 DEF F!Target, F!Names
  <2>2. seen[3] = "none"
    BY <1>1, <1>4, <2>1 DEF F!Ours, F!Values
  <2>3. F!Free(seen) \subseteq {1, 2, 3} /\ 3 \in F!Free(seen)
    BY <2>1, <2>2 DEF F!Free
  <2>4. \E m \in F!Free(seen) : \A k \in F!Free(seen) : m <= k
    <3>1. CASE 1 \in F!Free(seen)
      BY <2>3, <3>1
    <3>2. CASE 1 \notin F!Free(seen) /\ 2 \in F!Free(seen)
      BY <2>3, <3>2
    <3>3. CASE 1 \notin F!Free(seen) /\ 2 \notin F!Free(seen)
      BY <2>3, <3>3
    <3> QED  BY <3>1, <3>2, <3>3
  <2>5. n \in F!Free(seen)
    BY <2>1, <2>4 DEF F!NextFreeName
  <2> QED  BY <1>1, <1>4, <2>5 DEF F!Free
<1> QED  BY <1>2, <1>3, <1>4

LEMMA PolicyApply ==
  ASSUME PolicyInvariant, F!Apply
  PROVE  PolicyInvariant'
<1> USE DEF PolicyInvariant
<1> DEFINE n == F!Target(seen)
<1>1. /\ pc = "applying" /\ seen' = seen
      /\ UNCHANGED <<os, op, channel, selected, had, orgs, lost, unread, runs, edits>>
  BY DEF F!Apply, F!run, F!hist
<1>2. /\ n \in F!Names /\ seen[n] # "org" /\ F!Ours(policy[at]) \subseteq {n}
      /\ at \in Browsers /\ policy[at] \in [F!Names -> F!Values]
      /\ <<at, n>> \notin orgs \ lost
      /\ OneOrNone(policy[at])
  BY <1>1, PolicyTarget, PolicyAt DEF PolicyLooked
<1> HIDE DEF n
<1>3. F!Names' = F!Names /\ F!Values' = F!Values
  BY <1>1 DEF F!Names, F!Values
<1>4. ASSUME NEW v \in {channel, "torn"}, v \in F!Values, policy' = [policy EXCEPT ![at][n] = v]
      PROVE  /\ policy' \in [Browsers -> [F!Names -> F!Values]]
             /\ policy'[at][n] = v
             /\ \A b \in Browsers \ {at} : policy'[b] = policy[b]
             /\ F!OrgKept' /\ (\A b \in Browsers : OneOrNone(policy[b]))' /\ PolicyNames'
  <2> DEFINE p == [policy[at] EXCEPT ![n] = v]
  <2>1. /\ p \in [F!Names -> F!Values] /\ p[n] = v
        /\ \A m \in F!Names : m # n => p[m] = policy[at][m]
    BY <1>2, <1>4
  <2> HIDE DEF p
  <2>2. policy' = [policy EXCEPT ![at] = p]
    BY <1>4 DEF p
  <2>3. /\ policy' \in [Browsers -> [F!Names -> F!Values]] /\ policy'[at] = p
        /\ \A b \in Browsers \ {at} : policy'[b] = policy[b]
    BY <1>2, <2>1, <2>2 DEF F!TypeOK
  <2>4. F!OrgKept'
    <3>1. ASSUME NEW o \in orgs \ lost
          PROVE  policy'[o[1]][o[2]] = "org"
      <4>1. o \in Browsers \X F!Names /\ policy[o[1]][o[2]] = "org"
        BY <3>1 DEF F!OrgKept, F!TypeOK
      <4>2. CASE o[1] # at
        BY <2>3, <4>1, <4>2
      <4>3. CASE o[1] = at
        BY <1>2, <2>1, <2>3, <4>1, <4>3
      <4> QED  BY <4>2, <4>3
    <3> QED  BY <1>1, <3>1 DEF F!OrgKept
  <2>5. F!Ours(p) \subseteq {n}
    BY <1>2, <2>1 DEF F!Ours
  <2>6. (\A b \in Browsers : OneOrNone(policy[b]))'
    <3>1. ASSUME NEW b \in Browsers
          PROVE  \A m, k \in F!Ours(policy'[b]) : m = k
      <4>1. CASE b = at
        BY <2>3, <2>5, <4>1
      <4>2. CASE b # at
        BY <2>3, <3>1, <4>2 DEF OneOrNone
      <4> QED  BY <4>1, <4>2
    <3> QED  BY <3>1 DEF OneOrNone, F!Ours
  <2>7. v # "org"
    BY <1>4 DEF F!TypeOK, F!Channels
  <2>8. PolicyNames'
    BY <1>1, <1>2, <2>1, <2>3, <2>7 DEF PolicyNames, F!Names
  <2> QED  BY <2>1, <2>3, <2>4, <2>6, <2>8
<1>5. /\ seen' \in [F!Names -> F!Values] /\ had' \subseteq Browsers /\ unread' \subseteq Browsers
      /\ had' \ {at} = had \ {at} /\ unread \subseteq unread'
  BY <1>1 DEF F!TypeOK
<1>6. CASE /\ policy' = [policy EXCEPT ![at][n] = channel]
           /\ F!EndApply(IF os = "windows" /\ F!Ours(seen) # {} THEN "Updated" ELSE "Wrote")
  <2>1. channel \in F!Values /\ channel \in F!Entries
    BY DEF F!Values, F!Entries, F!TypeOK
  <2>2. PICK done \in {"Wrote", "AlreadyPresent", "Updated", "Skipped", "Failed"} :
           F!Report(done)
    BY <1>6, EndsApply
  <2>3. policy'[at][n] = channel /\ policy'[at] \in [F!Names -> F!Values]
    BY <1>2, <1>4, <1>6, <2>1
  <2>4. n \in F!Ours(policy'[at])
    BY <1>2, <2>1, <2>3 DEF F!Ours
  <2>5. OutcomeFits(policy'[at], done, at \in had')
    BY <1>2, <2>3, <2>4 DEF OutcomeFits
  <2> QED  BY <1>1, <1>4, <1>5, <1>6, <2>1, <2>2, <2>5, PolicyReports DEF F!Actions
<1>7. CASE policy' = policy /\ F!EndApply("Failed")
  <2>1. F!Report("Failed")
    BY <1>7, EndsApply
  <2>2. OutcomeFits(policy'[at], "Failed", at \in had')
    BY DEF OutcomeFits
  <2>3. F!OrgKept' /\ (\A b \in Browsers : OneOrNone(policy[b]))' /\ PolicyNames'
        /\ policy' \in [Browsers -> [F!Names -> F!Values]]
    BY <1>1, <1>7 DEF F!OrgKept, OneOrNone, F!Ours, PolicyNames, F!TypeOK
  <2> QED  BY <1>1, <1>5, <1>7, <2>1, <2>2, <2>3, PolicyReports DEF F!Actions
<1>8. CASE os = "macos" /\ policy' = [policy EXCEPT ![at][n] = "torn"] /\ F!EndApply("Failed")
  <2>1. F!Report("Failed")
    BY <1>8, EndsApply
  <2>2. OutcomeFits(policy'[at], "Failed", at \in had')
    BY DEF OutcomeFits
  <2>3. "torn" \in F!Values
    BY <1>8 DEF F!Values
  <2> QED  BY <1>1, <1>4, <1>5, <1>8, <2>1, <2>2, <2>3, PolicyReports DEF F!Actions
<1> QED  BY <1>6, <1>7, <1>8 DEF F!Apply, n

LEMMA PolicyCrash ==
  ASSUME PolicyInvariant, F!Crash
  PROVE  PolicyInvariant'
<1> USE DEF PolicyInvariant
<1>1. /\ pc # "idle" /\ pc' = "idle" /\ todo' = {}
      /\ UNCHANGED <<os, op, channel, selected, at, seen, removed, outcome, had, orgs, lost,
                     unread, runs, edits>>
      /\ \/ policy' = policy
         \/ os = "macos" /\ pc = "applying" /\ policy' = [policy EXCEPT ![at][1] = "torn"]
  BY DEF F!Crash, F!run, F!hist
<1>2. F!Names' = F!Names /\ F!Values' = F!Values
  BY <1>1 DEF F!Names, F!Values
<1>3. PolicyLooked' /\ PolicyProgress'
  BY <1>1 DEF PolicyLooked, PolicyProgress
<1>4. CASE policy' = policy
  BY <1>1, <1>2, <1>3, <1>4
  DEF F!TypeOK, F!OrgKept, F!OutcomeTrue, OneOrNone, F!Ours, PolicyNames
<1>5. CASE os = "macos" /\ pc = "applying" /\ policy' = [policy EXCEPT ![at][1] = "torn"]
  <2>1. /\ at \in Browsers /\ policy[at] \in [F!Names -> F!Values] /\ F!Names = {1}
        /\ "torn" \in F!Values /\ <<at, 1>> \notin orgs \ lost /\ outcome[at] = "none"
    BY <1>5, PolicyAt DEF F!Names, F!Values, PolicyLooked, PolicyProgress
  <2> DEFINE p == [policy[at] EXCEPT ![1] = "torn"]
  <2>2. p \in [F!Names -> F!Values] /\ p[1] = "torn"
    BY <2>1
  <2> HIDE DEF p
  <2>3. policy' = [policy EXCEPT ![at] = p]
    BY <1>5 DEF p
  <2>4. /\ policy' \in [Browsers -> [F!Names -> F!Values]] /\ policy'[at] = p
        /\ \A b \in Browsers \ {at} : policy'[b] = policy[b]
    BY <2>1, <2>2, <2>3 DEF F!TypeOK
  <2>5. F!TypeOK'
    BY <1>1, <1>2, <2>4 DEF F!TypeOK
  <2>6. F!OrgKept'
    <3>1. SUFFICES ASSUME NEW o \in orgs \ lost
                   PROVE  policy'[o[1]][o[2]] = "org"
      BY <1>1 DEF F!OrgKept
    <3>2. PICK c \in Browsers, m \in F!Names : o = <<c, m>>
      BY <3>1 DEF F!TypeOK
    <3>3. c # at
      BY <2>1, <3>1, <3>2
    <3>4. policy[c][m] = "org"
      BY <3>1, <3>2 DEF F!OrgKept
    <3> QED  BY <2>4, <3>2, <3>3, <3>4
  <2>7. F!OutcomeTrue'
    BY <1>1, <1>2, <2>1, <2>4 DEF F!OutcomeTrue, F!Ours
  <2>8. (\A b \in Browsers : OneOrNone(policy[b]))'
    <3>1. F!Ours(p) = {}
      BY <2>1, <2>2 DEF F!Ours, F!Entries, F!Channels
    <3>2. OneOrNone(p)
      BY <3>1 DEF OneOrNone
    <3> QED  BY <2>4, <3>2 DEF OneOrNone, F!Ours
  <2>9. PolicyNames'
    BY <1>1, <1>5 DEF PolicyNames
  <2> QED  BY <1>3, <2>5, <2>6, <2>7, <2>8, <2>9
<1> QED  BY <1>1, <1>4, <1>5

(* The administrator: what is put there now is not lost, unless it is      *)
(* behind the back of a step that has looked.                              *)
LEMMA PolicyEdit ==
  ASSUME PolicyInvariant, F!Edit
  PROVE  PolicyInvariant'
<1> USE DEF PolicyInvariant
<1>1. PICK b \in Browsers, n \in F!Names \ (IF os = "windows" THEN {3} ELSE {}) :
       /\ \/ /\ policy[b][n] # "org" /\ policy' = [policy EXCEPT ![b][n] = "org"]
             /\ orgs' = orgs \cup {<<b, n>>}
             /\ lost' = IF b = at /\ pc \in {"removing", "applying"} THEN lost \cup {<<b, n>>}
                        ELSE lost \ {<<b, n>>}
          \/ /\ policy[b][n] = "org" /\ policy' = [policy EXCEPT ![b][n] = "none"]
             /\ orgs' = orgs \ {<<b, n>>} /\ lost' = lost \ {<<b, n>>}
       /\ outcome' = [outcome EXCEPT ![b] = "none"]
       /\ had' = had \ {b}
  BY DEF F!Edit
<1>2. /\ os # "linux" /\ edits' \in 0..Edits
      /\ UNCHANGED <<os, op, channel, selected, pc, at, todo, seen, removed, unread, runs>>
  BY BoundsAssumption DEF F!Edit, F!run, F!TypeOK
<1>3. F!Names' = F!Names /\ F!Values' = F!Values
  BY <1>2 DEF F!Names, F!Values
<1>4. PICK v \in {"org", "none"} : policy' = [policy EXCEPT ![b][n] = v]
  BY <1>1
<1> DEFINE p == [policy[b] EXCEPT ![n] = v]
<1>5. /\ b \in Browsers /\ n \in F!Names /\ v \in F!Values /\ at \in Browsers
      /\ policy[b] \in [F!Names -> F!Values]
  BY <1>1 DEF F!Values, F!TypeOK
<1>6. /\ p \in [F!Names -> F!Values] /\ p[n] = v
      /\ \A m \in F!Names : m # n => p[m] = policy[b][m]
  BY <1>5
<1> HIDE DEF p
<1>7. policy' = [policy EXCEPT ![b] = p]
  BY <1>4 DEF p
<1>8. /\ policy' \in [Browsers -> [F!Names -> F!Values]] /\ policy'[b] = p
      /\ \A c \in Browsers : c # b => policy'[c] = policy[c]
  BY <1>5, <1>6, <1>7 DEF F!TypeOK
<1>9. F!Ours(p) \subseteq F!Ours(policy[b])
  BY <1>4, <1>5, <1>6 DEF F!Ours, F!Entries, F!Channels
<1>10. /\ outcome' \in [Browsers -> F!Actions \cup {"none"}] /\ outcome'[b] = "none"
       /\ \A c \in Browsers : c # b => outcome'[c] = outcome[c]
  BY <1>1, <1>5 DEF F!TypeOK
<1>11. /\ orgs' \subseteq Browsers \X F!Names /\ lost' \subseteq orgs'
  BY <1>1, <1>5 DEF F!TypeOK
<1>12. F!TypeOK'
  BY <1>1, <1>2, <1>3, <1>8, <1>10, <1>11 DEF F!TypeOK
<1>13. F!OrgKept'
  <2>1. SUFFICES ASSUME NEW o \in orgs' \ lost'
                 PROVE  policy'[o[1]][o[2]] = "org"
    BY DEF F!OrgKept
  <2>2. PICK c \in Browsers, m \in F!Names : o = <<c, m>>
    BY <1>11, <2>1
  <2>3. CASE c = b /\ m = n
    <3>1. policy' = [policy EXCEPT ![b][n] = "org"]
      BY <1>1, <2>1, <2>2, <2>3
    <3>2. policy'[b][n] = "org"
      BY <1>5, <3>1 DEF F!TypeOK
    <3> QED  BY <2>2, <2>3, <3>2
  <2>4. CASE ~(c = b /\ m = n)
    <3>1. o \in orgs \ lost
      BY <1>1, <2>1, <2>2, <2>4
    <3>2. policy[c][m] = "org"
      BY <2>2, <3>1 DEF F!OrgKept
    <3> QED  BY <1>6, <1>8, <2>2, <2>4, <3>2
  <2> QED  BY <2>3, <2>4
<1>14. F!OutcomeTrue'
  BY <1>1, <1>2, <1>3, <1>8, <1>10 DEF F!OutcomeTrue, F!Ours
<1>15. (\A c \in Browsers : OneOrNone(policy[c]))'
  BY <1>8, <1>9 DEF OneOrNone
<1>16. PolicyNames'
  BY <1>1, <1>2, <1>6, <1>8 DEF PolicyNames, F!Names
<1>17. PolicyLooked'
  <2>1. SUFFICES ASSUME pc \in {"removing", "applying"}
                 PROVE  /\ F!Ours(policy'[at]) \subseteq F!Ours(seen)
                        /\ \A m \in F!Names : <<at, m>> \in orgs' \ lost' => seen[m] = "org"
                        /\ pc = "removing" /\ at \in had' => policy'[at] = seen
    BY <1>2, <1>3 DEF PolicyLooked, OneOrNone, F!Ours
  <2>2. F!Ours(policy'[at]) \subseteq F!Ours(seen)
    BY <1>5, <1>8, <1>9, <2>1 DEF PolicyLooked
  <2>3. ASSUME NEW m \in F!Names, <<at, m>> \in orgs' \ lost'
        PROVE  seen[m] = "org"
    <3>1. <<at, m>> \in orgs \ lost
      BY <1>1, <2>1, <2>3
    <3> QED  BY <2>1, <3>1 DEF PolicyLooked
  <2>4. pc = "removing" /\ at \in had' => policy'[at] = seen
    BY <1>1, <1>5, <1>8, <2>1 DEF PolicyLooked
  <2> QED  BY <2>2, <2>3, <2>4
<1>18. PolicyProgress'
  <2>1. at \in had' => policy'[at] = policy[at] /\ at \in had
    BY <1>1, <1>5, <1>8
  <2>2. F!Ours(policy[at])' = F!Ours(policy'[at])
    BY <1>2
  <2> QED  BY <1>1, <1>2, <1>5, <1>10, <2>1, <2>2 DEF PolicyProgress, F!TypeOK
<1> QED  BY <1>12, <1>13, <1>14, <1>15, <1>16, <1>17, <1>18

LEMMA PolicyStep ==
  ASSUME PolicyInvariant, F!Next \/ UNCHANGED F!vars
  PROVE  PolicyInvariant'
<1>1. CASE UNCHANGED F!vars
  BY <1>1 DEF F!vars, F!run, F!hist, PolicyInvariant, F!TypeOK, F!OrgKept, F!OutcomeTrue,
              OneOrNone, PolicyNames, PolicyLooked, PolicyProgress, F!Names, F!Values, F!Ours
<1> QED  BY <1>1, PolicyBegin, PolicyLookToRemove, PolicyRemove, PolicyLookToApply, PolicyApply,
            PolicyCrash, PolicyEdit DEF F!Next

(* A browser's policy keeps what an administrator put there, has our entry *)
(* once at most, and the outcome reported is so, for any browsers and any  *)
(* number of runs and edits (forcelist/mod.rs, combine_reinstall).         *)
THEOREM PoliciesHold == Spec => []PolicyHolds
<1>1. Init => (which = "forcelist" => PolicyInvariant)
  BY PolicyInit DEF Init
<1>2. (which = "forcelist" => PolicyInvariant) /\ [Next]_vars
      => (which = "forcelist" => PolicyInvariant)'
  BY PolicyStep DEF Next, vars, F!vars, F!run, F!hist
<1>3. (which = "forcelist" => PolicyInvariant) => PolicyHolds
  BY PolicySuffices DEF PolicyHolds
<1> QED  BY <1>1, <1>2, <1>3, PTL DEF Spec

---------------------------------------------------------------------------
(* Desktop.  What a run has gone through of the schemes is registered, or  *)
(* gone; and only what was ours when it was looked at is deleted.          *)
DesktopWhere ==
  /\ os # "windows" => \A s \in D!Schemes : command[s] = "none"
  /\ os # "linux" => \A f \in {"dign", "app"} : files[f] = "none"
  /\ os = "macos" => theirs = {}
  /\ \A s \in D!Schemes : command[s] = "alike" => s \in lookalike
  /\ pc \in {"look", "delete"} => os = "windows"
  /\ pc = "unlink" => os = "linux"
  /\ pc = "register" => os # "macos"
  /\ pc \in {"open", "register", "look", "delete"} => todo # {}

DesktopAdding ==
  /\ pc = "open" => todo = D!Schemes /\ registered = {}
  /\ pc = "register" =>
       /\ os = "linux" => \A s \in todo : D!File(s) \notin registered
       /\ os = "windows" /\ todo \cap D!DignSchemes # {} =>
            \A s \in D!DignSchemes \ todo : s \in theirs \/ command[s] = "ours"

DesktopRemoving ==
  /\ pc \in {"look", "delete", "unlink", "close"} => registered = {}
  /\ pc \in {"look", "delete"} /\ ~failed => \A s \in D!Schemes \ todo : command[s] # "ours"
  /\ pc = "delete" => at \in todo /\ (D!Ours(at) \/ at \in raced)

DesktopInvariant ==
  /\ D!TypeOK /\ D!TheirsKept /\ D!NothingLeft
  /\ DesktopWhere /\ DesktopAdding /\ DesktopRemoving

(* The next scheme is one of those left.                                   *)
LEMMA FirstIsLeft ==
  ASSUME NEW t \in SUBSET D!Schemes, t # {}
  PROVE  D!First(t) \in t
<1> DEFINE I(i) == D!Order[i] \in t /\ \A j \in 1..(i - 1) : D!Order[j] \notin t
<1>1. /\ D!Order[1] = "dig" /\ D!Order[2] = "chia" /\ D!Order[3] = "urn"
      /\ D!Order[4] = "dig-app"
  BY DEF D!Order
<1>2. t \subseteq {"dig", "chia", "urn", "dig-app"}
  BY DEF D!Schemes, D!DignSchemes
<1>3. \E i \in 1..4 : I(i)
  <2>1. CASE "dig" \in t
    BY <1>1, <2>1
  <2>2. CASE "dig" \notin t /\ "chia" \in t
    <3>1. I(2)
      BY <1>1, <2>2
    <3> QED  BY <3>1
  <2>3. CASE "dig" \notin t /\ "chia" \notin t /\ "urn" \in t
    <3>1. I(3)
      BY <1>1, <2>3
    <3> QED  BY <3>1
  <2>4. CASE "dig" \notin t /\ "chia" \notin t /\ "urn" \notin t
    <3>1. "dig-app" \in t
      BY <1>2, <2>4
    <3>2. \A j \in 1..(4 - 1) : j = 1 \/ j = 2 \/ j = 3
      OBVIOUS
    <3>3. I(4)
      BY <1>1, <2>4, <3>1, <3>2
    <3> QED  BY <3>3
  <2> QED  BY <2>1, <2>2, <2>3, <2>4
<1>4. I(CHOOSE i \in 1..4 : I(i))
  BY <1>3
<1> QED  BY <1>4 DEF D!First

LEMMA DesktopInit ==
  ASSUME D!Init
  PROVE  DesktopInvariant
<1>1. /\ os \in {"windows", "linux", "macos"} /\ elevated \in BOOLEAN /\ key = {}
      /\ command \in [D!Schemes -> {"none"}] /\ files \in [{"dign", "app"} -> {"none"}]
      /\ default \in [D!Schemes -> {"none"}] /\ bin = "old_root" /\ alf = FALSE /\ rules = {}
      /\ pc = "idle" /\ todo = {} /\ at = "dig" /\ registered = {} /\ rule = "none"
      /\ theirs = {} /\ raced = {} /\ lookalike = {} /\ failed = FALSE /\ runs = 0 /\ edits = 0
  BY DEF D!Init
<1>2. 0 \in 0..DesktopRuns /\ 0 \in 0..Edits
  BY BoundsAssumption
<1>3. "dig" \in D!Schemes
  BY DEF D!Schemes, D!DignSchemes
<1>4. D!TypeOK
  BY <1>1, <1>2, <1>3 DEF D!TypeOK, D!Bins
<1>5. DesktopWhere
  BY <1>1 DEF DesktopWhere
<1> QED  BY <1>1, <1>4, <1>5 DEF DesktopInvariant, D!TheirsKept, D!Kept, D!NothingLeft, DesktopAdding,
                                 DesktopRemoving

LEMMA DesktopBegin ==
  ASSUME DesktopInvariant, D!Begin
  PROVE  DesktopInvariant'
<1> USE DEF DesktopInvariant
<1>1. /\ pc = "idle" /\ runs' \in 0..DesktopRuns /\ bin' \in D!Bins
      /\ registered' = {} /\ rule' = "none" /\ failed' = FALSE /\ todo' = D!Schemes
      /\ UNCHANGED <<os, elevated, key, command, files, default, alf, rules, theirs, raced,
                     lookalike, edits, at>>
  BY BoundsAssumption DEF D!Begin, D!TypeOK, D!Bins, D!host, D!links, D!wall
<1>2. \/ pc' = "open"
      \/ os = "windows" /\ pc' = "look"
      \/ os = "linux" /\ pc' = "unlink"
      \/ os = "macos" /\ pc' = "close"
  BY DEF D!Begin, D!TypeOK
<1>3. D!Schemes # {}
  BY DEF D!Schemes
<1>4. D!TypeOK'
  BY <1>1, <1>2 DEF D!TypeOK
<1>5. D!TheirsKept'
  BY <1>1 DEF D!TheirsKept, D!Kept
<1>6. DesktopWhere'
  BY <1>1, <1>2, <1>3 DEF DesktopWhere
<1>7. D!NothingLeft'
  BY <1>1, <1>2 DEF D!NothingLeft, DesktopWhere
<1>8. DesktopAdding' /\ DesktopRemoving'
  BY <1>1, <1>2 DEF DesktopAdding, DesktopRemoving
<1> QED  BY <1>4, <1>5, <1>6, <1>7, <1>8

(* The exceptions of the firewall.                                         *)
LEMMA DesktopWall ==
  ASSUME DesktopInvariant, D!Open \/ D!Close
  PROVE  DesktopInvariant'
<1> USE DEF DesktopInvariant
<1>1. UNCHANGED <<os, elevated, key, command, files, default, bin, alf, todo, at, registered,
                  theirs, raced, lookalike, runs, edits>>
  BY DEF D!Open, D!Close, D!host, D!links, D!hist
<1>2. /\ rules' \subseteq D!Bins /\ rule' \in {"none", "opened", "closed"} /\ failed' \in BOOLEAN
      /\ rule' = "closed" => rules' \subseteq (IF os = "windows" THEN {} ELSE D!Bins \ {bin})
  BY DEF D!Open, D!Close, D!Closed, D!TypeOK, D!NothingLeft
<1>3. \/ pc = "open" /\ pc' = IF os = "macos" THEN "idle" ELSE "register"
      \/ pc = "close" /\ pc' = "idle"
  BY DEF D!Open, D!Close
<1>4. D!TypeOK'
  BY <1>1, <1>2, <1>3 DEF D!TypeOK
<1>5. D!TheirsKept' /\ D!NothingLeft'
  BY <1>1, <1>2, <1>3 DEF D!TheirsKept, D!Kept, D!NothingLeft
<1>6. DesktopWhere'
  BY <1>1, <1>3 DEF DesktopWhere
<1>7. DesktopAdding' /\ DesktopRemoving'
  BY <1>1, <1>3 DEF DesktopAdding, DesktopRemoving, D!Schemes
<1> QED  BY <1>4, <1>5, <1>6, <1>7

LEMMA DesktopRegisterWindows ==
  ASSUME DesktopInvariant, D!RegisterWindows
  PROVE  DesktopInvariant'
<1> USE DEF DesktopInvariant
<1> DEFINE s == D!First(todo)
<1>1. /\ os = "windows" /\ pc = "register"
      /\ UNCHANGED <<os, elevated, files, default, bin, alf, rules, at, rule, raced, lookalike,
                     runs, edits>>
      /\ \/ /\ key' = key \cup {s} /\ command' = [command EXCEPT ![s] = "ours"]
            /\ theirs' = theirs \ {s} /\ D!Done(todo \ {s})
            /\ registered' = IF s = "dig-app" THEN registered \cup {"app"}
                             ELSE IF todo \cap D!DignSchemes = {s}
                             THEN registered \cup {"dign"} ELSE registered
            /\ UNCHANGED failed
         \/ /\ key' \in {key, key \cup {s}} /\ failed' = TRUE
            /\ D!Done(todo \ (IF s = "dig-app" THEN {s} ELSE D!DignSchemes))
            /\ UNCHANGED <<command, theirs, registered>>
  BY DEF D!RegisterWindows, D!host, D!wall
<1>2. s \in todo /\ s \in D!Schemes /\ todo \subseteq D!Schemes
  BY <1>1, FirstIsLeft DEF DesktopWhere, D!TypeOK
<1> HIDE DEF s
<1>3. CASE /\ key' = key \cup {s} /\ command' = [command EXCEPT ![s] = "ours"]
           /\ theirs' = theirs \ {s} /\ D!Done(todo \ {s})
           /\ registered' = IF s = "dig-app" THEN registered \cup {"app"}
                            ELSE IF todo \cap D!DignSchemes = {s}
                            THEN registered \cup {"dign"} ELSE registered
           /\ UNCHANGED failed
  <2>1. /\ command' \in [D!Schemes -> {"none", "ours", "theirs", "alike"}] /\ command'[s] = "ours"
        /\ \A t \in D!Schemes : t # s => command'[t] = command[t]
    BY <1>2, <1>3 DEF D!TypeOK
  <2>2. /\ todo' = todo \ {s} /\ pc' \in {"idle", "register"}
        /\ pc' = "register" => todo' # {}
    BY <1>3 DEF D!Done
  <2>3. D!TypeOK'
    BY <1>1, <1>2, <1>3, <2>1, <2>2 DEF D!TypeOK
  <2>4. D!TheirsKept'
    BY <1>1, <1>3, <2>1 DEF D!TheirsKept, D!Kept, D!TypeOK
  <2>5. ASSUME NEW f \in registered', NEW t \in D!Schemes \ theirs', D!File(t) = f
        PROVE  command'[t] = "ours"
    <3>1. CASE t = s
      BY <2>1, <3>1
    <3>2. CASE t # s /\ f \in registered
      BY <1>1, <1>3, <2>1, <2>5, <3>2 DEF D!NothingLeft
    <3>3. CASE t # s /\ f = "app"
      <4>1. t = "dig-app" /\ s # "dig-app"
        BY <2>5, <3>3 DEF D!File
      <4>2. f \in registered
        BY <1>3, <2>5, <3>3, <4>1
      <4> QED  BY <3>2, <3>3, <4>2
    <3>4. CASE t # s /\ f = "dign" /\ f \notin registered
      <4>1. s # "dig-app" /\ todo \cap D!DignSchemes = {s}
        BY <1>3, <2>5, <3>4
      <4>2. t \in D!DignSchemes \ todo
        BY <2>5, <3>4, <4>1 DEF D!File, D!Schemes
      <4>3. command[t] = "ours"
        BY <1>1, <1>3, <2>5, <3>4, <4>1, <4>2 DEF DesktopAdding
      <4> QED  BY <2>1, <2>5, <3>4, <4>3
    <3>5. f \in {"dign", "app"}
      BY <2>3, <2>5 DEF D!TypeOK
    <3> QED  BY <3>1, <3>2, <3>3, <3>4, <3>5
  <2>6. D!NothingLeft'
    BY <1>1, <1>3, <2>2, <2>5 DEF D!NothingLeft
  <2>7. DesktopWhere' /\ DesktopRemoving'
    <3>1. \A t \in D!Schemes : command'[t] = "alike" => t \in lookalike'
      BY <1>1, <2>1 DEF DesktopWhere
    <3> QED  BY <1>1, <2>2, <3>1 DEF DesktopWhere, DesktopRemoving
  <2>8. DesktopAdding'
    BY <1>1, <1>3, <2>1, <2>2 DEF DesktopAdding, D!Ours, D!Schemes
  <2> QED  BY <2>3, <2>4, <2>6, <2>7, <2>8
<1>4. CASE /\ key' \in {key, key \cup {s}} /\ failed' = TRUE
           /\ D!Done(todo \ (IF s = "dig-app" THEN {s} ELSE D!DignSchemes))
           /\ UNCHANGED <<command, theirs, registered>>
  <2>1. /\ todo' = todo \ (IF s = "dig-app" THEN {s} ELSE D!DignSchemes)
        /\ pc' \in {"idle", "register"}
        /\ pc' = "register" => todo' # {}
    BY <1>4 DEF D!Done
  <2>2. D!TypeOK'
    BY <1>1, <1>2, <1>4, <2>1 DEF D!TypeOK
  <2>3. D!TheirsKept' /\ D!NothingLeft'
    BY <1>1, <1>4, <2>1 DEF D!TheirsKept, D!Kept, D!NothingLeft
  <2>4. DesktopWhere' /\ DesktopRemoving'
    BY <1>1, <1>4, <2>1 DEF DesktopWhere, DesktopRemoving
  <2>5. todo' \cap D!DignSchemes # {} => todo' \cap D!DignSchemes = todo \cap D!DignSchemes
    BY <2>1 DEF D!DignSchemes
  <2>6. DesktopAdding'
    BY <1>1, <1>4, <2>1, <2>5 DEF DesktopAdding
  <2> QED  BY <2>2, <2>3, <2>4, <2>6
<1> QED  BY <1>1, <1>3, <1>4

LEMMA DesktopRegisterLinux ==
  ASSUME DesktopInvariant, D!RegisterLinux
  PROVE  DesktopInvariant'
<1> USE DEF DesktopInvariant
<1> DEFINE f == D!File(D!First(todo))
           mime == {t \in D!Schemes : D!File(t) = f}
<1>1. /\ os = "linux" /\ pc = "register" /\ D!Done(todo \ mime)
      /\ UNCHANGED <<os, elevated, key, command, bin, alf, rules, at, rule, raced, lookalike,
                     runs, edits>>
  BY DEF D!RegisterLinux, D!host, D!wall
<1>2. \/ /\ files' = [files EXCEPT ![f] = "whole"] /\ registered' = registered \cup {f}
         /\ \E set \in {{}, mime} :
              /\ default' = [t \in D!Schemes |-> IF t \in set THEN "ours" ELSE default[t]]
              /\ theirs' = theirs \ set
              /\ failed' = (failed \/ set = {})
      \/ /\ files' \in {files, [files EXCEPT ![f] = "torn"]} /\ failed' = TRUE
         /\ UNCHANGED <<default, registered, theirs>>
  BY DEF D!RegisterLinux
<1>3. f \in {"dign", "app"} /\ f \notin registered /\ mime \subseteq D!Schemes
  BY <1>1, FirstIsLeft DEF DesktopWhere, DesktopAdding, D!TypeOK, D!File
<1>4. \A t \in todo \ mime : D!File(t) # f
  BY DEF D!TypeOK
<1> HIDE DEF f, mime
<1>5. /\ todo' = todo \ mime /\ pc' \in {"idle", "register"}
      /\ pc' = "register" => todo' # {}
  BY <1>1 DEF D!Done
<1>6. /\ files' \in [{"dign", "app"} -> {"none", "torn", "whole"}]
      /\ registered' \subseteq registered \cup {f}
      /\ \A g \in registered' : files'[g] = "whole"
  <2>1. /\ files \in [{"dign", "app"} -> {"none", "torn", "whole"}]
        /\ registered \subseteq {"dign", "app"}
        /\ \A g \in registered : files[g] = "whole"
    BY <1>1 DEF D!TypeOK, D!NothingLeft
  <2>2. CASE files' = [files EXCEPT ![f] = "whole"] /\ registered' = registered \cup {f}
    BY <1>3, <2>1, <2>2
  <2>3. CASE files' \in {files, [files EXCEPT ![f] = "torn"]} /\ registered' = registered
    BY <1>3, <2>1, <2>3
  <2> QED  BY <1>2, <2>2, <2>3
<1>7. /\ default' \in [D!Schemes -> {"none", "ours", "theirs"}] /\ theirs' \subseteq theirs
      /\ failed' \in BOOLEAN
      /\ \A t \in theirs' : default'[t] = default[t]
  <2>1. CASE UNCHANGED <<default, theirs>> /\ failed' = TRUE
    BY <2>1 DEF D!TypeOK
  <2>2. ASSUME NEW set \in {{}, mime},
               default' = [t \in D!Schemes |-> IF t \in set THEN "ours" ELSE default[t]],
               theirs' = theirs \ set, failed' = (failed \/ set = {})
        PROVE  /\ default' \in [D!Schemes -> {"none", "ours", "theirs"}]
               /\ theirs' \subseteq theirs /\ failed' \in BOOLEAN
               /\ \A t \in theirs' : default'[t] = default[t]
    <3>1. (failed \/ set = {}) \in BOOLEAN
      BY DEF D!TypeOK
    <3> QED  BY <2>2, <3>1 DEF D!TypeOK
  <2> QED  BY <1>2, <2>1, <2>2
<1>8. D!TypeOK'
  BY <1>1, <1>3, <1>5, <1>6, <1>7 DEF D!TypeOK
<1>9. D!TheirsKept' /\ D!NothingLeft'
  BY <1>1, <1>5, <1>6, <1>7 DEF D!TheirsKept, D!Kept, D!NothingLeft
<1>10. DesktopWhere' /\ DesktopRemoving'
  BY <1>1, <1>5, <1>6 DEF DesktopWhere, DesktopRemoving
<1>11. DesktopAdding'
  BY <1>1, <1>4, <1>5, <1>6 DEF DesktopAdding
<1> QED  BY <1>8, <1>9, <1>10, <1>11

LEMMA DesktopLook ==
  ASSUME DesktopInvariant, D!Look
  PROVE  DesktopInvariant'
<1> USE DEF DesktopInvariant
<1> DEFINE s == D!First(todo)
<1>1. /\ pc = "look" /\ os = "windows" /\ registered = {}
      /\ UNCHANGED <<os, elevated, key, command, files, default, bin, alf, rules, registered,
                     rule, failed, theirs, raced, lookalike, runs, edits>>
      /\ \/ D!Ours(s) /\ at' = s /\ pc' = "delete" /\ todo' = todo
         \/ ~D!Ours(s) /\ D!LookedAt(todo \ {s}) /\ at' = at
  BY DEF D!Look, DesktopWhere, DesktopRemoving, D!host, D!links, D!wall, D!hist
<1>2. s \in todo /\ s \in D!Schemes
  BY <1>1, FirstIsLeft DEF DesktopWhere, D!TypeOK
<1> HIDE DEF s
<1>3. /\ todo' \subseteq todo /\ at' \in D!Schemes /\ pc' \in {"look", "delete", "close"}
      /\ pc' = "close" => todo' = {}
      /\ pc' # "close" => todo' # {}
      /\ ~failed => \A t \in D!Schemes \ todo' : command[t] # "ours"
      /\ pc' = "delete" => at' \in todo' /\ D!Ours(at')
  BY <1>1, <1>2 DEF D!LookedAt, D!Ours, DesktopRemoving, D!TypeOK
<1>4. D!TypeOK'
  BY <1>1, <1>3 DEF D!TypeOK
<1>5. D!TheirsKept'
  BY <1>1 DEF D!TheirsKept, D!Kept
<1>6. D!NothingLeft'
  BY <1>1, <1>3 DEF D!NothingLeft, DesktopWhere
<1>7. DesktopWhere' /\ DesktopAdding' /\ DesktopRemoving'
  BY <1>1, <1>3 DEF DesktopWhere, DesktopAdding, DesktopRemoving, D!Ours
<1> QED  BY <1>4, <1>5, <1>6, <1>7

LEMMA DesktopDelete ==
  ASSUME DesktopInvariant, D!Delete
  PROVE  DesktopInvariant'
<1> USE DEF DesktopInvariant
<1>1. /\ pc = "delete" /\ os = "windows" /\ registered = {} /\ at \in todo /\ at \in D!Schemes
      /\ D!Ours(at) \/ at \in raced
      /\ UNCHANGED <<os, elevated, files, default, bin, alf, rules, at, registered, rule, theirs,
                     raced, lookalike, runs, edits>>
      /\ \/ /\ key' = key \ {at} /\ command' = [command EXCEPT ![at] = "none"]
            /\ failed' = failed
         \/ failed' = TRUE /\ UNCHANGED <<key, command>>
  BY DEF D!Delete, DesktopWhere, DesktopRemoving, D!TypeOK, D!host, D!wall, D!hist
<1>2. /\ todo' = todo \ {at} /\ pc' \in {"look", "close"}
      /\ pc' = "close" => todo' = {}
      /\ pc' # "close" => todo' # {}
  BY DEF D!Delete, D!LookedAt
<1>3. /\ command' \in [D!Schemes -> {"none", "ours", "theirs", "alike"}] /\ key' \subseteq D!Schemes
      /\ failed' \in BOOLEAN /\ (~failed' => ~failed /\ command'[at] # "ours")
      /\ \A t \in D!Schemes : t # at => command'[t] = command[t]
      /\ command'[at] = "none" \/ command' = command
  <2>1. /\ command \in [D!Schemes -> {"none", "ours", "theirs", "alike"}] /\ key \subseteq D!Schemes
        /\ failed \in BOOLEAN
    BY DEF D!TypeOK
  <2>2. CASE /\ key' = key \ {at} /\ command' = [command EXCEPT ![at] = "none"]
             /\ failed' = failed
    BY <1>1, <2>1, <2>2
  <2>3. CASE failed' = TRUE /\ UNCHANGED <<key, command>>
    BY <2>1, <2>3
  <2> QED  BY <1>1, <2>2, <2>3
<1>4. D!TypeOK'
  BY <1>1, <1>2, <1>3 DEF D!TypeOK
<1>5. D!TheirsKept'
  BY <1>1, <1>3 DEF D!TheirsKept, D!Kept, D!Ours, D!TypeOK, DesktopWhere
<1>6. ~failed' => \A t \in D!Schemes \ todo' : command'[t] # "ours"
  BY <1>1, <1>2, <1>3 DEF DesktopRemoving
<1>7. D!NothingLeft'
  BY <1>1, <1>2, <1>6 DEF D!NothingLeft, DesktopWhere
<1>8. DesktopWhere' /\ DesktopAdding' /\ DesktopRemoving'
  <2>1. \A t \in D!Schemes : command'[t] = "alike" => t \in lookalike'
    BY <1>1, <1>3 DEF DesktopWhere
  <2> QED  BY <1>1, <1>2, <1>6, <2>1 DEF DesktopWhere, DesktopAdding, DesktopRemoving
<1> QED  BY <1>4, <1>5, <1>7, <1>8

LEMMA DesktopUnregisterLinux ==
  ASSUME DesktopInvariant, D!UnregisterLinux
  PROVE  DesktopInvariant'
<1> USE DEF DesktopInvariant
<1>1. /\ pc = "unlink" /\ os = "linux" /\ registered = {} /\ pc' = "close" /\ todo' = {}
      /\ UNCHANGED <<os, elevated, key, command, default, bin, alf, rules, at, registered, rule,
                     theirs, raced, lookalike, runs, edits>>
  BY DEF D!UnregisterLinux, DesktopWhere, DesktopRemoving, D!host, D!wall, D!hist
<1>2. PICK kept \in SUBSET {f \in {"dign", "app"} : files[f] # "none"} :
        /\ files' = [f \in {"dign", "app"} |-> IF f \in kept THEN files[f] ELSE "none"]
        /\ failed' = (failed \/ kept # {})
  BY DEF D!UnregisterLinux
<1>3. (failed \/ kept # {}) \in BOOLEAN
  BY DEF D!TypeOK
<1>4. failed' \in BOOLEAN /\ (~failed' => kept = {})
  BY <1>2, <1>3
<1>5. D!TypeOK'
  BY <1>1, <1>2, <1>4 DEF D!TypeOK
<1>6. D!TheirsKept'
  BY <1>1 DEF D!TheirsKept, D!Kept
<1>7. D!NothingLeft'
  BY <1>1, <1>2, <1>4 DEF D!NothingLeft, DesktopWhere
<1>8. DesktopWhere' /\ DesktopAdding' /\ DesktopRemoving'
  BY <1>1 DEF DesktopWhere, DesktopAdding, DesktopRemoving
<1> QED  BY <1>5, <1>6, <1>7, <1>8

(* Another program takes a scheme: the run's word on it is withdrawn.      *)
LEMMA DesktopClaim ==
  ASSUME DesktopInvariant, D!Claim
  PROVE  DesktopInvariant'
<1> USE DEF DesktopInvariant
<1>1. /\ os # "macos" /\ edits' \in 0..Edits
      /\ UNCHANGED <<os, elevated, files, bin, alf, rules, pc, todo, at, rule, failed, runs>>
  BY BoundsAssumption DEF D!Claim, D!TypeOK, D!host, D!wall
<1>2. PICK s \in D!Schemes,
           who \in {"theirs"} \cup (IF os = "windows" THEN {"alike"} ELSE {}) :
       /\ theirs' = theirs \cup {s}
       /\ raced' = IF pc = "delete" /\ at = s THEN raced \cup {s} ELSE raced \ {s}
       /\ lookalike' = IF who = "alike" THEN lookalike \cup {s} ELSE lookalike \ {s}
       /\ registered' = registered \ {D!File(s)}
       /\ IF os = "windows"
          THEN /\ key' = key \cup {s} /\ command' = [command EXCEPT ![s] = who]
               /\ UNCHANGED default
          ELSE default' = [default EXCEPT ![s] = "theirs"] /\ UNCHANGED <<key, command>>
  BY DEF D!Claim
<1>3. /\ key' \subseteq D!Schemes
      /\ command' \in [D!Schemes -> {"none", "ours", "theirs", "alike"}]
      /\ default' \in [D!Schemes -> {"none", "ours", "theirs"}]
      /\ \A t \in D!Schemes : t # s => command'[t] = command[t] /\ default'[t] = default[t]
      /\ IF os = "windows" THEN command'[s] = who
                           ELSE default'[s] = "theirs" /\ command' = command
      /\ who \in {"theirs", "alike"} /\ (os # "windows" => who = "theirs")
  BY <1>2 DEF D!TypeOK
<1>4. D!TypeOK'
  BY <1>1, <1>2, <1>3 DEF D!TypeOK
<1>5. D!TheirsKept'
  BY <1>1, <1>2, <1>3 DEF D!TheirsKept, D!Kept, D!TypeOK
<1>6. \A t \in D!Schemes : command'[t] = "ours" => command[t] = "ours"
  BY <1>3
<1>7. D!NothingLeft'
  <2>1. ASSUME NEW f \in registered', os # "linux", NEW t \in D!Schemes \ theirs', D!File(t) = f
        PROVE  command'[t] = "ours"
    BY <1>2, <1>3, <2>1 DEF D!NothingLeft
  <2> QED  BY <1>1, <1>2, <1>6, <2>1 DEF D!NothingLeft
<1>8. DesktopWhere'
  <2>1. \A t \in D!Schemes : command'[t] = "alike" => t \in lookalike'
    BY <1>2, <1>3 DEF DesktopWhere
  <2> QED  BY <1>1, <1>3, <2>1 DEF DesktopWhere
<1>9. DesktopAdding'
  BY <1>1, <1>2, <1>3 DEF DesktopAdding, D!Schemes
<1>10. DesktopRemoving'
  BY <1>1, <1>2, <1>3, <1>6 DEF DesktopRemoving, D!Ours, D!TypeOK
<1> QED  BY <1>4, <1>5, <1>7, <1>8, <1>9, <1>10

LEMMA DesktopOther ==
  ASSUME DesktopInvariant, D!Crash \/ D!Toggle \/ UNCHANGED D!vars
  PROVE  DesktopInvariant'
<1> USE DEF DesktopInvariant
<1>1. CASE D!Crash
  BY <1>1 DEF D!Crash, D!host, D!links, D!wall, D!hist, D!TypeOK, D!TheirsKept, D!Kept, D!NothingLeft,
              DesktopWhere, DesktopAdding, DesktopRemoving, D!Ours
<1>2. CASE D!Toggle
  <2>1. /\ alf' = (~alf) /\ alf' \in BOOLEAN
        /\ UNCHANGED <<os, elevated, key, command, files, default, bin, rules, pc, todo, at,
                       registered, rule, failed, theirs, raced, lookalike, runs, edits>>
    BY <1>2 DEF D!Toggle, D!host, D!links, D!hist, D!TypeOK
  <2> QED  BY <2>1 DEF D!TypeOK, D!TheirsKept, D!Kept, D!NothingLeft, DesktopWhere,
                       DesktopAdding, DesktopRemoving, D!Ours
<1>3. CASE UNCHANGED D!vars
  BY <1>3 DEF D!vars, D!host, D!links, D!wall, D!hist, D!TypeOK, D!TheirsKept, D!Kept, D!NothingLeft,
              DesktopWhere, DesktopAdding, DesktopRemoving, D!Ours
<1> QED  BY <1>1, <1>2, <1>3

LEMMA DesktopStep ==
  ASSUME DesktopInvariant, D!Next \/ UNCHANGED D!vars
  PROVE  DesktopInvariant'
BY DesktopBegin, DesktopWall, DesktopRegisterWindows, DesktopRegisterLinux, DesktopLook,
   DesktopDelete, DesktopUnregisterLinux, DesktopClaim, DesktopOther DEF D!Next

(* What another program has claimed stays its own through our uninstalls,  *)
(* a clean uninstall leaves nothing of ours, and a registration that is    *)
(* reported holds, for any number of runs and of claims (scheme.rs).       *)
THEOREM LinksHold == Spec => []HandlersHold
<1>1. Init => (which = "desktop" => DesktopInvariant)
  BY DesktopInit DEF Init
<1>2. (which = "desktop" => DesktopInvariant) /\ [Next]_vars
      => (which = "desktop" => DesktopInvariant)'
  BY DesktopStep DEF Next, vars, D!vars, D!host, D!links, D!wall, D!hist
<1>3. (which = "desktop" => DesktopInvariant) => HandlersHold
  BY DEF DesktopInvariant, HandlersHold, D!HandlersHold
<1> QED  BY <1>1, <1>2, <1>3, PTL DEF Spec

---------------------------------------------------------------------------
(* InstallRoot.  The levels another account can reach into are told from   *)
(* those it cannot; a step that holds a level knows what is there, unless  *)
(* it has gone astray.                                                     *)
RootShape ==
  /\ level[0].kind = "dir" /\ level[0].owner = "root"
  /\ level[1].kind = "absent" => level[2].kind = "absent"
  /\ os = "windows" =>
       /\ \A l \in L!DIGS : level[l].kind # "link"
       /\ file.there => level[2].kind = "dir"
  /\ ours \/ os = "windows" => elevated
  /\ astray => meddled

(* Where the run can be, and in whose root.                                *)
RootWhere ==
  /\ step \in {"anchor", "mkdir", "open", "chmod", "chown"} =>
       os = "unix" /\ ours /\ purpose \in {"prepare", "place"}
  /\ step \in {"mkdir", "open", "chmod", "chown", "owner", "reset", "back"} => at \in L!DIGS
  /\ step = "makedirs" =>
       purpose \in {"prepare", "place"} /\ (ours => os = "windows") /\ (purpose = "prepare" => ours)
  /\ step \in {"owner", "reset", "back"} => os = "windows" /\ ours /\ purpose = "prepare"
  /\ step = "walk" =>
       os = "unix" /\ purpose \in {"probe", "spawn", "verdict"} /\ (purpose # "verdict" => elevated)
  /\ step \in {"exists", "decide"} => purpose = "probe"
  /\ step \in {"write", "fowner", "freset", "fback"} => purpose = "place"
  /\ step = "run" => purpose = "spawn"
  /\ step = "read" => os = "windows" /\ purpose = "verdict"
  /\ step \in {"fowner", "freset", "fback"} => os = "windows" /\ ours
  /\ step = "write" /\ os = "unix" /\ ours => ensured
  /\ step # "idle" => result = "none"
  /\ answered => step \in {"idle", "decide"} \/ purpose \in {"place", "verdict"}
  /\ placed => \/ step \in {"idle", "read", "fowner", "freset", "fback"}
               \/ step = "walk" /\ purpose = "verdict"

(* What a step that holds levels knows of them.                            *)
RootHeld ==
  /\ step = "walk" => ~astray /\ \A k \in 0..(at - 1) : level[k].kind = "dir" /\ ~L!Loose(k)
  /\ step \in {"mkdir", "open", "chmod", "chown"} /\ ~astray => level[at - 1].kind = "dir"
  /\ step \in {"chmod", "chown"} /\ ~astray => level[at].kind = "dir"

(* What ensure has done so far, where nobody interferes.                   *)
RootEnsuring ==
  ~meddled =>
    /\ step \in {"mkdir", "open", "chmod", "chown"} /\ at = 2 => level[1] = L!Dir("root", "closed")
    /\ step = "open" => level[at].kind # "absent"
    /\ step = "chown" => level[at].mode = "closed"
    /\ step \in {"owner", "reset", "back"} /\ at = 2 => L!Privileged(level[1])
    /\ purpose = "spawn" => file.there
    /\ ensured => IF os = "unix" THEN L!Pinned ELSE \A l \in L!DIGS : L!Privileged(level[l])

RootAdopting ==
  os = "windows" /\ ours /\ placed /\ step = "read" => told \/ ~file.there \/ L!IsSystems(file)

(* A run that is to be ready, as far as it has come.                       *)
RootRepairing ==
  ~failed /\ ~meddled /\ fixable /\ step # "idle" =>
    /\ ours /\ ~told /\ level[0].mode # "open" /\ \A l \in L!DIGS : level[l].kind # "link"
    /\ os = "unix" /\ ((step = "walk" /\ purpose = "verdict") \/ (step = "decide" /\ answered))
         => L!Closed
    /\ step \in {"owner", "reset", "back", "write", "fowner", "freset", "fback"}
         \/ (os = "windows" /\ (step = "read" \/ (step = "decide" /\ answered)))
         => level[2].kind = "dir"
    /\ step \in {"owner", "reset", "back"} =>
         /\ level[1].kind = "dir"
         /\ at = 2 => level[1].mode = "closed"
         /\ step \in {"reset", "back"} => level[at].owner = "root"
         /\ step = "back" => level[at].mode = "closed"
    /\ os = "windows" /\ purpose # "prepare" => ~L!Open(2)
    /\ step \in {"fowner", "freset", "fback"} => file.there
    /\ step \in {"freset", "fback"} => file.owner = "root"
    /\ step = "fback" => ~file.grant

RootInvariant ==
  /\ L!TypeOK /\ L!RootHolds /\ RootShape /\ RootWhere /\ RootHeld /\ RootEnsuring
  /\ RootAdopting /\ RootRepairing

(* What was said of the levels stays said while none of them changes.      *)
LEMMA RootKeeps ==
  ASSUME UNCHANGED <<os, level>>
  PROVE  /\ L!Closed' <=> L!Closed
         /\ L!Pinned' <=> L!Pinned
         /\ \A l : (L!Loose(l)' <=> L!Loose(l)) /\ (L!Open(l)' <=> L!Open(l))
BY DEF L!Closed, L!Pinned, L!Loose, L!Open

LEMMA RootDir ==
  ASSUME NEW v \in L!Level, v.kind = "dir"
  PROVE  v = L!Dir(v.owner, v.mode)
BY DEF L!Level, L!Dir

LEMMA RootDirs ==
  ASSUME NEW who \in L!OWNERS, NEW m \in L!MODES
  PROVE  /\ L!Dir(who, m) \in L!Level /\ L!Absent \in L!Level /\ L!Link \in L!Level
         /\ L!Dir(who, m).kind = "dir" /\ L!Dir(who, m).owner = who /\ L!Dir(who, m).mode = m
         /\ L!Absent.kind = "absent" /\ L!Link.kind = "link"
BY DEF L!Level, L!Dir, L!Absent, L!Link, L!OWNERS, L!MODES

LEMMA RootFlags ==
  ASSUME L!TypeOK
  PROVE  /\ astray \in BOOLEAN /\ answered \in BOOLEAN /\ placed \in BOOLEAN
         /\ ensured \in BOOLEAN /\ told \in BOOLEAN /\ failed \in BOOLEAN
         /\ meddled \in BOOLEAN /\ fixable \in BOOLEAN
BY DEF L!TypeOK

LEMMA RootFaults ==
  ASSUME L!TypeOK, L!Fault \/ L!NoFault
  PROVE  /\ faults' \in 0..Faults /\ failed' \in BOOLEAN
         /\ failed' = TRUE \/ (L!NoFault /\ failed' = failed)
<1>1. faults \in 0..Faults /\ failed \in BOOLEAN /\ Faults \in Nat
  BY BoundsAssumption, RootFlags DEF L!TypeOK
<1>2. CASE L!Fault
  BY <1>1, <1>2 DEF L!Fault
<1>3. CASE L!NoFault
  BY <1>1, <1>3 DEF L!NoFault
<1> QED  BY <1>2, <1>3

LEMMA RootFails ==
  ASSUME L!TypeOK, L!Fault
  PROVE  ~L!NoFault
<1>1. faults \in Int
  BY BoundsAssumption DEF L!TypeOK
<1>2. faults' = faults + 1
  BY DEF L!Fault
<1>3. faults' # faults
  BY <1>1, <1>2
<1> QED  BY <1>3 DEF L!NoFault

(* Nobody but the run can touch a chain that is closed.                    *)
LEMMA RootStays ==
  ASSUME RootInvariant, L!Closed, NEW l \in L!LEVELS
  PROVE  /\ level[l].kind = "dir" => level[l].owner = "root"
         /\ ~L!Loose(l)
<1>1. l = 0 \/ l = 1 \/ l = 2
  BY DEF L!LEVELS
<1>2. level[1].kind = "absent" => level[2].kind = "absent"
  BY DEF RootInvariant, RootShape
<1>3. 0 \in L!LEVELS /\ 1 \in L!LEVELS /\ 2 \in L!LEVELS
  BY DEF L!LEVELS
<1>4. level[0].kind = "dir"
  BY DEF RootInvariant, RootShape
<1>5. ~L!Loose(0)
  BY <1>3, <1>4 DEF L!Closed
<1>6. level[1].kind # "absent" => ~L!Loose(1)
  BY <1>3, <1>4 DEF L!Closed
<1>7. level[2].kind # "absent" => ~L!Loose(2)
  BY <1>2, <1>3, <1>4 DEF L!Closed
<1>8. ~L!Loose(l)
  BY <1>1, <1>5, <1>6, <1>7 DEF L!Loose
<1>9. level[l].owner \in {"root", "other"}
  BY <1>1, <1>3 DEF RootInvariant, L!TypeOK, L!Level, L!OWNERS
<1> QED  BY <1>8, <1>9 DEF L!Loose

LEMMA RootInit ==
  ASSUME L!Init
  PROVE  RootInvariant
<1>1. /\ os \in {"unix", "windows"} /\ elevated \in BOOLEAN /\ ours \in BOOLEAN
      /\ ours \/ os = "windows" => elevated
      /\ step = "idle" /\ at = 0 /\ purpose = "verdict" /\ astray = FALSE
      /\ answered = FALSE /\ placed = FALSE /\ ensured = FALSE /\ told = FALSE /\ result = "none"
      /\ failed = FALSE /\ meddled = FALSE /\ fixable = FALSE
      /\ runs = 0 /\ faults = 0 /\ others = 0
  BY DEF L!Init
<1>2. 0 \in 0..Runs /\ 0 \in 0..Faults /\ 0 \in 0..Others
  BY BoundsAssumption
<1>3. /\ 0 \in L!LEVELS /\ 1 \in L!LEVELS /\ 2 \in L!LEVELS
      /\ "root" \in L!OWNERS /\ "other" \in L!OWNERS
      /\ "closed" \in L!MODES /\ "narrow" \in L!MODES /\ "open" \in L!MODES
  BY DEF L!LEVELS, L!OWNERS, L!MODES
<1>4. level \in [L!LEVELS -> L!Level]
  BY <1>3, RootDirs DEF L!Init
<1>5. /\ level[0].kind = "dir" /\ level[0].owner = "root"
      /\ level[1].kind = "absent" => level[2].kind = "absent"
      /\ os = "windows" => \A l \in L!DIGS : level[l].kind # "link"
  BY <1>3, RootDirs DEF L!Init
<1>6. /\ file \in {L!NoFile, L!File("other")}
      /\ file.there => level[2].kind = "dir"
  BY DEF L!Init, L!NoFile, L!File
<1>7. file \in [there : BOOLEAN, owner : L!OWNERS, grant : BOOLEAN]
  <2>1. CASE file = L!NoFile
    BY <1>3, <2>1 DEF L!NoFile
  <2>2. CASE file = L!File("other")
    <3>1. ("other" = "other") \in BOOLEAN
      OBVIOUS
    <3> QED  BY <1>3, <2>2, <3>1 DEF L!File
  <2> QED  BY <1>6, <2>1, <2>2
<1>8. L!TypeOK
  BY <1>1, <1>2, <1>3, <1>4, <1>7 DEF L!TypeOK
<1>9. L!RootHolds
  BY <1>1 DEF L!RootHolds, L!ReadyMeansClosed, L!RunsFromClosed, L!EnsuredHolds,
              L!AdoptedOrTold, L!RunRepairs
<1>10. RootShape
  BY <1>1, <1>5, <1>6 DEF RootShape
<1> QED  BY <1>1, <1>8, <1>9, <1>10 DEF RootInvariant, RootWhere, RootHeld, RootEnsuring,
                                     RootAdopting, RootRepairing

LEMMA RootBegin ==
  ASSUME RootInvariant, L!Begin
  PROVE  RootInvariant'
<1> USE DEF RootInvariant
<1>1. /\ runs' \in 0..Runs /\ failed' = FALSE /\ meddled' = FALSE
      /\ answered' = FALSE /\ placed' = FALSE /\ ensured' = FALSE /\ told' = FALSE
      /\ result' = "none" /\ at' = 0 /\ astray' = FALSE
      /\ UNCHANGED <<os, elevated, ours, level, file, faults, others>>
  BY BoundsAssumption DEF L!Begin, L!Goes, L!TypeOK
<1>2. \/ /\ ours /\ purpose' = "prepare" /\ fixable' = L!Repairable
         /\ step' = IF os = "unix" THEN "anchor" ELSE "makedirs"
      \/ /\ purpose' = "probe" /\ fixable' = (L!Repairable /\ (os = "windows" => ~L!Open(2)))
         /\ step' = IF os = "unix" /\ elevated THEN "walk" ELSE "exists"
  BY DEF L!Begin, L!Goes, L!Ensuring, L!Looking, L!Guarded
<1>3. /\ fixable' \in BOOLEAN
      /\ fixable' => L!Repairable /\ (os = "windows" /\ purpose' = "probe" => ~L!Open(2))
  <2>1. L!Repairable \in BOOLEAN /\ (L!Repairable /\ (os = "windows" => ~L!Open(2))) \in BOOLEAN
    BY DEF L!Repairable, L!TypeOK
  <2>2. CASE purpose' = "prepare" /\ fixable' = L!Repairable
    BY <2>1, <2>2
  <2>3. CASE fixable' = (L!Repairable /\ (os = "windows" => ~L!Open(2)))
    BY <2>1, <2>3
  <2> QED  BY <1>2, <2>2, <2>3
<1>4. L!Repairable => /\ ours /\ level[0].mode # "open"
                      /\ \A l \in L!DIGS : level[l].kind # "link"
  BY DEF L!Repairable, L!Loose, L!Open, RootShape
<1>5. L!TypeOK'
  <2>1. {astray, answered, placed, ensured, told, failed, meddled, fixable}' \subseteq BOOLEAN
    BY <1>1, <1>3
  <2>2. at' \in L!LEVELS
    BY <1>1 DEF L!LEVELS
  <2> QED  BY <1>1, <1>2, <2>1, <2>2 DEF L!TypeOK
<1>6. L!RootHolds'
  BY <1>1, <1>2 DEF L!RootHolds, L!ReadyMeansClosed, L!RunsFromClosed, L!EnsuredHolds,
                    L!AdoptedOrTold, L!RunRepairs
<1>7. RootShape' /\ RootWhere'
  BY <1>1, <1>2, <1>5 DEF RootShape, RootWhere, L!TypeOK
<1>8. RootHeld' /\ RootEnsuring' /\ RootAdopting'
  BY <1>1, <1>2 DEF RootHeld, RootEnsuring, RootAdopting
<1>9. RootRepairing'
  BY <1>1, <1>2, <1>3, <1>4, RootKeeps DEF RootRepairing
<1> QED  BY <1>5, <1>6, <1>7, <1>8, <1>9

(* Ensure breaks off.                                                      *)
LEMMA RootEnsureErr ==
  ASSUME RootInvariant, L!EnsureErr, L!Same,
         step \in {"anchor", "mkdir", "open", "chmod", "chown", "makedirs", "owner", "reset", "back"},
         L!Fault \/ (L!NoFault /\ (failed \/ meddled \/ ~fixable))
  PROVE  RootInvariant'
<1> USE DEF RootInvariant
<1>1. /\ UNCHANGED <<os, elevated, ours, meddled, fixable, runs, others, level, file, answered,
                     placed, ensured, told>>
      /\ at' = 0 /\ astray' = FALSE
      /\ \/ /\ purpose = "prepare" /\ purpose' = "probe" /\ result' = result
            /\ step' = IF os = "unix" /\ elevated THEN "walk" ELSE "exists"
         \/ purpose = "place" /\ step' = "idle" /\ purpose' = "verdict" /\ result' = "failed"
  BY DEF L!Same, L!EnsureErr, L!Goes, L!Looking, L!Guarded
<1>2. /\ faults' \in 0..Faults /\ failed' \in BOOLEAN
      /\ failed' = TRUE \/ meddled \/ ~fixable
  BY RootFaults, RootFlags DEF L!Fault, L!NoFault
<1>3. placed = FALSE /\ result = "none" /\ (answered => purpose = "place")
  BY DEF RootWhere, L!TypeOK
<1>4. L!TypeOK'
  <2>1. {astray, answered, placed, ensured, told, failed, meddled, fixable}' \subseteq BOOLEAN
    BY <1>1, <1>2, RootFlags
  <2>2. at' \in L!LEVELS
    BY <1>1 DEF L!LEVELS
  <2> QED  BY <1>1, <1>2, <2>1, <2>2 DEF L!TypeOK
<1>5. L!RootHolds'
  BY <1>1, <1>2, <1>3, RootKeeps DEF L!RootHolds, L!ReadyMeansClosed, L!RunsFromClosed,
     L!EnsuredHolds, L!AdoptedOrTold, L!RunRepairs
<1>6. RootShape'
  BY <1>1 DEF RootShape
<1>7. RootWhere'
  BY <1>1, <1>3, <1>4 DEF RootWhere, L!TypeOK
<1>8. RootHeld' /\ RootAdopting' /\ RootRepairing'
  BY <1>1, <1>2, <1>3 DEF RootHeld, RootAdopting, RootRepairing
<1>9. RootEnsuring'
  BY <1>1, RootKeeps DEF RootEnsuring
<1> QED  BY <1>4, <1>5, <1>6, <1>7, <1>8, <1>9

(* Ensure has done what it could: the levels are as told in the premises.  *)
LEMMA RootEnsureOk ==
  ASSUME RootInvariant, L!EnsureOk, L!Same, L!NoFault, step \in {"chown", "makedirs", "back"},
         level' \in [L!LEVELS -> L!Level], level'[0] = level[0],
         level'[1].kind = "absent" => level'[2].kind = "absent",
         os = "windows" => /\ \A l \in L!DIGS : level'[l].kind # "link"
                           /\ file.there => level'[2].kind = "dir",
         ~meddled /\ ensured' =>
           IF os = "unix" THEN L!Pinned' ELSE \A l \in L!DIGS : L!Privileged(level'[l]),
         ~failed /\ ~meddled /\ fixable =>
           /\ level'[2].kind = "dir" /\ \A l \in L!DIGS : level'[l].kind # "link"
           /\ os = "windows" => ~L!Open(2)'
  PROVE  RootInvariant'
<1> USE DEF RootInvariant
<1>1. /\ UNCHANGED <<os, elevated, ours, meddled, fixable, runs, others, file, answered, placed,
                     told, result, faults, failed>>
      /\ astray' = FALSE
      /\ \/ /\ purpose = "prepare" /\ purpose' = "probe" /\ at' = 0
            /\ step' = IF os = "unix" /\ elevated THEN "walk" ELSE "exists"
         \/ purpose # "prepare" /\ step' = "write" /\ purpose' = "place" /\ at' = 2
      /\ ensured' = (ensured \/ (ours /\ (os = "unix" \/ purpose = "prepare")))
  BY DEF L!Same, L!NoFault, L!EnsureOk, L!Goes, L!Looking, L!Guarded
<1>2. placed = FALSE /\ result = "none" /\ (answered => purpose = "place")
  BY DEF RootWhere, L!TypeOK
<1>3. ensured' \in BOOLEAN /\ (ours /\ os = "unix" => ensured')
  <2>1. (ensured \/ (ours /\ (os = "unix" \/ purpose = "prepare"))) \in BOOLEAN
    BY RootFlags DEF L!TypeOK
  <2> QED  BY <1>1, <2>1
<1>4. L!TypeOK'
  <2>1. {astray, answered, placed, ensured, told, failed, meddled, fixable}' \subseteq BOOLEAN
    BY <1>1, <1>3, RootFlags
  <2>2. at' \in L!LEVELS
    BY <1>1 DEF L!LEVELS
  <2> QED  BY <1>1, <2>1, <2>2 DEF L!TypeOK
<1>5. L!RootHolds'
  <2>1. L!EnsuredHolds'
    BY <1>1, <1>4 DEF L!EnsuredHolds, L!Privileged, L!TypeOK
  <2> QED  BY <1>1, <1>2, <2>1 DEF L!RootHolds, L!ReadyMeansClosed, L!RunsFromClosed,
              L!AdoptedOrTold, L!RunRepairs
<1>6. RootShape'
  BY <1>1 DEF RootShape
<1>7. RootWhere'
  BY <1>1, <1>2, <1>3, <1>4 DEF RootWhere, L!TypeOK
<1>8. RootHeld' /\ RootAdopting'
  BY <1>1, <1>2 DEF RootHeld, RootAdopting
<1>9. RootEnsuring'
  BY <1>1 DEF RootEnsuring
<1>10. RootRepairing'
  BY <1>1, <1>2 DEF RootRepairing
<1> QED  BY <1>4, <1>5, <1>6, <1>7, <1>8, <1>9, <1>10

(* A look at the chain ends with a verdict.                                *)
LEMMA RootProceed ==
  ASSUME RootInvariant, NEW v \in {"safe", "unsafe", "unknown"}, L!Proceed(v), L!Same,
         step \in {"walk", "read"}, L!Fault \/ L!NoFault,
         v = "safe" /\ step = "walk" => L!Closed,
         L!NoFault /\ ~failed /\ ~meddled /\ fixable /\ purpose = "verdict" => v = "safe"
  PROVE  RootInvariant'
<1> USE DEF RootInvariant
<1>1. /\ UNCHANGED <<os, elevated, ours, meddled, fixable, runs, others, level, file, answered,
                     placed, ensured, told>>
      /\ at' = 0 /\ astray' = FALSE
  BY DEF L!Same, L!Proceed, L!Goes
<1>2. \/ /\ purpose \in {"probe", "spawn"} /\ step = "walk" /\ result' = result
         /\ \/ step' = "decide" /\ purpose' = "probe"
            \/ purpose = "probe" /\ step' = "exists" /\ purpose' = "probe"
            \/ purpose = "spawn" /\ v = "safe" /\ step' = "run" /\ purpose' = "spawn"
      \/ /\ purpose = "verdict" /\ step' = "idle" /\ purpose' = "verdict"
         /\ result' = IF v # "safe" /\ elevated THEN "notready" ELSE "ready"
  BY DEF L!Proceed, L!Goes, L!Blocking, RootWhere
<1>3. /\ faults' \in 0..Faults /\ failed' \in BOOLEAN
      /\ failed' = TRUE \/ (L!NoFault /\ failed' = failed)
  BY RootFaults
<1>4. /\ result = "none" /\ (answered => purpose \in {"place", "verdict"})
      /\ (purpose \in {"probe", "spawn"} => placed = FALSE)
  BY DEF RootWhere, L!TypeOK
<1>5. L!TypeOK'
  <2>1. {astray, answered, placed, ensured, told, failed, meddled, fixable}' \subseteq BOOLEAN
    BY <1>1, <1>3, RootFlags
  <2>2. at' \in L!LEVELS
    BY <1>1 DEF L!LEVELS
  <2> QED  BY <1>1, <1>2, <1>3, <2>1, <2>2 DEF L!TypeOK
<1>6. L!RootHolds'
  <2>1. L!ReadyMeansClosed' /\ L!RunsFromClosed'
    BY <1>1, <1>2, <1>4, RootKeeps DEF L!RootHolds, L!ReadyMeansClosed, L!RunsFromClosed, RootWhere
  <2>2. L!EnsuredHolds'
    BY <1>1, RootKeeps DEF L!RootHolds, L!EnsuredHolds
  <2>3. L!AdoptedOrTold'
    BY <1>1, <1>2, <1>4 DEF L!AdoptedOrTold, RootAdopting, RootWhere, L!IsSystems
  <2>4. L!RunRepairs'
    BY <1>1, <1>2, <1>3, <1>4 DEF L!RunRepairs, RootRepairing
  <2> QED  BY <2>1, <2>2, <2>3, <2>4 DEF L!RootHolds
<1>7. RootShape' /\ RootHeld' /\ RootAdopting'
  BY <1>1, <1>2 DEF RootShape, RootHeld, RootAdopting
<1>8. RootWhere'
  BY <1>1, <1>2, <1>4, <1>5 DEF RootWhere, L!TypeOK
<1>9. RootEnsuring'
  BY <1>1, <1>2, RootKeeps DEF RootEnsuring
<1>10. RootRepairing'
  BY <1>1, <1>2, <1>3, <1>4, RootKeeps DEF RootRepairing
<1> QED  BY <1>5, <1>6, <1>7, <1>8, <1>9, <1>10

LEMMA RootBecomes ==
  ASSUME L!TypeOK, NEW l \in L!LEVELS, NEW v \in L!Level, L!Becomes(l, v)
  PROVE  /\ level' \in [L!LEVELS -> L!Level]
         /\ \A k \in L!LEVELS \ {l} : level'[k] = level[k]
         /\ level' = level \/ (~astray /\ level'[l] = v)
         /\ ~astray => level'[l] = v
BY DEF L!TypeOK, L!Becomes

(* One step of the walk that makes the levels, where another follows.      *)
LEMMA RootGoesOn ==
  ASSUME RootInvariant, L!Same, L!NoFault, step \in {"anchor", "mkdir", "open", "chmod", "chown"},
         UNCHANGED <<file, answered, placed, ensured, told, result, purpose>>,
         step' \in {"mkdir", "open", "chmod", "chown"}, at' \in L!DIGS, astray' \in {FALSE, astray},
         level' \in [L!LEVELS -> L!Level], level'[0] = level[0],
         level'[1].kind = "absent" => level'[2].kind = "absent",
         ~astray' => level'[at' - 1].kind = "dir",
         ~astray' /\ step' \in {"chmod", "chown"} => level'[at'].kind = "dir",
         ~meddled => /\ at' = 2 => level'[1] = L!Dir("root", "closed")
                     /\ step' = "open" => level'[at'].kind # "absent"
                     /\ step' = "chown" => level'[at'].mode = "closed"
                     /\ ensured => L!Pinned',
         ~failed /\ ~meddled /\ fixable => \A l \in L!DIGS : level'[l].kind # "link"
  PROVE  RootInvariant'
<1> USE DEF RootInvariant
<1>1. /\ UNCHANGED <<os, elevated, ours, meddled, fixable, runs, others, faults, failed>>
      /\ os = "unix" /\ ours /\ purpose \in {"prepare", "place"}
      /\ placed = FALSE /\ result = "none"
  BY DEF L!Same, L!NoFault, RootWhere, L!TypeOK
<1>2. L!TypeOK'
  <2>1. {astray, answered, placed, ensured, told, failed, meddled, fixable}' \subseteq BOOLEAN
    BY <1>1, RootFlags
  <2>2. at' \in L!LEVELS
    BY DEF L!LEVELS, L!DIGS
  <2> QED  BY <1>1, <2>1, <2>2 DEF L!TypeOK
<1>3. L!RootHolds'
  BY <1>1 DEF L!RootHolds, L!ReadyMeansClosed, L!RunsFromClosed, L!EnsuredHolds,
              L!AdoptedOrTold, L!RunRepairs
<1>4. RootShape' /\ RootHeld' /\ RootAdopting'
  <2>1. astray' => meddled'
    BY <1>1 DEF RootShape
  <2>2. RootShape'
    BY <1>1, <2>1 DEF RootShape
  <2>3. RootHeld'
    BY DEF RootHeld
  <2>4. RootAdopting'
    BY <1>1 DEF RootAdopting
  <2> QED  BY <2>2, <2>3, <2>4
<1>5. RootWhere'
  BY <1>1, <1>2 DEF RootWhere, L!TypeOK
<1>6. RootEnsuring'
  BY <1>1 DEF RootEnsuring
<1>7. RootRepairing'
  BY <1>1 DEF RootRepairing
<1> QED  BY <1>2, <1>3, <1>4, <1>5, <1>6, <1>7

(* The levels as such a step finds them.                                   *)
LEMMA RootAt ==
  ASSUME RootInvariant, step \in {"anchor", "mkdir", "open", "chmod", "chown"}
  PROVE  /\ os = "unix" /\ ours /\ level \in [L!LEVELS -> L!Level]
         /\ 0 \in L!LEVELS /\ 1 \in L!LEVELS /\ 2 \in L!LEVELS
         /\ step # "anchor" => at = 1 \/ at = 2
         /\ level[0].kind = "dir"
         /\ level[1].kind = "absent" => level[2].kind = "absent"
         /\ ~meddled => ~astray /\ (ensured => L!Pinned)
         /\ ~meddled /\ step # "anchor" /\ at = 2 => level[1] = L!Dir("root", "closed")
         /\ ~astray /\ step # "anchor" => level[at - 1].kind = "dir"
         /\ ~failed /\ ~meddled /\ fixable => \A l \in L!DIGS : level[l].kind # "link"
BY DEF RootInvariant, RootShape, RootWhere, RootHeld, RootEnsuring, RootRepairing, L!TypeOK,
       L!LEVELS, L!DIGS

LEMMA RootAnchor ==
  ASSUME RootInvariant, L!Anchor
  PROVE  RootInvariant'
<1>1. step = "anchor" /\ L!Same
  BY DEF L!Anchor, L!On
<1>2. L!Opens(0)
  BY <1>1, RootAt DEF L!Opens
<1>3. CASE L!Fault /\ L!EnsureErr
  BY <1>1, <1>3, RootEnsureErr
<1>4. CASE L!NoFault /\ L!Goes("mkdir", 1, purpose) /\ L!Keep
  <2>1. 1 \in L!DIGS /\ 1 # 2
    BY DEF L!DIGS
  <2>2. /\ step' = "mkdir" /\ at' = 1 /\ astray' = FALSE
        /\ UNCHANGED <<purpose, level, file, answered, placed, ensured, told, result>>
    BY <1>4 DEF L!Goes, L!Keep
  <2>3. level[at' - 1].kind = "dir"
    BY <1>1, <2>2, RootAt
  <2>4. L!Pinned' <=> L!Pinned
    BY <1>1, <2>2, RootKeeps DEF L!Same
  <2> QED  BY <1>1, <1>4, <2>1, <2>2, <2>3, <2>4, RootAt, RootGoesOn
<1> QED  BY <1>2, <1>3, <1>4 DEF L!Anchor

LEMMA RootMkdir ==
  ASSUME RootInvariant, L!Mkdir
  PROVE  RootInvariant'
<1>1. step = "mkdir" /\ L!Same
  BY DEF L!Mkdir, L!On
<1>2. at \in L!LEVELS /\ at \in L!DIGS
  BY <1>1, RootAt DEF L!DIGS
<1>3. CASE L!Fault /\ L!EnsureErr
  BY <1>1, <1>3, RootEnsureErr
<1>4. ASSUME L!NoFault, L!Then("open"), NEW m \in {"closed", "narrow"},
             L!Becomes(at, IF level[at].kind = "absent" THEN L!Dir("root", m) ELSE level[at]),
             UNCHANGED <<file, answered, placed, ensured, told, result>>
      PROVE  RootInvariant'
  <2> DEFINE v == IF level[at].kind = "absent" THEN L!Dir("root", m) ELSE level[at]
  <2>1. L!Dir("root", m) \in L!Level /\ L!Dir("root", m).kind = "dir"
    BY RootDirs DEF L!OWNERS, L!MODES
  <2>2. v \in L!Level /\ v.kind # "absent" /\ (level[at].kind # "absent" => v = level[at])
    BY <1>1, <1>2, <2>1, RootAt
  <2> HIDE DEF v
  <2>3. /\ level' \in [L!LEVELS -> L!Level]
        /\ \A k \in L!LEVELS \ {at} : level'[k] = level[k]
        /\ level' = level \/ (~astray /\ level'[at] = v)
    BY <1>2, <1>4, <2>2, RootBecomes DEF RootInvariant, v
  <2>4. step' = "open" /\ at' = at /\ purpose' = purpose /\ astray' = astray
    BY <1>4 DEF L!Then
  <2>5. level'[0] = level[0] /\ (at = 2 => level'[1] = level[1])
    BY <1>1, <1>2, <2>3, RootAt
  <2>6. level'[1].kind = "absent" => level'[2].kind = "absent"
    BY <1>1, <1>2, <2>2, <2>3, RootAt
  <2>7. ~astray' => level'[at' - 1].kind = "dir"
    BY <1>1, <2>4, <2>5, RootAt
  <2>8. ~meddled => level'[at'].kind # "absent" /\ (ensured => L!Pinned')
    <3>1. ~meddled => ~astray
      BY <1>1, RootAt
    <3>2. CASE level[at].kind # "absent"
      <4>1. level' = level
        BY <1>2, <2>2, <2>3, <3>2, RootAt, <1>1
      <4>2. os' = os
        BY <1>1 DEF L!Same
      <4> QED  BY <1>1, <2>4, <3>2, <4>1, <4>2, RootAt, RootKeeps
    <3>3. CASE level[at].kind = "absent"
      <4>1. ~(~meddled /\ ensured)
        BY <1>1, <1>2, <2>1, <3>3, RootAt DEF L!Pinned, L!Dir
      <4>2. ~meddled => level'[at] = v
        BY <1>4, <2>2, <2>3, <3>1, <1>2, <1>1, RootAt DEF L!Becomes, v
      <4> QED  BY <2>2, <2>4, <4>1, <4>2
    <3> QED  BY <3>2, <3>3
  <2>9. ~failed /\ ~meddled /\ fixable => \A l \in L!DIGS : level'[l].kind # "link"
    BY <1>1, <1>2, <2>1, <2>2, <2>3, RootAt DEF L!DIGS, L!LEVELS, v
  <2> QED  BY <1>1, <1>2, <1>4, <2>3, <2>4, <2>5, <2>6, <2>7, <2>8, <2>9, RootAt, RootGoesOn
<1> QED  BY <1>1, <1>3, <1>4 DEF L!Mkdir

LEMMA RootOpenLevel ==
  ASSUME RootInvariant, L!OpenLevel
  PROVE  RootInvariant'
<1>1. step = "open" /\ L!Same
  BY DEF L!OpenLevel, L!On
<1>2. at \in L!LEVELS /\ at \in L!DIGS
  BY <1>1, RootAt DEF L!DIGS
<1>3. CASE L!Fault /\ L!EnsureErr
  BY <1>1, <1>3, RootEnsureErr
<1>4. CASE L!NoFault /\ ~L!Opens(at) /\ L!EnsureErr
  <2>1. failed \/ meddled \/ ~fixable
    <3>1. level[at].kind \in {"absent", "dir", "link"}
      BY <1>1, <1>2, RootAt DEF L!Level
    <3>2. ~meddled => level[at].kind # "absent"
      BY <1>1 DEF RootInvariant, RootEnsuring
    <3> QED  BY <1>1, <1>2, <1>4, <3>1, <3>2, RootAt DEF L!Opens
  <2> QED  BY <1>1, <1>4, <2>1, RootEnsureErr
<1>5. CASE L!NoFault /\ L!Opens(at) /\ L!Then("chmod") /\ L!Keep
  <2>1. /\ step' = "chmod" /\ at' = at /\ astray' = astray
        /\ UNCHANGED <<purpose, level, file, answered, placed, ensured, told, result>>
    BY <1>5 DEF L!Then, L!Keep
  <2>2. ~astray => level[at].kind = "dir"
    BY <1>5 DEF L!Opens
  <2>3. L!Pinned' <=> L!Pinned
    BY <1>1, <2>1, RootKeeps DEF L!Same
  <2> QED  BY <1>1, <1>2, <1>5, <2>1, <2>2, <2>3, RootAt, RootGoesOn
<1> QED  BY <1>3, <1>4, <1>5 DEF L!OpenLevel

LEMMA RootChmod ==
  ASSUME RootInvariant, L!Chmod
  PROVE  RootInvariant'
<1>1. step = "chmod" /\ L!Same
  BY DEF L!Chmod, L!On
<1>2. at \in L!LEVELS /\ at \in L!DIGS
  BY <1>1, RootAt DEF L!DIGS
<1>3. CASE L!Fault /\ L!EnsureErr
  BY <1>1, <1>3, RootEnsureErr
<1>4. CASE /\ L!NoFault /\ L!Then("chown")
           /\ L!Becomes(at, [level[at] EXCEPT !.mode = "closed"])
           /\ UNCHANGED <<file, answered, placed, ensured, told, result>>
  <2> DEFINE v == [level[at] EXCEPT !.mode = "closed"]
  <2>1. /\ v \in L!Level /\ v.mode = "closed" /\ v.kind = level[at].kind
        /\ v.owner = level[at].owner
    BY <1>1, <1>2, RootAt DEF L!Level, L!MODES
  <2>2. L!Becomes(at, v)
    BY <1>4
  <2> HIDE DEF v
  <2>3. /\ level' \in [L!LEVELS -> L!Level]
        /\ \A k \in L!LEVELS \ {at} : level'[k] = level[k]
        /\ level' = level \/ level'[at] = v
        /\ ~astray => level'[at] = v
    BY <1>2, <2>1, <2>2, RootBecomes DEF RootInvariant
  <2>4. step' = "chown" /\ at' = at /\ purpose' = purpose /\ astray' = astray
    BY <1>4 DEF L!Then
  <2>5. \A l \in L!LEVELS : level'[l].kind = level[l].kind
    BY <2>1, <2>3
  <2>6. level'[0] = level[0] /\ (at = 2 => level'[1] = level[1])
    BY <1>1, <1>2, <2>3, RootAt
  <2>7. ~astray' => level'[at' - 1].kind = "dir" /\ level'[at'].kind = "dir"
    <3>1. ~astray => level[at].kind = "dir"
      BY <1>1 DEF RootInvariant, RootHeld
    <3> QED  BY <1>1, <1>2, <2>4, <2>5, <3>1, RootAt
  <2>8. ~meddled => level'[at'].mode = "closed" /\ (ensured => L!Pinned')
    <3>1. ~meddled => level'[at].mode = "closed"
      BY <1>1, <2>1, <2>3, RootAt
    <3>2. ASSUME ~meddled, ensured, NEW l \in L!DIGS
          PROVE  level'[l] = L!Dir("root", "closed")
      <4>1. level[l] = L!Dir("root", "closed") /\ l \in L!LEVELS
        BY <1>1, <3>2, RootAt DEF L!Pinned, L!DIGS, L!LEVELS
      <4>2. CASE l = at
        <5>1. v.kind = "dir" /\ v.owner = "root"
          BY <2>1, <4>1, <4>2, RootDirs DEF L!OWNERS, L!MODES
        <5>2. v = L!Dir("root", "closed")
          BY <2>1, <5>1, RootDir
        <5> QED  BY <2>3, <4>1, <4>2, <5>2
      <4>3. CASE l # at
        BY <2>3, <4>1, <4>3
      <4> QED  BY <4>2, <4>3
    <3> QED  BY <2>4, <3>1, <3>2 DEF L!Pinned
  <2>9. level'[1].kind = "absent" => level'[2].kind = "absent"
    BY <1>1, <2>5, RootAt
  <2>10. ~failed /\ ~meddled /\ fixable => \A l \in L!DIGS : level'[l].kind # "link"
    BY <1>1, <2>5, RootAt DEF L!DIGS, L!LEVELS
  <2> QED  BY <1>1, <1>2, <1>4, <2>3, <2>4, <2>6, <2>7, <2>8, <2>9, <2>10, RootAt, RootGoesOn
<1> QED  BY <1>3, <1>4 DEF L!Chmod

LEMMA RootChown ==
  ASSUME RootInvariant, L!Chown
  PROVE  RootInvariant'
<1>1. step = "chown" /\ L!Same
  BY DEF L!Chown, L!On
<1>2. at \in L!LEVELS /\ at \in L!DIGS
  BY <1>1, RootAt DEF L!DIGS
<1>3. CASE L!Fault /\ L!EnsureErr
  BY <1>1, <1>3, RootEnsureErr
<1>4. CASE L!NoFault /\ L!Becomes(at, [level[at] EXCEPT !.owner = "root"])
  <2> DEFINE v == [level[at] EXCEPT !.owner = "root"]
  <2>1. /\ v \in L!Level /\ v.owner = "root" /\ v.kind = level[at].kind
        /\ v.mode = level[at].mode
    BY <1>1, <1>2, RootAt DEF L!Level, L!OWNERS
  <2>2. L!Becomes(at, v)
    BY <1>4
  <2> HIDE DEF v
  <2>3. /\ level' \in [L!LEVELS -> L!Level]
        /\ \A k \in L!LEVELS \ {at} : level'[k] = level[k]
        /\ level' = level \/ level'[at] = v
        /\ ~astray => level'[at] = v
    BY <1>2, <2>1, <2>2, RootBecomes DEF RootInvariant
  <2>4. \A l \in L!LEVELS : level'[l].kind = level[l].kind
    BY <2>1, <2>3
  <2>5. ~astray => level[at].kind = "dir"
    BY <1>1 DEF RootInvariant, RootHeld
  <2>6. ~meddled => level'[at] = L!Dir("root", "closed") /\ ~astray
    <3>1. ~meddled => ~astray /\ level[at].mode = "closed"
      BY <1>1, RootAt DEF RootInvariant, RootEnsuring
    <3>2. ~meddled => v.kind = "dir" /\ v.mode = "closed"
      BY <2>1, <2>5, <3>1
    <3>3. ~meddled => v = L!Dir("root", "closed")
      BY <2>1, <3>2, RootDir
    <3> QED  BY <2>3, <3>1, <3>3
  <2>7. ~meddled /\ at = 2 => level'[1] = L!Dir("root", "closed")
    BY <1>1, <2>3, RootAt
  <2>8. ~meddled /\ (at = 2 \/ ensured) => L!Pinned'
    <3>1. ASSUME ~meddled, at = 2 \/ ensured, NEW l \in L!DIGS
          PROVE  level'[l] = L!Dir("root", "closed")
      <4>1. l \in L!LEVELS /\ (l = 1 \/ l = 2)
        BY DEF L!DIGS, L!LEVELS
      <4>2. CASE l = at
        BY <2>6, <3>1, <4>2
      <4>3. CASE l # at
        BY <1>1, <2>3, <2>7, <3>1, <4>1, <4>3, RootAt DEF L!Pinned
      <4> QED  BY <4>2, <4>3
    <3> QED  BY <3>1 DEF L!Pinned
  <2>9. level'[1].kind = "absent" => level'[2].kind = "absent"
    BY <1>1, <2>4, RootAt
  <2>10. ~failed /\ ~meddled /\ fixable => \A l \in L!DIGS : level'[l].kind # "link"
    BY <1>1, <2>4, RootAt DEF L!DIGS, L!LEVELS
  <2>11. level'[0] = level[0]
    BY <1>1, <1>2, <2>3, RootAt
  <2>12. CASE /\ at < 2 /\ step' = "mkdir" /\ at' = at + 1 /\ UNCHANGED <<purpose, astray>>
              /\ UNCHANGED <<file, answered, placed, ensured, told, result>>
    <3>1. at = 1 /\ at' = 2 /\ 2 \in L!DIGS
      BY <1>1, <2>12, RootAt DEF L!DIGS
    <3>2. ~astray' => level'[1].kind = "dir"
      BY <1>2, <2>4, <2>5, <2>12, <3>1
    <3>3. ~meddled => level'[1] = L!Dir("root", "closed")
      BY <2>6, <3>1
    <3> QED  BY <1>1, <1>4, <2>3, <2>8, <2>9, <2>10, <2>11, <2>12, <3>1, <3>2, <3>3, RootAt,
                RootGoesOn
  <2>13. CASE at = 2 /\ L!EnsureOk
    <3>1. ~failed /\ ~meddled /\ fixable => level'[2].kind = "dir"
      BY <2>6, <2>13, RootDirs DEF L!OWNERS, L!MODES
    <3>2. os = "unix" /\ 2 \in L!DIGS
      BY <1>1, RootAt DEF L!DIGS
    <3>3. ~meddled => L!Pinned'
      BY <2>8, <2>13
    <3> QED  BY <1>1, <1>4, <2>3, <2>9, <2>10, <2>11, <2>13, <3>1, <3>2, <3>3, RootEnsureOk
  <2> QED  BY <1>1, <1>4, <2>12, <2>13, <1>3 DEF L!Chown
<1> QED  BY <1>3, <1>4 DEF L!Chown

(* A step of force_system_ownership, where another follows.                *)
LEMMA RootToolGoesOn ==
  ASSUME RootInvariant, L!Same, L!Fault \/ L!NoFault, os = "windows", ours, purpose = "prepare",
         step \in {"makedirs", "owner", "reset", "back"},
         UNCHANGED <<file, answered, placed, ensured, told, result, purpose>>,
         step' \in {"owner", "reset", "back"}, at' \in L!DIGS, astray' \in {FALSE, astray},
         level' \in [L!LEVELS -> L!Level], level'[0] = level[0],
         level'[1].kind = "absent" => level'[2].kind = "absent",
         \A l \in L!DIGS : level'[l].kind # "link",
         file.there => level'[2].kind = "dir",
         ~meddled => /\ at' = 2 => L!Privileged(level'[1])
                     /\ ensured => \A l \in L!DIGS : L!Privileged(level'[l]),
         failed' = TRUE \/ (~failed /\ ~meddled /\ fixable =>
           /\ level'[1].kind = "dir" /\ level'[2].kind = "dir"
           /\ at' = 2 => level'[1].mode = "closed"
           /\ step' \in {"reset", "back"} => level'[at'].owner = "root"
           /\ step' = "back" => level'[at'].mode = "closed")
  PROVE  RootInvariant'
<1> USE DEF RootInvariant
<1>1. /\ UNCHANGED <<os, elevated, ours, meddled, fixable, runs, others>>
      /\ placed = FALSE /\ result = "none" /\ elevated
  BY DEF L!Same, RootWhere, RootShape, L!TypeOK
<1>2. /\ faults' \in 0..Faults /\ failed' \in BOOLEAN
      /\ failed' = TRUE \/ failed' = failed
  BY RootFaults
<1>3. L!TypeOK'
  <2>1. {astray, answered, placed, ensured, told, failed, meddled, fixable}' \subseteq BOOLEAN
    BY <1>1, <1>2, RootFlags
  <2>2. at' \in L!LEVELS
    BY DEF L!LEVELS, L!DIGS
  <2> QED  BY <1>1, <1>2, <2>1, <2>2 DEF L!TypeOK
<1>4. L!RootHolds'
  <2>1. L!EnsuredHolds'
    BY <1>1 DEF L!EnsuredHolds, L!Privileged
  <2> QED  BY <1>1, <2>1 DEF L!RootHolds, L!ReadyMeansClosed, L!RunsFromClosed,
              L!AdoptedOrTold, L!RunRepairs
<1>5. RootShape' /\ RootHeld' /\ RootAdopting'
  <2>1. astray' => meddled'
    BY <1>1 DEF RootShape
  <2>2. RootShape'
    BY <1>1, <2>1 DEF RootShape
  <2>3. RootHeld' /\ RootAdopting'
    BY <1>1 DEF RootHeld, RootAdopting
  <2> QED  BY <2>2, <2>3
<1>6. RootWhere'
  BY <1>1, <1>3 DEF RootWhere, L!TypeOK
<1>7. RootEnsuring'
  BY <1>1 DEF RootEnsuring
<1>8. RootRepairing'
  BY <1>1, <1>2 DEF RootRepairing
<1> QED  BY <1>3, <1>4, <1>5, <1>6, <1>7, <1>8

LEMMA RootMakeDirs ==
  ASSUME RootInvariant, L!MakeDirs
  PROVE  RootInvariant'
<1>1. /\ step = "makedirs" /\ L!Same /\ purpose \in {"prepare", "place"}
      /\ ours => os = "windows"
      /\ purpose = "prepare" => ours
      /\ level \in [L!LEVELS -> L!Level] /\ os \in {"unix", "windows"}
      /\ 0 \in L!LEVELS /\ 1 \in L!LEVELS /\ 2 \in L!LEVELS /\ L!DIGS \subseteq L!LEVELS
  BY DEF L!MakeDirs, L!On, RootInvariant, RootWhere, L!TypeOK, L!LEVELS, L!DIGS
<1>2. CASE L!Fault /\ L!EnsureErr
  BY <1>1, <1>2, RootEnsureErr
<1>3. ASSUME L!NoFault, NEW m \in IF os = "unix" THEN L!MODES ELSE {"closed"},
             level' = [l \in L!LEVELS |->
               IF level[l].kind # "absent" THEN level[l]
               ELSE L!Dir(IF os = "unix" /\ elevated THEN "root" ELSE "other", m)],
             \/ /\ os = "windows" /\ ours /\ purpose = "prepare"
                /\ L!Goes("owner", 1, purpose)
                /\ UNCHANGED <<file, answered, placed, ensured, told, result>>
             \/ ~(os = "windows" /\ ours /\ purpose = "prepare") /\ L!EnsureOk
      PROVE  RootInvariant'
  <2> DEFINE made == L!Dir(IF os = "unix" /\ elevated THEN "root" ELSE "other", m)
  <2>1. /\ made \in L!Level /\ made.kind = "dir" /\ made.mode = m
        /\ os = "windows" => m = "closed"
    BY <1>1, RootDirs DEF L!OWNERS, L!MODES
  <2>2. \A l \in L!LEVELS : level'[l] = IF level[l].kind # "absent" THEN level[l] ELSE made
    BY <1>3
  <2>3. level' \in [L!LEVELS -> L!Level]
    BY <1>1, <1>3, <2>1
  <2> HIDE DEF made
  <2>4. \A l \in L!LEVELS : level'[l].kind # "absent" /\ (level[l].kind # "link" => level'[l].kind = "dir")
    BY <1>1, <2>1, <2>2 DEF L!Level
  <2>5. level[0].kind = "dir" /\ level'[0] = level[0]
    BY <1>1, <2>2 DEF RootInvariant, RootShape
  <2>6. os = "windows" => /\ \A l \in L!DIGS : level'[l].kind = "dir"
                          /\ file.there => level'[2].kind = "dir"
    BY <1>1, <2>4 DEF RootInvariant, RootShape, L!DIGS
  <2>7. ASSUME ~meddled, ensured
        PROVE  IF os = "unix" THEN L!Pinned' ELSE \A l \in L!DIGS : L!Privileged(level'[l])
    <3>1. IF os = "unix" THEN L!Pinned ELSE \A l \in L!DIGS : L!Privileged(level[l])
      BY <2>7 DEF RootInvariant, RootEnsuring
    <3>2. \A l \in L!DIGS : level[l].kind = "dir"
      BY <3>1, RootDirs DEF L!Pinned, L!Privileged, L!OWNERS, L!MODES
    <3>3. \A l \in L!DIGS : level'[l] = level[l]
      BY <1>1, <2>2, <3>2
    <3> QED  BY <3>1, <3>3 DEF L!Pinned, L!Privileged
  <2>8. CASE /\ os = "windows" /\ ours /\ purpose = "prepare"
             /\ L!Goes("owner", 1, purpose)
             /\ UNCHANGED <<file, answered, placed, ensured, told, result>>
    <3>1. step' = "owner" /\ at' = 1 /\ purpose' = purpose /\ astray' = FALSE
      BY <2>8 DEF L!Goes
    <3>2. 1 \in L!DIGS /\ 2 \in L!DIGS
      BY DEF L!DIGS
    <3>3. /\ level'[1].kind = "dir" /\ level'[2].kind = "dir"
          /\ \A l \in L!DIGS : level'[l].kind # "link"
          /\ file.there => level'[2].kind = "dir"
      BY <2>6, <2>8, <3>2
    <3>4. ~meddled /\ ensured => \A l \in L!DIGS : L!Privileged(level'[l])
      BY <2>7, <2>8
    <3>5. UNCHANGED <<file, answered, placed, ensured, told, result, purpose>>
      BY <2>8, <3>1
    <3>6. /\ at' # 2 /\ step' \notin {"reset", "back"} /\ step' \in {"owner", "reset", "back"}
          /\ at' \in L!DIGS
      BY <3>1, <3>2
    <3>7. astray' \in {FALSE, astray}
      BY <3>1
    <3> QED  BY <1>1, <1>3, <2>3, <2>5, <2>8, <3>3, <3>4, <3>5, <3>6, <3>7, RootToolGoesOn
  <2>9. CASE ~(os = "windows" /\ ours /\ purpose = "prepare") /\ L!EnsureOk
    <3>1. ensured' = ensured
      <4>1. (ours /\ (os = "unix" \/ purpose = "prepare")) = FALSE
        BY <1>1, <2>9
      <4> QED  BY <4>1, <2>9, RootFlags DEF L!EnsureOk, RootInvariant
    <3>2. ASSUME ~failed, ~meddled, fixable
          PROVE  /\ level'[2].kind = "dir" /\ \A l \in L!DIGS : level'[l].kind # "link"
                 /\ os = "windows" => ~L!Open(2)'
      <4>1. /\ ours /\ os = "windows" /\ purpose # "prepare" /\ ~L!Open(2)
        BY <1>1, <2>9, <3>2 DEF RootInvariant, RootRepairing
      <4>2. \A k \in 0..2 : level[k].mode # "open"
        BY <4>1 DEF L!Open
      <4>3. \A k \in 0..2 : level'[k].mode # "open"
        BY <2>1, <2>2, <4>1, <4>2 DEF L!LEVELS
      <4>4. os' = "windows"
        BY <1>1, <4>1 DEF L!Same
      <4>5. ~L!Open(2)'
        BY <4>3, <4>4 DEF L!Open
      <4>6. 2 \in L!DIGS
        BY DEF L!DIGS
      <4> QED  BY <2>6, <4>1, <4>5, <4>6
    <3>3. level'[1].kind = "absent" => level'[2].kind = "absent"
      BY <1>1, <2>4
    <3> QED  BY <1>1, <1>3, <2>3, <2>5, <2>6, <2>7, <2>9, <3>1, <3>2, <3>3, RootEnsureOk
  <2> QED  BY <1>3, <2>8, <2>9
<1> QED  BY <1>2, <1>3 DEF L!MakeDirs

(* The levels as the tools find them.                                      *)
LEMMA RootToolAt ==
  ASSUME RootInvariant, step \in {"owner", "reset", "back"}
  PROVE  /\ os = "windows" /\ ours /\ purpose = "prepare" /\ level \in [L!LEVELS -> L!Level]
         /\ at = 1 \/ at = 2
         /\ at \in L!DIGS /\ at \in L!LEVELS /\ L!DIGS = {1, 2}
         /\ 0 \in L!LEVELS /\ 1 \in L!LEVELS /\ 2 \in L!LEVELS
         /\ level[1].kind = "absent" => level[2].kind = "absent"
         /\ \A l \in L!DIGS : level[l].kind # "link"
         /\ file.there => level[2].kind = "dir"
         /\ ~meddled => /\ ~astray
                        /\ at = 2 => L!Privileged(level[1])
                        /\ ensured => \A l \in L!DIGS : L!Privileged(level[l])
         /\ ~failed /\ ~meddled /\ fixable =>
              /\ level[1].kind = "dir" /\ level[2].kind = "dir"
              /\ at = 2 => level[1].mode = "closed"
              /\ step \in {"reset", "back"} => level[at].owner = "root"
              /\ step = "back" => level[at].mode = "closed"
BY DEF RootInvariant, RootShape, RootWhere, RootEnsuring, RootRepairing, L!TypeOK, L!LEVELS, L!DIGS

(* A tool gives the level an owner or a mode, or nothing.                  *)
LEMMA RootTool ==
  ASSUME RootInvariant, L!Same, NEW v \in L!Level, NEW next \in {"reset", "back"}, L!Tool(v, next),
         \/ step = "owner" /\ next = "reset" /\ v = [level[at] EXCEPT !.owner = "root"]
         \/ step = "reset" /\ next = "back" /\ v = [level[at] EXCEPT !.mode = "closed"]
  PROVE  RootInvariant'
<1>1. step \in {"owner", "reset"}
  OBVIOUS
<1>2. /\ v.kind = level[at].kind
      /\ step = "owner" => v.owner = "root" /\ v.mode = level[at].mode
      /\ step = "reset" => v.mode = "closed" /\ v.owner = level[at].owner
  BY <1>1, RootToolAt DEF L!Level
<1>3. CASE L!Fault /\ L!EnsureErr
  BY <1>1, <1>3, RootEnsureErr
<1>4. CASE L!NoFault /\ level[at].kind # "dir" /\ L!EnsureErr
  <2>1. failed \/ meddled \/ ~fixable
    BY <1>1, <1>4, RootToolAt
  <2> QED  BY <1>1, <1>4, <2>1, RootEnsureErr
<1>5. CASE L!Fault /\ L!Then(next) /\ L!Keep
  <2>1. /\ failed' = TRUE /\ step' = next /\ at' = at /\ astray' = astray
        /\ UNCHANGED <<purpose, level, file, answered, placed, ensured, told, result>>
    BY <1>5 DEF L!Then, L!Keep, L!Fault
  <2> QED  BY <1>1, <1>5, <2>1, RootToolAt, RootToolGoesOn
<1>6. CASE /\ L!NoFault /\ level[at].kind = "dir" /\ L!Becomes(at, v) /\ L!Then(next)
           /\ UNCHANGED <<file, answered, placed, ensured, told, result>>
  <2>1. /\ level' \in [L!LEVELS -> L!Level]
        /\ \A k \in L!LEVELS \ {at} : level'[k] = level[k]
        /\ level' = level \/ level'[at] = v
        /\ ~astray => level'[at] = v
    BY <1>1, <1>6, RootToolAt, RootBecomes DEF RootInvariant
  <2>2. step' = next /\ at' = at /\ astray' = astray /\ purpose' = purpose
    BY <1>6 DEF L!Then
  <2>3. \A l \in L!LEVELS : level'[l].kind = level[l].kind
    BY <1>2, <2>1
  <2>4. ~meddled => /\ at = 2 => L!Privileged(level'[1])
                    /\ ensured => \A l \in L!DIGS : L!Privileged(level'[l])
    <3>1. \A l \in L!LEVELS : L!Privileged(level[l]) => L!Privileged(level'[l])
      BY <1>1, <1>2, <2>1 DEF L!Privileged
    <3> QED  BY <1>1, <3>1, RootToolAt
  <2>5. ~failed /\ ~meddled /\ fixable =>
          /\ level'[1].kind = "dir" /\ level'[2].kind = "dir"
          /\ at = 2 => level'[1].mode = "closed"
          /\ level'[at].owner = "root"
          /\ next = "back" => level'[at].mode = "closed"
    <3>1. ASSUME ~failed, ~meddled, fixable
          PROVE  level'[at].owner = "root" /\ (next = "back" => level'[at].mode = "closed")
      BY <1>1, <1>2, <2>1, <3>1, RootToolAt
    <3> QED  BY <1>1, <2>1, <2>3, <3>1, RootToolAt
  <2>6. /\ level'[0] = level[0]
        /\ level'[1].kind = "absent" => level'[2].kind = "absent"
        /\ \A l \in L!DIGS : level'[l].kind # "link"
        /\ file.there => level'[2].kind = "dir"
    BY <1>1, <2>1, <2>3, RootToolAt
  <2> QED  BY <1>1, <1>6, <2>1, <2>2, <2>4, <2>5, <2>6, RootToolAt, RootToolGoesOn
<1> QED  BY <1>3, <1>4, <1>5, <1>6 DEF L!Tool

LEMMA RootSetOwner ==
  ASSUME RootInvariant, L!SetOwner \/ L!Reset
  PROVE  RootInvariant'
<1>1. CASE L!SetOwner
  <2>1. [level[at] EXCEPT !.owner = "root"] \in L!Level
    BY <1>1, RootToolAt DEF L!SetOwner, L!On, L!Level, L!OWNERS
  <2> QED  BY <1>1, <2>1, RootTool DEF L!SetOwner, L!On
<1>2. CASE L!Reset
  <2>1. [level[at] EXCEPT !.mode = "closed"] \in L!Level
    BY <1>2, RootToolAt DEF L!Reset, L!On, L!Level, L!MODES
  <2> QED  BY <1>2, <2>1, RootTool DEF L!Reset, L!On
<1> QED  BY <1>1, <1>2

LEMMA RootReadBack ==
  ASSUME RootInvariant, L!ReadBack
  PROVE  RootInvariant'
<1>1. step = "back" /\ L!Same
  BY DEF L!ReadBack, L!On
<1>2. CASE L!Fault /\ L!EnsureErr
  BY <1>1, <1>2, RootEnsureErr
<1>3. CASE L!NoFault /\ ~L!Privileged(level[at]) /\ L!EnsureErr
  <2>1. failed \/ meddled \/ ~fixable
    BY <1>1, <1>3, RootToolAt DEF L!Privileged
  <2> QED  BY <1>1, <1>3, <2>1, RootEnsureErr
<1>4. CASE L!NoFault /\ L!Privileged(level[at]) /\ UNCHANGED level
           /\ L!Goes("owner", 2, purpose) /\ at = 1 /\ L!Keep
  <2>1. /\ step' = "owner" /\ at' = 2 /\ astray' = FALSE /\ level' = level
        /\ UNCHANGED <<purpose, level, file, answered, placed, ensured, told, result>>
    BY <1>4 DEF L!Goes, L!Keep
  <2>2. L!Privileged(level'[1])
    BY <1>4, <2>1
  <2>3. ~failed /\ ~meddled /\ fixable => level'[1].mode = "closed"
    BY <1>1, <1>4, <2>1, RootToolAt
  <2> QED  BY <1>1, <1>4, <2>1, <2>2, <2>3, RootToolAt, RootToolGoesOn
<1>5. CASE L!NoFault /\ L!Privileged(level[at]) /\ UNCHANGED level /\ at = 2 /\ L!EnsureOk
  <2>1. ~meddled => \A l \in L!DIGS : L!Privileged(level'[l])
    BY <1>1, <1>5, RootToolAt
  <2>2. ~failed /\ ~meddled /\ fixable => ~L!Open(2)'
    <3>1. SUFFICES ASSUME ~failed, ~meddled, fixable
                   PROVE  ~L!Open(2)
      BY <1>1, <1>5, RootKeeps DEF L!Same
    <3>2. level[0].mode # "open"
      BY <1>1, <3>1 DEF RootInvariant, RootRepairing
    <3>3. level[1].mode = "closed" /\ level[2].mode = "closed"
      BY <1>1, <1>5, <3>1, RootToolAt
    <3>4. \A k \in 0..2 : k = 0 \/ k = 1 \/ k = 2
      OBVIOUS
    <3> QED  BY <1>1, <3>2, <3>3, <3>4, RootToolAt DEF L!Open
  <2>3. ~failed /\ ~meddled /\ fixable => level'[2].kind = "dir"
    BY <1>1, <1>5, RootToolAt
  <2> QED  BY <1>1, <1>5, <2>1, <2>2, <2>3, RootToolAt, RootEnsureOk
<1> QED  BY <1>2, <1>3, <1>4, <1>5 DEF L!ReadBack

(* A step that changes neither a level nor the program.                    *)
LEMMA RootTurns ==
  ASSUME RootInvariant, L!Same, L!Fault \/ L!NoFault, step # "idle",
         UNCHANGED <<level, file, placed, ensured, told, result>>,
         answered' \in BOOLEAN, astray' = FALSE, at' \in L!LEVELS,
         purpose' \in {"place", "probe", "spawn", "verdict"},
         step' \in {"anchor", "makedirs", "walk", "read", "exists", "run", "decide"},
         RootWhere',
         step' = "walk" => \A k \in 0..(at' - 1) : level[k].kind = "dir" /\ ~L!Loose(k),
         step' = "run" /\ os = "unix" /\ elevated => L!Closed,
         step' = "read" => placed = FALSE,
         purpose' = "spawn" /\ ~meddled => file.there,
         failed' = TRUE \/ (~failed /\ ~meddled /\ fixable =>
           /\ os = "unix" /\ ((step' = "walk" /\ purpose' = "verdict") \/ (step' = "decide" /\ answered'))
                => L!Closed
           /\ os = "windows" /\ (step' = "read" \/ (step' = "decide" /\ answered'))
                => level[2].kind = "dir"
           /\ os = "windows" => ~L!Open(2))
  PROVE  RootInvariant'
<1> USE DEF RootInvariant
<1>1. /\ UNCHANGED <<os, elevated, ours, meddled, fixable, runs, others>>
      /\ result = "none"
  BY DEF L!Same, RootWhere
<1>2. /\ faults' \in 0..Faults /\ failed' \in BOOLEAN
      /\ failed' = TRUE \/ failed' = failed
  BY RootFaults
<1>3. L!TypeOK'
  <2>1. {astray, answered, placed, ensured, told, failed, meddled, fixable}' \subseteq BOOLEAN
    BY <1>1, <1>2, RootFlags
  <2> QED  BY <1>1, <1>2, <2>1 DEF L!TypeOK
<1>4. L!RootHolds'
  BY <1>1, RootKeeps DEF L!RootHolds, L!ReadyMeansClosed, L!RunsFromClosed, L!EnsuredHolds,
     L!AdoptedOrTold, L!RunRepairs
<1>5. RootShape' /\ RootAdopting'
  BY <1>1 DEF RootShape, RootAdopting
<1>6. RootHeld'
  BY <1>1, RootKeeps DEF RootHeld
<1>7. RootEnsuring'
  BY <1>1, RootKeeps DEF RootEnsuring
<1>8. RootRepairing'
  BY <1>1, <1>2, RootKeeps DEF RootRepairing
<1> QED  BY <1>3, <1>4, <1>5, <1>6, <1>7, <1>8

(* What the levels seen so far and the one seen now say of the chain.      *)
LEMMA RootSeen ==
  ASSUME RootInvariant, step = "walk"
  PROVE  /\ at \in L!LEVELS /\ at \in 0..2 /\ ~astray /\ os = "unix"
         /\ L!Sees(at) \in {"safe", "unsafe", "further"}
         /\ L!Sees(at) = "safe" => L!Closed
         /\ L!Sees(at) = "further" =>
              at # 2 /\ \A k \in 0..at : level[k].kind = "dir" /\ ~L!Loose(k)
         /\ L!Closed => L!Sees(at) # "unsafe"
<1>1. /\ at \in L!LEVELS /\ at \in 0..2 /\ ~astray /\ os = "unix"
      /\ \A k \in 0..(at - 1) : level[k].kind = "dir" /\ ~L!Loose(k)
      /\ level[at].kind \in {"absent", "dir", "link"}
  BY DEF RootInvariant, RootWhere, RootHeld, L!TypeOK, L!LEVELS, L!Level
<1>2. L!Sees(at) = "safe" => L!Closed
  <2>1. SUFFICES ASSUME L!Sees(at) = "safe", NEW l \in 0..2,
                        \A k \in 0..l : level[k].kind # "absent"
                 PROVE  level[l].kind = "dir" /\ ~L!Loose(l)
    BY DEF L!Closed, L!LEVELS
  <2>2. CASE l \in 0..(at - 1)
    BY <1>1, <2>2
  <2>3. CASE l \notin 0..(at - 1)
    <3>1. at \in 0..l
      BY <1>1, <2>3
    <3>2. level[at].kind = "dir" /\ ~L!Loose(at) /\ at = 2
      BY <1>1, <2>1, <3>1 DEF L!Sees
    <3> QED  BY <1>1, <2>3, <3>1, <3>2
  <2> QED  BY <2>2, <2>3
<1>3. L!Sees(at) = "further" => at # 2 /\ level[at].kind = "dir" /\ ~L!Loose(at)
  BY <1>1 DEF L!Sees
<1>4. \A k \in 0..at : k \in 0..(at - 1) \/ k = at
  BY <1>1
<1>5. L!Closed => L!Sees(at) # "unsafe"
  <2>1. SUFFICES ASSUME L!Closed, level[at].kind # "absent"
                 PROVE  level[at].kind = "dir" /\ ~L!Loose(at)
    BY <1>1 DEF L!Sees
  <2>2. \A k \in 0..at : level[k].kind # "absent"
    BY <1>1, <1>4, <2>1
  <2> QED  BY <1>1, <2>1, <2>2 DEF L!Closed
<1>6. L!Sees(at) \in {"safe", "unsafe", "further"}
  BY DEF L!Sees
<1> QED  BY <1>1, <1>2, <1>3, <1>4, <1>5, <1>6

LEMMA RootWalk ==
  ASSUME RootInvariant, L!Walk
  PROVE  RootInvariant'
<1>1. step = "walk" /\ L!Same
  BY DEF L!Walk, L!On
<1>2. L!Closed \/ failed \/ meddled \/ ~fixable \/ purpose # "verdict"
  BY <1>1, RootSeen DEF RootInvariant, RootRepairing
<1>3. CASE L!Fault /\ L!Proceed("unknown")
  <2>1. ~L!NoFault
    BY <1>3, RootFails DEF RootInvariant
  <2> QED  BY <1>1, <1>3, <2>1, RootProceed
<1>4. ASSUME L!NoFault, L!Sees(at) # "further", L!Proceed(L!Sees(at))
      PROVE  RootInvariant'
  <2>1. L!Sees(at) \in {"safe", "unsafe"}
    BY <1>1, <1>4, RootSeen
  <2>2. ~failed /\ ~meddled /\ fixable /\ purpose = "verdict" => L!Sees(at) = "safe"
    BY <1>1, <1>2, <2>1, RootSeen
  <2>3. L!Sees(at) = "safe" => L!Closed
    BY <1>1, RootSeen
  <2> DEFINE v == L!Sees(at)
  <2>4. v \in {"safe", "unsafe", "unknown"} /\ L!Proceed(v) /\ (v = "safe" => L!Closed)
        /\ (~failed /\ ~meddled /\ fixable /\ purpose = "verdict" => v = "safe")
    BY <1>4, <2>1, <2>2, <2>3
  <2> HIDE DEF v
  <2> QED  BY <1>1, <1>4, <2>4, RootProceed
<1>5. CASE /\ L!NoFault /\ L!Sees(at) = "further" /\ at' = at + 1
           /\ UNCHANGED <<step, purpose, astray>> /\ L!Keep
  <2>1. /\ UNCHANGED <<level, file, answered, placed, ensured, told, result>>
        /\ UNCHANGED <<os, elevated, ours, failed>>
    BY <1>1, <1>5 DEF L!Keep, L!Same, L!NoFault
  <2>2. /\ at' \in L!LEVELS /\ at' - 1 = at
        /\ \A k \in 0..(at' - 1) : level[k].kind = "dir" /\ ~L!Loose(k)
    BY <1>1, <1>5, RootSeen DEF L!LEVELS
  <2>3. /\ step' = "walk" /\ astray' = FALSE /\ answered' \in BOOLEAN /\ os = "unix"
        /\ purpose' \in {"probe", "spawn", "verdict"}
    BY <1>1, <1>5, <2>1, RootSeen, RootFlags DEF RootInvariant, RootWhere
  <2>4. RootWhere'
    BY <1>1, <1>5, <2>1 DEF RootInvariant, RootWhere
  <2>5. purpose' = "spawn" /\ ~meddled => file.there
    BY <1>5 DEF RootInvariant, RootEnsuring
  <2> QED  BY <1>1, <1>2, <1>5, <2>1, <2>2, <2>3, <2>4, <2>5, RootTurns
<1> QED  BY <1>1, <1>3, <1>4, <1>5, RootSeen DEF L!Walk

LEMMA RootReadList ==
  ASSUME RootInvariant, L!ReadList
  PROVE  RootInvariant'
<1>1. step = "read" /\ L!Same
  BY DEF L!ReadList, L!On
<1>2. ~failed /\ ~meddled /\ fixable => level[2].kind = "dir" /\ ~L!Open(2)
  BY <1>1 DEF RootInvariant, RootRepairing, RootWhere
<1>3. CASE L!Fault /\ L!Proceed("unknown")
  <2>1. ~L!NoFault
    BY <1>3, RootFails DEF RootInvariant
  <2> QED  BY <1>1, <1>3, <2>1, RootProceed
<1>4. CASE L!NoFault /\ L!Open(2) /\ L!Proceed("unsafe")
  BY <1>1, <1>2, <1>4, RootProceed
<1>5. CASE L!NoFault /\ L!Proceed("safe")
  BY <1>1, <1>5, RootProceed
<1>6. CASE L!NoFault /\ level[2].kind # "dir" /\ L!Proceed("unknown")
  BY <1>1, <1>2, <1>6, RootProceed
<1> QED  BY <1>3, <1>4, <1>5, <1>6 DEF L!ReadList

LEMMA RootExists ==
  ASSUME RootInvariant, L!Exists
  PROVE  RootInvariant'
<1>1. /\ step = "exists" /\ L!Same /\ L!NoFault /\ purpose = "probe" /\ result = "none"
      /\ answered = FALSE /\ placed = FALSE
      /\ UNCHANGED <<level, file, answered, placed, ensured, told, result>>
      /\ UNCHANGED <<os, elevated, ours, failed>>
  BY DEF L!Exists, L!On, L!Keep, L!Same, L!NoFault, RootInvariant, RootWhere, L!TypeOK
<1>2. /\ at' = 0 /\ astray' = FALSE
      /\ \/ step' = "decide" /\ purpose' = "probe"
         \/ os = "unix" /\ elevated /\ step' = "walk" /\ purpose' = "spawn" /\ file.there
         \/ ~(os = "unix" /\ elevated) /\ step' = "run" /\ purpose' = "spawn" /\ file.there
  BY DEF L!Exists, L!Goes, L!Guarded
<1>3. RootWhere'
  BY <1>1, <1>2 DEF RootInvariant, RootWhere
<1>4. ~failed /\ ~meddled /\ fixable => (os = "windows" => ~L!Open(2))
  BY <1>1 DEF RootInvariant, RootRepairing
<1>5. 0 \in L!LEVELS /\ \A k \in 0..(0 - 1) : FALSE
  BY DEF L!LEVELS
<1> QED  BY <1>1, <1>2, <1>3, <1>4, <1>5, RootTurns

LEMMA RootRunProgram ==
  ASSUME RootInvariant, L!RunProgram
  PROVE  RootInvariant'
<1>1. /\ step = "run" /\ L!Same /\ purpose = "spawn" /\ result = "none" /\ placed = FALSE
      /\ step' = "decide" /\ at' = 0 /\ purpose' = "probe" /\ astray' = FALSE
      /\ UNCHANGED <<level, file, placed, ensured, told, result>>
      /\ UNCHANGED <<os, elevated, ours>>
      /\ (L!NoFault /\ answered' = TRUE) \/ (L!Fault /\ answered' = FALSE)
  BY DEF L!RunProgram, L!On, L!Goes, L!Same, RootInvariant, RootWhere, L!TypeOK
<1>2. RootWhere'
  BY <1>1 DEF RootInvariant, RootWhere
<1>3. answered' \in BOOLEAN /\ (failed' = TRUE \/ answered' = TRUE)
  BY <1>1 DEF L!Fault
<1>4. ~failed /\ ~meddled /\ fixable =>
        /\ os = "unix" => L!Closed
        /\ os = "windows" => level[2].kind = "dir" /\ ~L!Open(2)
  <2>1. SUFFICES ASSUME ~failed, ~meddled, fixable
                 PROVE  /\ os = "unix" => L!Closed
                        /\ os = "windows" => level[2].kind = "dir" /\ ~L!Open(2)
    OBVIOUS
  <2>2. ours /\ elevated /\ file.there /\ (os = "windows" => ~L!Open(2))
    BY <1>1, <2>1 DEF RootInvariant, RootRepairing, RootShape, RootEnsuring
  <2>3. os = "unix" => L!Closed
    BY <1>1, <2>2 DEF RootInvariant, L!RootHolds, L!RunsFromClosed
  <2> QED  BY <2>2, <2>3 DEF RootInvariant, RootShape
<1>5. 0 \in L!LEVELS
  BY DEF L!LEVELS
<1> QED  BY <1>1, <1>2, <1>3, <1>4, <1>5, RootTurns

LEMMA RootDecide ==
  ASSUME RootInvariant, L!Decide
  PROVE  RootInvariant'
<1>1. /\ step = "decide" /\ L!Same /\ L!NoFault /\ purpose = "probe" /\ result = "none"
      /\ placed = FALSE
      /\ UNCHANGED <<level, file, answered, placed, ensured, told, result>>
      /\ UNCHANGED <<os, elevated, ours, failed>>
  BY DEF L!Decide, L!On, L!Keep, L!Same, L!NoFault, RootInvariant, RootWhere, L!TypeOK
<1>2. /\ at' = 0 /\ astray' = FALSE
      /\ \/ answered /\ purpose' = "verdict" /\ step' = IF os = "unix" THEN "walk" ELSE "read"
         \/ /\ purpose' = "place"
            /\ step' = IF os = "unix" /\ ours THEN "anchor" ELSE "makedirs"
  BY DEF L!Decide, L!Goes, L!Verifying, L!Ensuring
<1>3. os \in {"unix", "windows"} /\ answered \in BOOLEAN
  BY RootFlags DEF RootInvariant, L!TypeOK
<1>4. RootWhere'
  BY <1>1, <1>2, <1>3 DEF RootInvariant, RootWhere
<1>5. ~failed /\ ~meddled /\ fixable =>
        /\ os = "unix" /\ answered => L!Closed
        /\ os = "windows" /\ answered => level[2].kind = "dir"
        /\ os = "windows" => ~L!Open(2)
  BY <1>1 DEF RootInvariant, RootRepairing
<1>6. 0 \in L!LEVELS /\ \A k \in 0..(0 - 1) : FALSE
  BY DEF L!LEVELS
<1> QED  BY <1>1, <1>2, <1>3, <1>4, <1>5, <1>6, RootTurns

LEMMA RootWrite ==
  ASSUME RootInvariant, L!Write
  PROVE  RootInvariant'
<1> USE DEF RootInvariant
<1>1. /\ step = "write" /\ L!Same /\ purpose = "place" /\ result = "none" /\ placed = FALSE
      /\ UNCHANGED <<level, answered, ensured, told>>
      /\ UNCHANGED <<os, elevated, ours, meddled, fixable, runs, others>>
      /\ os \in {"unix", "windows"} /\ astray' = FALSE
  BY DEF L!Write, L!On, L!Same, L!Goes, RootWhere, L!TypeOK
<1>2. CASE /\ L!NoFault /\ L!Reaches
           /\ file' = L!File(IF L!Guarded THEN "root" ELSE "other") /\ placed' = TRUE
           /\ IF os = "windows" /\ ours THEN L!Goes("fowner", 2, "place")
                                        ELSE L!Goes(L!Verifying, 0, "verdict")
           /\ UNCHANGED result
  <2>1. /\ \/ os = "windows" /\ ours /\ step' = "fowner" /\ at' = 2 /\ purpose' = "place"
           \/ os = "windows" /\ ~ours /\ step' = "read" /\ at' = 0 /\ purpose' = "verdict"
           \/ os = "unix" /\ step' = "walk" /\ at' = 0 /\ purpose' = "verdict"
        /\ result' = result /\ UNCHANGED <<faults, failed>>
    BY <1>1, <1>2 DEF L!Goes, L!Verifying, L!NoFault
  <2>2. file' \in [there : BOOLEAN, owner : L!OWNERS, grant : BOOLEAN] /\ file'.there
    <3>1. PICK who \in {"root", "other"} : file' = L!File(who)
      BY <1>2
    <3>2. (who = "other") \in BOOLEAN /\ who \in L!OWNERS
      BY DEF L!OWNERS
    <3> QED  BY <3>1, <3>2 DEF L!File
  <2>3. os = "windows" => level[2].kind = "dir"
    <3>1. \A l \in L!LEVELS : l = 0 \/ l \in L!DIGS
      BY DEF L!LEVELS, L!DIGS
    <3> QED  BY <1>2, <3>1 DEF L!Reaches, RootShape
  <2>4. L!TypeOK'
    <3>1. {astray, answered, placed, ensured, told, failed, meddled, fixable}' \subseteq BOOLEAN
      BY <1>1, <1>2, <2>1, RootFlags
    <3>2. at' \in L!LEVELS
      BY <2>1 DEF L!LEVELS
    <3> QED  BY <1>1, <2>1, <2>2, <3>1, <3>2 DEF L!TypeOK
  <2>5. L!RootHolds'
    BY <1>1, <2>1, RootKeeps DEF L!RootHolds, L!ReadyMeansClosed, L!RunsFromClosed,
       L!EnsuredHolds, L!AdoptedOrTold, L!RunRepairs
  <2>6. RootShape'
    BY <1>1, <2>3 DEF RootShape
  <2>7. RootWhere'
    BY <1>1, <2>1 DEF RootWhere
  <2>8. RootHeld' /\ RootAdopting'
    BY <1>1, <2>1 DEF RootHeld, RootAdopting
  <2>9. RootEnsuring'
    BY <1>1, <2>1, RootKeeps DEF RootEnsuring
  <2>10. ~failed /\ ~meddled /\ fixable /\ os = "unix" => L!Closed
    <3>1. SUFFICES ASSUME ~failed, ~meddled, fixable, os = "unix"
                   PROVE  L!Closed
      OBVIOUS
    <3>2. L!Pinned /\ level[0].mode # "open" /\ level[0].kind = "dir" /\ level[0].owner = "root"
      BY <1>1, <3>1 DEF RootRepairing, RootWhere, RootEnsuring, RootShape
    <3>3. \A l \in L!DIGS : level[l].kind = "dir" /\ level[l].owner = "root" /\ level[l].mode = "closed"
      BY <3>2, RootDirs DEF L!Pinned, L!OWNERS, L!MODES
    <3>4. \A l \in L!LEVELS : l = 0 \/ l \in L!DIGS
      BY DEF L!LEVELS, L!DIGS
    <3> QED  BY <3>1, <3>2, <3>3, <3>4 DEF L!Closed, L!Loose, L!Open
  <2>11. RootRepairing'
    BY <1>1, <2>1, <2>2, <2>3, <2>10, RootKeeps DEF RootRepairing
  <2> QED  BY <2>4, <2>5, <2>6, <2>7, <2>8, <2>9, <2>11
<1>3. CASE /\ IF level[2].kind = "dir" THEN L!Fault ELSE L!NoFault
           /\ result' = "failed" /\ L!Goes("idle", 0, "verdict") /\ UNCHANGED <<file, placed>>
  <2>1. /\ step' = "idle" /\ at' = 0 /\ purpose' = "verdict"
        /\ faults' \in 0..Faults /\ failed' \in BOOLEAN
    BY <1>3, RootFaults DEF L!Goes
  <2>2. failed' = TRUE \/ meddled \/ ~fixable
    BY <1>1, <1>3 DEF RootRepairing, L!Fault, L!NoFault
  <2>3. L!TypeOK'
    <3>1. {astray, answered, placed, ensured, told, failed, meddled, fixable}' \subseteq BOOLEAN
      BY <1>1, <1>3, <2>1, RootFlags
    <3>2. at' \in L!LEVELS
      BY <2>1 DEF L!LEVELS
    <3> QED  BY <1>1, <1>3, <2>1, <3>1, <3>2 DEF L!TypeOK
  <2>4. L!RootHolds'
    BY <1>1, <1>3, <2>1, <2>2, RootKeeps DEF L!RootHolds, L!ReadyMeansClosed, L!RunsFromClosed,
       L!EnsuredHolds, L!AdoptedOrTold, L!RunRepairs
  <2>5. RootShape' /\ RootWhere'
    BY <1>1, <1>3, <2>1 DEF RootShape, RootWhere
  <2>6. RootHeld' /\ RootAdopting' /\ RootRepairing'
    BY <2>1 DEF RootHeld, RootAdopting, RootRepairing
  <2>7. RootEnsuring'
    BY <1>1, <2>1, RootKeeps DEF RootEnsuring
  <2> QED  BY <2>3, <2>4, <2>5, <2>6, <2>7
<1> QED  BY <1>2, <1>3 DEF L!Write

(* The program just placed is given to the system, or the run says it is   *)
(* not.                                                                    *)
LEMMA RootAdopts ==
  ASSUME RootInvariant, L!Same, L!Fault \/ L!NoFault, step \in {"fowner", "freset", "fback"},
         UNCHANGED <<level, answered, placed, ensured, result>>,
         file' \in [there : BOOLEAN, owner : L!OWNERS, grant : BOOLEAN], file'.there = file.there,
         \/ step' \in {"freset", "fback"} /\ UNCHANGED <<at, purpose, astray, told>>
         \/ /\ step' = "read" /\ at' = 0 /\ purpose' = "verdict" /\ astray' = FALSE
            /\ told' = TRUE \/ (told' = told /\ L!IsSystems(file')),
         failed' = TRUE \/ (~failed /\ ~meddled /\ fixable =>
           /\ told' = told /\ file'.owner = "root"
           /\ step' = "fback" => ~file'.grant)
  PROVE  RootInvariant'
<1> USE DEF RootInvariant
<1>1. /\ UNCHANGED <<os, elevated, ours, meddled, fixable, runs, others>>
      /\ os = "windows" /\ ours /\ purpose = "place" /\ result = "none"
      /\ ~meddled => ~astray
  BY DEF L!Same, RootWhere, RootShape
<1>2. /\ faults' \in 0..Faults /\ failed' \in BOOLEAN
      /\ failed' = TRUE \/ failed' = failed
  BY RootFaults
<1>3. L!TypeOK'
  <2>1. {astray, answered, placed, ensured, told, failed, meddled, fixable}' \subseteq BOOLEAN
    BY <1>1, <1>2, RootFlags
  <2>2. at' \in L!LEVELS
    BY DEF L!LEVELS, L!TypeOK
  <2> QED  BY <1>1, <1>2, <2>1, <2>2 DEF L!TypeOK
<1>4. L!RootHolds'
  BY <1>1, RootKeeps DEF L!RootHolds, L!ReadyMeansClosed, L!RunsFromClosed, L!EnsuredHolds,
     L!AdoptedOrTold, L!RunRepairs
<1>5. RootShape'
  <2>1. astray' => meddled'
    BY <1>1 DEF RootShape
  <2> QED  BY <1>1, <2>1 DEF RootShape
<1>6. RootWhere'
  BY <1>1 DEF RootWhere
<1>7. RootHeld'
  BY DEF RootHeld
<1>8. RootAdopting'
  BY <1>1 DEF RootAdopting, L!IsSystems
<1>9. RootEnsuring'
  BY <1>1, RootKeeps DEF RootEnsuring
<1>10. RootRepairing'
  <2>1. SUFFICES ASSUME failed' # TRUE, ~meddled, fixable
                 PROVE  RootRepairing'
    BY <1>1, <1>2 DEF RootRepairing
  <2>2. failed' = failed /\ ~failed /\ told' = told /\ file'.owner = "root"
        /\ (step' = "fback" => ~file'.grant)
    BY <1>2, <2>1
  <2>3. /\ ours /\ ~told /\ level[0].mode # "open" /\ \A l \in L!DIGS : level[l].kind # "link"
        /\ level[2].kind = "dir" /\ ~L!Open(2) /\ file.there
    BY <1>1, <2>1, <2>2 DEF RootRepairing
  <2> QED  BY <1>1, <2>2, <2>3, RootKeeps DEF RootRepairing
<1> QED  BY <1>3, <1>4, <1>5, <1>6, <1>7, <1>8, <1>9, <1>10

LEMMA RootAdopt ==
  ASSUME RootInvariant, L!AdoptOwner \/ L!AdoptReset \/ L!AdoptBack
  PROVE  RootInvariant'
<1>1. /\ L!Same /\ step \in {"fowner", "freset", "fback"} /\ os = "windows"
      /\ UNCHANGED <<level, answered, placed, ensured, result>>
  BY DEF L!AdoptOwner, L!AdoptReset, L!AdoptBack, L!On, RootInvariant, RootWhere
<1>2. file \in [there : BOOLEAN, owner : L!OWNERS, grant : BOOLEAN]
  BY DEF RootInvariant, L!TypeOK
<1>3. ~failed /\ ~meddled /\ fixable =>
        /\ file.there
        /\ step \in {"freset", "fback"} => file.owner = "root"
        /\ step = "fback" => ~file.grant
  BY <1>1 DEF RootInvariant, RootRepairing
<1>4. ASSUME L!Fault, L!AdoptErr
      PROVE  RootInvariant'
  <2>1. /\ step' = "read" /\ at' = 0 /\ purpose' = "verdict" /\ astray' = FALSE /\ told' = TRUE
        /\ file' = file /\ failed' = TRUE
    BY <1>1, <1>4 DEF L!AdoptErr, L!Goes, L!Verifying, L!Fault
  <2> QED  BY <1>1, <1>2, <1>4, <2>1, RootAdopts
<1>5. ASSUME L!Fault \/ L!NoFault, NEW v \in [there : BOOLEAN, owner : L!OWNERS, grant : BOOLEAN],
             v.there = file.there, NEW next \in {"freset", "fback"}, L!Adopt(v, next),
             failed' = TRUE \/ (~failed /\ ~meddled /\ fixable =>
               v.owner = "root" /\ (next = "fback" => ~v.grant))
      PROVE  RootInvariant'
  <2>1. /\ step' = next /\ UNCHANGED <<at, purpose, astray, told>>
        /\ file' = IF file.there THEN v ELSE file
    BY <1>5 DEF L!Adopt, L!Then
  <2>2. /\ file' \in [there : BOOLEAN, owner : L!OWNERS, grant : BOOLEAN]
        /\ file'.there = file.there
        /\ ~failed /\ ~meddled /\ fixable => file' = v
    BY <1>2, <1>3, <1>5, <2>1
  <2> QED  BY <1>1, <1>5, <2>1, <2>2, RootAdopts
<1>6. ASSUME L!Fault, NEW next \in {"freset", "fback"}, L!Adopt(file, next)
      PROVE  RootInvariant'
  <2>1. failed' = TRUE
    BY <1>6 DEF L!Fault
  <2> QED  BY <1>2, <1>5, <1>6, <2>1
<1>7. CASE L!AdoptOwner
  <2> DEFINE v == [file EXCEPT !.owner = "root"]
  <2>1. /\ v \in [there : BOOLEAN, owner : L!OWNERS, grant : BOOLEAN] /\ v.there = file.there
        /\ v.owner = "root"
    BY <1>2 DEF L!OWNERS
  <2>2. L!NoFault /\ L!Adopt(v, "freset") => RootInvariant'
    <3> HIDE DEF v
    <3> QED  BY <1>5, <2>1
  <2> QED  BY <1>4, <1>6, <1>7, <2>2 DEF L!AdoptOwner
<1>8. CASE L!AdoptReset
  <2> DEFINE g == (file.owner = "other")
             v == [file EXCEPT !.grant = g]
  <2>1. g \in BOOLEAN
    OBVIOUS
  <2>2. /\ v \in [there : BOOLEAN, owner : L!OWNERS, grant : BOOLEAN] /\ v.there = file.there
        /\ v.owner = file.owner /\ v.grant = g
    <3> HIDE DEF g
    <3> QED  BY <1>2, <2>1
  <2>3. ~failed /\ ~meddled /\ fixable => v.owner = "root" /\ ~v.grant
    <3>1. ~failed /\ ~meddled /\ fixable => file.owner = "root"
      BY <1>3, <1>8 DEF L!AdoptReset, L!On
    <3> QED  BY <2>2, <3>1
  <2>4. L!NoFault /\ L!Adopt(v, "fback") => RootInvariant'
    <3> HIDE DEF v, g
    <3> QED  BY <1>5, <2>2, <2>3
  <2> QED  BY <1>4, <1>6, <1>8, <2>4 DEF L!AdoptReset
<1>9. CASE L!AdoptBack
  <2>1. step = "fback"
    BY <1>9 DEF L!AdoptBack, L!On
  <2>2. CASE /\ L!NoFault /\ L!IsSystems(file) /\ file.there
             /\ L!Goes(L!Verifying, 0, "verdict") /\ UNCHANGED <<file, told>>
    <3>1. /\ step' = "read" /\ at' = 0 /\ purpose' = "verdict" /\ astray' = FALSE /\ told' = told
          /\ file' = file /\ file.owner = "root"
      BY <1>1, <2>2 DEF L!Goes, L!Verifying, L!IsSystems
    <3> QED  BY <1>1, <1>2, <2>2, <3>1, RootAdopts
  <2>3. CASE L!NoFault /\ ~(L!IsSystems(file) /\ file.there) /\ L!AdoptErr
    <3>1. /\ step' = "read" /\ at' = 0 /\ purpose' = "verdict" /\ astray' = FALSE /\ told' = TRUE
          /\ file' = file
      BY <1>1, <2>3 DEF L!AdoptErr, L!Goes, L!Verifying
    <3>2. ~(~failed /\ ~meddled /\ fixable)
      BY <1>3, <2>1, <2>3 DEF L!IsSystems
    <3> QED  BY <1>1, <1>2, <2>3, <3>1, <3>2, RootAdopts
  <2> QED  BY <1>4, <1>9, <2>2, <2>3 DEF L!AdoptBack
<1> QED  BY <1>7, <1>8, <1>9

LEMMA RootCrash ==
  ASSUME RootInvariant, L!Crash
  PROVE  RootInvariant'
<1> USE DEF RootInvariant
<1>1. /\ L!Fault /\ step' = "idle" /\ at' = 0 /\ purpose' = "verdict" /\ astray' = FALSE
      /\ result' = "none" /\ failed' = TRUE
      /\ UNCHANGED <<level, file, answered, placed, ensured, told>>
      /\ UNCHANGED <<os, elevated, ours, meddled, fixable, runs, others>>
  BY DEF L!Crash, L!Same, L!Goes, L!Fault
<1>2. faults' \in 0..Faults
  BY <1>1, RootFaults
<1>3. L!TypeOK'
  <2>1. {astray, answered, placed, ensured, told, failed, meddled, fixable}' \subseteq BOOLEAN
    BY <1>1, RootFlags
  <2>2. at' \in L!LEVELS
    BY <1>1 DEF L!LEVELS
  <2> QED  BY <1>1, <1>2, <2>1, <2>2 DEF L!TypeOK
<1>4. L!RootHolds'
  BY <1>1, RootKeeps DEF L!RootHolds, L!ReadyMeansClosed, L!RunsFromClosed, L!EnsuredHolds,
     L!AdoptedOrTold, L!RunRepairs
<1>5. RootShape' /\ RootWhere'
  BY <1>1 DEF RootShape, RootWhere
<1>6. RootHeld' /\ RootAdopting' /\ RootRepairing'
  BY <1>1 DEF RootHeld, RootAdopting, RootRepairing
<1>7. RootEnsuring'
  BY <1>1, RootKeeps DEF RootEnsuring
<1> QED  BY <1>3, <1>4, <1>5, <1>6, <1>7

(* Another account acts: only on a chain that is open to it.               *)
LEMMA RootMeddles ==
  ASSUME RootInvariant, L!Meddle, level' \in [L!LEVELS -> L!Level], level'[0] = level[0],
         level'[1].kind = "absent" => level'[2].kind = "absent",
         os = "windows" => /\ \A l \in L!DIGS : level'[l].kind # "link"
                           /\ file'.there => level'[2].kind = "dir",
         file' \in {file, L!NoFile}, astray' \in BOOLEAN, os = "unix" => ~L!Closed, RootHeld'
  PROVE  RootInvariant'
<1> USE DEF RootInvariant
<1>1. /\ meddled' = TRUE /\ others' \in 0..Others
      /\ UNCHANGED <<os, elevated, ours, step, at, purpose, answered, placed, ensured, told,
                     result, failed, fixable, runs, faults>>
  BY BoundsAssumption DEF L!Meddle, L!TypeOK
<1>2. /\ file' \in [there : BOOLEAN, owner : L!OWNERS, grant : BOOLEAN]
      /\ file' = file \/ ~file'.there
  <2>1. CASE file' = file
    BY <2>1 DEF L!TypeOK
  <2>2. CASE file' = L!NoFile
    BY <2>2 DEF L!NoFile, L!OWNERS
  <2> QED  BY <2>1, <2>2
<1>3. L!TypeOK'
  <2>1. {astray, answered, placed, ensured, told, failed, meddled, fixable}' \subseteq BOOLEAN
    BY <1>1, RootFlags
  <2> QED  BY <1>1, <1>2, <2>1 DEF L!TypeOK
<1>4. L!RootHolds'
  BY <1>1, <1>2 DEF L!RootHolds, L!ReadyMeansClosed, L!RunsFromClosed, L!EnsuredHolds,
     L!AdoptedOrTold, L!RunRepairs
<1>5. RootShape' /\ RootWhere'
  BY <1>1 DEF RootShape, RootWhere
<1>6. RootEnsuring' /\ RootRepairing'
  BY <1>1 DEF RootEnsuring, RootRepairing
<1>7. RootAdopting'
  BY <1>1, <1>2 DEF RootAdopting, L!IsSystems
<1> QED  BY <1>3, <1>4, <1>5, <1>6, <1>7

LEMMA RootOtherModes ==
  ASSUME RootInvariant, L!OtherModes
  PROVE  RootInvariant'
<1> USE DEF RootInvariant
<1>1. PICK l \in L!LEVELS, m \in L!MODES :
        /\ level[l].kind = "dir" /\ level[l].owner = "other"
        /\ level' = [level EXCEPT ![l].mode = m]
  BY DEF L!OtherModes
<1>2. L!Meddle /\ file' = file /\ astray' = astray /\ step' = step /\ at' = at /\ os' = os
  BY DEF L!OtherModes, L!Meddle
<1>3. /\ level \in [L!LEVELS -> L!Level]
      /\ 0 \in L!LEVELS /\ 1 \in L!LEVELS /\ 2 \in L!LEVELS /\ L!DIGS \subseteq L!LEVELS
      /\ l # 0
  BY <1>1 DEF L!TypeOK, L!LEVELS, L!DIGS, RootShape
<1> DEFINE v == [level[l] EXCEPT !.mode = m]
<1>4. v \in L!Level /\ v.kind = level[l].kind
  BY <1>3 DEF L!Level
<1> HIDE DEF v
<1>5. level' = [level EXCEPT ![l] = v]
  BY <1>1 DEF v
<1>6. /\ level' \in [L!LEVELS -> L!Level] /\ level'[0] = level[0]
      /\ \A k \in L!LEVELS : level'[k].kind = level[k].kind
      /\ \A k \in L!LEVELS : k # l => level'[k] = level[k]
  BY <1>3, <1>4, <1>5
<1>7. os = "unix" => ~L!Closed
  BY <1>1, RootStays
<1>8. ASSUME step = "walk", NEW k \in 0..(at - 1)
      PROVE  level'[k].kind = "dir" /\ ~L!Loose(k)'
  <2>1. level[k].kind = "dir" /\ ~L!Loose(k) /\ os = "unix" /\ k \in L!LEVELS
    BY <1>8 DEF RootHeld, RootWhere, L!TypeOK, L!LEVELS
  <2>2. k # l
    BY <1>1, <2>1 DEF L!Loose
  <2>3. level'[k] = level[k]
    BY <1>6, <2>1, <2>2
  <2> QED  BY <1>2, <2>1, <2>3 DEF L!Loose, L!Open
<1>9. RootHeld'
  <2>1. step \in {"mkdir", "open", "chmod", "chown"} => at \in L!LEVELS /\ at - 1 \in L!LEVELS
    BY DEF RootWhere, L!DIGS, L!LEVELS
  <2> QED  BY <1>2, <1>6, <1>8, <2>1 DEF RootHeld
<1>10. /\ level'[1].kind = "absent" => level'[2].kind = "absent"
       /\ os = "windows" => /\ \A k \in L!DIGS : level'[k].kind # "link"
                            /\ file'.there => level'[2].kind = "dir"
  BY <1>2, <1>3, <1>6 DEF RootShape
<1>11. astray' \in BOOLEAN
  BY <1>2, RootFlags
<1> QED  BY <1>2, <1>6, <1>7, <1>9, <1>10, <1>11, RootMeddles

LEMMA RootOtherReplaces ==
  ASSUME RootInvariant, L!OtherReplaces
  PROVE  RootInvariant'
<1> USE DEF RootInvariant
<1>1. PICK l \in L!DIGS :
        /\ L!Loose(l - 1)
        /\ \E v \in {L!Absent, L!Dir("other", "closed")} \cup (IF os = "unix" THEN {L!Link} ELSE {}) :
             level' = [k \in L!LEVELS |-> IF k < l THEN level[k] ELSE IF k = l THEN v ELSE L!Absent]
        /\ file' = L!NoFile
        /\ astray' = (astray \/ l \in L!Held)
  BY DEF L!OtherReplaces
<1>2. PICK v \in {L!Absent, L!Dir("other", "closed")} \cup (IF os = "unix" THEN {L!Link} ELSE {}) :
        level' = [k \in L!LEVELS |-> IF k < l THEN level[k] ELSE IF k = l THEN v ELSE L!Absent]
  BY <1>1
<1>3. /\ v \in L!Level /\ L!Absent \in L!Level /\ L!Absent.kind = "absent"
      /\ os = "windows" => v.kind # "link"
  BY RootDirs DEF L!OWNERS, L!MODES
<1>4. L!Meddle /\ step' = step /\ at' = at /\ os' = os
  BY DEF L!OtherReplaces, L!Meddle
<1>5. /\ level \in [L!LEVELS -> L!Level] /\ l \in L!LEVELS /\ l - 1 \in L!LEVELS
      /\ l = 1 \/ l = 2
      /\ L!LEVELS = {0, 1, 2} /\ L!DIGS = {1, 2}
  BY DEF L!TypeOK, L!LEVELS, L!DIGS
<1>6. /\ level' \in [L!LEVELS -> L!Level] /\ level'[0] = level[0] /\ level'[l] = v
      /\ \A k \in L!LEVELS : k < l => level'[k] = level[k]
      /\ \A k \in L!LEVELS : k > l => level'[k] = L!Absent
  BY <1>2, <1>3, <1>5
<1>7. level[l - 1].kind = "dir" /\ level'[l - 1] = level[l - 1]
  BY <1>1, <1>5, <1>6 DEF L!Loose
<1>8. level'[1].kind = "absent" => level'[2].kind = "absent"
  BY <1>3, <1>5, <1>6, <1>7
<1>9. os = "windows" => \A k \in L!DIGS : level'[k].kind # "link"
  BY <1>3, <1>5, <1>6 DEF RootShape
<1>10. ~file'.there
  BY <1>1 DEF L!NoFile
<1>11. astray' \in BOOLEAN /\ (astray' => astray \/ l \in L!Held)
                           /\ (~astray' => ~astray /\ l \notin L!Held)
  <2>1. (astray \/ l \in L!Held) \in BOOLEAN
    BY RootFlags
  <2> QED  BY <1>1, <2>1
<1>12. os = "unix" => ~L!Closed
  BY <1>1, <1>5, RootStays
<1>13. ASSUME step = "walk"
       PROVE  ~astray' /\ \A k \in 0..(at - 1) : level'[k].kind = "dir" /\ ~L!Loose(k)'
  <2>1. ~astray /\ os = "unix" /\ at \in 0..2
        /\ \A k \in 0..(at - 1) : level[k].kind = "dir" /\ ~L!Loose(k)
    BY <1>13 DEF RootHeld, RootWhere, L!TypeOK, L!LEVELS
  <2>2. l - 1 \notin 0..(at - 1)
    BY <1>1, <2>1
  <2>3. l > at
    BY <1>5, <2>1, <2>2
  <2>4. l \notin L!Held
    BY <1>13, <2>1, <2>3 DEF L!Held
  <2>5. \A k \in 0..(at - 1) : level'[k] = level[k]
    BY <1>5, <1>6, <2>1, <2>3
  <2>6. \A k \in 0..(at - 1) : ~L!Loose(k)'
    BY <1>4, <2>1, <2>5 DEF L!Loose, L!Open
  <2> QED  BY <1>11, <2>1, <2>4, <2>5, <2>6
<1>14. ASSUME step \in {"mkdir", "open", "chmod", "chown"}, ~astray'
       PROVE  /\ level'[at - 1].kind = "dir"
              /\ step \in {"chmod", "chown"} => level'[at].kind = "dir"
  <2>1. /\ at = 1 \/ at = 2
        /\ level[at - 1].kind = "dir"
        /\ step \in {"chmod", "chown"} => level[at].kind = "dir"
        /\ l \notin L!Held
    BY <1>5, <1>11, <1>14 DEF RootHeld, RootWhere
  <2>2. l > at - 1 /\ (step \in {"chmod", "chown"} => l > at)
    BY <1>5, <1>14, <2>1 DEF L!Held
  <2> QED  BY <1>5, <1>6, <2>1, <2>2
<1>15. RootHeld'
  BY <1>4, <1>13, <1>14 DEF RootHeld
<1> QED  BY <1>1, <1>4, <1>6, <1>8, <1>9, <1>10, <1>11, <1>12, <1>15, RootMeddles

LEMMA RootStep ==
  ASSUME RootInvariant, L!Next \/ UNCHANGED L!vars
  PROVE  RootInvariant'
<1>1. CASE UNCHANGED L!vars
  <2>1. UNCHANGED <<os, elevated, ours, level, file, step, at, purpose, astray, answered, placed,
                    ensured, told, result, failed, meddled, fixable, runs, faults, others>>
    BY <1>1 DEF L!vars
  <2>2. L!TypeOK'
    BY <2>1 DEF RootInvariant, L!TypeOK
  <2>3. L!RootHolds'
    BY <2>1, RootKeeps DEF RootInvariant, L!RootHolds, L!ReadyMeansClosed, L!RunsFromClosed,
       L!EnsuredHolds, L!AdoptedOrTold, L!RunRepairs
  <2>4. RootShape' /\ RootWhere' /\ RootAdopting'
    BY <2>1 DEF RootInvariant, RootShape, RootWhere, RootAdopting
  <2>5. RootHeld' /\ RootEnsuring' /\ RootRepairing'
    BY <2>1, RootKeeps DEF RootInvariant, RootHeld, RootEnsuring, RootRepairing
  <2> QED  BY <2>2, <2>3, <2>4, <2>5 DEF RootInvariant
<1> QED  BY <1>1, RootBegin, RootAnchor, RootMkdir, RootOpenLevel, RootChmod, RootChown,
            RootMakeDirs, RootSetOwner, RootReadBack, RootWalk, RootReadList, RootExists,
            RootRunProgram, RootDecide, RootWrite, RootAdopt, RootCrash, RootOtherModes,
            RootOtherReplaces DEF L!Next

(* An elevated run that is ready, or starts the program that is there, has *)
(* a chain of folders no other account can change; the levels are the      *)
(* system's once ensured, a program not adopted is told, and a run nobody  *)
(* disturbs repairs; whatever other accounts do in between (rootchain.rs,  *)
(* secure.rs).                                                             *)
THEOREM RootIsClosed == Spec => []RootHolds
<1>1. Init => (which = "root" => RootInvariant)
  BY RootInit DEF Init
<1>2. (which = "root" => RootInvariant) /\ [Next]_vars => (which = "root" => RootInvariant)'
  BY RootStep DEF Next, vars, L!vars
<1>3. (which = "root" => RootInvariant) => RootHolds
  BY DEF RootInvariant, RootHolds
<1> QED  BY <1>1, <1>2, <1>3, PTL DEF Spec

---------------------------------------------------------------------------
(* Sequences of directories.  The least number of a set, for induction     *)
(* without an operator as a parameter: it is on the set of those for which *)
(* a claim does not hold.                                                  *)
LEMMA NatMin ==
  ASSUME NEW T \in SUBSET Nat, T # {}
  PROVE  \E n \in T : \A m \in T : n <= m
<1> DEFINE less == OpToRel(<, Nat)
<1>1. \A n, m \in Nat : m < n => <<m, n>> \in less
  BY Zenon DEF OpToRel
<1>2. IsWellFoundedOn(less, Nat)
  BY NatLessThanWellFounded, Zenon
<1> HIDE DEF less
<1>3. \E n \in T : \A m \in T : <<m, n>> \notin less
  BY <1>2, WFMin, Zenon
<1>4. \E n \in T : \A m \in T : ~(m < n)
  BY <1>1, <1>3, Zenon
<1> QED  BY <1>4

(* What holds of the empty sequence and of one that is a step longer holds *)
(* of all.                                                                 *)
LEMMA SeqInduction ==
  ASSUME NEW S, NEW T \in SUBSET Seq(S), <<>> \in T,
         \A p \in T, x \in S : Append(p, x) \in T
  PROVE  T = Seq(S)
<1> SUFFICES ASSUME Seq(S) \ T # {}
             PROVE  FALSE
  OBVIOUS
<1> DEFINE N == {Len(p) : p \in Seq(S) \ T}
<1>1. N \in SUBSET Nat /\ N # {}
  <2>1. \A p \in Seq(S) : Len(p) \in Nat
    BY LenProperties
  <2> QED  BY <2>1
<1>2. PICK n \in N : \A m \in N : n <= m
  BY <1>1, NatMin
<1>3. PICK p \in Seq(S) \ T : Len(p) = n
  BY <1>2
<1>4. p # <<>>
  BY <1>3
<1>5. PICK q \in Seq(S), x \in S : p = Append(q, x)
  BY <1>3, <1>4, SequenceEmptyOrAppend
<1>6. Len(q) \in Nat /\ Len(p) = Len(q) + 1
  BY <1>5, AppendProperties, LenProperties
<1>7. q \in T
  <2>1. q \notin T => n <= Len(q)
    BY <1>2, <1>5
  <2> QED  BY <1>3, <1>6, <2>1
<1> QED  BY <1>3, <1>5, <1>7

(* The function Without goes by, up to n.                                  *)
KeptTo(f, p, ds, n) ==
  f = [i \in 0..n |-> IF i = 0 THEN <<>>
                      ELSE IF p[i] \in ds THEN f[i - 1] ELSE Append(f[i - 1], p[i])]

LEMMA KeptExists ==
  ASSUME NEW p, NEW ds, NEW n \in Nat
  PROVE  \E f : KeptTo(f, p, ds, n)
<1> DEFINE T == {m \in Nat : ~ \E f : KeptTo(f, p, ds, m)}
<1> SUFFICES ASSUME T # {}
             PROVE  FALSE
  OBVIOUS
<1>1. PICK m \in T : \A k \in T : m <= k
  BY NatMin
<1>2. KeptTo([i \in 0..0 |-> <<>>], p, ds, 0)
  BY DEF KeptTo
<1>3. m # 0 /\ m \in Nat /\ m - 1 \in Nat /\ m - 1 \notin T
  BY <1>1, <1>2
<1>4. PICK f : KeptTo(f, p, ds, m - 1)
  BY <1>3
<1> DEFINE g == [i \in 0..m |-> IF i # m THEN f[i]
                 ELSE IF p[i] \in ds THEN f[i - 1] ELSE Append(f[i - 1], p[i])]
<1>5. \A i \in 0..(m - 1) : g[i] = f[i]
  BY <1>3
<1>6. ASSUME NEW i \in 0..m
      PROVE  g[i] = IF i = 0 THEN <<>>
                    ELSE IF p[i] \in ds THEN g[i - 1] ELSE Append(g[i - 1], p[i])
  <2>1. CASE i = m
    BY <1>3, <1>5, <2>1
  <2>2. CASE i # m
    <3>1. i \in 0..(m - 1) /\ (i # 0 => i - 1 \in 0..(m - 1))
      BY <1>3, <2>2
    <3>2. f[i] = IF i = 0 THEN <<>>
                 ELSE IF p[i] \in ds THEN f[i - 1] ELSE Append(f[i - 1], p[i])
      BY <1>4, <3>1 DEF KeptTo
    <3> HIDE DEF g
    <3> QED  BY <1>5, <3>1, <3>2
  <2> QED  BY <2>1, <2>2
<1> DEFINE h == [i \in 0..m |-> IF i = 0 THEN <<>>
                 ELSE IF p[i] \in ds THEN g[i - 1] ELSE Append(g[i - 1], p[i])]
<1>7. g = h
  <2>1. \A i \in 0..m : g[i] = h[i]
    BY <1>6
  <2>2. g = [i \in 0..m |-> g[i]] /\ h = [i \in 0..m |-> h[i]]
    OBVIOUS
  <2> HIDE DEF g, h
  <2> QED  BY <2>1, <2>2
<1>8. KeptTo(g, p, ds, m)
  BY <1>7 DEF KeptTo
<1> QED  BY <1>1, <1>8

LEMMA KeptStep ==
  ASSUME NEW p, NEW ds, NEW n \in Nat, NEW f, KeptTo(f, p, ds, n), NEW i \in 0..n
  PROVE  f[i] = IF i = 0 THEN <<>>
                ELSE IF p[i] \in ds THEN f[i - 1] ELSE Append(f[i - 1], p[i])
BY DEF KeptTo

LEMMA KeptAgree ==
  ASSUME NEW p, NEW q, NEW ds, NEW n \in Nat, NEW m \in Nat, NEW f, NEW g, n <= m,
         KeptTo(f, p, ds, n), KeptTo(g, q, ds, m), \A i \in 1..n : p[i] = q[i]
  PROVE  \A i \in 0..n : f[i] = g[i]
<1>1. \A i \in 0..n : f[i] = IF i = 0 THEN <<>>
                             ELSE IF p[i] \in ds THEN f[i - 1] ELSE Append(f[i - 1], p[i])
  BY DEF KeptTo
<1>2. \A i \in 0..m : g[i] = IF i = 0 THEN <<>>
                             ELSE IF q[i] \in ds THEN g[i - 1] ELSE Append(g[i - 1], q[i])
  BY DEF KeptTo
<1> DEFINE T == {i \in 0..n : f[i] # g[i]}
<1> SUFFICES ASSUME T # {}
             PROVE  FALSE
  OBVIOUS
<1> T \in SUBSET Nat
  OBVIOUS
<1>3. PICK i \in T : \A k \in T : i <= k
  BY NatMin
<1>4. i \in 0..n /\ i \in 0..m
  BY <1>3
<1>5. i # 0
  BY <1>1, <1>2, <1>3, <1>4
<1>6. i - 1 \in 0..n /\ i - 1 \notin T /\ p[i] = q[i]
  BY <1>3, <1>4, <1>5
<1> QED  BY <1>1, <1>2, <1>3, <1>4, <1>5, <1>6

LEMMA WithoutIs ==
  ASSUME NEW p, NEW ds, Len(p) \in Nat
  PROVE  \E f : KeptTo(f, p, ds, Len(p)) /\ P!Without(p, ds) = f[Len(p)]
<1> DEFINE f == CHOOSE f : KeptTo(f, p, ds, Len(p))
<1>1. KeptTo(f, p, ds, Len(p))
  BY KeptExists
<1>2. P!Without(p, ds) = f[Len(p)]
  BY DEF P!Without, KeptTo
<1> QED  BY <1>1, <1>2

(* Without, an entry at a time.                                            *)
LEMMA WithoutNone ==
  ASSUME NEW ds
  PROVE  P!Without(<<>>, ds) = <<>>
<1>1. PICK f : KeptTo(f, <<>>, ds, Len(<<>>)) /\ P!Without(<<>>, ds) = f[Len(<<>>)]
  BY WithoutIs
<1> QED  BY <1>1 DEF KeptTo

LEMMA WithoutAppend ==
  ASSUME NEW S, NEW p \in Seq(S), NEW x \in S, NEW ds
  PROVE  P!Without(Append(p, x), ds) =
           IF x \in ds THEN P!Without(p, ds) ELSE Append(P!Without(p, ds), x)
<1> DEFINE q == Append(p, x)
<1>1. /\ Len(p) \in Nat /\ Len(q) = Len(p) + 1 /\ q[Len(p) + 1] = x
      /\ \A i \in 1..Len(p) : p[i] = q[i]
  BY AppendProperties, LenProperties
<1> HIDE DEF q
<1>2. PICK f : KeptTo(f, p, ds, Len(p)) /\ P!Without(p, ds) = f[Len(p)]
  BY <1>1, WithoutIs
<1>3. PICK g : KeptTo(g, q, ds, Len(q)) /\ P!Without(q, ds) = g[Len(q)]
  BY <1>1, WithoutIs
<1>4. f[Len(p)] = g[Len(p)]
  <2>1. Len(q) \in Nat /\ Len(p) <= Len(q)
    BY <1>1
  <2>2. \A i \in 0..Len(p) : f[i] = g[i]
    <3> DEFINE n == Len(p)
               m == Len(q)
    <3>1. /\ n \in Nat /\ m \in Nat /\ n <= m /\ KeptTo(f, p, ds, n) /\ KeptTo(g, q, ds, m)
          /\ \A i \in 1..n : p[i] = q[i]
      BY <1>1, <1>2, <1>3, <2>1
    <3> HIDE DEF n, m
    <3>2. \A i \in 0..n : f[i] = g[i]
      BY <3>1, KeptAgree
    <3> QED  BY <3>2 DEF n
  <2> QED  BY <1>1, <2>2
<1>5. g[Len(q)] = IF x \in ds THEN g[Len(p)] ELSE Append(g[Len(p)], x)
  <2>1. Len(q) \in Nat /\ Len(q) \in 0..Len(q) /\ Len(q) # 0 /\ Len(q) - 1 = Len(p)
    BY <1>1
  <2>2. g[Len(q)] = IF Len(q) = 0 THEN <<>>
                    ELSE IF q[Len(q)] \in ds THEN g[Len(q) - 1]
                    ELSE Append(g[Len(q) - 1], q[Len(q)])
    BY <1>3, <2>1, KeptStep
  <2> QED  BY <1>1, <2>1, <2>2
<1> QED  BY <1>2, <1>3, <1>4, <1>5 DEF q

(* What is left out is gone, the rest is there, and twice is once.         *)
LEMMA WithoutType ==
  ASSUME NEW S, NEW ds
  PROVE  \A p \in Seq(S) : P!Without(p, ds) \in Seq(S)
<1> DEFINE T == {p \in Seq(S) : P!Without(p, ds) \in Seq(S)}
<1>1. <<>> \in T
  BY WithoutNone, EmptySeq
<1>2. ASSUME NEW p \in T, NEW x \in S
      PROVE  Append(p, x) \in T
  <2>1. P!Without(Append(p, x), ds) \in {P!Without(p, ds), Append(P!Without(p, ds), x)}
    BY WithoutAppend
  <2> QED  BY <2>1, AppendProperties
<1>3. T = Seq(S)
  BY <1>1, <1>2, SeqInduction
<1> QED  BY <1>3

LEMMA WithoutFront ==
  ASSUME NEW S, NEW ds, NEW x \in S
  PROVE  \A p \in Seq(S) : P!Without(<<x>> \o p, ds) =
           IF x \in ds THEN P!Without(p, ds) ELSE <<x>> \o P!Without(p, ds)
<1> DEFINE Front(q) == IF x \in ds THEN q ELSE <<x>> \o q
           T == {p \in Seq(S) : P!Without(<<x>> \o p, ds) = Front(P!Without(p, ds))}
<1>1. <<>> \in T
  <2>1. <<>> \in Seq(S) /\ <<x>> \o <<>> = Append(<<>>, x)
    OBVIOUS
  <2>2. P!Without(Append(<<>>, x), ds) =
          IF x \in ds THEN P!Without(<<>>, ds) ELSE Append(P!Without(<<>>, ds), x)
    BY <2>1, WithoutAppend
  <2> QED  BY <2>1, <2>2, WithoutNone
<1>2. ASSUME NEW p \in T, NEW y \in S
      PROVE  Append(p, y) \in T
  <2> DEFINE w == P!Without(p, ds)
  <2>1. w \in Seq(S)
    BY WithoutType
  <2>2. /\ <<x>> \o p \in Seq(S) /\ <<x>> \o Append(p, y) = Append(<<x>> \o p, y)
        /\ <<x>> \o Append(w, y) = Append(<<x>> \o w, y)
    BY <2>1
  <2>3. P!Without(<<x>> \o Append(p, y), ds) =
          IF y \in ds THEN Front(w) ELSE Append(Front(w), y)
    <3> DEFINE q == <<x>> \o p
    <3>1. q \in Seq(S) /\ P!Without(q, ds) = Front(w)
      BY <2>2
    <3> HIDE DEF q, Front
    <3>2. P!Without(Append(q, y), ds) =
            IF y \in ds THEN P!Without(q, ds) ELSE Append(P!Without(q, ds), y)
      BY <3>1, WithoutAppend
    <3>3. <<x>> \o Append(p, y) = Append(q, y)
      BY <2>2 DEF q
    <3> QED  BY <3>1, <3>2, <3>3
  <2>4. P!Without(Append(p, y), ds) = IF y \in ds THEN w ELSE Append(w, y)
    BY WithoutAppend
  <2>5. Append(p, y) \in Seq(S)
    BY AppendProperties
  <2> QED  BY <2>2, <2>3, <2>4, <2>5
<1> HIDE DEF T
<1>3. T = Seq(S)
  <2>1. T \in SUBSET Seq(S)
    BY DEF T
  <2> QED  BY <1>1, <1>2, <2>1, SeqInduction
<1> QED  BY <1>3 DEF T

LEMMA WithoutTwice ==
  ASSUME NEW S, NEW es, NEW ds \in SUBSET es
  PROVE  \A p \in Seq(S) : P!Without(P!Without(p, ds), es) = P!Without(p, es)
<1> DEFINE T == {p \in Seq(S) : P!Without(P!Without(p, ds), es) = P!Without(p, es)}
<1>1. <<>> \in T
  BY WithoutNone, EmptySeq
<1>2. ASSUME NEW p \in T, NEW x \in S
      PROVE  Append(p, x) \in T
  <2> DEFINE w == P!Without(p, ds)
  <2>1. w \in Seq(S) /\ Append(p, x) \in Seq(S)
    BY WithoutType, AppendProperties
  <2>2. P!Without(Append(p, x), ds) = IF x \in ds THEN w ELSE Append(w, x)
    BY WithoutAppend
  <2>3. P!Without(Append(p, x), es) =
          IF x \in es THEN P!Without(p, es) ELSE Append(P!Without(p, es), x)
    BY WithoutAppend
  <2>4. P!Without(Append(w, x), es) =
          IF x \in es THEN P!Without(w, es) ELSE Append(P!Without(w, es), x)
    BY <2>1, WithoutAppend
  <2> QED  BY <2>1, <2>2, <2>3, <2>4
<1> HIDE DEF T
<1>3. T = Seq(S)
  <2>1. T \in SUBSET Seq(S)
    BY DEF T
  <2> QED  BY <1>1, <1>2, <2>1, SeqInduction
<1> QED  BY <1>3 DEF T

LEMMA ContainsAppend ==
  ASSUME NEW S, NEW p \in Seq(S), NEW x \in S, NEW e
  PROVE  P!Contains(Append(p, x), e) <=> P!Contains(p, e) \/ x = e
<1> DEFINE q == Append(p, x)
<1>1. /\ Len(p) \in Nat /\ Len(q) = Len(p) + 1 /\ q[Len(p) + 1] = x
      /\ \A i \in 1..Len(p) : q[i] = p[i]
  BY AppendProperties, LenProperties
<1> HIDE DEF q
<1>2. ASSUME P!Contains(q, e)
      PROVE  P!Contains(p, e) \/ x = e
  BY <1>1, <1>2 DEF P!Contains
<1>3. ASSUME P!Contains(p, e)
      PROVE  P!Contains(q, e)
  BY <1>1, <1>3 DEF P!Contains
<1>4. ASSUME x = e
      PROVE  P!Contains(q, e)
  <2>1. Len(q) \in 1..Len(q) /\ q[Len(q)] = e
    BY <1>1, <1>4
  <2> QED  BY <2>1 DEF P!Contains
<1> QED  BY <1>2, <1>3, <1>4 DEF q

LEMMA WithoutContains ==
  ASSUME NEW S, NEW ds, NEW e
  PROVE  \A p \in Seq(S) :
           P!Contains(P!Without(p, ds), e) <=> e \notin ds /\ P!Contains(p, e)
<1> DEFINE T == {p \in Seq(S) :
                   P!Contains(P!Without(p, ds), e) <=> e \notin ds /\ P!Contains(p, e)}
<1>1. <<>> \in T
  <2>1. <<>> \in Seq(S) /\ ~P!Contains(<<>>, e)
    BY EmptySeq DEF P!Contains
  <2> QED  BY <2>1, WithoutNone
<1>2. ASSUME NEW p \in T, NEW x \in S
      PROVE  Append(p, x) \in T
  <2> DEFINE w == P!Without(p, ds)
  <2>1. w \in Seq(S) /\ Append(p, x) \in Seq(S)
    BY WithoutType, AppendProperties
  <2>2. P!Without(Append(p, x), ds) = IF x \in ds THEN w ELSE Append(w, x)
    BY WithoutAppend
  <2>3. P!Contains(Append(p, x), e) <=> P!Contains(p, e) \/ x = e
    BY ContainsAppend
  <2>4. P!Contains(Append(w, x), e) <=> P!Contains(w, e) \/ x = e
    BY <2>1, ContainsAppend
  <2> QED  BY <2>1, <2>2, <2>3, <2>4
<1> HIDE DEF T
<1>3. T = Seq(S)
  <2>1. T \in SUBSET Seq(S)
    BY DEF T
  <2> QED  BY <1>1, <1>2, <2>1, SeqInduction
<1> QED  BY <1>3 DEF T

(* What has no entry to take out stays as it is.                           *)
LEMMA WithoutAbsent ==
  ASSUME NEW S, NEW d
  PROVE  \A p \in Seq(S) : ~P!Contains(p, d) => P!Without(p, {d}) = p
<1> DEFINE T == {p \in Seq(S) : ~P!Contains(p, d) => P!Without(p, {d}) = p}
<1>1. <<>> \in T
  BY WithoutNone, EmptySeq
<1>2. ASSUME NEW p \in T, NEW x \in S
      PROVE  Append(p, x) \in T
  <2>1. Append(p, x) \in Seq(S)
    BY AppendProperties
  <2>2. P!Without(Append(p, x), {d}) =
          IF x \in {d} THEN P!Without(p, {d}) ELSE Append(P!Without(p, {d}), x)
    BY WithoutAppend
  <2>3. P!Contains(Append(p, x), d) <=> P!Contains(p, d) \/ x = d
    BY ContainsAppend
  <2> QED  BY <2>1, <2>2, <2>3
<1> HIDE DEF T
<1>3. T = Seq(S)
  <2>1. T \in SUBSET Seq(S)
    BY DEF T
  <2> QED  BY <1>1, <1>2, <2>1, SeqInduction
<1> QED  BY <1>3 DEF T

(* Of a PATH of any length: adding a directory again, or removing it       *)
(* again, changes nothing; what is removed is gone, every other entry is   *)
(* as it was; and a removal undoes the addition that made an entry         *)
(* (path_append, path_remove).                                             *)
THEOREM PathEditUndone ==
  ASSUME NEW S, NEW p \in Seq(S), NEW d \in S
  PROVE  /\ P!PathAppend(P!PathAppend(p, d), d) = P!PathAppend(p, d)
         /\ P!PathRemove(P!PathRemove(p, d), d) = P!PathRemove(p, d)
         /\ \A e : P!Contains(P!PathRemove(p, d), e) <=> e # d /\ P!Contains(p, e)
         /\ ~P!Contains(p, d) => P!PathRemove(P!PathAppend(p, d), d) = p
<1>1. P!PathAppend(P!PathAppend(p, d), d) = P!PathAppend(p, d)
  BY ContainsAppend DEF P!PathAppend
<1>2. P!PathRemove(P!PathRemove(p, d), d) = P!PathRemove(p, d)
  BY WithoutTwice DEF P!PathRemove
<1>3. \A e : P!Contains(P!PathRemove(p, d), e) <=> e # d /\ P!Contains(p, e)
  BY WithoutContains DEF P!PathRemove
<1>4. ASSUME ~P!Contains(p, d)
      PROVE  P!PathRemove(P!PathAppend(p, d), d) = p
  <2>1. P!Without(Append(p, d), {d}) = P!Without(p, {d})
    BY WithoutAppend
  <2>2. P!Without(p, {d}) = p
    BY <1>4, WithoutAbsent
  <2> QED  BY <1>4, <2>1, <2>2 DEF P!PathAppend, P!PathRemove
<1> QED  BY <1>1, <1>2, <1>3, <1>4

(* Who is in one of two sequences is in both together.                    *)
LEMMA ContainsConcat ==
  ASSUME NEW S, NEW p \in Seq(S), NEW q \in Seq(S), NEW e
  PROVE  P!Contains(p \o q, e) <=> P!Contains(p, e) \/ P!Contains(q, e)
<1> DEFINE r == p \o q
<1>1. /\ Len(p) \in Nat /\ Len(q) \in Nat /\ Len(r) = Len(p) + Len(q)
      /\ \A i \in 1..Len(r) : r[i] = IF i <= Len(p) THEN p[i] ELSE q[i - Len(p)]
  BY ConcatProperties, LenProperties
<1> HIDE DEF r
<1>2. ASSUME P!Contains(r, e)
      PROVE  P!Contains(p, e) \/ P!Contains(q, e)
  <2>1. PICK i \in 1..Len(r) : r[i] = e
    BY <1>2 DEF P!Contains
  <2>2. CASE i <= Len(p)
    BY <1>1, <2>1, <2>2 DEF P!Contains
  <2>3. CASE ~(i <= Len(p))
    <3>1. i - Len(p) \in 1..Len(q) /\ q[i - Len(p)] = e
      BY <1>1, <2>1, <2>3
    <3> QED  BY <3>1 DEF P!Contains
  <2> QED  BY <2>2, <2>3
<1>3. ASSUME P!Contains(p, e)
      PROVE  P!Contains(r, e)
  BY <1>1, <1>3 DEF P!Contains
<1>4. ASSUME P!Contains(q, e)
      PROVE  P!Contains(r, e)
  <2>1. PICK i \in 1..Len(q) : q[i] = e
    BY <1>4 DEF P!Contains
  <2>2. i + Len(p) \in 1..Len(r) /\ ~(i + Len(p) <= Len(p)) /\ (i + Len(p)) - Len(p) = i
    BY <1>1, <2>1
  <2>3. r[i + Len(p)] = q[i]
    BY <1>1, <2>2
  <2> QED  BY <2>1, <2>2, <2>3 DEF P!Contains
<1> QED  BY <1>2, <1>3, <1>4 DEF r

(* A directory put in front of the others, or behind, or there already.    *)
LEMMA AppendedPath ==
  ASSUME NEW S, NEW p \in Seq(S), NEW d \in S
  PROVE  /\ P!PathAppend(p, d) \in Seq(S)
         /\ P!Contains(P!PathAppend(p, d), d)
         /\ \A ds : d \in ds => P!Without(P!PathAppend(p, d), ds) = P!Without(p, ds)
<1>1. CASE P!Contains(p, d)
  BY <1>1 DEF P!PathAppend
<1>2. CASE ~P!Contains(p, d)
  <2>1. P!PathAppend(p, d) = Append(p, d)
    BY <1>2 DEF P!PathAppend
  <2> QED  BY <2>1, ContainsAppend, WithoutAppend, AppendProperties
<1> QED  BY <1>1, <1>2

---------------------------------------------------------------------------
(* PathWiring.  What a run cannot change of the system it runs on, and     *)
(* where its steps can be.                                                 *)
PathShape ==
  /\ os = "windows" =>
       elevated /\ base = <<>> /\ fragment = P!Fragment("none") /\ files["profile"] = "without"
  /\ os # "windows" => path = [s \in P!Scopes |-> <<>>] /\ odd = {} /\ old = {}
  /\ fragment.dir = "root" => fragment.at = "prepend"
  /\ pc \in {"wiring", "gather", "remove", "drop", "dropping"} => os = "windows"
  /\ pc # "idle" => (bin = "home" <=> ~elevated)
  /\ pc = "wiring" => scope = "user"
  /\ pc = "remove" => scope = "machine"

(* What has been read holds what others have, until they change it.        *)
PathRead ==
  /\ odd \subseteq lost
  /\ pc \in {"wiring", "dropping"} /\ scope \notin lost => P!Theirs(seen) = wanted[scope]
  /\ pc \in {"wiring", "dropping"} /\ ~failed => seen = P!Text(scope)
  /\ pc = "dropping" => P!Contains(seen, "old")

(* The directory is on PATH once it is wired,                              *)
PathWired ==
  ~failed /\ pc \in {"link", "gather", "remove", "drop", "dropping", "verify"} =>
    IF os = "windows" THEN "user" \notin odd /\ P!Contains(path["user"], bin)
    ELSE IF elevated THEN P!Contains(P!LoginPath, P!ReachableDir)
    ELSE files["profile"] \in {"mention", "line"}

(* and it leads to the copy installed.                                     *)
PathLinked ==
  /\ pc \in {"gather", "remove", "drop", "dropping", "verify"} => bin \in placed
  /\ ~failed /\ pc = "verify" /\ os # "windows" =>
       IF verdict THEN bin = "root" => link = "root" ELSE link # "root"

(* A scope that has been done with has no entry of the superseded root.    *)
PathCleared(s) == s \in odd \/ ~P!Contains(path[s], "old")

PathDropped ==
  ~failed /\ os = "windows" =>
    /\ pc \in {"drop", "dropping"} /\ scope = "user" => PathCleared("machine")
    /\ pc = "verify" => PathCleared("machine") /\ PathCleared("user")

(* What the decision about the superseded root was taken on.               *)
PathDecided ==
  /\ current # {} => "root" \in placed
  /\ pc = "remove" => raced \/ (uses # "registered" /\ old \subseteq current)

PathInvariant ==
  /\ P!TypeOK /\ P!EntriesKept /\ PathShape /\ PathRead /\ PathWired /\ PathLinked
  /\ PathDropped /\ PathDecided

---------------------------------------------------------------------------
LEMMA PathTypes ==
  ASSUME P!TypeOK
  PROVE  /\ path["machine"] \in Seq(P!Dirs) /\ path["user"] \in Seq(P!Dirs)
         /\ base \in Seq(P!Dirs) /\ seen \in Seq(P!Dirs) /\ scope \in P!Scopes
         /\ P!Scopes = {"machine", "user"} /\ {"machine", "user"} \subseteq P!Scopes
         /\ \A s \in P!Scopes : P!Text(s) \in Seq(P!Dirs)
         /\ {elevated, safe, foreign, verdict, failed, raced} \subseteq BOOLEAN
         /\ bin \in {"root", "custom", "home"} /\ bin \in P!Dirs
         /\ os \in {"windows", "linux", "macos"}
         /\ runs \in 0..Runs /\ edits \in 0..Edits
BY EmptySeq DEF P!TypeOK, P!Scopes, P!Text, P!Dirs

LEMMA PathStarts ==
  ASSUME P!Init
  PROVE  PathInvariant
<1>1. path \in [P!Scopes -> Seq(P!Dirs)] /\ base \in Seq(P!Dirs)
  <2>1. /\ "old" \in P!Dirs /\ "other" \in P!Dirs /\ "tools" \in P!Dirs /\ "veneer" \in P!Dirs
        /\ "root" \in P!Dirs
    BY DEF P!Dirs
  <2>2. base \in Seq(P!Dirs)
    <3>1. base \in {<<>>, <<"veneer", "other">>, <<"other">>, <<"veneer", "root", "other">>}
      BY DEF P!Init
    <3>2. /\ <<>> \in Seq(P!Dirs) /\ <<"veneer", "other">> \in Seq(P!Dirs)
          /\ <<"other">> \in Seq(P!Dirs) /\ <<"veneer", "root", "other">> \in Seq(P!Dirs)
      BY <2>1
    <3> QED  BY <3>1, <3>2
  <2>3. CASE os = "windows"
    <3>1. path = [machine |-> <<"old", "other">>, user |-> <<"tools">>]
      BY <2>3 DEF P!Init
    <3>2. /\ <<"old", "other">> \in Seq(P!Dirs) /\ <<"tools">> \in Seq(P!Dirs)
          /\ P!Scopes = {"machine", "user"}
      BY <2>1 DEF P!Scopes
    <3>3. path = [s \in {"machine", "user"} |-> IF s = "machine" THEN <<"old", "other">>
                                              ELSE <<"tools">>]
      BY <3>1
    <3> QED  BY <2>2, <3>2, <3>3
  <2>4. CASE os # "windows"
    <3>1. path = [s \in P!Scopes |-> <<>>]
      BY <2>4 DEF P!Init
    <3> QED  BY <2>2, <3>1, EmptySeq
  <2> QED  BY <2>3, <2>4
<1>2. wanted \in [P!Scopes -> Seq(P!Dirs)] /\ P!EntriesKept
  <2>1. wanted = [s \in P!Scopes |-> P!Theirs(path[s])]
    BY DEF P!Init
  <2>2. \A s \in P!Scopes : P!Theirs(path[s]) \in Seq(P!Dirs)
    BY <1>1, WithoutType DEF P!Theirs
  <2> QED  BY <2>1, <2>2 DEF P!EntriesKept
<1>3. P!TypeOK
  <2>1. /\ fragment \in [dir : {"none", "torn", "root", "custom", "veneer"}, at : {"prepend", "append"}]
        /\ files \in [{"rc", "profile"} -> {"absent", "without", "mention", "line"}]
        /\ closed \subseteq P!Dirs /\ old \subseteq {"dign", "data"}
    BY DEF P!Init, P!Fragment, P!Dirs
  <2>2. seen \in Seq(P!Dirs) /\ scope \in P!Scopes /\ elevated \in BOOLEAN
    BY EmptySeq DEF P!Init, P!Scopes
  <2>3. runs \in 0..Runs /\ edits \in 0..Edits
    BY BoundsAssumption DEF P!Init
  <2>4. /\ os \in {"windows", "linux", "macos"} /\ safe \in BOOLEAN /\ link = "none" /\ placed = {}
        /\ foreign = FALSE /\ odd = {} /\ uses = "none" /\ pc = "idle" /\ bin = "root"
        /\ verdict = TRUE /\ wired = "none" /\ current = {} /\ failed = FALSE /\ lost = {}
        /\ raced = FALSE
    BY DEF P!Init
  <2> QED  BY <1>1, <1>2, <2>1, <2>2, <2>3, <2>4 DEF P!TypeOK
<1>4. PathShape
  <2>1. CASE os = "windows"
    <3>1. base \in {<<>>} /\ elevated \in {TRUE} /\ fragment = P!Fragment("none")
          /\ files["profile"] = "without" /\ pc = "idle"
      BY <2>1 DEF P!Init
    <3> QED  BY <2>1, <3>1 DEF PathShape, P!Fragment
  <2>2. CASE os # "windows"
    <3>1. path = [s \in P!Scopes |-> <<>>] /\ odd = {} /\ old \in {{}} /\ pc = "idle"
          /\ fragment = P!Fragment("none")
      BY <2>2 DEF P!Init
    <3> QED  BY <2>2, <3>1 DEF PathShape, P!Fragment
  <2> QED  BY <2>1, <2>2
<1>5. PathRead /\ PathWired /\ PathLinked /\ PathDropped /\ PathDecided
  BY DEF PathRead, PathWired, PathLinked, PathDropped, PathDecided, P!Init
<1> QED  BY <1>2, <1>3, <1>4, <1>5 DEF PathInvariant

LEMMA PathBegins ==
  ASSUME PathInvariant, P!Begin
  PROVE  PathInvariant'
<1> USE DEF PathInvariant
<1>1. /\ pc' = "wire" /\ failed' = FALSE /\ wired' = "none" /\ verdict' = safe
      /\ bin' \in (IF elevated THEN {"root", "custom"} ELSE {"home"})
      /\ runs' \in 0..Runs
      /\ UNCHANGED <<os, elevated, base, closed, safe, fragment, files, link, placed, foreign, path,
                     odd, old, uses, seen, scope, current, wanted, lost, raced, edits>>
  BY PathTypes, BoundsAssumption DEF P!Begin, P!host, P!unix, P!win
<1>2. P!TypeOK'
  <2>1. bin' \in {"root", "custom", "home"} /\ verdict' \in BOOLEAN /\ failed' \in BOOLEAN
    BY <1>1, PathTypes
  <2> QED  BY <1>1, <2>1 DEF P!TypeOK
<1>3. P!EntriesKept' /\ PathShape' /\ PathRead'
  BY <1>1, PathTypes DEF P!EntriesKept, P!Theirs, PathShape, PathRead
<1>4. PathWired' /\ PathLinked' /\ PathDropped' /\ PathDecided'
  BY <1>1 DEF PathWired, PathLinked, PathDropped, PathDecided
<1> QED  BY <1>2, <1>3, <1>4

LEMMA WithFragmentType ==
  ASSUME P!TypeOK
  PROVE  P!WithFragment(base) \in Seq(P!Dirs)
<1> DEFINE d == fragment.dir
<1>1. base \in Seq(P!Dirs) /\ (d \notin {"none", "torn"} => d \in P!Dirs)
  BY PathTypes DEF P!TypeOK, P!Dirs
<1>2. P!WithFragment(base) \in {base} \/
      (d \notin {"none", "torn"} /\ P!WithFragment(base) \in {<<d>> \o base, Append(base, d)})
  BY DEF P!WithFragment
<1>3. CASE d \notin {"none", "torn"}
  <2>1. <<d>> \in Seq(P!Dirs)
    BY <1>1, <1>3
  <2> HIDE DEF d
  <2>2. <<d>> \o base \in Seq(P!Dirs) /\ Append(base, d) \in Seq(P!Dirs)
    BY <1>1, <1>3, <2>1, ConcatProperties, AppendProperties
  <2> QED  BY <1>1, <1>2, <2>2
<1> QED  BY <1>1, <1>2, <1>3

(* What a login fragment adds is what a new login shell looks through.     *)
LoginPathComplete ==
  P!TypeOK /\ os # "windows" =>
    /\ P!LoginPath \in Seq(P!Dirs)
    /\ fragment.dir \notin {"none", "torn"} => P!Contains(P!LoginPath, fragment.dir)

LEMMA LoginPathHas == LoginPathComplete
<1> SUFFICES ASSUME P!TypeOK, os # "windows"
             PROVE  /\ P!LoginPath \in Seq(P!Dirs)
                    /\ fragment.dir \notin {"none", "torn"} => P!Contains(P!LoginPath, fragment.dir)
  BY DEF LoginPathComplete
<1> DEFINE d == fragment.dir
           own == IF files["profile"] = "line" THEN <<"home">> ELSE <<>>
<1>1. own \in Seq(P!Dirs) /\ base \in Seq(P!Dirs)
  <2>1. "home" \in P!Dirs
    BY DEF P!Dirs
  <2> QED  BY <2>1, PathTypes
<1>2. P!LoginPath = own \o P!WithFragment(base)
  BY DEF P!LoginPath
<1>3. d \notin {"none", "torn"} => d \in P!Dirs
  BY DEF P!TypeOK, P!Dirs
<1>4. /\ P!WithFragment(base) \in Seq(P!Dirs)
      /\ d \notin {"none", "torn"} => P!Contains(P!WithFragment(base), d)
  <2>1. CASE d \in {"none", "torn"} \/ P!Contains(base, d)
    BY <1>1, <2>1 DEF P!WithFragment
  <2>2. CASE ~(d \in {"none", "torn"} \/ P!Contains(base, d)) /\ fragment.at = "prepend" /\ os = "linux"
    <3>1. P!WithFragment(base) = <<d>> \o base /\ d \in P!Dirs
      BY <1>3, <2>2 DEF P!WithFragment
    <3>2. <<d>> \in Seq(P!Dirs) /\ P!Contains(<<d>>, d)
      BY <3>1 DEF P!Contains
    <3>3. P!Contains(<<d>> \o base, d)
      BY <1>1, <3>2, ContainsConcat
    <3>4. <<d>> \o base \in Seq(P!Dirs)
      BY <1>1, <3>2, ConcatProperties
    <3> QED  BY <3>1, <3>3, <3>4
  <2>3. CASE ~(d \in {"none", "torn"} \/ P!Contains(base, d)) /\ ~(fragment.at = "prepend" /\ os = "linux")
    <3>1. P!WithFragment(base) = Append(base, d) /\ d \in P!Dirs
      BY <1>3, <2>3 DEF P!WithFragment
    <3> QED  BY <1>1, <3>1, ContainsAppend, AppendProperties
  <2> QED  BY <2>1, <2>2, <2>3
<1> HIDE DEF own, d
<1>5. P!LoginPath \in Seq(P!Dirs)
  BY <1>1, <1>2, <1>4, ConcatProperties
<1>6. d \notin {"none", "torn"} => P!Contains(P!LoginPath, d)
  BY <1>1, <1>2, <1>4, ContainsConcat
<1> QED  BY <1>5, <1>6 DEF d

LEMMA LoginPathHasNext == LoginPathComplete'
BY LoginPathHas, PTL

LEMMA PathRootTypes ==
  ASSUME PathInvariant, P!RootAddToPath
  PROVE  P!TypeOK'
<1>1. /\ pc' = "link" /\ os # "windows" /\ elevated /\ pc = "wire"
      /\ UNCHANGED <<os, elevated, base, closed, safe, files, link, placed, foreign, path, odd, old,
                     uses, bin, verdict, seen, scope, current, wanted, lost, raced, runs, edits>>
  BY DEF P!RootAddToPath, P!host, P!win, P!hist, P!Wired, P!WireFails
<1>2. /\ failed' \in {failed, TRUE} /\ wired' \in {wired, "unchanged", "changed"}
      /\ \/ fragment' \in {fragment, P!Fragment("none"), P!Fragment("torn")}
         \/ fragment' = [dir |-> P!ReachableDir, at |-> P!Position]
  BY DEF P!RootAddToPath, P!Wired, P!WireFails
<1>3. P!ReachableDir \in {"root", "custom", "veneer"} /\ P!Position \in {"prepend", "append"}
  BY <1>1, PathTypes DEF P!ReachableDir, P!Position, PathShape, PathInvariant
<1>4. fragment' \in [dir : {"none", "torn", "root", "custom", "veneer"}, at : {"prepend", "append"}]
  <2>1. CASE fragment' = fragment
    BY <2>1 DEF P!TypeOK, PathInvariant
  <2>2. CASE fragment' \in {P!Fragment("none"), P!Fragment("torn")}
    BY <2>2 DEF P!Fragment
  <2>3. CASE fragment' = [dir |-> P!ReachableDir, at |-> P!Position]
    BY <1>3, <2>3
  <2> QED  BY <1>2, <2>1, <2>2, <2>3
<1>5. failed' \in BOOLEAN /\ wired' \in {"none", "unchanged", "changed"}
  BY <1>2 DEF P!TypeOK, PathInvariant
<1> QED  BY <1>1, <1>4, <1>5 DEF P!TypeOK, PathInvariant

LEMMA PathRootWires ==
  ASSUME PathInvariant, P!RootAddToPath
  PROVE  PathInvariant'
<1> USE DEF PathInvariant
<1> DEFINE d == P!ReachableDir
<1>1. /\ pc = "wire" /\ pc' = "link" /\ os # "windows" /\ elevated
      /\ UNCHANGED <<os, elevated, base, closed, safe, files, link, placed, foreign, path, odd, old,
                     uses, bin, verdict, seen, scope, current, wanted, lost, raced, runs, edits>>
  BY DEF P!RootAddToPath, P!host, P!win, P!hist, P!Wired, P!WireFails
<1>2. \/ fragment' = fragment /\ (P!Contains(P!LoginPath, d) \/ failed' = TRUE)
      \/ fragment' = [dir |-> d, at |-> P!Position]
      \/ failed' = TRUE /\ fragment' \in {P!Fragment("none"), P!Fragment("torn")}
  BY DEF P!RootAddToPath, P!Wired, P!WireFails
<1>3. /\ d' = d /\ d \in {"root", "custom", "veneer"} /\ (d = "root" => P!Position = "prepend")
  BY <1>1, PathTypes DEF P!ReachableDir, P!Position, PathShape
<1> HIDE DEF d
<1> P!TypeOK'
  BY PathRootTypes
<1>4. P!EntriesKept' /\ PathRead' /\ PathLinked' /\ PathDropped' /\ PathDecided'
  BY <1>1 DEF P!EntriesKept, P!Theirs, PathRead, PathLinked, PathDropped, PathDecided
<1>5. fragment'.dir = "root" => fragment'.at = "prepend"
  BY <1>2, <1>3 DEF P!Fragment, PathShape
<1>6. PathShape'
  BY <1>1, <1>5 DEF PathShape
<1>7. PathWired'
  <2>1. CASE failed' = TRUE
    BY <2>1 DEF PathWired
  <2>2. CASE fragment' = fragment /\ P!Contains(P!LoginPath, d)
    <3>1. P!LoginPath' = P!LoginPath
      BY <1>1, <2>2 DEF P!LoginPath, P!WithFragment
    <3> QED  BY <1>1, <1>3, <2>2, <3>1 DEF PathWired, d
  <2>3. CASE fragment' = [dir |-> d, at |-> P!Position]
    <3>1. fragment'.dir = d /\ d \notin {"none", "torn"}
      BY <1>3, <2>3
    <3>2. P!Contains(P!LoginPath', d)
      BY <1>1, <3>1, LoginPathHasNext DEF LoginPathComplete
    <3> QED  BY <1>1, <1>3, <3>2 DEF PathWired, d
  <2> QED  BY <1>2, <2>1, <2>2, <2>3
<1> QED  BY <1>4, <1>6, <1>7

LEMMA PathUserWires ==
  ASSUME PathInvariant, P!UserAddToPath
  PROVE  PathInvariant'
<1> USE DEF PathInvariant
<1>1. /\ pc = "wire" /\ pc' = "link" /\ os # "windows" /\ ~elevated
      /\ UNCHANGED <<os, elevated, base, closed, safe, fragment, link, placed, foreign, path, odd,
                     old, uses, bin, verdict, seen, scope, current, wanted, lost, raced, runs, edits>>
      /\ failed' \in {failed, TRUE} /\ wired' \in {wired, "unchanged", "changed"}
  BY DEF P!UserAddToPath, P!host, P!win, P!hist, P!Wired, P!WireFails
<1>2. /\ \A f \in {"rc", "profile"} : P!LineAdded(f) \in {"mention", "line"}
      /\ P!RcAdded \in {"absent", "mention", "line"}
  BY DEF P!LineAdded, P!RcAdded
<1>3. \/ files' = [rc |-> P!RcAdded, profile |-> P!LineAdded("profile")]
      \/ failed' = TRUE /\ files' \in {files, [files EXCEPT !["rc"] = P!RcAdded]}
  BY DEF P!UserAddToPath, P!WireFails
<1>4. /\ files' \in [{"rc", "profile"} -> {"absent", "without", "mention", "line"}]
      /\ failed' = TRUE \/ files'["profile"] \in {"mention", "line"}
  <2>1. CASE files' = [rc |-> P!RcAdded, profile |-> P!LineAdded("profile")]
    <3>1. files' = [f \in {"rc", "profile"} |-> IF f = "rc" THEN P!RcAdded ELSE P!LineAdded("profile")]
      BY <2>1
    <3> QED  BY <1>2, <3>1
  <2>2. CASE failed' = TRUE /\ files' \in {files, [files EXCEPT !["rc"] = P!RcAdded]}
    BY <1>2, <2>2 DEF P!TypeOK
  <2> QED  BY <1>3, <2>1, <2>2
<1>5. P!TypeOK'
  <2>1. failed' \in BOOLEAN /\ wired' \in {"none", "unchanged", "changed"}
    BY <1>1 DEF P!TypeOK
  <2> QED  BY <1>1, <1>4, <2>1 DEF P!TypeOK
<1>6. P!EntriesKept' /\ PathShape' /\ PathRead' /\ PathLinked' /\ PathDropped' /\ PathDecided'
  BY <1>1 DEF P!EntriesKept, P!Theirs, PathShape, PathRead, PathLinked, PathDropped, PathDecided
<1>7. PathWired'
  BY <1>1, <1>4 DEF PathWired
<1> QED  BY <1>5, <1>6, <1>7

LEMMA PathReads ==
  ASSUME PathInvariant, P!ReadUserPath
  PROVE  PathInvariant'
<1> USE DEF PathInvariant
<1>1. /\ pc = "wire" /\ pc' \in {"wiring", "link"} /\ os = "windows" /\ scope' = "user"
      /\ seen' = P!Text("user") /\ failed' \in {failed, TRUE}
      /\ wired' \in {wired, "unchanged"}
      /\ UNCHANGED <<os, elevated, base, closed, safe, fragment, files, link, placed, foreign, path,
                     odd, old, uses, bin, verdict, current, wanted, lost, raced, runs, edits>>
  BY DEF P!ReadUserPath, P!host, P!unix, P!win, P!hist, P!Wired, P!WireFails
<1>2. pc' = "link" => failed' = TRUE \/ P!Contains(seen', bin)
  BY DEF P!ReadUserPath, P!Wired, P!WireFails
<1>3. P!TypeOK'
  <2>1. failed' \in BOOLEAN /\ wired' \in {"none", "unchanged", "changed"}
        /\ seen' \in Seq(P!Dirs) /\ scope' \in P!Scopes
    BY <1>1, PathTypes DEF P!TypeOK
  <2> QED  BY <1>1, <2>1 DEF P!TypeOK
<1>4. P!EntriesKept' /\ PathShape' /\ PathLinked' /\ PathDropped' /\ PathDecided'
  BY <1>1 DEF P!EntriesKept, P!Theirs, PathShape, PathLinked, PathDropped, PathDecided
<1>5. PathRead'
  <2>1. P!Text("user")' = P!Text("user")
    BY <1>1 DEF P!Text
  <2>2. "user" \notin lost => P!Theirs(seen') = wanted["user"]
    BY <1>1, PathTypes DEF P!Text, PathRead, P!EntriesKept
  <2> QED  BY <1>1, <2>1, <2>2 DEF PathRead, P!Theirs
<1>6. PathWired'
  <2>1. P!Contains(seen', bin) => "user" \notin odd /\ P!Contains(path["user"], bin)
    BY <1>1 DEF P!Text, P!Contains
  <2> QED  BY <1>1, <1>2, <2>1 DEF PathWired
<1> QED  BY <1>3, <1>4, <1>5, <1>6

(* A scope is written to: others' entries are those of what was read.      *)
LEMMA PathPuts ==
  ASSUME P!TypeOK, P!EntriesKept, NEW s \in P!Scopes, NEW p \in Seq(P!Dirs),
         path' = [path EXCEPT ![s] = p], s \notin lost => P!Theirs(p) = wanted[s],
         lost' = lost, wanted' = wanted
  PROVE  /\ path' \in [P!Scopes -> Seq(P!Dirs)] /\ path'[s] = p
         /\ \A t \in P!Scopes \ {s} : path'[t] = path[t]
         /\ P!EntriesKept'
<1>1. path \in [P!Scopes -> Seq(P!Dirs)]
  BY DEF P!TypeOK
<1>2. /\ path' \in [P!Scopes -> Seq(P!Dirs)] /\ path'[s] = p
      /\ \A t \in P!Scopes \ {s} : path'[t] = path[t]
  BY <1>1
<1>3. ASSUME NEW t \in P!Scopes \ lost
      PROVE  P!Theirs(path'[t]) = wanted[t]
  <2>1. CASE t = s
    BY <1>2, <2>1
  <2>2. CASE t # s
    BY <1>2, <2>2 DEF P!EntriesKept
  <2> QED  BY <2>1, <2>2
<1>4. P!EntriesKept'
  BY <1>3 DEF P!EntriesKept, P!Theirs
<1> QED  BY <1>2, <1>4

LEMMA PathWrites ==
  ASSUME PathInvariant, P!WriteUserPath
  PROVE  PathInvariant'
<1> USE DEF PathInvariant
<1>1. /\ pc = "wiring" /\ pc' = "link" /\ os = "windows" /\ scope = "user"
      /\ wired' \in {wired, "changed"} /\ failed' \in {failed, TRUE}
      /\ UNCHANGED <<os, elevated, base, closed, safe, fragment, files, link, placed, foreign, old,
                     uses, bin, verdict, seen, scope, current, wanted, lost, raced, runs, edits>>
  BY DEF P!WriteUserPath, P!host, P!unix, P!hist, P!Wired, P!WireFails, PathShape
<1>2. \/ path' = [path EXCEPT !["user"] = P!PathAppend(seen, bin)] /\ odd' = odd \ {"user"}
      \/ failed' = TRUE /\ path' = path /\ odd' = odd
  BY DEF P!WriteUserPath, P!win, P!WireFails
<1>3. /\ seen \in Seq(P!Dirs) /\ bin \in P!Dirs /\ bin \in P!Ours
  BY <1>1, PathTypes DEF PathShape, P!Ours
<1>4. /\ path' \in [P!Scopes -> Seq(P!Dirs)] /\ P!EntriesKept' /\ odd' \subseteq odd
      /\ failed' = TRUE \/ ("user" \notin odd' /\ P!Contains(path'["user"], bin))
  <2>1. CASE path' = path /\ odd' = odd /\ failed' = TRUE
    BY <1>1, <2>1 DEF P!TypeOK, P!EntriesKept, P!Theirs
  <2>2. CASE path' = [path EXCEPT !["user"] = P!PathAppend(seen, bin)] /\ odd' = odd \ {"user"}
    <3> DEFINE p == P!PathAppend(seen, bin)
    <3>1. /\ p \in Seq(P!Dirs) /\ P!Contains(p, bin) /\ P!Theirs(p) = P!Theirs(seen)
      BY <1>3, AppendedPath DEF P!Theirs
    <3> HIDE DEF p
    <3>2. "user" \notin lost => P!Theirs(p) = wanted["user"]
      BY <1>1, <3>1 DEF PathRead
    <3>3. /\ path' \in [P!Scopes -> Seq(P!Dirs)] /\ path'["user"] = p /\ P!EntriesKept'
      BY <1>1, <2>2, <3>1, <3>2, PathTypes, PathPuts DEF p
    <3> QED  BY <2>2, <3>1, <3>3
  <2> QED  BY <1>2, <2>1, <2>2
<1>5. P!TypeOK'
  <2>1. failed' \in BOOLEAN /\ wired' \in {"none", "unchanged", "changed"} /\ odd' \subseteq P!Scopes
    BY <1>1, <1>4 DEF P!TypeOK
  <2> QED  BY <1>1, <1>4, <2>1 DEF P!TypeOK
<1>6. PathShape' /\ PathRead' /\ PathLinked' /\ PathDropped' /\ PathDecided' /\ PathWired'
  BY <1>1, <1>4 DEF PathShape, PathRead, PathLinked, PathDropped, PathDecided, PathWired
<1> QED  BY <1>4, <1>5, <1>6

LEMMA PathLinks ==
  ASSUME PathInvariant, P!LinkProtectedClis
  PROVE  PathInvariant'
<1> USE DEF PathInvariant
<1>1. /\ pc = "link" /\ placed' = placed \cup {bin}
      /\ pc' = (IF os = "windows" THEN "gather" ELSE "verify")
      /\ current' = {f \in {"dign"} : "root" \in placed'}
      /\ failed' \in {failed, TRUE}
      /\ UNCHANGED <<os, elevated, base, closed, safe, fragment, files, foreign, path, odd, old, uses,
                     bin, verdict, wired, seen, scope, wanted, lost, raced, runs, edits>>
  BY DEF P!LinkProtectedClis, P!host, P!win, P!hist
<1>2. /\ link' \in {link, "none", "root"}
      /\ os # "windows" => failed' = TRUE \/ (IF verdict THEN bin = "root" => link' = "root"
                                              ELSE link' # "root")
  <2>1. \/ link' = (IF os = "windows" THEN link
                    ELSE IF ~verdict THEN P!LinkRemoved
                    ELSE IF bin = "root" THEN "root" ELSE link)
        \/ failed' = TRUE /\ link' \in {link} \cup (IF verdict THEN {"none"} ELSE {})
    BY DEF P!LinkProtectedClis
  <2> QED  BY <2>1, PathTypes DEF P!LinkRemoved
<1>3. P!TypeOK'
  <2>1. /\ failed' \in BOOLEAN /\ link' \in {"none", "root", "theirs"}
        /\ placed' \subseteq {"root", "custom", "home"} /\ current' \subseteq {"dign"}
    BY <1>1, <1>2 DEF P!TypeOK
  <2> QED  BY <1>1, <2>1 DEF P!TypeOK
<1>4. P!EntriesKept' /\ PathShape' /\ PathRead' /\ PathDropped' /\ PathDecided'
  BY <1>1 DEF P!EntriesKept, P!Theirs, PathShape, PathRead, PathDropped, PathDecided
<1>5. PathLinked'
  BY <1>1, <1>2 DEF PathLinked
<1>6. PathWired'
  <2>1. P!LoginPath' = P!LoginPath /\ P!ReachableDir' = P!ReachableDir
    BY <1>1 DEF P!LoginPath, P!WithFragment, P!ReachableDir
  <2> QED  BY <1>1, <2>1 DEF PathWired
<1> QED  BY <1>3, <1>4, <1>5, <1>6

(* Nothing but the place in the run, and what it remembers, changes.       *)
LEMMA PathGoesOn ==
  ASSUME PathInvariant, os = "windows", old' \subseteq old, failed' \in {failed, TRUE},
         UNCHANGED <<os, elevated, base, closed, safe, fragment, files, link, placed, foreign, path,
                     odd, bin, verdict, wired, current, wanted, lost, runs, edits>>,
         raced' \in BOOLEAN, uses' = uses, scope' \in P!Scopes, seen' \in Seq(P!Dirs),
         pc \in {"gather", "remove", "drop", "dropping"},
         pc' \in {"remove", "drop", "dropping", "verify"},
         pc' = "remove" => scope' = "machine",
         PathRead', PathDropped', PathDecided'
  PROVE  PathInvariant'
<1> USE DEF PathInvariant
<1>1. P!TypeOK'
  <2>1. failed' \in BOOLEAN /\ old' \subseteq {"dign", "data"}
    BY DEF P!TypeOK
  <2> QED  BY <2>1 DEF P!TypeOK
<1>2. P!EntriesKept' /\ PathShape' /\ PathWired' /\ PathLinked'
  BY DEF P!EntriesKept, P!Theirs, PathShape, PathWired, PathLinked
<1> QED  BY <1>1, <1>2

LEMMA PathDecides ==
  ASSUME PathInvariant, P!RemoveSupersededRoots
  PROVE  PathInvariant'
<1> USE DEF PathInvariant
<1>1. /\ pc = "gather" /\ scope' = "machine" /\ pc' \in {"remove", "drop", "verify"}
      /\ os = "windows" /\ failed' \in {failed, TRUE}
      /\ UNCHANGED <<os, elevated, base, closed, safe, fragment, files, link, placed, foreign, path,
                     odd, old, uses, bin, verdict, wired, seen, current, wanted, lost, runs, edits>>
  BY PathTypes DEF P!RemoveSupersededRoots, P!host, P!unix, P!win, PathShape
<1>2. /\ raced' \in BOOLEAN
      /\ pc' = "verify" => failed' = TRUE
      /\ pc' = "remove" => raced' \/ (uses # "registered" /\ old \subseteq current)
  <2>1. CASE old = {} /\ pc' = "drop" /\ raced' = raced
    BY <2>1, PathTypes
  <2>2. CASE old # {}
    <3>1. PICK listed, asked \in BOOLEAN :
            /\ pc' = (IF P!Decide(listed, asked) THEN "remove" ELSE "verify")
            /\ raced' = ~listed /\ failed' = (failed \/ ~P!Decide(listed, asked))
      BY <2>2 DEF P!RemoveSupersededRoots
    <3>2. CASE P!Decide(listed, asked)
      BY <3>1, <3>2 DEF P!Decide
    <3>3. CASE ~P!Decide(listed, asked)
      BY <3>1, <3>3
    <3> QED  BY <3>2, <3>3
  <2> QED  BY <2>1, <2>2 DEF P!RemoveSupersededRoots
<1>3. PathRead' /\ PathDropped' /\ PathDecided'
  BY <1>1, <1>2 DEF PathRead, PathDropped, PathDecided
<1> QED  BY <1>1, <1>2, <1>3, PathTypes, PathGoesOn

LEMMA PathRemoves ==
  ASSUME PathInvariant, P!RemoveRoot
  PROVE  PathInvariant'
<1> USE DEF PathInvariant
<1>1. /\ pc = "remove" /\ pc' = "drop" /\ os = "windows" /\ scope = "machine"
      /\ failed' \in {failed, TRUE} /\ old' \subseteq old
      /\ UNCHANGED <<os, elevated, base, closed, safe, fragment, files, link, placed, foreign, path,
                     odd, uses, bin, verdict, wired, seen, scope, current, wanted, lost, raced, runs,
                     edits>>
  BY DEF P!RemoveRoot, P!host, P!unix, P!win, P!mine, P!hist, PathShape
<1>2. PathRead' /\ PathDropped' /\ PathDecided'
  BY <1>1 DEF PathRead, PathDropped, PathDecided
<1> QED  BY <1>1, <1>2, PathTypes, PathGoesOn

LEMMA PathReadsToDrop ==
  ASSUME PathInvariant, P!ReadToDrop
  PROVE  PathInvariant'
<1> USE DEF PathInvariant
<1>1. /\ pc = "drop" /\ seen' = P!Text(scope) /\ failed' \in {failed, TRUE} /\ os = "windows"
      /\ UNCHANGED <<os, elevated, base, closed, safe, fragment, files, link, placed, foreign, path,
                     odd, old, uses, bin, verdict, wired, current, wanted, lost, raced, runs, edits>>
      /\ \/ P!Contains(seen', "old") /\ pc' = "dropping" /\ scope' = scope
         \/ /\ ~P!Contains(seen', "old") \/ failed' = TRUE
            /\ \/ scope = "machine" /\ scope' = "user" /\ pc' = "drop"
               \/ scope = "user" /\ scope' = "user" /\ pc' = "verify"
  BY PathTypes DEF P!ReadToDrop, P!host, P!unix, P!win, P!hist, P!NextScope, PathShape
<1>2. PathRead'
  <2>1. scope \notin lost => P!Theirs(seen') = wanted[scope]
    BY <1>1, PathTypes DEF P!Text, PathRead, P!EntriesKept
  <2>2. pc' = "dropping" => seen' = P!Text(scope)'
    BY <1>1 DEF P!Text
  <2> QED  BY <1>1, <2>1, <2>2 DEF PathRead, P!Theirs
<1>3. ~P!Contains(seen', "old") => PathCleared(scope)
  BY <1>1 DEF P!Text, PathCleared
<1>4. PathDropped'
  <2>1. CASE failed' = TRUE
    BY <2>1 DEF PathDropped
  <2>2. CASE failed' # TRUE
    <3>1. /\ failed' = failed /\ ~failed
          /\ \A s \in P!Scopes : PathCleared(s)' <=> PathCleared(s)
      BY <1>1, <2>2, PathTypes DEF PathCleared
    <3>2. /\ scope = "user" => PathCleared("machine")
          /\ pc' # "dropping" => PathCleared(scope)
      BY <1>1, <1>3, <2>2, <3>1 DEF PathDropped
    <3>3. /\ pc' \in {"drop", "dropping"} /\ scope' = "user" => PathCleared("machine")
          /\ pc' = "verify" => PathCleared("machine") /\ PathCleared("user")
      BY <1>1, <3>2
    <3> QED  BY <3>1, <3>3, PathTypes DEF PathDropped, PathCleared
  <2> QED  BY <2>1, <2>2
<1>5. PathDecided'
  BY <1>1 DEF PathDecided
<1> QED  BY <1>1, <1>2, <1>4, <1>5, PathTypes, PathGoesOn

LEMMA PathDrops ==
  ASSUME PathInvariant, P!Drop
  PROVE  PathInvariant'
<1> USE DEF PathInvariant
<1>1. /\ pc = "dropping" /\ failed' \in {failed, TRUE} /\ os = "windows"
      /\ UNCHANGED <<os, elevated, base, closed, safe, fragment, files, link, placed, foreign, old,
                     uses, bin, verdict, wired, seen, current, wanted, lost, raced, runs, edits>>
      /\ \/ scope = "machine" /\ scope' = "user" /\ pc' = "drop"
         \/ scope = "user" /\ scope' = "user" /\ pc' = "verify"
  BY PathTypes DEF P!Drop, P!host, P!unix, P!hist, P!NextScope, PathShape
<1> DEFINE p == P!PathRemove(seen, "old")
<1>2. \/ path' = [path EXCEPT ![scope] = p] /\ odd' = odd \ {scope} /\ failed' = failed
      \/ failed' = TRUE /\ path' = path /\ odd' = odd
  BY DEF P!Drop, P!win
<1>3. /\ p \in Seq(P!Dirs) /\ ~P!Contains(p, "old") /\ P!Theirs(p) = P!Theirs(seen)
      /\ \A d \in {"root", "custom"} : P!Contains(p, d) <=> P!Contains(seen, d)
  <2>1. seen \in Seq(P!Dirs) /\ {"old"} \in SUBSET P!Ours
    BY PathTypes DEF P!Ours
  <2>2. P!Theirs(p) = P!Theirs(seen)
    BY <2>1, WithoutTwice DEF P!PathRemove, P!Theirs
  <2>3. p \in Seq(P!Dirs) /\ \A d : P!Contains(p, d) <=> d \notin {"old"} /\ P!Contains(seen, d)
    BY <2>1, WithoutType, WithoutContains DEF P!PathRemove
  <2> QED  BY <2>2, <2>3
<1> HIDE DEF p
<1>4. CASE path' = [path EXCEPT ![scope] = p] /\ odd' = odd \ {scope} /\ failed' = failed
  <2>1. scope \notin lost => P!Theirs(p) = wanted[scope]
    BY <1>1, <1>3 DEF PathRead
  <2>2. /\ path' \in [P!Scopes -> Seq(P!Dirs)] /\ path'[scope] = p /\ P!EntriesKept'
        /\ \A t \in P!Scopes \ {scope} : path'[t] = path[t]
    BY <1>1, <1>3, <1>4, <2>1, PathTypes, PathPuts
  <2>3. P!TypeOK'
    <3>1. scope' \in P!Scopes /\ odd' \subseteq P!Scopes
      BY <1>1, <1>4, PathTypes DEF P!TypeOK
    <3> QED  BY <1>1, <1>4, <2>2, <3>1 DEF P!TypeOK
  <2>4. PathShape' /\ PathRead' /\ PathLinked' /\ PathDecided'
    BY <1>1, <1>4 DEF PathShape, PathRead, PathLinked, PathDecided
  <2>5. PathWired'
    <3>1. ASSUME ~failed
          PROVE  "user" \notin odd' /\ P!Contains(path'["user"], bin)
      <4>1. "user" \notin odd /\ P!Contains(path["user"], bin) /\ bin \in {"root", "custom"}
        BY <1>1, <3>1, PathTypes DEF PathWired, PathShape
      <4>2. CASE scope = "user"
        <5>1. seen = path["user"]
          BY <1>1, <3>1, <4>1, <4>2 DEF PathRead, P!Text
        <5> QED  BY <1>3, <1>4, <2>2, <4>1, <4>2, <5>1
      <4>3. CASE scope # "user"
        BY <1>4, <2>2, <4>1, <4>3, PathTypes
      <4> QED  BY <4>2, <4>3
    <3> QED  BY <1>1, <1>4, <3>1 DEF PathWired
  <2>6. PathDropped'
    <3>1. ~P!Contains(path'[scope], "old")
      BY <1>3, <2>2
    <3>2. scope = "user" => path'["machine"] = path["machine"] /\ ("machine" \in odd => "machine" \in odd')
      BY <1>4, <2>2, PathTypes
    <3> QED  BY <1>1, <1>4, <3>1, <3>2 DEF PathDropped, PathCleared
  <2> QED  BY <2>2, <2>3, <2>4, <2>5, <2>6
<1>5. CASE failed' = TRUE /\ path' = path /\ odd' = odd
  <2>1. PathRead' /\ PathDropped' /\ PathDecided'
    BY <1>1, <1>5 DEF PathRead, PathDropped, PathDecided
  <2> QED  BY <1>1, <1>5, <2>1, PathTypes, PathGoesOn
<1> QED  BY <1>2, <1>4, <1>5

LEMMA PathVerifies ==
  ASSUME PathInvariant, P!VerifyClis
  PROVE  PathInvariant'
<1> USE DEF PathInvariant
<1>1. /\ pc' = "idle"
      /\ UNCHANGED <<os, elevated, base, closed, safe, fragment, files, link, placed, foreign, path,
                     odd, old, uses, bin, verdict, wired, seen, scope, current, failed, wanted, lost,
                     raced, runs, edits>>
  BY DEF P!VerifyClis, P!host, P!unix, P!win, P!mine, P!hist
<1>2. P!TypeOK'
  BY <1>1 DEF P!TypeOK
<1>3. P!EntriesKept' /\ PathShape' /\ PathRead' /\ PathLinked' /\ PathDropped' /\ PathDecided'
      /\ PathWired'
  BY <1>1 DEF P!EntriesKept, P!Theirs, PathShape, PathRead, PathLinked, PathDropped, PathDecided,
     PathWired
<1> QED  BY <1>2, <1>3

LEMMA PathCrashes ==
  ASSUME PathInvariant, P!Crash
  PROVE  PathInvariant'
<1> USE DEF PathInvariant
<1>1. /\ pc' = "idle" /\ failed' = TRUE
      /\ UNCHANGED <<os, elevated, base, closed, safe, files, link, placed, foreign, path, odd, old,
                     uses, bin, verdict, wired, seen, scope, current, wanted, lost, raced, runs,
                     edits>>
  BY DEF P!Crash, P!host, P!win, P!mine, P!hist
<1>2. \/ fragment' = fragment
      \/ fragment' \in {P!Fragment("none"), P!Fragment("torn")} /\ os # "windows"
  BY DEF P!Crash
<1>3. /\ fragment' \in [dir : {"none", "torn", "root", "custom", "veneer"}, at : {"prepend", "append"}]
      /\ fragment'.dir = "root" => fragment'.at = "prepend"
      /\ os = "windows" => fragment' = fragment
  <2>1. CASE fragment' = fragment
    BY <2>1 DEF P!TypeOK, PathShape
  <2>2. CASE fragment' \in {P!Fragment("none"), P!Fragment("torn")} /\ os # "windows"
    BY <2>2 DEF P!Fragment
  <2> QED  BY <1>2, <2>1, <2>2
<1>4. P!TypeOK'
  BY <1>1, <1>3 DEF P!TypeOK
<1>5. PathShape'
  BY <1>1, <1>3 DEF PathShape, P!Fragment
<1>6. P!EntriesKept' /\ PathRead' /\ PathLinked' /\ PathDropped' /\ PathDecided' /\ PathWired'
  BY <1>1 DEF P!EntriesKept, P!Theirs, PathRead, PathLinked, PathDropped, PathDecided, PathWired
<1> QED  BY <1>4, <1>5, <1>6

LEMMA PathUnixEdits ==
  ASSUME PathInvariant, P!UnixEdit
  PROVE  PathInvariant'
<1> USE DEF PathInvariant
<1>1. /\ os # "windows" /\ failed' = TRUE /\ edits' \in 0..Edits
      /\ UNCHANGED <<os, elevated, base, closed, fragment, placed, path, odd, old, uses, pc, bin,
                     verdict, wired, seen, scope, current, wanted, lost, raced, runs>>
  BY PathTypes, BoundsAssumption DEF P!UnixEdit, P!Elsewhere, P!host, P!win, P!mine
<1>2. /\ safe' \in BOOLEAN /\ foreign' \in BOOLEAN /\ link' \in {"none", "root", "theirs"}
      /\ files' \in [{"rc", "profile"} -> {"absent", "without", "mention", "line"}]
  <2>1. safe' \in {safe, ~safe} /\ foreign' \in {foreign, ~foreign} /\ link' \in {link, "none", "theirs"}
    BY DEF P!UnixEdit
  <2>2. \/ files' = files
        \/ \E f \in {"rc", "profile"} :
             files' = [files EXCEPT ![f] = IF @ = "line" THEN "without" ELSE "mention"]
    BY DEF P!UnixEdit
  <2>3. files' \in [{"rc", "profile"} -> {"absent", "without", "mention", "line"}]
    <3>1. files \in [{"rc", "profile"} -> {"absent", "without", "mention", "line"}]
      BY DEF P!TypeOK
    <3> QED  BY <2>2, <3>1
  <2>4. safe' \in BOOLEAN /\ foreign' \in BOOLEAN
    BY <2>1 DEF P!TypeOK
  <2> QED  BY <2>1, <2>3, <2>4 DEF P!TypeOK
<1>3. P!TypeOK'
  BY <1>1, <1>2 DEF P!TypeOK
<1>4. P!EntriesKept' /\ PathShape' /\ PathRead' /\ PathLinked' /\ PathDropped' /\ PathDecided'
      /\ PathWired'
  BY <1>1 DEF P!EntriesKept, P!Theirs, PathShape, PathRead, PathLinked, PathDropped, PathDecided,
     PathWired
<1> QED  BY <1>3, <1>4

(* Others put an entry in front of a scope's or take its first one away.   *)
LEMMA PathTheirs ==
  ASSUME NEW p \in Seq(P!Dirs)
  PROVE  /\ <<"tools">> \o p \in Seq(P!Dirs)
         /\ P!Theirs(<<"tools">> \o p) = <<"tools">> \o P!Theirs(p)
         /\ p # <<>> =>
              /\ Tail(p) \in Seq(P!Dirs)
              /\ Head(p) \in P!Ours => P!Theirs(Tail(p)) = P!Theirs(p)
              /\ Head(p) \notin P!Ours => P!Theirs(Tail(p)) = Tail(P!Theirs(p))
<1>1. "tools" \in P!Dirs /\ "tools" \notin P!Ours
  BY DEF P!Dirs, P!Ours
<1>2. <<"tools">> \o p \in Seq(P!Dirs)
  BY <1>1
<1>3. P!Theirs(<<"tools">> \o p) = <<"tools">> \o P!Theirs(p)
  <2> DEFINE x == "tools"
  <2>1. x \in P!Dirs /\ x \notin P!Ours
    BY <1>1
  <2> HIDE DEF x
  <2> DEFINE ds == P!Ours
  <2>2. P!Without(<<x>> \o p, ds) = IF x \in ds THEN P!Without(p, ds) ELSE <<x>> \o P!Without(p, ds)
    <3> HIDE DEF ds
    <3> QED  BY <2>1, WithoutFront
  <2>3. P!Theirs(<<x>> \o p) = <<x>> \o P!Theirs(p)
    BY <2>1, <2>2 DEF P!Theirs
  <2> QED  BY <2>3 DEF x
<1>4. ASSUME p # <<>>
      PROVE  /\ Tail(p) \in Seq(P!Dirs)
             /\ Head(p) \in P!Ours => P!Theirs(Tail(p)) = P!Theirs(p)
             /\ Head(p) \notin P!Ours => P!Theirs(Tail(p)) = Tail(P!Theirs(p))
  <2> DEFINE h == Head(p)
             t == Tail(p)
  <2>1. h \in P!Dirs /\ t \in Seq(P!Dirs) /\ p = <<h>> \o t
    BY <1>4
  <2> HIDE DEF h, t
  <2>2. P!Theirs(p) = IF h \in P!Ours THEN P!Theirs(t) ELSE <<h>> \o P!Theirs(t)
    BY <2>1, WithoutFront DEF P!Theirs
  <2>3. P!Theirs(t) \in Seq(P!Dirs)
    BY <2>1, WithoutType DEF P!Theirs
  <2>4. Tail(<<h>> \o P!Theirs(t)) = P!Theirs(t)
    BY <2>1, <2>3
  <2> QED  BY <2>1, <2>2, <2>4 DEF h, t
<1> QED  BY <1>2, <1>3, <1>4

LEMMA PathWindowsEdits ==
  ASSUME PathInvariant, P!WindowsEdit
  PROVE  PathInvariant'
<1> USE DEF PathInvariant
<1>1. /\ os = "windows" /\ failed' = TRUE /\ edits' \in 0..Edits
      /\ UNCHANGED <<os, elevated, base, closed, safe, fragment, files, link, placed, old, pc, bin,
                     verdict, wired, seen, scope, current, runs>>
  <2>1. os = "windows" /\ failed' = TRUE /\ P!Elsewhere
        /\ UNCHANGED <<P!host, safe, P!unix, placed, old, pc, P!mine, runs>>
    BY DEF P!WindowsEdit
  <2>2. edits' \in 0..Edits
    BY <2>1, PathTypes, BoundsAssumption DEF P!Elsewhere
  <2> QED  BY <2>1, <2>2 DEF P!host, P!unix, P!mine
<1>2. PathShape' /\ PathLinked' /\ PathWired' /\ PathDropped'
  BY <1>1 DEF PathShape, PathLinked, PathWired, PathDropped
<1>3. CASE \E s \in P!Scopes \ odd :
          /\ \/ /\ path' = [path EXCEPT ![s] = <<"tools">> \o @]
                /\ wanted' = [wanted EXCEPT ![s] = <<"tools">> \o @]
             \/ /\ path[s] # <<>> /\ path' = [path EXCEPT ![s] = Tail(@)]
                /\ wanted' = IF Head(path[s]) \in P!Ours \/ s \in lost THEN wanted
                             ELSE [wanted EXCEPT ![s] = Tail(@)]
          /\ lost' = IF scope = s /\ pc \in {"wiring", "dropping"} THEN lost \cup {s} ELSE lost
          /\ UNCHANGED <<odd, uses, foreign, raced>>
  <2>1. PICK s \in P!Scopes \ odd :
          /\ \/ /\ path' = [path EXCEPT ![s] = <<"tools">> \o @]
                /\ wanted' = [wanted EXCEPT ![s] = <<"tools">> \o @]
             \/ /\ path[s] # <<>> /\ path' = [path EXCEPT ![s] = Tail(@)]
                /\ wanted' = IF Head(path[s]) \in P!Ours \/ s \in lost THEN wanted
                             ELSE [wanted EXCEPT ![s] = Tail(@)]
          /\ lost' = IF scope = s /\ pc \in {"wiring", "dropping"} THEN lost \cup {s} ELSE lost
          /\ UNCHANGED <<odd, uses, foreign, raced>>
    BY <1>3
  <2>2. /\ path \in [P!Scopes -> Seq(P!Dirs)] /\ wanted \in [P!Scopes -> Seq(P!Dirs)]
        /\ path[s] \in Seq(P!Dirs) /\ wanted[s] \in Seq(P!Dirs)
        /\ lost \subseteq lost' /\ lost' \subseteq P!Scopes
        /\ s \notin lost => P!Theirs(path[s]) = wanted[s]
    BY <2>1 DEF P!TypeOK, P!EntriesKept
  <2>3. PICK p \in Seq(P!Dirs), w \in Seq(P!Dirs) :
          /\ path' = [path EXCEPT ![s] = p] /\ wanted' = [wanted EXCEPT ![s] = w]
          /\ s \notin lost => P!Theirs(p) = w
    <3>1. CASE /\ path' = [path EXCEPT ![s] = <<"tools">> \o @]
               /\ wanted' = [wanted EXCEPT ![s] = <<"tools">> \o @]
      <4>1. /\ <<"tools">> \o path[s] \in Seq(P!Dirs) /\ <<"tools">> \o wanted[s] \in Seq(P!Dirs)
            /\ P!Theirs(<<"tools">> \o path[s]) = <<"tools">> \o P!Theirs(path[s])
        BY <2>2, PathTheirs
      <4> QED  BY <2>2, <3>1, <4>1
    <3>2. CASE /\ path[s] # <<>> /\ path' = [path EXCEPT ![s] = Tail(@)]
               /\ wanted' = IF Head(path[s]) \in P!Ours \/ s \in lost THEN wanted
                            ELSE [wanted EXCEPT ![s] = Tail(@)]
      <4>1. /\ Tail(path[s]) \in Seq(P!Dirs)
            /\ Head(path[s]) \in P!Ours => P!Theirs(Tail(path[s])) = P!Theirs(path[s])
            /\ Head(path[s]) \notin P!Ours => P!Theirs(Tail(path[s])) = Tail(P!Theirs(path[s]))
        BY <2>2, <3>2, PathTheirs
      <4>2. CASE Head(path[s]) \in P!Ours \/ s \in lost
        <5>1. wanted' = [wanted EXCEPT ![s] = wanted[s]]
          BY <2>2, <3>2, <4>2
        <5> QED  BY <2>2, <3>2, <4>1, <4>2, <5>1
      <4>3. CASE ~(Head(path[s]) \in P!Ours \/ s \in lost)
        <5>1. Tail(path[s]) \in Seq(P!Dirs) /\ P!Theirs(Tail(path[s])) = Tail(wanted[s])
          BY <2>2, <4>1, <4>3
        <5>2. Tail(wanted[s]) \in Seq(P!Dirs)
          BY <5>1, WithoutType DEF P!Theirs
        <5> QED  BY <3>2, <4>3, <5>1, <5>2
      <4> QED  BY <4>2, <4>3
    <3> QED  BY <2>1, <3>1, <3>2
  <2>4. /\ path' \in [P!Scopes -> Seq(P!Dirs)] /\ path'[s] = p
        /\ wanted' \in [P!Scopes -> Seq(P!Dirs)] /\ wanted'[s] = w
        /\ \A t \in P!Scopes \ {s} : path'[t] = path[t] /\ wanted'[t] = wanted[t]
    BY <2>1, <2>2, <2>3
  <2>5. P!EntriesKept'
    <3>1. ASSUME NEW t \in P!Scopes \ lost'
          PROVE  P!Theirs(path'[t]) = wanted'[t]
      <4>1. t \notin lost
        BY <2>2, <3>1
      <4>2. CASE t = s
        BY <2>3, <2>4, <4>1, <4>2
      <4>3. CASE t # s
        BY <2>4, <4>1, <4>3 DEF P!EntriesKept
      <4> QED  BY <4>2, <4>3
    <3> QED  BY <3>1 DEF P!EntriesKept, P!Theirs
  <2>6. PathRead'
    <3>1. pc \in {"wiring", "dropping"} /\ scope \notin lost' => P!Theirs(seen) = wanted'[scope]
      <4>1. CASE pc \in {"wiring", "dropping"} /\ scope \notin lost'
        <5>1. scope # s /\ scope \notin lost /\ scope \in P!Scopes
          BY <2>1, <2>2, <4>1, PathTypes
        <5> QED  BY <2>4, <4>1, <5>1 DEF PathRead
      <4> QED  BY <4>1
    <3> QED  BY <1>1, <2>1, <2>2, <3>1 DEF PathRead, P!Theirs
  <2>7. P!TypeOK'
    BY <1>1, <2>1, <2>2, <2>4 DEF P!TypeOK
  <2>8. PathDecided'
    BY <1>1, <2>1 DEF PathDecided
  <2> QED  BY <1>2, <2>5, <2>6, <2>7, <2>8
<1>4. CASE \E s \in P!Scopes \ odd :
          /\ odd' = odd \cup {s} /\ lost' = lost \cup {s}
          /\ UNCHANGED <<path, wanted, uses, foreign, raced>>
  <2>1. /\ odd' \subseteq lost' /\ lost \subseteq lost' /\ lost' \subseteq P!Scopes
        /\ odd' \subseteq P!Scopes
        /\ UNCHANGED <<path, wanted, uses, foreign, raced>>
    BY <1>4 DEF P!TypeOK, PathRead
  <2>2. P!TypeOK'
    BY <1>1, <2>1 DEF P!TypeOK
  <2>3. P!EntriesKept' /\ PathRead'
    BY <1>1, <2>1 DEF P!EntriesKept, P!Theirs, PathRead
  <2>4. PathDecided'
    BY <1>1, <2>1 DEF PathDecided
  <2> QED  BY <1>2, <2>2, <2>3, <2>4
<1>5. CASE UNCHANGED <<path, odd, wanted, lost>>
  <2>1. /\ uses' \in {"none", "registered", "running"} /\ raced' \in BOOLEAN /\ foreign' \in BOOLEAN
        /\ raced' = TRUE \/ (pc = "remove" => raced' = raced /\ uses' = uses)
    <3>1. \/ /\ uses' \in {"none", "registered", "running"} \ {uses}
             /\ raced' = (raced \/ pc = "remove") /\ foreign' = foreign
          \/ foreign' = ~foreign /\ uses' = uses /\ raced' = raced
          \/ foreign' = foreign /\ uses' = uses /\ raced' = raced
      BY DEF P!WindowsEdit
    <3> QED  BY <3>1, PathTypes DEF P!TypeOK
  <2>2. P!TypeOK'
    BY <1>1, <1>5, <2>1 DEF P!TypeOK
  <2>3. P!EntriesKept' /\ PathRead'
    BY <1>1, <1>5 DEF P!EntriesKept, P!Theirs, PathRead
  <2>4. PathDecided'
    BY <1>1, <2>1 DEF PathDecided
  <2> QED  BY <1>2, <2>2, <2>3, <2>4
<1> QED  BY <1>3, <1>4, <1>5 DEF P!WindowsEdit, P!win

LEMMA PathStutters ==
  ASSUME PathInvariant, UNCHANGED P!vars
  PROVE  PathInvariant'
<1> USE DEF PathInvariant
<1>1. UNCHANGED <<os, elevated, base, closed, safe, fragment, files, link, placed, foreign, path, odd,
                  old, uses, pc, bin, verdict, wired, seen, scope, current, failed, wanted, lost,
                  raced, runs, edits>>
  BY DEF P!vars, P!host, P!unix, P!win, P!mine, P!hist
<1>2. P!TypeOK'
  BY <1>1 DEF P!TypeOK
<1>3. P!LoginPath' = P!LoginPath /\ P!ReachableDir' = P!ReachableDir /\ P!Text(scope)' = P!Text(scope)
  BY <1>1 DEF P!LoginPath, P!WithFragment, P!ReachableDir, P!Text
<1>4. P!EntriesKept' /\ PathShape' /\ PathRead' /\ PathLinked' /\ PathDecided'
  BY <1>1, <1>3 DEF P!EntriesKept, P!Theirs, PathShape, PathRead, PathLinked, PathDecided
<1>5. PathWired' /\ PathDropped'
  BY <1>1, <1>3 DEF PathWired, PathDropped, PathCleared
<1> QED  BY <1>2, <1>4, <1>5

(* The first copy a new login shell comes to is the one installed, unless  *)
(* another is in the way: after the fallback on Linux, the root is in      *)
(* front of the directory whose copy does not count.                       *)
LEMMA PathResolves ==
  ASSUME PathInvariant
  PROVE  P!CleanRunResolves
<1> USE DEF PathInvariant
<1> SUFFICES ASSUME pc = "verify", ~failed, \A i \in DOMAIN P!LoginPath : ~P!InTheWay(P!LoginPath[i]),
                    files["profile"] # "mention"
             PROVE  P!Resolves
  BY DEF P!CleanRunResolves
<1> DEFINE lp == P!LoginPath
<1>1. bin \in placed /\ P!Copy(bin) = bin
  <2>1. bin \in placed /\ placed \subseteq {"root", "custom", "home"}
    BY DEF PathLinked, P!TypeOK
  <2> QED  BY <2>1 DEF P!Copy
<1>2. lp \in Seq(P!Dirs)
  <2>1. CASE os = "windows"
    BY <2>1, PathTypes, EmptySeq, ConcatProperties DEF P!LoginPath
  <2>2. CASE os # "windows"
    BY <2>2, LoginPathHas DEF LoginPathComplete
  <2> QED  BY <2>1, <2>2
<1>3. \E d \in P!Dirs : P!Contains(lp, d) /\ P!Copy(d) = bin
  <2>1. CASE os = "windows"
    <3> DEFINE m == IF "machine" \in odd THEN <<>> ELSE path["machine"]
    <3>1. m \in Seq(P!Dirs) /\ path["user"] \in Seq(P!Dirs)
      BY PathTypes, EmptySeq
    <3>2. lp = m \o path["user"] /\ P!Contains(path["user"], bin)
      BY <2>1 DEF P!LoginPath, PathWired
    <3> HIDE DEF m
    <3>3. P!Contains(lp, bin)
      BY <3>1, <3>2, ContainsConcat
    <3> QED  BY <1>1, <3>3, PathTypes
  <2>2. CASE os # "windows" /\ elevated
    <3>1. P!Contains(lp, P!ReachableDir)
      BY <2>2 DEF PathWired
    <3>2. P!Copy(P!ReachableDir) = bin
      <4>1. CASE bin = "root" /\ verdict
        BY <1>1, <2>2, <4>1 DEF P!ReachableDir, P!Copy, PathLinked, P!TypeOK
      <4>2. CASE ~(bin = "root" /\ verdict)
        BY <1>1, <4>2 DEF P!ReachableDir
      <4> QED  BY <4>1, <4>2
    <3>3. P!ReachableDir \in P!Dirs
      BY PathTypes DEF P!ReachableDir, P!Dirs
    <3> QED  BY <3>1, <3>2, <3>3
  <2>3. CASE os # "windows" /\ ~elevated
    <3>1. files["profile"] = "line" /\ bin = "home"
      BY <2>3, PathTypes DEF PathWired, PathShape
    <3>2. "home" \in P!Dirs
      BY DEF P!Dirs
    <3> DEFINE w == P!WithFragment(base)
    <3>3. lp = <<"home">> \o w
      BY <2>3, <3>1 DEF P!LoginPath
    <3>4. w \in Seq(P!Dirs) /\ <<"home">> \in Seq(P!Dirs)
      BY <3>2, WithFragmentType
    <3> HIDE DEF w
    <3>5. P!Contains(<<"home">>, "home")
      BY DEF P!Contains
    <3>6. P!Contains(lp, "home")
      BY <3>3, <3>4, <3>5, ContainsConcat
    <3> QED  BY <1>1, <3>1, <3>2, <3>6
  <2> QED  BY <2>1, <2>2, <2>3
<1> DEFINE Found == {i \in DOMAIN lp : P!Copy(lp[i]) = bin}
<1>4. DOMAIN lp = 1..Len(lp) /\ Len(lp) \in Nat
  BY <1>2, LenProperties
<1>5. Found # {} /\ Found \in SUBSET Nat
  <2> HIDE DEF lp
  <2> QED  BY <1>3, <1>4 DEF P!Contains
<1>6. PICK i \in Found : \A j \in Found : i <= j
  BY <1>5, NatMin
<1>7. ASSUME NEW j \in 1..(i - 1)
      PROVE  P!Copy(lp[j]) = "none"
  <2>1. j \in DOMAIN lp /\ j \notin Found /\ i \in Nat /\ j < i
    <3> HIDE DEF lp
    <3> QED  BY <1>4, <1>6, <1>7
  <2> SUFFICES ASSUME P!Copy(lp[j]) # "none"
               PROVE  FALSE
    OBVIOUS
  <2>2. /\ lp[j] = "veneer" /\ os = "linux" /\ bin = "root" /\ ~verdict
        /\ ~P!Contains(base, "root")
    BY <2>1 DEF P!InTheWay
  <2>3. elevated /\ P!ReachableDir = "root" /\ P!Contains(lp, "root")
    BY <2>2, PathTypes DEF PathShape, P!ReachableDir, PathWired
  <2> DEFINE own == IF files["profile"] = "line" THEN <<"home">> ELSE <<>>
             w == P!WithFragment(base)
  <2>4. lp = own \o w
    BY <2>2 DEF P!LoginPath
  <2>5. /\ own \in Seq(P!Dirs) /\ w \in Seq(P!Dirs) /\ base \in Seq(P!Dirs)
        /\ ~P!Contains(own, "root")
    <3>1. "home" \in P!Dirs
      BY DEF P!Dirs
    <3>2. ~P!Contains(<<"home">>, "root") /\ ~P!Contains(<<>>, "root")
      BY DEF P!Contains
    <3>3. <<"home">> \in Seq(P!Dirs) /\ <<>> \in Seq(P!Dirs)
      BY <3>1
    <3> QED  BY <3>2, <3>3, WithFragmentType, PathTypes
  <2>6. P!Contains(w, "root")
    <3> HIDE DEF own, w, lp
    <3> QED  BY <2>3, <2>4, <2>5, ContainsConcat
  <2>7. fragment.dir = "root" /\ w = <<"root">> \o base
    <3>1. fragment.dir \notin {"none", "torn"} /\ ~P!Contains(base, fragment.dir)
      BY <2>2, <2>6 DEF P!WithFragment
    <3>2. fragment.dir \in P!Dirs
      BY <3>1 DEF P!TypeOK, P!Dirs
    <3>3. fragment.dir = "root"
      <4> SUFFICES ASSUME fragment.dir # "root"
                   PROVE  FALSE
        OBVIOUS
      <4>1. ~P!Contains(<<fragment.dir>>, "root") /\ <<fragment.dir>> \in Seq(P!Dirs)
        BY <3>2 DEF P!Contains
      <4>2. w = <<fragment.dir>> \o base \/ w = Append(base, fragment.dir)
        BY <3>1 DEF P!WithFragment
      <4>3. CASE w = <<fragment.dir>> \o base
        <5> DEFINE one == <<fragment.dir>>
        <5>1. one \in Seq(P!Dirs) /\ base \in Seq(P!Dirs) /\ ~P!Contains(one, "root")
              /\ P!Contains(one \o base, "root") /\ ~P!Contains(base, "root")
          BY <2>2, <2>5, <2>6, <4>1, <4>3
        <5> HIDE DEF one
        <5> QED  BY <5>1, ContainsConcat
      <4>4. CASE w = Append(base, fragment.dir)
        BY <2>2, <2>5, <2>6, <3>2, <4>4, ContainsAppend
      <4> QED  BY <4>2, <4>3, <4>4
    <3> QED  BY <2>2, <3>1, <3>3 DEF P!WithFragment, PathShape
  <2>8. P!Copy("root") = bin
    BY <1>1, <2>2
  <2>9. CASE files["profile"] = "line"
    <3>1. own = <<"home">> /\ lp = <<"home">> \o (<<"root">> \o base)
      BY <2>4, <2>7, <2>9
    <3>2. lp[1] = "home" /\ lp[2] = "root" /\ 2 \in DOMAIN lp
      BY <2>5, <3>1
    <3>3. i <= 2
      BY <1>6, <2>8, <3>2
    <3>4. j = 1
      BY <2>1, <3>3
    <3> QED  BY <2>2, <3>2, <3>4
  <2>10. CASE files["profile"] # "line"
    <3>1. lp = <<>> \o (<<"root">> \o base)
      BY <2>4, <2>7, <2>10
    <3>2. lp[1] = "root" /\ 1 \in DOMAIN lp
      BY <2>5, <3>1
    <3>3. i <= 1
      BY <1>6, <2>8, <3>2
    <3> QED  BY <2>1, <3>3
  <2> QED  BY <2>9, <2>10
<1> QED  BY <1>6, <1>7 DEF P!Resolves

LEMMA PathHolds ==
  ASSUME PathInvariant
  PROVE  P!TypeOK /\ P!WiringHolds
<1>1. P!CleanRunClears
  <2>1. ASSUME pc = "verify", ~failed, os = "windows", NEW s \in P!Scopes \ odd
        PROVE  ~P!Contains(path[s], "old")
    <3>1. PathCleared("machine") /\ PathCleared("user")
      BY <2>1 DEF PathInvariant, PathDropped
    <3> QED  BY <2>1, <3>1 DEF PathCleared, P!Scopes
  <2>2. ASSUME pc = "verify", ~failed, os # "windows"
        PROVE  verdict \/ link # "root"
    BY <2>2 DEF PathInvariant, PathLinked
  <2> QED  BY <2>1, <2>2 DEF P!CleanRunClears
<1> QED  BY <1>1, PathResolves DEF PathInvariant, P!WiringHolds

LEMMA PathStep ==
  ASSUME PathInvariant, P!Next \/ UNCHANGED P!vars
  PROVE  PathInvariant'
BY PathStutters, PathBegins, PathRootWires, PathUserWires, PathReads, PathWrites, PathLinks,
   PathDecides, PathRemoves, PathReadsToDrop, PathDrops, PathVerifies, PathCrashes, PathUnixEdits,
   PathWindowsEdits DEF P!Next

LEMMA PathAlways == Spec => [](which = "path" => PathInvariant)
<1>1. Init => (which = "path" => PathInvariant)
  BY PathStarts DEF Init
<1>2. (which = "path" => PathInvariant) /\ [Next]_vars => (which = "path" => PathInvariant)'
  <2> SUFFICES ASSUME which = "path" => PathInvariant, [Next]_vars, which' = "path"
               PROVE  PathInvariant'
    OBVIOUS
  <2>1. which = "path" /\ (P!Next \/ UNCHANGED P!vars)
    BY DEF Next, vars, P!vars, P!host, P!unix, P!win, P!mine, P!hist
  <2> QED  BY <2>1, PathStep
<1> QED  BY <1>1, <1>2, PTL DEF Spec

(* What others have on the Windows PATH stays there in its order, and a    *)
(* run in which nothing fails and nobody interferes leaves a login shell   *)
(* that finds the copy installed, unless another is in the way, no link in *)
(* a directory not to be relied on and no entry of the superseded root;    *)
(* for any number of runs and edits and a PATH of any length (paths.rs,    *)
(* supersede.rs, pathcheck.rs).                                            *)
THEOREM PathIsWired == Spec => []WiringHolds
<1>1. (which = "path" => PathInvariant) => WiringHolds
  BY PathHolds DEF WiringHolds
<1> QED  BY <1>1, PathAlways, PTL

(* Only the removal changes what the superseded root holds.                *)
LEMMA PathNeeded ==
  ASSUME PathInvariant, P!Next, old' # old
  PROVE  raced \/ (uses = "none" /\ "root" \in placed)
<1>1. P!RemoveRoot /\ pc = "remove" /\ uses # "running" /\ old' = old \ {"dign"}
  BY DEF P!Next, P!Begin, P!RootAddToPath, P!UserAddToPath, P!ReadUserPath, P!WriteUserPath,
     P!LinkProtectedClis, P!RemoveSupersededRoots, P!RemoveRoot, P!ReadToDrop, P!Drop, P!VerifyClis,
     P!Crash, P!UnixEdit, P!WindowsEdit
<1>2. raced \/ (uses # "registered" /\ old \subseteq current)
  BY <1>1 DEF PathInvariant, PathDecided
<1>3. "dign" \in old
  BY <1>1
<1> QED  BY <1>1, <1>2, <1>3 DEF PathInvariant, PathDecided, P!TypeOK

(* The superseded root loses a program only if nobody is known to need it  *)
(* and the current root has it, or it could not be listed or came into use *)
(* after the decision (supersede.rs, decide and remove_root).              *)
THEOREM OldRootStays == Spec => OldRootNeeded
<1>1. (which = "path" => PathInvariant) /\ [Next]_vars =>
        [old' # old => raced \/ (uses = "none" /\ "root" \in placed)]_P!vars
  <2> SUFFICES ASSUME which = "path" => PathInvariant, [Next]_vars, P!vars' # P!vars
               PROVE  old' # old => raced \/ (uses = "none" /\ "root" \in placed)
    OBVIOUS
  <2>1. Next
    BY DEF vars, P!vars, P!host, P!unix, P!win, P!mine, P!hist
  <2>2. CASE which = "path" /\ P!Next
    BY <2>2, PathNeeded
  <2>3. CASE old' = old
    BY <2>3
  <2> QED  BY <2>1, <2>2, <2>3 DEF Next, HRest, FRest, URest, DRest, LRest
<1> QED  BY <1>1, PathAlways, PTL DEF Spec, OldRootNeeded, P!OldRootNeeded

================================================================================
