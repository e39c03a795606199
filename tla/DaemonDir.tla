------------------------------ MODULE DaemonDir ------------------------------
(***************************************************************************)
(* The machine-wide state folders of the daemons (daemon_dir.rs): a run    *)
(* with dig-node or dig-dns in it makes each daemon's folder, gives it to  *)
(* the system, replaces its access list and reads that list back before    *)
(* the folder is reported as locked.  Before an install any user of the    *)
(* machine may have made the folder (the parent lets them), also while the *)
(* run is on it, and between its creation and its access list it inherits  *)
(* the parent's list, which lets every user write into it.  Everything the *)
(* run knows of the folder comes from tools that may fail, or exit cleanly *)
(* having done nothing.                                                    *)
(*                                                                         *)
(* `grants` is the explicit part of a folder's access list; `inherits`     *)
(* says the parent's part is still in force.  `files` says whose files     *)
(* are in the folder: the daemon's, those a user put into a folder of      *)
(* theirs before a run came to it, and those a user put in while a run had *)
(* it in hand, or into one a run had left open.                            *)
(***************************************************************************)
EXTENDS Naturals, FiniteSets

CONSTANTS
  USERS,     \* the people who run the installer
  MaxRuns,
  MaxFaults  \* bounds the failures and crashes

VARIABLES
  os,       \* "windows" or "unix"
  folder,   \* per daemon: what is on the disk
  step,     \* what the run does next; "idle" between runs
  at,       \* the daemon whose folder the run is on
  sid,      \* whoever runs the installer
  result,   \* per daemon: the row of the last run
  found,    \* history: the folder when its turn came, and what was read of it
  taken,    \* history: the folders taken from a user for a removal that failed
  runs,
  faults

vars == <<os, folder, step, at, sid, result, found, taken, runs, faults>>

DAEMONS == {"dig-node", "dig-dns"}
TRUSTED == {"system", "admins"}
OWNERS == TRUSTED \cup {"user"}
PARTIES == {"system", "admins", "everyone"} \cup USERS
FILES == {"daemon", "before", "during"}
STEPS == {"idle", "look", "create", "owner", "reset", "grant", "verify", "mode"}

Folder == [exists : BOOLEAN, owner : OWNERS, grants : SUBSET PARTIES,
           inherits : BOOLEAN, files : SUBSET FILES]
Absent == [exists |-> FALSE, owner |-> "system", grants |-> {}, inherits |-> FALSE,
           files |-> {}]
Made(who) == [exists |-> TRUE, owner |-> who, grants |-> {}, inherits |-> TRUE, files |-> {}]
Required(u) == {"system", "admins", u}
Row(created, applied) == [created |-> created, applied |-> applied]
Unseen == [trusted |-> FALSE, known |-> FALSE, kept |-> FALSE]

Later(d) == IF d = "dig-node" THEN {"dig-dns"} ELSE {}

(* An earlier install's folders, a user's, or none.                        *)
Init ==
  /\ os \in {"windows", "unix"}
  /\ folder \in [DAEMONS -> {Absent, Made("user")}]
  /\ os = "unix" => folder = [d \in DAEMONS |-> Absent]
  /\ step = "idle" /\ at = "dig-node"
  /\ sid = CHOOSE u \in USERS : TRUE
  /\ result = [d \in DAEMONS |-> Row(FALSE, FALSE)]
  /\ found = [d \in DAEMONS |-> Unseen] /\ taken = {}
  /\ runs = 0 /\ faults = 0

Fault == faults < MaxFaults /\ faults' = faults + 1
NoFault == UNCHANGED faults

(* On to the next daemon's folder with this row for the present one.       *)
Report(row) ==
  /\ result' = [result EXCEPT ![at] = row]
  /\ IF Later(at) = {} THEN step' = "idle" /\ UNCHANGED at
                       ELSE step' = "look" /\ at' \in Later(at)

Running == step # "idle" /\ UNCHANGED <<os, sid, runs>>

(* A run starts over the daemons' folders, first of all asking who runs    *)
(* it: an answer that is no person (the system itself, a group, none)      *)
(* refuses every folder.                                                   *)
Begin ==
  /\ step = "idle" /\ runs < MaxRuns
  /\ runs' = runs + 1
  /\ sid' \in USERS
  /\ step' = "look" /\ at' = "dig-node"
  /\ result' = [d \in DAEMONS |-> Row(FALSE, FALSE)]
  /\ found' = [d \in DAEMONS |-> Unseen]
  /\ UNCHANGED <<os, folder, taken, faults>>

NoPerson ==
  /\ Running /\ step = "look" /\ os = "windows"
  /\ Fault /\ Report(Row(FALSE, FALSE))
  /\ UNCHANGED <<folder, found, taken>>

(* The owner of a folder that is there, as the tool tells it: none at all  *)
(* when the tool fails.                                                    *)
dir_owner_sid(d) ==
  {[owner |-> folder[d].owner, fault |-> FALSE], [owner |-> "none", fault |-> TRUE]}

Trusts(owner) == owner \in TRUSTED

Reads(d) == IF folder[d].exists /\ os = "windows" THEN dir_owner_sid(d)
            ELSE {[owner |-> "system", fault |-> FALSE]}

(* What each tool makes of the folder when it does its work.               *)
setowner_system(f) == [f EXCEPT !.owner = "system"]
reset_dacl(f) == [f EXCEPT !.grants = {}, !.inherits = TRUE]
lockdown_grant(f) == [f EXCEPT !.grants = @ \cup Required(sid), !.inherits = FALSE]

(* remove_dir_all: the folder goes, or it stays with some of its files.    *)
Removed(d) == folder' = [folder EXCEPT ![d] = Absent] /\ taken' = taken \ {d}
HalfRemoved(d, f) ==
  \E left \in SUBSET f.files : folder' = [folder EXCEPT ![d] = [f EXCEPT !.files = left]]

(* A folder that is not trusted is given to the system with all in it, so  *)
(* that it can be removed, and removed.  The tool that gives it may do     *)
(* nothing, and what it says is not looked at; a removal that fails leaves *)
(* the folder in the system's hands, and the run refuses it.               *)
Purge ==
  \/ Removed(at) /\ step' = "create" /\ UNCHANGED <<at, result>>
  \/ /\ \/ HalfRemoved(at, setowner_system(folder[at]))
           /\ taken' = IF Trusts(folder[at].owner) THEN taken ELSE taken \cup {at}
        \/ HalfRemoved(at, folder[at]) /\ UNCHANGED taken
     /\ Report(Row(FALSE, FALSE))

(* The look at what is there: a folder in any hands but the system's or an *)
(* administrator's is removed whole, or the folder is refused.             *)
Look ==
  /\ Running /\ step = "look"
  /\ \E read \in Reads(at) :
       /\ found' = [found EXCEPT ![at] =
            [trusted |-> folder[at].owner \in TRUSTED, known |-> ~read.fault,
             kept |-> "daemon" \in folder[at].files]]
       /\ IF read.fault THEN Fault ELSE NoFault
       /\ IF folder[at].exists /\ ~Trusts(read.owner)
            THEN Purge
            ELSE step' = "create" /\ UNCHANGED <<folder, taken, at, result>>

(* create_dir_all: a folder that is there stays as it is, also one a user  *)
(* has made since the look.                                                *)
Create ==
  /\ Running /\ step = "create" /\ UNCHANGED <<found, taken>>
  /\ \/ /\ NoFault
        /\ folder' = [folder EXCEPT ![at] = IF @.exists THEN @ ELSE Made("admins")]
        /\ result' = [result EXCEPT ![at] = Row(TRUE, FALSE)]
        /\ step' = IF os = "windows" THEN "owner" ELSE "mode"
        /\ UNCHANGED at
     \/ Fault /\ Report(Row(FALSE, FALSE)) /\ UNCHANGED folder

(* A step of the lockdown that fails takes the folder away again; what the *)
(* removal says of itself is not looked at.                                *)
GiveUp ==
  /\ Removed(at) \/ (HalfRemoved(at, folder[at]) /\ UNCHANGED taken)
  /\ Report(Row(FALSE, FALSE))

Worked(f) == folder' = [folder EXCEPT ![at] = f] /\ UNCHANGED taken

(* One tool of the lockdown: it works, it exits cleanly with nothing done, *)
(* or it fails.                                                            *)
Tool(this, effect, next) ==
  /\ Running /\ step = this /\ UNCHANGED found
  /\ \/ NoFault /\ Worked(effect) /\ step' = next /\ UNCHANGED <<at, result>>
     \/ Fault /\ step' = next /\ UNCHANGED <<folder, taken, at, result>>
     \/ Fault /\ GiveUp

SetOwner == Tool("owner", setowner_system(folder[at]), "reset")
Reset == Tool("reset", reset_dacl(folder[at]), "grant")
Grant == Tool("grant", lockdown_grant(folder[at]), "verify")

(* Mutant: the read-back looks for what is missing and not for what is     *)
(* left over.                                                              *)
VerifiedAsEnough(f) ==
  ~f.inherits /\ "everyone" \notin f.grants /\ Trusts(f.owner) /\ Required(sid) \subseteq f.grants

(* The read-back passes only a list that is exactly the one asked for, in  *)
(* the hands of the system or an administrator.                            *)
verify_locked_dacl(f) ==
  /\ ~f.inherits
  /\ "everyone" \notin f.grants
  /\ Trusts(f.owner)
  /\ Required(sid) \subseteq f.grants
  /\ f.grants \subseteq Required(sid)

Verify ==
  /\ Running /\ step = "verify" /\ UNCHANGED found
  /\ \/ /\ NoFault /\ verify_locked_dacl(folder[at])
        /\ Report(Row(TRUE, TRUE)) /\ UNCHANGED <<folder, taken>>
     \/ NoFault /\ ~verify_locked_dacl(folder[at]) /\ GiveUp
     \/ Fault /\ GiveUp

(* Unix: the mode closes the folder to everyone but root; the read access  *)
(* of the invoking user is tried and not looked at.                        *)
closed(f, acl) ==
  [f EXCEPT !.inherits = FALSE, !.grants = @ \cup (IF acl THEN {"system", sid} ELSE {"system"})]

Mode ==
  /\ Running /\ step = "mode" /\ UNCHANGED found
  /\ \/ \E acl \in BOOLEAN :
          /\ Worked(closed(folder[at], acl))
          /\ IF acl THEN NoFault ELSE Fault
          /\ Report(Row(TRUE, TRUE))
     \/ Fault /\ GiveUp

(* The run is killed where it is; its rows are lost with it.               *)
Crash ==
  /\ Running /\ Fault
  /\ step' = "idle" /\ result' = [d \in DAEMONS |-> Row(FALSE, FALSE)]
  /\ UNCHANGED <<folder, at, found, taken>>

(* A daemon writes its state between runs.                                 *)
DaemonWrites ==
  /\ step = "idle"
  /\ \E d \in DAEMONS :
       /\ folder[d].exists /\ "daemon" \notin folder[d].files
       /\ folder' = [folder EXCEPT ![d].files = @ \cup {"daemon"}]
  /\ UNCHANGED <<os, step, at, sid, result, found, taken, runs, faults>>

(* A user makes a folder that is not there, at any time.                   *)
UserMakes ==
  /\ os = "windows"
  /\ \E d \in DAEMONS :
       ~folder[d].exists /\ folder' = [folder EXCEPT ![d] = Made("user")]
  /\ UNCHANGED <<os, step, at, sid, result, found, taken, runs, faults>>

(* A user puts a file into a folder that lets them: one of theirs that no  *)
(* run has looked at, or any other.                                        *)
InHand(d) == step \notin {"idle", "look"} /\ d = at

UserWrites ==
  /\ os = "windows"
  /\ \E d \in DAEMONS :
       LET tag == IF folder[d].owner = "user" /\ ~InHand(d) THEN "before" ELSE "during" IN
       /\ folder[d].exists /\ folder[d].inherits
       /\ tag \notin folder[d].files
       /\ folder' = [folder EXCEPT ![d].files = @ \cup {tag}]
  /\ UNCHANGED <<os, step, at, sid, result, found, taken, runs, faults>>

Next ==
  \/ Begin \/ NoPerson \/ Look \/ Create \/ SetOwner \/ Reset \/ Grant \/ Verify \/ Mode
  \/ Crash \/ DaemonWrites \/ UserMakes \/ UserWrites

Spec == Init /\ [][Next]_vars

------------------------------------------------------------------------------
(* The types of the state.                                                 *)
TypeOK ==
  /\ os \in {"windows", "unix"}
  /\ folder \in [DAEMONS -> Folder]
  /\ step \in STEPS /\ at \in DAEMONS /\ sid \in USERS
  /\ result \in [DAEMONS -> [created : BOOLEAN, applied : BOOLEAN]]
  /\ found \in [DAEMONS -> [trusted : BOOLEAN, known : BOOLEAN, kept : BOOLEAN]]
  /\ taken \subseteq DAEMONS
  /\ runs \in 0..MaxRuns /\ faults \in 0..MaxFaults

(* A folder reported as locked is there, owned by the system or an         *)
(* administrator and open to exactly the three parties asked for -- not to *)
(* the person of an earlier run --, whatever tools exited cleanly without  *)
(* doing their work.                                                       *)
AppliedMeansLocked ==
  \A d \in DAEMONS : result[d].applied =>
    /\ folder[d].exists /\ ~folder[d].inherits
    /\ os = "windows" => Trusts(folder[d].owner) /\ folder[d].grants = Required(sid)

(* No file a user put into a folder of theirs before a run came to it is   *)
(* in the folder that this or any later run reports as locked, whatever    *)
(* failed or was killed and whatever was made again in between -- except   *)
(* in a folder an earlier run had already taken from its owner and failed  *)
(* to remove: the next run takes that one for the system's.                *)
UsersFilesGone ==
  \A d \in DAEMONS : result[d].applied /\ d \notin taken => "before" \notin folder[d].files

(* What a daemon keeps in a folder of the system's survives a run that     *)
(* reports the folder as locked, unless its owner could not be read.       *)
DaemonKeepsState ==
  \A d \in DAEMONS :
    result[d].applied /\ found[d].kept /\ found[d].trusted /\ found[d].known
    => "daemon" \in folder[d].files

(* A row never stops half way: between runs a folder is reported as        *)
(* created only with its access list in place.                             *)
NoOpenFolderReported ==
  step = "idle" => \A d \in DAEMONS : result[d].created = result[d].applied

(* What a row of the report promises of a daemon's folder: its access list *)
(* and its content.                                                        *)
FolderHolds ==
  AppliedMeansLocked /\ UsersFilesGone /\ DaemonKeepsState /\ NoOpenFolderReported

=============================================================================
