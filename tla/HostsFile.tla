------------------------------- MODULE HostsFile -------------------------------
(***************************************************************************)
(* The dig.local entry of the system's hosts file (hosts.rs, and its two   *)
(* callers in lib.rs).  The file belongs to the user and to other programs *)
(* as well; it is read, edited in memory and replaced whole by a rename    *)
(* that is tried several times.  Meanwhile anyone may edit it.             *)
(*                                                                         *)
(* A file is the set of its lines: neither their order nor blank lines and *)
(* comments matter here.  The temporary file the rename uses up is not     *)
(* modelled.                                                               *)
(***************************************************************************)
EXTENDS Naturals

CONSTANTS MaxEdits, MaxRuns     \* bounds: edits by others, and runs

DIG_LOCAL_IP     == "127.0.0.2"
DIG_LOCAL_HOST   == "dig.local"
REPLACE_ATTEMPTS == 5

Lines == [ip : {DIG_LOCAL_IP, "127.0.0.1", "lan"},
          hosts : {{DIG_LOCAL_HOST}, {"other"}, {DIG_LOCAL_HOST, "other"}},
          mark : BOOLEAN]                       \* carries the MARKER comment

VARIABLES
  file,
  binary,    \* it also has a line that is not UTF-8, and cannot be read as text
  op,        \* what the run does: "install" or "uninstall"
  pc,        \* "idle", "read", "replace", "check"
  new,       \* the contents to be put in place
  attempt,
  report,    \* what the run says, until somebody edits the file: "none", "ok", "failed"
  resolves,  \* what the resolve check said
  (* history *)
  wanted,    \* what others have the file say: <<address, name>>
  lost,      \* the run has replaced what it had not read
  runs, edits

vars == <<file, binary, op, pc, new, attempt, report, resolves, wanted, lost, runs, edits>>

TypeOK ==
  /\ file \subseteq Lines /\ binary \in BOOLEAN /\ new \subseteq Lines
  /\ op \in {"install", "uninstall"} /\ pc \in {"idle", "read", "replace", "check"}
  /\ attempt \in 0..(REPLACE_ATTEMPTS - 1)
  /\ report \in {"none", "ok", "failed"} /\ resolves \in BOOLEAN
  /\ wanted \subseteq {"127.0.0.1", "127.0.0.2", "lan"} \X {DIG_LOCAL_HOST, "other"}
  /\ lost \in BOOLEAN /\ runs \in 0..MaxRuns /\ edits \in 0..MaxEdits

Init ==
  /\ file = {} /\ binary = FALSE /\ op = "install" /\ pc = "idle" /\ new = {} /\ attempt = 0
  /\ report = "none" /\ resolves = FALSE /\ wanted = {} /\ lost = FALSE
  /\ runs = 0 /\ edits = 0

---------------------------------------------------------------------------
(* The edit, on the text of the file.                                      *)
MapsDigLocal(l)          == DIG_LOCAL_HOST \in l.hosts
HasCorrectDigLocal(text) == \E l \in text : MapsDigLocal(l) /\ l.ip = DIG_LOCAL_IP
DigLocalLine == [ip |-> DIG_LOCAL_IP, hosts |-> {DIG_LOCAL_HOST}, mark |-> TRUE]

(* Another machine, in a line that is not ours.                            *)
DeliberateOverride(text) == \E l \in text : MapsDigLocal(l) /\ ~l.mark /\ l.ip = "lan"

(* Every line without the name; a line that has no other goes.             *)
StripDigLocal(text) ==
  {[l EXCEPT !.hosts = @ \ {DIG_LOCAL_HOST}] : l \in {k \in text : k.hosts # {DIG_LOCAL_HOST}}}

EnsureDigLocalEntry(text) ==
  IF HasCorrectDigLocal(text) \/ DeliberateOverride(text) THEN text
  ELSE StripDigLocal(text) \cup {DigLocalLine}

(* Mutant: only the line as it was written is taken out. *)
WithoutTheLine(text) == text \ {DigLocalLine}

WithoutDigLocalEntry(text) == {l \in text : ~l.mark}

---------------------------------------------------------------------------
(* A run: write_dig_local or remove_dig_local.                             *)
Begin ==
  /\ pc = "idle" /\ runs < MaxRuns /\ runs' = runs + 1
  /\ op' \in {"install", "uninstall"} /\ pc' = "read" /\ report' = "none"
  /\ UNCHANGED <<file, binary, new, attempt, resolves, wanted, lost, edits>>

(* A run that is over: after an install comes the resolve check.           *)
Over(says) == pc' = (IF op = "install" THEN "check" ELSE "idle") /\ report' = says

(* What cannot be read is empty for an install, and has nothing to remove  *)
(* for an uninstall.                                                       *)
Read ==
  /\ pc = "read"
  /\ LET text == IF binary THEN {} ELSE file
         then == IF op = "install" THEN EnsureDigLocalEntry(text)
                                   ELSE WithoutDigLocalEntry(text)
     IN  IF then = text THEN Over("ok") /\ UNCHANGED <<new, lost>>
         ELSE /\ pc' = "replace" /\ new' = then
              /\ lost' = (lost \/ binary) /\ UNCHANGED report
  /\ attempt' = 0 /\ UNCHANGED <<file, binary, op, resolves, wanted, runs, edits>>

Replace ==
  /\ pc = "replace" /\ file' = new /\ binary' = FALSE /\ Over("ok")
  /\ UNCHANGED <<op, new, attempt, resolves, wanted, lost, runs, edits>>

(* The temporary file cannot be written, or this was the last attempt.     *)
GiveUp ==
  /\ pc = "replace" /\ attempt \in {0, REPLACE_ATTEMPTS - 1} /\ Over("failed")
  /\ UNCHANGED <<file, binary, op, new, attempt, resolves, wanted, lost, runs, edits>>

Retry ==
  /\ pc = "replace" /\ attempt + 1 < REPLACE_ATTEMPTS /\ attempt' = attempt + 1
  /\ UNCHANGED <<file, binary, op, pc, new, report, resolves, wanted, lost, runs, edits>>

(* The system's resolver is asked, which need not go by the file.          *)
ResolveDigLocal ==
  /\ pc = "check" /\ pc' = "idle" /\ resolves' \in BOOLEAN
  /\ UNCHANGED <<file, binary, op, new, attempt, report, wanted, lost, runs, edits>>

Crash ==
  /\ pc # "idle" /\ pc' = "idle" /\ report' = "none"
  /\ UNCHANGED <<file, binary, op, new, attempt, resolves, wanted, lost, runs, edits>>

(* Somebody else puts a line in, or takes one out: a line of their own, or *)
(* ours, which they may also change.  What they meant by a line of ours is *)
(* not counted, nor that dig.local is this machine.                        *)
Pairs(l) == IF l.mark THEN {} ELSE ({l.ip} \X l.hosts) \ {<<"127.0.0.1", DIG_LOCAL_HOST>>}

Saying(text) == UNION {Pairs(l) : l \in text}

Edit ==
  /\ edits < MaxEdits /\ edits' = edits + 1
  /\ \/ \E l \in Lines \ file :
          /\ l.mark => DigLocalLine \in file
          /\ file' = file \cup {l} /\ wanted' = wanted \cup Pairs(l) /\ UNCHANGED binary
     \/ \E l \in file :
          file' = file \ {l} /\ wanted' = wanted \cap Saying(file') /\ UNCHANGED binary
     \/ binary' = ~binary /\ UNCHANGED <<file, wanted>>
  /\ lost' = (lost \/ pc = "replace") /\ report' = "none"
  /\ UNCHANGED <<op, pc, new, attempt, resolves, runs>>

Next ==
  Begin \/ Read \/ Replace \/ GiveUp \/ Retry \/ ResolveDigLocal \/ Crash \/ Edit

Spec == Init /\ [][Next]_vars

---------------------------------------------------------------------------
(* Whatever the runs do, the file goes on saying what others have put in   *)
(* it, an address of another machine for dig.local included, unless it     *)
(* could not be read or was edited under a run's hands.                    *)
OthersKept == lost \/ wanted \subseteq Saying(file)

(* An install that reports success leaves a file that gives dig.local the  *)
(* node's address or the machine the user chose; after an uninstall that   *)
(* does, nothing of ours is left in a file that can be read.               *)
ReportTrue ==
  report = "ok" =>
    IF op = "install"
    THEN HasCorrectDigLocal(file) \/ DeliberateOverride(file)
    ELSE binary \/ \A l \in file : ~l.mark

(* What a run promises of the hosts file: others' lines, and a true report *)
(* (install_dig_local_entry, remove_dig_local_entry).                      *)
EditsHold == OthersKept /\ ReportTrue

=============================================================================
