----------------------------- MODULE AtomicInstall -----------------------------
(***************************************************************************)
(* What a run of the installer promises of the programs in the install     *)
(* root: seen from outside, it is one step.  It commits, and each program  *)
(* is as it was, or the release, or due to become the release at the next  *)
(* restart; or it aborts, and all are as they were but those it says it    *)
(* could not put back; or it dies, and the promise is void.                *)
(***************************************************************************)
CONSTANTS Files, Contents, Absent, Torn, Latest

VARIABLES
  store,   \* what each path holds, and what the next restart moves there
  open,    \* a run is in progress
  lost     \* what the last run, having failed, could not put back

Vars == <<store, open, lost>>

Slot(now, next) == [now |-> now, next |-> next]

Init ==
  /\ store \in [Files -> {Slot(c, Absent) : c \in Contents \ {Torn}}]
  /\ open = FALSE /\ lost = {}

Open == ~open /\ open' = TRUE /\ lost' = {} /\ UNCHANGED store

Installed(f) == {store[f], Slot(Latest, store[f].next), Slot(store[f].now, Latest)}

Commit ==
  /\ open /\ open' = FALSE /\ lost' = {}
  /\ DOMAIN store' = Files
  /\ \A f \in Files : store'[f] \in Installed(f)

Abort ==
  /\ open /\ open' = FALSE
  /\ lost' \subseteq Files /\ DOMAIN store' = Files
  /\ \A f \in Files \ lost' : store'[f] = store[f]

Promoted(s) == Slot(IF s.next = Absent THEN s.now ELSE s.next, Absent)

(* A run that dies leaves each program before, in the middle of, or after  *)
(* its replacement; the machine may have gone down with it.                *)
Halfway(f) == Installed(f) \cup {Slot(Torn, store[f].next)}

Die ==
  /\ open /\ open' = FALSE /\ lost' = {}
  /\ DOMAIN store' = Files
  /\ \A f \in Files : store'[f] \in Halfway(f) \cup {Promoted(s) : s \in Halfway(f)}

Restart ==
  /\ ~open /\ lost' = {} /\ UNCHANGED open
  /\ store' = [f \in Files |-> Promoted(store[f])]

Next == Open \/ Commit \/ Abort \/ Die \/ Restart

Spec == Init /\ [][Next]_Vars
===========================================================================
