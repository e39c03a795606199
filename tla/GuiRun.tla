--------------------------------- MODULE GuiRun ---------------------------------
(***************************************************************************)
(* The graphical installer: the wizard's pages (App.jsx), the worker       *)
(* thread that run_install spawns, the elevated child it may have to ask   *)
(* for, the events between them, and what the run leaves on the machine.   *)
(* Nothing in the back end keeps two workers apart: only the wizard does,  *)
(* by what it lets the user click.                                         *)
(*                                                                         *)
(* Clicks come when every event already sent has been handled: the event   *)
(* loop is faster than a hand.  A worker's last events leave in one step.  *)
(***************************************************************************)
EXTENDS Naturals, Sequences

CONSTANTS
  BROWSERS,    \* browsers that are installed
  MaxRuns,     \* how often Install or Retry is clicked
  MaxToggles   \* how often the user changes a check box

VARIABLES
  os, elevated, system, tool,   \* the platform, the token, pkexec or osascript there
  open, page, sel, found, checked, known, detecting,   \* the wizard
  runs, toggles,                \* the two counts that are bounded
  token, listening,             \* installToken, tokens of the registered listeners
  full, message,                \* pct >= 100, and the error shown
  cancelled, workers, events,   \* the shared flag, the threads, the events on their way
  cli, extras, policy,          \* digstore, the other components, browsers forced
  changed, asked, off           \* history: see the properties

ui == <<open, page, sel, found, checked, known, detecting, toggles>>
machine == <<cli, extras, policy>>
host == <<os, elevated, system, tool>>
vars == <<host, ui, runs, token, listening, full, message, cancelled, workers, events,
          machine, changed, asked, off>>

NoList == {"unknown"}    \* browsers === null

-------------------------------------------------------------------------------
(* What a run was asked for decides what it needs.                          *)
wants_extension_forcelist(o) == o.extension /\ o.browsers # {}

(* places_digstore_in_protected_root: on Windows all programs go there.     *)
needs_elevation(o) == os = "windows" \/ o.extras \/ wants_extension_forcelist(o)

Relaunches(o) == needs_elevation(o) /\ ~elevated /\ os # "windows"

(* Every reason to turn a run down comes before its first write.            *)
Refused(o) ==
  \/ system
  \/ needs_elevation(o) /\ ~elevated /\ ~Relaunches(o)
  \/ Relaunches(o) /\ ~tool

should_exec_verify == ~elevated \/ os = "windows"

(* Mutant: the child only installs the components, the parent takes the   *)
(* rest for done.                                                           *)
ForcedByParent(o) == IF wants_extension_forcelist(o) /\ ~Relaunches(o)
                     THEN o.browsers ELSE {}

(* Who is asked to force the extension: the elevated child, when there is   *)
(* one, reads the whole request again and does it as its last step.         *)
Forced(o) == IF wants_extension_forcelist(o) THEN o.browsers ELSE {}

-------------------------------------------------------------------------------
(* The worker thread.                                                       *)
Works(w) == workers[w].pc # "over"
Goes(w, pc) == workers' = [workers EXCEPT ![w].pc = pc]

(* Mutant: the thread relies on run to tell.                              *)
ToldByRun(kind, byRun) == events' = events \o (IF byRun THEN <<kind>> ELSE <<>>)

(* run emits the error itself on most paths; the thread emits what run      *)
(* returned, whatever it is.                                                *)
Told(kind, byRun) == events' = events \o (IF byRun THEN <<kind>> ELSE <<>>) \o <<kind>>

Ends(w, kind, byRun) == Goes(w, "over") /\ Told(kind, byRun)

Orphan(w) == workers[w].orphan

rest == <<host, ui, runs, token, listening, full, message, cancelled, asked, off>>

(* The flag is looked at once, before anything else.                        *)
Start(w) ==
  /\ workers[w].pc = "spawned"
  /\ CASE cancelled              -> Goes(w, "over") /\ UNCHANGED events
       [] ~cancelled /\ Refused(workers[w].opts) -> Ends(w, "refused", TRUE)
       [] OTHER                  -> Goes(w, "payload") /\ UNCHANGED events
  /\ UNCHANGED <<machine, changed>>

(* The payload is read and its checksum compared; then the folder is made.  *)
Payload(w) ==
  /\ workers[w].pc = "payload"
  /\ \/ Goes(w, "unpack") /\ UNCHANGED events
     \/ \E byRun \in BOOLEAN : Ends(w, "failed", byRun)
  /\ UNCHANGED <<machine, changed>>

(* fs::write empties the file in place and then fills it.                   *)
Unpack(w) ==
  /\ workers[w].pc = "unpack"
  /\ cli' = "torn" /\ changed' = TRUE
  /\ Goes(w, "fill")
  /\ UNCHANGED <<events, extras, policy>>

Fill(w) ==
  /\ workers[w].pc = "fill"
  /\ \/ cli' = "whole" /\ Goes(w, "around") /\ UNCHANGED events
     \/ Ends(w, "failed", FALSE) /\ UNCHANGED cli
  /\ UNCHANGED <<extras, policy, changed>>

(* The host runtime's folder must be made; completions, example, PATH and   *)
(* the .dig association only warn.                                          *)
Around(w) ==
  /\ workers[w].pc = "around"
  /\ \/ Goes(w, "verify") /\ UNCHANGED events
     \/ Ends(w, "failed", FALSE)
  /\ UNCHANGED <<machine, changed>>

Verify(w) ==
  LET o == workers[w].opts
      more == o.extras \/ wants_extension_forcelist(o)
      on == IF ~more THEN "done" ELSE IF Relaunches(o) THEN "prompt" ELSE "report"
  IN /\ workers[w].pc = "verify"
     /\ \/ Goes(w, on) /\ UNCHANGED events
        \/ should_exec_verify /\ Ends(w, "failed", TRUE)
     /\ UNCHANGED <<machine, changed>>

(* The user approves the child or not, or it cannot be started; the tool is *)
(* looked for once more.                                                    *)
relaunch_elevated(w) ==
  \/ tool /\ Goes(w, "child") /\ UNCHANGED events
  \/ Ends(w, IF tool THEN "failed" ELSE "refused", TRUE)

(* The plan goes over standard input, on macOS through a file made first.   *)
PromptOnLinux(w) == os = "linux" /\ relaunch_elevated(w)
PromptOnMac(w) ==
  /\ os = "macos"
  /\ \/ relaunch_elevated(w)
     \/ tool /\ Ends(w, "failed", TRUE)

Prompt(w) ==
  /\ workers[w].pc = "prompt"
  /\ PromptOnLinux(w) \/ PromptOnMac(w)
  /\ UNCHANGED <<machine, changed>>

(* A child whose window is gone tells nobody.                               *)
Returns(w, kind) ==
  IF Orphan(w) THEN Goes(w, "over") /\ UNCHANGED events ELSE Ends(w, kind, TRUE)

(* The child makes sure it is root and reads the plan.                      *)
ReadsPlan(w) ==
  \/ Goes(w, "report") /\ UNCHANGED events
  \/ Returns(w, "failed")
ChildOnLinux(w) == os = "linux" /\ ReadsPlan(w)
ChildOnMac(w) == os = "macos" /\ ReadsPlan(w)

Child(w) ==
  /\ workers[w].pc = "child"
  /\ ChildOnLinux(w) \/ ChildOnMac(w)
  /\ UNCHANGED <<machine, changed>>

(* run_report, in this process or in the child.                             *)
Report(w) ==
  /\ workers[w].pc = "report"
  /\ \/ /\ extras' = (extras \/ workers[w].opts.extras)
        /\ Goes(w, "force") /\ UNCHANGED events
     \/ (extras' \in BOOLEAN) /\ Returns(w, "failed")
  /\ changed' = TRUE
  /\ UNCHANGED <<cli, policy>>

(* configure_extension_forcelist_step: every browser is tried, one failure  *)
(* fails the step.                                                          *)
Force(w) ==
  LET want == Forced(workers[w].opts)
  IN /\ workers[w].pc = "force"
     /\ \/ /\ policy' = policy \cup want
           /\ Goes(w, IF Orphan(w) THEN "over" ELSE "done")
           /\ UNCHANGED events
        \/ \E done \in SUBSET want : done # want /\ policy' = policy \cup done
           /\ Returns(w, "failed")
     /\ UNCHANGED <<cli, extras, changed>>

(* Progress of 100 and install://done are sent together.                    *)
Done(w) ==
  /\ workers[w].pc = "done"
  /\ Goes(w, "over") /\ events' = events \o <<"full", "done">>
  /\ UNCHANGED <<machine, changed>>

Worker ==
  /\ \E w \in DOMAIN workers :
       \/ Start(w)  \/ Payload(w) \/ Unpack(w) \/ Fill(w)  \/ Around(w)
       \/ Verify(w) \/ Prompt(w)  \/ Child(w)  \/ Report(w) \/ Force(w)  \/ Done(w)
  /\ UNCHANGED rest

-------------------------------------------------------------------------------
(* Events reach every listener; an error or done takes all of them down.    *)
(* Only the listener of the current token acts.                             *)
Deliver ==
  /\ open /\ events # <<>>
  /\ LET e == Head(events)
         mine == token \in listening
     IN /\ full' = (full \/ (mine /\ e \in {"full", "done"}))
        /\ message' = IF mine /\ e \in {"refused", "failed"} THEN e ELSE message
        /\ listening' = IF e = "full" THEN listening ELSE {}
  /\ events' = Tail(events)
  /\ UNCHANGED <<host, ui, runs, token, cancelled, workers, machine, changed, asked, off>>

-------------------------------------------------------------------------------
(* What the user does.                                                      *)
MayClick == open /\ events = <<>>

OnlyUI == UNCHANGED <<host, runs, token, listening, full, message, cancelled, workers, events,
                      machine, changed, asked>>

ToggleComponent ==
  /\ MayClick /\ page = "components" /\ toggles < MaxToggles
  /\ \E c \in {"extension", "extras"} : sel' = [sel EXCEPT ![c] = ~@]
  /\ toggles' = toggles + 1
  /\ OnlyUI /\ UNCHANGED <<open, page, found, checked, known, detecting, off>>

(* The list can be changed while it is shown.                               *)
ToggleBrowser ==
  /\ MayClick /\ page = "browsers" /\ ~detecting /\ toggles < MaxToggles
  /\ \E b \in found \ NoList :
       /\ checked' = IF b \in checked THEN checked \ {b} ELSE checked \cup {b}
       /\ off' = IF b \in checked THEN off \cup {b} ELSE off \ {b}
  /\ toggles' = toggles + 1
  /\ OnlyUI /\ UNCHANGED <<open, page, sel, found, known, detecting>>

(* A browser seen for the first time is checked, the others as they were.   *)
Rechecked(list) == (checked \cap list) \cup (list \ known)

(* detectBrowsers answers, while the page is still there.                   *)
Detected ==
  /\ open /\ page = "browsers" /\ detecting
  /\ detecting' = FALSE
  /\ \/ /\ found' = BROWSERS
        /\ checked' = Rechecked(BROWSERS) /\ known' = BROWSERS
     \/ UNCHANGED <<found, checked, known>>
  /\ OnlyUI /\ UNCHANGED <<open, page, sel, toggles, off>>

(* retryDetect, offered when the answer was an error.                       *)
RetryDetect ==
  /\ MayClick /\ page = "browsers" /\ ~detecting /\ found = NoList /\ toggles < MaxToggles
  /\ detecting' = TRUE /\ toggles' = toggles + 1
  /\ OnlyUI /\ UNCHANGED <<open, page, sel, found, checked, known, off>>

-------------------------------------------------------------------------------
(* Moving through the pages.                                                *)
(* The wizard's request: browsers only with the extension, and only those   *)
(* of the list.                                                             *)
Chosen == IF sel.extension THEN (found \ NoList) \cap checked ELSE {}
Request == [extension |-> sel.extension, extras |-> sel.extras, browsers |-> Chosen]

(* startInstall, by the effect of the page or by Retry.                     *)
StartInstall ==
  /\ runs < MaxRuns
  /\ runs' = runs + 1 /\ token' = token + 1
  /\ listening' = listening \cup {token'}
  /\ full' = FALSE /\ message' = ""
  /\ cancelled' = FALSE /\ changed' = FALSE
  /\ workers' = Append(workers, [pc |-> "spawned", opts |-> Request, orphan |-> FALSE])
  /\ asked' = IF sel.extension THEN asked \cup (BROWSERS \ off) ELSE asked
  /\ UNCHANGED <<events, machine>>

(* The effect's clean-up when the page is left.                             *)
LeaveInstalling ==
  /\ token' = token + 1 /\ cancelled' = TRUE
  /\ UNCHANGED <<runs, listening, full, message, workers, events, machine, changed, asked>>

Turn(to) ==
  /\ page' = to
  /\ detecting' = (to = "browsers")
  /\ UNCHANGED <<open, sel, found, checked, known, toggles, off, host>>
  /\ CASE to = "installing"   -> StartInstall
       [] page = "installing" -> LeaveInstalling
       [] OTHER -> UNCHANGED <<runs, token, listening, full, message, cancelled, workers,
                               events, machine, changed, asked>>

(* computeSteps.                                                            *)
After(p) == CASE p = "components" -> IF sel.extension THEN "browsers" ELSE "installing"
              [] p = "browsers" -> "installing"
              [] OTHER -> "finish"
Before(p) == IF p = "components" THEN {}
             ELSE {"components"}
                  \cup (IF p # "browsers" /\ sel.extension THEN {"browsers"} ELSE {})
                  \cup (IF p = "finish" THEN {"installing"} ELSE {})

canContinue == page = "installing" => full /\ message = ""

Continue == MayClick /\ page # "finish" /\ canContinue /\ Turn(After(page))

(* Back in the footer, or an earlier step in the rail: neither while the    *)
(* page that installs is shown.                                             *)
MayGoBack == page # "installing"

GoBack == MayClick /\ MayGoBack /\ \E p \in Before(page) : Turn(p)

Retry ==
  /\ MayClick /\ page = "installing" /\ message # ""
  /\ StartInstall /\ UNCHANGED <<host, ui, off>>

(* Closing the window ends the process at any time; an elevated child goes  *)
(* on by itself.                                                            *)
Close ==
  /\ open /\ open' = FALSE
  /\ workers' = [w \in DOMAIN workers |->
       IF workers[w].pc \in {"child", "report", "force"} /\ Relaunches(workers[w].opts)
       THEN [workers[w] EXCEPT !.orphan = TRUE]
       ELSE [workers[w] EXCEPT !.pc = "over"]]
  /\ events' = <<>> /\ listening' = {}
  /\ UNCHANGED <<host, page, sel, found, checked, known, detecting, toggles, runs, token, full,
                 message, cancelled, machine, changed, asked, off>>

(* The wizard forgets everything; what the catalogues have on is selected.  *)
AllOn == [extension |-> TRUE, extras |-> TRUE]

Reopen ==
  /\ ~open /\ runs < MaxRuns /\ open' = TRUE
  /\ page' = "components" /\ sel' = AllOn
  /\ found' = NoList /\ checked' = {} /\ known' = {} /\ detecting' = FALSE /\ off' = {}
  /\ full' = FALSE /\ message' = "" /\ cancelled' = FALSE
  /\ UNCHANGED <<host, toggles, runs, token, listening, workers, events, machine, changed, asked>>

User == \/ ToggleComponent \/ ToggleBrowser \/ RetryDetect
        \/ Continue \/ GoBack \/ Retry \/ Close \/ Reopen

-------------------------------------------------------------------------------
Init ==
  /\ os \in {"windows", "linux", "macos"} /\ elevated \in BOOLEAN /\ tool \in BOOLEAN
  /\ system \in BOOLEAN /\ (system => os = "windows" /\ elevated)
  /\ (os = "windows" => tool)
  /\ open = TRUE /\ page = "components" /\ sel = AllOn
  /\ found = NoList /\ checked = {} /\ known = {} /\ detecting = FALSE /\ off = {}
  /\ full = FALSE /\ message = ""
  /\ runs = 0 /\ toggles = 0 /\ token = 0 /\ listening = {}
  /\ cancelled = FALSE /\ workers = <<>> /\ events = <<>>
  /\ cli = "none" /\ extras = FALSE /\ policy = {}
  /\ changed = FALSE /\ asked = {}

Next == Worker \/ Deliver \/ Detected \/ User

(* The worker is a thread that is scheduled and whose calls return (the     *)
(* prompt is answered or closed), and the event loop runs.                  *)
Progress == Worker \/ Deliver
Spec == Init /\ [][Next]_vars /\ WF_vars(Worker) /\ WF_vars(Deliver)

-------------------------------------------------------------------------------
PCS == {"spawned", "payload", "unpack", "fill", "around", "verify", "prompt", "child", "report",
        "force", "done", "over"}

TypeOK ==
  /\ os \in {"windows", "linux", "macos"}
  /\ {elevated, system, tool, open, detecting, full, cancelled, extras, changed} \subseteq BOOLEAN
  /\ page \in {"components", "browsers", "installing", "finish"}
  /\ sel \in [extension : BOOLEAN, extras : BOOLEAN]
  /\ found \subseteq BROWSERS \cup NoList
  /\ checked \cup known \cup policy \cup asked \cup off \subseteq BROWSERS
  /\ runs \in 0..MaxRuns /\ toggles \in 0..MaxToggles /\ token \in Nat
  /\ listening \subseteq 0..token
  /\ message \in {"", "refused", "failed"} /\ cli \in {"none", "torn", "whole"}
  /\ workers \in Seq([pc : PCS, orphan : BOOLEAN,
                      opts : [extension : BOOLEAN, extras : BOOLEAN,
                              browsers : SUBSET BROWSERS]])
  /\ events \in Seq({"full", "done", "refused", "failed"})

(* The wizard reaches its last page only when everything that is selected   *)
(* on it is in place: the program, the other components, and the extension  *)
(* in every browser that is checked, whoever had to do it.  A child whose   *)
(* window was closed may still be at work, and undo what it began.          *)
FinishMeansDone ==
  page = "finish" /\ (\A w \in DOMAIN workers : ~Orphan(w)) =>
    cli = "whole" /\ (sel.extras => extras) /\ Chosen \subseteq policy

(* The extension is forced into no browser that the user had unchecked when *)
(* he clicked Install, however often the list was looked up in between.     *)
PolicyWasAsked == policy \subseteq asked

(* "Nothing was changed": a run the wizard reports as refused has changed   *)
(* nothing.                                                                 *)
RefusalIsClean == open /\ message = "refused" => ~changed

(* At most one worker of a window is at work at any time: run_install would *)
(* start any number.                                                        *)
OneWorker == \A v, w \in DOMAIN workers :
               Works(v) /\ Works(w) /\ ~Orphan(v) /\ ~Orphan(w) => v = w

(* What the wizard promises: what it shows at the end is so, what it did   *)
(* was asked for, and no two runs of one window are at work.               *)
WizardHolds == FinishMeansDone /\ PolicyWasAsked /\ RefusalIsClean /\ OneWorker

(* Whoever waits on the page that installs is told how it ended, unless he  *)
(* closes the window.                                                       *)
EndIsTold == (page = "installing") ~> (full \/ message # "" \/ ~open)
===============================================================================
