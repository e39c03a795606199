------------------------- MODULE EngineService_proofs ------------------------
(***************************************************************************)
(* What a registration and a removal that are reported as done promise of  *)
(* the service, for any number of looks at it.                             *)
(***************************************************************************)
EXTENDS EngineService, TLAPS

Results == [verb : {"none", "register", "remove", "teardown"}, ok : BOOLEAN,
            started : BOOLEAN, survives : BOOLEAN, healthy : BOOLEAN,
            tolerated : BOOLEAN, kept : BOOLEAN, certain : BOOLEAN]
Units == [Scopes -> Registered \cup {"none"}]

(* Windows has one domain, and the run asks for no other.                  *)
OneDomain ==
  os = "windows" =>
    unit["user"] = "none" /\ (pc \in {"install", "tolerate", "start"} => scope = "system")

(* What a run has not yet said.                                            *)
Unsaid ==
  /\ pc \notin {"idle", "sweep", "verify"} => ~result.survives
  /\ pc # "idle" => ~result.certain
  /\ pc \notin {"idle", "look", "stop", "deregister", "confirm"} => result.verb # "teardown"
  /\ pc \in {"sweep"} /\ result.survives => settled = "system"

(* From the registration on the machine starts the service.                *)
Starts ==
  /\ pc = "start" /\ ~result.tolerated /\ settled = "system" => unit["system"] = "enabled"
  /\ pc \in {"idle", "sweep", "verify"} /\ result.survives /\ ~result.tolerated => SystemStarts

(* A run that will say so has put nothing into the user's scope, and when  *)
(* it has swept there is nothing.                                          *)
Sweeping ==
  \/ pc = "install"
  \/ pc = "start" /\ ~result.tolerated /\ settled = "system"
  \/ pc = "sweep" /\ ~result.tolerated /\ result.survives
Alone ==
  /\ Sweeping /\ existing.user = "none" /\ ~late => unit["user"] = "none"
  /\ pc \in {"idle", "verify"} /\ result.survives /\ ~result.tolerated /\ ~result.kept /\ ~late
       => unit["user"] = "none"

Promises == OneDomain /\ Unsaid /\ Starts /\ Alone /\ RemovalHolds
Invariant == TypeOK /\ Promises

LEMMA InvariantSuffices == Invariant => SurvivesReboot /\ OneServes /\ RemovalHolds
BY DEF Invariant, Promises, Starts, Alone, SurvivesReboot, OneServes

LEMMA InitInvariant == Init => Invariant
<1> SUFFICES ASSUME Init PROVE Invariant
  OBVIOUS
<1>1. Scopes = {"system", "user"}
  BY DEF Scopes
<1>2. unit \in Units /\ (os = "windows" => unit["user"] = "none")
  BY <1>1 DEF Init, Units, Registered
<1>3. /\ result \in Results /\ ~result.survives /\ ~result.certain /\ ~result.ok
      /\ result.verb # "teardown"
  BY DEF Init, NoResult, Result, Results
<1>4. TypeOK
  <2>1. 0 \in 0..(Attempts + Polls)
    BY PollsAssumption DEF Attempts
  <2>2. packaged \in {"none", "disabled", "enabled"} /\ loaded \subseteq Scopes
        /\ session \in BOOLEAN /\ speaks \in BOOLEAN /\ os \in {"windows", "linux", "macos"}
    BY DEF Init
  <2>3. existing \in [system : Registered \cup {"none"}, user : Registered \cup {"none"},
                     packaged : {"none", "disabled", "enabled"}]
    BY DEF Init, Nothing
  <2> QED  BY <1>1, <1>2, <1>3, <2>1, <2>2, <2>3 DEF Init, TypeOK, Units, Results, Phases
<1> QED  BY <1>2, <1>3, <1>4
         DEF Init, Invariant, Promises, OneDomain, Unsaid, Starts, Alone, Sweeping, RemovalHolds

(* Steps of the environment, between any two of the run.                   *)
LEMMA EnvironmentInvariant ==
  ASSUME Invariant,
         Dies \/ ComesUp \/ Release \/ Reboot \/ UserRegisters \/ UserRemoves \/ UNCHANGED vars
  PROVE  Invariant'
<1> USE DEF Invariant, Promises
<1>1. Scopes = {"system", "user"} /\ unit \in Units
  BY DEF Scopes, TypeOK, Units
<1>2. CASE Dies
  BY <1>1, <1>2 DEF Dies, TypeOK, host, run, plan, OneDomain, Unsaid, Starts, Alone, Sweeping,
                    RemovalHolds, SystemStarts
<1>3. CASE ComesUp
  BY <1>1, <1>3 DEF ComesUp, TypeOK, host, run, plan, OneDomain, Unsaid, Starts, Alone, Sweeping,
                    RemovalHolds, SystemStarts
<1>4. Released \in Units /\ \A s \in Scopes :
        (unit[s] \in {"none", "enabled"} => Released[s] = unit[s])
  BY <1>1 DEF Released, Units, Registered
<1>5. CASE Release
  <2>1. unit' = Released /\ up' \subseteq up /\ UNCHANGED <<host, packaged, loaded, run, late>>
    BY <1>5 DEF Release
  <2>2. TypeOK'
    BY <1>4, <2>1 DEF TypeOK, Units, host, run, plan
  <2>3. OneDomain' /\ Unsaid' /\ Starts' /\ Alone' /\ RemovalHolds'
    BY <1>1, <1>4, <2>1
    DEF host, run, plan, OneDomain, Unsaid, Starts, Alone, Sweeping, RemovalHolds, SystemStarts
  <2> QED  BY <2>2, <2>3
<1>6. CASE Reboot
  BY <1>1, <1>4, <1>6 DEF Reboot, TypeOK, Units, host, run, plan, OneDomain, Unsaid, Starts,
                    Alone, Sweeping, RemovalHolds, SystemStarts
<1>7. CASE UserRegisters
  BY <1>1, <1>7 DEF UserRegisters, Put, TypeOK, Units, Registered, host, run, plan, OneDomain,
                    Unsaid, Starts, Alone, Sweeping, RemovalHolds, SystemStarts
<1>8. CASE UserRemoves
  BY <1>1, <1>8 DEF UserRemoves, TypeOK, Units, Registered, host, run, plan, OneDomain,
                    Unsaid, Starts, Alone, Sweeping, RemovalHolds, SystemStarts
<1>9. CASE UNCHANGED vars
  BY <1>9 DEF vars, host, run, plan, TypeOK, OneDomain, Unsaid, Starts, Alone, Sweeping,
              RemovalHolds, SystemStarts
<1> QED  BY <1>2, <1>3, <1>5, <1>6, <1>7, <1>8, <1>9

(* The waits stay within their counts.                                     *)
LEMMA Counts ==
  /\ 0 \in 0..(Attempts + Polls)
  /\ \A t \in 0..(Attempts + Polls) :
       t + 1 < Attempts \/ t + 1 < Polls => t + 1 \in 0..(Attempts + Polls)
BY PollsAssumption DEF Attempts

LEMMA Listings ==
  ASSUME TypeOK
  PROVE  Listing \in [system : Registered \cup {"none"}, user : Registered \cup {"none"},
                     packaged : {"none", "disabled", "enabled"}]
BY DEF Listing, Nothing, TypeOK, Scopes

(* A run begins: what it takes for granted is so.                          *)
LEMMA BeginRegisterInvariant ==
  ASSUME Invariant, BeginRegister
  PROVE  Invariant'
<1> USE DEF Invariant, Promises
<1> DEFINE adopt == scope' = "system" /\ existing'.packaged = "enabled"
<1>1. PICK skip \in BOOLEAN :
        /\ Goto(IF adopt \/ skip THEN "sweep" ELSE "install")
        /\ settled' = IF ~adopt /\ skip THEN LeftAsIs ELSE scope'
        /\ result' = [NoResult EXCEPT !.verb = "register", !.ok = adopt \/ skip,
                                      !.started = ~adopt /\ skip /\ start',
                                      !.survives = adopt \/ (skip /\ Survives(settled'))]
  BY DEF BeginRegister
<1>2. /\ scope' \in Scopes /\ start' \in BOOLEAN /\ existing' = Listing /\ late' = FALSE
      /\ errors' = {} /\ UNCHANGED <<host, unit, packaged, loaded, up>>
      /\ os = "windows" => scope' = "system"
  BY DEF BeginRegister, engine_scope, Scopes
<1>3. /\ result' \in Results /\ result'.verb = "register" /\ ~result'.certain
      /\ ~result'.tolerated
      /\ result'.survives = (adopt \/ (skip /\ Survives(settled')))
  BY <1>1, <1>2 DEF NoResult, Result, Results
<1>4. settled' \in Scopes /\ Scopes = {"system", "user"} /\ unit \in Units
  BY <1>1, <1>2 DEF LeftAsIs, serving_scope, Scopes, TypeOK, Units
<1>5. TypeOK'
  BY <1>1, <1>2, <1>3, <1>4, Counts, Listings DEF TypeOK, host, Goto, Phases, Results
<1>6. result'.survives => settled' = "system" /\ SystemStarts'
  BY <1>1, <1>2, <1>3, <1>4
  DEF LeftAsIs, serving_scope, Survives, Listing, Nothing, SystemStarts, host, adopt, TypeOK
<1>7. existing'.user = "none" => unit'["user"] = "none"
  BY <1>2 DEF Listing, Nothing, OneDomain, host
<1>8. pc' \in {"sweep", "install"}
  BY <1>1 DEF Goto
<1>9. result'.survives => pc' = "sweep"
  BY <1>1, <1>3 DEF Goto
<1> QED  BY <1>2, <1>3, <1>5, <1>6, <1>7, <1>8, <1>9
         DEF host, OneDomain, Unsaid, Starts, Alone, Sweeping, RemovalHolds

(* What registering in a scope leaves.                                     *)
LEMMA Putting ==
  ASSUME TypeOK, NEW s \in Scopes, Put(s)
  PROVE  unit' \in Units /\ unit'[s] = "enabled" /\ loaded' \subseteq Scopes
         /\ \A r \in Scopes : r # s => unit'[r] = unit[r]
BY DEF TypeOK, Units, Put, Registered

LEMMA TryInstallInvariant ==
  ASSUME Invariant, TryInstall
  PROVE  Invariant'
<1> USE DEF Invariant, Promises
<1>1. /\ pc = "install" /\ UNCHANGED <<host, packaged, up, scope, start, existing, errors, late>>
      /\ Scopes = {"system", "user"} /\ Effective \in Scopes /\ unit \in Units
      /\ os = "windows" => Effective = "system"
  BY DEF TryInstall, Effective, TypeOK, OneDomain, Scopes, Units
<1>2. CASE unit[Effective] = "leaving"
  <2>1. UNCHANGED <<unit, loaded, settled, result>> /\ pc' \in {"install", "tolerate"}
        /\ (tries' = 0 \/ (tries + 1 < Attempts /\ tries' = tries + 1))
    BY <1>1, <1>2 DEF TryInstall, Goto
  <2>2. TypeOK'
    BY <1>1, <2>1, Counts DEF TypeOK, host, Phases
  <2> QED  BY <1>1, <2>1, <2>2
           DEF host, OneDomain, Unsaid, Starts, Alone, Sweeping, RemovalHolds
<1>3. CASE Put(Effective) /\ Goto("start") /\ settled' = Effective /\ UNCHANGED result
  <2>1. /\ unit' \in Units /\ unit'[Effective] = "enabled" /\ loaded' \subseteq Scopes
        /\ \A r \in Scopes : r # Effective => unit'[r] = unit[r]
    BY <1>1, <1>3, Putting
  <2>2. TypeOK'
    BY <1>1, <1>3, <2>1, Counts DEF TypeOK, host, Phases, Units, Goto
  <2> QED  BY <1>1, <1>3, <2>1, <2>2
           DEF host, Goto, OneDomain, Unsaid, Starts, Alone, Sweeping, RemovalHolds
<1>4. CASE Put(Effective) /\ Goto("tolerate") /\ UNCHANGED <<settled, result>>
  <2>1. /\ unit' \in Units /\ unit'[Effective] = "enabled" /\ loaded' \subseteq Scopes
        /\ \A r \in Scopes : r # Effective => unit'[r] = unit[r]
    BY <1>1, <1>4, Putting
  <2>2. TypeOK'
    BY <1>1, <1>4, <2>1, Counts DEF TypeOK, host, Phases, Units, Goto
  <2> QED  BY <1>1, <1>4, <2>1, <2>2
           DEF host, Goto, OneDomain, Unsaid, Starts, Alone, Sweeping, RemovalHolds
<1>5. CASE Goto("tolerate") /\ UNCHANGED <<unit, loaded, settled, result>>
  <2>1. TypeOK'
    BY <1>1, <1>5, Counts DEF TypeOK, host, Phases, Goto
  <2> QED  BY <1>1, <1>5, <2>1
           DEF host, Goto, OneDomain, Unsaid, Starts, Alone, Sweeping, RemovalHolds
<1> QED  BY <1>2, <1>3, <1>4, <1>5 DEF TryInstall

LEMMA TolerateInvariant ==
  ASSUME Invariant, Tolerate
  PROVE  Invariant'
<1> USE DEF Invariant, Promises
<1>1. /\ pc = "tolerate" /\ Scopes = {"system", "user"} /\ scope \in Scopes
      /\ UNCHANGED <<host, unit, packaged, loaded, up, scope, start, existing, errors, late>>
  BY DEF Tolerate, TypeOK, Scopes
<1>2. CASE Goto("start") /\ settled' = scope /\ result' = [result EXCEPT !.tolerated = TRUE]
  <2>1. /\ result' \in Results /\ result'.tolerated /\ result'.survives = result.survives
        /\ result'.certain = result.certain /\ result'.verb = result.verb
    BY <1>2 DEF TypeOK, Results
  <2>2. TypeOK'
    BY <1>1, <1>2, <2>1, Counts DEF TypeOK, host, Phases, Goto, Results
  <2> QED  BY <1>1, <1>2, <2>1, <2>2
           DEF host, Goto, OneDomain, Unsaid, Starts, Alone, Sweeping, RemovalHolds
<1>3. CASE End(result) /\ UNCHANGED settled
  <2>1. TypeOK'
    BY <1>1, <1>3, Counts DEF TypeOK, host, Phases, End
  <2> QED  BY <1>1, <1>3, <2>1
           DEF host, End, OneDomain, Unsaid, Starts, Alone, Sweeping, RemovalHolds
<1> QED  BY <1>2, <1>3 DEF Tolerate

LEMMA StartInvariant ==
  ASSUME Invariant, Start
  PROVE  Invariant'
<1> USE DEF Invariant, Promises
<1>1. /\ pc = "start" /\ UNCHANGED <<host, unit, packaged, loaded, plan, late>>
      /\ Scopes = {"system", "user"} /\ Effective \in Scopes
  BY DEF Start, Effective, TypeOK, Scopes
<1>2. CASE Goto("sweep") /\ result' = Concluded /\ (UNCHANGED up \/ up' = up \cup {Effective})
  <2>1. /\ result' \in Results /\ result'.tolerated = result.tolerated
        /\ result'.survives = (settled = "system")
        /\ result'.certain = result.certain /\ result'.verb = result.verb
    BY <1>2 DEF TypeOK, Results, Concluded, Survives
  <2>2. up' \subseteq Scopes
    BY <1>1, <1>2 DEF TypeOK
  <2>3. TypeOK'
    <3>1. pc' = "sweep" /\ pc' \in Phases /\ tries' = 0
      BY <1>2 DEF Goto, Phases
    <3> QED  BY <1>1, <2>1, <2>2, <3>1, Counts DEF TypeOK, host, plan, Results
  <2> QED  BY <1>1, <1>2, <2>1, <2>3
           DEF host, plan, Goto, OneDomain, Unsaid, Starts, Alone, Sweeping, RemovalHolds,
               SystemStarts
<1>3. CASE End(result) /\ UNCHANGED up
  <2>1. TypeOK'
    BY <1>1, <1>3, Counts DEF TypeOK, host, plan, Phases, End
  <2> QED  BY <1>1, <1>3, <2>1
           DEF host, plan, End, OneDomain, Unsaid, Starts, Alone, Sweeping, RemovalHolds
<1> QED  BY <1>2, <1>3 DEF Start

LEMMA SweepInvariant ==
  ASSUME Invariant, Sweep
  PROVE  Invariant'
<1> USE DEF Invariant, Promises
<1>1. PICK kept \in SUBSET Shadows :
        /\ unit' = [s \in Scopes |-> IF s \in Shadows \ kept THEN "none" ELSE unit[s]]
        /\ LET r == [result EXCEPT !.kept = kept # {}]
           IN  IF result.started THEN Goto("verify") /\ result' = r ELSE End(r)
  BY DEF Sweep
<1>2. /\ pc = "sweep" /\ UNCHANGED <<host, packaged, loaded, up, plan, late>>
      /\ Scopes = {"system", "user"} /\ unit \in Units /\ Shadows \subseteq {"user"}
  BY DEF Sweep, TypeOK, Scopes, Units, Shadows
<1>3. /\ pc' \in {"idle", "verify"} /\ tries' = 0
      /\ result' = [result EXCEPT !.kept = kept # {}]
  BY <1>1 DEF Goto, End
<1>4. /\ result' \in Results /\ result'.survives = result.survives /\ result'.ok = result.ok
      /\ result'.tolerated = result.tolerated /\ result'.certain = result.certain
      /\ result'.verb = result.verb /\ (result'.kept = (kept # {}))
  BY <1>3 DEF TypeOK, Results
<1>5. /\ unit' \in Units /\ unit'["system"] = unit["system"]
      /\ unit["user"] = "none" => unit'["user"] = "none"
  BY <1>1, <1>2 DEF Units
<1>6. TypeOK'
  BY <1>2, <1>3, <1>4, <1>5, Counts DEF TypeOK, host, plan, Phases, Units, Results
<1>7. result.survives /\ ~result.tolerated /\ kept = {} /\ ~late => unit'["user"] = "none"
  <2>1. CASE existing.user = "none"
    BY <1>2, <1>5, <2>1 DEF Alone, Sweeping
  <2>2. CASE existing.user # "none" /\ os # "windows"
    BY <1>1, <1>2, <2>2 DEF Shadows, Unsaid
  <2>3. CASE os = "windows"
    BY <1>5, <2>3 DEF OneDomain
  <2> QED  BY <2>1, <2>2, <2>3
<1> QED  BY <1>2, <1>3, <1>4, <1>5, <1>6, <1>7
         DEF host, plan, OneDomain, Unsaid, Starts, Alone, Sweeping, RemovalHolds, SystemStarts

(* A wait: another look, or an end that says no more than the run has.     *)
LEMMA VerifyInvariant ==
  ASSUME Invariant, Verify
  PROVE  Invariant'
<1> USE DEF Invariant, Promises
<1>1. /\ pc = "verify" /\ UNCHANGED <<host, unit, packaged, loaded, up, plan, late>>
      /\ \/ tries + 1 < Polls /\ tries' = tries + 1 /\ UNCHANGED <<pc, result>>
         \/ pc' = "idle" /\ tries' = 0 /\ result' \in {result, [result EXCEPT !.healthy = TRUE]}
  BY DEF Verify, End
<1>2. /\ result' \in Results /\ result'.survives = result.survives
      /\ result'.tolerated = result.tolerated /\ result'.certain = result.certain
      /\ result'.verb = result.verb /\ result'.kept = result.kept
  BY <1>1 DEF TypeOK, Results
<1>3. TypeOK'
  BY <1>1, <1>2, Counts DEF TypeOK, host, plan, Phases, Results
<1> QED  BY <1>1, <1>2, <1>3
         DEF host, plan, OneDomain, Unsaid, Starts, Alone, Sweeping, RemovalHolds, SystemStarts

LEMMA BeginRemovalInvariant ==
  ASSUME Invariant, BeginRemove \/ BeginTeardown
  PROVE  Invariant'
<1> USE DEF Invariant, Promises
<1>1. /\ tries' = 0 /\ late' = FALSE
      /\ UNCHANGED <<host, unit, packaged, loaded, up, start, existing, settled>>
  BY DEF BeginRemove, BeginTeardown, Goto, plan
<1>2. \/ pc' = "remove" /\ scope' = "system" /\ errors' = {} /\ result' = Result("remove", FALSE)
      \/ pc' = "look" /\ UNCHANGED <<scope, errors>> /\ result' = Result("teardown", FALSE)
  BY DEF BeginRemove, BeginTeardown, Goto, plan
<1>3. scope' \in Scopes /\ errors' \subseteq Scopes /\ pc' \in {"remove", "look"}
  BY <1>2 DEF TypeOK, Scopes
<1>4. /\ Result("remove", FALSE) \in Results /\ Result("teardown", FALSE) \in Results
      /\ \A verb \in {"remove", "teardown"} :
           /\ ~Result(verb, FALSE).survives /\ ~Result(verb, FALSE).certain
           /\ Result(verb, FALSE).verb = verb
  BY DEF Result, Results
<1>5. /\ result' \in Results /\ ~result'.survives /\ ~result'.certain
      /\ pc' = "remove" => result'.verb = "remove"
  BY <1>2, <1>4
<1>6. TypeOK'
  BY <1>1, <1>3, <1>5, Counts DEF TypeOK, host, Phases, Results
<1> QED  BY <1>1, <1>3, <1>5, <1>6
         DEF host, OneDomain, Unsaid, Starts, Alone, Sweeping, RemovalHolds

(* Removing takes out, and puts nothing in.                                *)
LEMMA TakingOut ==
  ASSUME TypeOK, NEW s \in Scopes, TakeOut(s)
  PROVE  /\ unit' \in Units /\ loaded' \subseteq Scopes /\ up' \subseteq Scopes
         /\ \A r \in Scopes : unit[r] = "none" => unit'[r] = "none"
<1>1. Gone(s) \subseteq Registered \cup {"none"}
  BY DEF Gone, Registered
<1> QED  BY <1>1 DEF TypeOK, Units, TakeOut

LEMMA RemoveInvariant ==
  ASSUME Invariant, Remove
  PROVE  Invariant'
<1> USE DEF Invariant, Promises
<1>1. /\ pc = "remove" /\ pc' \in {"remove", "probe"}
      /\ UNCHANGED <<host, packaged, start, existing, settled, result, late>>
      /\ Scopes = {"system", "user"} /\ unit \in Units
      /\ scope' \in Scopes /\ Target(scope) \in Scopes /\ errors' \subseteq Scopes
      /\ tries' \in {0, tries}
  BY DEF Remove, Goto, TypeOK, Scopes, Units, Target
<1>2. /\ unit' \in Units /\ loaded' \subseteq Scopes /\ up' \subseteq Scopes
      /\ \A r \in Scopes : unit[r] = "none" => unit'[r] = "none"
  <2>1. CASE TakeOut(Target(scope))
    BY <1>1, <2>1, TakingOut
  <2>2. CASE UNCHANGED <<unit, up>> /\ loaded' \in {loaded, loaded \ {Target(scope)}}
    BY <1>1, <2>2 DEF TypeOK
  <2> QED  BY <2>1, <2>2 DEF Remove
<1>3. TypeOK'
  BY <1>1, <1>2, Counts DEF TypeOK, host, Phases, Units
<1> QED  BY <1>1, <1>2, <1>3
         DEF host, OneDomain, Unsaid, Starts, Alone, Sweeping, RemovalHolds

(* Off macOS, what reads as absent is not registered.                      *)
LEMMA AbsentMeansNone ==
  ASSUME Invariant, os # "macos", NEW s \in Scopes, "absent" \in Readings(s)
  PROVE  unit[s] = "none"
BY DEF Invariant, Promises, OneDomain, Readings, Visible

LEMMA ProbeInvariant ==
  ASSUME Invariant, Probe
  PROVE  Invariant'
<1> USE DEF Invariant, Promises
<1>1. PICK seen \in [Scopes -> {"present", "absent", "unknown"}] :
        /\ \A s \in Scopes : seen[s] \in Readings(s)
        /\ LET residual   == \E s \in Scopes : seen[s] = "present"
               unverified == \E s \in Scopes : seen[s] = "unknown"
               ok == ~residual /\ ~(errors = Scopes /\ unverified)
           IN  End([result EXCEPT !.ok = ok, !.certain = ok /\ ~unverified])
  BY DEF Probe
<1>2. pc = "probe" /\ UNCHANGED <<host, unit, packaged, loaded, up, plan, late>>
  BY DEF Probe
<1> DEFINE ok == /\ ~\E s \in Scopes : seen[s] = "present"
                 /\ ~(errors = Scopes /\ \E s \in Scopes : seen[s] = "unknown")
           certain == ok /\ ~\E s \in Scopes : seen[s] = "unknown"
<1>3. pc' = "idle" /\ tries' = 0 /\ result' = [result EXCEPT !.ok = ok, !.certain = certain]
  BY <1>1 DEF End
<1>4. /\ ok \in BOOLEAN /\ certain \in BOOLEAN
      /\ certain => \A s \in Scopes : seen[s] = "absent"
  BY <1>1
<1>5. /\ result' \in Results /\ result'.certain = certain
      /\ ~result'.survives /\ result'.verb # "teardown"
  <2> HIDE DEF ok, certain
  <2> QED  BY <1>2, <1>3, <1>4 DEF TypeOK, Results, Unsaid
<1>6. os # "macos" /\ result'.certain => \A s \in Scopes : unit[s] = "none"
  <2> HIDE DEF ok, certain
  <2> QED  BY <1>1, <1>4, <1>5, AbsentMeansNone
<1> HIDE DEF ok, certain
<1>7. TypeOK'
  BY <1>2, <1>3, <1>5, Counts DEF TypeOK, host, plan, Phases, Results
<1> QED  BY <1>2, <1>3, <1>5, <1>6, <1>7
         DEF host, plan, OneDomain, Unsaid, Starts, Alone, Sweeping, RemovalHolds

(* Off macOS, a service that is not found is not registered with the       *)
(* machine.                                                                *)
LEMMA NotFoundMeansNone ==
  ASSUME TypeOK, os # "macos", "NotFound" \in RunStates
  PROVE  unit["system"] = "none"
<1>1. CASE os = "linux"
  <2>1. PICK u \in ScopeStates("user"), s \in ScopeStates("system") :
          combine_systemctl_states(u, s) = "NotFound"
    BY <1>1 DEF RunStates
  <2>2. u \in {"NotFound", "Stopped", "Running"} /\ s \in {"NotFound", "Stopped", "Running"}
    BY <2>1 DEF ScopeStates
  <2>3. s = "NotFound"
    BY <2>1, <2>2 DEF combine_systemctl_states
  <2> QED  BY <2>1, <2>3 DEF ScopeStates
<1>2. CASE os = "windows"
  BY <1>2 DEF RunStates
<1> QED  BY <1>1, <1>2 DEF TypeOK

LEMMA LookInvariant ==
  ASSUME Invariant, Look
  PROVE  Invariant'
<1> USE DEF Invariant, Promises
<1>1. PICK state \in RunStates :
        IF state = "NotFound" THEN End([result EXCEPT !.ok = TRUE])
                              ELSE Goto("stop") /\ UNCHANGED result
  BY DEF Look
<1>2. pc = "look" /\ UNCHANGED <<host, unit, packaged, loaded, up, plan, late>>
  BY DEF Look
<1>3. /\ tries' = 0 /\ pc' \in {"idle", "stop"}
      /\ result' \in {result, [result EXCEPT !.ok = TRUE]}
      /\ pc' = "idle" => state = "NotFound"
  BY <1>1 DEF End, Goto
<1>4. result' \in Results /\ ~result'.survives /\ ~result'.certain
  BY <1>2, <1>3 DEF TypeOK, Results, Unsaid
<1>5. TypeOK'
  BY <1>2, <1>3, <1>4, Counts DEF TypeOK, host, plan, Phases, Results
<1>6. pc' = "idle" /\ os # "macos" => unit["system"] = "none"
  BY <1>3, NotFoundMeansNone
<1> QED  BY <1>2, <1>3, <1>4, <1>5, <1>6
         DEF host, plan, OneDomain, Unsaid, Starts, Alone, Sweeping, RemovalHolds

LEMMA StopByCommandInvariant ==
  ASSUME Invariant, StopByCommand
  PROVE  Invariant'
<1> USE DEF Invariant, Promises
<1>1. /\ pc = "stop" /\ pc' = "deregister" /\ tries' = 0
      /\ UNCHANGED <<host, unit, packaged, plan, result, late>>
      /\ up' \subseteq Scopes /\ loaded' \subseteq Scopes
  BY DEF StopByCommand, Goto, TypeOK
<1>2. TypeOK'
  BY <1>1, Counts DEF TypeOK, host, plan, Phases
<1> QED  BY <1>1, <1>2
         DEF host, plan, OneDomain, Unsaid, Starts, Alone, Sweeping, RemovalHolds

LEMMA DeregisterByCommandInvariant ==
  ASSUME Invariant, DeregisterByCommand
  PROVE  Invariant'
<1> USE DEF Invariant, Promises
<1>1. PICK S \in SUBSET Addressed :
        /\ unit' \in [Scopes -> Registered \cup {"none"}]
        /\ \A s \in Scopes : unit'[s] \in Deregistered(S)[s]
        /\ up' = up \ (IF os = "windows" THEN {} ELSE S)
        /\ loaded' = loaded \ (IF os = "macos" THEN S ELSE {})
  BY DEF DeregisterByCommand
<1>2. /\ pc = "deregister" /\ pc' = "confirm" /\ tries' = 0
      /\ UNCHANGED <<host, packaged, plan, result, late>>
  BY DEF DeregisterByCommand, Goto
<1>3. unit["user"] = "none" => unit'["user"] = "none"
  BY <1>1 DEF Deregistered, Scopes
<1>4. TypeOK'
  BY <1>1, <1>2, Counts DEF TypeOK, host, plan, Phases
<1> QED  BY <1>2, <1>3, <1>4
         DEF host, plan, OneDomain, Unsaid, Starts, Alone, Sweeping, RemovalHolds

LEMMA ConfirmInvariant ==
  ASSUME Invariant, Confirm
  PROVE  Invariant'
<1> USE DEF Invariant, Promises
<1>1. PICK state \in RunStates :
        IF state = "Running" /\ tries + 1 < Polls
        THEN tries' = tries + 1 /\ UNCHANGED <<pc, result>>
        ELSE End([result EXCEPT !.ok = state = "NotFound"])
  BY DEF Confirm
<1>2. pc = "confirm" /\ UNCHANGED <<host, unit, packaged, loaded, up, plan, late>>
  BY DEF Confirm
<1>3. CASE tries + 1 < Polls /\ tries' = tries + 1 /\ UNCHANGED <<pc, result>>
  <2>1. TypeOK'
    BY <1>2, <1>3, Counts DEF TypeOK, host, plan
  <2> QED  BY <1>2, <1>3, <2>1
           DEF host, plan, OneDomain, Unsaid, Starts, Alone, Sweeping, RemovalHolds
<1>4. CASE End([result EXCEPT !.ok = (state = "NotFound")])
  <2>1. pc' = "idle" /\ tries' = 0 /\ result' = [result EXCEPT !.ok = (state = "NotFound")]
    BY <1>4 DEF End
  <2>2. /\ result' \in Results /\ ~result'.survives /\ ~result'.certain
        /\ result'.ok = (state = "NotFound")
    BY <1>2, <2>1 DEF TypeOK, Results, Unsaid
  <2>3. TypeOK'
    BY <1>2, <2>1, <2>2, Counts DEF TypeOK, host, plan, Phases, Results
  <2>4. result'.ok /\ os # "macos" => unit["system"] = "none"
    BY <2>2, NotFoundMeansNone
  <2> QED  BY <1>2, <2>1, <2>2, <2>3, <2>4
           DEF host, plan, OneDomain, Unsaid, Starts, Alone, Sweeping, RemovalHolds
<1> QED  BY <1>1, <1>3, <1>4

LEMMA CrashInvariant ==
  ASSUME Invariant, Crash
  PROVE  Invariant'
<1> USE DEF Invariant, Promises
<1>1. /\ pc' = "idle" /\ tries' = 0 /\ result' = NoResult
      /\ UNCHANGED <<host, unit, packaged, loaded, up, plan, late>>
  BY DEF Crash, End
<1>2. result' \in Results /\ ~result'.survives /\ ~result'.certain /\ result'.verb # "teardown"
  BY <1>1 DEF NoResult, Result, Results
<1>3. TypeOK'
  BY <1>1, <1>2, Counts DEF TypeOK, host, plan, Phases, Results
<1> QED  BY <1>1, <1>2, <1>3
         DEF host, plan, OneDomain, Unsaid, Starts, Alone, Sweeping, RemovalHolds

LEMMA StepInvariant ==
  ASSUME Invariant, [Next]_vars
  PROVE  Invariant'
BY EnvironmentInvariant, BeginRegisterInvariant, BeginRemovalInvariant, CrashInvariant,
   TryInstallInvariant, TolerateInvariant, StartInvariant, SweepInvariant, VerifyInvariant,
   RemoveInvariant, ProbeInvariant, LookInvariant, StopByCommandInvariant,
   DeregisterByCommandInvariant, ConfirmInvariant
   DEF Next, Step

LEMMA InvariantHolds == Spec => []Invariant
BY InitInvariant, StepInvariant, PTL DEF Spec

(* The variables keep their types.                                         *)
THEOREM TypeCorrect == Spec => []TypeOK
<1>1. Invariant => TypeOK
  BY DEF Invariant
<1> QED  BY <1>1, InvariantHolds, PTL

(* A registration that is reported to survive a restart is one the machine *)
(* starts by itself, whatever the program, the service manager, the user   *)
(* and a restart in the middle of the run have done                        *)
(* (install_engine_service, settled_scope).                                *)
THEOREM RegistrationSurvives == Spec => []SurvivesReboot
BY InvariantHolds, InvariantSuffices, PTL

(* Beside a service that survives a restart no unit of the user's is left  *)
(* to start a second one (remove_shadowing_units).                         *)
THEOREM OnlyOneServes == Spec => []OneServes
BY InvariantHolds, InvariantSuffices, PTL

(* A removal that is reported as complete has taken the registrations away *)
(* (uninstall_engine_service, teardown_service_by_id).                     *)
THEOREM RemovalsHold == Spec => []RemovalHolds
BY InvariantHolds, InvariantSuffices, PTL
=============================================================================
