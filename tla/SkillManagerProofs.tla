------------------------- MODULE SkillManagerProofs -------------------------
(***************************************************************************)
(* What holds of a SkillManager for every set of plans, whatever its       *)
(* coordinators ask of it: its state is well formed, it implements         *)
(* VehicleLifecycle, a hold leaves no trace, no work is lost, a Skill runs *)
(* with the Goal of its own step or of the one a repair put it before,     *)
(* and, if no inspection is revised away, a success is earned.             *)
(***************************************************************************)
EXTENDS SkillManager, WellFoundedInduction, TLAPS

(***************************************************************************)
(* The inductive invariant                                                 *)
(***************************************************************************)

\* The active Skill of a running task, by its execution kind: a hold is active
\* exactly while an interruption is saved, an emergency landing exactly once
\* something ended the mission early.
ActiveShape ==
  /\ active.kind \in {"PLANNED", "RECOVERY", "SUPERVISORY", "EMERGENCY"}
  /\ active.kind = "SUPERVISORY" <=> hold # NoHold
  /\ active.kind = "SUPERVISORY" => active.skill = "HOVER"
  /\ active.kind = "RECOVERY" => active.skill = "REACQUIRE"
  /\ active.kind = "EMERGENCY" => active.skill = "LAND" /\ pending \in {"FAILED", "CANCELED"}
  /\ pending \in {"FAILED", "CANCELED"} => active.skill = "LAND"
  /\ active.step = plan[index]
  /\ active.kind = "PLANNED" => active.skill = SkillOf[active.step]

\* The saved step is one that may be interrupted, and a suffix that was decided on
\* continues the plan from there.
HoldShape ==
  hold # NoHold =>
    /\ hold.index \in 1..Len(plan)
    /\ hold.step = plan[hold.index] /\ SkillOf[hold.step] \in Interruptible
    /\ hold.fallback \in {"RESUME_PREVIOUS", "CANCEL_AND_LAND"}
    /\ hold.next \in {"REPLACE", "INSPECT"} =>
         /\ hold.suffix \in Plans
         /\ Len(hold.suffix) >= hold.index
         /\ \A i \in 1..(hold.index - 1) : hold.suffix[i] = plan[i]
    /\ hold.next = "INSPECT" =>
         /\ Len(hold.suffix) > hold.index
         /\ SkillOf[hold.suffix[hold.index + 1]] = "INSPECT"

RunningShape ==
  /\ plan \in Plans /\ index \in 1..Len(plan)
  /\ ActiveShape /\ HoldShape

\* The INSPECT of a detour stands right behind the SEARCH it was taken from.
DetourTyped ==
  /\ detour \in [search : Nat, inspect : Nat, searchStep : Steps \cup {NoStep},
                  inspectStep : Steps \cup {NoStep}]
  /\ detour # NoDetour => detour.search >= 1 /\ detour.inspect = detour.search + 1

SkillInv ==
  /\ SkillTypeOK
  /\ DetourTyped
  /\ Running => RunningShape

(***************************************************************************)
(* Plans                                                                   *)
(***************************************************************************)

\* A plan is a sequence of at least two steps that lands at its end, and only there.
LEMMA PlanFacts ==
  ASSUME NEW p \in Plans
  PROVE  /\ Len(p) \in Nat /\ Len(p) > 1
         /\ \A i \in 1..Len(p) : p[i] \in Steps
         /\ \A i \in 1..Len(p) : SkillOf[p[i]] \in PlannedSkills
         /\ \A i \in 1..Len(p) : SkillOf[p[i]] = "LAND" <=> i = Len(p)
<1>1. p \in Seq(Steps) BY SkillAssumption DEF SkillAssumption
<1>2. Len(p) \in Nat /\ \A i \in 1..Len(p) : p[i] \in Steps
  BY <1>1
<1>3. Len(p) > 1 /\ \A i \in 1..Len(p) : SkillOf[p[i]] = "LAND" <=> i = Len(p)
  BY SkillAssumption DEF SkillAssumption
<1>. QED BY SkillAssumption, <1>2, <1>3 DEF SkillAssumption

\* What a coordinator may replace the suffix of a plan by keeps the steps before.
LEMMA ReplaceableFacts ==
  ASSUME NEW p \in Plans, NEW i \in Nat, i >= 1, plan \in Plans, i <= Len(plan),
         Replaceable(p, i)
  PROVE  Len(p) >= i /\ \A j \in 1..(i - 1) : p[j] = plan[j]
<1>1. p \in Seq(Steps) /\ plan \in Seq(Steps) BY SkillAssumption DEF SkillAssumption
<1>2. Len(p) >= i /\ SubSeq(p, 1, i - 1) = SubSeq(plan, 1, i - 1)
  BY DEF Replaceable
<1>3. ASSUME NEW j \in 1..(i - 1) PROVE p[j] = plan[j]
  <2>1. j \in 1..Len(p) /\ j \in 1..Len(plan) BY <1>1, <1>2
  <2>2. SubSeq(p, 1, i - 1)[j] = p[j] BY <1>1, <1>2, <2>1
  <2>3. SubSeq(plan, 1, i - 1)[j] = plan[j] BY <1>1, <1>2, <2>1
  <2>. QED BY <1>2, <2>2, <2>3
<1>. QED BY <1>2, <1>3

\* An interruption or a detour that is saved is told from none.
LEMMA HoldIsReal ==
  ASSUME NEW fallback \in {"RESUME_PREVIOUS", "CANCEL_AND_LAND"}, NEW r \in BOOLEAN
  PROVE  /\ Hold(fallback, r) # NoHold
         /\ Hold(fallback, r) = [index |-> index, step |-> active.step, goal |-> active.goal,
              fallback |-> fallback, next |-> "none", suffix |-> <<>>,
              established |-> FALSE, repair |-> r]
<1>1. Hold(fallback, r) = [index |-> index, step |-> active.step, goal |-> active.goal,
        fallback |-> fallback, next |-> "none", suffix |-> <<>>,
        established |-> FALSE, repair |-> r]
  BY DEF Hold
<1>2. Hold(fallback, r).fallback # "none" BY <1>1
<1>3. NoHold.fallback = "none" BY DEF NoHold
<1>. QED BY <1>1, <1>2, <1>3

\* What SkillTypeOK says of the variables that carry a task's data.
DataTyped ==
  /\ outputs \in [Steps -> {"none", "evidence", "target"}]
  /\ attempts \in [Steps -> 0..MaxAttempts]
  /\ locked \in BOOLEAN /\ calls \in 0..MaxCalls

\* Every way into an emergency landing keeps the invariant.
LEMMA LandingInv ==
  ASSUME SkillInv, Running, NEW v \in {"FAILED", "CANCELED"}, BeginLanding(v), DataTyped'
  PROVE  SkillInv' /\ Running' /\ active'.skill = "LAND" /\ pending' = v /\ version' = version
         /\ active'.kind = "EMERGENCY" /\ hold' = NoHold
<1>1. /\ plan \in Plans /\ plan' = plan /\ status' = status /\ version' = version
      /\ pending' = v /\ index' = Len(plan)
      /\ active' = Active("LAND", "EMERGENCY", plan[Len(plan)], plan[Len(plan)])
      /\ hold' = NoHold /\ detour' = NoDetour
  BY DEF SkillInv, RunningShape, BeginLanding, EmergencyLand
<1>2. Len(plan) \in Nat /\ Len(plan) > 1 /\ plan[Len(plan)] \in Steps
  BY <1>1, PlanFacts
<1>3. active' \in ActiveRecords
      /\ active'.kind = "EMERGENCY" /\ active'.skill = "LAND" /\ active'.step = plan[Len(plan)]
  BY <1>1, <1>2 DEF Active, PlannedSkills, ActiveRecords
<1>4. detour' \in [search : Nat, inspect : Nat, searchStep : Steps \cup {NoStep},
                 inspectStep : Steps \cup {NoStep}]
      /\ hold' \in HoldRecords
  BY <1>1 DEF NoDetour, NoHold, HoldRecords
<1>5. SkillTypeOK'
  <2>1. status' \in TaskOver \cup {"IDLE", "RUNNING"} /\ pending' \in TaskOver \cup {"none"}
    BY <1>1 DEF SkillInv, SkillTypeOK, TaskOver
  <2>2. plan' \in Plans \cup {<<>>} /\ version' \in Nat /\ index' \in 0..Len(plan')
    BY <1>1, <1>2 DEF SkillInv, SkillTypeOK
  <2>. QED BY <1>3, <1>4, <2>1, <2>2 DEF SkillTypeOK, DataTyped
<1>6. RunningShape'
  BY <1>1, <1>2, <1>3 DEF RunningShape, ActiveShape, HoldShape
<1>. QED BY <1>1, <1>3, <1>4, <1>5, <1>6 DEF SkillInv, DetourTyped, Running

\* A running task whose active Skill becomes a planned one of step p[i], or goes
\* back to one it had, keeps the invariant.
LEMMA PlannedInv ==
  ASSUME SkillInv, Running, Running', DataTyped', DetourTyped',
         NEW p \in Plans, NEW i \in 1..Len(p), NEW g \in Steps \cup {NoStep},
         plan' = p, index' = i, version' \in Nat, hold' = NoHold,
         active' = Active(SkillOf[p[i]], "PLANNED", p[i], g),
         pending' \in {"none", "SUCCEEDED"}
  PROVE  SkillInv'
<1>1. p[i] \in Steps /\ SkillOf[p[i]] \in PlannedSkills BY PlanFacts
<1>2. active' \in ActiveRecords
      /\ active'.kind = "PLANNED" /\ active'.skill = SkillOf[p[i]] /\ active'.step = p[i]
  BY <1>1 DEF Active, ActiveRecords
<1>3. hold' \in HoldRecords
  BY DEF NoHold, HoldRecords
<1>4. Len(p) \in Nat BY PlanFacts
<1>5. SkillTypeOK'
  BY <1>2, <1>3, <1>4 DEF SkillTypeOK, DataTyped, DetourTyped, TaskOver, Running
<1>6. RunningShape'
  BY <1>2 DEF RunningShape, ActiveShape, HoldShape
<1>. QED BY <1>5, <1>6 DEF SkillInv

(***************************************************************************)
(* Steps as VehicleLifecycle sees them                                     *)
(***************************************************************************)

Trouble == IF pending \in {"FAILED", "CANCELED"} THEN pending ELSE "none"

LifeStep == [Life!LifeNext]_Life!lifeVars

\* The phase of a running task is that of its active Skill.
LEMMA PhaseNow ==
  ASSUME Running
  PROVE  Phase = IF active.skill = "LAND" THEN "landing"
                 ELSE IF active.kind = "SUPERVISORY" THEN "holding" ELSE "flying"
BY DEF Phase

LEMMA PhaseNext ==
  ASSUME Running'
  PROVE  Phase' = IF active'.skill = "LAND" THEN "landing"
                  ELSE IF active'.kind = "SUPERVISORY" THEN "holding" ELSE "flying"
BY DEF Phase

\* Nothing a caller sees has changed.
LEMMA UnseenStep ==
  ASSUME Phase' = Phase, Trouble' = Trouble, version' = version
  PROVE  LifeStep
BY DEF LifeStep, Life!lifeVars, Trouble

LEMMA FlyingStep ==
  ASSUME Phase = "flying", Phase' \in {"flying", "landing", "holding"},
         Trouble' = Trouble, version' = version
  PROVE  LifeStep
BY DEF LifeStep, Life!lifeVars, Life!LifeNext, Life!LandAsPlanned, Life!HoldStill, Trouble

LEMMA GiveUpStep ==
  ASSUME Phase \in {"flying", "holding", "landing"}, Phase' = "landing", version' = version,
         Trouble' \in Life!Worse(Trouble)
  PROVE  LifeStep
BY DEF LifeStep, Life!LifeNext, Life!GiveUp, Trouble

LEMMA GoOnStep ==
  ASSUME Phase = "holding", Phase' \in {"flying", "landing"}, Trouble' = Trouble,
         version' \in {version, version + 1}
  PROVE  LifeStep
BY DEF LifeStep, Life!LifeNext, Life!GoOn, Trouble

LEMMA NewPlanStep ==
  ASSUME Phase = "flying", Phase' = "flying", Trouble' = Trouble, version' = version + 1
  PROVE  LifeStep
BY DEF LifeStep, Life!LifeNext, Life!NewPlan, Trouble

\* Before its landing a running task has met no trouble.
LEMMA NoTroubleYet ==
  ASSUME SkillInv, Running, active.skill # "LAND"
  PROVE  pending \in {"none", "SUCCEEDED"} /\ Trouble = "none"
BY DEF SkillInv, RunningShape, ActiveShape, SkillTypeOK, TaskOver, Trouble

\* Giving up: the one emergency landing.
LEMMA LandingStep ==
  ASSUME SkillInv, Running, active.skill # "LAND", NEW v \in {"FAILED", "CANCELED"},
         BeginLanding(v), DataTyped'
  PROVE  SkillInv' /\ LifeStep
<1>1. /\ SkillInv' /\ Running' /\ active'.skill = "LAND" /\ pending' = v /\ version' = version
  BY LandingInv
<1>2. Phase \in {"flying", "holding"} /\ Phase' = "landing"
  BY <1>1, PhaseNow, PhaseNext
<1>3. Trouble = "none" /\ Trouble' = v
  BY <1>1, NoTroubleYet DEF Trouble
<1>. QED BY <1>1, <1>2, <1>3, GiveUpStep DEF Life!Worse

\* A planned Skill is followed by step m of the same plan, or by itself again.
LEMMA StartStepStep ==
  ASSUME SkillInv, Running, active.kind \in {"PLANNED", "RECOVERY"}, active.skill # "LAND", DataTyped',
         NEW m \in 1..Len(plan), StartStep(m), UNCHANGED <<status, plan, version, hold>>,
         detour' \in {detour, NoDetour}, pending' \in {"SUCCEEDED", pending}
  PROVE  SkillInv' /\ LifeStep
<1>1. plan \in Plans /\ plan' = plan /\ version \in Nat /\ hold = NoHold
  BY DEF SkillInv, RunningShape, ActiveShape, SkillTypeOK
<1>2. plan[m] \in Steps /\ SkillOf[plan[m]] \in PlannedSkills
  BY <1>1, PlanFacts
<1>3. active' = Active(SkillOf[plan[m]], "PLANNED", plan[m], plan[m]) /\ index' = m
  BY DEF StartStep, Planned
<1>4. pending \in {"none", "SUCCEEDED"} /\ pending' \in {"none", "SUCCEEDED"} /\ Trouble = "none"
  BY NoTroubleYet
<1>5. DetourTyped'
  BY DEF SkillInv, DetourTyped, NoDetour
<1>6. SkillInv' /\ Running'
  BY <1>1, <1>2, <1>3, <1>4, <1>5, PlannedInv DEF Running
<1>7. Phase = "flying" /\ Phase' \in {"flying", "landing"}
  BY <1>3, <1>6, PhaseNow, PhaseNext DEF Active
<1>8. Trouble' = "none" BY <1>4 DEF Trouble
<1>. QED BY <1>4, <1>6, <1>7, <1>8, FlyingStep

\* _start_next_planned(): the step, or the landing when it cannot be started.
LEMMA ProceedStep ==
  ASSUME SkillInv, Running, active.kind = "PLANNED", active.skill # "LAND",
         NEW n \in Nat, n >= 1, Proceed(n), DataTyped'
  PROVE  SkillInv' /\ LifeStep
<1>1. CASE BeginLanding("FAILED")
  BY <1>1, LandingStep
<1>3. plan \in Plans /\ Len(plan) \in Nat
  BY PlanFacts DEF SkillInv, RunningShape
<1>4. CASE ~ BeginLanding("FAILED")
  <2>1. PICK m \in {n, n + 1} : m <= Len(plan) /\ StartStep(m)
    BY <1>3, <1>4 DEF Proceed
  <2>2. m \in 1..Len(plan) BY <1>3, <2>1
  <2>3. UNCHANGED <<status, plan, version, hold>> /\ detour' \in {detour, NoDetour}
        /\ pending' \in {"SUCCEEDED", pending}
    BY <1>4 DEF Proceed
  <2>. QED BY <2>1, <2>2, <2>3, StartStepStep
<1>. QED BY <1>1, <1>4

(***************************************************************************)
(* Ends of planned Skills                                                  *)
(***************************************************************************)

\* A set of natural numbers has a least element.
LEMMA LeastElement ==
  ASSUME NEW T \in SUBSET Nat, T # {}
  PROVE  \E x \in T : \A y \in T : ~ (y < x)
<1>. DEFINE L == OpToRel(<, Nat)
<1>1. IsWellFoundedOn(L, Nat)
  BY NatLessThanWellFounded
<1>2. ASSUME NEW x \in T, NEW y \in T, y < x PROVE <<y, x>> \in L
  BY <1>2 DEF OpToRel
<1>. HIDE DEF L
<1>3. PICK x \in T : \A y \in T : ~ (<<y, x>> \in L)
  BY <1>1, WFMin
<1>. QED BY <1>2, <1>3

\* Behind a SEARCH there is a step that is none: the LAND at the latest.
LEMMA NextNonSearchExists ==
  ASSUME SkillInv, Running, SkillOf[plan[index]] # "LAND"
  PROVE  /\ NextNonSearch \in (index + 1)..Len(plan)
         /\ \A k \in (index + 1)..(NextNonSearch - 1) : SkillOf[plan[k]] = "SEARCH"
<1>. DEFINE T == {j \in (index + 1)..Len(plan) : SkillOf[plan[j]] # "SEARCH"}
<1>1. plan \in Plans /\ index \in 1..Len(plan) /\ Len(plan) \in Nat
  BY PlanFacts DEF SkillInv, RunningShape
<1>2. index # Len(plan) /\ SkillOf[plan[Len(plan)]] = "LAND"
  BY <1>1, PlanFacts
<1>3. Len(plan) \in T
  BY <1>1, <1>2
<1>4. T \in SUBSET Nat
  BY <1>1
<1>5. PICK j \in T : \A k \in T : ~ (k < j)
  BY <1>3, <1>4, LeastElement
<1>6. \A k \in (index + 1)..(j - 1) : SkillOf[plan[k]] = "SEARCH"
  BY <1>1, <1>5
<1>7. j \in (index + 1)..Len(plan) /\ SkillOf[plan[j]] # "SEARCH"
  BY <1>5
<1>8. \E m \in (index + 1)..Len(plan) :
         /\ SkillOf[plan[m]] # "SEARCH"
         /\ \A k \in (index + 1)..(m - 1) : SkillOf[plan[k]] = "SEARCH"
  BY <1>6, <1>7
<1>. QED BY <1>8 DEF NextNonSearch

\* An output of a step of the plan is stored.
LEMMA OutputTyped ==
  ASSUME SkillInv, NEW s, NEW o \in {"evidence", "target"}, Output(s, o),
         UNCHANGED <<attempts, locked, calls>>
  PROVE  DataTyped'
BY DEF SkillInv, SkillTypeOK, DataTyped, Output

LEMMA InterveneTyped ==
  ASSUME SkillInv, Intervene
  PROVE  calls' \in 0..MaxCalls
BY SkillAssumption DEF Intervene, SkillInv, SkillTypeOK, SkillAssumption

LEMMA DataKept ==
  ASSUME SkillInv, UNCHANGED <<workVars, calls>>
  PROVE  DataTyped'
BY DEF SkillInv, SkillTypeOK, DataTyped, workVars

\* _resume_search_after_inspection(): back to the SEARCH, or the landing.
LEMMA BackToSearchStep ==
  ASSUME SkillInv, Running, active.kind = "PLANNED", active.skill # "LAND",
         detour # NoDetour, BackToSearch, DataTyped'
  PROVE  SkillInv' /\ LifeStep
<1>1. CASE BeginLanding("FAILED")
  BY <1>1, LandingStep
<1>2. CASE ~ BeginLanding("FAILED")
  <2>1. plan \in Plans /\ Len(plan) \in Nat
    BY PlanFacts DEF SkillInv, RunningShape
  <2>2. /\ Len(plan) >= detour.inspect
        /\ StartStep(detour.search)
        /\ UNCHANGED <<status, pending, plan, version, hold, detour>>
    BY <1>2 DEF BackToSearch
  <2>3. detour.search \in 1..Len(plan)
    BY <2>1, <2>2 DEF SkillInv, DetourTyped
  <2>. QED BY <2>2, <2>3, StartStepStep
<1>. QED BY <1>1, <1>2

\* A Skill of the plan runs with the kind PLANNED.
LEMMA FlyingFacts ==
  ASSUME NEW k \in PlannedSkills \ {"LAND"}, Flying(k)
  PROVE  Running /\ active.kind = "PLANNED" /\ active.skill # "LAND"
BY DEF Flying

LEMMA StepDoneStep == ASSUME SkillInv, StepDone PROVE SkillInv' /\ LifeStep
<1>1. Running /\ active.kind = "PLANNED" /\ active.skill # "LAND"
  BY FlyingFacts DEF StepDone
<1>2. DataTyped'
  BY OutputTyped DEF StepDone
<1>3. index + 1 \in Nat /\ index + 1 >= 1
  BY DEF SkillInv, SkillTypeOK
<1>. QED BY <1>1, <1>2, <1>3, ProceedStep DEF StepDone

LEMMA SearchFallsBackStep == ASSUME SkillInv, SearchFallsBack PROVE SkillInv' /\ LifeStep
<1>1. Running /\ active.kind = "PLANNED" /\ active.skill # "LAND"
  BY DEF SearchFallsBack, Flying
<1>2. DataTyped'
  BY OutputTyped DEF SearchFallsBack
<1>3. index + 1 \in Nat /\ index + 1 >= 1
  BY DEF SkillInv, SkillTypeOK
<1>. QED BY <1>1, <1>2, <1>3, ProceedStep DEF SearchFallsBack

LEMMA InspectRejectedStep == ASSUME SkillInv, InspectRejected PROVE SkillInv' /\ LifeStep
<1>1. Running /\ active.kind = "PLANNED" /\ active.skill # "LAND"
  BY DEF InspectRejected, Flying
<1>2. DataTyped'
  BY DataKept DEF InspectRejected
<1>. QED BY <1>1, <1>2, BackToSearchStep DEF InspectRejected

LEMMA InspectDoneStep == ASSUME SkillInv, InspectDone PROVE SkillInv' /\ LifeStep
<1>1. Running /\ active.kind = "PLANNED" /\ active.skill # "LAND" /\ detour # NoDetour
  BY DEF InspectDone, Flying
<1>2. CASE Output(active.step, "evidence") /\ BackToSearch
  BY <1>1, <1>2, OutputTyped, BackToSearchStep DEF InspectDone
<1>3. CASE BeginLanding("FAILED") /\ UNCHANGED outputs
  BY <1>1, <1>3, DataKept, LandingStep DEF InspectDone, workVars
<1>. QED BY <1>2, <1>3 DEF InspectDone

LEMMA StepFailsStep == ASSUME SkillInv, StepFails PROVE SkillInv' /\ LifeStep
<1>1. Running /\ active.skill # "LAND"
  BY DEF StepFails, Reacquiring, SkillInv, RunningShape, ActiveShape
<1>. QED BY <1>1, DataKept, LandingStep DEF StepFails

LEMMA TargetFoundStep == ASSUME SkillInv, TargetFound PROVE SkillInv' /\ LifeStep
<1>1. Running /\ active.kind = "PLANNED" /\ active.skill = "SEARCH"
  BY DEF TargetFound, Flying
<1>2. SkillOf[plan[index]] = "SEARCH"
  BY <1>1 DEF SkillInv, RunningShape, ActiveShape
<1>3. plan \in Plans /\ Len(plan) \in Nat /\ index \in Nat
  BY <1>1, PlanFacts DEF SkillInv, RunningShape
<1>4. NextNonSearch \in Nat /\ NextNonSearch >= 1
  BY <1>1, <1>2, <1>3, NextNonSearchExists
<1>5. DataTyped'
  <2>. DEFINE S == {plan[i] : i \in index..(NextNonSearch - 1)}
  <2>1. outputs' = [s \in Steps |->
          IF \E i \in index..(NextNonSearch - 1) : plan[i] = s THEN "target" ELSE outputs[s]]
    BY DEF TargetFound
  <2>2. outputs' \in [Steps -> {"none", "evidence", "target"}]
    BY <2>1 DEF SkillInv, SkillTypeOK
  <2>3. locked' \in BOOLEAN /\ UNCHANGED <<attempts, calls>>
    BY DEF TargetFound
  <2>. QED BY <2>2, <2>3 DEF SkillInv, SkillTypeOK, DataTyped
<1>. QED BY <1>1, <1>4, <1>5, ProceedStep DEF TargetFound

(***************************************************************************)
(* Losses and holds                                                        *)
(***************************************************************************)

\* The active Skill of a plan gives way to another of its own step.
LEMMA SameStepInv ==
  ASSUME SkillInv, Running, active.skill # "LAND", DataTyped',
         UNCHANGED <<status, plan, version, index, detour>>,
         pending' \in {"none", "SUCCEEDED"},
         NEW k \in (PlannedSkills \cup {"REACQUIRE"}) \ {"LAND"},
         NEW e \in {"PLANNED", "RECOVERY", "SUPERVISORY"}, NEW g \in Steps \cup {NoStep},
         active' = Active(k, e, active.step, g),
         e = "SUPERVISORY" => k = "HOVER", e = "RECOVERY" => k = "REACQUIRE",
         e = "PLANNED" => k = SkillOf[active.step],
         e = "SUPERVISORY" <=> hold' # NoHold, HoldShape',
         hold' \in HoldRecords
  PROVE  SkillInv'
<1>1. active' \in ActiveRecords
      /\ active'.kind = e /\ active'.skill = k /\ active'.step = active.step
  BY DEF Active, ActiveRecords, SkillInv, SkillTypeOK
<1>2. SkillTypeOK'
  BY <1>1 DEF SkillInv, SkillTypeOK, DataTyped, TaskOver
<1>3. RunningShape'
  BY <1>1 DEF SkillInv, RunningShape, ActiveShape
<1>. QED BY <1>2, <1>3 DEF SkillInv, DetourTyped

LEMMA TargetLostStep == ASSUME SkillInv, TargetLost PROVE SkillInv' /\ LifeStep
<1>1. Running /\ active.kind = "PLANNED" /\ active.skill = "TRACK"
  BY DEF TargetLost, Flying
<1>2. active.step \in Steps /\ active.goal \in Steps \cup {NoStep} /\ hold = NoHold
  <2>1. plan \in Plans /\ index \in 1..Len(plan) /\ active.step = plan[index]
    BY <1>1 DEF SkillInv, RunningShape, ActiveShape
  <2>. QED BY <1>1, <2>1, PlanFacts DEF SkillInv, RunningShape, ActiveShape, SkillTypeOK, ActiveRecords
<1>3. attempts' \in [Steps -> 0..MaxAttempts]
  <2>1. attempts[active.step] + 1 \in 0..MaxAttempts
    BY <1>2, SkillAssumption DEF SkillInv, SkillTypeOK, TargetLost, SkillAssumption
  <2>. QED BY <1>2, <2>1 DEF SkillInv, SkillTypeOK, TargetLost
<1>4. DataTyped'
  BY <1>3 DEF SkillInv, SkillTypeOK, DataTyped, TargetLost
<1>5. active' = Active("REACQUIRE", "RECOVERY", active.step, active.goal)
      /\ UNCHANGED <<status, pending, plan, version, index, hold, detour>>
  BY DEF TargetLost, taskVars
<1>6. pending \in {"none", "SUCCEEDED"}
  BY <1>1, NoTroubleYet
<1>7. SkillInv'
  BY <1>1, <1>2, <1>4, <1>5, <1>6, SameStepInv DEF SkillInv, SkillTypeOK, HoldShape
<1>8. Phase' = Phase /\ Trouble' = Trouble
  BY <1>1, <1>5, PhaseNow, PhaseNext DEF Active, Running, Trouble
<1>. QED BY <1>5, <1>7, <1>8, UnseenStep

LEMMA ReacquiredStep == ASSUME SkillInv, Reacquired PROVE SkillInv' /\ LifeStep
<1>1. Running /\ active.kind = "RECOVERY" /\ active.skill = "REACQUIRE"
  BY DEF Reacquired, Reacquiring, SkillInv, RunningShape, ActiveShape
<1>2. index \in 1..Len(plan) /\ active.step = plan[index]
  BY <1>1 DEF SkillInv, RunningShape, ActiveShape
<1>3. StartStep(index) /\ UNCHANGED <<status, pending, plan, version, hold, detour>>
      /\ UNCHANGED <<workVars, calls>>
  BY <1>2 DEF Reacquired, StartStep, taskVars
<1>. QED BY <1>1, <1>2, <1>3, DataKept, StartStepStep

\* A Skill that may be interrupted is held.
LEMMA HoldingStep ==
  ASSUME SkillInv, NEW k \in Interruptible, Flying(k), DataTyped',
         NEW fallback \in {"RESUME_PREVIOUS", "CANCEL_AND_LAND"}, NEW r \in BOOLEAN,
         hold' = Hold(fallback, r), active' = Hover(active.step),
         UNCHANGED <<status, plan, version, index, detour>>,
         pending' \in {"none", "SUCCEEDED"}
  PROVE  SkillInv' /\ LifeStep
<1>1. Running /\ active.kind = "PLANNED" /\ active.skill \in Interruptible /\ active.skill # "LAND"
  BY DEF Flying, Interruptible
<1>2. /\ plan \in Plans /\ index \in 1..Len(plan) /\ active.step = plan[index]
      /\ active.skill = SkillOf[active.step]
  BY <1>1 DEF SkillInv, RunningShape, ActiveShape
<1>3. active.step \in Steps /\ active.goal \in Steps \cup {NoStep} /\ index \in Nat
  BY <1>2, PlanFacts DEF SkillInv, SkillTypeOK, ActiveRecords
<1>4. /\ hold' # NoHold
      /\ hold' = [index |-> index, step |-> active.step, goal |-> active.goal,
              fallback |-> fallback, next |-> "none", suffix |-> <<>>,
              established |-> FALSE, repair |-> r]
  BY HoldIsReal
<1>5. hold' \in HoldRecords
  BY <1>3, <1>4 DEF HoldRecords
<1>6. HoldShape'
  BY <1>1, <1>2, <1>4 DEF HoldShape
<1>7. active' = Active("HOVER", "SUPERVISORY", active.step, NoStep)
  BY DEF Hover
<1>8. SkillInv'
  BY <1>1, <1>4, <1>5, <1>6, <1>7, SameStepInv DEF PlannedSkills
<1>9. Phase = "flying" /\ Phase' = "holding"
  BY <1>1, <1>7, PhaseNow, PhaseNext DEF Active, Running
<1>10. Trouble = "none" /\ Trouble' = "none"
  BY <1>1, NoTroubleYet DEF Trouble
<1>. QED BY <1>8, <1>9, <1>10, FlyingStep

LEMMA InterruptStep ==
  ASSUME SkillInv, NEW fallback \in {"RESUME_PREVIOUS", "CANCEL_AND_LAND"}, Interrupt(fallback)
  PROVE  SkillInv' /\ LifeStep
<1>1. PICK k \in Interruptible : Flying(k)
  BY DEF Interrupt
<1>2. pending' = pending /\ pending \in {"none", "SUCCEEDED"}
  BY <1>1, NoTroubleYet DEF Interrupt, taskVars, Flying, Interruptible
<1>3. calls' \in 0..MaxCalls
  BY InterveneTyped DEF Interrupt
<1>4. DataTyped'
  BY <1>3 DEF Interrupt, workVars, SkillInv, SkillTypeOK, DataTyped
<1>5. /\ hold' = Hold(fallback, FALSE) /\ active' = Hover(active.step)
      /\ UNCHANGED <<status, plan, version, index, detour>>
  BY DEF Interrupt, taskVars
<1>. QED BY <1>1, <1>2, <1>4, <1>5, HoldingStep

LEMMA RepairPendingStep == ASSUME SkillInv, RepairPending PROVE SkillInv' /\ LifeStep
<1>1. PICK k \in Interruptible : Flying(k)
  BY DEF RepairPending, Interruptible
<1>2. pending' \in {"none", "SUCCEEDED"} /\ DataTyped'
  BY DataKept DEF RepairPending
<1>3. /\ hold' = Hold("CANCEL_AND_LAND", TRUE) /\ active' = Hover(active.step)
      /\ UNCHANGED <<status, plan, version, index, detour>>
  BY DEF RepairPending
<1>. QED BY <1>1, <1>2, <1>3, HoldingStep

\* What happens to a hold that stays.
LEMMA StillHeldStep ==
  ASSUME SkillInv, Running, hold # NoHold, hold' # NoHold, DataTyped', HoldShape',
         UNCHANGED <<taskVars, active, detour>>,
         hold' \in HoldRecords
  PROVE  SkillInv' /\ LifeStep
<1>1. SkillTypeOK' BY DEF SkillInv, SkillTypeOK, DataTyped, taskVars
<1>2. SkillInv'
  BY <1>1 DEF SkillInv, DetourTyped, RunningShape, ActiveShape, taskVars, Running
<1>3. Phase' = Phase /\ Trouble' = Trouble
  BY DEF taskVars, Phase, Running, Trouble
<1>. QED BY <1>2, <1>3, UnseenStep DEF taskVars

LEMMA HeldFacts ==
  ASSUME SkillInv, Running, hold # NoHold
  PROVE  /\ HoldShape /\ hold.index \in 1..Len(plan) /\ plan \in Plans /\ Len(plan) \in Nat
         /\ hold.fallback # "none"
         /\ hold \in HoldRecords
BY PlanFacts DEF SkillInv, RunningShape, HoldShape, SkillTypeOK

LEMMA DecideStep ==
  ASSUME SkillInv, NEW n \in {"RESUME", "REPLACE", "INSPECT"}, NEW p, Decide(n, p),
         p \in Plans \cup {<<>>},
         n # "RESUME" => p \in Plans /\ Replaceable(p, hold.index),
         n = "INSPECT" => Len(p) > hold.index /\ SkillOf[p[hold.index + 1]] = "INSPECT"
  PROVE  SkillInv' /\ LifeStep
<1>1. Running /\ hold # NoHold
  BY DEF Decide, Undecided
<1>2. hold' = [hold EXCEPT !.next = n, !.suffix = p]
  BY DEF Decide
<1>3. calls' \in 0..MaxCalls
  BY InterveneTyped DEF Decide
<1>4. DataTyped'
  BY <1>3 DEF Decide, workVars, SkillInv, SkillTypeOK, DataTyped
<1>5. /\ hold' \in HoldRecords
      /\ hold'.index = hold.index /\ hold'.step = hold.step /\ hold'.fallback = hold.fallback
      /\ hold'.next = n /\ hold'.suffix = p
  BY <1>1, <1>2, HeldFacts DEF HoldRecords
<1>6. hold' # NoHold
  BY <1>5 DEF NoHold
<1>7. HoldShape'
  <2>1. hold.index \in Nat /\ hold.index >= 1 /\ hold.index <= Len(plan) /\ plan \in Plans
    BY <1>1, HeldFacts
  <2>2. n # "RESUME" => Len(p) >= hold.index /\ \A j \in 1..(hold.index - 1) : p[j] = plan[j]
    BY <2>1, ReplaceableFacts
  <2>3. plan' = plan BY DEF Decide, taskVars
  <2>. QED BY <1>1, <1>5, <2>2, <2>3, HeldFacts DEF HoldShape
<1>. QED BY <1>1, <1>4, <1>5, <1>6, <1>7, StillHeldStep DEF Decide

LEMMA HoldEstablishedStep == ASSUME SkillInv, HoldEstablished PROVE SkillInv' /\ LifeStep
<1>1. Running /\ hold # NoHold
  BY DEF HoldEstablished, Hovering, SkillInv, RunningShape, ActiveShape
<1>2. hold' = [hold EXCEPT !.established = TRUE]
  BY DEF HoldEstablished
<1>3. /\ hold' \in HoldRecords
      /\ hold'.index = hold.index /\ hold'.step = hold.step /\ hold'.fallback = hold.fallback
      /\ hold'.next = hold.next /\ hold'.suffix = hold.suffix
  BY <1>1, <1>2, HeldFacts DEF HoldRecords
<1>4. hold' # NoHold
  BY <1>1, <1>3, HeldFacts DEF NoHold
<1>5. HoldShape' /\ DataTyped'
  BY <1>1, <1>3, HeldFacts, DataKept DEF HoldShape, HoldEstablished, taskVars
<1>. QED BY <1>1, <1>3, <1>4, <1>5, StillHeldStep DEF HoldEstablished

(***************************************************************************)
(* The end of a hold, and new plans                                        *)
(***************************************************************************)

\* A hold gives way to step i of plan p: the saved one, or that of a new version.
LEMMA LeaveHoldStep ==
  ASSUME SkillInv, Running, hold # NoHold, DataTyped', DetourTyped',
         NEW p \in Plans, NEW i \in 1..Len(p), NEW g \in Steps \cup {NoStep},
         plan' = p, index' = i, version' \in {version, version + 1}, hold' = NoHold,
         active' = Active(SkillOf[p[i]], "PLANNED", p[i], g),
         UNCHANGED <<status, pending>>
  PROVE  SkillInv' /\ LifeStep
<1>1. active.kind = "SUPERVISORY" /\ active.skill = "HOVER"
  BY DEF SkillInv, RunningShape, ActiveShape
<1>2. pending \in {"none", "SUCCEEDED"} /\ Trouble = "none" /\ Trouble' = "none"
  BY <1>1, NoTroubleYet DEF Trouble
<1>3. Running' /\ version' \in Nat
  BY DEF Running, SkillInv, SkillTypeOK
<1>4. SkillInv'
  BY <1>2, <1>3, PlannedInv
<1>5. Phase = "holding" /\ Phase' \in {"flying", "landing"}
  BY <1>1, <1>3, PhaseNow, PhaseNext DEF Active
<1>. QED BY <1>2, <1>4, <1>5, GoOnStep

\* publish_task_plan() keeps what was done and spent.
LEMMA PublishTyped ==
  ASSUME SkillInv, NEW p, Publish(p), calls' \in 0..MaxCalls
  PROVE  DataTyped'
<1>1. /\ attempts' = [s \in Steps |-> IF \E i \in 1..Len(p) : p[i] = s THEN attempts[s] ELSE 0]
      /\ UNCHANGED <<outputs, locked>>
  BY DEF Publish
<1>2. 0 \in 0..MaxAttempts
  BY SkillAssumption DEF SkillAssumption
<1>3. attempts' \in [Steps -> 0..MaxAttempts]
  BY <1>1, <1>2 DEF SkillInv, SkillTypeOK
<1>. QED BY <1>1, <1>3 DEF SkillInv, SkillTypeOK, DataTyped

LEMMA ResumeSavedStep ==
  ASSUME SkillInv, Running, hold # NoHold, ResumeSaved, UNCHANGED calls
  PROVE  SkillInv' /\ LifeStep
<1>1. hold.index \in 1..Len(plan) /\ plan \in Plans /\ hold.step = plan[hold.index]
      /\ hold.goal \in Steps \cup {NoStep}
  BY HeldFacts DEF HoldShape, HoldRecords
<1>2. /\ active' = Active(SkillOf[plan[hold.index]], "PLANNED", plan[hold.index], hold.goal)
      /\ index' = hold.index /\ hold' = NoHold /\ plan' = plan
      /\ UNCHANGED <<status, pending, version, detour, workVars, calls>>
  BY <1>1 DEF ResumeSaved
<1>3. DataTyped' /\ DetourTyped'
  BY <1>2, DataKept DEF SkillInv, DetourTyped
<1>. QED BY <1>1, <1>2, <1>3, LeaveHoldStep

LEMMA StartReplacementStep ==
  ASSUME SkillInv, Running, hold # NoHold, hold.next = "REPLACE", StartReplacement, UNCHANGED calls
  PROVE  SkillInv' /\ LifeStep
<1>1. hold.index \in 1..Len(plan) /\ Len(plan) \in Nat /\ hold.suffix \in Plans
      /\ Len(hold.suffix) >= hold.index
  BY HeldFacts DEF HoldShape
<1>2. Len(hold.suffix) \in Nat BY <1>1, PlanFacts
<1>3. hold.index \in 1..Len(hold.suffix) /\ hold.suffix[hold.index] \in Steps
  BY <1>1, <1>2, PlanFacts
<1>4. calls' \in 0..MaxCalls BY DEF SkillInv, SkillTypeOK
<1>5. /\ active' = Active(SkillOf[hold.suffix[hold.index]], "PLANNED", hold.suffix[hold.index],
                          hold.suffix[hold.index])
      /\ plan' = hold.suffix /\ index' = hold.index /\ hold' = NoHold /\ version' = version + 1
      /\ UNCHANGED <<status, pending, detour>>
  BY DEF StartReplacement, Publish, Planned
<1>6. DataTyped' /\ DetourTyped'
  BY <1>4, <1>5, PublishTyped DEF StartReplacement, SkillInv, DetourTyped
<1>. QED BY <1>1, <1>3, <1>5, <1>6, LeaveHoldStep

LEMMA StartHandOffStep ==
  ASSUME SkillInv, Running, hold # NoHold, hold.next = "INSPECT", StartHandOff, UNCHANGED calls
  PROVE  SkillInv' /\ LifeStep
<1>. DEFINE i == hold.index + 1
<1>1. hold.index \in 1..Len(plan) /\ Len(plan) \in Nat /\ hold.suffix \in Plans
      /\ Len(hold.suffix) > hold.index /\ hold \in HoldRecords
  BY HeldFacts DEF HoldShape
<1>2. Len(hold.suffix) \in Nat BY <1>1, PlanFacts
<1>3. i \in 1..Len(hold.suffix) /\ hold.suffix[i] \in Steps
  BY <1>1, <1>2, PlanFacts
<1>4. calls' \in 0..MaxCalls BY DEF SkillInv, SkillTypeOK
<1>5. /\ active' = Active(SkillOf[hold.suffix[i]], "PLANNED", hold.suffix[i], hold.suffix[i])
      /\ plan' = hold.suffix /\ index' = i /\ hold' = NoHold /\ version' = version + 1
      /\ UNCHANGED <<status, pending>>
      /\ detour' = [search |-> hold.index, inspect |-> i,
                    searchStep |-> hold.step, inspectStep |-> hold.suffix[i]]
  BY DEF StartHandOff, Publish, Planned
<1>6. DetourTyped'
  BY <1>1, <1>3, <1>5 DEF DetourTyped, HoldRecords
<1>7. DataTyped'
  BY <1>4, PublishTyped DEF StartHandOff
<1>. HIDE DEF i
<1>. QED BY <1>1, <1>3, <1>5, <1>6, <1>7, LeaveHoldStep

LEMMA HoveringFacts ==
  ASSUME SkillInv, Hovering
  PROVE  Running /\ hold # NoHold /\ active.skill # "LAND"
BY DEF Hovering, SkillInv, RunningShape, ActiveShape

LEMMA HoverReleasedStep == ASSUME SkillInv, HoverReleased PROVE SkillInv' /\ LifeStep
<1>1. Running /\ hold # NoHold /\ UNCHANGED calls
  BY HoveringFacts DEF HoverReleased
<1>2. CASE hold.next = "RESUME" /\ ResumeSaved
  BY <1>1, <1>2, ResumeSavedStep
<1>3. CASE hold.next = "REPLACE" /\ StartReplacement
  BY <1>1, <1>3, StartReplacementStep
<1>4. CASE hold.next = "INSPECT" /\ StartHandOff
  BY <1>1, <1>4, StartHandOffStep
<1>. QED BY <1>2, <1>3, <1>4 DEF HoverReleased

LEMMA HoverTimesOutStep == ASSUME SkillInv, HoverTimesOut PROVE SkillInv' /\ LifeStep
<1>1. Running /\ hold # NoHold /\ active.skill # "LAND" /\ UNCHANGED calls
  BY HoveringFacts DEF HoverTimesOut
<1>2. CASE ResumeSaved
  BY <1>1, <1>2, ResumeSavedStep
<1>3. CASE BeginLanding("FAILED") /\ UNCHANGED workVars
  BY <1>1, <1>3, DataKept, LandingStep
<1>. QED BY <1>2, <1>3 DEF HoverTimesOut

LEMMA HoverFailsStep == ASSUME SkillInv, HoverFails PROVE SkillInv' /\ LifeStep
BY HoveringFacts, DataKept, LandingStep DEF HoverFails

LEMMA FailLocalRepairStep == ASSUME SkillInv, FailLocalRepair PROVE SkillInv' /\ LifeStep
<1>1. Running /\ active.skill # "LAND"
  BY DEF FailLocalRepair, RepairOpen, Undecided, SkillInv, RunningShape, ActiveShape
<1>. QED BY <1>1, DataKept, LandingStep DEF FailLocalRepair

LEMMA CommitLocalRepairStep ==
  ASSUME SkillInv, NEW p \in Plans, CommitLocalRepair(p)
  PROVE  SkillInv' /\ LifeStep
<1>1. Running /\ hold # NoHold /\ PublishPrepared(p, hold.index, hold.step)
  BY DEF CommitLocalRepair, RepairOpen, Undecided
<1>2. hold.index \in 1..Len(plan) /\ Len(plan) \in Nat /\ hold \in HoldRecords
  BY <1>1, HeldFacts
<1>3. Len(p) \in Nat /\ Len(p) >= hold.index
  BY <1>1, PlanFacts DEF PublishPrepared, Prepared, Replaceable
<1>4. hold.index \in 1..Len(p) /\ p[hold.index] \in Steps /\ hold.step \in Steps \cup {NoStep}
  BY <1>2, <1>3, PlanFacts DEF HoldRecords
<1>5. /\ active' = Active(SkillOf[p[hold.index]], "PLANNED", p[hold.index], hold.step)
      /\ plan' = p /\ index' = hold.index /\ hold' = NoHold /\ version' = version + 1
      /\ UNCHANGED <<status, pending, detour>>
  BY <1>1 DEF PublishPrepared, Publish
<1>6. DataTyped' /\ DetourTyped'
  BY <1>1, <1>5, PublishTyped, InterveneTyped DEF PublishPrepared, SkillInv, DetourTyped
<1>. QED BY <1>1, <1>4, <1>5, <1>6, LeaveHoldStep

LEMMA CommitCoordinatedStep ==
  ASSUME SkillInv, NEW p \in Plans, CommitCoordinated(p)
  PROVE  SkillInv' /\ LifeStep
<1>1. PICK k \in Interruptible : Flying(k)
  BY DEF CommitCoordinated
<1>2. /\ Running /\ active.kind = "PLANNED" /\ active.skill \in Interruptible
      /\ active.skill # "LAND" /\ PublishPrepared(p, index, active.step)
  BY <1>1 DEF CommitCoordinated, Flying, Interruptible
<1>3. /\ plan \in Plans /\ index \in 1..Len(plan) /\ hold = NoHold /\ Len(plan) \in Nat
      /\ active.step = plan[index] /\ active.skill = SkillOf[active.step]
  BY <1>2, PlanFacts DEF SkillInv, RunningShape, ActiveShape
<1>4. Len(p) \in Nat /\ Len(p) >= index /\ active.step \in Steps
  BY <1>2, <1>3, PlanFacts DEF PublishPrepared, Prepared, Replaceable
<1>5. index \in 1..Len(p) /\ p[index] \in Steps
  BY <1>3, <1>4, PlanFacts
<1>6. SkillOf[p[index]] # "LAND"
  <2>1. PICK j \in index..Len(p) : /\ p[j] = active.step
                                   /\ j > index => \A l \in index..(j - 1) : SkillOf[p[l]] = "GOTO"
    BY <1>2 DEF PublishPrepared, Prepared
  <2>2. CASE j = index
    BY <1>2, <1>3, <2>1, <2>2 DEF Interruptible
  <2>3. CASE j # index
    <3>1. j > index /\ index \in index..(j - 1)
      BY <1>3, <1>4, <2>3
    <3>. QED BY <2>1, <3>1
  <2>. QED BY <2>2, <2>3
<1>7. /\ active' = Active(SkillOf[p[index]], "PLANNED", p[index], active.step)
      /\ plan' = p /\ index' = index /\ hold' = NoHold /\ version' = version + 1
      /\ UNCHANGED <<status, pending, detour>>
  BY <1>2 DEF PublishPrepared, Publish
<1>8. DataTyped' /\ DetourTyped'
  BY <1>2, <1>7, PublishTyped, InterveneTyped DEF PublishPrepared, SkillInv, DetourTyped
<1>9. pending \in {"none", "SUCCEEDED"} /\ Trouble = "none" /\ Trouble' = "none"
      /\ Running' /\ version' \in Nat
  BY <1>2, <1>7, NoTroubleYet DEF Trouble, Running, SkillInv, SkillTypeOK
<1>10. SkillInv'
  BY <1>2, <1>4, <1>5, <1>7, <1>8, <1>9, PlannedInv
<1>11. Phase = "flying" /\ Phase' = "flying"
  BY <1>2, <1>6, <1>7, <1>9, PhaseNow, PhaseNext DEF Active
<1>. QED BY <1>7, <1>9, <1>10, <1>11, NewPlanStep

(***************************************************************************)
(* Starts, cancellations and ends of tasks                                 *)
(***************************************************************************)

LEMMA StartTaskStep ==
  ASSUME SkillInv, NEW p \in Tasks, StartTask(p)
  PROVE  SkillInv' /\ LifeStep
<1>1. p \in Plans BY SkillAssumption DEF SkillAssumption
<1>2. Len(p) \in Nat /\ 1 \in 1..Len(p) /\ p[1] \in Steps /\ SkillOf[p[1]] \in PlannedSkills
      /\ SkillOf[p[1]] # "LAND"
  BY <1>1, PlanFacts
<1>3. /\ active' \in ActiveRecords /\ active'.kind = "PLANNED" /\ active'.step = p[1]
      /\ active'.skill = SkillOf[p[1]]
  BY <1>2 DEF StartTask, Planned, Active, ActiveRecords
<1>4. hold' \in HoldRecords /\ hold' = NoHold
  BY DEF StartTask, NoHold, HoldRecords
<1>5. DataTyped'
  <2>1. 0 \in 0..MaxAttempts /\ 0 \in 0..MaxCalls
    BY SkillAssumption DEF SkillAssumption
  <2>. QED BY <2>1 DEF StartTask, DataTyped
<1>6. status' = "RUNNING" /\ pending' = "none" /\ plan' = p /\ version' = 1 /\ index' = 1
      /\ detour' = detour /\ status = "IDLE"
  BY DEF StartTask
<1>7. SkillTypeOK'
  BY <1>1, <1>2, <1>3, <1>4, <1>5, <1>6 DEF SkillInv, SkillTypeOK, DataTyped, TaskOver
<1>8. SkillInv'
  BY <1>1, <1>2, <1>3, <1>4, <1>6, <1>7
     DEF SkillInv, DetourTyped, RunningShape, ActiveShape, HoldShape
<1>9. Phase = "idle" /\ Phase' = "flying" /\ Trouble' = "none"
  BY <1>2, <1>3, <1>6 DEF Phase, Running, Trouble
<1>. QED BY <1>6, <1>8, <1>9 DEF LifeStep, Life!LifeNext, Life!TakeTask, Trouble

LEMMA ResetTaskStep == ASSUME SkillInv, ResetTask PROVE SkillInv' /\ LifeStep
<1>1. /\ status \in TaskOver /\ status' = "IDLE" /\ pending' = "none" /\ plan' = <<>>
      /\ version' = 0 /\ index' = 0 /\ active' = Nothing /\ hold' = NoHold /\ detour' = NoDetour
  BY DEF ResetTask
<1>2. DataTyped'
  <2>1. 0 \in 0..MaxAttempts /\ 0 \in 0..MaxCalls
    BY SkillAssumption DEF SkillAssumption
  <2>. QED BY <2>1 DEF ResetTask, DataTyped
<1>3. active' \in ActiveRecords /\ hold' \in HoldRecords /\ DetourTyped'
  BY <1>1 DEF Nothing, Active, ActiveRecords, NoHold, HoldRecords, NoDetour, DetourTyped
<1>4. 0 \in 0..Len(<<>>) /\ 0 \in Nat
  OBVIOUS
<1>5. SkillTypeOK'
  BY <1>1, <1>2, <1>3, <1>4 DEF SkillTypeOK, DataTyped, DetourTyped, TaskOver
<1>6. SkillInv'
  BY <1>1, <1>3, <1>5 DEF SkillInv, Running
<1>7. Phase \in {"SUCCEEDED", "FAILED", "CANCELED"} /\ Phase' = "idle" /\ Trouble' = "none"
  BY <1>1 DEF Phase, Running, Trouble, TaskOver
<1>. QED BY <1>1, <1>6, <1>7 DEF LifeStep, Life!LifeNext, Life!Forget, Life!Ended, Trouble

LEMMA CancelTaskStep == ASSUME SkillInv, CancelTask PROVE SkillInv' /\ LifeStep
<1>1. Running /\ DataTyped'
  BY DataKept DEF CancelTask
<1>2. CASE active.skill # "LAND" /\ BeginLanding("CANCELED")
  BY <1>1, <1>2, LandingStep
<1>3. CASE /\ active.skill = "LAND"
           /\ pending' = IF pending = "FAILED" THEN pending ELSE "CANCELED"
           /\ UNCHANGED <<status, plan, version, index, active, hold, detour>>
  <2>1. pending' \in {"FAILED", "CANCELED"}
    BY <1>3
  <2>2. SkillInv'
    BY <1>1, <1>3, <2>1 DEF SkillInv, SkillTypeOK, DetourTyped, DataTyped, TaskOver, Running,
                             RunningShape, ActiveShape, HoldShape
  <2>3. Phase = "landing" /\ Phase' = "landing"
    BY <1>1, <1>3, PhaseNow DEF Phase, Running
  <2>4. Trouble' = Trouble \/ Trouble' \in Life!Worse(Trouble)
    BY <1>3 DEF Trouble, Life!Worse
  <2>. QED BY <1>3, <2>2, <2>3, <2>4, UnseenStep, GiveUpStep
<1>. QED BY <1>2, <1>3 DEF CancelTask

\* The task is over, and says how it went.
LEMMA FinishStep ==
  ASSUME SkillInv, Landing, NEW v \in TaskOver, FinishTask(v), DataTyped',
         v \in {"FAILED", IF Trouble = "none" THEN "SUCCEEDED" ELSE Trouble}
  PROVE  SkillInv' /\ LifeStep
<1>1. /\ status' = v /\ active' = Nothing /\ detour' = NoDetour
      /\ UNCHANGED <<pending, plan, version, index, hold>>
  BY DEF FinishTask
<1>2. active' \in ActiveRecords /\ DetourTyped'
  BY <1>1 DEF Nothing, Active, ActiveRecords, NoDetour, DetourTyped
<1>3. SkillTypeOK'
  BY <1>1, <1>2 DEF SkillInv, SkillTypeOK, DataTyped, DetourTyped, TaskOver
<1>4. SkillInv'
  BY <1>1, <1>2, <1>3 DEF SkillInv, Running, TaskOver
<1>5. Phase = "landing" /\ Phase' = v /\ Trouble' = Trouble
  BY <1>1, PhaseNow DEF Landing, Phase, Running, TaskOver, Trouble
<1>. QED BY <1>1, <1>4, <1>5 DEF LifeStep, Life!LifeNext, Life!End, Trouble

LEMMA LandDoneStep == ASSUME SkillInv, LandDone PROVE SkillInv' /\ LifeStep
<1>. DEFINE v == IF pending \in {"FAILED", "CANCELED"} THEN pending
                 ELSE IF index = Len(plan) /\ plan[index] = active.step THEN "SUCCEEDED"
                 ELSE "FAILED"
<1>1. Landing /\ FinishTask(v) /\ DataTyped'
  BY OutputTyped DEF LandDone
<1>2. v \in TaskOver /\ v \in {"FAILED", IF Trouble = "none" THEN "SUCCEEDED" ELSE Trouble}
  BY DEF Trouble, TaskOver
<1>. HIDE DEF v
<1>. QED BY <1>1, <1>2, FinishStep

LEMMA LandFailsStep == ASSUME SkillInv, LandFails PROVE SkillInv' /\ LifeStep
<1>1. Landing /\ DataTyped' /\ Running /\ active.skill = "LAND"
  BY DataKept DEF LandFails, Landing
<1>2. CASE FinishTask("FAILED")
  BY <1>1, <1>2, FinishStep DEF TaskOver
<1>3. CASE active.kind = "PLANNED" /\ EmergencyLand(plan, "FAILED")
           /\ UNCHANGED <<status, plan, version, hold, detour>>
  <2>1. plan \in Plans /\ hold = NoHold /\ Len(plan) \in Nat /\ Len(plan) > 1
        /\ plan[Len(plan)] \in Steps
    BY <1>1, <1>3, PlanFacts DEF SkillInv, RunningShape, ActiveShape
  <2>2. /\ pending' = "FAILED" /\ index' = Len(plan)
        /\ active' = Active("LAND", "EMERGENCY", plan[Len(plan)], plan[Len(plan)])
    BY <1>3 DEF EmergencyLand
  <2>3. /\ active' \in ActiveRecords /\ active'.kind = "EMERGENCY" /\ active'.skill = "LAND"
        /\ active'.step = plan[Len(plan)]
    BY <2>1, <2>2 DEF Active, ActiveRecords, PlannedSkills
  <2>4. SkillTypeOK'
    BY <1>1, <1>3, <2>1, <2>2, <2>3 DEF SkillInv, SkillTypeOK, DataTyped, TaskOver
  <2>5. SkillInv'
    BY <1>3, <2>1, <2>2, <2>3, <2>4 DEF SkillInv, DetourTyped, RunningShape, ActiveShape, HoldShape
  <2>6. Phase = "landing" /\ Phase' = "landing"
    BY <1>1, <1>3, <2>3, PhaseNow DEF Phase, Running
  <2>7. Trouble' \in Life!Worse(Trouble)
    BY <2>2 DEF Trouble, Life!Worse
  <2>. QED BY <1>3, <2>5, <2>6, <2>7, GiveUpStep
<1>. QED BY <1>2, <1>3 DEF LandFails

(***************************************************************************)
(* The theorems                                                            *)
(***************************************************************************)

\* Every step of the manager keeps the invariant and is one VehicleLifecycle allows.
LEMMA SkillStep == SkillInv /\ [SkillNext]_skillVars => SkillInv' /\ LifeStep
<1> SUFFICES ASSUME SkillInv, [SkillNext]_skillVars PROVE SkillInv' /\ LifeStep
  OBVIOUS
<1>1. CASE \E p \in Tasks : StartTask(p)
  BY <1>1, StartTaskStep
<1>2. CASE \E fallback \in {"RESUME_PREVIOUS", "CANCEL_AND_LAND"} : Interrupt(fallback)
  BY <1>2, InterruptStep
<1>3. CASE Resume
  BY <1>3, DecideStep DEF Resume
<1>4. ASSUME NEW p \in Plans, Replace(p) PROVE SkillInv' /\ LifeStep
  BY <1>4, DecideStep DEF Replace
<1>5. ASSUME NEW p \in Plans, HandOff(p) PROVE SkillInv' /\ LifeStep
  BY <1>5, DecideStep DEF HandOff
<1>6. ASSUME NEW p \in Plans, CommitLocalRepair(p) \/ CommitCoordinated(p)
      PROVE  SkillInv' /\ LifeStep
  BY <1>6, CommitLocalRepairStep, CommitCoordinatedStep
<1>7. CASE SkillEnds
  BY <1>7, StepDoneStep, TargetFoundStep, SearchFallsBackStep, InspectDoneStep,
     InspectRejectedStep, TargetLostStep, ReacquiredStep, RepairPendingStep, StepFailsStep,
     LandDoneStep, LandFailsStep, HoverReleasedStep, HoverTimesOutStep, HoverFailsStep
     DEF SkillEnds
<1>8. CASE UNCHANGED skillVars
  <2>1. SkillInv'
    BY <1>8 DEF skillVars, taskVars, workVars, SkillInv, SkillTypeOK, DetourTyped, Running,
                RunningShape, ActiveShape, HoldShape
  <2>. QED BY <1>8, <2>1, UnseenStep DEF skillVars, taskVars, Phase, Running, Trouble
<1>. QED BY <1>1, <1>2, <1>3, <1>4, <1>5, <1>6, <1>7, <1>8, ResetTaskStep, CancelTaskStep,
            HoldEstablishedStep, FailLocalRepairStep DEF SkillNext, Decisions

LEMMA SkillInitially == SkillInit => SkillInv /\ Life!LifeInit
<1> SUFFICES ASSUME SkillInit PROVE SkillInv /\ Life!LifeInit
  OBVIOUS
<1>1. 0 \in 0..MaxAttempts /\ 0 \in 0..MaxCalls /\ 0 \in 0..Len(<<>>)
  BY SkillAssumption DEF SkillAssumption
<1>2. active \in ActiveRecords /\ hold \in HoldRecords /\ DetourTyped
  BY DEF SkillInit, Nothing, Active, ActiveRecords, NoHold, HoldRecords, NoDetour, DetourTyped
<1>3. SkillTypeOK
  BY <1>1, <1>2 DEF SkillInit, SkillTypeOK, DetourTyped, TaskOver
<1>. QED BY <1>2, <1>3 DEF SkillInit, SkillInv, Running, Life!LifeInit, Phase

LEMMA SkillInvariant == SkillSpec => []SkillInv
BY SkillInitially, SkillStep, PTL DEF SkillSpec

\* Type correctness, for every set of plans: no TRACK ever has more attempts than
\* its policy allows, and holds and detours name steps.
THEOREM SkillManagerTypes == SkillSpec => []SkillTypeOK
BY SkillInvariant, PTL DEF SkillInv

\* The manager implements VehicleLifecycle, for every set of plans, every budget
\* and whatever its coordinators ask for.
THEOREM SkillManagerImplements == SkillSpec => ImplementsLifecycle
<1>1. SkillInit => Life!LifeInit
  BY SkillInitially
<1>2. SkillInv /\ [SkillNext]_skillVars => [Life!LifeNext]_Life!lifeVars
  BY SkillStep DEF LifeStep
<1>. QED BY <1>1, <1>2, SkillInvariant, PTL DEF SkillSpec, ImplementsLifecycle, Life!LifeSpec

(***************************************************************************)
(* A hold leaves no trace                                                  *)
(***************************************************************************)

NoTrace == Running /\ hold # NoHold /\ hold' = NoHold => LeavesHold

LEMMA LandingLeaves == ASSUME NEW v, BeginLanding(v) PROVE NoTrace
BY DEF BeginLanding, EmergencyLand, Active, NoTrace, LeavesHold

LEMMA ResumeLeaves == ASSUME ResumeSaved PROVE NoTrace
BY DEF ResumeSaved, Active, NoTrace, LeavesHold

LEMMA ReplacementLeaves ==
  ASSUME SkillInv, hold.next = "REPLACE", StartReplacement
  PROVE  NoTrace
<1> SUFFICES ASSUME Running, hold # NoHold PROVE LeavesHold
  BY DEF NoTrace
<1>1. \A i \in 1..(hold.index - 1) : hold.suffix[i] = plan[i]
  BY DEF SkillInv, RunningShape, HoldShape
<1>2. /\ plan' = hold.suffix /\ version' = version + 1 /\ index' = hold.index
      /\ active'.step = hold.suffix[hold.index]
  BY DEF StartReplacement, Publish, Planned, Active
<1>. QED BY <1>1, <1>2 DEF LeavesHold

LEMMA HandOffLeaves ==
  ASSUME SkillInv, hold.next = "INSPECT", StartHandOff
  PROVE  NoTrace
<1> SUFFICES ASSUME Running, hold # NoHold PROVE LeavesHold
  BY DEF NoTrace
<1>1. \A i \in 1..(hold.index - 1) : hold.suffix[i] = plan[i]
  BY DEF SkillInv, RunningShape, HoldShape
<1>2. /\ plan' = hold.suffix /\ version' = version + 1 /\ index' = hold.index + 1
      /\ active'.step = hold.suffix[hold.index + 1] /\ detour'.searchStep = hold.step
  BY DEF StartHandOff, Publish, Planned, Active
<1>. QED BY <1>1, <1>2 DEF LeavesHold

LEMMA LocalRepairLeaves ==
  ASSUME SkillInv, NEW p \in Plans, CommitLocalRepair(p)
  PROVE  NoTrace
<1>1. Running /\ hold # NoHold /\ PublishPrepared(p, hold.index, hold.step)
  BY DEF CommitLocalRepair, RepairOpen, Undecided
<1>2. hold.index \in 1..Len(plan) /\ Len(plan) \in Nat /\ plan \in Plans
  BY <1>1, HeldFacts
<1>3. \A i \in 1..(hold.index - 1) : p[i] = plan[i]
  BY <1>1, <1>2, ReplaceableFacts DEF PublishPrepared, Prepared
<1>4. /\ plan' = p /\ version' = version + 1 /\ index' = hold.index
      /\ active'.step = p[hold.index]
  BY <1>1 DEF PublishPrepared, Publish, Active
<1>. QED BY <1>3, <1>4 DEF LeavesHold, NoTrace

\* A decision, or the first setpoint of HOVER, does not end the hold.
LEMMA StillHeld ==
  ASSUME SkillInv, HoldEstablished \/ \E n, p : Decide(n, p)
  PROVE  NoTrace
<1> SUFFICES ASSUME Running, hold # NoHold PROVE hold' # NoHold
  BY DEF NoTrace
<1>1. hold.fallback # "none" /\ hold \in HoldRecords
  BY HeldFacts
<1>2. hold'.fallback = hold.fallback
  <2>1. CASE HoldEstablished
    BY <1>1, <2>1 DEF HoldEstablished, HoldRecords
  <2>2. ASSUME NEW n, NEW p, Decide(n, p) PROVE hold'.fallback = hold.fallback
    BY <1>1, <2>2 DEF Decide, HoldRecords
  <2>. QED BY <2>1, <2>2
<1>. QED BY <1>1, <1>2 DEF NoHold

\* Only a HOVER has an interruption behind it.
LEMMA NotHeld ==
  ASSUME SkillInv, active.kind # "SUPERVISORY" \/ ~ Running
  PROVE  NoTrace
BY DEF NoTrace, SkillInv, RunningShape, ActiveShape

LEMMA HoldStep == SkillInv /\ [SkillNext]_skillVars => NoTrace
<1> SUFFICES ASSUME SkillInv, [SkillNext]_skillVars PROVE NoTrace
  OBVIOUS
<1>1. CASE StepDone \/ TargetFound \/ SearchFallsBack \/ InspectDone \/ InspectRejected
           \/ TargetLost \/ Reacquired \/ RepairPending
  BY <1>1, NotHeld DEF StepDone, TargetFound, SearchFallsBack, InspectDone, InspectRejected,
                       TargetLost, Reacquired, Reacquiring, RepairPending, Flying
<1>2. CASE StepFails
  BY <1>2, LandingLeaves DEF StepFails
<1>3. CASE LandDone \/ LandFails
  <2>1. Running /\ active.skill = "LAND"
    BY <1>3 DEF LandDone, LandFails, Landing
  <2>2. active.kind # "SUPERVISORY"
    BY <2>1 DEF SkillInv, RunningShape, ActiveShape
  <2>. QED BY <2>2, NotHeld
<1>4. CASE HoverReleased
  BY <1>4, ResumeLeaves, ReplacementLeaves, HandOffLeaves DEF HoverReleased
<1>5. CASE HoverTimesOut \/ HoverFails \/ FailLocalRepair
  BY <1>5, ResumeLeaves, LandingLeaves DEF HoverTimesOut, HoverFails, FailLocalRepair
<1>6. CASE CancelTask
  <2>1. CASE BeginLanding("CANCELED")
    BY <2>1, LandingLeaves
  <2>2. CASE UNCHANGED hold
    BY <2>2 DEF NoTrace
  <2>. QED BY <1>6, <2>1, <2>2 DEF CancelTask
<1>7. CASE Resume \/ HoldEstablished \/ \E p \in Plans : Replace(p) \/ HandOff(p)
  BY <1>7, StillHeld DEF Resume, Replace, HandOff
<1>8. ASSUME NEW p \in Plans, CommitLocalRepair(p) PROVE NoTrace
  BY <1>8, LocalRepairLeaves
<1>9. ASSUME NEW p \in Plans, CommitCoordinated(p) PROVE NoTrace
  BY <1>9, NotHeld DEF CommitCoordinated, Flying
<1>10. CASE ResetTask \/ \E p \in Tasks : StartTask(p)
  BY <1>10, NotHeld DEF ResetTask, StartTask, Running, TaskOver
<1>11. CASE \E fallback \in {"RESUME_PREVIOUS", "CANCEL_AND_LAND"} : Interrupt(fallback)
  BY <1>11 DEF Interrupt, NoTrace
<1>12. CASE UNCHANGED skillVars
  BY <1>12 DEF skillVars, NoTrace
<1>. QED BY <1>1, <1>2, <1>3, <1>4, <1>5, <1>6, <1>7, <1>8, <1>9, <1>10, <1>11, <1>12
         DEF SkillNext, Decisions, SkillEnds

\* However a hold ends, and whoever decided it, the same step goes on with its
\* Goal, or the next version of the plan from that step, or the vehicle lands.
THEOREM SkillManagerHolds == SkillSpec => HoldLeavesNoTrace
<1>1. SkillInv /\ [SkillNext]_skillVars
        => [Running /\ hold # NoHold /\ hold' = NoHold => LeavesHold]_skillVars
  BY HoldStep DEF NoTrace
<1>. QED BY <1>1, SkillInvariant, PTL DEF SkillSpec, HoldLeavesNoTrace

(***************************************************************************)
(* No work is lost                                                         *)
(***************************************************************************)

Kept(i) ==
  /\ outputs[plan'[i]] # "none" => outputs'[plan'[i]] # "none"
  /\ (\E j \in 1..Len(plan) : plan[j] = plan'[i]) => attempts'[plan'[i]] >= attempts[plan'[i]]
AllKept == Running /\ status' # "IDLE" => \A i \in 1..Len(plan') : Kept(i)

\* The steps of the plan that runs next are steps.
LEMMA NextPlanSteps ==
  ASSUME SkillInv, SkillInv', Running, plan' = plan \/ Running'
  PROVE  \A i \in 1..Len(plan') : plan'[i] \in Steps
<1>1. plan' \in Plans
  BY DEF SkillInv, RunningShape
<1>. QED BY <1>1, PlanFacts

LEMMA UntouchedKept ==
  ASSUME SkillInv, SkillInv', plan' = plan \/ Running', UNCHANGED <<outputs, attempts>>
  PROVE  AllKept
<1> SUFFICES ASSUME Running, NEW i \in 1..Len(plan') PROVE Kept(i)
  BY DEF AllKept
<1>1. plan'[i] \in Steps
  BY NextPlanSteps
<1>2. attempts[plan'[i]] \in Nat
  BY <1>1, SkillAssumption DEF SkillInv, SkillTypeOK, SkillAssumption
<1>. QED BY <1>2 DEF Kept

LEMMA GrownKept ==
  ASSUME SkillInv, SkillInv', plan' = plan, attempts' = attempts,
         \A s \in Steps : outputs[s] # "none" => outputs'[s] # "none"
  PROVE  AllKept
<1> SUFFICES ASSUME Running, NEW i \in 1..Len(plan') PROVE Kept(i)
  BY DEF AllKept
<1>1. plan'[i] \in Steps
  BY NextPlanSteps
<1>2. attempts[plan'[i]] \in Nat
  BY <1>1, SkillAssumption DEF SkillInv, SkillTypeOK, SkillAssumption
<1>. QED BY <1>1, <1>2 DEF Kept

LEMMA PublishKept ==
  ASSUME SkillInv, SkillInv', NEW p, Publish(p)
  PROVE  AllKept
<1> SUFFICES ASSUME Running, NEW i \in 1..Len(plan') PROVE Kept(i)
  BY DEF AllKept
<1>1. Running' /\ plan' = p /\ outputs' = outputs
      /\ attempts' = [s \in Steps |-> IF \E j \in 1..Len(p) : p[j] = s THEN attempts[s] ELSE 0]
  BY DEF Publish, Running
<1>2. plan'[i] \in Steps
  BY <1>1, NextPlanSteps
<1>3. attempts[plan'[i]] \in Nat
  BY <1>2, SkillAssumption DEF SkillInv, SkillTypeOK, SkillAssumption
<1>4. attempts'[plan'[i]] = attempts[plan'[i]]
  BY <1>1, <1>2
<1>. QED BY <1>1, <1>3, <1>4 DEF Kept

\* An output is only ever overwritten by another.
LEMMA OutputGrows ==
  ASSUME SkillInv, NEW s, Output(s, "evidence")
  PROVE  \A t \in Steps : outputs[t] # "none" => outputs'[t] # "none"
BY DEF Output, SkillInv, SkillTypeOK

LEMMA ProceedPlan == ASSUME NEW n, Proceed(n) PROVE plan' = plan
BY DEF Proceed, BeginLanding

LEMMA KeepStep == SkillInv /\ [SkillNext]_skillVars => AllKept
<1> SUFFICES ASSUME SkillInv, [SkillNext]_skillVars PROVE AllKept
  OBVIOUS
<1>. SkillInv'
  BY SkillStep
<1>1. CASE StepDone \/ SearchFallsBack
  <2>1. plan' = plan /\ attempts' = attempts /\ Output(active.step, "evidence")
    BY <1>1, ProceedPlan DEF StepDone, SearchFallsBack
  <2>. QED BY <2>1, OutputGrows, GrownKept
<1>2. CASE TargetFound
  <2>1. plan' = plan /\ attempts' = attempts
    BY <1>2, ProceedPlan DEF TargetFound
  <2>2. \A s \in Steps : outputs[s] # "none" => outputs'[s] # "none"
    BY <1>2 DEF TargetFound
  <2>. QED BY <2>1, <2>2, GrownKept
<1>3. CASE InspectDone
  <2>1. plan' = plan /\ attempts' = attempts
        /\ (Output(active.step, "evidence") \/ outputs' = outputs)
    BY <1>3 DEF InspectDone, BackToSearch, BeginLanding
  <2>. QED BY <2>1, OutputGrows, GrownKept
<1>4. CASE LandDone
  <2>1. plan' = plan /\ attempts' = attempts /\ Output(active.step, "evidence")
    BY <1>4 DEF LandDone, FinishTask
  <2>. QED BY <2>1, OutputGrows, GrownKept
<1>5. CASE TargetLost
  <2>1. outputs' = outputs /\ plan' = plan /\ attempts' = [attempts EXCEPT ![active.step] = @ + 1]
    BY <1>5 DEF TargetLost, taskVars
  <2>2. ASSUME Running, NEW i \in 1..Len(plan') PROVE Kept(i)
    <3>1. plan'[i] \in Steps
      BY <2>1, <2>2, NextPlanSteps
    <3>2. attempts[plan'[i]] \in Nat
      BY <3>1, SkillAssumption DEF SkillInv, SkillTypeOK, SkillAssumption
    <3>3. attempts'[plan'[i]] \in {attempts[plan'[i]], attempts[plan'[i]] + 1}
      BY <2>1, <3>1 DEF SkillInv, SkillTypeOK
    <3>4. attempts'[plan'[i]] >= attempts[plan'[i]]
      BY <3>2, <3>3
    <3>. QED BY <2>1, <3>4 DEF Kept
  <2>. QED BY <2>2 DEF AllKept
<1>6. CASE InspectRejected \/ StepFails \/ HoverFails \/ FailLocalRepair \/ CancelTask
  BY <1>6, UntouchedKept DEF InspectRejected, BackToSearch, StepFails, HoverFails,
       FailLocalRepair, CancelTask, BeginLanding, workVars
<1>7. CASE Reacquired \/ RepairPending \/ HoldEstablished \/ LandFails \/ UNCHANGED skillVars
           \/ \E n, p : Decide(n, p)
           \/ \E fallback \in {"RESUME_PREVIOUS", "CANCEL_AND_LAND"} : Interrupt(fallback)
  BY <1>7, UntouchedKept DEF Reacquired, RepairPending, HoldEstablished, LandFails, FinishTask,
       Decide, Interrupt, skillVars, taskVars, workVars
<1>8. CASE HoverTimesOut
  BY <1>8, UntouchedKept DEF HoverTimesOut, ResumeSaved, BeginLanding, workVars
<1>9. CASE HoverReleased
  <2>1. CASE ResumeSaved
    BY <2>1, UntouchedKept DEF ResumeSaved, workVars
  <2>2. CASE StartReplacement \/ StartHandOff
    BY <2>2, PublishKept DEF StartReplacement, StartHandOff
  <2>. QED BY <1>9, <2>1, <2>2 DEF HoverReleased
<1>10. ASSUME NEW p \in Plans, CommitLocalRepair(p) \/ CommitCoordinated(p) PROVE AllKept
  BY <1>10, PublishKept DEF CommitLocalRepair, CommitCoordinated, PublishPrepared
<1>11. CASE ResetTask \/ \E p \in Tasks : StartTask(p)
  BY <1>11 DEF ResetTask, StartTask, Running, TaskOver, AllKept
<1>12. CASE Resume \/ \E p \in Plans : Replace(p) \/ HandOff(p)
  BY <1>7, <1>12 DEF Resume, Replace, HandOff
<1>. QED BY <1>1, <1>2, <1>3, <1>4, <1>5, <1>6, <1>7, <1>8, <1>9, <1>10, <1>11, <1>12
         DEF SkillNext, Decisions, SkillEnds

\* No output of a step is lost and no TRACK is given attempts back, through
\* interruptions, replacements, detours and repairs.
THEOREM SkillManagerKeepsWork == SkillSpec => WorkKept
<1>1. SkillInv /\ [SkillNext]_skillVars
        => [Running /\ status' # "IDLE" =>
              \A i \in 1..Len(plan') :
                /\ outputs[plan'[i]] # "none" => outputs'[plan'[i]] # "none"
                /\ (\E j \in 1..Len(plan) : plan[j] = plan'[i]) =>
                     attempts'[plan'[i]] >= attempts[plan'[i]]]_skillVars
  BY KeepStep DEF AllKept, Kept
<1>. QED BY <1>1, SkillInvariant, PTL DEF SkillSpec, WorkKept

(***************************************************************************)
(* Success is earned                                                       *)
(***************************************************************************)

\* A step is carried out, given the outputs out.
CarriedOut(s, out) == (SkillOf[s] # "INSPECT" => out[s] # "none") /\ Resolvable(s, out)

\* A detour is behind its SEARCH: either the SEARCH runs next with the INSPECT right
\* behind it, or the INSPECT is still to come.
DetourPlaced ==
  detour # NoDetour =>
    /\ index >= detour.search
    /\ detour.searchStep \in Steps /\ SkillOf[detour.searchStep] = "SEARCH"
    /\ detour.inspectStep \in Steps /\ SkillOf[detour.inspectStep] = "INSPECT"
    /\ \/ \E m \in index..(Len(plan) - 1) :
            plan[m] = detour.searchStep /\ plan[m + 1] = detour.inspectStep
       \/ /\ index > detour.search
          /\ \E m \in index..Len(plan) : plan[m] = detour.inspectStep

\* A decision that waits for HOVER to end was allowed by the plan it waits in.
DecisionSound ==
  hold # NoHold =>
    /\ hold.index = index
    /\ hold.next \in {"REPLACE", "INSPECT"} =>
         /\ <<plan, index, hold.suffix>> \in Revisions
         /\ Resolvable(hold.suffix[index], outputs)
    /\ hold.next = "INSPECT" =>
         /\ detour = NoDetour /\ hold.suffix[index] = hold.step
         /\ SkillOf[hold.step] = "SEARCH"

\* Every step behind the plan's index is carried out, but the SEARCH a detour left.
Progress ==
  /\ Resolvable(plan[index], outputs)
  /\ \A j \in 1..(index - 1) :
       CarriedOut(plan[j], outputs) \/ (detour # NoDetour /\ j = detour.search)
  /\ DetourPlaced
  /\ DecisionSound

Untroubled == pending \in {"none", "SUCCEEDED"}

EarnedInv ==
  /\ ~ Running => detour = NoDetour
  /\ Running /\ Untroubled => Progress
  /\ SuccessIsEarned

LEMMA DistinctSteps ==
  ASSUME NEW p \in Plans, NEW i \in 1..Len(p), NEW j \in 1..Len(p), p[i] = p[j]
  PROVE  i = j
BY SkillAssumption DEF SkillAssumption

\* Where a running task is.
LEMMA Whereabouts ==
  ASSUME SkillInv, Running
  PROVE  /\ plan \in Plans /\ Len(plan) \in Nat /\ index \in Nat /\ index \in 1..Len(plan)
         /\ \A j \in 1..Len(plan) : plan[j] \in Steps
         /\ active.step = plan[index]
         /\ active.kind = "PLANNED" => active.skill = SkillOf[plan[index]] /\ hold = NoHold
         /\ active.kind # "SUPERVISORY" => hold = NoHold
BY PlanFacts DEF SkillInv, RunningShape, ActiveShape

\* What fails or is cancelled has nothing to earn.
LEMMA TroubledEarns ==
  ASSUME Running', pending' \in {"FAILED", "CANCELED"}
  PROVE  EarnedInv'
BY DEF EarnedInv, Untroubled, SuccessIsEarned, Running

LEMMA LandingEarns ==
  ASSUME Running, NEW v \in {"FAILED", "CANCELED"}, BeginLanding(v)
  PROVE  EarnedInv'
BY TroubledEarns DEF BeginLanding, EmergencyLand, Running

\* Steps get outputs from the one that runs on, and none loses one.
GrowsAhead ==
  \A s \in Steps :
    \/ outputs'[s] = outputs[s]
    \/ outputs'[s] # "none" /\ \E k \in index..Len(plan) : plan[k] = s

\* A TRACK keeps the target it names: its SEARCH is behind.
LEMMA StillResolvable ==
  ASSUME RefsBehind, SkillInv, Running, GrowsAhead, NEW j \in 1..index,
         Resolvable(plan[j], outputs)
  PROVE  Resolvable(plan[j], outputs')
<1> SUFFICES ASSUME SkillOf[plan[j]] = "TRACK", RefOf[plan[j]] # NoStep
             PROVE  outputs'[RefOf[plan[j]]] = "target"
  BY DEF Resolvable
<1>1. plan \in Plans /\ Len(plan) \in Nat /\ index \in Nat /\ index \in 1..Len(plan)
      /\ \A i \in 1..Len(plan) : plan[i] \in Steps
  BY Whereabouts
<1>2. j \in 1..Len(plan)
  BY <1>1
<1>3. PICK k \in 1..(j - 1) : plan[k] = RefOf[plan[j]]
  BY <1>1, <1>2 DEF RefsBehind
<1>4. k \in 1..Len(plan) /\ RefOf[plan[j]] \in Steps
  BY <1>1, <1>2, <1>3
<1>5. ASSUME NEW l \in index..Len(plan) PROVE plan[l] # RefOf[plan[j]]
  <2>1. l \in 1..Len(plan) /\ l # k
    BY <1>1, <1>2, <1>3
  <2>. QED BY <1>1, <1>3, <1>4, <2>1, DistinctSteps
<1>6. outputs[RefOf[plan[j]]] = "target"
  BY DEF Resolvable
<1>. QED BY <1>4, <1>5, <1>6 DEF GrowsAhead

LEMMA StillCarriedOut ==
  ASSUME RefsBehind, SkillInv, Running, GrowsAhead, NEW j \in 1..(index - 1),
         CarriedOut(plan[j], outputs)
  PROVE  CarriedOut(plan[j], outputs')
<1>1. index \in Nat /\ j \in 1..index /\ plan[j] \in Steps
  BY Whereabouts
<1>2. Resolvable(plan[j], outputs')
  BY <1>1, StillResolvable DEF CarriedOut
<1>3. outputs[plan[j]] # "none" => outputs'[plan[j]] # "none"
  BY <1>1 DEF GrowsAhead
<1>. QED BY <1>2, <1>3 DEF CarriedOut

\* The plan goes on with step m, and no INSPECT of a detour is left behind.
LEMMA OnwardEarns ==
  ASSUME RefsBehind, SkillInv, Running, Progress, GrowsAhead, Running',
         NEW m \in Nat, m > index, m <= Len(plan), plan' = plan, index' = m,
         \A j \in index..(m - 1) : CarriedOut(plan[j], outputs'),
         Resolvable(plan[m], outputs'), hold' = NoHold,
         \/ /\ detour' = detour
            /\ detour # NoDetour => \A j \in index..(m - 1) : plan[j] # detour.inspectStep
         \/ detour' = NoDetour /\ (detour = NoDetour \/ index = detour.search)
  PROVE  EarnedInv'
<1>1. plan \in Plans /\ Len(plan) \in Nat /\ index \in Nat /\ index \in 1..Len(plan)
  BY Whereabouts
<1>2. ASSUME NEW j \in 1..(m - 1)
      PROVE  CarriedOut(plan[j], outputs') \/ (detour' # NoDetour /\ j = detour'.search)
  <2>1. CASE j >= index
    BY <1>1, <2>1
  <2>2. CASE j < index
    <3>1. j \in 1..(index - 1)
      BY <1>1, <2>2
    <3>2. CASE CarriedOut(plan[j], outputs)
      BY <3>1, <3>2, StillCarriedOut
    <3>3. CASE detour # NoDetour /\ j = detour.search
      BY <1>1, <3>1, <3>3
    <3>. QED BY <3>1, <3>2, <3>3 DEF Progress
  <2>. QED BY <1>1, <2>1, <2>2
<1>3. DetourPlaced'
  <2> SUFFICES ASSUME detour' # NoDetour, detour' = detour PROVE DetourPlaced'
    BY DEF DetourPlaced
  <2>1. /\ index >= detour.search
        /\ detour.searchStep \in Steps /\ SkillOf[detour.searchStep] = "SEARCH"
        /\ detour.inspectStep \in Steps /\ SkillOf[detour.inspectStep] = "INSPECT"
    BY DEF Progress, DetourPlaced
  <2>2. detour.search \in Nat
    BY DEF SkillInv, DetourTyped
  <2>3. \A j \in index..(m - 1) : plan[j] # detour.inspectStep
    OBVIOUS
  <2>4. m >= detour.search /\ m > detour.search
    BY <1>1, <2>1, <2>2
  <2>5. \E l \in m..Len(plan) : plan[l] = detour.inspectStep
    <3>1. PICK l \in index..Len(plan) : plan[l] = detour.inspectStep
      <4>1. CASE \E i \in index..(Len(plan) - 1) :
                   plan[i] = detour.searchStep /\ plan[i + 1] = detour.inspectStep
        <5>1. PICK i \in index..(Len(plan) - 1) : plan[i + 1] = detour.inspectStep
          BY <4>1
        <5>2. i + 1 \in index..Len(plan)
          BY <1>1
        <5>. QED BY <5>1, <5>2
      <4>2. CASE \E i \in index..Len(plan) : plan[i] = detour.inspectStep
        BY <4>2
      <4>. QED BY <4>1, <4>2 DEF Progress, DetourPlaced
    <3>2. l \in m..Len(plan)
      BY <1>1, <2>3, <3>1
    <3>. QED BY <3>1, <3>2
  <2>. QED BY <2>1, <2>4, <2>5 DEF DetourPlaced
<1>4. DecisionSound'
  BY DEF DecisionSound
<1>5. Progress'
  BY <1>2, <1>3, <1>4 DEF Progress
<1>. QED BY <1>5 DEF EarnedInv, SuccessIsEarned, Running

\* A SEARCH that closes its detour has the INSPECT right behind it.
LEMMA ClosingFacts ==
  ASSUME SkillInv, Running, Progress, ClosesDetour
  PROVE  /\ detour # NoDetour /\ index = detour.search
         /\ index + 1 <= Len(plan) /\ SkillOf[plan[index + 1]] = "INSPECT"
<1>1. plan \in Plans /\ Len(plan) \in Nat /\ index \in Nat /\ index \in 1..Len(plan)
      /\ active.step = plan[index]
  BY Whereabouts
<1>2. detour # NoDetour /\ index = detour.search /\ plan[index] = detour.searchStep
  BY <1>1 DEF ClosesDetour
<1>3. PICK m \in index..(Len(plan) - 1) :
         plan[m] = detour.searchStep /\ plan[m + 1] = detour.inspectStep
  BY <1>1, <1>2 DEF Progress, DetourPlaced
<1>4. m = index
  BY <1>1, <1>2, <1>3, DistinctSteps
<1>. QED BY <1>1, <1>2, <1>3, <1>4 DEF Progress, DetourPlaced

\* _start_next_planned() behind steps that were carried out.
LEMMA ProceedEarns ==
  ASSUME RefsBehind, SkillInv, Running, Progress, GrowsAhead, active.kind = "PLANNED",
         NEW n \in Nat, n > index, Proceed(n),
         \A j \in index..(n - 1) : CarriedOut(plan[j], outputs'),
         detour # NoDetour => \A j \in index..(n - 1) : SkillOf[plan[j]] # "INSPECT"
  PROVE  EarnedInv'
<1>1. CASE BeginLanding("FAILED")
  BY <1>1, LandingEarns
<1>2. CASE ~ BeginLanding("FAILED")
  <2>1. plan \in Plans /\ Len(plan) \in Nat /\ index \in Nat /\ index \in 1..Len(plan)
        /\ hold = NoHold
    BY Whereabouts
  <2>2. UNCHANGED <<status, plan, version, hold>> /\ Running'
    BY <1>2 DEF Proceed, Running
  <2>3. CASE ClosesDetour
    <3>1. /\ n = detour.inspect /\ n + 1 <= Len(plan) /\ Resolvable(plan[n + 1], outputs')
          /\ StartStep(n + 1) /\ detour' = NoDetour
      BY <1>2, <2>1, <2>3 DEF Proceed
    <3>2. detour # NoDetour /\ index = detour.search /\ SkillOf[plan[index + 1]] = "INSPECT"
      BY <2>3, ClosingFacts
    <3>3. n = index + 1
      BY <2>1, <3>1, <3>2 DEF SkillInv, DetourTyped
    <3>4. CarriedOut(plan[n], outputs')
      BY <3>2, <3>3 DEF CarriedOut, Resolvable
    <3>5. \A j \in index..((n + 1) - 1) : CarriedOut(plan[j], outputs')
      BY <2>1, <3>4
    <3>6. index' = n + 1 /\ n + 1 \in Nat /\ n + 1 > index
      BY <2>1, <3>1 DEF StartStep
    <3>. QED BY <2>1, <2>2, <3>1, <3>2, <3>5, <3>6, OnwardEarns
  <2>4. CASE ~ ClosesDetour
    <3>1. /\ n <= Len(plan) /\ Resolvable(plan[n], outputs')
          /\ StartStep(n) /\ detour' = detour
      BY <1>2, <2>1, <2>4 DEF Proceed
    <3>2. detour # NoDetour => \A j \in index..(n - 1) : plan[j] # detour.inspectStep
      BY DEF Progress, DetourPlaced
    <3>3. index' = n
      BY <3>1 DEF StartStep
    <3>. QED BY <2>1, <2>2, <3>1, <3>2, <3>3, OnwardEarns
  <2>. QED BY <2>3, <2>4
<1>. QED BY <1>1, <1>2

\* An output of the step that runs.
LEMMA OutputEarns ==
  ASSUME RefsBehind, SkillInv, Running, Progress, Output(active.step, "evidence")
  PROVE  GrowsAhead /\ CarriedOut(plan[index], outputs')
<1>1. plan \in Plans /\ Len(plan) \in Nat /\ index \in Nat /\ index \in 1..Len(plan)
      /\ active.step = plan[index] /\ plan[index] \in Steps
  BY Whereabouts
<1>2. outputs' = [outputs EXCEPT ![plan[index]] = "evidence"]
      /\ outputs \in [Steps -> {"none", "evidence", "target"}]
  BY <1>1 DEF Output, SkillInv, SkillTypeOK
<1>3. outputs'[plan[index]] = "evidence" /\ index \in index..Len(plan)
  BY <1>1, <1>2
<1>4. GrowsAhead
  BY <1>1, <1>2, <1>3 DEF GrowsAhead
<1>5. Resolvable(plan[index], outputs')
  BY <1>1, <1>4, StillResolvable DEF Progress
<1>. QED BY <1>3, <1>4, <1>5 DEF CarriedOut

LEMMA StepDoneEarns ==
  ASSUME RefsBehind, SkillInv, EarnedInv, StepDone
  PROVE  EarnedInv'
<1>1. Running /\ active.kind = "PLANNED" /\ active.skill # "LAND"
  BY FlyingFacts DEF StepDone
<1>2. Progress /\ index \in Nat /\ active.skill = SkillOf[plan[index]]
  BY <1>1, NoTroubleYet, Whereabouts DEF EarnedInv, Untroubled
<1>3. GrowsAhead /\ CarriedOut(plan[index], outputs')
  BY <1>1, <1>2, OutputEarns DEF StepDone
<1>4. \A j \in index..((index + 1) - 1) : j = index
  BY <1>2
<1>5. detour # NoDetour => SkillOf[plan[index]] # "INSPECT"
  BY <1>2 DEF StepDone
<1>6. index + 1 \in Nat /\ index + 1 > index
  BY <1>2
<1>. QED BY <1>1, <1>2, <1>3, <1>4, <1>5, <1>6, ProceedEarns DEF StepDone

LEMMA SearchFallsBackEarns ==
  ASSUME RefsBehind, SkillInv, EarnedInv, SearchFallsBack
  PROVE  EarnedInv'
<1>1. Running /\ active.kind = "PLANNED" /\ active.skill = "SEARCH"
  BY DEF SearchFallsBack, Flying
<1>2. Progress /\ index \in Nat /\ active.skill = SkillOf[plan[index]]
  BY <1>1, NoTroubleYet, Whereabouts DEF EarnedInv, Untroubled
<1>3. GrowsAhead /\ CarriedOut(plan[index], outputs')
  BY <1>1, <1>2, OutputEarns DEF SearchFallsBack
<1>4. \A j \in index..((index + 1) - 1) : j = index
  BY <1>2
<1>6. index + 1 \in Nat /\ index + 1 > index
  BY <1>2
<1>. QED BY <1>1, <1>2, <1>3, <1>4, <1>6, ProceedEarns DEF SearchFallsBack

LEMMA TargetFoundEarns ==
  ASSUME RefsBehind, SkillInv, EarnedInv, TargetFound
  PROVE  EarnedInv'
<1>1. Running /\ active.kind = "PLANNED" /\ active.skill = "SEARCH"
  BY DEF TargetFound, Flying
<1>2. /\ plan \in Plans /\ Len(plan) \in Nat /\ index \in Nat /\ index \in 1..Len(plan)
      /\ SkillOf[plan[index]] = "SEARCH" /\ \A j \in 1..Len(plan) : plan[j] \in Steps
  BY <1>1, Whereabouts
<1>3. Progress
  BY <1>1, NoTroubleYet DEF EarnedInv, Untroubled
<1>. DEFINE n == NextNonSearch
<1>4. n \in (index + 1)..Len(plan) /\ \A k \in (index + 1)..(n - 1) : SkillOf[plan[k]] = "SEARCH"
  BY <1>1, <1>2, NextNonSearchExists
<1>5. outputs' = [s \in Steps |->
         IF \E i \in index..(n - 1) : plan[i] = s THEN "target" ELSE outputs[s]]
      /\ Proceed(n)
  BY DEF TargetFound
<1>. HIDE DEF n
<1>6. n \in Nat /\ n > index /\ n <= Len(plan)
  BY <1>2, <1>4
<1>7. \A j \in index..(n - 1) : SkillOf[plan[j]] = "SEARCH" /\ plan[j] \in Steps
  <2>1. \A j \in index..(n - 1) : (j = index \/ j \in (index + 1)..(n - 1)) /\ j \in 1..Len(plan)
    BY <1>2, <1>6
  <2>. QED BY <1>2, <1>4, <2>1
<1>8. \A j \in index..(n - 1) : CarriedOut(plan[j], outputs')
  <2>1. \A j \in index..(n - 1) : outputs'[plan[j]] = "target"
    BY <1>5, <1>7
  <2>. QED BY <1>7, <2>1 DEF CarriedOut, Resolvable
<1>9. GrowsAhead
  <2>1. \A i \in index..(n - 1) : i \in index..Len(plan)
    BY <1>2, <1>6
  <2>. QED BY <1>5, <2>1 DEF GrowsAhead
<1>10. \A j \in index..(n - 1) : SkillOf[plan[j]] # "INSPECT"
  BY <1>7
<1>. QED BY <1>1, <1>3, <1>5, <1>6, <1>8, <1>9, <1>10, ProceedEarns

\* _resume_search_after_inspection(): the SEARCH runs again, with its INSPECT behind it.
LEMMA BackToSearchEarns ==
  ASSUME RefsBehind, SkillInv, Running, Progress, GrowsAhead, active.kind = "PLANNED",
         detour # NoDetour, BackToSearch
  PROVE  EarnedInv'
<1>1. CASE BeginLanding("FAILED")
  BY <1>1, LandingEarns
<1>2. CASE ~ BeginLanding("FAILED")
  <2>1. /\ plan \in Plans /\ Len(plan) \in Nat /\ index \in Nat /\ index \in 1..Len(plan)
        /\ hold = NoHold
    BY Whereabouts
  <2>2. /\ Len(plan) >= detour.inspect
        /\ plan[detour.search] = detour.searchStep /\ plan[detour.inspect] = detour.inspectStep
        /\ StartStep(detour.search)
        /\ UNCHANGED <<status, pending, plan, version, hold, detour>>
    BY <1>2 DEF BackToSearch
  <2>3. /\ detour.search \in Nat /\ detour.search >= 1 /\ detour.inspect = detour.search + 1
        /\ index >= detour.search
        /\ detour.searchStep \in Steps /\ SkillOf[detour.searchStep] = "SEARCH"
        /\ detour.inspectStep \in Steps /\ SkillOf[detour.inspectStep] = "INSPECT"
    BY DEF SkillInv, DetourTyped, Progress, DetourPlaced
  <2>4. index' = detour.search /\ plan' = plan /\ detour' = detour /\ hold' = NoHold /\ Running'
    BY <2>1, <2>2 DEF StartStep, Running
  <2>5. DetourPlaced'
    <3>1. detour.search \in detour.search..(Len(plan) - 1)
      BY <2>1, <2>2, <2>3
    <3>. QED BY <2>2, <2>3, <2>4, <3>1 DEF DetourPlaced
  <2>6. ASSUME NEW j \in 1..(detour.search - 1) PROVE CarriedOut(plan[j], outputs')
    <3>1. j \in 1..(index - 1) /\ j # detour.search
      BY <2>1, <2>3
    <3>. QED BY <3>1, StillCarriedOut DEF Progress
  <2>7. Resolvable(plan[detour.search], outputs')
    BY <2>2, <2>3 DEF Resolvable
  <2>8. Progress'
    BY <2>4, <2>5, <2>6, <2>7 DEF Progress, DecisionSound
  <2>. QED BY <2>4, <2>8 DEF EarnedInv, SuccessIsEarned, Running
<1>. QED BY <1>1, <1>2

LEMMA InspectEarns ==
  ASSUME RefsBehind, SkillInv, EarnedInv, InspectDone \/ InspectRejected
  PROVE  EarnedInv'
<1>1. Running /\ active.kind = "PLANNED" /\ active.skill = "INSPECT" /\ detour # NoDetour
  BY DEF InspectDone, InspectRejected, Flying
<1>2. Progress
  BY <1>1, NoTroubleYet DEF EarnedInv, Untroubled
<1>3. CASE BeginLanding("FAILED")
  BY <1>1, <1>3, LandingEarns
<1>4. CASE Output(active.step, "evidence") /\ BackToSearch
  BY <1>1, <1>2, <1>4, OutputEarns, BackToSearchEarns
<1>5. CASE UNCHANGED outputs /\ BackToSearch
  BY <1>1, <1>2, <1>5, BackToSearchEarns DEF GrowsAhead
<1>. QED BY <1>3, <1>4, <1>5 DEF InspectDone, InspectRejected, workVars

\* The plan does not move: only the Skill that is active or the hold changes.
LEMMA SamePlaceEarns ==
  ASSUME EarnedInv, Running, Running', Progress,
         UNCHANGED <<plan, index, outputs, detour>>, DecisionSound'
  PROVE  EarnedInv'
<1>1. Progress'
  BY DEF Progress, DetourPlaced
<1>. QED BY <1>1 DEF EarnedInv, SuccessIsEarned, Running

\* A loss, its end, and the start of a hold.
LEMMA PausedEarns ==
  ASSUME SkillInv, EarnedInv,
         TargetLost \/ Reacquired \/ RepairPending
         \/ \E f \in {"RESUME_PREVIOUS", "CANCEL_AND_LAND"} : Interrupt(f)
  PROVE  EarnedInv'
<1>1. Running /\ active.skill # "LAND" /\ active.kind \in {"PLANNED", "RECOVERY"}
  BY DEF TargetLost, Reacquired, Reacquiring, RepairPending, Interrupt, Flying, Interruptible,
         SkillInv, RunningShape, ActiveShape
<1>2. Progress /\ hold = NoHold
  BY <1>1, NoTroubleYet, Whereabouts DEF EarnedInv, Untroubled
<1>3. Running' /\ UNCHANGED <<plan, index, outputs, detour>>
  BY <1>1 DEF TargetLost, Reacquired, RepairPending, Interrupt, taskVars, workVars, Running
<1>4. DecisionSound'
  <2>1. CASE hold' = NoHold
    BY <2>1 DEF DecisionSound
  <2>2. CASE \E f, r : hold' = Hold(f, r)
    BY <1>3, <2>2 DEF DecisionSound, Hold
  <2>. QED BY <1>2, <2>1, <2>2 DEF TargetLost, Reacquired, RepairPending, Interrupt
<1>. QED BY <1>1, <1>2, <1>3, <1>4, SamePlaceEarns

\* A decision is checked when it is taken.
LEMMA DecidedEarns ==
  ASSUME SkillInv, EarnedInv, NEW n \in {"RESUME", "REPLACE", "INSPECT"}, NEW p, Decide(n, p),
         n # "RESUME" => Replaceable(p, hold.index),
         n = "INSPECT" => /\ detour = NoDetour /\ p[hold.index] = hold.step
                          /\ SkillOf[hold.step] = "SEARCH"
  PROVE  EarnedInv'
<1>1. Running /\ hold # NoHold /\ hold \in HoldRecords
  BY HeldFacts DEF Decide, Undecided
<1>2. Progress
  BY <1>1, NoTroubleYet DEF EarnedInv, Untroubled, SkillInv, RunningShape, ActiveShape
<1>3. /\ Running' /\ UNCHANGED <<plan, index, outputs, detour>>
      /\ hold' = [hold EXCEPT !.next = n, !.suffix = p]
  BY <1>1 DEF Decide, taskVars, workVars, Running
<1>4. /\ hold'.index = hold.index /\ hold'.step = hold.step
      /\ hold'.next = n /\ hold'.suffix = p
  BY <1>1, <1>3 DEF HoldRecords
<1>5. hold.index = index
  BY <1>1, <1>2 DEF Progress, DecisionSound
<1>6. DecisionSound'
  BY <1>3, <1>4, <1>5 DEF DecisionSound, Replaceable
<1>. QED BY <1>1, <1>2, <1>3, <1>6, SamePlaceEarns

LEMMA EstablishedEarns ==
  ASSUME SkillInv, EarnedInv, HoldEstablished
  PROVE  EarnedInv'
<1>1. Running /\ hold # NoHold /\ hold \in HoldRecords /\ active.skill # "LAND"
  BY HoveringFacts, HeldFacts DEF HoldEstablished
<1>2. Progress
  BY <1>1, NoTroubleYet DEF EarnedInv, Untroubled
<1>3. /\ Running' /\ UNCHANGED <<plan, index, outputs, detour>>
      /\ hold' = [hold EXCEPT !.established = TRUE]
  BY <1>1 DEF HoldEstablished, taskVars, workVars, Running
<1>4. /\ hold'.index = hold.index /\ hold'.step = hold.step
      /\ hold'.next = hold.next /\ hold'.suffix = hold.suffix
  BY <1>1, <1>3 DEF HoldRecords
<1>5. DecisionSound'
  BY <1>1, <1>2, <1>3, <1>4 DEF Progress, DecisionSound
<1>. QED BY <1>1, <1>2, <1>3, <1>5, SamePlaceEarns

LEMMA ResumedEarns ==
  ASSUME SkillInv, EarnedInv, Running, hold # NoHold, ResumeSaved
  PROVE  EarnedInv'
<1>1. Progress
  BY NoTroubleYet DEF EarnedInv, Untroubled, SkillInv, RunningShape, ActiveShape
<1>2. index' = index /\ hold' = NoHold /\ Running' /\ UNCHANGED <<plan, outputs, detour>>
  BY <1>1 DEF ResumeSaved, workVars, Running, Progress, DecisionSound
<1>. QED BY <1>1, <1>2, SamePlaceEarns DEF DecisionSound

(***************************************************************************)
(* Success is earned: new plans, landings, and the theorem                 *)
(***************************************************************************)

\* Plan p goes on where the plan was, and keeps its inspections.
LEMMA RevisedEarns ==
  ASSUME KeepsInspections(Revisions), SkillInv, Running, Running', Progress,
         NEW p \in Plans, <<plan, index, p>> \in Revisions, Len(p) >= index,
         \A j \in 1..(index - 1) : p[j] = plan[j],
         Resolvable(p[index], outputs),
         plan' = p, index' = index, hold' = NoHold, UNCHANGED <<outputs, detour>>
  PROVE  EarnedInv'
<1>1. plan \in Plans /\ Len(plan) \in Nat /\ index \in Nat /\ index \in 1..Len(plan)
      /\ Len(p) \in Nat
  BY Whereabouts, PlanFacts
<1>2. ASSUME NEW i \in 1..Len(p), NEW m \in index..Len(plan), p[i] = plan[m]
      PROVE  i >= index
  <2> SUFFICES ASSUME i < index PROVE FALSE
    BY <1>1
  <2>1. i \in 1..(index - 1) /\ i \in 1..Len(plan) /\ m \in 1..Len(plan) /\ i # m
    BY <1>1
  <2>2. plan[i] = plan[m]
    BY <1>2, <2>1
  <2>. QED BY <1>1, <2>1, <2>2, DistinctSteps
<1>3. ASSUME NEW k \in index..Len(plan), SkillOf[plan[k]] = "INSPECT"
      PROVE  \E m \in 1..Len(p) :
               /\ p[m] = plan[k]
               /\ k > index /\ SkillOf[plan[k - 1]] = "SEARCH" => m > 1 /\ p[m - 1] = plan[k - 1]
  <2>. DEFINE r == <<plan, index, p>>
  <2>1. r \in Revisions /\ r[1] = plan /\ r[2] = index /\ r[3] = p
    OBVIOUS
  <2>. HIDE DEF r
  <2>2. k \in r[2]..Len(r[1]) /\ SkillOf[r[1][k]] = "INSPECT"
    BY <1>3, <2>1
  <2>3. \E m \in 1..Len(r[3]) :
          /\ r[3][m] = r[1][k]
          /\ k > r[2] /\ SkillOf[r[1][k - 1]] = "SEARCH" => m > 1 /\ r[3][m - 1] = r[1][k - 1]
    BY <2>1, <2>2 DEF KeepsInspections
  <2>. QED BY <2>1, <2>3
<1>4. DetourPlaced'
  <2> SUFFICES ASSUME detour # NoDetour PROVE DetourPlaced'
    BY DEF DetourPlaced
  <2>1. /\ index >= detour.search
        /\ detour.searchStep \in Steps /\ SkillOf[detour.searchStep] = "SEARCH"
        /\ detour.inspectStep \in Steps /\ SkillOf[detour.inspectStep] = "INSPECT"
    BY DEF Progress, DetourPlaced
  <2>2. CASE \E m \in index..(Len(plan) - 1) :
               plan[m] = detour.searchStep /\ plan[m + 1] = detour.inspectStep
    <3>1. PICK m \in index..(Len(plan) - 1) :
                 plan[m] = detour.searchStep /\ plan[m + 1] = detour.inspectStep
      BY <2>2
    <3>2. m + 1 \in index..Len(plan) /\ m + 1 > index /\ (m + 1) - 1 = m /\ m \in index..Len(plan)
      BY <1>1
    <3>3. SkillOf[plan[m + 1]] = "INSPECT" /\ SkillOf[plan[(m + 1) - 1]] = "SEARCH"
      BY <2>1, <3>1, <3>2
    <3>4. PICK i \in 1..Len(p) : p[i] = plan[m + 1] /\ i > 1 /\ p[i - 1] = plan[(m + 1) - 1]
      BY <1>3, <3>2, <3>3
    <3>5. i - 1 \in 1..Len(p) /\ p[i - 1] = plan[m] /\ (i - 1) + 1 = i
      BY <1>1, <3>2, <3>4
    <3>6. i - 1 >= index
      BY <1>2, <3>2, <3>5
    <3>7. i - 1 \in index..(Len(p) - 1)
      BY <1>1, <3>5, <3>6
    <3>8. p[i - 1] = detour.searchStep /\ p[(i - 1) + 1] = detour.inspectStep
      BY <3>1, <3>4, <3>5
    <3>. QED BY <2>1, <3>7, <3>8 DEF DetourPlaced
  <2>3. CASE /\ index > detour.search
             /\ \E m \in index..Len(plan) : plan[m] = detour.inspectStep
    <3>1. PICK m \in index..Len(plan) : plan[m] = detour.inspectStep
      BY <2>3
    <3>2. PICK i \in 1..Len(p) : p[i] = plan[m]
      BY <1>3, <2>1, <3>1
    <3>3. i \in index..Len(p)
      BY <1>1, <1>2, <3>2
    <3>. QED BY <2>1, <2>3, <3>1, <3>2, <3>3 DEF DetourPlaced
  <2>. QED BY <2>2, <2>3 DEF Progress, DetourPlaced
<1>5. \A j \in 1..(index - 1) :
        CarriedOut(p[j], outputs) \/ (detour # NoDetour /\ j = detour.search)
  BY DEF Progress
<1>6. Progress'
  BY <1>4, <1>5 DEF Progress, DecisionSound
<1>. QED BY <1>6 DEF EarnedInv, SuccessIsEarned, Running

LEMMA ReplacementEarns ==
  ASSUME KeepsInspections(Revisions), SkillInv, EarnedInv, Running, hold # NoHold,
         hold.next = "REPLACE", StartReplacement
  PROVE  EarnedInv'
<1>1. Progress
  BY NoTroubleYet DEF EarnedInv, Untroubled, SkillInv, RunningShape, ActiveShape
<1>2. /\ hold.index = index /\ <<plan, index, hold.suffix>> \in Revisions
      /\ Resolvable(hold.suffix[index], outputs)
  BY <1>1 DEF Progress, DecisionSound
<1>3. /\ hold.suffix \in Plans /\ Len(hold.suffix) >= index
      /\ \A j \in 1..(index - 1) : hold.suffix[j] = plan[j]
  BY <1>2, HeldFacts DEF HoldShape
<1>4. /\ plan' = hold.suffix /\ index' = index /\ hold' = NoHold /\ Running'
      /\ UNCHANGED <<outputs, detour>>
  BY <1>2 DEF StartReplacement, Publish, Running
<1>. QED BY <1>1, <1>2, <1>3, <1>4, RevisedEarns

LEMMA PreparedEarns ==
  ASSUME KeepsInspections(Revisions), SkillInv, EarnedInv, Running, active.skill # "LAND",
         NEW p \in Plans, NEW s, PublishPrepared(p, index, s)
  PROVE  EarnedInv'
<1>1. Progress /\ plan \in Plans /\ index \in Nat /\ index >= 1 /\ index <= Len(plan)
  BY NoTroubleYet, Whereabouts DEF EarnedInv, Untroubled
<1>2. Replaceable(p, index)
  BY DEF PublishPrepared, Prepared
<1>3. Len(p) >= index /\ \A j \in 1..(index - 1) : p[j] = plan[j]
  BY <1>1, <1>2, ReplaceableFacts
<1>4. <<plan, index, p>> \in Revisions /\ Resolvable(p[index], outputs)
  BY <1>2 DEF Replaceable
<1>5. /\ plan' = p /\ index' = index /\ hold' = NoHold /\ Running'
      /\ UNCHANGED <<outputs, detour>>
  BY DEF PublishPrepared, Publish, Running
<1>. QED BY <1>1, <1>3, <1>4, <1>5, RevisedEarns

LEMMA LocalRepairEarns ==
  ASSUME KeepsInspections(Revisions), SkillInv, EarnedInv, NEW p \in Plans, CommitLocalRepair(p)
  PROVE  EarnedInv'
<1>1. Running /\ hold # NoHold /\ active.skill # "LAND" /\ PublishPrepared(p, hold.index, hold.step)
  BY DEF CommitLocalRepair, RepairOpen, Undecided, SkillInv, RunningShape, ActiveShape
<1>2. hold.index = index
  BY <1>1, NoTroubleYet DEF EarnedInv, Untroubled, Progress, DecisionSound
<1>. QED BY <1>1, <1>2, PreparedEarns

LEMMA CoordinatedEarns ==
  ASSUME KeepsInspections(Revisions), SkillInv, EarnedInv, NEW p \in Plans, CommitCoordinated(p)
  PROVE  EarnedInv'
<1>1. Running /\ active.skill # "LAND" /\ PublishPrepared(p, index, active.step)
  BY DEF CommitCoordinated, Flying, Interruptible
<1>. QED BY <1>1, PreparedEarns

LEMMA HandOffEarns ==
  ASSUME SkillInv, EarnedInv, Running, hold # NoHold, hold.next = "INSPECT", StartHandOff
  PROVE  EarnedInv'
<1>1. Progress
  BY NoTroubleYet DEF EarnedInv, Untroubled, SkillInv, RunningShape, ActiveShape
<1>2. /\ hold.index = index /\ detour = NoDetour /\ SkillOf[hold.step] = "SEARCH"
      /\ hold.suffix[index] = hold.step
  BY <1>1 DEF Progress, DecisionSound
<1>3. /\ hold.suffix \in Plans /\ Len(hold.suffix) > index
      /\ \A j \in 1..(index - 1) : hold.suffix[j] = plan[j]
      /\ SkillOf[hold.suffix[index + 1]] = "INSPECT"
      /\ index \in Nat /\ index >= 1
  BY <1>2, HeldFacts, Whereabouts DEF HoldShape
<1>4. /\ Len(hold.suffix) \in Nat /\ index \in 1..Len(hold.suffix)
      /\ index + 1 \in (index + 1)..Len(hold.suffix) /\ index + 1 \in 1..Len(hold.suffix)
  BY <1>3, PlanFacts
<1>5. hold.suffix[index] \in Steps /\ hold.suffix[index + 1] \in Steps
  BY <1>3, <1>4, PlanFacts
<1>6. /\ plan' = hold.suffix /\ index' = index + 1 /\ hold' = NoHold /\ Running'
      /\ outputs' = outputs
      /\ detour' = [search |-> index, inspect |-> index + 1,
                    searchStep |-> hold.step, inspectStep |-> hold.suffix[index + 1]]
  BY <1>2 DEF StartHandOff, Publish, Running
<1>7. DetourPlaced'
  BY <1>2, <1>3, <1>4, <1>5, <1>6 DEF DetourPlaced
<1>8. detour' # NoDetour /\ detour'.search = index
  BY <1>3, <1>6 DEF NoDetour
<1>9. ASSUME NEW j \in 1..((index + 1) - 1)
      PROVE  CarriedOut(hold.suffix[j], outputs) \/ j = index
  <2>1. j = index \/ j \in 1..(index - 1)
    BY <1>3
  <2>. QED BY <1>1, <1>2, <1>3, <2>1 DEF Progress
<1>10. Resolvable(hold.suffix[index + 1], outputs)
  BY <1>3 DEF Resolvable
<1>11. Progress'
  BY <1>6, <1>7, <1>8, <1>9, <1>10 DEF Progress, DecisionSound
<1>. QED BY <1>6, <1>11 DEF EarnedInv, SuccessIsEarned, Running

LEMMA HoverEndsEarns ==
  ASSUME KeepsInspections(Revisions), SkillInv, EarnedInv, HoverReleased \/ HoverTimesOut \/ HoverFails
  PROVE  EarnedInv'
<1>1. Running /\ hold # NoHold
  BY HoveringFacts DEF HoverReleased, HoverTimesOut, HoverFails
<1>2. CASE BeginLanding("FAILED")
  BY <1>1, <1>2, LandingEarns
<1>3. CASE ResumeSaved
  BY <1>1, <1>3, ResumedEarns
<1>4. CASE hold.next = "REPLACE" /\ StartReplacement
  BY <1>1, <1>4, ReplacementEarns
<1>5. CASE hold.next = "INSPECT" /\ StartHandOff
  BY <1>1, <1>5, HandOffEarns
<1>. QED BY <1>2, <1>3, <1>4, <1>5 DEF HoverReleased, HoverTimesOut, HoverFails

\* When an untroubled vehicle lands, all its steps are behind it.
LEMMA LandDoneEarns ==
  ASSUME RefsBehind, SkillInv, EarnedInv, LandDone
  PROVE  EarnedInv'
<1>1. Running /\ active.skill = "LAND" /\ ~ Running' /\ detour' = NoDetour /\ plan' = plan
  BY DEF LandDone, Landing, FinishTask, Running
<1>2. CASE status' # "SUCCEEDED"
  BY <1>1, <1>2 DEF EarnedInv, SuccessIsEarned
<1>3. CASE status' = "SUCCEEDED"
  <2>1. Untroubled /\ index = Len(plan)
    BY <1>3 DEF LandDone, FinishTask, Untroubled, SkillInv, SkillTypeOK, TaskOver
  <2>2. Progress
    BY <1>1, <2>1 DEF EarnedInv
  <2>3. GrowsAhead /\ CarriedOut(plan[index], outputs')
    BY <1>1, <2>2, OutputEarns DEF LandDone
  <2>4. plan \in Plans /\ Len(plan) \in Nat /\ index \in Nat /\ index \in 1..Len(plan)
    BY <1>1, Whereabouts
  <2>5. SkillOf[plan[Len(plan)]] = "LAND"
    BY <2>4, PlanFacts
  <2>6. detour = NoDetour
    <3> SUFFICES ASSUME detour # NoDetour PROVE FALSE
      OBVIOUS
    <3>1. PICK m \in index..Len(plan) : plan[m] = detour.inspectStep
      BY <2>1, <2>2, <2>4 DEF Progress, DetourPlaced
    <3>2. m = Len(plan)
      BY <2>1, <2>4, <3>1
    <3>. QED BY <2>2, <2>5, <3>1, <3>2 DEF Progress, DetourPlaced
  <2>7. ASSUME NEW i \in 1..Len(plan) PROVE CarriedOut(plan[i], outputs')
    <3>1. i = index \/ i \in 1..(index - 1)
      BY <2>1, <2>4
    <3>. QED BY <1>1, <2>2, <2>3, <2>6, <3>1, StillCarriedOut DEF Progress
  <2>. QED BY <1>1, <2>7 DEF EarnedInv, SuccessIsEarned, CarriedOut
<1>. QED BY <1>2, <1>3

LEMMA LandFailsEarns == ASSUME LandFails PROVE EarnedInv'
<1>1. CASE FinishTask("FAILED")
  BY <1>1 DEF FinishTask, EarnedInv, SuccessIsEarned, Running
<1>2. CASE EmergencyLand(plan, "FAILED") /\ UNCHANGED <<status, plan, version, hold, detour>>
  BY <1>2, TroubledEarns DEF LandFails, Landing, EmergencyLand, Running
<1>. QED BY <1>1, <1>2 DEF LandFails

LEMMA CancelEarns == ASSUME CancelTask PROVE EarnedInv'
<1>1. CASE BeginLanding("CANCELED")
  BY <1>1, LandingEarns DEF CancelTask
<1>2. CASE /\ pending' = IF pending = "FAILED" THEN pending ELSE "CANCELED"
           /\ UNCHANGED <<status, plan, version, index, active, hold, detour>>
  BY <1>2, TroubledEarns DEF CancelTask, Running
<1>. QED BY <1>1, <1>2 DEF CancelTask

LEMMA StartEarns ==
  ASSUME RefsBehind, EarnedInv, NEW p \in Tasks, StartTask(p)
  PROVE  EarnedInv'
<1>1. p \in Plans /\ Len(p) \in Nat /\ 1 \in 1..Len(p)
  BY SkillAssumption, PlanFacts DEF SkillAssumption
<1>2. Resolvable(p[1], outputs')
  BY <1>1 DEF RefsBehind, Resolvable
<1>3. /\ plan' = p /\ index' = 1 /\ hold' = NoHold /\ detour' = NoDetour /\ Running'
  BY DEF StartTask, EarnedInv, Running
<1>4. Progress'
  BY <1>2, <1>3 DEF Progress, DetourPlaced, DecisionSound
<1>. QED BY <1>3, <1>4 DEF EarnedInv, SuccessIsEarned, Running

LEMMA EarnStep ==
  ASSUME RefsBehind, KeepsInspections(Revisions)
  PROVE  SkillInv /\ EarnedInv /\ [SkillNext]_skillVars => EarnedInv'
<1> SUFFICES ASSUME SkillInv, EarnedInv, [SkillNext]_skillVars PROVE EarnedInv'
  OBVIOUS
<1>1. CASE \E p \in Tasks : StartTask(p)
  BY <1>1, StartEarns
<1>2. CASE ResetTask
  BY <1>2 DEF ResetTask, EarnedInv, SuccessIsEarned, Running
<1>3. CASE CancelTask \/ LandFails
  BY <1>3, CancelEarns, LandFailsEarns
<1>4. CASE TargetLost \/ Reacquired \/ RepairPending
           \/ \E f \in {"RESUME_PREVIOUS", "CANCEL_AND_LAND"} : Interrupt(f)
  BY <1>4, PausedEarns
<1>5. CASE Resume
  BY <1>5, DecidedEarns DEF Resume
<1>6. ASSUME NEW p \in Plans, Replace(p) \/ HandOff(p) PROVE EarnedInv'
  BY <1>6, DecidedEarns DEF Replace, HandOff
<1>7. ASSUME NEW p \in Plans, CommitLocalRepair(p) \/ CommitCoordinated(p) PROVE EarnedInv'
  BY <1>7, LocalRepairEarns, CoordinatedEarns
<1>8. CASE FailLocalRepair
  BY <1>8, LandingEarns DEF FailLocalRepair, RepairOpen, Undecided
<1>9. CASE StepFails
  BY <1>9, LandingEarns DEF StepFails, Reacquiring
<1>10. CASE StepDone \/ TargetFound \/ SearchFallsBack
  BY <1>10, StepDoneEarns, TargetFoundEarns, SearchFallsBackEarns
<1>11. CASE InspectDone \/ InspectRejected
  BY <1>11, InspectEarns
<1>12. CASE HoldEstablished
  BY <1>12, EstablishedEarns
<1>13. CASE LandDone
  BY <1>13, LandDoneEarns
<1>14. CASE HoverReleased \/ HoverTimesOut \/ HoverFails
  BY <1>14, HoverEndsEarns
<1>15. CASE UNCHANGED skillVars
  BY <1>15 DEF skillVars, taskVars, workVars, EarnedInv, SuccessIsEarned, Running, Untroubled,
               Progress, DetourPlaced, DecisionSound
<1>. QED BY <1>1, <1>2, <1>3, <1>4, <1>5, <1>6, <1>7, <1>8, <1>9, <1>10, <1>11, <1>12, <1>13,
            <1>14, <1>15 DEF SkillNext, Decisions, SkillEnds

LEMMA EarnInitially == SkillInit => EarnedInv
BY DEF SkillInit, EarnedInv, SuccessIsEarned, Running

\* If every TRACK names a SEARCH before it and no revision removes an inspection,
\* a task that succeeds has carried out every step of the plan it ended with.
THEOREM SkillManagerEarns ==
  ASSUME RefsBehind, KeepsInspections(Revisions)
  PROVE  SkillSpec => []SuccessIsEarned
<1>1. SkillInv /\ EarnedInv /\ [SkillNext]_skillVars => EarnedInv'
  BY EarnStep
<1>2. EarnedInv => SuccessIsEarned
  BY DEF EarnedInv
<1>. QED BY <1>1, <1>2, EarnInitially, SkillInvariant, PTL DEF SkillSpec

\* A detour is closed over its own INSPECT.
LEMMA ClosingInspected ==
  ASSUME SkillInv, EarnedInv, Running, ClosesDetour
  PROVE  plan[detour.inspect] = detour.inspectStep
<1>1. plan \in Plans /\ Len(plan) \in Nat /\ index \in Nat /\ index \in 1..Len(plan)
      /\ active.step = plan[index]
  BY Whereabouts
<1>2. /\ detour # NoDetour /\ index = detour.search /\ plan[index] = detour.searchStep
      /\ active.skill # "LAND"
  BY <1>1 DEF ClosesDetour
<1>3. Progress
  BY <1>2, NoTroubleYet DEF EarnedInv, Untroubled
<1>4. PICK m \in index..(Len(plan) - 1) :
         plan[m] = detour.searchStep /\ plan[m + 1] = detour.inspectStep
  BY <1>1, <1>2, <1>3 DEF Progress, DetourPlaced
<1>5. m = index
  BY <1>1, <1>2, <1>4, DistinctSteps
<1>6. detour.inspect = index + 1
  BY <1>2 DEF SkillInv, DetourTyped
<1>. QED BY <1>4, <1>5, <1>6

\* On the same terms the docstring of _SearchInspectionDetour is right: the step a
\* SEARCH skips when it closes its detour is the INSPECT that was already run.
THEOREM SkillManagerSkipsInspected ==
  ASSUME RefsBehind, KeepsInspections(Revisions)
  PROVE  SkillSpec => SkipsInspected
<1>1. SkillInv /\ EarnedInv /\ [SkillNext]_skillVars => EarnedInv'
  BY EarnStep
<1>2. SkillInv /\ EarnedInv
        => [Running /\ ClosesDetour /\ detour' = NoDetour /\ active'.kind = "PLANNED" =>
              plan[detour.inspect] = detour.inspectStep]_skillVars
  BY ClosingInspected
<1>. QED BY <1>1, <1>2, EarnInitially, SkillInvariant, PTL DEF SkillSpec, SkipsInspected

(***************************************************************************)
(* Whose Goal a Skill runs with                                            *)
(***************************************************************************)

\* What a step of the manager may do to the Goals of the active and the saved
\* Skill: a prepared repair is the only one that gives a Skill another's Goal.
HoldKept ==
  /\ hold # NoHold /\ hold'.index = hold.index
  /\ hold'.step = hold.step /\ hold'.goal = hold.goal
GoalMove ==
  \/ ~ Running'
  \/ active'.kind \in {"EMERGENCY", "RECOVERY"} /\ hold' = NoHold
  \/ active'.goal = active'.step /\ hold' = NoHold
  \/ Running /\ UNCHANGED <<plan, index, active>> /\ (hold' = hold \/ HoldKept)
  \/ /\ Running /\ active.kind = "PLANNED" /\ active'.kind = "SUPERVISORY" /\ plan' = plan
     /\ hold'.index = index /\ hold'.step = active.step /\ hold'.goal = active.goal
  \/ /\ Running /\ hold # NoHold /\ ResumeSaved
  \/ \E p \in Plans, i \in Nat, s \in Steps :
       Running /\ i \in 1..Len(plan) /\ s = plan[i] /\ PublishPrepared(p, i, s)

LEMMA LandingMoves == ASSUME NEW v, BeginLanding(v) PROVE GoalMove
BY DEF BeginLanding, EmergencyLand, Active, GoalMove

LEMMA StartMoves == ASSUME NEW m, StartStep(m), hold' = NoHold PROVE GoalMove
BY DEF StartStep, Planned, Active, GoalMove

LEMMA ProceedMoves == ASSUME NEW n, Proceed(n), hold = NoHold PROVE GoalMove
BY LandingMoves, StartMoves DEF Proceed

LEMMA BackMoves == ASSUME BackToSearch, hold = NoHold PROVE GoalMove
BY LandingMoves, StartMoves DEF BackToSearch

LEMMA HoldingMoves ==
  ASSUME NEW k \in Interruptible, Flying(k), NEW fallback \in {"RESUME_PREVIOUS", "CANCEL_AND_LAND"},
         NEW r \in BOOLEAN,
         hold' = Hold(fallback, r), active' = Hover(active.step), plan' = plan
  PROVE  GoalMove
BY HoldIsReal DEF Flying, Hover, Active, GoalMove

LEMMA DecideMoves == ASSUME SkillInv, NEW n, NEW p, Decide(n, p) PROVE GoalMove
<1>1. Running /\ hold # NoHold /\ UNCHANGED <<taskVars, active>>
      /\ hold' = [hold EXCEPT !.next = n, !.suffix = p]
  BY DEF Decide, Undecided
<1>2. hold \in HoldRecords
  BY <1>1, HeldFacts
<1>3. hold'.index = hold.index /\ hold'.step = hold.step /\ hold'.goal = hold.goal
  BY <1>1, <1>2 DEF HoldRecords
<1>. QED BY <1>1, <1>3 DEF taskVars, GoalMove, HoldKept

LEMMA EstablishedMoves == ASSUME SkillInv, HoldEstablished PROVE GoalMove
<1>1. Running /\ hold # NoHold /\ UNCHANGED <<taskVars, active>>
      /\ hold' = [hold EXCEPT !.established = TRUE]
  BY HoveringFacts DEF HoldEstablished
<1>2. hold \in HoldRecords
  BY <1>1, HeldFacts
<1>3. hold'.index = hold.index /\ hold'.step = hold.step /\ hold'.goal = hold.goal
  BY <1>1, <1>2 DEF HoldRecords
<1>. QED BY <1>1, <1>3 DEF taskVars, GoalMove, HoldKept

LEMMA ReleasedMoves == ASSUME SkillInv, HoverReleased PROVE GoalMove
<1>1. Running /\ hold # NoHold
  BY HoveringFacts DEF HoverReleased
<1>2. CASE ResumeSaved
  BY <1>1, <1>2 DEF GoalMove
<1>3. CASE StartReplacement
  BY <1>3 DEF StartReplacement, Planned, Active, GoalMove
<1>4. CASE StartHandOff
  BY <1>4 DEF StartHandOff, Planned, Active, GoalMove
<1>. QED BY <1>2, <1>3, <1>4 DEF HoverReleased

LEMMA GoalStep == SkillInv /\ [SkillNext]_skillVars => GoalMove
<1> SUFFICES ASSUME SkillInv, [SkillNext]_skillVars PROVE GoalMove
  OBVIOUS
<1>1. ASSUME StepDone \/ TargetFound \/ SearchFallsBack \/ InspectDone \/ InspectRejected
             \/ TargetLost \/ Reacquired
      PROVE  GoalMove
  <2>1. Running /\ active.kind # "SUPERVISORY" /\ hold = NoHold
    <3>1. Running /\ active.kind \in {"PLANNED", "RECOVERY"}
      BY <1>1 DEF StepDone, TargetFound, SearchFallsBack, InspectDone, InspectRejected,
                  TargetLost, Reacquired, Reacquiring, Flying
    <3>. QED BY <3>1, Whereabouts
  <2>2. CASE \E n : Proceed(n)
    BY <2>1, <2>2, ProceedMoves
  <2>3. CASE BackToSearch \/ BeginLanding("FAILED")
    BY <2>1, <2>3, BackMoves, LandingMoves
  <2>4. CASE TargetLost \/ Reacquired
    BY <2>1, <2>4 DEF TargetLost, Reacquired, Planned, Active, GoalMove
  <2>. QED BY <1>1, <2>2, <2>3, <2>4
           DEF StepDone, TargetFound, SearchFallsBack, InspectDone, InspectRejected
<1>2. CASE StepFails \/ HoverFails \/ FailLocalRepair
  BY <1>2, LandingMoves DEF StepFails, HoverFails, FailLocalRepair
<1>3. CASE RepairPending
  <2>1. PICK k \in Interruptible : Flying(k)
    BY <1>3 DEF RepairPending, Interruptible
  <2>. QED BY <1>3, <2>1, HoldingMoves DEF RepairPending
<1>4. CASE \E fallback \in {"RESUME_PREVIOUS", "CANCEL_AND_LAND"} : Interrupt(fallback)
  BY <1>4, HoldingMoves DEF Interrupt, taskVars
<1>5. CASE LandDone
  BY <1>5 DEF LandDone, FinishTask, GoalMove, Running
<1>6. CASE LandFails
  <2>1. CASE active.kind = "PLANNED" /\ EmergencyLand(plan, "FAILED") /\ UNCHANGED hold
    BY <1>6, <2>1, Whereabouts DEF LandFails, Landing, EmergencyLand, Active, GoalMove
  <2>2. CASE FinishTask("FAILED")
    BY <2>2 DEF FinishTask, GoalMove, Running
  <2>. QED BY <1>6, <2>1, <2>2 DEF LandFails
<1>7. CASE HoverReleased
  BY <1>7, ReleasedMoves
<1>8. CASE HoverTimesOut
  BY <1>8, HoveringFacts, LandingMoves DEF HoverTimesOut, GoalMove
<1>9. CASE CancelTask
  BY <1>9, LandingMoves DEF CancelTask, GoalMove
<1>10. CASE Resume \/ \E p \in Plans : Replace(p) \/ HandOff(p)
  BY <1>10, DecideMoves DEF Resume, Replace, HandOff
<1>11. CASE HoldEstablished
  BY <1>11, EstablishedMoves
<1>12. ASSUME NEW p \in Plans, CommitLocalRepair(p) PROVE GoalMove
  <2>1. Running /\ hold # NoHold /\ PublishPrepared(p, hold.index, hold.step)
    BY <1>12 DEF CommitLocalRepair, RepairOpen, Undecided
  <2>2. hold.index \in 1..Len(plan) /\ hold.step = plan[hold.index] /\ hold.step \in Steps
        /\ hold.index \in Nat
    BY <2>1, HeldFacts, PlanFacts DEF HoldShape
  <2>. QED BY <2>1, <2>2 DEF GoalMove
<1>13. ASSUME NEW p \in Plans, CommitCoordinated(p) PROVE GoalMove
  <2>1. Running /\ PublishPrepared(p, index, active.step)
    BY <1>13 DEF CommitCoordinated, Flying
  <2>2. index \in 1..Len(plan) /\ active.step = plan[index] /\ active.step \in Steps
        /\ index \in Nat
    BY <2>1, Whereabouts
  <2>. QED BY <2>1, <2>2 DEF GoalMove
<1>14. CASE ResetTask
  BY <1>14 DEF ResetTask, Running, GoalMove
<1>15. CASE \E p \in Tasks : StartTask(p)
  BY <1>15 DEF StartTask, Planned, Active, GoalMove
<1>16. CASE UNCHANGED skillVars
  BY <1>16 DEF skillVars, taskVars, GoalMove, Running
<1>. QED BY <1>1, <1>2, <1>3, <1>4, <1>5, <1>6, <1>7, <1>8, <1>9, <1>10, <1>11, <1>12, <1>13,
            <1>14, <1>15, <1>16 DEF SkillNext, Decisions, SkillEnds

\* Step s of index i runs with its own Goal, or it is a GOTO that was put before the
\* GOTO or SEARCH whose Goal it has, with nothing but GOTOs in between.
OwnOrDetour(i, s, g) ==
  \/ g = s
  \/ \E j \in (i + 1)..Len(plan) :
       /\ plan[j] = g /\ SkillOf[g] \in {"GOTO", "SEARCH"}
       /\ \A k \in i..(j - 1) : SkillOf[plan[k]] = "GOTO"
GoalsOnlyOfDetours ==
  Running =>
    /\ active.kind = "PLANNED" => OwnOrDetour(index, active.step, active.goal)
    /\ hold # NoHold => OwnOrDetour(hold.index, hold.step, hold.goal)

GoalsOwn ==
  Running =>
    /\ active.kind = "PLANNED" => active.goal = active.step
    /\ hold # NoHold => hold.goal = hold.step

LEMMA DetourStep == SkillInv /\ SkillInv' /\ GoalsOnlyOfDetours /\ GoalMove => GoalsOnlyOfDetours'
<1> SUFFICES ASSUME SkillInv, SkillInv', GoalsOnlyOfDetours, GoalMove, Running'
             PROVE  /\ active'.kind = "PLANNED"
                         => OwnOrDetour(index, active.step, active.goal)'
                    /\ hold' # NoHold => OwnOrDetour(hold.index, hold.step, hold.goal)'
  BY DEF GoalsOnlyOfDetours
<1>1. CASE active'.kind \in {"EMERGENCY", "RECOVERY"} /\ hold' = NoHold
  BY <1>1
<1>2. CASE active'.goal = active'.step /\ hold' = NoHold
  BY <1>2 DEF OwnOrDetour
<1>3. CASE Running /\ UNCHANGED <<plan, index, active>> /\ (hold' = hold \/ HoldKept)
  BY <1>3 DEF GoalsOnlyOfDetours, OwnOrDetour, HoldKept
<1>4. CASE /\ Running /\ active.kind = "PLANNED" /\ active'.kind = "SUPERVISORY" /\ plan' = plan
           /\ hold'.index = index /\ hold'.step = active.step /\ hold'.goal = active.goal
  BY <1>4 DEF GoalsOnlyOfDetours, OwnOrDetour
<1>5. CASE Running /\ hold # NoHold /\ ResumeSaved
  <2>1. /\ OwnOrDetour(hold.index, hold.step, hold.goal) /\ plan' = plan /\ hold' = NoHold
        /\ index' = hold.index /\ active'.step = hold.step /\ active'.goal = hold.goal
    BY <1>5 DEF GoalsOnlyOfDetours, ResumeSaved, Active
  <2>. QED BY <2>1 DEF OwnOrDetour
<1>6. ASSUME NEW p \in Plans, NEW i \in Nat, NEW s \in Steps, PublishPrepared(p, i, s)
      PROVE  OwnOrDetour(index, active.step, active.goal)' /\ hold' = NoHold
  <2>1. /\ plan' = p /\ index' = i /\ active'.step = p[i] /\ active'.goal = s /\ hold' = NoHold
        /\ Prepared(p, i, s)
    BY <1>6 DEF PublishPrepared, Publish, Active
  <2>2. PICK j \in i..Len(p) :
          /\ p[j] = s
          /\ j > i => /\ SkillOf[s] \in {"GOTO", "SEARCH"}
                      /\ \A k \in i..(j - 1) : SkillOf[p[k]] = "GOTO"
    BY <2>1 DEF Prepared
  <2>3. Len(p) \in Nat
    BY PlanFacts
  <2>4. CASE j = i
    BY <2>1, <2>2, <2>4 DEF OwnOrDetour
  <2>5. CASE j # i
    <3>1. j > i /\ j \in (i + 1)..Len(p)
      BY <2>3, <2>5
    <3>. QED BY <2>1, <2>2, <3>1 DEF OwnOrDetour
  <2>. QED BY <2>1, <2>4, <2>5
<1>. QED BY <1>1, <1>2, <1>3, <1>4, <1>5, <1>6 DEF GoalMove

\* Whatever is revised and repaired, a planned Skill runs with the Goal of its own step
\* or is a GOTO of a detour in front of the GOTO or SEARCH whose Goal it has: no other
\* Skill is ever given a Goal that is not its own.
THEOREM SkillManagerGoals == SkillSpec => []GoalsOnlyOfDetours
<1>1. SkillInit => GoalsOnlyOfDetours
  BY DEF SkillInit, GoalsOnlyOfDetours, Running
<1>2. SkillInv /\ SkillInv' /\ GoalsOnlyOfDetours /\ [SkillNext]_skillVars => GoalsOnlyOfDetours'
  BY GoalStep, DetourStep
<1>. QED BY <1>1, <1>2, SkillInvariant, PTL DEF SkillSpec

\* So start() refuses a Goal only on a detour in front of a SEARCH.
THEOREM SkillManagerRefuses ==
  SkillSpec => [](Running /\ Refused => active.skill = "GOTO" /\ SkillOf[active.goal] = "SEARCH")
<1>1. SkillInv /\ GoalsOnlyOfDetours =>
        (Running /\ Refused => active.skill = "GOTO" /\ SkillOf[active.goal] = "SEARCH")
  <2> SUFFICES ASSUME SkillInv, GoalsOnlyOfDetours, Running, Refused
               PROVE  active.skill = "GOTO" /\ SkillOf[active.goal] = "SEARCH"
    OBVIOUS
  <2>1. /\ index \in 1..Len(plan) /\ index \in Nat /\ Len(plan) \in Nat
        /\ active.step = plan[index] /\ active.skill = SkillOf[plan[index]]
    BY Whereabouts DEF Refused
  <2>2. OwnOrDetour(index, active.step, active.goal) /\ active.goal # active.step
    BY <2>1 DEF GoalsOnlyOfDetours, Refused
  <2>3. PICK j \in (index + 1)..Len(plan) :
          /\ SkillOf[active.goal] \in {"GOTO", "SEARCH"}
          /\ \A k \in index..(j - 1) : SkillOf[plan[k]] = "GOTO"
    BY <2>2 DEF OwnOrDetour
  <2>4. index \in index..(j - 1)
    BY <2>1, <2>3
  <2>. QED BY <2>1, <2>3, <2>4 DEF Refused
<1>. QED BY <1>1, SkillManagerGoals, SkillInvariant, PTL

LEMMA OwnStep ==
  ASSUME NoNewGotoFirst(Revisions)
  PROVE  SkillInv /\ SkillInv' /\ GoalsOwn /\ GoalMove => GoalsOwn'
<1> SUFFICES ASSUME SkillInv, SkillInv', GoalsOwn, GoalMove, Running'
             PROVE  /\ active'.kind = "PLANNED" => active'.goal = active'.step
                    /\ hold' # NoHold => hold'.goal = hold'.step
  BY DEF GoalsOwn
<1>1. ASSUME NEW p \in Plans, NEW i \in Nat, NEW s \in Steps, i \in 1..Len(plan), s = plan[i],
             PublishPrepared(p, i, s)
      PROVE  active'.goal = active'.step /\ hold' = NoHold
  <2>1. /\ active'.step = p[i] /\ active'.goal = s /\ hold' = NoHold /\ Prepared(p, i, s)
    BY <1>1 DEF PublishPrepared, Active
  <2>2. <<plan, i, p>> \in Revisions /\ Len(p) \in Nat /\ Len(p) >= i
    BY <2>1, PlanFacts DEF Prepared, Replaceable
  <2>3. SkillOf[p[i]] = "GOTO" => \E l \in 1..Len(plan) : plan[l] = p[i]
    <3>1. i \in 1..Len(p)
      BY <1>1, <2>2
    <3>. QED BY <2>2, <3>1 DEF NoNewGotoFirst
  <2>4. PICK j \in i..Len(p) :
          /\ p[j] = s
          /\ j > i => \A k \in i..(j - 1) :
                        SkillOf[p[k]] = "GOTO" /\ \A l \in 1..Len(plan) : plan[l] # p[k]
    BY <2>1 DEF Prepared
  <2>5. ~ (j > i)
    BY <2>2, <2>3, <2>4
  <2>. QED BY <2>1, <2>2, <2>4, <2>5
<1>. QED BY <1>1 DEF GoalMove, GoalsOwn, HoldKept, ResumeSaved, Active

\* If no repair puts a new GOTO in front of the step that runs, the docstring of
\* release_prepared_execution() is right: a planned Skill runs with its own Goal.
THEOREM SkillManagerOwnGoals ==
  ASSUME NoNewGotoFirst(Revisions)
  PROVE  SkillSpec => []StepRunsOwnGoal
<1>1. SkillInit => GoalsOwn
  BY DEF SkillInit, GoalsOwn, Running
<1>2. SkillInv /\ SkillInv' /\ GoalsOwn /\ [SkillNext]_skillVars => GoalsOwn'
  BY GoalStep, OwnStep
<1>3. GoalsOwn => StepRunsOwnGoal
  BY DEF GoalsOwn, StepRunsOwnGoal
<1>. QED BY <1>1, <1>2, <1>3, SkillInvariant, PTL DEF SkillSpec

=============================================================================
