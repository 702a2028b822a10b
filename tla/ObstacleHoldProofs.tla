------------------------- MODULE ObstacleHoldProofs -------------------------
(***************************************************************************)
(* What holds of the obstacle hold for every mission and every budget: it  *)
(* drives the SkillManager only through its methods, supervisor and route  *)
(* coordinator agree, and the plan a hazard was found in is not flown      *)
(* again.                                                                  *)
(***************************************************************************)
EXTENDS ObstacleHold, SkillManagerProofs

(***************************************************************************)
(* The manager below                                                       *)
(***************************************************************************)

\* What the composition asks of the manager, or nothing.
ManagerCall ==
  \/ \E p \in Tasks : StartTask(p)
  \/ CancelTask
  \/ \E fallback \in {"RESUME_PREVIOUS", "CANCEL_AND_LAND"} : Interrupt(fallback)
  \/ Resume
  \/ \E p \in Plans : Replace(p) \/ HandOff(p)
  \/ HoldEstablished
  \/ SkillEnds
  \/ UNCHANGED skillVars

LEMMA ManagerCalls == [ObstacleNext]_holdVars => ManagerCall
<1> SUFFICES ASSUME [ObstacleNext]_holdVars PROVE ManagerCall
  OBVIOUS
<1>1. CASE \E p \in Tasks : StartMission(p)
  BY <1>1 DEF StartMission, ManagerCall
<1>2. CASE CameraStep
  BY <1>2, ObstacleAssumption DEF ObstacleAssumption, CameraStep, NothingSeen, ClearSeen,
     HoldingSeen, FrameRefused, HazardSeen, TakeHold, LoopDies, ManagerCall
<1>3. CASE ReportStep
  BY <1>3, ObstacleAssumption DEF ObstacleAssumption, ReportStep, NoReport, HazardReported,
     TakeHold, ManagerCall
<1>4. CASE ReviewStep
  BY <1>4 DEF ReviewStep, NoDecision, ReviewHolds, ReviewDecides, ManagerCall
<1>5. CASE ManagerTicks \/ MissionCanceled
  BY <1>5 DEF ManagerTicks, MissionCanceled, ManagerCall
<1>6. CASE HoldSeen
  BY <1>6 DEF HoldSeen, ManagerCall
<1>7. CASE RouteStep
  BY <1>7 DEF RouteStep, NoRoute, RouteAsked, RouteNotAsked, RouteRejected, RouteFails,
     RouteAccepted, RouteFallback, ManagerCall
<1>8. CASE FailSafeLanding \/ MissionOver \/ UNCHANGED holdVars
  BY <1>8 DEF FailSafeLanding, MissionOver, holdVars, ManagerCall
<1>. QED BY <1>1, <1>2, <1>3, <1>4, <1>5, <1>6, <1>7, <1>8 DEF ObstacleNext

LEMMA ManagerStep == ManagerCall => [SkillNext]_skillVars
BY DEF ManagerCall, SkillNext, Decisions

\* The frame loop, the collision supervisor, the reviews and the route coordinator
\* use the manager as any coordinators may: their composition is a SkillManager.
THEOREM ObstacleKeepsManager == ObstacleSpec => SkillSpec
<1>1. ObstacleInit => SkillInit
  BY DEF ObstacleInit
<1>2. [ObstacleNext]_holdVars => [SkillNext]_skillVars
  BY ManagerCalls, ManagerStep
<1>. QED BY <1>1, <1>2, PTL DEF ObstacleSpec, SkillSpec

\* So whatever hazards, reports, reviews and routes come together, a hold leaves
\* no trace, no work is lost, the manager's lifecycle is kept and only a GOTO of
\* a detour runs with another step's Goal.
THEOREM ObstacleManagerSafe ==
  ObstacleSpec => /\ []SkillTypeOK /\ ImplementsLifecycle /\ HoldLeavesNoTrace /\ WorkKept
                  /\ []GoalsOnlyOfDetours
BY ObstacleKeepsManager, SkillManagerTypes, SkillManagerImplements, SkillManagerHolds,
   SkillManagerKeepsWork, SkillManagerGoals

\* Where reviews and routes keep the inspections of a plan, a mission of the loop that
\* succeeds has carried out its plan, and a SEARCH skips only what was inspected.
THEOREM ObstacleEarns ==
  ASSUME RefsBehind, KeepsInspections(Revisions)
  PROVE  ObstacleSpec => []SuccessIsEarned /\ SkipsInspected
BY ObstacleKeepsManager, SkillManagerEarns, SkillManagerSkipsInspected

(***************************************************************************)
(* What a call or a tick does to hold, landing and plan version            *)
(***************************************************************************)

\* A running task holds exactly while its HOVER is active.
LEMMA HoldKind ==
  ASSUME SkillInv, Running
  PROVE  /\ Paused <=> active.kind = "SUPERVISORY"
         /\ active.kind = "SUPERVISORY" => active.skill = "HOVER"
         /\ InFlight <=> Phase = "flying"
BY PhaseNow DEF SkillInv, RunningShape, ActiveShape, Paused, InFlight

\* cancel_task() lands the vehicle in the plan it has.
LEMMA Canceled ==
  ASSUME SkillInv, CancelTask
  PROVE  /\ Running' /\ active'.skill = "LAND" /\ version' = version
         /\ hold' \in {hold, NoHold} /\ ~InFlight' /\ ~Paused'
<1>1. CASE active.skill = "LAND"
  BY <1>1, HoldKind DEF CancelTask, BeginLanding, Running, InFlight, Paused
<1>2. CASE active.skill # "LAND"
  BY <1>2 DEF CancelTask, BeginLanding, EmergencyLand, Active, Running, InFlight, Paused
<1>. QED BY <1>1, <1>2

\* interrupt_with_hover() takes a hold with the fallback it was given.
LEMMA Interrupted ==
  ASSUME SkillInv, NEW f \in {"RESUME_PREVIOUS", "CANCEL_AND_LAND"}, Interrupt(f)
  PROVE  /\ Running /\ active.skill # "LAND"
         /\ Running' /\ active'.kind = "SUPERVISORY" /\ version' = version
         /\ hold'.fallback = f /\ hold'.next = "none" /\ ~InFlight'
<1>1. Running /\ active.skill # "LAND"
  BY DEF Interrupt, Flying, Interruptible
<1>2. status' = status /\ version' = version /\ active' = Hover(active.step)
  BY DEF Interrupt, taskVars
<1>3. hold' = Hold(f, FALSE)
  BY DEF Interrupt
<1>4. hold'.fallback = f /\ hold'.next = "none"
  BY <1>3 DEF Hold
<1>5. active'.kind = "SUPERVISORY"
  BY <1>2 DEF Hover, Active
<1>. QED BY <1>1, <1>2, <1>4, <1>5 DEF Running, InFlight

\* replace_interrupted_step_and_suffix() decides what HOVER will end with.
LEMMA Replaced ==
  ASSUME SkillInv, NEW p \in Plans, Replace(p)
  PROVE  /\ Running /\ Paused
         /\ Running' /\ version' = version /\ active' = active
         /\ hold' # NoHold /\ hold'.fallback = hold.fallback /\ hold'.next = "REPLACE"
<1>1. Running /\ Paused
  BY DEF Replace, Undecided, Paused
<1>2. status' = status /\ version' = version /\ active' = active
  BY DEF Replace, Decide, taskVars
<1>3. hold' = [hold EXCEPT !.next = "REPLACE", !.suffix = p] /\ hold \in HoldRecords
  BY DEF Replace, Decide, SkillInv, SkillTypeOK
<1>4. hold'.fallback = hold.fallback /\ hold'.next = "REPLACE"
  BY <1>3 DEF HoldRecords
<1>5. NoHold.next = "none"
  BY DEF NoHold
<1>. QED BY <1>1, <1>2, <1>4, <1>5 DEF Running

\* The first tick of a HOVER changes nothing else.
LEMMA Established ==
  ASSUME SkillInv, HoldEstablished
  PROVE  /\ Running /\ Paused
         /\ Running' /\ version' = version /\ active' = active
         /\ hold' # NoHold /\ hold'.fallback = hold.fallback /\ hold'.next = hold.next
<1>1. Running /\ Paused
  BY HoldKind DEF HoldEstablished, Hovering
<1>2. status' = status /\ version' = version /\ active' = active
  BY DEF HoldEstablished, taskVars
<1>3. hold' = [hold EXCEPT !.established = TRUE] /\ hold \in HoldRecords
  BY DEF HoldEstablished, SkillInv, SkillTypeOK
<1>4. hold'.fallback = hold.fallback /\ hold'.next = hold.next /\ hold'.established
  BY <1>3 DEF HoldRecords
<1>5. ~NoHold.established
  BY DEF NoHold
<1>. QED BY <1>1, <1>2, <1>4, <1>5 DEF Running

\* The end of a Skill takes no hold, as local repair is out of the way.
LEMMA EndsHold ==
  ASSUME SkillInv, SkillEnds
  PROVE  hold' \in {hold, NoHold}
<1>1. ~RepairPending
  BY ObstacleAssumption DEF ObstacleAssumption, RepairPending
<1>2. ASSUME NEW n, Proceed(n) PROVE hold' \in {hold, NoHold}
  BY <1>2 DEF Proceed, BeginLanding
<1>3. CASE StepDone \/ TargetFound \/ SearchFallsBack
  BY <1>2, <1>3 DEF StepDone, TargetFound, SearchFallsBack
<1>4. CASE InspectDone \/ InspectRejected
  BY <1>4 DEF InspectDone, InspectRejected, BackToSearch, BeginLanding
<1>5. CASE TargetLost \/ Reacquired \/ StepFails
  BY <1>5 DEF TargetLost, Reacquired, StepFails, BeginLanding
<1>6. CASE LandDone \/ LandFails
  BY <1>6 DEF LandDone, LandFails, FinishTask
<1>7. CASE HoverReleased \/ HoverTimesOut \/ HoverFails
  BY <1>7 DEF HoverReleased, HoverTimesOut, HoverFails, ResumeSaved, StartReplacement,
     StartHandOff, BeginLanding
<1>. QED BY <1>1, <1>3, <1>4, <1>5, <1>6, <1>7 DEF SkillEnds

\* A landing holds nothing and goes on until the task is over.
LEMMA EndsLanding ==
  ASSUME SkillInv, SkillEnds, active.skill = "LAND"
  PROVE  /\ Running /\ hold = NoHold /\ hold' = NoHold /\ ~InFlight'
         /\ Running' => active'.skill = "LAND"
<1>1. ~Hovering /\ ~Reacquiring
  BY DEF SkillInv, RunningShape, ActiveShape, Hovering, Reacquiring
<1>2. LandDone \/ LandFails
  BY <1>1 DEF SkillEnds, StepDone, TargetFound, SearchFallsBack, InspectDone, InspectRejected,
     TargetLost, Reacquired, RepairPending, StepFails, HoverReleased, HoverTimesOut, HoverFails,
     Flying, PlannedSkills, Interruptible
<1>3. Running
  BY <1>2 DEF LandDone, LandFails, Landing
<1>4. hold = NoHold
  BY <1>3, HoldKind DEF Paused
<1>5. hold' = hold /\ (status' \in TaskOver \/ (status' = status /\ active'.skill = "LAND"))
  BY <1>2, <1>3 DEF LandDone, LandFails, FinishTask, EmergencyLand, Active, TaskOver, SkillInv,
     SkillTypeOK
<1>. QED BY <1>3, <1>4, <1>5 DEF Running, InFlight, TaskOver

\* Only a landing ends a task.
LEMMA EndsTask ==
  ASSUME SkillInv, SkillEnds, active.skill # "LAND"
  PROVE  Running /\ Running'
<1>1. ASSUME NEW n, Proceed(n) PROVE status' = status
  BY <1>1 DEF Proceed, BeginLanding
<1>2. CASE StepDone \/ TargetFound \/ SearchFallsBack
  BY <1>1, <1>2 DEF StepDone, TargetFound, SearchFallsBack, Flying, Running
<1>3. CASE InspectDone \/ InspectRejected
  BY <1>3 DEF InspectDone, InspectRejected, BackToSearch, BeginLanding, Flying, Running
<1>4. CASE TargetLost \/ Reacquired \/ StepFails \/ RepairPending
  BY <1>4 DEF TargetLost, Reacquired, StepFails, RepairPending, BeginLanding, Flying, Reacquiring,
     taskVars, Running
<1>5. CASE HoverReleased \/ HoverTimesOut \/ HoverFails
  BY <1>5 DEF HoverReleased, HoverTimesOut, HoverFails, ResumeSaved, StartReplacement,
     StartHandOff, Publish, BeginLanding, Hovering, Running
<1>. QED BY <1>2, <1>3, <1>4, <1>5 DEF SkillEnds, LandDone, LandFails, Landing

\* A hold that lands when it times out, and that nobody resumes, is left in the
\* air only with the next plan version.
LEMMA EndsHover ==
  ASSUME SkillInv, SkillEnds, Running, Paused,
         hold.fallback = "CANCEL_AND_LAND", hold.next \in {"none", "REPLACE"}
  PROVE  ~InFlight' \/ version' = version + 1
<1>1. active.kind = "SUPERVISORY" /\ active.skill = "HOVER"
  BY HoldKind
<1>2. HoverReleased \/ HoverTimesOut \/ HoverFails
  BY <1>1 DEF SkillEnds, StepDone, TargetFound, SearchFallsBack, InspectDone, InspectRejected,
     TargetLost, Reacquired, RepairPending, StepFails, LandDone, LandFails, Flying, Landing,
     Reacquiring
<1>3. CASE HoverReleased
  BY <1>3 DEF HoverReleased, StartReplacement, Publish
<1>4. CASE HoverTimesOut \/ HoverFails
  BY <1>4 DEF HoverTimesOut, HoverFails, BeginLanding, EmergencyLand, Active, InFlight
<1>. QED BY <1>2, <1>3, <1>4

\* The plan version stays or is the next one.
LEMMA EndsVersion ==
  ASSUME SkillInv, SkillEnds
  PROVE  version \in Nat /\ version' \in {version, version + 1}
<1>1. version \in Nat
  BY DEF SkillInv, SkillTypeOK
<1>2. Running
  BY EndsTask, EndsLanding
<1>3. LifeStep
  BY SkillStep DEF SkillNext
<1>4. Phase \in {"flying", "holding", "landing"}
  BY <1>2, PhaseNow
<1>. QED BY <1>1, <1>3, <1>4 DEF LifeStep, Life!LifeNext, Life!lifeVars, Life!TakeTask,
  Life!HoldStill, Life!GoOn, Life!NewPlan, Life!LandAsPlanned, Life!GiveUp, Life!End,
  Life!Forget, Life!Ended

\* resume_interrupted_step() and the handoff to an INSPECT, too, are decided in a hold.
LEMMA Decided ==
  ASSUME SkillInv, NEW next, NEW p, Decide(next, p)
  PROVE  Running /\ Paused /\ Running' /\ version' = version /\ active' = active
<1>1. Running /\ Paused
  BY DEF Decide, Undecided, Paused
<1>. QED BY <1>1 DEF Decide, taskVars, Running

(***************************************************************************)
(* Before and after a task                                                 *)
(***************************************************************************)

\* A task that is not running does nothing but start.
LEMMA AtRest ==
  ASSUME SkillInv, ManagerCall, ~Running
  PROVE  UNCHANGED skillVars \/ \E p \in Tasks : StartTask(p)
<1>1. ~CancelTask /\ ~HoldEstablished
  BY DEF CancelTask, HoldEstablished, Hovering
<1>2. ~ \E fallback \in {"RESUME_PREVIOUS", "CANCEL_AND_LAND"} : Interrupt(fallback)
  BY DEF Interrupt, Flying
<1>3. ~Resume /\ ~ \E p \in Plans : Replace(p) \/ HandOff(p)
  BY DEF Resume, Decide, Replace, HandOff, Undecided
<1>4. ~SkillEnds
  BY EndsTask, EndsLanding
<1>. QED BY <1>1, <1>2, <1>3, <1>4 DEF ManagerCall

\* A hold ends with its task at the latest.
LEMMA HeldWhileRunning ==
  ASSUME SkillInv, ManagerCall, Paused => Running
  PROVE  Paused' => Running'
<1>1. CASE \E p \in Tasks : StartTask(p)
  BY <1>1 DEF StartTask, Paused
<1>2. CASE CancelTask
  BY <1>2, Canceled
<1>3. CASE \E fallback \in {"RESUME_PREVIOUS", "CANCEL_AND_LAND"} : Interrupt(fallback)
  BY <1>3, Interrupted
<1>4. CASE Resume
  BY <1>4, Decided DEF Resume
<1>5. CASE \E p \in Plans : Replace(p) \/ HandOff(p)
  BY <1>5, Decided DEF Replace, HandOff
<1>6. CASE HoldEstablished
  BY <1>6, Established
<1>7. CASE SkillEnds
  BY <1>7, EndsTask, EndsLanding DEF Paused
<1>8. CASE UNCHANGED skillVars
  BY <1>8 DEF skillVars, taskVars, Paused, Running
<1>. QED BY <1>1, <1>2, <1>3, <1>4, <1>5, <1>6, <1>7, <1>8 DEF ManagerCall

\* Once a vehicle lands or has landed it does not fly again.
LandsOrOver == status \in TaskOver \/ (Running /\ active.skill = "LAND")

LEMMA NoTakeOffAgain ==
  ASSUME SkillInv, SkillInv', ManagerCall, LandsOrOver
  PROVE  LandsOrOver'
<1>1. CASE Running /\ active.skill = "LAND"
  <2>1. Phase = "landing"
    BY <1>1, PhaseNow
  <2>2. Phase' \in {"landing", "SUCCEEDED", "FAILED", "CANCELED"}
    BY <2>1, SkillStep, ManagerStep DEF LifeStep, Life!LifeNext, Life!lifeVars,
       Life!TakeTask, Life!HoldStill, Life!GoOn, Life!NewPlan, Life!LandAsPlanned, Life!GiveUp,
       Life!End, Life!Forget, Life!Ended
  <2>. QED BY <2>2 DEF Phase, LandsOrOver, TaskOver, SkillInv, SkillTypeOK
<1>2. CASE status \in TaskOver
  <2>1. ~Running /\ status # "IDLE"
    BY <1>2 DEF TaskOver, Running
  <2>2. UNCHANGED skillVars
    BY <2>1, AtRest DEF StartTask
  <2>. QED BY <1>2, <2>2 DEF skillVars, taskVars, LandsOrOver
<1>. QED BY <1>1, <1>2 DEF LandsOrOver

\* The mission starts once.
LEMMA StartsOnce ==
  ASSUME SkillInv, ManagerCall, status' = "IDLE"
  PROVE  status = "IDLE" /\ UNCHANGED skillVars
<1>1. CASE Running
  <2>1. Phase \in {"flying", "holding", "landing"}
    BY <1>1, PhaseNow
  <2>2. Phase' = "idle"
    BY DEF Phase, Running
  <2>. QED BY <2>1, <2>2, SkillStep, ManagerStep DEF LifeStep, Life!LifeNext, Life!lifeVars,
       Life!TakeTask, Life!HoldStill, Life!GoOn, Life!NewPlan, Life!LandAsPlanned, Life!GiveUp,
       Life!End, Life!Forget, Life!Ended
<1>2. CASE ~Running
  BY <1>2, AtRest DEF StartTask, skillVars, taskVars
<1>. QED BY <1>1, <1>2

(***************************************************************************)
(* Types                                                                   *)
(***************************************************************************)

\* A proposal is awaited only while the budget is not used up.
BudgetTyped == ObstacleTypeOK /\ (route = "AWAITING" => proposals < MaxProposals)

LEMMA TypesStep ==
  ASSUME SkillInv, SkillInv', BudgetTyped, [ObstacleNext]_holdVars
  PROVE  BudgetTyped'
<1>. USE DEF SafetyStates
<1>a. /\ SkillTypeOK' /\ version \in Nat
      /\ bound \in Nat /\ known \in Nat /\ asked \in Nat
  BY DEF SkillInv, SkillTypeOK, BudgetTyped, ObstacleTypeOK
<1>b. /\ gate \in BOOLEAN /\ seen \in BOOLEAN /\ grounded \in BOOLEAN /\ review \in BOOLEAN
      /\ news \in BOOLEAN /\ gaveUp \in BOOLEAN /\ halted \in BOOLEAN
      /\ turn \in {"camera", "report", "review", "skill", "hold", "route"}
      /\ safety \in SafetyStates
  BY DEF BudgetTyped, ObstacleTypeOK
<1>c. /\ route \in {"IDLE", "AWAITING", "ACCEPTED", "EXHAUSTED", "FAILED"}
      /\ proposals \in 0..MaxProposals /\ (route = "AWAITING" => proposals < MaxProposals)
  BY DEF BudgetTyped, ObstacleTypeOK
<1>1. CASE \E p \in Tasks : StartMission(p)
  <2>1. /\ UNCHANGED <<gate, turn, seen, safety, grounded, review, news, gaveUp, halted>>
        /\ UNCHANGED <<bound, asked, route, proposals>>
        /\ known' = 1
    BY <1>1 DEF StartMission, supervision, routing
  <2>. QED BY <1>a, <1>b, <1>c, <2>1 DEF BudgetTyped, ObstacleTypeOK
<1>2. CASE CameraStep
  <2>1. CameraTurn
    BY <1>2 DEF CameraStep, NothingSeen, ClearSeen, HoldingSeen, FrameRefused, HazardSeen
  <2>2. /\ seen' \in BOOLEAN /\ grounded' \in BOOLEAN
    BY <1>2, <1>b DEF CameraStep, NothingSeen, ClearSeen, HoldingSeen, FrameRefused, HazardSeen,
       supervision
  <2>3. /\ halted' \in BOOLEAN
        /\ turn' \in {"camera", "report", "review", "skill", "hold", "route"}
    BY <1>2, <1>b DEF CameraStep, NothingSeen, ClearSeen, HoldingSeen, FrameRefused, HazardSeen,
       FrameGoesOn, LoopDies
  <2>4. safety' \in SafetyStates /\ bound' \in Nat
    BY <1>2, <1>a, <1>b DEF CameraStep, NothingSeen, ClearSeen, HoldingSeen, FrameRefused,
       HazardSeen, Suspect, supervision
  <2>5. /\ UNCHANGED <<gate, review, news, gaveUp>>
        /\ UNCHANGED <<asked, known, route, proposals>>
    BY <2>1 DEF CameraTurn, routing
  <2>. QED BY <1>a, <1>b, <1>c, <2>2, <2>3, <2>4, <2>5 DEF BudgetTyped, ObstacleTypeOK
<1>3. CASE ReportStep
  <2>1. ReportTurn
    BY <1>3 DEF ReportStep, NoReport, HazardReported
  <2>2. grounded' \in BOOLEAN
    BY <1>3, <1>b DEF ReportStep, NoReport, HazardReported, supervision
  <2>3. safety' \in SafetyStates /\ bound' \in Nat /\ asked' \in Nat
    BY <1>3, <1>a, <1>b DEF ReportStep, NoReport, HazardReported, Suspect, supervision
  <2>4. /\ UNCHANGED <<gate, seen, review, news, gaveUp, halted>>
        /\ UNCHANGED <<known, route, proposals>>
        /\ turn' = "review"
    BY <2>1 DEF ReportTurn, Turn, routing
  <2>. QED BY <1>a, <1>b, <1>c, <2>2, <2>3, <2>4 DEF BudgetTyped, ObstacleTypeOK
<1>4. CASE ReviewStep
  <2>1. ReviewTurn /\ review' \in BOOLEAN
    BY <1>4, <1>b DEF ReviewStep, NoDecision, ReviewHolds, ReviewDecides
  <2>2. known' \in Nat
    BY <1>a, <1>4 DEF ReviewStep, NoDecision, ReviewHolds, ReviewDecides
  <2>3. /\ UNCHANGED <<gate, seen, safety, grounded, news, gaveUp, halted>>
        /\ UNCHANGED <<bound, asked, route, proposals>>
        /\ turn' = "skill"
    BY <2>1 DEF ReviewTurn, Turn, supervision, routing
  <2>. QED BY <1>a, <1>b, <1>c, <2>1, <2>2, <2>3 DEF BudgetTyped, ObstacleTypeOK
<1>5. CASE ManagerTicks \/ MissionCanceled
  <2>1. SkillTurn
    BY <1>5 DEF ManagerTicks, MissionCanceled
  <2>2. news' \in BOOLEAN
    BY <1>5, <1>b DEF ManagerTicks, MissionCanceled
  <2>3. /\ UNCHANGED <<gate, seen, safety, grounded, review, gaveUp, halted>>
        /\ UNCHANGED <<bound, asked, known, route, proposals>>
        /\ turn' = "hold"
    BY <2>1 DEF SkillTurn, Turn, supervision, routing
  <2>. QED BY <1>a, <1>b, <1>c, <2>2, <2>3 DEF BudgetTyped, ObstacleTypeOK
<1>6. CASE HoldSeen
  <2>1. /\ UNCHANGED <<gate, seen, grounded, review, gaveUp, halted>>
        /\ UNCHANGED <<bound, asked, route, proposals>>
        /\ turn' \in {"route", "camera"} /\ news' = FALSE
    BY <1>6 DEF HoldSeen, Turn, routing
  <2>2. known' \in Nat /\ safety' \in SafetyStates
    BY <1>6, <1>a, <1>b DEF HoldSeen
  <2>. QED BY <1>a, <1>b, <1>c, <2>1, <2>2 DEF BudgetTyped, ObstacleTypeOK
<1>7. CASE RouteStep
  <2>1. RouteTurn
    BY <1>7 DEF RouteStep, NoRoute, RouteAsked, RouteNotAsked, RouteRejected, RouteFails,
       RouteAccepted
  <2>2. gaveUp' \in BOOLEAN /\ halted' \in BOOLEAN
    BY <1>7, <1>b DEF RouteStep, NoRoute, RouteAsked, RouteNotAsked, RouteRejected, RouteFails,
       RouteAccepted, RouteFallback
  <2>3. /\ safety' \in SafetyStates
        /\ route' \in {"IDLE", "AWAITING", "ACCEPTED", "EXHAUSTED", "FAILED"}
    BY <1>7, <1>b, <1>c DEF RouteStep, NoRoute, RouteAsked, RouteNotAsked, RouteRejected,
       RouteFails, RouteAccepted
  <2>4. proposals' \in 0..MaxProposals /\ (route' = "AWAITING" => proposals' < MaxProposals)
    BY <1>7, <1>c, ObstacleAssumption DEF ObstacleAssumption, RouteStep, NoRoute, RouteAsked,
       RouteNotAsked, RouteRejected, RouteFails, RouteAccepted
  <2>5. /\ UNCHANGED <<gate, seen, grounded, review, news>>
        /\ UNCHANGED <<bound, asked, known>>
        /\ turn' = "camera"
    BY <2>1 DEF RouteTurn, Turn
  <2>. QED BY <1>a, <1>b, <2>2, <2>3, <2>4, <2>5 DEF BudgetTyped, ObstacleTypeOK
<1>8. CASE FailSafeLanding \/ MissionOver \/ UNCHANGED holdVars
  <2>1. UNCHANGED obstacleVars
    BY <1>8 DEF FailSafeLanding, MissionOver, holdVars
  <2>. QED BY <1>a, <1>b, <1>c, <2>1 DEF BudgetTyped, ObstacleTypeOK, obstacleVars, supervision,
       routing
<1>. QED BY <1>1, <1>2, <1>3, <1>4, <1>5, <1>6, <1>7, <1>8 DEF ObstacleNext

(***************************************************************************)
(* Supervisor and route coordinator                                        *)
(***************************************************************************)

\* ReplanningAgrees is not inductive: a hold may begin while the supervisor still
\* replans.  It does not, as a supervisor whose proposal was given up is one of a
\* vehicle that lands, which nobody holds any more.
ReplanInv ==
  /\ Paused => Running
  /\ route = "AWAITING" => safety = "REPLANNING"
  /\ safety = "REPLANNING" /\ route # "AWAITING" => LandsOrOver
  /\ status = "IDLE" => safety = "CLEAR" /\ turn = "camera"

LEMMA ReplanInvMeans ==
  ASSUME SkillInv, ReplanInv
  PROVE  ReplanningAgrees
<1>1. LandsOrOver => ~Paused
  BY HoldKind DEF ReplanInv, LandsOrOver, TaskOver, Running
<1>. QED BY <1>1 DEF ReplanInv, ReplanningAgrees

\* A failed route brings the vehicle down.
LEMMA FallbackLands ==
  ASSUME SkillInv, RouteFallback, status # "IDLE"
  PROVE  LandsOrOver'
<1>1. CASE CancelTask
  BY <1>1, Canceled DEF LandsOrOver
<1>2. CASE ~Running /\ UNCHANGED skillVars
  BY <1>2 DEF SkillInv, SkillTypeOK, skillVars, taskVars, Running, LandsOrOver
<1>. QED BY <1>1, <1>2 DEF RouteFallback

LEMMA ReplanStep ==
  ASSUME SkillInv, SkillInv', ReplanInv, [ObstacleNext]_holdVars
  PROVE  ReplanInv'
<1>0. ManagerCall
  BY ManagerCalls
<1>1. Paused' => Running'
  BY <1>0, HeldWhileRunning DEF ReplanInv
<1>2. LandsOrOver => LandsOrOver'
  BY <1>0, NoTakeOffAgain
<1>3. ASSUME status' = "IDLE" PROVE safety' = "CLEAR" /\ turn' = "camera"
  <2>1. status = "IDLE" /\ safety = "CLEAR" /\ turn = "camera" /\ ~Running
    BY <1>0, <1>3, StartsOnce DEF ReplanInv, Running
  <2>2. ~SkillEnds /\ ~CameraTurn /\ ~ \E p \in Tasks : StartMission(p)
    BY <1>3, <2>1, EndsTask, EndsLanding DEF CameraTurn, StartMission, StartTask
  <2>3. UNCHANGED holdVars
    BY <2>1, <2>2 DEF ObstacleNext, CameraStep, NothingSeen, ClearSeen, HoldingSeen, FrameRefused,
       HazardSeen, ReportStep, NoReport, HazardReported, ReportTurn, ReviewStep, NoDecision,
       ReviewHolds, ReviewDecides, ReviewTurn, ManagerTicks, MissionCanceled, SkillTurn, HoldSeen,
       RouteStep, NoRoute, RouteAsked, RouteNotAsked, RouteRejected, RouteFails, RouteAccepted,
       RouteTurn, Turn, FailSafeLanding, MissionOver
  <2>. QED BY <2>1, <2>3 DEF holdVars, obstacleVars, supervision
<1>4. /\ route' = "AWAITING" => safety' = "REPLANNING"
      /\ safety' = "REPLANNING" /\ route' # "AWAITING" => LandsOrOver'
  <2>1. CASE UNCHANGED <<safety, route>>
    BY <1>2, <2>1 DEF ReplanInv
  <2>2. CASE safety \in {"CLEAR", "BRAKING", "HOLDING"} /\ safety' # "REPLANNING" /\ route' = route
    BY <2>2 DEF ReplanInv
  <2>3. CASE RouteStep
    <3>1. status # "IDLE"
      BY <2>3 DEF ReplanInv, RouteStep, NoRoute, RouteAsked, RouteNotAsked, RouteRejected,
         RouteFails, RouteAccepted, RouteTurn, Turn
    <3>2. CASE NoRoute
      BY <1>2, <3>2 DEF NoRoute, ReplanInv, HandedOver
    <3>3. CASE RouteAsked \/ \E p \in Plans : RouteAccepted(p)
      BY <3>3 DEF RouteAsked, RouteAccepted
    <3>4. CASE RouteNotAsked
      BY <3>1, <3>4, FallbackLands DEF RouteNotAsked, ReplanInv, MayBegin, HandedOver
    <3>5. CASE RouteRejected
      BY <3>1, <3>5, FallbackLands DEF RouteRejected, ReplanInv
    <3>6. CASE RouteFails
      BY <3>1, <3>6, FallbackLands DEF RouteFails
    <3>. QED BY <2>3, <3>2, <3>3, <3>4, <3>5, <3>6 DEF RouteStep
  <2>4. CASE CameraStep
    BY <2>1, <2>2, <2>4 DEF CameraStep, NothingSeen, ClearSeen, HoldingSeen, FrameRefused,
       HazardSeen, CameraTurn, Suspect, supervision, routing
  <2>5. CASE ReportStep
    BY <2>1, <2>2, <2>5 DEF ReportStep, NoReport, HazardReported, ReportTurn, Suspect,
       supervision, routing
  <2>6. CASE HoldSeen
    BY <2>1, <2>2, <2>6 DEF HoldSeen, routing
  <2>7. CASE \/ \E p \in Tasks : StartMission(p)
             \/ ReviewStep \/ ManagerTicks \/ MissionCanceled
             \/ FailSafeLanding \/ MissionOver \/ UNCHANGED holdVars
    BY <2>1, <2>7 DEF StartMission, ReviewStep, NoDecision, ReviewHolds, ReviewDecides, ReviewTurn,
       ManagerTicks, MissionCanceled, SkillTurn, FailSafeLanding, MissionOver, holdVars,
       obstacleVars, supervision, routing
  <2>. QED BY <2>3, <2>4, <2>5, <2>6, <2>7 DEF ObstacleNext
<1>. QED BY <1>1, <1>3, <1>4 DEF ReplanInv

(***************************************************************************)
(* Where only the camera holds                                             *)
(***************************************************************************)

TurnInv == ~gate => turn \notin {"report", "review"}

\* Reports and reviews have no turn.
LEMMA CameraOnly ==
  ASSUME TurnInv, [ObstacleNext]_holdVars
  PROVE  TurnInv' /\ (~gate' => ~gate /\ ~ReportStep /\ ~ReviewStep)
<1>1. gate' = gate
  BY DEF ObstacleNext, StartMission, CameraStep, NothingSeen, ClearSeen, HoldingSeen, FrameRefused,
     HazardSeen, CameraTurn, ReportStep, NoReport, HazardReported, ReportTurn, ReviewStep,
     NoDecision, ReviewHolds, ReviewDecides, ReviewTurn, ManagerTicks, MissionCanceled, SkillTurn,
     HoldSeen, RouteStep, NoRoute, RouteAsked, RouteNotAsked, RouteRejected, RouteFails,
     RouteAccepted, RouteTurn, Turn, FailSafeLanding, MissionOver, holdVars, obstacleVars
<1>2. ~gate => ~ReportStep /\ ~ReviewStep
  BY DEF TurnInv, ReportStep, NoReport, HazardReported, ReportTurn, ReviewStep, NoDecision,
     ReviewHolds, ReviewDecides, ReviewTurn, Turn
<1>3. ASSUME ~gate PROVE turn' \notin {"report", "review"}
  BY <1>2, <1>3 DEF TurnInv, ObstacleNext, StartMission, CameraStep, NothingSeen, ClearSeen,
     HoldingSeen, FrameRefused, HazardSeen, FrameGoesOn, LoopDies, ManagerTicks, MissionCanceled,
     SkillTurn, HoldSeen, RouteStep, NoRoute, RouteAsked, RouteNotAsked, RouteRejected, RouteFails,
     RouteAccepted, RouteTurn, Turn, FailSafeLanding, MissionOver, holdVars, obstacleVars
<1>. QED BY <1>1, <1>2, <1>3 DEF TurnInv

(***************************************************************************)
(* Flight on the new plan                                                  *)
(***************************************************************************)

\* Where only the camera holds, nobody else holds or decides, and neither agent nor
\* supervisor is ahead of the manager's plan.  So what the supervisor holds for
\* is the plan now flown or an older one, and a HOVER of the first is left for the
\* next plan or for a landing.
CameraHold ==
  Paused => hold.fallback = "CANCEL_AND_LAND" /\ hold.next \in {"none", "REPLACE"}
OnNewPlan == InFlight => version # bound
CameraInv ==
  /\ bound \in 0..version /\ known \in 0..version
  /\ CameraHold /\ OnNewPlan
  /\ status = "IDLE" => bound = 0
FlightInv == ~gate /\ HoverFallback = "CANCEL_AND_LAND" => CameraInv

\* The end of a Skill.
LEMMA EndsFlight ==
  ASSUME SkillInv, CameraInv, SkillEnds, UNCHANGED <<bound, known>>
  PROVE  bound' \in 0..version' /\ known' \in 0..version' /\ CameraHold' /\ OnNewPlan'
<1>1. version \in Nat /\ version' \in {version, version + 1}
  BY EndsVersion
<1>2. bound' \in 0..version' /\ known' \in 0..version'
  BY <1>1 DEF CameraInv
<1>3. CameraHold'
  BY EndsHold DEF CameraInv, CameraHold, Paused
<1>4. ~InFlight' \/ version' = version + 1 \/ InFlight
  <2>1. CASE active.skill = "LAND"
    BY <2>1, EndsLanding
  <2>2. CASE active.skill # "LAND" /\ Paused
    BY <2>2, EndsTask, EndsHover DEF CameraInv, CameraHold
  <2>3. CASE active.skill # "LAND" /\ ~Paused
    BY <2>3, EndsTask, HoldKind, PhaseNow
  <2>. QED BY <2>1, <2>2, <2>3
<1>5. OnNewPlan'
  BY <1>1, <1>4 DEF CameraInv, OnNewPlan
<1>. QED BY <1>2, <1>3, <1>5

\* A cancellation, whatever the supervisor holds for.
LEMMA CancelFlight ==
  ASSUME SkillInv, CameraInv, CancelTask, bound' \in {bound, known}, known' = known
  PROVE  CameraHold' /\ OnNewPlan' /\ bound' \in 0..version' /\ known' \in 0..version'
BY Canceled DEF CameraInv, CameraHold, OnNewPlan

\* The manager is left alone, and the supervisor starts to hold in a hold or a
\* landing at most.
LEMMA QuietFlight ==
  ASSUME SkillInv, CameraInv, UNCHANGED skillVars,
         bound' = bound \/ (bound' = known /\ ~InFlight), known' \in {known, version}
  PROVE  CameraHold' /\ OnNewPlan' /\ bound' \in 0..version' /\ known' \in 0..version'
<1>1. /\ status' = status /\ version' = version /\ active' = active /\ hold' = hold
      /\ version \in Nat
  BY DEF skillVars, taskVars, SkillInv, SkillTypeOK
<1>. QED BY <1>1 DEF CameraInv, CameraHold, OnNewPlan, Paused, InFlight, Running

LEMMA FlightStep ==
  ASSUME SkillInv, TurnInv, FlightInv, [ObstacleNext]_holdVars
  PROVE  FlightInv'
<1> SUFFICES ASSUME ~gate', HoverFallback = "CANCEL_AND_LAND" PROVE CameraInv'
  BY DEF FlightInv
<1>1. ~gate /\ ~ReportStep /\ ~ReviewStep
  BY CameraOnly
<1>2. CameraInv
  BY <1>1 DEF FlightInv
<1>. DEFINE Good == CameraHold' /\ OnNewPlan' /\ bound' \in 0..version' /\ known' \in 0..version'
<1>3. Good /\ (status' = "IDLE" => bound' = bound)
  <2>1. ASSUME NEW p \in Tasks, StartMission(p) PROVE Good /\ status' # "IDLE"
    <3>1. status = "IDLE" /\ status' = "RUNNING" /\ version' = 1 /\ hold' = NoHold
      BY <2>1 DEF StartMission, StartTask
    <3>2. bound' = bound /\ known' = 1
      BY <2>1 DEF StartMission, supervision
    <3>. QED BY <1>2, <3>1, <3>2 DEF CameraInv, CameraHold, OnNewPlan, Paused
  <2>2. CASE CameraStep
    <3>1. Running /\ known' = known
      BY <2>2 DEF CameraStep, NothingSeen, ClearSeen, HoldingSeen, FrameRefused, HazardSeen,
         CameraTurn
    <3>2. CASE UNCHANGED <<skillVars, bound>>
      BY <1>2, <3>1, <3>2, QuietFlight DEF skillVars, taskVars
    <3>3. CASE LoopDies /\ bound' \in {bound, known}
      <4>1. CASE CancelTask
        BY <1>2, <3>1, <3>3, <4>1, CancelFlight, Canceled DEF Running
      <4>2. CASE active.skill = "LAND" /\ UNCHANGED skillVars
        BY <1>2, <3>1, <3>3, <4>2, QuietFlight DEF InFlight, skillVars, taskVars, Running
      <4>. QED BY <3>3, <4>1, <4>2 DEF LoopDies
    <3>4. CASE HazardSeen /\ Paused /\ UNCHANGED skillVars
      <4>1. ~InFlight
        BY <3>1, <3>4, HoldKind, PhaseNow
      <4>. QED BY <1>2, <3>1, <3>4, <4>1, QuietFlight DEF HazardSeen, Suspect, skillVars, taskVars,
           Running
    <3>5. CASE HazardSeen /\ TakeHold
      <4>1. Interrupt("CANCEL_AND_LAND")
        BY <3>5 DEF TakeHold
      <4>2. /\ Running' /\ version' = version /\ ~InFlight'
            /\ hold'.fallback = "CANCEL_AND_LAND" /\ hold'.next = "none"
        BY <4>1, Interrupted
      <4>3. bound' = known /\ known' = known
        BY <3>1, <3>5 DEF HazardSeen, Suspect
      <4>. QED BY <1>2, <4>2, <4>3 DEF CameraInv, CameraHold, OnNewPlan, Running
    <3>. QED BY <2>2, <3>2, <3>3, <3>4, <3>5 DEF CameraStep, NothingSeen, ClearSeen, HoldingSeen,
         FrameRefused, HazardSeen, Suspect, supervision
  <2>3. CASE ManagerTicks
    <3>1. UNCHANGED <<bound, known>>
      BY <2>3 DEF ManagerTicks, SkillTurn, supervision
    <3>2. CASE SkillEnds
      BY <1>2, <3>1, <3>2, EndsFlight
    <3>3. CASE HoldEstablished
      BY <1>2, <3>1, <3>3, Established DEF CameraInv, CameraHold, OnNewPlan, InFlight, Running,
         Paused
    <3>4. CASE UNCHANGED skillVars
      BY <1>2, <3>1, <3>4, QuietFlight
    <3>. QED BY <2>3, <3>1, <3>2, <3>3, <3>4 DEF ManagerTicks
  <2>4. CASE MissionCanceled
    <3>1. CancelTask /\ UNCHANGED <<bound, known>>
      BY <2>4 DEF MissionCanceled, SkillTurn, supervision
    <3>. QED BY <1>2, <3>1, CancelFlight
  <2>5. CASE HoldSeen
    BY <1>2, <2>5, QuietFlight DEF HoldSeen
  <2>6. CASE RouteStep
    <3>1. UNCHANGED <<bound, known>>
      BY <2>6 DEF RouteStep, NoRoute, RouteAsked, RouteNotAsked, RouteRejected, RouteFails,
         RouteAccepted, RouteTurn
    <3>2. CASE CancelTask
      BY <1>2, <3>1, <3>2, CancelFlight
    <3>3. CASE UNCHANGED skillVars
      BY <1>2, <3>1, <3>3, QuietFlight
    <3>4. ASSUME NEW p \in Plans, RouteAccepted(p) PROVE Good
      <4>1. Replace(p)
        BY <3>4 DEF RouteAccepted
      <4>2. /\ status' = status /\ version' = version /\ active' = active
            /\ hold'.fallback = hold.fallback /\ hold'.next = "REPLACE" /\ Paused
        BY <4>1, Replaced DEF Replace, Decide, taskVars
      <4>. QED BY <1>2, <3>1, <4>2 DEF CameraInv, CameraHold, OnNewPlan, InFlight, Running
    <3>. QED BY <2>6, <3>1, <3>2, <3>3, <3>4 DEF RouteStep, NoRoute, RouteAsked, RouteNotAsked,
         RouteRejected, RouteFails, RouteFallback
  <2>7. CASE FailSafeLanding
    BY <1>2, <2>7, EndsFlight DEF FailSafeLanding, obstacleVars, supervision
  <2>8. CASE MissionOver \/ UNCHANGED holdVars
    BY <1>2, <2>8, QuietFlight DEF MissionOver, holdVars, obstacleVars, supervision
  <2>. QED BY <1>1, <2>1, <2>2, <2>3, <2>4, <2>5, <2>6, <2>7, <2>8 DEF ObstacleNext
<1>4. status' = "IDLE" => status = "IDLE"
  BY ManagerCalls, StartsOnce
<1>. QED BY <1>2, <1>3, <1>4 DEF CameraInv

(***************************************************************************)
(* Every HOVER is somebody's                                               *)
(***************************************************************************)

\* The end of a Skill leaves no hold.
LEMMA EndsUnheld ==
  ASSUME SkillInv, SkillEnds
  PROVE  ~Paused'
<1>1. CASE active.skill = "LAND"
  BY <1>1, EndsLanding DEF Paused
<1>2. CASE active.skill # "LAND" /\ ~Paused
  BY <1>2, EndsHold DEF Paused
<1>3. CASE active.skill # "LAND" /\ Paused
  <2>1. Running /\ active.kind = "SUPERVISORY" /\ active.skill = "HOVER"
    BY <1>3, EndsTask, HoldKind
  <2>2. HoverReleased \/ HoverTimesOut \/ HoverFails
    BY <2>1 DEF SkillEnds, StepDone, TargetFound, SearchFallsBack, InspectDone, InspectRejected,
       TargetLost, Reacquired, RepairPending, StepFails, LandDone, LandFails, Flying, Landing,
       Reacquiring
  <2>. QED BY <2>2 DEF HoverReleased, HoverTimesOut, HoverFails, ResumeSaved, StartReplacement,
       StartHandOff, BeginLanding, Paused
<1>. QED BY <1>1, <1>2, <1>3

\* HoldIsOwned is inductive once it is known that only a grounded hazard stops the
\* vehicle, that a decided hold was established, and that a handshake is consumed
\* in the frame it was made in, before anything is decided about its hold.
Braking == safety = "BRAKING" /\ (hold.established => news)
Asking == hold.established /\ (safety = "GROUNDED" \/ (safety = "REPLANNING" /\ route = "AWAITING"))
Owned ==
  IF hold.next # "none"
    THEN /\ hold.next = "REPLACE" /\ hold.established
         /\ route = "ACCEPTED" /\ safety \in {"CLEAR", "BRAKING"}
    ELSE Braking \/ Asking
OwnedInv ==
  ~gate =>
    /\ safety # "HOLDING" /\ (safety # "CLEAR" => grounded)
    /\ news => turn = "hold" /\ (Paused => hold.next = "none" /\ hold.established)
    /\ Paused => Owned

LEMMA OwnedStep ==
  ASSUME SkillInv, ReplanInv, TurnInv, OwnedInv, [ObstacleNext]_holdVars
  PROVE  OwnedInv'
<1> SUFFICES ASSUME ~gate'
             PROVE  /\ safety' # "HOLDING" /\ (safety' # "CLEAR" => grounded')
                    /\ news' => turn' = "hold" /\ (Paused' => hold'.next = "none" /\ hold'.established)
                    /\ Paused' => Owned'
  BY DEF OwnedInv
<1>1. ~gate /\ ~ReportStep /\ ~ReviewStep
  BY CameraOnly
<1>2. /\ safety # "HOLDING" /\ (safety # "CLEAR" => grounded)
      /\ news => turn = "hold" /\ (Paused => hold.next = "none" /\ hold.established)
      /\ Paused => Owned
  BY <1>1 DEF OwnedInv
<1>3. ASSUME NEW p \in Tasks, StartMission(p)
      PROVE  /\ ~Paused' /\ safety' = "CLEAR" /\ ~news'
  <2>1. status = "IDLE" /\ hold' = NoHold
    BY <1>3 DEF StartMission, StartTask
  <2>. QED BY <1>2, <1>3, <2>1 DEF ReplanInv, StartMission, supervision, Paused
<1>4. CASE CameraStep
  <2>1. /\ Running /\ turn = "camera" /\ ~news /\ news' = news /\ route' = route
    BY <1>2, <1>4 DEF CameraStep, NothingSeen, ClearSeen, HoldingSeen, FrameRefused, HazardSeen,
       CameraTurn, routing
  <2>2. safety' # "HOLDING" /\ (safety' # "CLEAR" => grounded')
    BY <1>2, <1>4 DEF CameraStep, NothingSeen, ClearSeen, HoldingSeen, FrameRefused, HazardSeen,
       Suspect, supervision
  <2>3. CASE FrameRefused \/ (HazardSeen /\ ~Paused /\ LoopDies)
    <3>1. ~Paused'
      <4>1. CASE CancelTask
        BY <4>1, Canceled
      <4>2. CASE active.skill = "LAND" /\ UNCHANGED skillVars
        BY <2>1, <4>2, HoldKind DEF skillVars, Paused
      <4>. QED BY <2>3, <4>1, <4>2 DEF FrameRefused, LoopDies
    <3>. QED BY <2>1, <2>2, <3>1
  <2>4. CASE HazardSeen /\ ~Paused /\ TakeHold
    <3>1. hold' = Hold(HoverFallback, FALSE) /\ safety' = "BRAKING"
      BY <2>4 DEF HazardSeen, Suspect, TakeHold, Interrupt
    <3>2. hold'.next = "none" /\ ~hold'.established
      BY <3>1 DEF Hold
    <3>. QED BY <2>1, <2>2, <3>1, <3>2 DEF Owned, Braking
  <2>5. CASE HazardSeen /\ Paused /\ UNCHANGED skillVars
    <3>1. safety = "CLEAR" /\ safety' = "BRAKING" /\ hold' = hold
      BY <2>5 DEF HazardSeen, Suspect, skillVars
    <3>. QED BY <1>2, <2>1, <2>2, <2>5, <3>1 DEF Owned, Braking, Asking
  <2>6. CASE NothingSeen \/ ClearSeen \/ HoldingSeen
    <3>1. safety' = safety /\ hold' = hold
      BY <1>2, <2>6 DEF NothingSeen, ClearSeen, HoldingSeen, supervision, skillVars
    <3>. QED BY <1>2, <2>1, <2>2, <3>1 DEF Owned, Braking, Asking, Paused
  <2>. QED BY <1>4, <2>3, <2>4, <2>5, <2>6 DEF CameraStep, HazardSeen
<1>5. CASE ManagerTicks
  <2>1. /\ turn' = "hold" /\ UNCHANGED <<safety, grounded, route>>
    BY <1>5 DEF ManagerTicks, SkillTurn, Turn, supervision, routing
  <2>2. ~news
    BY <1>2, <1>5 DEF ManagerTicks, SkillTurn, Turn
  <2>3. CASE SkillEnds
    BY <1>2, <2>1, <2>3, EndsUnheld
  <2>4. CASE HoldEstablished /\ news' = TRUE
    <3>1. Paused /\ ~hold.established /\ hold' = [hold EXCEPT !.established = TRUE]
      BY <2>4, Established DEF HoldEstablished
    <3>2. hold.next = "none" /\ safety = "BRAKING"
      BY <1>2, <3>1 DEF Owned, Braking, Asking
    <3>3. hold'.next = "none" /\ hold'.established
      BY <3>1, <3>2 DEF SkillInv, SkillTypeOK, HoldRecords
    <3>. QED BY <1>2, <2>1, <2>4, <3>2, <3>3 DEF Owned, Braking
  <2>5. CASE UNCHANGED <<skillVars, news>>
    BY <1>2, <2>1, <2>2, <2>5 DEF skillVars, Owned, Braking, Asking, Paused
  <2>. QED BY <1>5, <2>3, <2>4, <2>5 DEF ManagerTicks
<1>6. CASE MissionCanceled
  BY <1>2, <1>6, Canceled DEF MissionCanceled, SkillTurn, Turn, supervision
<1>7. CASE HoldSeen
  <2>1. /\ ~news' /\ hold' = hold /\ route' = route /\ grounded' = grounded
        /\ safety' = IF ~news \/ safety # "BRAKING" THEN safety
                     ELSE IF grounded THEN "GROUNDED" ELSE "HOLDING"
    BY <1>7 DEF HoldSeen, skillVars, routing
  <2>. QED BY <1>2, <2>1 DEF Owned, Braking, Asking, Paused
<1>8. CASE RouteStep
  <2>1. turn = "route" /\ UNCHANGED <<grounded, news>>
    BY <1>8 DEF RouteStep, NoRoute, RouteAsked, RouteNotAsked, RouteRejected, RouteFails,
       RouteAccepted, RouteTurn, Turn
  <2>2. ~news /\ ~news' /\ turn # "hold"
    BY <1>2, <2>1
  <2>3. safety' # "HOLDING" /\ (safety' # "CLEAR" => grounded')
    BY <1>2, <1>8, <2>1 DEF RouteStep, NoRoute, RouteAsked, RouteNotAsked, RouteRejected, RouteFails,
       RouteAccepted, ReplanInv
  <2>4. ASSUME Paused' PROVE Owned'
    <3>1. CASE NoRoute
      <4>1. hold' = hold /\ safety' = safety /\ (Paused => route' = route)
        BY <3>1 DEF NoRoute, skillVars, HandedOver
      <4>. QED BY <1>2, <2>2, <2>4, <4>1 DEF Owned, Braking, Asking, Paused
    <3>2. CASE RouteAsked
      <4>1. hold' = hold /\ safety = "GROUNDED" /\ safety' = "REPLANNING" /\ route' = "AWAITING" /\ Paused
        BY <3>2 DEF RouteAsked, skillVars
      <4>. QED BY <1>2, <4>1 DEF Owned, Braking, Asking
    <3>3. CASE RouteFallback
      BY <2>4, <3>3, Canceled DEF RouteFallback, ReplanInv, skillVars, Paused
    <3>4. CASE RouteRejected /\ UNCHANGED <<route, skillVars>>
      BY <1>2, <2>2, <2>4, <3>4 DEF RouteRejected, skillVars, Owned, Braking, Asking, Paused
    <3>5. ASSUME NEW p \in Plans, RouteAccepted(p) PROVE Owned'
      <4>1. Replace(p) /\ safety' = "CLEAR" /\ route' = "ACCEPTED" /\ safety = "REPLANNING"
        BY <3>5 DEF RouteAccepted, ReplanInv
      <4>2. Paused /\ hold.next = "none"
        BY <4>1, Replaced DEF Replace, Undecided
      <4>3. hold.established
        BY <1>2, <4>1, <4>2 DEF Owned, Braking, Asking
      <4>4. hold' = [hold EXCEPT !.next = "REPLACE", !.suffix = p] /\ hold \in HoldRecords
        BY <4>1 DEF Replace, Decide, SkillInv, SkillTypeOK
      <4>5. hold'.next = "REPLACE" /\ hold'.established
        BY <4>3, <4>4 DEF HoldRecords
      <4>. QED BY <4>1, <4>5 DEF Owned
    <3>. QED BY <1>8, <3>1, <3>2, <3>3, <3>4, <3>5 DEF RouteStep, RouteNotAsked, RouteRejected,
         RouteFails
  <2>. QED BY <2>2, <2>3, <2>4
<1>9. CASE FailSafeLanding
  <2>1. ~Paused' /\ UNCHANGED <<safety, grounded, news, turn>>
    BY <1>9, EndsUnheld DEF FailSafeLanding, obstacleVars, supervision
  <2>. QED BY <1>2, <2>1
<1>10. CASE MissionOver \/ UNCHANGED holdVars
  BY <1>2, <1>10 DEF MissionOver, holdVars, skillVars, obstacleVars, supervision, routing, Owned,
     Braking, Asking, Paused
<1>. QED BY <1>1, <1>3, <1>4, <1>5, <1>6, <1>7, <1>8, <1>9, <1>10 DEF ObstacleNext

(***************************************************************************)
(* The theorems                                                            *)
(***************************************************************************)

HoldInv == SkillInv /\ BudgetTyped /\ ReplanInv /\ TurnInv /\ FlightInv /\ OwnedInv

LEMMA HoldInitially == ObstacleInit => HoldInv
<1> SUFFICES ASSUME ObstacleInit PROVE HoldInv
  OBVIOUS
<1>1. SkillInv
  BY SkillInitially DEF ObstacleInit
<1>2. BudgetTyped
  <2>1. SkillTypeOK
    BY <1>1 DEF SkillInv
  <2>2. /\ gate \in BOOLEAN /\ seen \in BOOLEAN /\ grounded \in BOOLEAN /\ review \in BOOLEAN
        /\ news \in BOOLEAN /\ gaveUp \in BOOLEAN /\ halted \in BOOLEAN
    BY DEF ObstacleInit
  <2>3. proposals \in 0..MaxProposals /\ bound \in Nat /\ known \in Nat /\ asked \in Nat
    BY ObstacleAssumption DEF ObstacleAssumption, ObstacleInit
  <2>4. turn = "camera" /\ safety = "CLEAR" /\ route = "IDLE"
    BY DEF ObstacleInit
  <2>. QED BY <2>1, <2>2, <2>3, <2>4 DEF BudgetTyped, ObstacleTypeOK, SafetyStates
<1>3. hold = NoHold /\ status = "IDLE" /\ version = 0
  BY DEF ObstacleInit, SkillInit
<1>4. ReplanInv /\ TurnInv /\ FlightInv /\ OwnedInv
  BY <1>3 DEF ObstacleInit, ReplanInv, TurnInv, OwnedInv, FlightInv, CameraInv, CameraHold, OnNewPlan, Paused, InFlight,
     Running
<1>. QED BY <1>1, <1>2, <1>4 DEF HoldInv

LEMMA ObstacleStep == HoldInv /\ [ObstacleNext]_holdVars => HoldInv'
<1> SUFFICES ASSUME HoldInv, [ObstacleNext]_holdVars PROVE HoldInv'
  OBVIOUS
<1>1. SkillInv'
  BY ManagerCalls, ManagerStep, SkillStep DEF HoldInv
<1>. QED BY <1>1, TypesStep, ReplanStep, CameraOnly, FlightStep, OwnedStep DEF HoldInv

LEMMA HoldInvariant == ObstacleSpec => []HoldInv
BY HoldInitially, ObstacleStep, PTL DEF ObstacleSpec

\* Type correctness, and with it the budget of route proposals, for every mission
\* and every mix of hazards, reports and reviews.
THEOREM ObstacleTypes == ObstacleSpec => []ObstacleTypeOK
<1>1. HoldInv => ObstacleTypeOK
  BY DEF HoldInv, BudgetTyped
<1>. QED BY <1>1, HoldInvariant, PTL

\* Where only the camera holds, every HOVER has somebody who ends it, whatever is
\* seen or lost between the turns of the supervisor, the manager and the route
\* coordinator.
THEOREM ObstacleHoldIsOwned == ObstacleSpec => []HoldIsOwned
<1>1. HoldInv => HoldIsOwned
  BY DEF HoldInv, OwnedInv, Owned, Braking, Asking, HoldIsOwned
<1>. QED BY <1>1, HoldInvariant, PTL

\* Supervisor and route coordinator never disagree about whether a route is being
\* looked for, whoever else uses the manager between their turns.
THEOREM ObstacleReplanning == ObstacleSpec => []ReplanningAgrees
<1>1. HoldInv => ReplanningAgrees
  BY ReplanInvMeans DEF HoldInv
<1>. QED BY <1>1, HoldInvariant, PTL

\* Where only the camera holds, the plan version a hazard was found in is never
\* flown again, for every mission, every budget and every timing.
THEOREM ObstacleFliesNewPlan == ObstacleSpec => []FliesNewPlan
<1>1. HoldInv => FliesNewPlan
  BY DEF HoldInv, FlightInv, CameraInv, OnNewPlan, FliesNewPlan
<1>. QED BY <1>1, HoldInvariant, PTL
=============================================================================
