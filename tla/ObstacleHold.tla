---------------------------- MODULE ObstacleHold ----------------------------
(***************************************************************************)
(* The hold before an obstacle and the detour around it, composed with     *)
(* SkillManager: in each frame of scripts/run_dynamic_visual_mission.py    *)
(* the camera is evaluated (ObstacleHazardRuntime, CollisionSupervisor),   *)
(* a model's assessment is polled (RuntimeVisualAssessmentCoordinator),    *)
(* the agent lets its review coordinators and then the manager have their  *)
(* tick, the established hold is reported to the supervisor, and the route *)
(* coordinator asks for a detour or publishes one.                         *)
(*                                                                         *)
(* Obstacles, corridors, routes and their critique are left out: a frame   *)
(* shows a hazard or not, a proposal is accepted, repaired or useless.     *)
(* Of reviews and revisions only their calls of the manager are modelled.  *)
(***************************************************************************)
EXTENDS SkillManager

CONSTANTS
  HoverFallback,  \* hover_timeout_fallback of ObstacleHazardRuntime
  MaxProposals    \* route proposals for one hold

ASSUME ObstacleAssumption ==
  /\ ~LocalRepair
  /\ HoverFallback \in {"RESUME_PREVIOUS", "CANCEL_AND_LAND"}
  /\ MaxProposals \in 1..3

VARIABLES
  gate,       \* models control: apply_to_control, reviews in gate mode
  turn,       \* whose turn it is in this frame
  seen,       \* the frame has camera geometry
  safety,     \* CollisionSupervisor._state
  bound,      \* plan_version of the fusion it holds for
  grounded,   \* _latest_fusion can generate a route
  asked,      \* plan version of the assessment in flight, or 0
  review,     \* a review or revision takes the HOVER for its own
  known,      \* MissionAgent._plan_version
  news,       \* HOLD_ESTABLISHED is in the transition log and not yet consumed
  route,      \* ObstacleRevisionCoordinator._state
  proposals,  \* _round_proposal_count
  gaveUp,     \* obstacle_route_failed
  halted      \* the loop has died of an exception

supervision == <<safety, bound, grounded>>
routing == <<route, proposals, gaveUp>>
obstacleVars == <<gate, turn, seen, supervision, asked, review, known, news, routing, halted>>
holdVars == <<skillVars, obstacleVars>>

Assessed == {"GOTO", "SEARCH", "INSPECT", "TRACK"}

ObstacleInit ==
  /\ SkillInit
  /\ gate \in BOOLEAN
  /\ turn = "camera" /\ seen = FALSE
  /\ safety = "CLEAR" /\ bound = 0 /\ grounded = FALSE
  /\ asked = 0 /\ review = FALSE /\ known = 0 /\ news = FALSE
  /\ route = "IDLE" /\ proposals = 0 /\ gaveUp = FALSE /\ halted = FALSE

StartMission(p) ==
  /\ StartTask(p)
  /\ known' = 1
  /\ UNCHANGED <<gate, turn, seen, supervision, asked, review, news, routing, halted>>

\* is_supervisory_paused
Paused == hold # NoHold

Turn(from, to) == turn = from /\ turn' = to /\ UNCHANGED gate

\* An exception nobody catches ends the loop; what remains is a landing, which
\* cancel() starts unless the agent is at it.
LoopDies ==
  /\ halted' = TRUE /\ turn' = "camera"
  /\ \/ CancelTask
     \/ active.skill = "LAND" /\ UNCHANGED skillVars

(***************************************************************************)
(* The camera frame: process_camera_frame()                                *)
(***************************************************************************)

CameraTurn ==
  /\ turn = "camera" /\ Running /\ ~halted
  /\ UNCHANGED <<gate, asked, review, known, news, routing>>

FrameGoesOn == turn' = (IF gate THEN "report" ELSE "skill") /\ UNCHANGED halted

\* evaluate() refuses evidence of another plan version than it holds for.
Misrouted(v) == safety # "CLEAR" /\ bound # v

\* No geometry, or a frame the perception has had already.
NothingSeen ==
  /\ CameraTurn /\ FrameGoesOn
  /\ seen' \in BOOLEAN
  /\ UNCHANGED <<supervision, skillVars>>

ClearSeen ==
  /\ CameraTurn /\ FrameGoesOn
  /\ safety = "CLEAR"
  /\ seen' = TRUE /\ grounded' = FALSE
  /\ UNCHANGED <<safety, bound, skillVars>>

\* While it holds, a clear frame erases nothing and a hazard grounds the hold.
HoldingSeen ==
  /\ CameraTurn /\ FrameGoesOn
  /\ safety # "CLEAR" /\ ~Misrouted(known)
  /\ seen' = TRUE /\ grounded' \in {grounded, TRUE}
  /\ safety' = IF safety = "HOLDING" /\ grounded' THEN "GROUNDED" ELSE safety
  /\ UNCHANGED <<bound, skillVars>>

FrameRefused ==
  /\ CameraTurn
  /\ Misrouted(known)
  /\ seen' = TRUE
  /\ UNCHANGED supervision
  /\ LoopDies

Suspect(v) == safety = "CLEAR" /\ safety' = "BRAKING" /\ bound' = v

CanInterrupt == \E k \in Interruptible : Flying(k)

\* bound: a hold is taken only if a route can still be published.
TakeHold == calls + 1 < MaxCalls /\ Interrupt(HoverFallback)

\* A hazard: hold at once, unless somebody else's HOVER is active.
HazardSeen ==
  /\ CameraTurn
  /\ Suspect(known)
  /\ seen' = TRUE /\ grounded' = TRUE
  /\ \/ Paused /\ FrameGoesOn /\ UNCHANGED skillVars
     \/ ~Paused /\ FrameGoesOn /\ TakeHold
     \/ ~Paused /\ ~CanInterrupt /\ LoopDies

(***************************************************************************)
(* RuntimeVisualAssessmentCoordinator.tick(), where it controls            *)
(***************************************************************************)

ReportTurn ==
  /\ Turn("report", "review")
  /\ UNCHANGED <<seen, review, known, news, routing, halted>>

\* Nothing, a stale or a harmless answer; then perhaps a new question.
NoReport ==
  /\ ReportTurn
  /\ asked' \in {asked} \cup
       (IF ~seen THEN {} ELSE {0} \cup
         (IF safety = "CLEAR" /\ active.skill \in Assessed THEN {version} ELSE {}))
  /\ UNCHANGED <<supervision, skillVars>>

\* add_qwen_hazard(), grounded or not; whatever it raises is swallowed.
HazardReported(g) ==
  /\ ReportTurn
  /\ seen /\ asked # 0 /\ asked = version
  /\ asked' = 0
  /\ grounded' = (grounded \/ g)
  /\ \/ safety # "CLEAR" /\ UNCHANGED <<safety, bound, skillVars>>
     \/ /\ Suspect(version)
        /\ \/ ~Paused /\ TakeHold
           \/ (Paused \/ ~CanInterrupt) /\ UNCHANGED skillVars

(***************************************************************************)
(* The agent's tick: reviews and revisions, then the manager               *)
(***************************************************************************)

ReviewTurn ==
  /\ Turn("review", "skill")
  /\ UNCHANGED <<seen, supervision, asked, news, routing, halted>>

\* A wait whose HOVER is over is forgotten.
NoDecision ==
  /\ ReviewTurn
  /\ review' = (review /\ Paused)
  /\ UNCHANGED <<known, skillVars>>

ReviewHolds(fallback) ==
  /\ ReviewTurn
  /\ Interrupt(fallback)
  /\ review' = TRUE
  /\ UNCHANGED known

\* The answer, or the fallback of a refused revision, goes to whatever HOVER is
\* active; the agent follows an accepted plan at once.
ReviewDecides ==
  /\ ReviewTurn
  /\ review /\ Paused
  /\ review' \in BOOLEAN
  /\ \/ Resume /\ UNCHANGED known
     \/ (\E p \in Plans : Replace(p) \/ HandOff(p)) /\ known' = version + 1
     \/ CancelTask /\ UNCHANGED known

SkillTurn ==
  /\ Turn("skill", "hold")
  /\ UNCHANGED <<seen, supervision, asked, review, known, routing, halted>>

\* Fault: the manager is not ticked while the vehicle is held.
ManagerTicksUnlessHeld ==
  /\ SkillTurn
  /\ \/ ~Paused /\ SkillEnds /\ news' = FALSE
     \/ UNCHANGED <<skillVars, news>>

\* The first tick of a HOVER establishes the hold; it may be the last one, too.
ManagerTicks ==
  /\ SkillTurn
  /\ \/ SkillEnds /\ news' \in (IF Hovering /\ ~hold.established THEN BOOLEAN ELSE {FALSE})
     \/ HoldEstablished /\ news' = TRUE
     \/ UNCHANGED <<skillVars, news>>

\* The operator, the safety supervisor or the clock of the mission.
MissionCanceled ==
  /\ SkillTurn
  /\ CancelTask
  /\ UNCHANGED news

(***************************************************************************)
(* adopt_runtime_task_plan() and observe_skill_transitions()               *)
(***************************************************************************)

HoldSeen ==
  /\ Turn("hold", IF seen /\ ~gaveUp THEN "route" ELSE "camera")
  /\ known' = IF version = known + 1 THEN version ELSE known
  /\ news' = FALSE
  /\ safety' = IF ~news \/ safety # "BRAKING" THEN safety
               ELSE IF grounded THEN "GROUNDED" ELSE "HOLDING"
  /\ UNCHANGED <<seen, bound, grounded, asked, review, routing, halted, skillVars>>

(***************************************************************************)
(* ObstacleRouteReplanRuntime.tick()                                       *)
(***************************************************************************)

RouteTurn ==
  /\ Turn("route", "camera")
  /\ UNCHANGED <<seen, bound, grounded, asked, review, known, news>>

\* An accepted route has been taken over by the manager.
HandedOver == route = "ACCEPTED" /\ ~Paused
MayBegin == route = "IDLE" \/ HandedOver

\* Fault: a vehicle whose route has failed goes on hovering.
RouteFallbackNone == UNCHANGED <<halted, skillVars>>

\* cancel_task() raises when the task is over.
RouteFallback ==
  \/ CancelTask /\ UNCHANGED halted
  \/ ~Running /\ halted' = TRUE /\ UNCHANGED skillVars

NoRoute ==
  /\ RouteTurn
  /\ ~(MayBegin /\ safety = "GROUNDED")
  /\ route' = IF HandedOver THEN "IDLE" ELSE route
  /\ UNCHANGED <<safety, proposals, gaveUp, halted, skillVars>>

\* begin()
RouteAsked ==
  /\ RouteTurn
  /\ MayBegin /\ safety = "GROUNDED" /\ Paused
  /\ safety' = "REPLANNING"
  /\ route' = "AWAITING" /\ proposals' = 0
  /\ UNCHANGED <<gaveUp, halted, skillVars>>

\* No HOVER, no corridor to rejoin, no obstacle, or a request that is refused.
RouteNotAsked ==
  /\ RouteTurn
  /\ \/ MayBegin /\ safety = "GROUNDED" /\ safety' \in {"GROUNDED", "REPLANNING"}
     \/ route = "AWAITING" /\ UNCHANGED safety
  /\ route' = IF HandedOver THEN "IDLE" ELSE route
  /\ gaveUp' = TRUE
  /\ RouteFallback
  /\ UNCHANGED proposals

\* A proposal that cannot be read or does not pass the critique.
RouteRejected ==
  /\ RouteTurn
  /\ route = "AWAITING"
  /\ proposals' = proposals + 1
  /\ IF proposals' < MaxProposals
       THEN UNCHANGED <<route, gaveUp, halted, skillVars>>
       ELSE /\ route' = "EXHAUSTED"
            /\ RouteFallback
            /\ gaveUp' = halted'
  /\ UNCHANGED safety

\* The model has failed, or the manager does not take the accepted route.
RouteFails ==
  /\ RouteTurn
  /\ route = "AWAITING"
  /\ route' = "FAILED" /\ proposals' = proposals + 1
  /\ RouteFallback
  /\ gaveUp' = halted'
  /\ UNCHANGED safety

\* Fault: the supervisor is not told.
RouteAcceptedQuietly(p) ==
  /\ RouteTurn
  /\ route = "AWAITING"
  /\ Replace(p)
  /\ route' = "ACCEPTED" /\ proposals' = proposals + 1
  /\ UNCHANGED <<safety, gaveUp, halted>>

\* _publish_accepted(): supervision is over before HOVER is released.
RouteAccepted(p) ==
  /\ RouteTurn
  /\ route = "AWAITING"
  /\ Replace(p)
  /\ safety' = "CLEAR"
  /\ route' = "ACCEPTED" /\ proposals' = proposals + 1
  /\ UNCHANGED <<gaveUp, halted>>

(***************************************************************************)
(* Specification                                                           *)
(***************************************************************************)

\* After the loop only the landing is ticked.
FailSafeLanding == halted /\ SkillEnds /\ UNCHANGED obstacleVars

MissionOver == status \in TaskOver /\ turn = "camera" /\ UNCHANGED holdVars

CameraStep == NothingSeen \/ ClearSeen \/ HoldingSeen \/ FrameRefused \/ HazardSeen
ReportStep == NoReport \/ \E g \in BOOLEAN : HazardReported(g)
ReviewStep ==
  NoDecision \/ ReviewDecides \/ \E f \in {"RESUME_PREVIOUS", "CANCEL_AND_LAND"} : ReviewHolds(f)
RouteStep ==
  \/ NoRoute \/ RouteAsked \/ RouteNotAsked \/ RouteRejected \/ RouteFails
  \/ \E p \in Plans : RouteAccepted(p)

ObstacleNext ==
  \/ \E p \in Tasks : StartMission(p)
  \/ CameraStep \/ ReportStep \/ ReviewStep \/ ManagerTicks \/ MissionCanceled
  \/ HoldSeen \/ RouteStep
  \/ FailSafeLanding \/ MissionOver

ObstacleSpec == ObstacleInit /\ [][ObstacleNext]_holdVars

\* The loop goes through its frames, and when it has died its landing is ticked; a
\* Skill that is past its deadline ends when the manager has its turn.
FrameStep == CameraStep \/ ReportStep \/ ReviewStep \/ ManagerTicks \/ HoldSeen \/ RouteStep
ObstacleFairness ==
  WF_holdVars(FrameStep \/ FailSafeLanding) /\ SF_holdVars(ManagerTicks /\ SkillEnds)
LiveObstacleSpec == ObstacleSpec /\ ObstacleFairness

(***************************************************************************)
(* Properties                                                              *)
(***************************************************************************)

SafetyStates == {"CLEAR", "BRAKING", "HOLDING", "GROUNDED", "REPLANNING"}

\* Every variable has its type.
ObstacleTypeOK ==
  /\ SkillTypeOK
  /\ gate \in BOOLEAN /\ seen \in BOOLEAN /\ grounded \in BOOLEAN /\ review \in BOOLEAN
  /\ news \in BOOLEAN /\ gaveUp \in BOOLEAN /\ halted \in BOOLEAN
  /\ turn \in {"camera", "report", "review", "skill", "hold", "route"}
  /\ safety \in SafetyStates
  /\ bound \in Nat /\ known \in Nat /\ asked \in Nat
  /\ route \in {"IDLE", "AWAITING", "ACCEPTED", "EXHAUSTED", "FAILED"}
  /\ proposals \in 0..MaxProposals

\* Where only the camera holds, every HOVER has somebody who ends it ("No
\* experiment mode may remain in an indefinite HOVER after a terminal
\* schema/repair/publication failure", obstacle_revision_coordinator.py:490):
\* until the handshake is through the supervisor brakes; then the route
\* coordinator asks for a route or waits for one, unless a frame without geometry
\* has left it with its last route, when the hold's own time-out ends it; and once
\* a route is decided the hold is the manager's to release.  No handshake is lost.
HoldIsOwned ==
  ~gate /\ Paused =>
    IF hold.next # "none"
      THEN hold.next = "REPLACE" /\ route = "ACCEPTED" /\ safety \in {"CLEAR", "BRAKING"}
      ELSE \/ safety = "BRAKING" /\ (hold.established => news)
           \/ safety = "GROUNDED" /\ hold.established
           \/ safety = "REPLANNING" /\ hold.established /\ route = "AWAITING"

\* Supervisor and route coordinator agree in every mode: a proposal is awaited
\* only while the supervisor replans, and it replans in a hold only for a
\* proposal.
ReplanningAgrees ==
  /\ route = "AWAITING" => safety = "REPLANNING"
  /\ safety = "REPLANNING" /\ Paused => route = "AWAITING"

InFlight == Running /\ active.kind \in {"PLANNED", "RECOVERY"} /\ active.skill # "LAND"

\* "Prevent ungrounded reports or unchecked routes from resuming flight"
\* (collision_supervisor.py:44), as far as it holds: where only the camera holds
\* and a hold that times out lands, the plan version in which a hazard was found
\* is never flown again.
FliesNewPlan ==
  ~gate /\ HoverFallback = "CANCEL_AND_LAND" /\ InFlight => version # bound

\* Whatever is seen, reported, reviewed or routed, and wherever the loop dies of an
\* exception, the vehicle comes down and its mission ends: nobody hovers for ever
\* for a route nobody asks for.
MissionEnds == Running ~> status \in TaskOver
=============================================================================
