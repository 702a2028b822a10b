--------------------------- MODULE MCSkillManager ---------------------------
(* Small plans for TLC.                                                     *)
EXTENDS SkillManager

MCSteps == {"up", "go", "route", "around", "find", "find2", "look", "follow", "down"}
MCSkillOf == [up |-> "TAKEOFF", go |-> "GOTO", route |-> "FOLLOW_ROUTE", around |-> "GOTO",
              find |-> "SEARCH", find2 |-> "SEARCH", look |-> "INSPECT", follow |-> "TRACK",
              down |-> "LAND"]
MCRefOf == [s \in MCSteps |-> IF s = "follow" THEN "find" ELSE "none"]

Mission == <<"up", "go", "find", "follow", "down">>
Chain == <<"up", "find2", "find", "follow", "down">>
Look == <<"up", "go", "find", "look", "follow", "down">>
RouteForGo == <<"up", "route", "find", "follow", "down">>
RouteThenFind == <<"up", "go", "route", "find", "follow", "down">>
RouteThenLook == <<"up", "go", "find", "route", "look", "follow", "down">>
AroundThenGo == <<"up", "around", "go", "find", "follow", "down">>
AroundThenFind == <<"up", "go", "around", "find", "follow", "down">>
GiveUpSearch == <<"up", "go", "down">>

RouteInDetour == <<"up", "go", "route", "find", "look", "follow", "down">>

MCPlans == {Mission, Chain, Look, RouteForGo, RouteThenFind, RouteThenLook, RouteInDetour,
            AroundThenGo, AroundThenFind, GiveUpSearch}
MCTasks == {Mission, Chain}
\* The same plan again, an inspection, routes around obstacles, detours of repairs
\* and a shorter mission.
MCRevisions ==
  ({Mission} \X {2, 3, 4} \X {Mission}) \cup ({Chain} \X {2, 3} \X {Chain}) \cup
  {<<Mission, 3, Look>>, <<Mission, 3, GiveUpSearch>>,
   <<Mission, 2, RouteForGo>>, <<Mission, 3, RouteThenFind>>,
   <<Look, 3, RouteInDetour>>, <<Look, 4, RouteThenLook>>,
   <<Mission, 2, AroundThenGo>>, <<Mission, 3, AroundThenFind>>}
\* What SkillManagerEarns assumes of plans and revisions holds of these.
ASSUME MCPlansAssumption == RefsBehind /\ KeepsInspections(MCRevisions)
\* What SkillManagerOwnGoals assumes holds of them without the detours of repairs.
ASSUME MCGoalsAssumption == NoNewGotoFirst({r \in MCRevisions : r[3] \notin {AroundThenGo, AroundThenFind}})

\* A review after the inspection drops the INSPECT from the plan.
MCDropInspect == {<<Mission, 3, Look>>, <<Look, 3, Mission>>}
MCAround == {<<Mission, 3, AroundThenFind>>}
=============================================================================
