--------------------------- MODULE MCObstacleHold ---------------------------
(* Small missions for TLC.                                                 *)
EXTENDS ObstacleHold

MCSteps == {"up", "go", "route", "route2", "find", "look", "follow", "down"}
MCSkillOf == [up |-> "TAKEOFF", go |-> "GOTO", route |-> "FOLLOW_ROUTE",
              route2 |-> "FOLLOW_ROUTE", find |-> "SEARCH", look |-> "INSPECT", follow |-> "TRACK", down |-> "LAND"]
MCRefOf == [s \in MCSteps |-> IF s = "follow" THEN "find" ELSE "none"]

Mission == <<"up", "go", "find", "follow", "down">>
RouteForGo == <<"up", "route", "find", "follow", "down">>
RouteThenFind == <<"up", "go", "route2", "find", "follow", "down">>
RouteForBoth == <<"up", "route", "route2", "find", "follow", "down">>
Look == <<"up", "go", "find", "look", "follow", "down">>
RouteTwice == <<"up", "route2", "find", "follow", "down">>

MCPlans == {Mission, RouteForGo, RouteThenFind, RouteForBoth, RouteTwice, Look}
MCTasks == {Mission}
\* A route for the GOTO, another one for that, a route in front of the SEARCH, a
\* candidate to inspect.
MCRevisions == {<<Mission, 2, RouteForGo>>, <<RouteForGo, 2, RouteTwice>>,
                <<Mission, 3, RouteThenFind>>, <<RouteForGo, 3, RouteForBoth>>,
                <<Mission, 3, Look>>}
\* What ObstacleEarns assumes of plans and revisions holds of these.
ASSUME MCPlansAssumption == RefsBehind /\ KeepsInspections(MCRevisions)
=============================================================================
