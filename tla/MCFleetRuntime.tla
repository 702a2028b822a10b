--------------------------- MODULE MCFleetRuntime ---------------------------
(* Small fleets for TLC.                                                   *)
EXTENDS FleetRuntime

MCPriorities == {0}
\* No handler; one that hands over or fails; one that postpones or fails; one that
\* postpones or retries.
MCHandlers == {{}, {"fails", "handoff"}, {"later", "fails"}, {"later", "same"}}

MCBind(u, x) == [uav |-> u, target |-> x, priority |-> 0]

\* Two vehicles with a target each; a third id and a third vehicle are spare.
MCTwoPlanned ==
  [a \in Assignments |-> IF a = 1 THEN MCBind(1, "car") ELSE IF a = 2 THEN MCBind(2, "boat")
                         ELSE Unbound]
=============================================================================
