------------------------ MODULE MCRecoveryController ------------------------
(* Small fleets for TLC.                                                   *)
EXTENDS RecoveryController

MCFirstHolder == [a \in Assignments |-> a]
MCCorridors == {"east", "west", "north"}
MCFirstRoute == [u \in Uavs |-> CASE u = 1 -> "east" [] u = 2 -> "west" [] OTHER -> NoRoute]
MCMaxFaults == [u \in Uavs |-> IF u = 2 THEN 0 ELSE 1]
MCMaxHandOvers == [a \in Assignments |-> IF a = 1 THEN 2 ELSE 1]
MCRelated == [a \in Assignments |-> IF a = 1 THEN {2} ELSE {}]
=============================================================================
