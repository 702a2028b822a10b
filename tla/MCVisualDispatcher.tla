------------------------- MODULE MCVisualDispatcher -------------------------
(***************************************************************************)
(* Small instances of VisualDispatcher.                                    *)
(***************************************************************************)
EXTENDS VisualDispatcher, TLC

CONSTANTS u1, u2

K(u, s, p, c, x) == [uav |-> u, stream |-> s, priority |-> p, control |-> c, replaceable |-> x]

\* Event and periodic reviews of one vehicle, a review that must not be replaced
\* of another, and a replanning call that may preempt.
MCKinds ==
  { K(u1, "review", 3, FALSE, TRUE), K(u1, "review", 4, FALSE, TRUE),
    K(u2, "review", 3, FALSE, FALSE), K(u1, "replan", 1, TRUE, FALSE) }

\* One vehicle, for the run that also checks liveness.
OneVehicle == {k \in MCKinds : k.uav = u1}

\* What Broker and dispatcher still hold; see MCModelRequestBroker.
Held(f, S, none) == [r \in Requests |-> IF r \in S THEN f[r] ELSE none]
VisualView ==
  <<Held(arrival, pending, 0), Held(submittedAt, pending, 0), kind, pending,
    inflight, preempted, logs, now, visualVars>>

Symmetry == Permutations(Requests)
=============================================================================
