---------------------- MODULE MCModelRequestBroker ----------------------
(***************************************************************************)
(* Small instances of ModelRequestBroker.                                  *)
(***************************************************************************)
EXTENDS ModelRequestBroker, TLC

CONSTANTS u1, u2

K(u, s, p, c, x) == [uav |-> u, stream |-> s, priority |-> p, control |-> c, replaceable |-> x]

\* The traffic of the code: reviews of each vehicle (event P3, periodic P4),
\* replanning text calls (P1, P2), and collision work bound to no vehicle (P0).
MCKinds ==
  { K(u1, "review", 3, FALSE, TRUE), K(u1, "review", 4, FALSE, TRUE),
    K(u1, "replan", 1, TRUE, FALSE), K(u1, "replan", 2, TRUE, FALSE),
    K(u2, "review", 4, FALSE, TRUE), K(NoUav, "collision", 0, TRUE, FALSE) }

\* What the Broker still holds: attributes of queued and leased requests, queue
\* places and submission times of queued ones.  The rest of the functions is
\* history that no action and no property reads.
Held(f, S, none) == [r \in Requests |-> IF r \in S THEN f[r] ELSE none]
BrokerView ==
  <<Held(kind, pending \cup inflight, NoKind), Held(arrival, pending, 0),
    Held(submittedAt, pending, 0), pending, inflight, preempted, logs, now>>

Symmetry == Permutations(Requests)
=============================================================================
