-------------------------- MODULE MCTextTaskRunner --------------------------
(***************************************************************************)
(* Small instances of TextTaskRunner.                                      *)
(***************************************************************************)
EXTENDS TextTaskRunner, TLC

CONSTANTS u1, u2, u3

K(u, s, p, c, x) == [uav |-> u, stream |-> s, priority |-> p, control |-> c, replaceable |-> x]

\* Replanning of two vehicles, in one case submitted as replaceable so that the
\* Broker may take it back (queued or running), and a review.
MCKinds ==
  { K(u1, "replan", 1, TRUE, FALSE), K(u2, "replan", 1, TRUE, FALSE),
    K(u2, "replan", 2, TRUE, TRUE), K(u2, "review", 4, FALSE, TRUE) }

\* Nothing is replaceable, as in production, and only u2 sends reviews.
LiveKinds == { K(u1, "replan", 2, TRUE, FALSE), K(u2, "review", 4, FALSE, TRUE) }

\* Replanning of two vehicles, so that a queued call may stand eligible at the
\* head of the queue behind the one that occupies the runner, and reviews of a
\* third (a hung call takes its own vehicle's only slot for as long as it hangs).
ServiceKinds == LiveKinds \cup { K(u3, "replan", 2, TRUE, FALSE) }

\* What runner and Broker still hold; see MCModelRequestBroker.
Held(f, S, none) == [r \in Requests |-> IF r \in S THEN f[r] ELSE none]
RunnerView ==
  <<Held(arrival, pending, 0), Held(submittedAt, pending, 0), kind, pending,
    inflight, preempted, logs, now, Held(deadline, tasks, 0), tasks, active,
    thread, results, revoked, emitted, closed, pc, polling, delivered>>

Symmetry == Permutations(Requests)
=============================================================================
