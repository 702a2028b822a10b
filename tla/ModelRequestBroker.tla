------------------------- MODULE ModelRequestBroker -------------------------
(***************************************************************************)
(* GlobalModelRequestBroker (fleet/model_request_broker.py): the bounded   *)
(* priority queue through which every model call of the fleet passes.  One *)
(* action is one method call; each runs under the Broker's lock, so it is  *)
(* one step.  A request is in the queue (pending), leased to its owner     *)
(* (inflight), or has a verdict in the log.  A lease whose result has been *)
(* revoked (preempted) keeps its slot until the owner acknowledges the end *)
(* of the real call.                                                       *)
(*                                                                         *)
(* Abstracted: a request's role and assignment are one "stream"; payload,  *)
(* adapters, tokens and latency are left out; where the code breaks a tie  *)
(* by a random id, or picks the longest running of several equally         *)
(* unimportant calls, the model leaves the choice open.                    *)
(***************************************************************************)
EXTENDS Integers, FiniteSets, Sequences

CONSTANTS
  Requests,           \* request ids
  Kinds,              \* the attributes a submitted request may carry
  NoUav,              \* uav_id of a request bound to no vehicle (None)
  NoKind,             \* attributes of an id nobody has submitted
  MaxInflightGlobal,
  MaxInflightPerUav,
  MaxPendingPerUav,
  StarvationTimeout,  \* ticks after which a visual request gains a level
  MaxTime             \* bound on the clock

Priorities == 0..4     \* P0_IMMINENT_COLLISION .. P4_PERIODIC_REVIEW
FleetReplan  == 1
RuntimeReplan == 2
RuntimeReview == 3

Uavs == {k.uav : k \in Kinds}

ASSUME BrokerAssumption ==
  /\ MaxInflightGlobal \in Nat \ {0}
  /\ MaxInflightPerUav \in Nat \ {0}
  /\ MaxPendingPerUav \in Nat \ {0}
  /\ StarvationTimeout \in Nat \ {0}
  /\ MaxTime \in Nat
  /\ NoKind \notin Kinds
  /\ \A k \in Kinds : /\ DOMAIN k = {"uav", "stream", "priority", "control", "replaceable"}
                      /\ k.priority \in Priorities
                      /\ k.control \in BOOLEAN
                      /\ k.replaceable \in BOOLEAN

StaleVerdicts == {"SUPERSEDED", "EVICTED", "PREEMPTED", "CANCELED"}
Verdicts == StaleVerdicts \cup {"COMPLETED", "FAILED"}

VARIABLES
  kind,         \* kind[r]: attributes of r, NoKind while r is unused
  arrival,      \* arrival[r]: place number given to r when it entered the queue
  submittedAt,  \* submittedAt[r]: clock at submission
  pending,      \* _pending
  inflight,     \* keys of _inflight
  preempted,    \* keys of _preempted_inflight
  logs,         \* logs[r]: verdicts recorded for r, oldest first
  now           \* the injected clock

brokerVars == <<kind, arrival, submittedAt, pending, inflight, preempted, logs, now>>

(***************************************************************************)
(* Queries                                                                 *)
(***************************************************************************)

Submitted == {r \in Requests : kind[r] # NoKind}
PendingOf(u) == {r \in pending : kind[r].uav = u}
InflightOf(u) == {r \in inflight : kind[r].uav = u}
Stale(r) == \E i \in DOMAIN logs[r] : logs[r][i] \in StaleVerdicts

\* The members of S of the lowest urgency (the highest priority number).
LeastUrgent(S) == {r \in S : \A q \in S : kind[q].priority <= kind[r].priority}
\* The member of S that entered the queue first, as a set.
Earliest(S) == {r \in S : \A q \in S : arrival[r] <= arrival[q]}

\* The last place taken in queue S (0 when S is empty), as a set.
LastPlace(S) == IF S = {} THEN {0} ELSE {arrival[r] : r \in {m \in S : \A q \in S : arrival[q] <= arrival[m]}}

\* Faults: ageing that crosses the visual band, and no ageing.
EffectivePriorityUnbanded(r) == kind[r].priority - (now - submittedAt[r]) \div StarvationTimeout
EffectivePriorityFixed(r) == kind[r].priority

\* Ageing works inside the visual band only: P4 may rise to P3, never above.
EffectivePriority(r) ==
  LET base == kind[r].priority
      boost == (now - submittedAt[r]) \div StarvationTimeout
  IN  IF base <= RuntimeReplan THEN base
      ELSE IF base - boost > RuntimeReview THEN base - boost ELSE RuntimeReview

\* Fault: the one-control-call rule is missing.
EligibleManyControls(r) ==
  kind[r].uav = NoUav \/ Cardinality(InflightOf(kind[r].uav)) < MaxInflightPerUav

Eligible(r) ==
  \/ kind[r].uav = NoUav
  \/ /\ Cardinality(InflightOf(kind[r].uav)) < MaxInflightPerUav
     /\ kind[r].control => \A q \in InflightOf(kind[r].uav) : ~kind[q].control

EligibleRequests == {r \in pending : Eligible(r)}

\* The requests acquire_next may select: minimal (effective priority,
\* submission time) among the eligible ones; the id decides between equals.
Selectable ==
  {r \in EligibleRequests :
     \A q \in EligibleRequests :
       \/ EffectivePriority(r) < EffectivePriority(q)
       \/ /\ EffectivePriority(r) = EffectivePriority(q)
          /\ submittedAt[r] <= submittedAt[q]}

(***************************************************************************)
(* What a submission of kind k does to the work already there              *)
(***************************************************************************)

\* A newer frame takes the place of the first queued request of its stream
\* that is replaceable and not more urgent than itself.
Superseded(k) ==
  IF k.replaceable
  THEN Earliest({r \in pending : /\ kind[r].replaceable
                                 /\ kind[r].uav = k.uav
                                 /\ kind[r].stream = k.stream
                                 /\ k.priority <= kind[r].priority})
  ELSE {}

QueueAfter(k) == pending \ Superseded(k)
QueuedBeside(k) == {r \in QueueAfter(k) : kind[r].uav = k.uav}
QueueFull(k) == Cardinality(QueuedBeside(k)) >= MaxPendingPerUav
\* Only replaceable work of lower urgency may be evicted; the least urgent
\* goes, and of equals the one submitted first.
Evictable(k) == {r \in QueuedBeside(k) : kind[r].replaceable /\ kind[r].priority > k.priority}
\* The sets of queued requests the submission may evict: one when the queue is
\* full (there is no such set when none may go), otherwise none.
Evictions(k) ==
  IF QueueFull(k) THEN {{v} : v \in Earliest(LeastUrgent(Evictable(k)))} ELSE {{}}

UavBlocked(k) == /\ k.uav # NoUav
                 /\ Cardinality(InflightOf(k.uav) \ preempted) >= MaxInflightPerUav
GlobalBlocked == Cardinality(inflight) - Cardinality(preempted) >= MaxInflightGlobal
Blocked(k) == UavBlocked(k) \/ GlobalBlocked
PreemptScope(k) == IF UavBlocked(k) THEN InflightOf(k.uav) ELSE inflight
\* Fault: preemption takes work that is not replaceable.
PreemptableAny(k) == {r \in PreemptScope(k) \ preempted : kind[r].priority > k.priority}
Preemptable(k) == {r \in PreemptScope(k) \ preempted :
                     kind[r].replaceable /\ kind[r].priority > k.priority}

\* Fault: fleet replanning does not preempt.
RevocationsForCollision(k) ==
  IF k.priority < FleetReplan /\ Blocked(k) /\ Preemptable(k) # {}
  THEN {{v} : v \in LeastUrgent(Preemptable(k))}
  ELSE {{}}

\* The sets of leases a submission of kind k may revoke: for P0 and P1 that
\* find no slot, one of the least urgent calls that may be replaced.  The
\* code loops until nothing is blocked; one revocation always settles it.
Revocations(k) ==
  IF k.priority <= FleetReplan /\ Blocked(k) /\ Preemptable(k) # {}
  THEN {{v} : v \in LeastUrgent(Preemptable(k))}
  ELSE {{}}

(***************************************************************************)
(* Actions                                                                 *)
(***************************************************************************)

Init ==
  /\ kind = [r \in Requests |-> NoKind]
  /\ arrival = [r \in Requests |-> 0]
  /\ submittedAt = [r \in Requests |-> 0]
  /\ pending = {}
  /\ inflight = {}
  /\ preempted = {}
  /\ logs = [r \in Requests |-> <<>>]
  /\ now = 0

\* The ids in S get verdict v; Record is used with disjoint sets only.
Record(l, S, v) == [r \in Requests |-> IF r \in S THEN Append(l[r], v) ELSE l[r]]

\* A request id may be used once: not while it is known, not after its verdict.
Unused(r) == r \notin pending \cup inflight /\ logs[r] = <<>>

\* submit() that queues the request.
SubmitAccepted(r, k) ==
  /\ Unused(r)
  /\ \E evicted \in Evictions(k), revoked \in Revocations(k) :
       /\ pending' = (QueueAfter(k) \ evicted) \cup {r}
       /\ preempted' = preempted \cup revoked
       /\ logs' = Record(Record(Record(logs, Superseded(k), "SUPERSEDED"),
                                evicted, "EVICTED"),
                         revoked, "PREEMPTED")
  /\ \E last \in LastPlace(pending) : arrival' = [arrival EXCEPT ![r] = last + 1]
  /\ kind' = [kind EXCEPT ![r] = k]
  /\ submittedAt' = [submittedAt EXCEPT ![r] = now]
  /\ UNCHANGED <<inflight, now>>

\* submit() that raises "per-UAV pending queue is full"; what it superseded
\* before the check stays superseded.
SubmitRefused(r, k) ==
  /\ Unused(r)
  /\ QueueFull(k) /\ Evictable(k) = {}
  /\ pending' = QueueAfter(k)
  /\ logs' = Record(logs, Superseded(k), "SUPERSEDED")
  /\ UNCHANGED <<kind, arrival, submittedAt, inflight, preempted, now>>

\* acquire_next(request_ids=ids): the choice is made over all owners' requests
\* and the call returns None when the chosen one is not in ids.
Acquire(r, ids) ==
  /\ Cardinality(inflight) < MaxInflightGlobal
  /\ r \in Selectable
  /\ r \in ids
  /\ pending' = pending \ {r}
  /\ inflight' = inflight \cup {r}
  /\ UNCHANGED <<kind, arrival, submittedAt, preempted, logs, now>>

\* Fault: a late answer is recorded again.
CompleteRecordsLate(r, verdict) ==
  /\ r \in inflight
  /\ inflight' = inflight \ {r}
  /\ preempted' = preempted \ {r}
  /\ logs' = Record(logs, {r}, verdict)
  /\ UNCHANGED <<kind, arrival, submittedAt, pending, now>>

\* complete(): the owner acknowledges that the real call has ended.  A revoked
\* call keeps the stale record it already has.
Complete(r, verdict) ==
  /\ r \in inflight
  /\ inflight' = inflight \ {r}
  /\ preempted' = preempted \ {r}
  /\ logs' = IF r \in preempted THEN logs ELSE Record(logs, {r}, verdict)
  /\ UNCHANGED <<kind, arrival, submittedAt, pending, now>>

\* cancel_inflight(): the result is revoked, the slot stays taken.
CancelInflight(r) ==
  /\ r \in inflight
  /\ preempted' = preempted \cup {r}
  /\ logs' = IF r \in preempted THEN logs ELSE Record(logs, {r}, "CANCELED")
  /\ UNCHANGED <<kind, arrival, submittedAt, pending, inflight, now>>

CancelPending(r) ==
  /\ r \in pending
  /\ pending' = pending \ {r}
  /\ logs' = Record(logs, {r}, "CANCELED")
  /\ UNCHANGED <<kind, arrival, submittedAt, inflight, preempted, now>>

Tick ==
  /\ now < MaxTime
  /\ now' = now + 1
  /\ UNCHANGED <<kind, arrival, submittedAt, pending, inflight, preempted, logs>>

Next ==
  \/ \E r \in Requests, k \in Kinds : SubmitAccepted(r, k) \/ SubmitRefused(r, k)
  \/ \E r \in Requests : Acquire(r, Requests)
  \/ \E r \in Requests, v \in {"COMPLETED", "FAILED"} : Complete(r, v)
  \/ \E r \in Requests : CancelInflight(r) \/ CancelPending(r)
  \/ Tick

Spec == Init /\ [][Next]_brokerVars

(***************************************************************************)
(* Properties                                                              *)
(***************************************************************************)

\* Every variable has its type; what the queue, the leases and the revoked
\* leases hold are submitted requests.
TypeOK ==
  /\ kind \in [Requests -> Kinds \cup {NoKind}]
  /\ arrival \in [Requests -> Nat]
  /\ submittedAt \in [Requests -> Nat]
  /\ pending \subseteq Submitted
  /\ inflight \subseteq Submitted
  /\ preempted \subseteq inflight
  /\ logs \in [Requests -> Seq(Verdicts)]
  /\ now \in Nat

\* A request is queued, leased or decided, never two of these, and gets one
\* verdict: a lease has one exactly when it has been revoked.  Hence a late
\* answer to a revoked call can add no second verdict.
OneVerdict ==
  /\ pending \cap inflight = {}
  /\ \A r \in Requests : Len(logs[r]) <= 1
  /\ \A r \in pending \cup (inflight \ preempted) : logs[r] = <<>>
  /\ \A r \in preempted : Stale(r)

\* Model slots are never oversubscribed, revoked calls included: in total, per
\* vehicle, and with at most one control call per vehicle.
LeaseBounds ==
  /\ Cardinality(inflight) <= MaxInflightGlobal
  /\ \A u \in Uavs \ {NoUav} : Cardinality(InflightOf(u)) <= MaxInflightPerUav
  /\ \A r, q \in inflight :
       (kind[r].uav = kind[q].uav /\ kind[r].uav # NoUav /\ kind[r].control /\ kind[q].control)
         => r = q

\* Supersession, eviction and preemption keep every vehicle's queue within its
\* bound, whatever the mix of urgent and replaceable submissions.
PendingBound == \A u \in Uavs : Cardinality(PendingOf(u)) <= MaxPendingPerUav

\* No mix of traffic exceeds a limit, on running or on queued calls.
WithinLimits == LeaseBounds /\ PendingBound

\* r loses its place or its result in this step, not by its owner's cancel.
TakenFrom(r) == /\ ~Stale(r)
                /\ \E i \in DOMAIN logs'[r] : logs'[r][i] \in StaleVerdicts \ {"CANCELED"}

\* Work is taken away only in favour of a request that enters the queue in the
\* same step, that is at least as urgent, and only if it is replaceable; work
\* already running gives way to P0/P1 alone.
TakenOnlyForUrgent ==
  [][\A r \in Requests : TakenFrom(r) =>
       /\ kind[r].replaceable
       /\ \E q \in pending' \ pending :
            /\ kind'[q].priority <= kind[r].priority
            /\ r \in inflight => kind'[q].priority <= FleetReplan]_brokerVars

\* No lease goes to visual work (P3, P4), however long it has aged, while a
\* replanning or collision request that could run is waiting, and no P2 passes
\* a P1 or P0.
NoBypass ==
  [][\A r \in inflight' \ inflight, q \in EligibleRequests :
       kind[q].priority <= RuntimeReplan => kind[r].priority <= kind[q].priority]_brokerVars

\* After an urgent submission either a slot is coming (free, or held by a
\* revoked call only), or nothing that may be revoked still blocks it: the
\* single revocation of Revocations leaves the loop of the code nothing to do.
UrgentSettles ==
  [][\A q \in pending' \ pending :
       kind'[q].priority <= FleetReplan =>
         ~Blocked(kind[q])' \/ Preemptable(kind[q])' = {}]_brokerVars

\* Ageing does give visual work its turn: a review that has waited a starvation
\* timeout and could run is passed by no review submitted after it.
AgedNotPassed ==
  [][\A r \in inflight' \ inflight, q \in EligibleRequests :
       (/\ kind[r].priority >= RuntimeReview /\ kind[q].priority >= RuntimeReview
        /\ now - submittedAt[q] >= StarvationTimeout)
         => submittedAt[r] <= submittedAt[q]]_brokerVars
=============================================================================
