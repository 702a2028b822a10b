---------------------- MODULE ModelRequestBrokerProofs ----------------------
(***************************************************************************)
(* Proofs about ModelRequestBroker, for every set of requests and kinds and *)
(* every value of the limits.  The inductive invariant is the conjunction  *)
(* of the type invariant, OneVerdict and the two bounds, with the          *)
(* finiteness of the queue and of the leases, which the bounds need to     *)
(* speak of cardinalities.                                                 *)
(***************************************************************************)
EXTENDS ModelRequestBroker, FiniteSetTheorems, TLAPS

BrokerInv ==
  /\ TypeOK
  /\ OneVerdict
  /\ IsFiniteSet(pending) /\ IsFiniteSet(inflight)
  /\ LeaseBounds
  /\ PendingBound

-----------------------------------------------------------------------------
(* Facts about the operators.                                               *)

\* Record gives the members of S, none of which has a verdict yet, verdict v
\* and leaves the other logs alone.
LEMMA RecordFact ==
  ASSUME NEW l \in [Requests -> Seq(Verdicts)], NEW S, NEW v \in Verdicts,
         \A r \in Requests : r \in S => l[r] = <<>>
  PROVE  /\ Record(l, S, v) \in [Requests -> Seq(Verdicts)]
         /\ \A r \in Requests : Record(l, S, v)[r] = IF r \in S THEN <<v>> ELSE l[r]
<1>1. \A r \in Requests : l[r] \in Seq(Verdicts) /\ Append(l[r], v) \in Seq(Verdicts)
  OBVIOUS
<1>2. \A r \in Requests : l[r] = <<>> => Append(l[r], v) = <<v>>
  OBVIOUS
<1>. QED BY <1>1, <1>2 DEF Record

\* The same for one request.
LEMMA RecordOne ==
  ASSUME NEW l \in [Requests -> Seq(Verdicts)], NEW r \in Requests, NEW v \in Verdicts,
         l[r] = <<>>
  PROVE  /\ Record(l, {r}, v) \in [Requests -> Seq(Verdicts)]
         /\ \A q \in Requests : q # r => Record(l, {r}, v)[q] = l[q]
         /\ Record(l, {r}, v)[r] = <<v>>
<1>1. l[r] \in Seq(Verdicts) /\ Append(l[r], v) = <<v>> /\ <<v>> \in Seq(Verdicts)
  OBVIOUS
<1>2. Record(l, {r}, v) = [l EXCEPT ![r] = <<v>>]
  BY <1>1 DEF Record
<1>. QED BY <1>1, <1>2

\* What a submission supersedes or evicts is queued work, and the two never
\* overlap; what it revokes is a lease not revoked before.
LEMMA TakenFact ==
  ASSUME NEW k
  PROVE  /\ Superseded(k) \subseteq pending
         /\ \A e \in Evictions(k) : e \subseteq QueueAfter(k)
         /\ \A v \in Revocations(k) : v \subseteq inflight \ preempted
BY DEF Superseded, Earliest, LeastUrgent, Evictions, Evictable, QueuedBeside, QueueAfter,
       Revocations, Preemptable, PreemptScope, InflightOf

\* A log with one stale entry has length one and counts as stale.
LEMMA SingleVerdict ==
  \A v \in StaleVerdicts : /\ Len(<<v>>) = 1
                           /\ \E i \in DOMAIN <<v>> : <<v>>[i] \in StaleVerdicts
<1>1. \A v \in StaleVerdicts : Len(<<v>>) = 1 /\ 1 \in DOMAIN <<v>> /\ <<v>>[1] = v
  OBVIOUS
<1>. QED BY <1>1

-----------------------------------------------------------------------------
(* Steps that only take something away.                                     *)

\* A part of a bounded finite set is bounded.
LEMMA SmallerSet ==
  ASSUME NEW S, IsFiniteSet(S), NEW T, T \subseteq S, NEW n \in Nat, Cardinality(S) <= n
  PROVE  Cardinality(T) <= n
<1>1. Cardinality(T) <= Cardinality(S) /\ Cardinality(S) \in Nat /\ Cardinality(T) \in Nat
  BY FS_Subset, FS_CardinalityType
<1>. QED BY <1>1

\* A queue that loses members keeps its bound.
LEMMA PendingShrink ==
  ASSUME IsFiniteSet(pending), PendingBound, kind' = kind, pending' \subseteq pending
  PROVE  PendingBound'
<1> SUFFICES ASSUME NEW u \in Uavs PROVE Cardinality(PendingOf(u)') <= MaxPendingPerUav
  BY DEF PendingBound
<1>1. PendingOf(u)' \subseteq PendingOf(u) /\ IsFiniteSet(PendingOf(u))
  BY FS_Subset DEF PendingOf
<1>2. Cardinality(PendingOf(u)) <= MaxPendingPerUav /\ MaxPendingPerUav \in Nat
  BY BrokerAssumption DEF PendingBound
<1>. QED BY <1>1, <1>2, SmallerSet

\* Leases that lose members keep their bounds.
LEMMA LeaseShrink ==
  ASSUME IsFiniteSet(inflight), LeaseBounds, kind' = kind, inflight' \subseteq inflight
  PROVE  LeaseBounds'
<1>0. MaxInflightGlobal \in Nat /\ MaxInflightPerUav \in Nat
  BY BrokerAssumption
<1>1. Cardinality(inflight') <= MaxInflightGlobal
  BY <1>0, SmallerSet DEF LeaseBounds
<1>2. ASSUME NEW u \in Uavs \ {NoUav} PROVE Cardinality(InflightOf(u)') <= MaxInflightPerUav
  <2>1. InflightOf(u)' \subseteq InflightOf(u) /\ IsFiniteSet(InflightOf(u))
    BY FS_Subset DEF InflightOf
  <2>2. Cardinality(InflightOf(u)) <= MaxInflightPerUav
    BY DEF LeaseBounds
  <2>. QED BY <1>0, <2>1, <2>2, SmallerSet
<1>. QED BY <1>1, <1>2 DEF LeaseBounds

\* Removing undecided work from the queue with a stale verdict keeps the
\* invariant.
LEMMA ShrinkInv ==
  ASSUME BrokerInv, NEW S, NEW v \in StaleVerdicts,
         S \subseteq pending, pending' \subseteq pending, pending' \cap S = {},
         logs' = Record(logs, S, v),
         kind' = kind, arrival' = arrival, submittedAt' = submittedAt,
         inflight' = inflight, preempted' = preempted, now' = now
  PROVE  BrokerInv'
<1> USE DEF BrokerInv
<1>b. /\ logs' \in [Requests -> Seq(Verdicts)]
      /\ \A q \in Requests : logs'[q] = IF q \in S THEN <<v>> ELSE logs[q]
  <2>1. \A q \in Requests : q \in S => logs[q] = <<>>
    BY DEF OneVerdict
  <2>2. logs \in [Requests -> Seq(Verdicts)] /\ v \in Verdicts
    BY DEF TypeOK, Verdicts
  <2>. QED BY <2>1, <2>2, RecordFact
<1>1. TypeOK'
  BY <1>b DEF TypeOK, Submitted
<1>2. OneVerdict'
  <2>1. \A q \in Requests : Len(logs'[q]) <= 1
    <3>0. Len(<<v>>) = 1
      OBVIOUS
    <3>1. \A q \in Requests : Len(logs[q]) <= 1
      BY DEF OneVerdict
    <3> SUFFICES ASSUME NEW q \in Requests PROVE Len(logs'[q]) <= 1
      OBVIOUS
    <3>2. CASE q \in S
      <4>1. logs'[q] = <<v>>
        BY <1>b, <3>2
      <4>. QED BY <3>0, <4>1
    <3>3. CASE q \notin S
      BY <1>b, <3>1, <3>3
    <3>. QED BY <3>2, <3>3
  <2>2. \A q \in pending' \cup inflight' : q \in Requests /\ q \notin S
    BY DEF OneVerdict, TypeOK, Submitted
  <2>3. \A q \in preempted' : q \in Requests /\ q \notin S
    BY DEF OneVerdict, TypeOK, Submitted
  <2>. QED BY <1>b, <2>1, <2>2, <2>3 DEF OneVerdict, Stale
<1>3. IsFiniteSet(pending')
  BY FS_Subset
<1>4. LeaseBounds'
  BY LeaseShrink
<1>5. PendingBound'
  BY PendingShrink
<1>. QED BY <1>1, <1>2, <1>3, <1>4, <1>5

\* A step that changes nothing but the clock keeps the invariant.
LEMMA ClockInv ==
  ASSUME BrokerInv, UNCHANGED <<kind, arrival, submittedAt, pending, inflight, preempted, logs>>,
         now' \in Nat
  PROVE  BrokerInv'
BY DEF BrokerInv, TypeOK, Submitted, OneVerdict, Stale, LeaseBounds, InflightOf,
       PendingBound, PendingOf

-----------------------------------------------------------------------------
(* One lemma per action.                                                    *)

\* The empty Broker satisfies the invariant.
LEMMA InitInv == Init => BrokerInv
<1> SUFFICES ASSUME Init PROVE BrokerInv
  OBVIOUS
<1> USE DEF Init
<1>1. TypeOK
  BY BrokerAssumption DEF TypeOK, Submitted
<1>2. OneVerdict
  BY DEF OneVerdict
<1>3. IsFiniteSet(pending) /\ IsFiniteSet(inflight)
  BY FS_EmptySet
<1>4. LeaseBounds
  <2>1. \A u : InflightOf(u) = {}
    BY DEF InflightOf
  <2>2. \A u : Cardinality(InflightOf(u)) = 0
    BY <2>1, FS_EmptySet
  <2>3. Cardinality(inflight) = 0
    BY FS_EmptySet
  <2>. QED BY <2>2, <2>3, BrokerAssumption DEF LeaseBounds
<1>5. PendingBound
  <2>1. \A u : PendingOf(u) = {}
    BY DEF PendingOf
  <2>2. \A u : Cardinality(PendingOf(u)) = 0
    BY <2>1, FS_EmptySet
  <2>. QED BY <2>2, BrokerAssumption DEF PendingBound
<1>. QED BY <1>1, <1>2, <1>3, <1>4, <1>5 DEF BrokerInv

\* What an accepted submission does to the queue, the leases and the verdicts of
\* other requests: those it takes something from get one stale verdict.
LEMMA SubmitVerdicts ==
  ASSUME BrokerInv, NEW r \in Requests, NEW k \in Kinds, SubmitAccepted(r, k)
  PROVE  \E evicted \in Evictions(k), revoked \in Revocations(k) :
           /\ pending' = (QueueAfter(k) \ evicted) \cup {r}
           /\ preempted' = preempted \cup revoked
           /\ logs' \in [Requests -> Seq(Verdicts)]
           /\ \A q \in Requests :
                \/ logs'[q] = logs[q] /\ q \notin Superseded(k) \cup evicted \cup revoked
                \/ /\ q \in Superseded(k) \cup evicted \cup revoked
                   /\ \E v \in StaleVerdicts : logs'[q] = <<v>>
<1> USE DEF BrokerInv
<1>0. PICK evicted \in Evictions(k), revoked \in Revocations(k) :
        /\ pending' = (QueueAfter(k) \ evicted) \cup {r}
        /\ preempted' = preempted \cup revoked
        /\ logs' = Record(Record(Record(logs, Superseded(k), "SUPERSEDED"),
                                 evicted, "EVICTED"),
                          revoked, "PREEMPTED")
  BY DEF SubmitAccepted
<1>b. /\ Superseded(k) \subseteq pending
      /\ evicted \subseteq pending /\ evicted \cap Superseded(k) = {}
      /\ revoked \subseteq inflight \ preempted
  BY TakenFact DEF QueueAfter
<1>d. PICK s1 \in StaleVerdicts, s2 \in StaleVerdicts, s3 \in StaleVerdicts :
        logs' = Record(Record(Record(logs, Superseded(k), s1), evicted, s2), revoked, s3)
  BY <1>0 DEF StaleVerdicts
<1>e. PICK l1, l2 : /\ l1 = Record(logs, Superseded(k), s1)
                    /\ l2 = Record(l1, evicted, s2)
                    /\ logs' = Record(l2, revoked, s3)
  BY <1>d
<1>t. /\ logs \in [Requests -> Seq(Verdicts)]
      /\ s1 \in Verdicts /\ s2 \in Verdicts /\ s3 \in Verdicts
  BY DEF TypeOK, Verdicts
<1>f. /\ l1 \in [Requests -> Seq(Verdicts)]
      /\ \A q \in Requests : l1[q] = IF q \in Superseded(k) THEN <<s1>> ELSE logs[q]
  <2>1. \A q \in Requests : q \in Superseded(k) => logs[q] = <<>>
    BY <1>b DEF OneVerdict
  <2>. QED BY <1>e, <1>t, <2>1, RecordFact
<1>g. /\ l2 \in [Requests -> Seq(Verdicts)]
      /\ \A q \in Requests : l2[q] = IF q \in evicted THEN <<s2>> ELSE l1[q]
  <2>1. \A q \in Requests : q \in evicted => l1[q] = <<>>
    BY <1>b, <1>f DEF OneVerdict
  <2>2. l1 \in [Requests -> Seq(Verdicts)] /\ s2 \in Verdicts
    BY <1>f, <1>t
  <2>3. /\ Record(l1, evicted, s2) \in [Requests -> Seq(Verdicts)]
        /\ \A q \in Requests : Record(l1, evicted, s2)[q] = IF q \in evicted THEN <<s2>> ELSE l1[q]
    BY <2>1, <2>2, RecordFact
  <2>. QED BY <1>e, <2>3
<1>h. /\ logs' \in [Requests -> Seq(Verdicts)]
      /\ \A q \in Requests : logs'[q] = IF q \in revoked THEN <<s3>> ELSE l2[q]
  <2>1. \A q \in Requests : q \in revoked => l2[q] = <<>>
    BY <1>b, <1>f, <1>g DEF OneVerdict
  <2>2. l2 \in [Requests -> Seq(Verdicts)] /\ s3 \in Verdicts
    BY <1>g, <1>t
  <2>3. /\ Record(l2, revoked, s3) \in [Requests -> Seq(Verdicts)]
        /\ \A q \in Requests : Record(l2, revoked, s3)[q] = IF q \in revoked THEN <<s3>> ELSE l2[q]
    BY <2>1, <2>2, RecordFact
  <2>. QED BY <1>e, <2>3
<1>i. \A q \in Requests :
         \/ logs'[q] = logs[q] /\ q \notin Superseded(k) \cup evicted \cup revoked
         \/ /\ q \in Superseded(k) \cup evicted \cup revoked
            /\ \E v \in StaleVerdicts : logs'[q] = <<v>>
  BY <1>f, <1>g, <1>h
<1>. QED BY <1>0, <1>h, <1>i

\* An accepted submission, with what it supersedes, evicts and revokes, keeps
\* the invariant.
LEMMA SubmitAcceptedInv ==
  ASSUME BrokerInv, NEW r \in Requests, NEW k \in Kinds, SubmitAccepted(r, k)
  PROVE  BrokerInv'
<1> USE DEF BrokerInv
<1>0. PICK evicted \in Evictions(k), revoked \in Revocations(k) :
        /\ pending' = (QueueAfter(k) \ evicted) \cup {r}
        /\ preempted' = preempted \cup revoked
        /\ logs' \in [Requests -> Seq(Verdicts)]
        /\ \A q \in Requests :
             \/ logs'[q] = logs[q] /\ q \notin Superseded(k) \cup evicted \cup revoked
             \/ /\ q \in Superseded(k) \cup evicted \cup revoked
                /\ \E v \in StaleVerdicts : logs'[q] = <<v>>
  BY SubmitVerdicts
<1>a. /\ kind' = [kind EXCEPT ![r] = k]
      /\ inflight' = inflight /\ now' = now
      /\ submittedAt' = [submittedAt EXCEPT ![r] = now]
      /\ r \notin pending /\ r \notin inflight /\ logs[r] = <<>>
  BY DEF SubmitAccepted, Unused
<1>b. /\ Superseded(k) \subseteq pending
      /\ evicted \subseteq pending /\ evicted \cap Superseded(k) = {}
      /\ revoked \subseteq inflight \ preempted
  BY TakenFact DEF QueueAfter
<1>c. /\ k # NoKind
      /\ r \in Submitted'
      /\ \A q \in Requests \ {r} : kind'[q] = kind[q]
      /\ Submitted \subseteq Submitted'
  BY <1>a, BrokerAssumption DEF TypeOK, Submitted
<1>1. TypeOK'
  <2>1. arrival' \in [Requests -> Nat]
    <3>1. PICK last \in LastPlace(pending) : arrival' = [arrival EXCEPT ![r] = last + 1]
      BY DEF SubmitAccepted
    <3>2. last \in Nat
      BY DEF LastPlace, TypeOK, Submitted
    <3>. QED BY <3>1, <3>2 DEF TypeOK
  <2>2. pending' \subseteq Submitted'
    BY <1>0, <1>b, <1>c DEF QueueAfter, TypeOK
  <2>3. inflight' \subseteq Submitted' /\ preempted' \subseteq inflight'
    BY <1>0, <1>a, <1>b, <1>c DEF TypeOK
  <2>. QED BY <1>a, <1>0, <2>1, <2>2, <2>3 DEF TypeOK
<1>2. OneVerdict'
  <2>1. pending' \cap inflight' = {}
    BY <1>0, <1>a DEF QueueAfter, OneVerdict
  <2>2. \A q \in Requests : Len(logs'[q]) <= 1
    <3>1. \A q \in Requests : Len(logs[q]) <= 1
      BY DEF OneVerdict
    <3>2. \A v \in StaleVerdicts : Len(<<v>>) = 1
      OBVIOUS
    <3> SUFFICES ASSUME NEW q \in Requests PROVE Len(logs'[q]) <= 1
      OBVIOUS
    <3>3. CASE logs'[q] = logs[q]
      BY <3>1, <3>3
    <3>4. CASE \E v \in StaleVerdicts : logs'[q] = <<v>>
      BY <3>2, <3>4
    <3>. QED BY <1>0, <3>3, <3>4
  <2>3. \A q \in pending' \cup (inflight' \ preempted') : logs'[q] = <<>>
    BY <1>0, <1>a, <1>b DEF QueueAfter, OneVerdict, TypeOK, Submitted
  <2>4. \A q \in preempted' : \E i \in DOMAIN logs'[q] : logs'[q][i] \in StaleVerdicts
    <3> SUFFICES ASSUME NEW q \in preempted'
                 PROVE  \E i \in DOMAIN logs'[q] : logs'[q][i] \in StaleVerdicts
      OBVIOUS
    <3>1. q \in Requests /\ q \in preempted \cup revoked
      BY <1>0, <1>b DEF TypeOK, Submitted
    <3>2. CASE logs'[q] = logs[q] /\ q \notin revoked
      BY <3>1, <3>2 DEF OneVerdict, Stale
    <3>3. CASE \E v \in StaleVerdicts : logs'[q] = <<v>>
      BY <3>3, SingleVerdict
    <3>. QED BY <1>0, <3>1, <3>2, <3>3
  <2>. QED BY <2>1, <2>2, <2>3, <2>4 DEF OneVerdict, Stale
<1>3. IsFiniteSet(pending') /\ IsFiniteSet(inflight')
  <2>1. IsFiniteSet(QueueAfter(k) \ evicted)
    BY FS_Difference DEF QueueAfter
  <2>. QED BY <1>0, <1>a, <2>1, FS_AddElement
<1>4. LeaseBounds'
  <2>1. \A q \in inflight : kind'[q] = kind[q]
    BY <1>a, <1>c DEF TypeOK, Submitted
  <2>2. \A u : InflightOf(u)' = InflightOf(u)
    BY <1>a, <2>1 DEF InflightOf
  <2>. QED BY <1>a, <2>1, <2>2 DEF LeaseBounds
<1>5. PendingBound'
  <2> SUFFICES ASSUME NEW u \in Uavs PROVE Cardinality(PendingOf(u)') <= MaxPendingPerUav
    BY DEF PendingBound
  <2>1. \A q \in pending : kind'[q] = kind[q]
    BY <1>a, <1>c DEF TypeOK, Submitted
  <2>2. kind'[r] = k
    BY <1>a DEF TypeOK
  <2>3. IsFiniteSet(PendingOf(u)) /\ Cardinality(PendingOf(u)) <= MaxPendingPerUav
    BY FS_Subset DEF PendingOf, PendingBound
  <2>4. CASE u # k.uav
    <3>1. PendingOf(u)' \subseteq PendingOf(u)
      BY <1>0, <2>1, <2>2, <2>4 DEF PendingOf, QueueAfter
    <3>2. /\ Cardinality(PendingOf(u)') <= Cardinality(PendingOf(u))
          /\ Cardinality(PendingOf(u)') \in Nat /\ Cardinality(PendingOf(u)) \in Nat
      BY <2>3, <3>1, FS_Subset, FS_CardinalityType
    <3>. QED BY <2>3, <3>2, BrokerAssumption
  <2>5. CASE u = k.uav
    <3> DEFINE beside == QueuedBeside(k)
    <3>1. PendingOf(u)' = (beside \ evicted) \cup {r}
      BY <1>0, <2>1, <2>2, <2>5 DEF PendingOf, QueueAfter, QueuedBeside
    <3>2. /\ IsFiniteSet(beside) /\ IsFiniteSet(beside \ evicted)
          /\ Cardinality(beside) <= Cardinality(PendingOf(u))
      BY <2>3, <2>5, FS_Subset, FS_Difference DEF QueuedBeside, QueueAfter, PendingOf
    <3>3. Cardinality(PendingOf(u)') <= Cardinality(beside \ evicted) + 1
      <4> HIDE DEF beside
      <4>1. Cardinality((beside \ evicted) \cup {r}) <= Cardinality(beside \ evicted) + 1
        <5>1. Cardinality(beside \ evicted) \in Nat
          BY <3>2, FS_CardinalityType
        <5>2. Cardinality((beside \ evicted) \cup {r}) =
                IF r \in beside \ evicted THEN Cardinality(beside \ evicted)
                                          ELSE Cardinality(beside \ evicted) + 1
          BY <3>2, FS_AddElement
        <5>. QED BY <5>1, <5>2
      <4>. QED BY <3>1, <4>1
    <3>4. Cardinality(beside \ evicted) + 1 <= MaxPendingPerUav
      <4>1. CASE QueueFull(k)
        <5>1. PICK v \in beside : evicted = {v}
          BY <1>0, <4>1 DEF Evictions, Earliest, LeastUrgent, Evictable
        <5>2. Cardinality(beside \ evicted) = Cardinality(beside) - 1
          BY <3>2, <5>1, FS_RemoveElement
        <5>. QED BY <2>3, <3>2, <5>2, FS_CardinalityType, BrokerAssumption
      <4>2. CASE ~QueueFull(k)
        <5>1. evicted = {}
          BY <1>0, <4>2 DEF Evictions
        <5>2. beside \ evicted = beside
          BY <5>1
        <5>3. Cardinality(beside) \in Nat
          BY <3>2, FS_CardinalityType
        <5>4. ~(Cardinality(beside) >= MaxPendingPerUav)
          BY <4>2 DEF QueueFull
        <5>5. MaxPendingPerUav \in Nat
          BY BrokerAssumption
        <5> HIDE DEF beside
        <5>. QED BY <5>2, <5>3, <5>4, <5>5
      <4>. QED BY <4>1, <4>2
    <3>5. Cardinality(PendingOf(u)') \in Nat /\ Cardinality(beside \ evicted) \in Nat
      BY <3>1, <3>2, FS_AddElement, FS_CardinalityType
    <3> HIDE DEF beside
    <3>. QED BY <3>3, <3>4, <3>5, BrokerAssumption
  <2>. QED BY <2>4, <2>5
<1>. QED BY <1>1, <1>2, <1>3, <1>4, <1>5

\* A refused submission keeps the invariant.
LEMMA SubmitRefusedInv ==
  ASSUME BrokerInv, NEW r \in Requests, NEW k \in Kinds, SubmitRefused(r, k)
  PROVE  BrokerInv'
<1> USE DEF BrokerInv
<1>a. /\ pending' = QueueAfter(k) /\ inflight' = inflight /\ preempted' = preempted
      /\ kind' = kind /\ arrival' = arrival /\ submittedAt' = submittedAt /\ now' = now
      /\ logs' = Record(logs, Superseded(k), "SUPERSEDED")
  BY DEF SubmitRefused
<1>b. pending' \subseteq pending /\ Superseded(k) \subseteq pending
      /\ pending' \cap Superseded(k) = {}
  BY <1>a, TakenFact DEF QueueAfter
<1>. QED BY <1>a, <1>b, ShrinkInv DEF StaleVerdicts

\* Canceling queued requests keeps the invariant.
LEMMA CancelPendingInv ==
  ASSUME BrokerInv, NEW r \in Requests, CancelPending(r)
  PROVE  BrokerInv'
<1>1. /\ pending' \subseteq pending /\ {r} \subseteq pending /\ pending' \cap {r} = {}
      /\ kind' = kind /\ arrival' = arrival /\ submittedAt' = submittedAt
      /\ inflight' = inflight /\ preempted' = preempted /\ now' = now
      /\ logs' = Record(logs, {r}, "CANCELED")
  BY DEF CancelPending
<1>. QED BY <1>1, ShrinkInv DEF StaleVerdicts

\* Granting a lease within the limits keeps the invariant.
LEMMA AcquireInv ==
  ASSUME BrokerInv, NEW r \in Requests, NEW ids, Acquire(r, ids)
  PROVE  BrokerInv'
<1> USE DEF BrokerInv
<1>a. /\ pending' = pending \ {r} /\ inflight' = inflight \cup {r} /\ preempted' = preempted
      /\ kind' = kind /\ arrival' = arrival /\ submittedAt' = submittedAt
      /\ logs' = logs /\ now' = now
      /\ r \in pending /\ Eligible(r)
      /\ Cardinality(inflight) < MaxInflightGlobal
  BY DEF Acquire, Selectable, EligibleRequests
<1>b. r \notin inflight
  BY <1>a DEF OneVerdict
<1>1. TypeOK'
  BY <1>a DEF TypeOK, Submitted
<1>2. OneVerdict'
  BY <1>a, <1>b DEF OneVerdict, Stale, TypeOK
<1>3. IsFiniteSet(pending') /\ IsFiniteSet(inflight')
  BY <1>a, FS_RemoveElement, FS_AddElement
<1>4. LeaseBounds'
  <2>0. MaxInflightGlobal \in Nat /\ MaxInflightPerUav \in Nat
    BY BrokerAssumption
  <2>1. Cardinality(inflight') <= MaxInflightGlobal
    <3>1. Cardinality(inflight') = Cardinality(inflight) + 1 /\ Cardinality(inflight) \in Nat
      BY <1>a, <1>b, FS_AddElement, FS_CardinalityType
    <3>. QED BY <1>a, <2>0, <3>1
  <2>2. ASSUME NEW u \in Uavs \ {NoUav}
        PROVE  Cardinality(InflightOf(u)') <= MaxInflightPerUav
    <3>1. Cardinality(InflightOf(u)) <= MaxInflightPerUav
      BY DEF LeaseBounds
    <3>2. IsFiniteSet(InflightOf(u)) /\ Cardinality(InflightOf(u)) \in Nat
      BY FS_Subset, FS_CardinalityType DEF InflightOf
    <3>3. CASE kind[r].uav = u
      <4>1. Cardinality(InflightOf(u)) < MaxInflightPerUav
        BY <1>a, <3>3 DEF Eligible
      <4>2. InflightOf(u)' = InflightOf(u) \cup {r} /\ r \notin InflightOf(u)
        BY <1>a, <1>b, <3>3 DEF InflightOf
      <4>3. Cardinality(InflightOf(u)') = Cardinality(InflightOf(u)) + 1
        BY <3>2, <4>2, FS_AddElement
      <4>. QED BY <2>0, <3>2, <4>1, <4>3
    <3>4. CASE kind[r].uav # u
      <4>1. InflightOf(u)' = InflightOf(u)
        BY <1>a, <3>4 DEF InflightOf
      <4>. QED BY <3>1, <4>1
    <3>. QED BY <3>3, <3>4
  <2>3. ASSUME NEW p \in inflight', NEW q \in inflight',
               kind[p].uav = kind[q].uav, kind[p].uav # NoUav,
               kind[p].control, kind[q].control
        PROVE  p = q
    <3>1. CASE p \in inflight /\ q \in inflight
      BY <2>3, <3>1 DEF LeaseBounds
    <3>2. CASE p = r /\ q \in inflight
      BY <1>a, <2>3, <3>2 DEF Eligible, InflightOf
    <3>3. CASE q = r /\ p \in inflight
      BY <1>a, <2>3, <3>3 DEF Eligible, InflightOf
    <3>. QED BY <1>a, <3>1, <3>2, <3>3
  <2>. QED BY <1>a, <2>1, <2>2, <2>3 DEF LeaseBounds
<1>5. PendingBound'
  BY <1>a, PendingShrink
<1>. QED BY <1>1, <1>2, <1>3, <1>4, <1>5

\* Ending a lease, with whatever verdict, keeps the invariant.
LEMMA CompleteInv ==
  ASSUME BrokerInv, NEW r \in Requests, NEW v \in Verdicts, Complete(r, v)
  PROVE  BrokerInv'
<1> USE DEF BrokerInv
<1>a. /\ inflight' = inflight \ {r} /\ preempted' = preempted \ {r}
      /\ logs' = IF r \in preempted THEN logs ELSE Record(logs, {r}, v)
      /\ kind' = kind /\ arrival' = arrival /\ submittedAt' = submittedAt
      /\ pending' = pending /\ now' = now
      /\ r \in inflight
  BY DEF Complete
<1>b. /\ logs' \in [Requests -> Seq(Verdicts)]
      /\ \A q \in Requests : q # r => logs'[q] = logs[q]
      /\ logs'[r] = IF r \in preempted THEN logs[r] ELSE <<v>>
  <2>1. CASE r \in preempted
    BY <1>a, <2>1 DEF TypeOK
  <2>2. CASE r \notin preempted
    <3>1. logs[r] = <<>>
      BY <1>a, <2>2 DEF OneVerdict
    <3>2. logs \in [Requests -> Seq(Verdicts)]
      BY DEF TypeOK
    <3>3. /\ Record(logs, {r}, v) \in [Requests -> Seq(Verdicts)]
          /\ \A q \in Requests : q # r => Record(logs, {r}, v)[q] = logs[q]
          /\ Record(logs, {r}, v)[r] = <<v>>
      BY <3>1, <3>2, RecordOne
    <3>. QED BY <1>a, <2>2, <3>3
  <2>. QED BY <2>1, <2>2
<1>1. TypeOK'
  BY <1>a, <1>b DEF TypeOK, Submitted
<1>2. OneVerdict'
  <2>1. \A q \in Requests : Len(logs'[q]) <= 1
    <3>1. Len(<<v>>) = 1
      OBVIOUS
    <3>2. \A q \in Requests : Len(logs[q]) <= 1
      BY DEF OneVerdict
    <3>3. Len(logs'[r]) <= 1
      <4>1. CASE r \in preempted
        BY <1>b, <3>2, <4>1
      <4>2. CASE r \notin preempted
        BY <1>b, <3>1, <4>2
      <4>. QED BY <4>1, <4>2
    <3>. QED BY <1>b, <3>2, <3>3
  <2>2. \A q \in pending' \cup (inflight' \ preempted') : q # r /\ q \in Requests
    BY <1>a DEF OneVerdict, TypeOK, Submitted
  <2>3. \A q \in preempted' : q # r /\ q \in Requests
    BY <1>a DEF TypeOK, Submitted
  <2>. QED BY <1>a, <1>b, <2>1, <2>2, <2>3 DEF OneVerdict, Stale
<1>3. IsFiniteSet(pending') /\ IsFiniteSet(inflight')
  BY <1>a, FS_RemoveElement
<1>4. LeaseBounds'
  BY <1>a, LeaseShrink
<1>5. PendingBound'
  BY <1>a DEF PendingBound, PendingOf
<1>. QED BY <1>1, <1>2, <1>3, <1>4, <1>5

\* Revoking leases keeps the invariant.
LEMMA CancelInflightInv ==
  ASSUME BrokerInv, NEW r \in Requests, CancelInflight(r)
  PROVE  BrokerInv'
<1> USE DEF BrokerInv
<1>a. /\ preempted' = preempted \cup {r}
      /\ logs' = IF r \in preempted THEN logs ELSE Record(logs, {r}, "CANCELED")
      /\ kind' = kind /\ arrival' = arrival /\ submittedAt' = submittedAt
      /\ pending' = pending /\ inflight' = inflight /\ now' = now
      /\ r \in inflight
  BY DEF CancelInflight
<1>1. CASE r \in preempted
  <2>1. preempted' = preempted /\ logs' = logs /\ now' \in Nat
    BY <1>a, <1>1 DEF TypeOK
  <2>. QED BY <1>a, <2>1, ClockInv
<1>2. CASE r \notin preempted
  <2>b. /\ logs' \in [Requests -> Seq(Verdicts)]
        /\ \A q \in Requests : q # r => logs'[q] = logs[q]
        /\ \E v \in StaleVerdicts : logs'[r] = <<v>>
    <3>1. logs[r] = <<>>
      BY <1>a, <1>2 DEF OneVerdict
    <3>2. logs \in [Requests -> Seq(Verdicts)]
      BY DEF TypeOK
    <3>3. PICK v \in StaleVerdicts : logs' = Record(logs, {r}, v)
      BY <1>a, <1>2 DEF StaleVerdicts
    <3>4. v \in Verdicts
      BY DEF Verdicts
    <3>5. /\ Record(logs, {r}, v) \in [Requests -> Seq(Verdicts)]
          /\ \A q \in Requests : q # r => Record(logs, {r}, v)[q] = logs[q]
          /\ Record(logs, {r}, v)[r] = <<v>>
      BY <3>1, <3>2, <3>4, RecordOne
    <3>. QED BY <3>3, <3>5
  <2>1. TypeOK'
    BY <1>a, <2>b DEF TypeOK, Submitted
  <2>2. OneVerdict'
    <3>1. \A q \in Requests : Len(logs'[q]) <= 1
      <4>1. \A q \in Requests : Len(logs[q]) <= 1
        BY DEF OneVerdict
      <4>2. Len(logs'[r]) <= 1
        BY <2>b, SingleVerdict
      <4>. QED BY <2>b, <4>1, <4>2
    <3>2. \E i \in DOMAIN logs'[r] : logs'[r][i] \in StaleVerdicts
      BY <2>b, SingleVerdict
    <3>3. \A q \in pending' \cup (inflight' \ preempted') : q \in Requests /\ q # r
      BY <1>a DEF OneVerdict, TypeOK, Submitted
    <3>4. \A q \in preempted' : q \in Requests
      BY <1>a DEF TypeOK, Submitted
    <3>. QED BY <1>a, <2>b, <3>1, <3>2, <3>3, <3>4 DEF OneVerdict, Stale
  <2>3. LeaseBounds'
    BY <1>a, LeaseShrink
  <2>4. PendingBound'
    BY <1>a, PendingShrink
  <2>. QED BY <1>a, <2>1, <2>2, <2>3, <2>4
<1>. QED BY <1>1, <1>2

-----------------------------------------------------------------------------
(* The theorems.                                                            *)

\* Every step of the Broker keeps the invariant.
LEMMA NextInv == BrokerInv /\ [Next]_brokerVars => BrokerInv'
<1> SUFFICES ASSUME BrokerInv, [Next]_brokerVars PROVE BrokerInv'
  OBVIOUS
<1>1. ASSUME NEW r \in Requests, NEW k \in Kinds, SubmitAccepted(r, k) \/ SubmitRefused(r, k)
      PROVE  BrokerInv'
  BY <1>1, SubmitAcceptedInv, SubmitRefusedInv
<1>2. ASSUME NEW r \in Requests, Acquire(r, Requests) PROVE BrokerInv'
  BY <1>2, AcquireInv
<1>3. ASSUME NEW r \in Requests, NEW v \in {"COMPLETED", "FAILED"}, Complete(r, v)
      PROVE  BrokerInv'
  BY <1>3, CompleteInv DEF Verdicts
<1>4. ASSUME NEW r \in Requests, CancelInflight(r) \/ CancelPending(r) PROVE BrokerInv'
  BY <1>4, CancelInflightInv, CancelPendingInv
<1>5. CASE Tick
  BY <1>5, ClockInv DEF Tick, BrokerInv, TypeOK
<1>6. CASE UNCHANGED brokerVars
  BY <1>6, ClockInv DEF brokerVars, BrokerInv, TypeOK
<1>. QED BY <1>1, <1>2, <1>3, <1>4, <1>5, <1>6 DEF Next

\* The Broker never leaves its types.
THEOREM BrokerTypeCorrect == Spec => []TypeOK
<1>1. BrokerInv => TypeOK
  BY DEF BrokerInv
<1>. QED BY <1>1, InitInv, NextInv, PTL DEF Spec

\* No request ever gets two verdicts: what was revoked, superseded or evicted
\* can no longer complete, whenever its late answer arrives.
THEOREM BrokerOneVerdict == Spec => []OneVerdict
<1>1. BrokerInv => OneVerdict
  BY DEF BrokerInv
<1>. QED BY <1>1, InitInv, NextInv, PTL DEF Spec

\* The leases stay within the global limit, the limit of each vehicle, and one
\* control call per vehicle, and the queue of each vehicle within its bound, for
\* any traffic.
THEOREM BrokerWithinLimits == Spec => []WithinLimits
<1>1. BrokerInv => WithinLimits
  BY DEF BrokerInv, WithinLimits
<1>. QED BY <1>1, InitInv, NextInv, PTL DEF Spec
-----------------------------------------------------------------------------
(* Urgency.  The properties of single steps rest on BrokerInv too: that a   *)
(* refused submission takes nothing away is a matter of the queue's bound,  *)
(* that one revocation is enough a matter of the leases'.                   *)

LEMMA BrokerInductive == Spec => []BrokerInv
BY InitInv, NextInv, PTL DEF Spec

\* Only acquire_next() grants a lease.
LEMMA NewLease ==
  ASSUME [Next]_brokerVars, NEW r \in inflight' \ inflight
  PROVE  /\ Acquire(r, Requests) /\ r \in EligibleRequests
         /\ \A q \in EligibleRequests :
              \/ EffectivePriority(r) < EffectivePriority(q)
              \/ /\ EffectivePriority(r) = EffectivePriority(q)
                 /\ submittedAt[r] <= submittedAt[q]
<1>1. PICK x \in Requests : Acquire(x, Requests)
  BY DEF Next, SubmitAccepted, SubmitRefused, Complete, CancelInflight, CancelPending, Tick, brokerVars
<1>2. x = r
  BY <1>1 DEF Acquire
<1>. QED BY <1>1, <1>2 DEF Acquire, Selectable

\* Ageing keeps a queued request in its band.
LEMMA BandFact ==
  ASSUME BrokerInv, NEW r \in pending
  PROVE  /\ kind[r].priority \in Priorities
         /\ kind[r].priority <= RuntimeReplan => EffectivePriority(r) = kind[r].priority
         /\ kind[r].priority > RuntimeReplan =>
              EffectivePriority(r) \in Int /\ EffectivePriority(r) >= RuntimeReview
<1>1. kind[r] \in Kinds /\ submittedAt[r] \in Nat /\ now \in Nat
  BY DEF BrokerInv, TypeOK, Submitted
<1>2. kind[r].priority \in Priorities
  BY <1>1, BrokerAssumption
<1>3. (now - submittedAt[r]) \div StarvationTimeout \in Int
  BY <1>1, BrokerAssumption
<1>. QED BY <1>1, <1>2, <1>3 DEF EffectivePriority, Priorities, RuntimeReplan, RuntimeReview

\* No lease goes past a request of a more urgent band.
THEOREM BrokerNoBypass == Spec => NoBypass
<1>1. ASSUME BrokerInv, [Next]_brokerVars, NEW r \in inflight' \ inflight, NEW q \in EligibleRequests,
             kind[q].priority <= RuntimeReplan
      PROVE  kind[r].priority <= kind[q].priority
  <2>1. r \in EligibleRequests /\ EffectivePriority(r) <= EffectivePriority(q)
    <3>1. r \in EligibleRequests /\ (EffectivePriority(r) < EffectivePriority(q)
                                     \/ EffectivePriority(r) = EffectivePriority(q))
      BY <1>1, NewLease
    <3>2. r \in pending /\ q \in pending
      BY <1>1, <3>1 DEF EligibleRequests
    <3>3. EffectivePriority(r) \in Int /\ EffectivePriority(q) \in Int
      BY <1>1, <3>2, BandFact DEF Priorities, RuntimeReplan
    <3>. QED BY <3>1, <3>3
  <2>2. r \in pending /\ q \in pending
    BY <2>1 DEF EligibleRequests
  <2>. QED BY <1>1, <2>1, <2>2, BandFact DEF Priorities, RuntimeReplan, RuntimeReview
<1>2. BrokerInv /\ [Next]_brokerVars =>
        \A r \in inflight' \ inflight, q \in EligibleRequests :
          kind[q].priority <= RuntimeReplan => kind[r].priority <= kind[q].priority
  BY <1>1
<1>. QED BY <1>2, BrokerInductive, PTL DEF Spec, NoBypass

\* A review that has waited a starvation timeout is at the top of its band.
LEMMA AgedFact ==
  ASSUME BrokerInv, NEW q \in pending, kind[q].priority >= RuntimeReview,
         now - submittedAt[q] >= StarvationTimeout
  PROVE  EffectivePriority(q) = RuntimeReview
<1>1. kind[q] \in Kinds /\ submittedAt[q] \in Nat /\ now \in Nat
  BY DEF BrokerInv, TypeOK, Submitted
<1>2. kind[q].priority \in {3, 4}
  BY <1>1, BrokerAssumption DEF Priorities, RuntimeReview
<1>3. (now - submittedAt[q]) \div StarvationTimeout \in Int
      /\ (now - submittedAt[q]) \div StarvationTimeout >= 1
  BY <1>1, BrokerAssumption
<1>. QED BY <1>2, <1>3 DEF EffectivePriority, RuntimeReplan, RuntimeReview

\* Ageing gives visual work its turn.
THEOREM BrokerAgedNotPassed == Spec => AgedNotPassed
<1>1. ASSUME BrokerInv, [Next]_brokerVars, NEW r \in inflight' \ inflight, NEW q \in EligibleRequests,
             kind[r].priority >= RuntimeReview, kind[q].priority >= RuntimeReview,
             now - submittedAt[q] >= StarvationTimeout
      PROVE  submittedAt[r] <= submittedAt[q]
  <2>1. /\ r \in EligibleRequests
        /\ EffectivePriority(r) < EffectivePriority(q) \/ submittedAt[r] <= submittedAt[q]
    BY <1>1, NewLease
  <2>2. r \in pending /\ q \in pending
    BY <1>1, <2>1 DEF EligibleRequests
  <2>3. EffectivePriority(q) = RuntimeReview
    BY <1>1, <2>2, AgedFact
  <2>4. EffectivePriority(r) \in Int /\ EffectivePriority(r) >= RuntimeReview
    BY <1>1, <2>2, BandFact DEF Priorities, RuntimeReplan, RuntimeReview
  <2>. QED BY <2>1, <2>3, <2>4 DEF RuntimeReview
<1>2. BrokerInv /\ [Next]_brokerVars =>
        \A r \in inflight' \ inflight, q \in EligibleRequests :
          (/\ kind[r].priority >= RuntimeReview /\ kind[q].priority >= RuntimeReview
           /\ now - submittedAt[q] >= StarvationTimeout)
            => submittedAt[r] <= submittedAt[q]
  BY <1>1
<1>. QED BY <1>2, BrokerInductive, PTL DEF Spec, AgedNotPassed
\* A refusal supersedes nothing: the frame that would have gone made room.
LEMMA RefusedTakesNothing ==
  ASSUME BrokerInv, NEW r \in Requests, NEW k \in Kinds, SubmitRefused(r, k)
  PROVE  Superseded(k) = {}
<1> SUFFICES ASSUME NEW s \in Superseded(k) PROVE FALSE
  OBVIOUS
<1>1. s \in pending /\ kind[s].uav = k.uav /\ k.uav \in Uavs
  BY DEF Superseded, Earliest, Uavs
<1>2. IsFiniteSet(PendingOf(k.uav)) /\ Cardinality(PendingOf(k.uav)) <= MaxPendingPerUav
      /\ s \in PendingOf(k.uav)
  BY <1>1, FS_Subset DEF PendingOf, BrokerInv, PendingBound
<1>3. /\ IsFiniteSet(PendingOf(k.uav) \ {s})
      /\ Cardinality(PendingOf(k.uav) \ {s}) = Cardinality(PendingOf(k.uav)) - 1
  BY <1>2, FS_RemoveElement
<1>4. QueuedBeside(k) \subseteq PendingOf(k.uav) \ {s}
  BY DEF QueuedBeside, QueueAfter, PendingOf
<1>5. Cardinality(QueuedBeside(k)) <= Cardinality(PendingOf(k.uav) \ {s})
      /\ Cardinality(QueuedBeside(k)) \in Nat /\ Cardinality(PendingOf(k.uav)) \in Nat
  BY <1>2, <1>3, <1>4, FS_Subset, FS_CardinalityType
<1>6. Cardinality(QueuedBeside(k)) >= MaxPendingPerUav
  BY DEF SubmitRefused, QueueFull
<1>. QED BY <1>2, <1>3, <1>5, <1>6, BrokerAssumption

\* What an accepted submission takes it takes from replaceable work that is not
\* more urgent, and from running work for replanning and collisions only.
LEMMA TakenIsReplaceable ==
  ASSUME BrokerInv, NEW k \in Kinds, NEW e \in Evictions(k), NEW v \in Revocations(k),
         NEW q \in Superseded(k) \cup e \cup v
  PROVE  /\ kind[q].replaceable /\ k.priority <= kind[q].priority
         /\ q \in inflight => k.priority <= FleetReplan
<1>0. pending \cap inflight = {} /\ k.priority \in Priorities
      /\ \A p \in pending \cup inflight : kind[p].priority \in Priorities
  BY BrokerAssumption DEF BrokerInv, OneVerdict, TypeOK, Submitted
<1>1. CASE q \in Superseded(k)
  BY <1>0, <1>1 DEF Superseded, Earliest
<1>2. CASE q \in e
  <2>1. q \in Evictable(k) /\ q \in pending
    BY <1>2, TakenFact DEF Evictions, Earliest, LeastUrgent, QueueAfter
  <2>. QED BY <1>0, <2>1 DEF Evictable, Priorities
<1>3. CASE q \in v
  <2>1. q \in Preemptable(k) /\ q \in inflight /\ k.priority <= FleetReplan
    BY <1>3, TakenFact DEF Revocations, LeastUrgent
  <2>. QED BY <1>0, <2>1 DEF Preemptable, Priorities
<1>. QED BY <1>1, <1>2, <1>3

\* What one verdict for r says of what has been taken.
LEMMA OneRecordTakes ==
  ASSUME BrokerInv, NEW r \in Requests, NEW v \in {"COMPLETED", "FAILED", "CANCELED"},
         logs[r] = <<>>, logs' = Record(logs, {r}, v), NEW q \in Requests
  PROVE  ~TakenFrom(q)
<1>1. logs \in [Requests -> Seq(Verdicts)] /\ v \in Verdicts
  BY DEF BrokerInv, TypeOK, Verdicts, StaleVerdicts
<1>2. logs'[r] = <<v>> /\ \A x \in Requests : x # r => logs'[x] = logs[x]
  BY <1>1, RecordOne
<1>3. DOMAIN <<v>> = {1} /\ <<v>>[1] = v /\ v \notin StaleVerdicts \ {"CANCELED"}
  BY DEF StaleVerdicts
<1>4. CASE q = r
  BY <1>2, <1>3, <1>4 DEF TakenFrom
<1>5. CASE q # r
  BY <1>2, <1>5 DEF TakenFrom, Stale
<1>. QED BY <1>4, <1>5

\* Work is taken away only for a request at least as urgent that enters the
\* queue in the same step, only if replaceable, and running work only for
\* replanning and collisions.
THEOREM BrokerTakenOnlyForUrgent == Spec => TakenOnlyForUrgent
<1> DEFINE Fair(r) == /\ kind[r].replaceable
                      /\ \E q \in pending' \ pending :
                           /\ kind'[q].priority <= kind[r].priority
                           /\ r \in inflight => kind'[q].priority <= FleetReplan
<1>1. ASSUME BrokerInv, [Next]_brokerVars, NEW r \in Requests, TakenFrom(r)
      PROVE  Fair(r)
  <2>0. logs' # logs
    BY <1>1 DEF TakenFrom, Stale
  <2>1. ASSUME NEW x \in Requests, NEW k \in Kinds, SubmitAccepted(x, k) PROVE Fair(r)
    <3>1. PICK e \in Evictions(k), v \in Revocations(k) :
            /\ pending' = (QueueAfter(k) \ e) \cup {x}
            /\ \A q \in Requests :
                 \/ logs'[q] = logs[q] /\ q \notin Superseded(k) \cup e \cup v
                 \/ q \in Superseded(k) \cup e \cup v
      BY <1>1, <2>1, SubmitVerdicts
    <3>2. logs'[r] # logs[r]
      BY <1>1 DEF TakenFrom, Stale
    <3>3. r \in Superseded(k) \cup e \cup v
      BY <3>1, <3>2
    <3>4. kind[r].replaceable /\ k.priority <= kind[r].priority /\ (r \in inflight => k.priority <= FleetReplan)
      BY <1>1, <3>3, TakenIsReplaceable
    <3>5. x \in pending' \ pending /\ kind'[x] = k
      BY <1>1, <2>1, <3>1 DEF SubmitAccepted, Unused, BrokerInv, TypeOK
    <3>. QED BY <3>4, <3>5
  <2>2. ASSUME NEW x \in Requests, NEW k \in Kinds, SubmitRefused(x, k) PROVE FALSE
    <3>1. logs' = Record(logs, {}, "SUPERSEDED")
      BY <1>1, <2>2, RefusedTakesNothing DEF SubmitRefused
    <3>2. logs \in [Requests -> Seq(Verdicts)]
      BY <1>1 DEF BrokerInv, TypeOK
    <3>. QED BY <2>0, <3>1, <3>2 DEF Record
  <2>3. ASSUME NEW x \in Requests, Acquire(x, Requests) \/ Tick \/ UNCHANGED brokerVars PROVE FALSE
    BY <2>0, <2>3 DEF Acquire, Tick, brokerVars
  <2>4. ASSUME NEW x \in Requests, NEW v \in {"COMPLETED", "FAILED"}, Complete(x, v) PROVE FALSE
    <3>1. x \notin preempted /\ x \in inflight /\ logs' = Record(logs, {x}, v)
      BY <2>0, <2>4 DEF Complete
    <3>2. logs[x] = <<>>
      BY <1>1, <3>1 DEF BrokerInv, OneVerdict
    <3>. QED BY <1>1, <3>1, <3>2, OneRecordTakes
  <2>5. ASSUME NEW x \in Requests, CancelInflight(x) \/ CancelPending(x) PROVE FALSE
    <3>1. /\ x \in pending \cup (inflight \ preempted)
          /\ logs' = Record(logs, {x}, "CANCELED")
      BY <2>0, <2>5 DEF CancelInflight, CancelPending
    <3>2. logs[x] = <<>>
      BY <1>1, <3>1 DEF BrokerInv, OneVerdict
    <3>. QED BY <1>1, <3>1, <3>2, OneRecordTakes
  <2>. QED BY <1>1, <2>1, <2>2, <2>3, <2>4, <2>5 DEF Next
<1>2. BrokerInv /\ [Next]_brokerVars =>
        \A r \in Requests : TakenFrom(r) =>
          /\ kind[r].replaceable
          /\ \E q \in pending' \ pending :
               /\ kind'[q].priority <= kind[r].priority
               /\ r \in inflight => kind'[q].priority <= FleetReplan
  BY <1>1
<1>. QED BY <1>2, BrokerInductive, PTL DEF Spec, TakenOnlyForUrgent
\* One more member taken out of a finite set.
LEMMA OneLess ==
  ASSUME NEW S, IsFiniteSet(S), NEW P, NEW v \in S \ P
  PROVE  Cardinality(S \ (P \cup {v})) = Cardinality(S \ P) - 1
<1>1. IsFiniteSet(S \ P) /\ S \ (P \cup {v}) = (S \ P) \ {v}
  BY FS_Subset
<1>2. Cardinality((S \ P) \ {v}) = Cardinality(S \ P) - 1
  BY <1>1, FS_RemoveElement
<1>. QED BY <1>1, <1>2

\* An urgent submission that found no slot and revoked a call has freed one:
\* the loop of the code has nothing left to do.
LEMMA OneRevocationFrees ==
  ASSUME BrokerInv, NEW k \in Kinds, NEW v \in inflight \ preempted,
         UavBlocked(k) => v \in InflightOf(k.uav)
  PROVE  /\ k.uav # NoUav =>
              Cardinality(InflightOf(k.uav) \ (preempted \cup {v})) < MaxInflightPerUav
         /\ Cardinality(inflight) - Cardinality(preempted \cup {v}) < MaxInflightGlobal
<1>0. /\ IsFiniteSet(inflight) /\ preempted \subseteq inflight /\ IsFiniteSet(preempted)
      /\ Cardinality(inflight) <= MaxInflightGlobal
      /\ MaxInflightGlobal \in Nat /\ MaxInflightPerUav \in Nat
      /\ k.uav # NoUav => Cardinality(InflightOf(k.uav)) <= MaxInflightPerUav
  BY FS_Subset, BrokerAssumption DEF BrokerInv, TypeOK, LeaseBounds, Uavs
<1>1. Cardinality(inflight) - Cardinality(preempted \cup {v}) < MaxInflightGlobal
  <2>1. Cardinality(preempted \cup {v}) = Cardinality(preempted) + 1
    BY <1>0, FS_AddElement
  <2>2. Cardinality(preempted) \in Nat /\ Cardinality(inflight) \in Nat
    BY <1>0, FS_CardinalityType
  <2>. QED BY <1>0, <2>1, <2>2
<1>2. ASSUME k.uav # NoUav
      PROVE  Cardinality(InflightOf(k.uav) \ (preempted \cup {v})) < MaxInflightPerUav
  <2> DEFINE I == InflightOf(k.uav)
  <2>1. IsFiniteSet(I) /\ IsFiniteSet(I \ preempted)
    BY <1>0, FS_Subset DEF InflightOf
  <2>2. Cardinality(I \ preempted) <= Cardinality(I) /\ Cardinality(I \ preempted) \in Nat
        /\ Cardinality(I) \in Nat
    BY <2>1, FS_Subset, FS_CardinalityType
  <2>3. CASE UavBlocked(k)
    <3>1. Cardinality(I \ (preempted \cup {v})) = Cardinality(I \ preempted) - 1
      BY <2>1, <2>3, OneLess
    <3>. QED BY <1>0, <1>2, <2>2, <3>1
  <2>4. CASE ~UavBlocked(k)
    <3>1. Cardinality(I \ preempted) < MaxInflightPerUav
      BY <1>0, <1>2, <2>2, <2>4 DEF UavBlocked
    <3>2. Cardinality(I \ (preempted \cup {v})) <= Cardinality(I \ preempted)
          /\ Cardinality(I \ (preempted \cup {v})) \in Nat
      BY <2>1, FS_Subset, FS_CardinalityType
    <3>. QED BY <1>0, <2>2, <3>1, <3>2
  <2>. QED BY <2>3, <2>4
<1>. QED BY <1>1, <1>2

\* Only a submission brings a request into the queue.
LEMMA NewPending ==
  ASSUME [Next]_brokerVars, NEW q \in pending' \ pending
  PROVE  \E k \in Kinds : q \in Requests /\ SubmitAccepted(q, k)
<1>1. PICK r \in Requests, k \in Kinds : SubmitAccepted(r, k)
  BY DEF Next, SubmitRefused, QueueAfter, Acquire, Complete, CancelInflight, CancelPending, Tick, brokerVars
<1>2. q = r
  BY <1>1, TakenFact DEF SubmitAccepted, QueueAfter
<1>. QED BY <1>1, <1>2

\* After an urgent submission either a slot is coming or nothing that may be
\* revoked still blocks it.
THEOREM BrokerUrgentSettles == Spec => UrgentSettles
<1>1. ASSUME BrokerInv, [Next]_brokerVars, NEW q \in pending' \ pending, kind'[q].priority <= FleetReplan
      PROVE  ~Blocked(kind[q])' \/ Preemptable(kind[q])' = {}
  <2>1. PICK k \in Kinds : q \in Requests /\ SubmitAccepted(q, k)
    BY <1>1, NewPending
  <2>2. kind'[q] = k /\ k.priority <= FleetReplan /\ inflight' = inflight
        /\ \A r \in inflight : kind'[r] = kind[r]
    BY <1>1, <2>1 DEF SubmitAccepted, Unused, BrokerInv, TypeOK, Submitted
  <2>3. PICK v \in Revocations(k) : preempted' = preempted \cup v
    BY <2>1 DEF SubmitAccepted
  <2>4. /\ InflightOf(k.uav)' = InflightOf(k.uav)
        /\ k.priority \in Priorities
    BY <2>2, BrokerAssumption DEF InflightOf
  <2>5. /\ Blocked(kind[q])' <=>
             \/ k.uav # NoUav /\ Cardinality(InflightOf(k.uav) \ preempted') >= MaxInflightPerUav
             \/ Cardinality(inflight) - Cardinality(preempted') >= MaxInflightGlobal
        /\ preempted' = preempted => Preemptable(kind[q])' = Preemptable(k)
    <3>1. /\ (InflightOf(kind[q].uav) \ preempted)' = InflightOf(k.uav) \ preempted'
          /\ (kind[q].uav # NoUav)' <=> k.uav # NoUav
      BY <2>2, <2>4 DEF InflightOf
    <3>2. Cardinality(InflightOf(kind[q].uav) \ preempted)' = Cardinality(InflightOf(k.uav) \ preempted')
      BY <3>1
    <3>3. UavBlocked(kind[q])' <=>
             k.uav # NoUav /\ Cardinality(InflightOf(k.uav) \ preempted') >= MaxInflightPerUav
      BY <3>1, <3>2 DEF UavBlocked
    <3>4. GlobalBlocked' <=> Cardinality(inflight) - Cardinality(preempted') >= MaxInflightGlobal
      BY <2>2 DEF GlobalBlocked
    <3>5. ASSUME preempted' = preempted PROVE Preemptable(kind[q])' = Preemptable(k)
      <4>1. UavBlocked(kind[q])' <=> UavBlocked(k)
        BY <3>3, <3>5 DEF UavBlocked
      <4>2. PreemptScope(kind[q])' = PreemptScope(k)
        BY <2>2, <2>4, <4>1 DEF PreemptScope, InflightOf
      <4>3. PreemptScope(k) \subseteq inflight
        BY DEF PreemptScope, InflightOf
      <4>. QED BY <2>2, <3>5, <4>2, <4>3 DEF Preemptable
    <3>. QED BY <3>3, <3>4, <3>5 DEF Blocked
  <2>6. CASE ~Blocked(k) \/ Preemptable(k) = {}
    <3>1. preempted' = preempted
      BY <2>3, <2>6 DEF Revocations
    <3>. QED BY <2>2, <2>5, <2>6, <3>1 DEF Blocked, UavBlocked, GlobalBlocked
  <2>7. CASE Blocked(k) /\ Preemptable(k) # {}
    <3>1. PICK r \in LeastUrgent(Preemptable(k)) : v = {r}
      BY <2>2, <2>3, <2>7 DEF Revocations
    <3>2. r \in inflight \ preempted /\ (UavBlocked(k) => r \in InflightOf(k.uav))
      BY <3>1 DEF LeastUrgent, Preemptable, PreemptScope, InflightOf
    <3>3. /\ k.uav # NoUav =>
               Cardinality(InflightOf(k.uav) \ (preempted \cup {r})) < MaxInflightPerUav
          /\ Cardinality(inflight) - Cardinality(preempted \cup {r}) < MaxInflightGlobal
      BY <1>1, <3>2, OneRevocationFrees
    <3>4. IsFiniteSet(preempted \cup {r}) /\ IsFiniteSet(inflight)
      BY <1>1, <3>2, FS_Subset DEF BrokerInv, TypeOK
    <3>5. /\ Cardinality(preempted \cup {r}) \in Nat /\ Cardinality(inflight) \in Nat
          /\ Cardinality(InflightOf(k.uav) \ (preempted \cup {r})) \in Nat
          /\ MaxInflightGlobal \in Nat /\ MaxInflightPerUav \in Nat
      BY <3>4, FS_Subset, FS_CardinalityType, BrokerAssumption DEF InflightOf
    <3>. QED BY <2>3, <2>5, <3>1, <3>3, <3>5
  <2>. QED BY <2>6, <2>7
<1>2. BrokerInv /\ [Next]_brokerVars =>
        \A q \in pending' \ pending :
          kind'[q].priority <= FleetReplan => ~Blocked(kind[q])' \/ Preemptable(kind[q])' = {}
  BY <1>1
<1>. QED BY <1>2, BrokerInductive, PTL DEF Spec, UrgentSettles
=============================================================================
