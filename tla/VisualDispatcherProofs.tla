----------------------- MODULE VisualDispatcherProofs -----------------------
(***************************************************************************)
(* The visual dispatcher implements the Broker's specification, for every  *)
(* value of the constants.  The one step whose request is not a parameter  *)
(* is the hand-over to a worker; that it hands over a request is the only  *)
(* invariant needed.                                                       *)
(***************************************************************************)
EXTENDS VisualDispatcher, ModelRequestBrokerProofs

BrokerStep == [Next]_brokerVars
HandsRequest == handing \in Requests \cup {Nobody}

\* Only an acquired request is ever handed over.
LEMMA HandsRequestInv == HandsRequest /\ [VisualNext]_allVars => HandsRequest'
<1> SUFFICES ASSUME HandsRequest, [VisualNext]_allVars PROVE HandsRequest'
  OBVIOUS
<1> USE DEF HandsRequest
<1>1. ASSUME NEW r \in Requests, Dispatch(r) PROVE HandsRequest'
  BY <1>1 DEF Dispatch
<1>2. ASSUME HandOver \/ HandOverFails PROVE HandsRequest'
  BY <1>2 DEF HandOver, HandOverFails
<1>3. ASSUME UNCHANGED handing PROVE HandsRequest'
  BY <1>3
<1>4. ASSUME Polling PROVE HandsRequest'
  BY <1>1, <1>2, <1>3, <1>4 DEF Polling, Reconcile, Collect, CollectEnd, ReconcileEnd, PumpEnd, Answer
<1>5. ASSUME Closing \/ CloseBegin \/ PollBegin PROVE HandsRequest'
  BY <1>3, <1>5 DEF Closing, CloseBegin, PollBegin, CloseCancelEnd, CloseWorkersEnd, CloseCancel,
                    CloseWorker, visualVars
<1>6. ASSUME Working PROVE HandsRequest'
  BY <1>3, <1>6 DEF Working, Pickup, CallReturns
<1>7. ASSUME NEW r \in Requests, NEW k, Submit(r, k) \/ TextSubmits(r, k) PROVE HandsRequest'
  BY <1>3, <1>7 DEF Submit, TextSubmits, visualVars
<1>8. ASSUME NEW r \in Requests, TextAcquires(r) \/ TextCompletes(r) PROVE HandsRequest'
  BY <1>3, <1>8 DEF TextAcquires, TextCompletes, visualVars
<1>9. ASSUME Clock \/ UNCHANGED allVars PROVE HandsRequest'
  BY <1>3, <1>9 DEF Clock, allVars, visualVars
<1>. QED BY <1>4, <1>5, <1>6, <1>7, <1>8, <1>9 DEF VisualNext

\* Every step of the dispatcher is a step of the Broker or leaves it alone.
LEMMA VisualStep == HandsRequest /\ [VisualNext]_allVars => BrokerStep
<1> SUFFICES ASSUME HandsRequest, [VisualNext]_allVars PROVE BrokerStep
  OBVIOUS
<1>1. ASSUME NEW r \in Requests, NEW k \in Kinds, Submit(r, k) \/ TextSubmits(r, k)
      PROVE  BrokerStep
  BY <1>1 DEF Submit, TextSubmits, BrokerStep, Next
<1>2. ASSUME NEW r \in Requests, NEW ids, Acquire(r, ids) PROVE BrokerStep
  BY <1>2 DEF Acquire, BrokerStep, Next
<1>3. ASSUME NEW r \in Requests, NEW v \in {"COMPLETED", "FAILED"}, Complete(r, v) PROVE BrokerStep
  BY <1>3 DEF BrokerStep, Next
<1>4. ASSUME UNCHANGED brokerVars PROVE BrokerStep
  BY <1>4 DEF BrokerStep
<1>5. ASSUME NEW r \in Requests, Dispatch(r) \/ TextAcquires(r) PROVE BrokerStep
  BY <1>2, <1>5 DEF Dispatch, TextAcquires
<1>6. ASSUME NEW r \in Requests, NEW v \in {"COMPLETED", "FAILED"}, Collect(r, v) PROVE BrokerStep
  BY <1>3, <1>6 DEF Collect
<1>7. ASSUME NEW r \in Requests, TextCompletes(r) PROVE BrokerStep
  BY <1>3, <1>7 DEF TextCompletes
<1>8. ASSUME HandOverFails PROVE BrokerStep
  BY <1>3, <1>8 DEF HandOverFails, HandsRequest
<1>9. ASSUME NEW r \in Requests, CloseCancel(r) PROVE BrokerStep
  BY <1>9 DEF CloseCancel, BrokerStep, Next
<1>10. ASSUME Polling PROVE BrokerStep
  BY <1>4, <1>5, <1>6, <1>8, <1>10 DEF Polling, Reconcile, HandOver, CollectEnd, ReconcileEnd, PumpEnd, Answer
<1>11. ASSUME Closing PROVE BrokerStep
  BY <1>4, <1>9, <1>11 DEF Closing, CloseCancelEnd, CloseWorkersEnd, CloseWorker
<1>12. ASSUME Working \/ PollBegin \/ CloseBegin PROVE BrokerStep
  BY <1>4, <1>12 DEF Working, Pickup, CallReturns, PollBegin, CloseBegin
<1>13. ASSUME Clock \/ UNCHANGED allVars PROVE BrokerStep
  BY <1>4, <1>13 DEF Clock, allVars, BrokerStep, Next
<1>14. VisualKinds \subseteq Kinds /\ TextKinds \subseteq Kinds
  BY DEF VisualKinds, TextKinds
<1>. QED BY <1>1, <1>5, <1>7, <1>10, <1>11, <1>12, <1>13, <1>14 DEF VisualNext

\* The dispatcher, its workers and the text owner drive the Broker only through
\* its methods.
THEOREM VisualImplementsBroker == VisualSpec => Spec
<1>1. VisualInit => Init /\ HandsRequest
  BY DEF VisualInit, HandsRequest
<1>. QED BY <1>1, HandsRequestInv, VisualStep, PTL DEF VisualSpec, Spec, BrokerStep

\* So the Broker's safety holds of the visual path as well: one verdict per
\* review and never more running calls than the limits allow.
THEOREM VisualKeepsBrokerSafe == VisualSpec => [](OneVerdict /\ WithinLimits)
BY VisualImplementsBroker, BrokerOneVerdict, BrokerWithinLimits, PTL

\* And so do its rules of urgency: the dispatcher's cycles lease no review past
\* waiting control work, age reviews in their order, and lose one only to a
\* submission at least as urgent.
THEOREM VisualKeepsUrgency ==
  VisualSpec => NoBypass /\ AgedNotPassed /\ TakenOnlyForUrgent /\ UrgentSettles
BY VisualImplementsBroker, BrokerNoBypass, BrokerAgedNotPassed, BrokerTakenOnlyForUrgent,
   BrokerUrgentSettles, PTL

-----------------------------------------------------------------------------
(***************************************************************************)
(* The dispatcher's own invariants.  BooksInv(q) relates what dispatcher   *)
(* and Broker know of request q, WorkerInv(q) where its work is; a step    *)
(* changes them for the request it is about and for those a submission     *)
(* takes something from.                                                   *)
(***************************************************************************)

Review(q) == kind[q] \in VisualKinds

BooksInv(q) ==
  /\ kind[q] # NoKind => Review(q) \/ kind[q].control
  /\ kind[q] # NoKind => q \in pending \cup inflight \/ logs[q] # <<>>
  /\ q \in requests => Review(q)
  /\ q \in pending /\ Review(q) => q \in requests
  /\ q \in dispatched <=> q \in inflight /\ Review(q)
  /\ q \in requests \ dispatched => q \in pending \/ Stale(q)
  /\ answered[q] = IF Review(q) /\ q \notin requests THEN 1 ELSE 0
  /\ results[q] # "none" => logs[q] # <<>> /\ q \notin requests /\ Review(q)
  /\ results[q] = "fresh" => ~Stale(q)

\* Work of q is in one place at a time, on its own vehicle, and leased.  With
\* one lease per vehicle no worker is handed a second request, so it is never
\* without a place.
WorkerInv(q) ==
  /\ \A u \in Vehicles : q \in {wPending[u], wActive[u]} =>
       q \in dispatched /\ q # handing /\ wDone[q] = "none" /\ kind[q].uav = u
  /\ \A u \in Vehicles : q # wPending[u] \/ q # wActive[u]
  /\ wDone[q] # "none" => q \in dispatched /\ q # handing
  /\ MaxInflightPerUav = 1 /\ ~closed /\ q \in dispatched /\ q # handing => AtWorker(q)

\* Only close() closes workers.
ClosingInv == op = "close" \/ pc = "workers" => closed

VisualInv ==
  /\ BrokerInv
  /\ VisualTypeOK
  /\ ClosingInv
  /\ \A q \in Requests : BooksInv(q) /\ WorkerInv(q)

\* What a control kind and a visual kind tell.
LEMMA KindFact ==
  /\ \A k \in VisualKinds : k \in Kinds /\ ~k.control /\ k # NoKind /\ k.uav \in Vehicles
                            /\ k.uav \in Uavs \ {NoUav}
  /\ \A k \in TextKinds : k \in Kinds /\ k.control /\ k \notin VisualKinds
BY BrokerAssumption DEF VisualKinds, TextKinds, Vehicles, Uavs

\* The books and the Broker's view of q do not change, but for an answer that
\* is fetched or dropped.
SameBooks(q) ==
  /\ kind'[q] = kind[q] /\ logs'[q] = logs[q] /\ answered'[q] = answered[q]
  /\ results'[q] \in {results[q], "none"}
  /\ q \in pending' <=> q \in pending
  /\ q \in inflight' <=> q \in inflight
  /\ q \in requests' <=> q \in requests
  /\ q \in dispatched' <=> q \in dispatched

LEMMA SameBooksKeeps ==
  ASSUME NEW q \in Requests, BooksInv(q), SameBooks(q)
  PROVE  BooksInv(q)'
BY DEF BooksInv, SameBooks, Review, Stale

\* Neither does the place of its work.
SameWork(q) ==
  /\ q \in dispatched => kind'[q] = kind[q]
  /\ q \in dispatched' <=> q \in dispatched
  /\ (q = handing)' <=> q = handing
  /\ UNCHANGED <<wPending, wActive>> /\ wDone'[q] = wDone[q]
  /\ closed => closed'

LEMMA SameWorkKeeps ==
  ASSUME NEW q \in Requests, WorkerInv(q), SameWork(q)
  PROVE  WorkerInv(q)'
BY DEF WorkerInv, SameWork, AtWorker

LEMMA VisualSets ==
  ASSUME VisualInv
  PROVE  /\ pending \subseteq Requests /\ inflight \subseteq Requests
         /\ preempted \subseteq inflight /\ pending \cap inflight = {}
         /\ requests \subseteq Requests /\ dispatched \subseteq requests
         /\ \A q \in pending \cup (inflight \ preempted) : logs[q] = <<>>
         /\ \A q \in preempted : Stale(q) /\ logs[q] # <<>>
         /\ kind \in [Requests -> Kinds \cup {NoKind}]
         /\ logs \in [Requests -> Seq(Verdicts)]
         /\ \A q \in Requests : kind[q] # NoKind => q \in Submitted
         /\ \A q \in pending \cup inflight : kind[q] # NoKind
BY DEF VisualInv, BrokerInv, TypeOK, Submitted, OneVerdict, VisualTypeOK, Stale

\* A single stale verdict makes a request stale, a single other one does not.
LEMMA StaleOne ==
  ASSUME NEW q, NEW v \in Verdicts, logs'[q] = <<v>>
  PROVE  (v \in StaleVerdicts <=> Stale(q)') /\ logs'[q] # <<>>
<1>1. DOMAIN <<v>> = {1} /\ <<v>>[1] = v /\ <<v>> # <<>>
  OBVIOUS
<1>. QED BY <1>1 DEF Stale

-----------------------------------------------------------------------------
(* Submissions                                                              *)

\* Work a submission takes back: queued, which the dispatcher will find stale,
\* or running, which keeps its lease.
LEMMA TakenBooks ==
  ASSUME VisualInv, NEW q \in pending \cup (inflight \ preempted), NEW v \in StaleVerdicts,
         logs'[q] = <<v>>, kind'[q] = kind[q], q \notin pending',
         q \in inflight' <=> q \in inflight,
         UNCHANGED <<results, answered, dispatched>>,
         q \in requests' <=> q \in requests
  PROVE  BooksInv(q)'
<1>1. BooksInv(q) /\ q \in Requests /\ logs[q] = <<>>
  BY VisualSets DEF VisualInv
<1>2. Stale(q)' /\ logs'[q] # <<>>
  BY StaleOne DEF Verdicts
<1>3. results'[q] = "none"
  BY <1>1 DEF BooksInv
<1>. QED BY <1>1, <1>2, <1>3 DEF BooksInv, Review

LEMMA AcceptedBooks ==
  ASSUME VisualInv, NEW r \in Requests, NEW k \in VisualKinds \cup TextKinds, SubmitAccepted(r, k),
         requests' = IF k \in VisualKinds THEN requests \cup {r} ELSE requests,
         UNCHANGED <<dispatched, results, answered>>
  PROVE  \A q \in Requests : BooksInv(q)'
<1>0. k \in Kinds
  BY KindFact
<1>1. PICK evicted \in Evictions(k), revoked \in Revocations(k) :
        /\ pending' = (QueueAfter(k) \ evicted) \cup {r}
        /\ preempted' = preempted \cup revoked
        /\ logs' \in [Requests -> Seq(Verdicts)]
        /\ \A q \in Requests :
             \/ logs'[q] = logs[q] /\ q \notin Superseded(k) \cup evicted \cup revoked
             \/ /\ q \in Superseded(k) \cup evicted \cup revoked
                /\ \E v \in StaleVerdicts : logs'[q] = <<v>>
  BY <1>0, SubmitVerdicts DEF VisualInv
<1>2. /\ Superseded(k) \subseteq pending /\ evicted \subseteq pending
      /\ revoked \subseteq inflight \ preempted
  BY TakenFact DEF QueueAfter
<1>3. /\ kind' = [kind EXCEPT ![r] = k] /\ inflight' = inflight
      /\ r \notin pending /\ r \notin inflight /\ logs[r] = <<>>
  BY DEF SubmitAccepted, Unused
<1>4. ASSUME NEW q \in Requests \ {r} PROVE BooksInv(q)'
  <2>1. kind'[q] = kind[q] /\ BooksInv(q) /\ (q \in requests' <=> q \in requests)
    BY <1>3, VisualSets DEF VisualInv
  <2>2. CASE q \notin Superseded(k) \cup evicted \cup revoked
    <3>1. SameBooks(q)
      BY <1>1, <1>3, <2>1, <2>2 DEF SameBooks, QueueAfter
    <3>. QED BY <2>1, <3>1, SameBooksKeeps
  <2>3. CASE q \in Superseded(k) \cup evicted \cup revoked
    <3>1. q \in pending \cup (inflight \ preempted) /\ q \notin pending'
      BY <1>1, <1>2, <1>3, <2>3, VisualSets DEF QueueAfter
    <3>2. PICK v \in StaleVerdicts : logs'[q] = <<v>>
      BY <1>1, <2>3
    <3>. QED BY <1>3, <2>1, <3>1, <3>2, TakenBooks
  <2>. QED BY <2>2, <2>3
<1>5. BooksInv(r)'
  <2>1. BooksInv(r) /\ ~Stale(r)
    BY <1>3 DEF VisualInv, Stale
  <2>2. kind[r] = NoKind
    BY <1>3, <2>1 DEF BooksInv
  <2>3. ~Review(r) /\ r \notin requests /\ r \notin dispatched /\ answered[r] = 0 /\ results[r] = "none"
    BY <1>3, <2>1, <2>2, KindFact DEF BooksInv, Review
  <2>4. kind'[r] = k /\ r \in pending' /\ r \notin inflight' /\ logs'[r] = <<>>
    BY <1>1, <1>2, <1>3, VisualSets
  <2>5. k \in VisualKinds \/ (k.control /\ k \notin VisualKinds)
    BY KindFact
  <2>. QED BY <2>3, <2>4, <2>5 DEF BooksInv, Review
<1>. QED BY <1>4, <1>5

LEMMA RefusedBooks ==
  ASSUME VisualInv, NEW r \in Requests, NEW k \in Kinds, SubmitRefused(r, k),
         UNCHANGED <<requests, dispatched, results, answered>>
  PROVE  \A q \in Requests : BooksInv(q)'
<1> SUFFICES ASSUME NEW q \in Requests PROVE BooksInv(q)'
  OBVIOUS
<1>1. /\ pending' = pending \ Superseded(k) /\ Superseded(k) \subseteq pending
      /\ kind' = kind /\ inflight' = inflight
      /\ logs' = Record(logs, Superseded(k), "SUPERSEDED")
  BY TakenFact DEF SubmitRefused, QueueAfter
<1>2. \A p \in Requests : logs'[p] = IF p \in Superseded(k) THEN <<"SUPERSEDED">> ELSE logs[p]
  <2>1. \A p \in Requests : p \in Superseded(k) => logs[p] = <<>>
    BY <1>1, VisualSets
  <2>2. "SUPERSEDED" \in Verdicts
    BY DEF Verdicts, StaleVerdicts
  <2>. QED BY <1>1, <2>1, <2>2, RecordFact, VisualSets
<1>3. CASE q \in Superseded(k)
  BY <1>1, <1>2, <1>3, TakenBooks DEF StaleVerdicts
<1>4. CASE q \notin Superseded(k)
  <2>1. SameBooks(q)
    BY <1>1, <1>2, <1>4 DEF SameBooks
  <2>. QED BY <2>1, SameBooksKeeps DEF VisualInv
<1>. QED BY <1>3, <1>4
-----------------------------------------------------------------------------
(* Leases and answers                                                       *)

\* An answer enters its queue; at most one other leaves a full queue.
LEMMA EnqueueFact ==
  ASSUME VisualTypeOK, NEW r \in Requests, NEW o \in {"fresh", "stale", "error"}, Enqueue(r, o)
  PROVE  /\ results' \in [Requests -> {"none", "fresh", "stale", "error"}]
         /\ results'[r] = o
         /\ \A q \in Requests \ {r} : results'[q] \in {results[q], "none"}
         /\ answered' = [answered EXCEPT ![r] = @ + 1]
<1>1. PICK gone : results' = [q \in Requests |-> IF q = r THEN o
                                                 ELSE IF q \in gone THEN "none" ELSE results[q]]
  BY DEF Enqueue
<1>. QED BY <1>1 DEF VisualTypeOK, Enqueue

\* The one answer of a request whose call the Broker has closed.
LEMMA RetireBooks ==
  ASSUME VisualInv, NEW r \in requests, NEW o \in {"fresh", "stale", "error"}, Retire(r, o),
         kind' = kind, pending' = pending, r \notin pending, inflight' = inflight \ {r},
         \A q \in Requests \ {r} : logs'[q] = logs[q],
         logs'[r] # <<>>, o = "fresh" => ~Stale(r)'
  PROVE  \A q \in Requests : BooksInv(q)'
<1>1. r \in Requests /\ VisualTypeOK /\ \A q \in Requests : BooksInv(q)
  BY VisualSets DEF VisualInv
<1>2. /\ requests' = requests \ {r} /\ dispatched' = dispatched \ {r}
      /\ results'[r] = o
      /\ \A q \in Requests \ {r} : results'[q] \in {results[q], "none"}
      /\ answered' = [answered EXCEPT ![r] = @ + 1]
  BY <1>1, EnqueueFact DEF Retire
<1>3. answered \in [Requests -> Nat]
  BY <1>1 DEF VisualTypeOK
<1>4. \A q \in Requests \ {r} : SameBooks(q)
  BY <1>2, <1>3 DEF SameBooks
<1>5. BooksInv(r)'
  <2>1. answered'[r] = 1 /\ Review(r)' /\ r \notin requests' /\ r \notin dispatched' /\ r \notin inflight'
    BY <1>1, <1>2, <1>3 DEF BooksInv, Review
  <2>. QED BY <1>2, <2>1 DEF BooksInv
<1>. QED BY <1>1, <1>4, <1>5, SameBooksKeeps

\* The verdict a step writes for one request.
LEMMA OneLog ==
  ASSUME VisualInv, NEW r \in Requests, NEW v \in Verdicts, logs[r] = <<>>,
         logs' = Record(logs, {r}, v)
  PROVE  logs'[r] = <<v>> /\ \A q \in Requests \ {r} : logs'[q] = logs[q]
<1>1. logs \in [Requests -> Seq(Verdicts)]
  BY DEF VisualInv, BrokerInv, TypeOK
<1>2. /\ Record(logs, {r}, v)[r] = <<v>>
      /\ \A q \in Requests : q # r => Record(logs, {r}, v)[q] = logs[q]
  BY <1>1, RecordOne
<1>. QED BY <1>2

\* complete() writes a verdict unless the lease was revoked.
LEMMA CompleteLogs ==
  ASSUME VisualInv, NEW r \in inflight, NEW v \in {"COMPLETED", "FAILED"}, Complete(r, v)
  PROVE  /\ \A q \in Requests \ {r} : logs'[q] = logs[q]
         /\ logs'[r] # <<>>
         /\ r \in preempted => logs'[r] = logs[r]
         /\ r \notin preempted => ~Stale(r)'
         /\ kind' = kind /\ pending' = pending /\ r \notin pending /\ inflight' = inflight \ {r}
         /\ logs[r] # <<>> => logs'[r] = logs[r]
<1>1. CASE r \in preempted
  BY <1>1, VisualSets DEF Complete
<1>2. CASE r \notin preempted
  <2>1. v \in Verdicts /\ v \notin StaleVerdicts /\ logs[r] = <<>> /\ r \in Requests
    BY <1>2, VisualSets DEF Verdicts, StaleVerdicts
  <2>2. logs'[r] = <<v>> /\ \A q \in Requests \ {r} : logs'[q] = logs[q]
    BY <1>2, <2>1, OneLog DEF Complete
  <2>3. ~Stale(r)' /\ logs'[r] # <<>>
    BY <2>1, <2>2, StaleOne
  <2>. QED BY <1>2, <2>1, <2>2, <2>3, VisualSets DEF Complete
<1>. QED BY <1>1, <1>2

LEMMA CollectBooks ==
  ASSUME VisualInv, NEW r \in Requests, NEW v \in {"COMPLETED", "FAILED"}, Collect(r, v)
  PROVE  /\ r \in dispatched
         /\ \A q \in Requests : BooksInv(q)'
<1> DEFINE o == IF r \in preempted THEN "stale" ELSE wDone[r]
<1>1. r \in dispatched /\ r \in requests /\ r \in inflight /\ wDone[r] \in {"fresh", "stale"}
  BY VisualSets DEF VisualInv, BooksInv, WorkerInv, Collect, Done, VisualTypeOK
<1>2. o \in {"fresh", "stale", "error"} /\ Retire(r, o) /\ Complete(r, v)
  BY <1>1 DEF Collect
<1>3. o = "fresh" => r \notin preempted
  OBVIOUS
<1> HIDE DEF o
<1>. QED BY <1>1, <1>2, <1>3, CompleteLogs, RetireBooks

LEMMA HandOverFailsBooks ==
  ASSUME VisualInv, HandOverFails
  PROVE  \A q \in Requests : BooksInv(q)'
<1>1. PICK h \in Requests : h = handing /\ h \in dispatched /\ h \in requests /\ h \in inflight
  BY VisualSets DEF HandOverFails, VisualInv, VisualTypeOK, BooksInv
<1>2. Complete(h, "FAILED") /\ Retire(h, "error")
  BY <1>1 DEF HandOverFails
<1>. QED BY <1>1, <1>2, CompleteLogs, RetireBooks

LEMMA ReconcileBooks ==
  ASSUME VisualInv, NEW r \in Requests, Reconcile(r)
  PROVE  \A q \in Requests : BooksInv(q)'
<1>1. r \in requests /\ r \notin dispatched /\ Stale(r) /\ Retire(r, "stale") /\ UNCHANGED brokerVars
  BY DEF Reconcile, Lost
<1>2. logs[r] # <<>> /\ r \notin pending
  BY <1>1, VisualSets DEF Stale
<1>3. r \notin inflight
  BY <1>1 DEF VisualInv, BooksInv
<1>. QED BY <1>1, <1>2, <1>3, RetireBooks DEF brokerVars

\* A slot for a review, and one for a text call, which no review shares.
LEMMA DispatchBooks ==
  ASSUME VisualInv, NEW r \in Requests, Dispatch(r)
  PROVE  /\ r \in requests /\ r \notin dispatched
         /\ \A q \in Requests : BooksInv(q)'
<1>0. \A q \in Requests : BooksInv(q)
  BY DEF VisualInv
<1>1. r \in pending /\ r \in requests /\ logs[r] = <<>> /\ r \notin inflight /\ r \notin dispatched
  <2>1. r \in pending /\ r \in requests
    BY DEF Dispatch, Acquire, Selectable, EligibleRequests
  <2>. QED BY <1>0, <2>1, VisualSets DEF BooksInv
<1>2. /\ pending' = pending \ {r} /\ inflight' = inflight \cup {r} /\ dispatched' = dispatched \cup {r}
      /\ UNCHANGED <<kind, logs, requests, results, answered>>
  BY DEF Dispatch, Acquire
<1>3. \A q \in Requests \ {r} : SameBooks(q)
  BY <1>2 DEF SameBooks
<1>4. BooksInv(r)'
  BY <1>0, <1>1, <1>2 DEF BooksInv, Review, Stale
<1>. QED BY <1>0, <1>1, <1>3, <1>4, SameBooksKeeps

LEMMA TextAcquiresBooks ==
  ASSUME VisualInv, NEW r \in Requests, TextAcquires(r)
  PROVE  \A q \in Requests : BooksInv(q)'
<1>0. \A q \in Requests : BooksInv(q)
  BY DEF VisualInv
<1>1. r \in pending /\ ~Review(r) /\ logs[r] = <<>>
  <2>1. r \in pending /\ kind[r].control
    BY DEF TextAcquires, Acquire
  <2>. QED BY <2>1, KindFact, VisualSets DEF Review
<1>2. /\ pending' = pending \ {r} /\ inflight' = inflight \cup {r}
      /\ UNCHANGED <<kind, logs, requests, dispatched, results, answered>>
  BY DEF TextAcquires, Acquire, visualVars, dispatchVars
<1>3. \A q \in Requests \ {r} : SameBooks(q)
  BY <1>2 DEF SameBooks
<1>4. BooksInv(r)'
  BY <1>0, <1>1, <1>2 DEF BooksInv, Review, Stale
<1>. QED BY <1>0, <1>3, <1>4, SameBooksKeeps

LEMMA TextCompletesBooks ==
  ASSUME VisualInv, NEW r \in Requests, TextCompletes(r)
  PROVE  \A q \in Requests : BooksInv(q)'
<1>0. \A q \in Requests : BooksInv(q)
  BY DEF VisualInv
<1>1. r \in inflight /\ ~Review(r) /\ Complete(r, "COMPLETED")
      /\ UNCHANGED <<requests, dispatched, results, answered>>
  BY KindFact DEF TextCompletes, Review, visualVars, dispatchVars
<1>2. /\ \A q \in Requests \ {r} : logs'[q] = logs[q]
      /\ logs'[r] # <<>> /\ (logs[r] # <<>> => logs'[r] = logs[r])
      /\ kind' = kind /\ pending' = pending /\ r \notin pending /\ inflight' = inflight \ {r}
  BY <1>1, CompleteLogs
<1>3. \A q \in Requests \ {r} : SameBooks(q)
  BY <1>1, <1>2 DEF SameBooks
<1>4. BooksInv(r)'
  BY <1>0, <1>1, <1>2 DEF BooksInv, Review, Stale
<1>. QED BY <1>0, <1>3, <1>4, SameBooksKeeps

LEMMA CloseCancelBooks ==
  ASSUME VisualInv, NEW r \in Requests, CloseCancel(r)
  PROVE  \A q \in Requests : BooksInv(q)'
<1>0. \A q \in Requests : BooksInv(q)
  BY DEF VisualInv
<1>1. /\ r \in pending /\ pending' = pending \ {r} /\ logs' = Record(logs, {r}, "CANCELED")
      /\ UNCHANGED <<kind, inflight, requests, dispatched, results, answered>>
  BY DEF CloseCancel, CancelPending, visualVars, dispatchVars
<1>2. logs'[r] = <<"CANCELED">> /\ \A q \in Requests \ {r} : logs'[q] = logs[q]
  <2>1. logs[r] = <<>> /\ "CANCELED" \in Verdicts
    BY <1>1, VisualSets DEF Verdicts, StaleVerdicts
  <2>. QED BY <1>1, <2>1, OneLog
<1>3. \A q \in Requests \ {r} : SameBooks(q)
  BY <1>1, <1>2 DEF SameBooks
<1>4. BooksInv(r)'
  BY <1>1, <1>2, TakenBooks DEF StaleVerdicts
<1>. QED BY <1>0, <1>3, <1>4, SameBooksKeeps

BooksKept == \A q \in Requests : BooksInv(q)'

\* What moves the call of the dispatcher on, without anything else.
CallMoves == PollBegin \/ CollectEnd \/ ReconcileEnd \/ PumpEnd \/ CloseCancelEnd \/ CloseWorkersEnd

LEMMA BooksStep ==
  ASSUME VisualInv, [VisualNext]_allVars
  PROVE  BooksKept
<1>0. \A q \in Requests : BooksInv(q)
  BY DEF VisualInv
<1>1. ASSUME NEW r \in Requests, NEW k \in VisualKinds, Submit(r, k) PROVE BooksKept
  <2>1. CASE SubmitAccepted(r, k) /\ requests' = requests \cup {r}
    BY <1>1, <2>1, AcceptedBooks DEF Submit, BooksKept
  <2>2. CASE SubmitRefused(r, k) /\ UNCHANGED requests
    BY <1>1, <2>2, RefusedBooks, KindFact DEF Submit, BooksKept
  <2>. QED BY <1>1, <2>1, <2>2 DEF Submit
<1>2. ASSUME NEW r \in Requests, NEW k \in TextKinds, TextSubmits(r, k) PROVE BooksKept
  <2>1. SubmitAccepted(r, k) /\ k \notin VisualKinds /\ UNCHANGED <<requests, dispatched, results, answered>>
    BY <1>2, KindFact DEF TextSubmits, visualVars, dispatchVars
  <2>. QED BY <2>1, AcceptedBooks DEF BooksKept
<1>3. ASSUME NEW r \in Requests, NEW v \in {"COMPLETED", "FAILED"},
             \/ Collect(r, v) \/ Reconcile(r) \/ Dispatch(r) \/ CloseCancel(r)
             \/ TextAcquires(r) \/ TextCompletes(r)
      PROVE  BooksKept
  BY <1>3, CollectBooks, ReconcileBooks, DispatchBooks, CloseCancelBooks, TextAcquiresBooks,
     TextCompletesBooks DEF BooksKept
<1>4. CASE HandOverFails
  BY <1>4, HandOverFailsBooks DEF BooksKept
<1>5. ASSUME UNCHANGED <<kind, logs, answered, pending, inflight, requests, dispatched>>,
             \A q \in Requests : results'[q] \in {results[q], "none"}
      PROVE  BooksKept
  <2>1. \A q \in Requests : SameBooks(q)
    BY <1>5 DEF SameBooks
  <2>. QED BY <1>0, <2>1, SameBooksKeeps DEF BooksKept
<1>6. CASE Answer
  <2>1. \A q \in Requests : results'[q] \in {results[q], "none"}
    BY <1>6 DEF Answer
  <2>. QED BY <1>5, <1>6, <2>1 DEF Answer, brokerVars
<1>7. ASSUME UNCHANGED <<kind, logs, answered, pending, inflight, requests, dispatched, results>>
      PROVE  BooksKept
  BY <1>5, <1>7
<1>8. CASE HandOver \/ CallMoves \/ CloseBegin \/ Clock \/ UNCHANGED allVars
  BY <1>7, <1>8 DEF HandOver, CallMoves, PollBegin, CollectEnd, ReconcileEnd, PumpEnd, CloseCancelEnd,
                    CloseWorkersEnd, CloseBegin, Clock, Tick, allVars, visualVars, dispatchVars, brokerVars
<1>9. ASSUME NEW u \in Vehicles, CloseWorker(u) \/ Pickup(u) \/ CallReturns(u) PROVE BooksKept
  BY <1>7, <1>9 DEF CloseWorker, Pickup, CallReturns, dispatchVars, brokerVars
<1>10. CASE Polling
  BY <1>3, <1>4, <1>6, <1>8, <1>10 DEF Polling, CallMoves
<1>11. CASE Closing \/ Working
  BY <1>3, <1>8, <1>9, <1>11 DEF Closing, Working, CallMoves
<1>. QED BY <1>1, <1>2, <1>3, <1>8, <1>10, <1>11 DEF VisualNext, CallMoves
-----------------------------------------------------------------------------
(* Places of work                                                           *)

WorkKept == \A q \in Requests : WorkerInv(q)'

\* What a step that neither grants nor gives back a visual lease does to workers.
LEMMA QuietWork ==
  ASSUME VisualInv, UNCHANGED <<wPending, wActive, wDone, handing>>,
         \A q \in Requests : q \in dispatched' <=> q \in dispatched,
         \A q \in dispatched : kind'[q] = kind[q],
         closed => closed'
  PROVE  WorkKept
<1>1. \A q \in Requests : WorkerInv(q) /\ SameWork(q)
  BY DEF VisualInv, SameWork
<1>. QED BY <1>1, SameWorkKeeps DEF WorkKept

LEMMA AtMostOne ==
  ASSUME NEW S, IsFiniteSet(S), Cardinality(S) <= 1, NEW a \in S, NEW b \in S
  PROVE  a = b
<1>1. IsFiniteSet(S \ {a}) /\ Cardinality(S \ {a}) = Cardinality(S) - 1
  BY FS_RemoveElement
<1>2. Cardinality(S \ {a}) \in Nat /\ Cardinality(S) \in Nat
  BY <1>1, FS_CardinalityType
<1>3. Cardinality(S \ {a}) = 0
  BY <1>1, <1>2
<1>4. S \ {a} = {}
  BY <1>1, <1>3, FS_EmptySet
<1>. QED BY <1>4

LEMMA WorkStep ==
  ASSUME VisualInv, [VisualNext]_allVars
  PROVE  WorkKept
<1>0. /\ \A q \in Requests : WorkerInv(q) /\ BooksInv(q)
      /\ VisualTypeOK /\ ClosingInv /\ Nobody \notin Requests
      /\ wPending \in [Vehicles -> Requests \cup {Nobody}]
      /\ wActive \in [Vehicles -> Requests \cup {Nobody}]
      /\ wDone \in [Requests -> {"none", "fresh", "stale"}]
  BY DispatcherAssumption DEF VisualInv, VisualTypeOK
<1>1. ASSUME NEW r \in Requests, NEW k, Submit(r, k) \/ TextSubmits(r, k) PROVE WorkKept
  <2>1. UNCHANGED <<wPending, wActive, wDone, handing, dispatched, closed>>
    BY <1>1 DEF Submit, TextSubmits, visualVars, dispatchVars, workerVars
  <2>2. \A q \in dispatched : q # r
    BY <1>0, <1>1, VisualSets DEF BooksInv, Submit, TextSubmits, SubmitAccepted, SubmitRefused, Unused
  <2>3. \A q \in dispatched : kind'[q] = kind[q]
    BY <1>1, <2>2, VisualSets DEF Submit, TextSubmits, SubmitAccepted, SubmitRefused
  <2>. QED BY <2>1, <2>3, QuietWork
<1>2. ASSUME NEW r \in Requests, Reconcile(r) PROVE WorkKept
  <2>1. r \notin dispatched /\ dispatched' = dispatched \ {r}
        /\ UNCHANGED <<wPending, wActive, wDone, handing, closed, kind>>
    BY <1>2 DEF Reconcile, Lost, Retire, workerVars, brokerVars
  <2>. QED BY <2>1, QuietWork
<1>3. ASSUME NEW r \in Requests, NEW v \in {"COMPLETED", "FAILED"}, Collect(r, v) PROVE WorkKept
  <2>1. /\ dispatched' = dispatched \ {r} /\ wDone' = [wDone EXCEPT ![r] = "none"]
        /\ UNCHANGED <<wPending, wActive, handing, closed, kind>> /\ wDone[r] # "none"
    BY <1>3 DEF Collect, Done, Retire, Complete
  <2>2. \A q \in Requests \ {r} : SameWork(q)
    BY <1>0, <2>1 DEF SameWork
  <2>3. WorkerInv(r)'
    BY <1>0, <2>1 DEF WorkerInv
  <2>. QED BY <1>0, <2>2, <2>3, SameWorkKeeps DEF WorkKept
<1>4. ASSUME NEW r \in Requests, Dispatch(r) PROVE WorkKept
  <2>1. /\ dispatched' = dispatched \cup {r} /\ handing' = r /\ handing = Nobody
        /\ UNCHANGED <<wPending, wActive, wDone, closed, kind>> /\ r \notin dispatched
    BY <1>4, DispatchBooks DEF Dispatch, Acquire, workerVars
  <2>2. \A q \in Requests \ {r} : SameWork(q)
    BY <1>0, <2>1 DEF SameWork
  <2>3. WorkerInv(r)'
    BY <1>0, <2>1 DEF WorkerInv
  <2>. QED BY <1>0, <2>2, <2>3, SameWorkKeeps DEF WorkKept
<1>5. CASE HandOverFails
  <2>1. PICK h \in Requests : h = handing /\ h \in dispatched
    BY <1>0, <1>5, VisualSets DEF HandOverFails, VisualTypeOK
  <2>2. /\ dispatched' = dispatched \ {h} /\ handing' = Nobody
        /\ UNCHANGED <<wPending, wActive, wDone, closed, kind>>
    BY <1>5, <2>1 DEF HandOverFails, Retire, Complete, workerVars
  <2>3. \A q \in Requests \ {h} : SameWork(q)
    BY <1>0, <2>1, <2>2 DEF SameWork
  <2>4. WorkerInv(h)'
    BY <1>0, <2>1, <2>2 DEF WorkerInv
  <2>. QED BY <1>0, <2>3, <2>4, SameWorkKeeps DEF WorkKept
<1>6. CASE HandOver
  <2>1. PICK h \in Requests : h = handing /\ h \in dispatched
    BY <1>0, <1>6, VisualSets DEF HandOver, VisualTypeOK
  <2>2. PICK u \in Vehicles : u = kind[h].uav /\ u \in Uavs \ {NoUav}
    BY <1>0, <2>1, VisualSets, KindFact DEF BooksInv, Review
  <2>3. /\ wPending' = [wPending EXCEPT ![u] = h] /\ handing' = Nobody
        /\ UNCHANGED <<wActive, wDone, closed, kind, dispatched>>
    BY <1>6, <2>1, <2>2 DEF HandOver, dispatchVars, brokerVars
  <2>4. WorkerInv(h)'
    <3>1. \A x \in Vehicles : h # wPending[x] /\ h # wActive[x]
      BY <1>0, <2>1 DEF WorkerInv
    <3>2. wDone[h] = "none"
      BY <1>0, <2>1 DEF WorkerInv
    <3>. QED BY <1>0, <2>1, <2>2, <2>3, <3>1, <3>2 DEF WorkerInv, AtWorker
  <2>5. ASSUME NEW q \in Requests \ {h} PROVE WorkerInv(q)'
    <3>1. \A x \in Vehicles : q = wPending'[x] => q = wPending[x]
      BY <1>0, <2>3
    <3>2. ASSUME MaxInflightPerUav = 1, q \in dispatched PROVE q # wPending[u]
      <4>1. SUFFICES ASSUME q = wPending[u] PROVE FALSE
        OBVIOUS
      <4>2. q \in InflightOf(u) /\ h \in InflightOf(u)
        BY <1>0, <2>1, <2>2, <3>2, <4>1 DEF InflightOf, BooksInv, WorkerInv
      <4>3. IsFiniteSet(InflightOf(u)) /\ Cardinality(InflightOf(u)) <= 1
        <5>1. IsFiniteSet(inflight) /\ InflightOf(u) \subseteq inflight
          BY DEF VisualInv, BrokerInv, InflightOf
        <5>. QED BY <2>2, <3>2, <5>1, FS_Subset DEF VisualInv, BrokerInv, LeaseBounds
      <4>. QED BY <4>2, <4>3, AtMostOne
    <3>3. (AtWorker(q) /\ MaxInflightPerUav = 1 /\ q \in dispatched) => AtWorker(q)'
      BY <1>0, <2>3, <3>2 DEF AtWorker
    <3>. QED BY <1>0, <2>1, <2>3, <3>1, <3>3 DEF WorkerInv
  <2>. QED BY <2>4, <2>5 DEF WorkKept
<1>7. ASSUME NEW u \in Vehicles, Pickup(u) PROVE WorkKept
  <2>1. PICK p \in Requests : p = wPending[u]
    BY <1>0, <1>7 DEF Pickup
  <2>2. /\ wActive' = [wActive EXCEPT ![u] = p] /\ wPending' = [wPending EXCEPT ![u] = Nobody]
        /\ UNCHANGED <<wDone, handing, closed, kind, dispatched>> /\ wActive[u] = Nobody
    BY <1>7, <2>1 DEF Pickup, dispatchVars, brokerVars
  <2>3. ASSUME NEW q \in Requests PROVE WorkerInv(q)'
    <3>1. \A x \in Vehicles : q \in {wPending'[x], wActive'[x]} => q \in {wPending[x], wActive[x]}
      BY <1>0, <2>1, <2>2
    <3>2. \A x \in Vehicles : q # wPending'[x] \/ q # wActive'[x]
      BY <1>0, <2>1, <2>2 DEF WorkerInv
    <3>3. AtWorker(q) => AtWorker(q)'
      BY <1>0, <2>1, <2>2 DEF AtWorker
    <3>. QED BY <1>0, <2>2, <3>1, <3>2, <3>3 DEF WorkerInv
  <2>. QED BY <2>3 DEF WorkKept
<1>8. ASSUME NEW u \in Vehicles, CallReturns(u) PROVE WorkKept
  <2>1. PICK a \in Requests : a = wActive[u]
    BY <1>0, <1>8 DEF CallReturns
  <2>2. PICK o \in {"fresh", "stale"} : wDone' = [wDone EXCEPT ![a] = o]
    BY <1>8, <2>1 DEF CallReturns
  <2>3. /\ wActive' = [wActive EXCEPT ![u] = Nobody]
        /\ UNCHANGED <<wPending, handing, closed, kind, dispatched>>
    BY <1>8 DEF CallReturns, dispatchVars, brokerVars
  <2>4. WorkerInv(a)'
    <3>1. \A x \in Vehicles : a # wPending'[x] /\ a # wActive'[x]
      BY <1>0, <2>1, <2>3 DEF WorkerInv
    <3>2. a \in dispatched /\ a # handing /\ wDone'[a] # "none"
      BY <1>0, <2>1, <2>2 DEF WorkerInv
    <3>. QED BY <2>3, <3>1, <3>2 DEF WorkerInv, AtWorker
  <2>5. ASSUME NEW q \in Requests \ {a} PROVE WorkerInv(q)'
    <3>1. wDone'[q] = wDone[q] /\ \A x \in Vehicles : q = wActive'[x] <=> q = wActive[x]
      BY <1>0, <2>1, <2>2, <2>3
    <3>. QED BY <1>0, <2>3, <3>1 DEF WorkerInv, AtWorker
  <2>. QED BY <2>4, <2>5 DEF WorkKept
<1>9. ASSUME NEW u \in Vehicles, CloseWorker(u) PROVE WorkKept
  <2>1. /\ wPending' = [wPending EXCEPT ![u] = Nobody] /\ closed'
        /\ UNCHANGED <<wActive, wDone, handing, kind, dispatched>>
    BY <1>0, <1>9 DEF CloseWorker, ClosingInv, dispatchVars, brokerVars
  <2>2. ASSUME NEW q \in Requests PROVE WorkerInv(q)'
    <3>1. \A x \in Vehicles : q = wPending'[x] => q = wPending[x]
      BY <1>0, <2>1
    <3>. QED BY <1>0, <2>1, <3>1 DEF WorkerInv
  <2>. QED BY <2>2 DEF WorkKept
<1>10. ASSUME UNCHANGED <<wPending, wActive, wDone, handing, dispatched, kind>>, closed => closed'
       PROVE  WorkKept
  BY <1>10, QuietWork
<1>11. CASE CallMoves \/ Answer \/ CloseBegin \/ Clock \/ UNCHANGED allVars
  BY <1>10, <1>11 DEF CallMoves, PollBegin, CollectEnd, ReconcileEnd, PumpEnd, CloseCancelEnd, Answer,
                      CloseWorkersEnd, CloseBegin, Clock, Tick, allVars, visualVars, dispatchVars,
                      workerVars, brokerVars
<1>12. ASSUME NEW r \in Requests, CloseCancel(r) \/ TextAcquires(r) \/ TextCompletes(r) PROVE WorkKept
  BY <1>10, <1>12 DEF CloseCancel, CancelPending, TextAcquires, Acquire, TextCompletes, Complete,
                      visualVars, dispatchVars, workerVars
<1>13. CASE Polling
  BY <1>2, <1>3, <1>4, <1>5, <1>6, <1>11, <1>13 DEF Polling, CallMoves
<1>14. CASE Closing \/ Working
  BY <1>7, <1>8, <1>9, <1>11, <1>12, <1>14 DEF Closing, Working, CallMoves
<1>. QED BY <1>1, <1>11, <1>12, <1>13, <1>14 DEF VisualNext, CallMoves
-----------------------------------------------------------------------------
(* Types and the state of the call                                          *)

LEMMA RetireTypes ==
  ASSUME VisualTypeOK, NEW r \in Requests, NEW o \in {"fresh", "stale", "error"}, Retire(r, o)
  PROVE  /\ requests' = requests \ {r} /\ dispatched' = dispatched \ {r}
         /\ emitted' \subseteq Requests /\ closed' = closed
         /\ results' \in [Requests -> {"none", "fresh", "stale", "error"}]
         /\ answered' \in [Requests -> Nat]
<1>1. /\ results' \in [Requests -> {"none", "fresh", "stale", "error"}]
      /\ answered' = [answered EXCEPT ![r] = @ + 1]
  BY EnqueueFact DEF Retire
<1>2. answered' \in [Requests -> Nat]
  BY <1>1 DEF VisualTypeOK
<1>. QED BY <1>1, <1>2 DEF Retire, VisualTypeOK

LEMMA TypesStep ==
  ASSUME VisualInv, [VisualNext]_allVars
  PROVE  VisualTypeOK' /\ ClosingInv'
<1> DEFINE Kept == VisualTypeOK' /\ ClosingInv'
<1>0. /\ VisualTypeOK /\ ClosingInv /\ Nobody \notin Requests
      /\ \A q \in Requests : WorkerInv(q)
  BY DispatcherAssumption DEF VisualInv
<1>1. ASSUME NEW r \in Requests, NEW k, Submit(r, k) PROVE Kept
  BY <1>0, <1>1 DEF Submit, VisualTypeOK, ClosingInv, workerVars
<1>2. ASSUME NEW r \in Requests, NEW v \in {"COMPLETED", "FAILED"}, Collect(r, v) PROVE Kept
  <2>1. PICK o \in {"fresh", "stale", "error"} : Retire(r, o)
    BY <1>0, <1>2 DEF Collect, Done, VisualTypeOK
  <2>2. r # handing /\ wDone' \in [Requests -> {"none", "fresh", "stale"}]
    BY <1>0, <1>2 DEF Collect, Done, WorkerInv, VisualTypeOK
  <2>3. UNCHANGED <<op, pc, handing, wPending, wActive, wStale, wClosed>>
    BY <1>2 DEF Collect
  <2>. QED BY <1>0, <2>1, <2>2, <2>3, RetireTypes DEF VisualTypeOK, ClosingInv
<1>3. ASSUME NEW r \in Requests, Reconcile(r) PROVE Kept
  <2>1. Retire(r, "stale") /\ r \notin dispatched /\ UNCHANGED <<op, pc, handing, workerVars>>
    BY <1>3 DEF Reconcile, Lost
  <2>. QED BY <1>0, <2>1, RetireTypes DEF VisualTypeOK, ClosingInv, workerVars
<1>4. ASSUME NEW r \in Requests, Dispatch(r) PROVE Kept
  BY <1>0, <1>4, DispatchBooks DEF Dispatch, VisualTypeOK, ClosingInv, workerVars
<1>5. CASE HandOverFails
  <2>1. PICK h \in Requests : h = handing
    BY <1>0, <1>5 DEF HandOverFails, VisualTypeOK
  <2>2. Retire(h, "error") /\ handing' = Nobody /\ UNCHANGED <<op, pc, workerVars>>
    BY <1>5, <2>1 DEF HandOverFails
  <2>. QED BY <1>0, <2>2, RetireTypes DEF VisualTypeOK, ClosingInv, workerVars
<1>6. CASE HandOver
  <2>1. PICK h \in Requests : h = handing
    BY <1>0, <1>6 DEF HandOver, VisualTypeOK
  <2>2. PICK u : /\ wStale' = wStale \cup ({wActive[u]} \ {Nobody}) /\ u \in Vehicles
                 /\ wPending' = [wPending EXCEPT ![u] = h] /\ handing' = Nobody
                 /\ UNCHANGED <<dispatchVars, op, pc, wActive, wDone, wClosed>>
    <3>1. kind[h].uav \in Vehicles
      <4>1. h \in requests
        BY <1>0, <1>6, <2>1, VisualSets DEF HandOver, VisualTypeOK
      <4>. QED BY <4>1, KindFact DEF VisualInv, BooksInv, Review
    <3>. QED BY <1>6, <2>1, <3>1 DEF HandOver
  <2>. QED BY <1>0, <2>1, <2>2 DEF VisualTypeOK, ClosingInv, dispatchVars
<1>7. CASE Answer
  <2>1. results' \in [Requests -> {"none", "fresh", "stale", "error"}]
    BY <1>0, <1>7 DEF Answer, VisualTypeOK
  <2>. QED BY <1>0, <1>7, <2>1 DEF Answer, Return, VisualTypeOK, ClosingInv, workerVars
<1>8. CASE CallMoves
  <2>1. UNCHANGED <<dispatchVars, handing, workerVars>>
    BY <1>8 DEF CallMoves, PollBegin, CollectEnd, ReconcileEnd, PumpEnd, CloseCancelEnd, CloseWorkersEnd
  <2>2. /\ pc' \in {"idle", "collect", "reconcile", "pump", "answer", "cancel", "workers"}
        /\ op' \in {op, "none", "poll"}
        /\ (op' = "close" => op = "close") /\ (pc' = "workers" => op = "close")
    BY <1>8 DEF CallMoves, PollBegin, CollectEnd, ReconcileEnd, PumpEnd, CloseCancelEnd, CloseWorkersEnd,
                Goto, Return
  <2>. QED BY <1>0, <2>1, <2>2 DEF VisualTypeOK, ClosingInv, dispatchVars, workerVars
<1>9. CASE CloseBegin
  BY <1>0, <1>9 DEF CloseBegin, VisualTypeOK, ClosingInv, workerVars
<1>10. ASSUME NEW u \in Vehicles, CloseWorker(u) \/ Pickup(u) \/ CallReturns(u) PROVE Kept
  <2>1. /\ wPending' \in [Vehicles -> Requests \cup {Nobody}]
        /\ wActive' \in [Vehicles -> Requests \cup {Nobody}]
        /\ wDone' \in [Requests -> {"none", "fresh", "stale"}]
        /\ wStale' \subseteq Requests /\ wClosed' \subseteq Vehicles
    BY <1>0, <1>10 DEF CloseWorker, Pickup, CallReturns, VisualTypeOK
  <2>2. UNCHANGED <<dispatchVars, op, pc, handing>>
    BY <1>10 DEF CloseWorker, Pickup, CallReturns
  <2>. QED BY <1>0, <2>1, <2>2 DEF VisualTypeOK, ClosingInv, dispatchVars
<1>11. CASE UNCHANGED visualVars
  BY <1>0, <1>11 DEF visualVars, dispatchVars, workerVars, VisualTypeOK, ClosingInv
<1>12. ASSUME NEW r \in Requests, NEW k,
              CloseCancel(r) \/ TextSubmits(r, k) \/ TextAcquires(r) \/ TextCompletes(r)
       PROVE  Kept
  BY <1>11, <1>12 DEF CloseCancel, TextSubmits, TextAcquires, TextCompletes
<1>13. CASE Clock \/ UNCHANGED allVars
  BY <1>11, <1>13 DEF Clock, allVars
<1> HIDE DEF Kept
<1>14. CASE Polling
  BY <1>2, <1>3, <1>4, <1>5, <1>6, <1>7, <1>8, <1>14 DEF Polling, CallMoves, Kept
<1>15. CASE Closing \/ Working
  BY <1>8, <1>10, <1>12, <1>15 DEF Closing, Working, CallMoves, Kept
<1>. QED BY <1>1, <1>8, <1>9, <1>12, <1>13, <1>14, <1>15 DEF VisualNext, CallMoves, Kept

-----------------------------------------------------------------------------
(* The invariant and what it implies                                        *)

LEMMA VisualInitInv == VisualInit => VisualInv
<1> SUFFICES ASSUME VisualInit PROVE VisualInv
  OBVIOUS
<1>1. BrokerInv
  BY InitInv DEF VisualInit
<1>2. VisualTypeOK /\ ClosingInv
  BY DEF VisualInit, VisualTypeOK, ClosingInv
<1>3. ASSUME NEW q \in Requests PROVE BooksInv(q) /\ WorkerInv(q)
  <2>1. ~Review(q) /\ q # Nobody
    BY KindFact, DispatcherAssumption DEF VisualInit, Init, Review
  <2>. QED BY <2>1 DEF VisualInit, Init, BooksInv, WorkerInv
<1>. QED BY <1>1, <1>2, <1>3 DEF VisualInv

LEMMA VisualNextInv == VisualInv /\ [VisualNext]_allVars => VisualInv'
<1> SUFFICES ASSUME VisualInv, [VisualNext]_allVars PROVE VisualInv'
  OBVIOUS
<1>1. HandsRequest
  BY VisualSets DEF VisualInv, VisualTypeOK, HandsRequest
<1>2. BrokerInv'
  BY <1>1, VisualStep, NextInv DEF VisualInv, BrokerStep
<1>3. VisualTypeOK' /\ ClosingInv'
  BY TypesStep
<1>4. \A q \in Requests : BooksInv(q)' /\ WorkerInv(q)'
  BY BooksStep, WorkStep DEF BooksKept, WorkKept
<1>. QED BY <1>2, <1>3, <1>4 DEF VisualInv

LEMMA VisualInductive == VisualSpec => []VisualInv
BY VisualInitInv, VisualNextInv, PTL DEF VisualSpec

\* Dispatcher and workers keep their types: only what is on the books is
\* dispatched, and only what is dispatched is handed over.
THEOREM VisualTypeCorrect == VisualSpec => []VisualTypeOK
<1>1. VisualInv => VisualTypeOK
  BY DEF VisualInv
<1>. QED BY <1>1, VisualInductive, PTL

\* Whatever the Broker takes back and however the threads interleave with the
\* calls of the dispatcher, each accepted review is answered once, and a
\* revoked call never with a fresh result.
THEOREM VisualOneAnswer == VisualSpec => []OneAnswer
<1>1. VisualInv => OneAnswer
  <2> SUFFICES ASSUME VisualInv PROVE OneAnswer
    OBVIOUS
  <2>1. \A q \in Requests : BooksInv(q)
    BY DEF VisualInv
  <2>. QED BY <2>1, KindFact DEF OneAnswer, BooksInv, Submitted, Review
<1>. QED BY <1>1, VisualInductive, PTL

\* With one lease per vehicle, as the Broker is shipped: what a worker holds is
\* leased, the dispatcher knows every visual lease, and nothing granted is
\* dropped before its result is collected, unless close() drops it.
THEOREM VisualWorkHoldsLease ==
  ASSUME MaxInflightPerUav = 1
  PROVE  VisualSpec => []WorkHoldsLease
<1>1. VisualInv => WorkHoldsLease
  <2> SUFFICES ASSUME VisualInv PROVE WorkHoldsLease
    OBVIOUS
  <2>1. \A q \in Requests : BooksInv(q) /\ WorkerInv(q)
    BY DEF VisualInv
  <2>2. \A q \in Requests : AtWorker(q) => q \in dispatched
    BY <2>1 DEF WorkerInv, AtWorker
  <2>3. dispatched = {q \in inflight : ~kind[q].control}
    BY <2>1, VisualSets, KindFact DEF BooksInv, Review
  <2>4. ~closed => \A q \in dispatched \ {handing} : AtWorker(q)
    BY <2>1, VisualSets DEF WorkerInv
  <2>. QED BY <2>2, <2>3, <2>4 DEF WorkHoldsLease
<1>. QED BY <1>1, VisualInductive, PTL

-----------------------------------------------------------------------------
(***************************************************************************)
(* The dispatcher implements RequestLifecycle.                             *)
(***************************************************************************)

\* A step of RequestLifecycle, or none.
CallStep == [Calls!RequestNext]_Calls!requestVars

StageKept(q) == CallStage(q)' = CallStage(q)
AnswerKept(q) == CallAnswer(q)' = CallAnswer(q)

LEMMA UnseenStep ==
  ASSUME \A q \in Requests : StageKept(q) /\ AnswerKept(q)
  PROVE  CallStep
BY DEF StageKept, AnswerKept, CallStep, Calls!requestVars

LEMMA MoveOne ==
  ASSUME NEW r \in Requests, NEW s, CallStage(r)' = s, \A q \in Requests \ {r} : StageKept(q)
  PROVE  Calls!Move(r, s)
BY DEF StageKept, Calls!Move

\* What the callers see of an answer in its queue, and of one that has left it.
Seen(o) == IF o = "fresh" THEN "value" ELSE o

LEMMA SeenAnswer ==
  ASSUME VisualInv, NEW q \in Requests
  PROVE  /\ results[q] \in {"none", "fresh", "stale", "error"} /\ answered[q] \in Nat
         /\ results[q] # "none" => /\ CallAnswer(q) = Seen(results[q]) /\ CallAnswer(q) \in Calls!Outcomes
                                   /\ answered[q] > 0
         /\ results[q] = "none" => CallAnswer(q) = IF answered[q] > 0 THEN "gone" ELSE "none"
<1>1. results[q] \in {"none", "fresh", "stale", "error"} /\ answered[q] \in Nat
  BY DEF VisualInv, VisualTypeOK
<1>2. results[q] # "none" => answered[q] > 0
  BY DEF VisualInv, BooksInv
<1>. QED BY <1>1, <1>2 DEF CallAnswer, Seen, Calls!Outcomes

\* The same, of the answers a step leaves.
LEMMA SeenNext ==
  ASSUME VisualInv', NEW q \in Requests
  PROVE  /\ results'[q] # "none" => CallAnswer(q)' = Seen(results'[q])
         /\ results'[q] = "none" => CallAnswer(q)' = IF answered'[q] > 0 THEN "gone" ELSE "none"
<1>1. results'[q] \in {"none", "fresh", "stale", "error"} /\ answered'[q] \in Nat
  BY DEF VisualInv, VisualTypeOK
<1>. QED BY <1>1 DEF CallAnswer, Seen

\* A request on the books gets its one answer, which may push out another.
LEMMA RetireSeen ==
  ASSUME VisualInv, VisualInv', NEW r \in requests, NEW o \in {"fresh", "stale", "error"}, Retire(r, o)
  PROVE  Calls!Move(r, "over") /\ Calls!Give(r, Seen(o)) /\ CallAnswer(r) = "none" /\ Seen(o) \in Calls!Outcomes
<1>0. /\ r \in Requests /\ VisualTypeOK /\ dispatched \subseteq requests
      /\ answered[r] = 0 /\ results[r] = "none"
      /\ results \in [Requests -> {"none", "fresh", "stale", "error"}]
      /\ answered \in [Requests -> Nat]
  BY VisualSets DEF VisualInv, BooksInv, VisualTypeOK
<1>1. /\ requests' = requests \ {r} /\ dispatched' = dispatched \ {r}
      /\ answered' = [answered EXCEPT ![r] = @ + 1]
  BY DEF Retire, Enqueue
<1>2. PICK gone \in {{}} \cup {{q} : q \in Requests} :
        results' = [q \in Requests |-> IF q = r THEN o ELSE IF q \in gone THEN "none" ELSE results[q]]
  <2>1. QueueOf(kind[r].uav) \subseteq Requests
    BY DEF QueueOf, Submitted
  <2>. QED BY <2>1 DEF Retire, Enqueue
<1>3. Calls!Move(r, "over")
  <2>1. CallStage(r)' = "over"
    BY <1>0, <1>1 DEF CallStage
  <2>2. \A q \in Requests \ {r} : StageKept(q)
    BY <1>0, <1>1 DEF CallStage, StageKept
  <2>. QED BY <1>0, <2>1, <2>2, MoveOne
<1>4. CallAnswer(r) = "none"
  BY <1>0, SeenAnswer
<1>5. CallAnswer(r)' = Seen(o)
  <2>1. results'[r] = o
    BY <1>0, <1>2
  <2>. QED BY <1>0, <2>1, SeenNext
<1>6. ASSUME NEW q \in Requests \ {r}
      PROVE  CallAnswer(q)' = IF q \in gone \ {r} /\ CallAnswer(q) \in Calls!Outcomes THEN "gone" ELSE CallAnswer(q)
  <2>1. answered'[q] = answered[q] /\ results'[q] = IF q \in gone THEN "none" ELSE results[q]
    BY <1>0, <1>1, <1>2
  <2>2. "gone" \notin Calls!Outcomes /\ "none" \notin Calls!Outcomes
    BY DEF Calls!Outcomes
  <2>3. CASE results[q] = "none"
    BY <2>1, <2>2, <2>3, SeenAnswer, SeenNext
  <2>4. CASE results[q] # "none" /\ q \in gone
    BY <2>1, <2>4, SeenAnswer, SeenNext
  <2>5. CASE results[q] # "none" /\ q \notin gone
    BY <2>1, <2>5, SeenAnswer, SeenNext
  <2>. QED BY <2>3, <2>4, <2>5
<1>7. gone \ {r} \in {{}} \cup {{q} : q \in Requests \ {r}}
  OBVIOUS
<1>8. [q \in Requests |-> CallAnswer(q)]' =
        [q \in Requests |-> IF q = r THEN Seen(o)
                            ELSE IF q \in gone \ {r} /\ [p \in Requests |-> CallAnswer(p)][q] \in Calls!Outcomes
                                 THEN "gone" ELSE [p \in Requests |-> CallAnswer(p)][q]]
  BY <1>5, <1>6
<1>9. Calls!Give(r, Seen(o))
  BY <1>7, <1>8 DEF Calls!Give
<1>. QED BY <1>3, <1>4, <1>9 DEF Seen, Calls!Outcomes

\* Collected or given back by a failed hand-over, the call has ended.
LEMMA EndSeen ==
  ASSUME VisualInv, VisualInv', NEW r \in dispatched, NEW o \in {"fresh", "stale", "error"}, Retire(r, o)
  PROVE  CallStep
<1>1. r \in requests /\ r \in Requests /\ CallStage(r) = "computing"
  BY VisualSets DEF CallStage
<1>2. Calls!EndCall(r)
  BY <1>1, RetireSeen DEF Calls!EndCall
<1>. QED BY <1>1, <1>2 DEF CallStep, Calls!RequestNext

LEMMA CollectSeen ==
  ASSUME VisualInv, VisualInv', NEW r \in Requests, NEW v \in {"COMPLETED", "FAILED"}, Collect(r, v)
  PROVE  CallStep
<1> DEFINE o == IF r \in preempted THEN "stale" ELSE wDone[r]
<1>1. r \in dispatched /\ wDone[r] \in {"fresh", "stale"}
  BY CollectBooks DEF VisualInv, Collect, Done, VisualTypeOK
<1>2. o \in {"fresh", "stale", "error"} /\ Retire(r, o)
  BY <1>1 DEF Collect
<1> HIDE DEF o
<1>. QED BY <1>1, <1>2, EndSeen

LEMMA HandOverFailsSeen ==
  ASSUME VisualInv, VisualInv', HandOverFails
  PROVE  CallStep
<1>1. handing \in dispatched /\ Retire(handing, "error")
  BY DEF HandOverFails, VisualInv, VisualTypeOK
<1>. QED BY <1>1, EndSeen

LEMMA ReconcileSeen ==
  ASSUME VisualInv, VisualInv', NEW r \in Requests, Reconcile(r)
  PROVE  CallStep
<1>1. r \in requests /\ r \notin dispatched /\ Retire(r, "stale") /\ Seen("stale") = "stale"
  BY DEF Reconcile, Lost, Seen
<1>2. CallStage(r) = "waiting"
  BY <1>1 DEF CallStage
<1>3. Calls!TakeBack(r)
  BY <1>1, <1>2, RetireSeen DEF Calls!TakeBack
<1>. QED BY <1>3 DEF CallStep, Calls!RequestNext

\* What the callers see depends on the books and the answers alone.
LEMMA BooksSeen ==
  ASSUME UNCHANGED <<requests, dispatched, answered, results>>
  PROVE  CallStep
<1>1. \A q \in Requests : StageKept(q) /\ AnswerKept(q)
  BY DEF StageKept, AnswerKept, CallStage, CallAnswer
<1>. QED BY <1>1, UnseenStep

\* An id nobody has used is on no books and has no answer.
LEMMA UnusedReview ==
  ASSUME VisualInv, NEW r \in Requests, Unused(r)
  PROVE  r \notin requests /\ r \notin dispatched /\ answered[r] = 0
<1>1. BooksInv(r) /\ ~Stale(r)
  BY DEF VisualInv, Unused, Stale
<1>2. kind[r] = NoKind
  BY <1>1 DEF BooksInv, Unused
<1>. QED BY <1>1, <1>2, KindFact DEF BooksInv, Review, Unused

LEMMA SubmitSeen ==
  ASSUME VisualInv, NEW r \in Requests, NEW k \in VisualKinds, Submit(r, k)
  PROVE  CallStep
<1>1. UNCHANGED <<dispatched, answered, results>>
  BY DEF Submit
<1>2. CASE requests' = requests
  BY <1>1, <1>2, BooksSeen
<1>3. CASE SubmitAccepted(r, k) /\ requests' = requests \cup {r}
  <2>1. r \notin requests /\ r \notin dispatched /\ answered[r] = 0
    BY <1>3, UnusedReview DEF SubmitAccepted
  <2>2. CallStage(r) = "new" /\ CallStage(r)' = "waiting"
    BY <1>1, <1>3, <2>1 DEF CallStage
  <2>3. \A q \in Requests \ {r} : StageKept(q)
    BY <1>1, <1>3 DEF StageKept, CallStage
  <2>4. \A q \in Requests : AnswerKept(q)
    BY <1>1 DEF AnswerKept, CallAnswer
  <2>5. Calls!Move(r, "waiting") /\ UNCHANGED [q \in Requests |-> CallAnswer(q)]
    BY <2>2, <2>3, <2>4, MoveOne DEF AnswerKept
  <2>. QED BY <2>2, <2>5 DEF CallStep, Calls!RequestNext, Calls!Ask
<1>. QED BY <1>2, <1>3 DEF Submit

\* The dispatcher's leases are among the Broker's.
LEMMA SlotFree ==
  ASSUME VisualInv, Cardinality(inflight) < MaxInflightGlobal
  PROVE  Calls!Cardinality(Calls!Computing) < MaxInflightGlobal
<1>1. dispatched \subseteq Requests /\ dispatched \subseteq inflight /\ IsFiniteSet(inflight)
  BY VisualSets DEF VisualInv, BooksInv, BrokerInv
<1>2. Calls!Computing = dispatched
  BY <1>1 DEF Calls!Computing, CallStage
<1>3. Cardinality(dispatched) <= Cardinality(inflight)
      /\ Cardinality(dispatched) \in Nat /\ Cardinality(inflight) \in Nat
  BY <1>1, FS_Subset, FS_CardinalityType
<1>4. Calls!Cardinality(dispatched) = Cardinality(dispatched)
  BY DEF Cardinality, Calls!Cardinality
<1>5. MaxInflightGlobal \in Nat
  BY BrokerAssumption
<1>. QED BY <1>2, <1>3, <1>4, <1>5

LEMMA DispatchSeen ==
  ASSUME VisualInv, NEW r \in Requests, Dispatch(r)
  PROVE  CallStep
<1>1. /\ r \in requests /\ r \notin dispatched /\ Cardinality(inflight) < MaxInflightGlobal
      /\ dispatched' = dispatched \cup {r} /\ UNCHANGED <<requests, answered, results>>
  BY DispatchBooks DEF Dispatch, Acquire
<1>2. CallStage(r) = "waiting" /\ CallStage(r)' = "computing"
  BY <1>1 DEF CallStage
<1>3. \A q \in Requests \ {r} : StageKept(q)
  BY <1>1 DEF StageKept, CallStage
<1>4. \A q \in Requests : AnswerKept(q)
  BY <1>1 DEF AnswerKept, CallAnswer
<1>5. Calls!Move(r, "computing") /\ UNCHANGED [q \in Requests |-> CallAnswer(q)]
  BY <1>2, <1>3, <1>4, MoveOne DEF AnswerKept
<1>6. Calls!Start(r)
  BY <1>1, <1>2, <1>5, SlotFree DEF Calls!Start
<1>. QED BY <1>6 DEF CallStep, Calls!RequestNext

\* poll() takes at most one answer out of its queue.
LEMMA AnswerSeen ==
  ASSUME VisualInv, VisualInv', Answer
  PROVE  CallStep
<1>1. UNCHANGED <<requests, dispatched, answered>>
  BY DEF Answer
<1>2. PICK taken \in {{}} \cup {{q} : q \in Requests} :
        results' = [q \in Requests |-> IF q \in taken THEN "none" ELSE results[q]]
  BY DEF Answer
<1>3. \A q \in Requests : StageKept(q)
  BY <1>1 DEF StageKept, CallStage
<1>4. ASSUME NEW q \in Requests, results'[q] = results[q] PROVE AnswerKept(q)
  BY <1>1, <1>4 DEF AnswerKept, CallAnswer
<1>5. CASE \A q \in taken : results[q] = "none"
  <2>1. \A q \in Requests : results'[q] = results[q]
    BY <1>2, <1>5
  <2>. QED BY <1>3, <1>4, <2>1, UnseenStep
<1>6. ASSUME NEW r \in Requests, taken = {r}, results[r] # "none" PROVE CallStep
  <2>1. CallAnswer(r) \in Calls!Outcomes /\ answered[r] > 0
    BY <1>6, SeenAnswer
  <2>2. CallAnswer(r)' = "gone"
    BY <1>1, <1>2, <1>6, <2>1, SeenNext
  <2>3. \A q \in Requests \ {r} : AnswerKept(q)
    BY <1>2, <1>4, <1>6
  <2>4. [q \in Requests |-> CallAnswer(q)]' = [[q \in Requests |-> CallAnswer(q)] EXCEPT ![r] = "gone"]
    BY <2>2, <2>3 DEF AnswerKept
  <2>5. UNCHANGED [q \in Requests |-> CallStage(q)]
    BY <1>3 DEF StageKept
  <2>6. Calls!Fetch(r)
    BY <2>1, <2>4, <2>5 DEF Calls!Fetch
  <2>. QED BY <2>6 DEF CallStep, Calls!RequestNext
<1>. QED BY <1>2, <1>5, <1>6

\* Every step of dispatcher, workers and text owner is one that RequestLifecycle
\* allows, or unseen.
LEMMA CallsStep ==
  ASSUME VisualInv, VisualInv', [VisualNext]_allVars
  PROVE  CallStep
<1>1. ASSUME NEW r \in Requests, NEW k \in VisualKinds, Submit(r, k) PROVE CallStep
  BY <1>1, SubmitSeen
<1>2. CASE Polling
  <2>1. CASE HandOver \/ CollectEnd \/ ReconcileEnd \/ PumpEnd
    BY <2>1, BooksSeen DEF HandOver, CollectEnd, ReconcileEnd, PumpEnd, dispatchVars
  <2>. QED BY <1>2, <2>1, CollectSeen, ReconcileSeen, DispatchSeen, HandOverFailsSeen, AnswerSeen DEF Polling
<1>3. ASSUME NEW r \in Requests, CloseCancel(r) \/ TextAcquires(r) \/ TextCompletes(r)
      PROVE  CallStep
  BY <1>3, BooksSeen DEF CloseCancel, TextAcquires, TextCompletes, visualVars, dispatchVars
<1>4. ASSUME NEW u \in Vehicles, CloseWorker(u) \/ Pickup(u) \/ CallReturns(u) PROVE CallStep
  BY <1>4, BooksSeen DEF CloseWorker, Pickup, CallReturns, dispatchVars
<1>5. CASE PollBegin \/ CloseBegin \/ CloseCancelEnd \/ CloseWorkersEnd \/ Clock \/ UNCHANGED allVars
  BY <1>5, BooksSeen DEF PollBegin, CloseBegin, CloseCancelEnd, CloseWorkersEnd, Clock, allVars,
                         visualVars, dispatchVars
<1>6. ASSUME NEW r \in Requests, NEW k \in TextKinds, TextSubmits(r, k) PROVE CallStep
  BY <1>6, BooksSeen DEF TextSubmits, visualVars, dispatchVars
<1>. QED BY <1>1, <1>2, <1>3, <1>4, <1>5, <1>6 DEF VisualNext, Closing, Working

\* Whatever overtakes, evicts, preempts or fails a review, its callers see what
\* RequestLifecycle says: it is answered once, it is not over before its call has
\* ended, and no call starts beyond the Broker's slots.
THEOREM VisualImplementsCalls == VisualSpec => ImplementsCalls
<1>1. VisualInit => Calls!RequestInit
  BY DEF VisualInit, Calls!RequestInit, CallStage, CallAnswer
<1>2. VisualInv /\ VisualInv' /\ [VisualNext]_allVars => [Calls!RequestNext]_Calls!requestVars
  BY CallsStep DEF CallStep
<1>. QED BY <1>1, <1>2, VisualInductive, PTL DEF VisualSpec, ImplementsCalls, Calls!RequestSpec
=============================================================================
