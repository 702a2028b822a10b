-------------------------- MODULE VisualDispatcher --------------------------
(***************************************************************************)
(* ModelRequestDispatcher (fleet/model_request_dispatcher.py) and the      *)
(* AsyncModelWorker of each vehicle (models/async_worker.py): visual       *)
(* reviews, queued at the shared Broker, handed to the vehicle's worker    *)
(* thread when the Broker grants a slot, and answered once.                *)
(*                                                                         *)
(* A call of the dispatcher (_submit, _poll, close) holds its lock and is  *)
(* split at its loops; the worker threads have locks of their own, and the *)
(* Broker's other owner runs in between.  A result queue is the set of its *)
(* requests: polling for one id rotates the code's deque, so its order     *)
(* means nothing.  The worker's own result deque never reaches its bound,  *)
(* as each round of dispatching hands it at most two requests that survive.*)
(***************************************************************************)
EXTENDS ModelRequestBroker

CONSTANTS
  Nobody,      \* "no request"
  MaxResults   \* max_completed_results_per_uav

ASSUME DispatcherAssumption ==
  /\ MaxResults \in Nat \ {0}
  /\ Nobody \notin Requests

VARIABLES
  requests,    \* keys of _requests: accepted and not answered
  dispatched,  \* _dispatched_request_ids
  results,     \* results[r]: "fresh", "stale", or "error" while r is in a queue
  answered,    \* answered[r]: history, how often r entered a result queue
  emitted,     \* _emitted_record_ids
  closed,      \* _closed
  op, pc,      \* the call in progress, and where it is
  handing,     \* the request just acquired and not yet given to its worker
  wPending,    \* wPending[u]: the worker's _pending
  wActive,     \* wActive[u]: its _active_request_id
  wStale,      \* _stale_request_ids of all workers
  wDone,       \* wDone[r]: "fresh" or "stale" while r is in a worker's _completed
  wClosed      \* the vehicles whose worker is closed

dispatchVars == <<requests, dispatched, results, answered, emitted, closed>>
workerVars == <<wPending, wActive, wStale, wDone, wClosed>>
visualVars == <<dispatchVars, op, pc, handing, workerVars>>
allVars == <<brokerVars, visualVars>>

VisualKinds == {k \in Kinds : ~k.control /\ k.uav # NoUav /\ k.priority >= RuntimeReview}
Vehicles == {k.uav : k \in VisualKinds}

Done == {r \in Requests : wDone[r] # "none"}
\* Fault: only replaced frames are noticed, not evicted or cancelled reviews.
LostSuperseded == {r \in requests \ dispatched : logs[r] = <<"SUPERSEDED">>}
Lost == {r \in requests \ dispatched : Stale(r)}
Acquirable(ids) == IF Cardinality(inflight) < MaxInflightGlobal THEN Selectable \cap ids ELSE {}
QueueOf(u) == {r \in Submitted : results[r] # "none" /\ kind[r].uav = u}

VisualInit ==
  /\ Init
  /\ requests = {} /\ dispatched = {} /\ emitted = {}
  /\ results = [r \in Requests |-> "none"]
  /\ answered = [r \in Requests |-> 0]
  /\ closed = FALSE
  /\ op = "none" /\ pc = "idle" /\ handing = Nobody
  /\ wPending = [u \in Vehicles |-> Nobody]
  /\ wActive = [u \in Vehicles |-> Nobody]
  /\ wStale = {} /\ wClosed = {}
  /\ wDone = [r \in Requests |-> "none"]

(***************************************************************************)
(* Building blocks                                                         *)
(***************************************************************************)

Goto(p) == pc' = p /\ UNCHANGED op
Return == pc' = "idle" /\ op' = "none"

\* _enqueue_result(): a full queue loses one of its answers.
Enqueue(r, outcome) ==
  LET queue == QueueOf(kind[r].uav)
  IN  /\ \E gone \in (IF Cardinality(queue) >= MaxResults THEN {{q} : q \in queue} ELSE {{}}) :
           results' = [q \in Requests |-> IF q = r THEN outcome
                                          ELSE IF q \in gone THEN "none" ELSE results[q]]
      /\ answered' = [answered EXCEPT ![r] = @ + 1]

\* The request is answered: it leaves the books, its record is logged.
Retire(r, outcome) ==
  /\ requests' = requests \ {r}
  /\ dispatched' = dispatched \ {r}
  /\ emitted' = emitted \cup {r}
  /\ Enqueue(r, outcome)
  /\ UNCHANGED closed

(***************************************************************************)
(* _submit()                                                               *)
(***************************************************************************)

Submit(r, k) ==
  /\ pc = "idle" /\ ~closed
  /\ \/ /\ SubmitAccepted(r, k)
        /\ requests' = requests \cup {r}
        /\ pc' = "reconcile" /\ op' = "submit"
     \/ /\ SubmitRefused(r, k)
        /\ UNCHANGED <<requests, pc, op>>
  /\ UNCHANGED <<dispatched, results, answered, emitted, closed, handing, workerVars>>

(***************************************************************************)
(* _poll(): collect what the workers have, reconcile, pump, answer         *)
(***************************************************************************)

PollBegin ==
  /\ pc = "idle"
  /\ pc' = "collect" /\ op' = "poll"
  /\ UNCHANGED <<brokerVars, dispatchVars, handing, workerVars>>

\* One result of a worker; verdict: whether its call succeeded.
Collect(r, verdict) ==
  /\ pc = "collect"
  /\ r \in Done
  /\ Complete(r, verdict)
  /\ Retire(r, IF r \in preempted THEN "stale" ELSE wDone[r])
  /\ wDone' = [wDone EXCEPT ![r] = "none"]
  /\ UNCHANGED <<op, pc, handing, wPending, wActive, wStale, wClosed>>

CollectEnd ==
  /\ pc = "collect" /\ Done = {}
  /\ Goto("reconcile")
  /\ UNCHANGED <<brokerVars, dispatchVars, handing, workerVars>>

\* Fault: the synthetic answer is given, but the request stays on the books.
ReconcileKeepsRequest(r) ==
  /\ pc = "reconcile"
  /\ r \in Lost
  /\ emitted' = emitted \cup {r}
  /\ Enqueue(r, "stale")
  /\ UNCHANGED <<brokerVars, requests, dispatched, closed, op, pc, handing, workerVars>>

\* The Broker took back a request that was still queued.
Reconcile(r) ==
  /\ pc = "reconcile"
  /\ r \in Lost
  /\ Retire(r, "stale")
  /\ UNCHANGED <<brokerVars, op, pc, handing, workerVars>>

ReconcileEnd ==
  /\ pc = "reconcile" /\ Lost = {}
  /\ CASE op = "close" -> IF Vehicles \subseteq wClosed THEN Return ELSE Goto("workers")
       [] op = "poll" /\ closed -> Goto("answer")
       [] OTHER -> Goto("pump")
  /\ UNCHANGED <<brokerVars, dispatchVars, handing, workerVars>>

Dispatch(r) ==
  /\ pc = "pump" /\ handing = Nobody
  /\ Acquire(r, requests)
  /\ dispatched' = dispatched \cup {r}
  /\ handing' = r
  /\ UNCHANGED <<requests, results, answered, emitted, closed, op, pc, workerVars>>

\* worker.submit(): the call the worker is running becomes stale, and a request
\* its thread has not picked up is replaced.
HandOver ==
  LET u == kind[handing].uav
  IN  /\ handing # Nobody
      /\ wStale' = wStale \cup ({wActive[u]} \ {Nobody})
      /\ wPending' = [wPending EXCEPT ![u] = handing]
      /\ handing' = Nobody
      /\ UNCHANGED <<brokerVars, dispatchVars, op, pc, wActive, wDone, wClosed>>

\* Fault: the error leaves the request on the books.
HandOverFailsKeepsBooks ==
  /\ handing # Nobody
  /\ Complete(handing, "FAILED")
  /\ handing' = Nobody
  /\ UNCHANGED <<dispatchVars, op, pc, workerVars>>

\* worker.submit() raises: the lease is given back, the error is the answer.
HandOverFails ==
  /\ handing # Nobody
  /\ Complete(handing, "FAILED")
  /\ Retire(handing, "error")
  /\ handing' = Nobody
  /\ UNCHANGED <<op, pc, workerVars>>

PumpEnd ==
  /\ pc = "pump" /\ handing = Nobody /\ Acquirable(requests) = {}
  /\ IF op = "submit" THEN Return ELSE Goto("answer")
  /\ UNCHANGED <<brokerVars, dispatchVars, handing, workerVars>>

\* poll() returns the answer to r, or nothing.
Answer ==
  /\ pc = "answer"
  /\ \E taken \in {{}} \cup {{r} : r \in Requests} :
       results' = [r \in Requests |-> IF r \in taken THEN "none" ELSE results[r]]
  /\ Return
  /\ UNCHANGED <<brokerVars, requests, dispatched, answered, emitted, closed, handing, workerVars>>

(***************************************************************************)
(* close()                                                                 *)
(***************************************************************************)

CloseBegin ==
  /\ pc = "idle" /\ ~closed
  /\ closed' = TRUE
  /\ pc' = "cancel" /\ op' = "close"
  /\ UNCHANGED <<brokerVars, requests, dispatched, results, answered, emitted, handing, workerVars>>

CloseCancel(r) ==
  /\ pc = "cancel"
  /\ r \in requests \ dispatched
  /\ CancelPending(r)
  /\ UNCHANGED visualVars

CloseCancelEnd ==
  /\ pc = "cancel" /\ (requests \ dispatched) \cap pending = {}
  /\ Goto("reconcile")
  /\ UNCHANGED <<brokerVars, dispatchVars, handing, workerVars>>

\* The worker is closed and its thread joined for a bounded time, in which it
\* may or may not finish the running call.
CloseWorker(u) ==
  /\ pc = "workers"
  /\ u \notin wClosed
  /\ wClosed' = wClosed \cup {u}
  /\ wPending' = [wPending EXCEPT ![u] = Nobody]
  /\ UNCHANGED <<brokerVars, dispatchVars, op, pc, handing, wActive, wStale, wDone>>

CloseWorkersEnd ==
  /\ pc = "workers" /\ Vehicles \subseteq wClosed
  /\ Goto("collect")
  /\ UNCHANGED <<brokerVars, dispatchVars, handing, workerVars>>

(***************************************************************************)
(* The worker thread of vehicle u                                          *)
(***************************************************************************)

Pickup(u) ==
  /\ wActive[u] = Nobody /\ wPending[u] # Nobody
  /\ wActive' = [wActive EXCEPT ![u] = wPending[u]]
  /\ wPending' = [wPending EXCEPT ![u] = Nobody]
  /\ UNCHANGED <<brokerVars, dispatchVars, op, pc, handing, wStale, wDone, wClosed>>

\* client.chat() returns or raises; both leave a result.
CallReturns(u) ==
  /\ wActive[u] # Nobody
  /\ wDone' = [wDone EXCEPT ![wActive[u]] = IF wActive[u] \in wStale THEN "stale" ELSE "fresh"]
  /\ wStale' = wStale \ {wActive[u]}
  /\ wActive' = [wActive EXCEPT ![u] = Nobody]
  /\ UNCHANGED <<brokerVars, dispatchVars, op, pc, handing, wPending, wClosed>>

(***************************************************************************)
(* The other owner of the Broker: text calls, as far as the Broker sees    *)
(* them, and the clock                                                     *)
(***************************************************************************)

TextKinds == {k \in Kinds : k.control}

TextSubmits(r, k) == SubmitAccepted(r, k) /\ UNCHANGED visualVars
TextAcquires(r) == Acquire(r, {q \in pending : kind[q].control}) /\ UNCHANGED visualVars
TextCompletes(r) ==
  /\ r \in inflight /\ kind[r].control
  /\ Complete(r, "COMPLETED")
  /\ UNCHANGED visualVars
Clock == pc = "idle" /\ Tick /\ UNCHANGED visualVars

Polling ==
  \/ \E r \in Requests : Reconcile(r) \/ Dispatch(r) \/ \E v \in {"COMPLETED", "FAILED"} : Collect(r, v)
  \/ HandOver \/ HandOverFails
  \/ CollectEnd \/ ReconcileEnd \/ PumpEnd \/ Answer
Closing ==
  \/ CloseCancelEnd \/ CloseWorkersEnd
  \/ \E r \in Requests : CloseCancel(r)
  \/ \E u \in Vehicles : CloseWorker(u)
Working == \E u \in Vehicles : Pickup(u) \/ CallReturns(u)

VisualNext ==
  \/ \E r \in Requests, k \in VisualKinds : Submit(r, k)
  \/ PollBegin
  \/ Polling
  \/ CloseBegin
  \/ Closing
  \/ Working
  \/ \E r \in Requests, k \in TextKinds : TextSubmits(r, k)
  \/ \E r \in Requests : TextAcquires(r) \/ TextCompletes(r)
  \/ Clock

VisualSpec == VisualInit /\ [][VisualNext]_allVars

(***************************************************************************)
(* Fairness.  Every tick the coordinators poll for their review, the       *)
(* threads run, and the HTTP client bounds every call by a timeout; the    *)
(* text owner settles its calls too.                                       *)
(***************************************************************************)

Fairness ==
  /\ WF_allVars(PollBegin)
  /\ WF_allVars(Polling)
  /\ WF_allVars(Closing)
  /\ \A u \in Vehicles : WF_allVars(Pickup(u)) /\ WF_allVars(CallReturns(u))
  /\ WF_allVars(\E r \in Requests : TextAcquires(r))
  /\ WF_allVars(\E r \in Requests : TextCompletes(r))

LiveSpec == VisualSpec /\ Fairness

(***************************************************************************)
(* Properties                                                              *)
(***************************************************************************)

\* Every variable of dispatcher and workers has its type.
VisualTypeOK ==
  /\ requests \subseteq Requests /\ dispatched \subseteq requests
  /\ emitted \subseteq Requests
  /\ results \in [Requests -> {"none", "fresh", "stale", "error"}]
  /\ answered \in [Requests -> Nat]
  /\ closed \in BOOLEAN
  /\ op \in {"none", "submit", "poll", "close"}
  /\ pc \in {"idle", "collect", "reconcile", "pump", "answer", "cancel", "workers"}
  /\ handing \in dispatched \cup {Nobody}
  /\ wPending \in [Vehicles -> Requests \cup {Nobody}]
  /\ wActive \in [Vehicles -> Requests \cup {Nobody}]
  /\ wStale \subseteq Requests /\ wClosed \subseteq Vehicles
  /\ wDone \in [Requests -> {"none", "fresh", "stale"}]

AtWorker(r) == \/ \E u \in Vehicles : r \in {wPending[u], wActive[u]}
               \/ wDone[r] # "none"

\* What a worker holds, runs or has finished is still leased at the Broker, so
\* the model server never sees more visual calls than the Broker has granted; no
\* visual lease is unknown to the dispatcher; and every granted request stays at
\* its worker until its result is collected, or its slot would be lost for good.
\* (close() may drop one; it raises an error when it does.)
WorkHoldsLease ==
  /\ \A r \in Requests : AtWorker(r) => r \in dispatched
  /\ dispatched = {r \in inflight : ~kind[r].control}
  /\ ~closed => \A r \in dispatched \ {handing} : AtWorker(r)

\* Each accepted review is answered exactly once: it is on the books until one
\* result, real or synthetic, enters the vehicle's queue, and never again; and a
\* call the Broker had revoked yields only a result that is marked as stale.
OneAnswer ==
  /\ \A r \in Submitted :
       ~kind[r].control => answered[r] = (IF r \in requests THEN 0 ELSE 1)
  /\ \A r \in Requests : results[r] = "fresh" => ~Stale(r)

\* Every accepted review is answered, whether it runs, is overtaken, evicted or
\* preempted, unless the dispatcher is closed.
EveryReviewAnswered == \A r \in Requests : r \in requests ~> (r \notin requests \/ closed)

(***************************************************************************)
(* What the dispatcher promises its callers                                *)
(***************************************************************************)

\* A review on the books waits until the Broker grants it a slot and is computed
\* until that slot is given back; an answer is gone once poll() has returned it
\* or the vehicle's full queue has pushed it out.
CallStage(r) ==
  IF r \in dispatched THEN "computing"
  ELSE IF r \in requests THEN "waiting"
  ELSE IF answered[r] > 0 THEN "over" ELSE "new"
CallAnswer(r) ==
  CASE results[r] = "fresh" -> "value"
    [] results[r] \in {"stale", "error"} -> results[r]
    [] OTHER -> IF answered[r] > 0 THEN "gone" ELSE "none"

Calls == INSTANCE RequestLifecycle
  WITH Slots <- MaxInflightGlobal,
       stage <- [r \in Requests |-> CallStage(r)],
       answer <- [r \in Requests |-> CallAnswer(r)]

\* Seen by those who submit a review and poll for it, dispatcher, workers and
\* Broker do what RequestLifecycle says: whatever overtakes, evicts, preempts or
\* fails a review, it is answered once, and its call keeps the slot to its end.
ImplementsCalls == Calls!RequestSpec
=============================================================================
