--------------------------- MODULE TextTaskRunner ---------------------------
(***************************************************************************)
(* BrokeredTextTaskRunner (fleet/model_request_dispatcher.py): replanning  *)
(* calls to the text model, queued at the Broker, prepared on the owner    *)
(* thread when a slot is free, and computed on a thread of their own.  The *)
(* module composes the runner with the Broker, which it shares with the    *)
(* visual dispatcher: every action of the runner that touches the Broker   *)
(* conjoins the Broker's own action.                                       *)
(*                                                                         *)
(* pump(), poll() and close() hold the runner's lock, so the worker        *)
(* threads put their results into _done only between them (and while       *)
(* close() joins the threads); they are split into steps where the owner's *)
(* prepare() callback lets the clock advance, and where they loop.         *)
(***************************************************************************)
EXTENDS ModelRequestBroker

CONSTANTS
  Nobody,          \* "no request"
  MaxWorkers,      \* max_workers
  MaxOutstanding   \* max_outstanding_tasks

ASSUME RunnerAssumption ==
  /\ MaxWorkers \in Nat \ {0}
  /\ MaxOutstanding \in Nat \ {0}
  /\ Nobody \notin Requests

NoDeadline == MaxTime + 1    \* deadline_at_s is None: the clock never gets there
Answers == {"value", "error", "stale"}

VARIABLES
  tasks,      \* keys of _tasks
  deadline,   \* deadline[r]: deadline_at_s of r
  active,     \* keys of _active: an acquired, unacknowledged Broker lease
  thread,     \* "none", "running", or the outcome a returned thread left in _done
  results,    \* results[r]: the unconsumed TextTaskResult of r, or "none"
  revoked,    \* keys of _revoked
  emitted,    \* _emitted_record_ids
  closed,     \* _closed
  pc,         \* where the owner thread is
  polling,    \* the request the current pump will poll, or Nobody
  delivered   \* delivered[r]: history of what poll(r) has returned

runnerVars == <<tasks, deadline, active, thread, results, revoked, emitted,
                closed, pc, polling, delivered>>
allVars == <<brokerVars, runnerVars>>

\* The kinds the runner accepts: control work of the two replanning roles.
TextKinds == {k \in Kinds : k.control /\ k.priority \in {FleetReplan, RuntimeReplan}}
Text(r) == kind[r] \in TextKinds

\* Unconsumed answers count as outstanding work.
Outstanding == tasks \cup {r \in Requests : results[r] # "none"}
Returned == {r \in active : thread[r] \in {"value", "error"}}
\* Faults: only queued, only running tasks expire.
DueQueued == {r \in tasks \ active : deadline[r] <= now}
DueRunning == {r \in active \ revoked : deadline[r] <= now}
Due == {r \in tasks \ revoked : deadline[r] <= now}
Lost == {r \in tasks \ revoked : Stale(r)}
\* What acquire_next(request_ids=ids) may return; the call gives None if empty.
Acquirable(ids) == IF Cardinality(inflight) < MaxInflightGlobal THEN Selectable \cap ids ELSE {}
\* The request whose prepare() callback is running.
Preparing == {r \in active : thread[r] = "none"}

RunnerInit ==
  /\ Init
  /\ tasks = {} /\ active = {} /\ revoked = {} /\ emitted = {}
  /\ deadline = [r \in Requests |-> NoDeadline]
  /\ thread = [r \in Requests |-> "none"]
  /\ results = [r \in Requests |-> "none"]
  /\ closed = FALSE
  /\ pc = "idle"
  /\ polling = Nobody
  /\ delivered = [r \in Requests |-> <<>>]

(***************************************************************************)
(* Building blocks                                                         *)
(***************************************************************************)

\* Fault: dropping a queued task is not logged.
CancelQueuedSilently(r) ==
  /\ r \in tasks \ (active \cup revoked)
  /\ IF r \in pending THEN CancelPending(r) ELSE UNCHANGED brokerVars
  /\ tasks' = tasks \ {r}
  /\ results' = [results EXCEPT ![r] = "stale"]
  /\ UNCHANGED <<active, revoked, emitted>>

\* _cancel_locked(r).  A queued task is dropped (a Broker replacement may have
\* removed it already); a running one loses its result and keeps its slot; an
\* answer nobody has fetched is replaced; anything else is left alone.
CancelQueued(r) ==
  /\ r \in tasks \ (active \cup revoked)
  /\ IF r \in pending THEN CancelPending(r) ELSE UNCHANGED brokerVars
  /\ tasks' = tasks \ {r}
  /\ emitted' = emitted \cup {r}
  /\ results' = [results EXCEPT ![r] = "stale"]
  /\ UNCHANGED <<active, revoked>>

\* Fault: the Broker's slot is returned while the call still runs.
CancelRunningFreesSlot(r) ==
  /\ r \in (tasks \cap active) \ revoked
  /\ Complete(r, "FAILED")
  /\ revoked' = revoked \cup {r}
  /\ emitted' = emitted \cup {r}
  /\ results' = [results EXCEPT ![r] = "stale"]
  /\ UNCHANGED <<tasks, active>>

CancelRunning(r) ==
  /\ r \in (tasks \cap active) \ revoked
  /\ CancelInflight(r)
  /\ revoked' = revoked \cup {r}
  /\ emitted' = emitted \cup {r}
  /\ results' = [results EXCEPT ![r] = "stale"]
  /\ UNCHANGED <<tasks, active>>

CancelAnswered(r) ==
  /\ r \notin tasks \cup revoked
  /\ results[r] \in {"value", "error"}
  /\ results' = [results EXCEPT ![r] = "stale"]
  /\ UNCHANGED <<brokerVars, tasks, active, revoked, emitted>>

CancelLocked(r) == CancelQueued(r) \/ CancelRunning(r) \/ CancelAnswered(r)

\* Fault: a revoked outcome is published.
FinishPublishesLate(r, outcome) ==
  /\ Complete(r, IF outcome = "error" THEN "FAILED" ELSE "COMPLETED")
  /\ tasks' = tasks \ {r}
  /\ active' = active \ {r}
  /\ thread' = [thread EXCEPT ![r] = "none"]
  /\ results' = [results EXCEPT ![r] = outcome]
  /\ revoked' = revoked \ {r}
  /\ emitted' = emitted \cup {r}

\* _finish(): acknowledge the lease; publish the outcome unless it was revoked.
Finish(r, outcome) ==
  /\ Complete(r, IF outcome = "error" THEN "FAILED" ELSE "COMPLETED")
  /\ tasks' = tasks \ {r}
  /\ active' = active \ {r}
  /\ thread' = [thread EXCEPT ![r] = "none"]
  /\ results' = IF r \in revoked THEN results
                ELSE [results EXCEPT ![r] = IF r \in preempted THEN "stale" ELSE outcome]
  /\ revoked' = revoked \ {r}
  /\ emitted' = emitted \cup {r}

(***************************************************************************)
(* The owner between two pumps                                             *)
(***************************************************************************)

SubmitText(r, k, d) ==
  /\ pc = "idle" /\ ~closed
  /\ Cardinality(Outstanding) < MaxOutstanding
  /\ \/ /\ SubmitAccepted(r, k)
        /\ tasks' = tasks \cup {r}
        /\ deadline' = [deadline EXCEPT ![r] = d]
     \/ /\ SubmitRefused(r, k)
        /\ UNCHANGED <<tasks, deadline>>
  /\ UNCHANGED <<active, thread, results, revoked, emitted, closed, pc, polling, delivered>>

\* cancel() by the owner, also from within prepare().
Cancel(r) ==
  /\ pc \in {"idle", "prepare"}
  /\ CancelLocked(r)
  /\ UNCHANGED <<deadline, thread, closed, pc, polling, delivered>>

(***************************************************************************)
(* pump() and poll()                                                       *)
(***************************************************************************)

\* p = Nobody: pump(); otherwise poll(p).
PumpBegin(p) ==
  /\ pc = "idle"
  /\ pc' = "service" /\ polling' = p
  /\ UNCHANGED <<brokerVars, tasks, deadline, active, thread, results, revoked,
                 emitted, closed, delivered>>

Expire(r) ==
  /\ pc = "service"
  /\ r \in Due
  /\ CancelLocked(r)
  /\ UNCHANGED <<deadline, thread, closed, pc, polling, delivered>>

\* The Broker has revoked r for another owner's sake.
Reconcile(r) ==
  /\ pc = "service" /\ Due = {}
  /\ r \in Lost
  /\ CancelLocked(r)
  /\ UNCHANGED <<deadline, thread, closed, pc, polling, delivered>>

CollectDone(r) ==
  /\ \/ pc = "service" /\ Due = {} /\ Lost = {}
     \/ pc = "drain"
  /\ r \in Returned
  /\ Finish(r, thread[r])
  /\ UNCHANGED <<deadline, closed, pc, polling, delivered>>

ServiceDone ==
  /\ pc = "service" /\ Due = {} /\ Lost = {} /\ Returned = {}
  /\ pc' = "admit"
  /\ UNCHANGED <<brokerVars, tasks, deadline, active, thread, results, revoked,
                 emitted, closed, polling, delivered>>

\* A slot is taken for r, and its prepare() callback is entered.
Admit(r) ==
  /\ pc = "admit" /\ ~closed
  /\ Cardinality(active) < MaxWorkers
  /\ Acquire(r, tasks)
  /\ active' = active \cup {r}
  /\ pc' = "prepare"
  /\ UNCHANGED <<tasks, deadline, thread, results, revoked, emitted, closed,
                 polling, delivered>>

PrepareRaises(r) ==
  /\ pc = "prepare"
  /\ r \in Preparing
  /\ Finish(r, "error")
  /\ pc' = "admit"
  /\ UNCHANGED <<deadline, closed, polling, delivered>>

\* prepare() returned None, or a callable after the deadline had passed.
PrepareRevoked(r) ==
  /\ pc = "prepare"
  /\ r \in Preparing
  /\ CancelLocked(r)
  /\ pc' = "settle"
  /\ UNCHANGED <<deadline, thread, closed, polling, delivered>>

\* The task had been revoked before prepare() returned.
PrepareOverruled(r) ==
  /\ pc = "prepare"
  /\ r \in Preparing \cap revoked
  /\ pc' = "settle"
  /\ UNCHANGED <<brokerVars, tasks, deadline, active, thread, results, revoked,
                 emitted, closed, polling, delivered>>

\* No callable was started, so the reserved lease is free.
Settle(r) ==
  /\ pc = "settle"
  /\ r \in Preparing
  /\ Finish(r, "value")
  /\ pc' = "admit"
  /\ UNCHANGED <<deadline, closed, polling, delivered>>

\* Fault: the deadline is not checked again after prepare().
LaunchableLate(r) == r \in Preparing \ revoked
Launchable(r) == r \in Preparing \ revoked /\ now < deadline[r]

Launch(r) ==
  /\ pc = "prepare"
  /\ Launchable(r)
  /\ thread' = [thread EXCEPT ![r] = "running"]
  /\ pc' = "admit"
  /\ UNCHANGED <<brokerVars, tasks, deadline, active, results, revoked, emitted,
                 closed, polling, delivered>>

\* thread.start() raises.
LaunchFails(r) ==
  /\ pc = "prepare"
  /\ Launchable(r)
  /\ Finish(r, "error")
  /\ pc' = "admit"
  /\ UNCHANGED <<deadline, closed, polling, delivered>>

\* The admission loop ends; poll() takes the answer, if there is one.
PumpEnd ==
  /\ pc = "admit"
  /\ closed \/ Cardinality(active) >= MaxWorkers \/ Acquirable(tasks) = {}
  /\ IF polling # Nobody /\ results[polling] # "none"
     THEN /\ delivered' = [delivered EXCEPT ![polling] = Append(@, results[polling])]
          /\ results' = [results EXCEPT ![polling] = "none"]
     ELSE UNCHANGED <<delivered, results>>
  /\ pc' = "idle" /\ polling' = Nobody
  /\ UNCHANGED <<brokerVars, tasks, deadline, active, thread, revoked, emitted, closed>>

(***************************************************************************)
(* close()                                                                 *)
(***************************************************************************)

CloseBegin ==
  /\ pc = "idle"
  /\ closed' = TRUE
  /\ pc' = "closing"
  /\ UNCHANGED <<brokerVars, tasks, deadline, active, thread, results, revoked,
                 emitted, polling, delivered>>

CloseCancel(r) ==
  /\ pc = "closing"
  /\ r \in tasks
  /\ CancelLocked(r)
  /\ UNCHANGED <<deadline, thread, closed, pc, polling, delivered>>

\* The threads are joined without the lock, for a bounded time.
CloseJoin ==
  /\ pc = "closing" /\ tasks \subseteq revoked
  /\ pc' = "joining"
  /\ UNCHANGED <<brokerVars, tasks, deadline, active, thread, results, revoked,
                 emitted, closed, polling, delivered>>

JoinEnds ==
  /\ pc = "joining"
  /\ pc' = "drain"
  /\ UNCHANGED <<brokerVars, tasks, deadline, active, thread, results, revoked,
                 emitted, closed, polling, delivered>>

CloseEnd ==
  /\ pc = "drain" /\ Returned = {}
  /\ pc' = "idle"
  /\ UNCHANGED <<brokerVars, tasks, deadline, active, thread, results, revoked,
                 emitted, closed, polling, delivered>>

(***************************************************************************)
(* Worker threads, the clock, and the other owner of the Broker            *)
(***************************************************************************)

ThreadReturns(r, outcome) ==
  /\ pc \in {"idle", "joining"}
  /\ thread[r] = "running"
  /\ thread' = [thread EXCEPT ![r] = outcome]
  /\ UNCHANGED <<brokerVars, tasks, deadline, active, results, revoked, emitted,
                 closed, pc, polling, delivered>>

Clock ==
  /\ pc \in {"idle", "prepare"}
  /\ Tick
  /\ UNCHANGED runnerVars

\* The visual dispatcher, driven by the same owner thread, as far as the Broker
\* sees it: it never acquires or acknowledges a text request.
VisualSubmits(r, k) == pc = "idle" /\ SubmitAccepted(r, k) /\ UNCHANGED runnerVars
VisualAcquires(r) ==
  /\ pc = "idle"
  /\ Acquire(r, {q \in pending : ~kind[q].control})
  /\ UNCHANGED runnerVars
VisualCompletes(r) ==
  /\ pc = "idle" /\ r \in inflight /\ ~kind[r].control
  /\ Complete(r, "COMPLETED")
  /\ UNCHANGED runnerVars

Service == (\E r \in Requests : Expire(r) \/ Reconcile(r) \/ CollectDone(r)) \/ ServiceDone
Admission ==
  \/ \E r \in Requests :
       \/ Admit(r) \/ PrepareRaises(r) \/ PrepareRevoked(r) \/ PrepareOverruled(r)
       \/ Settle(r) \/ Launch(r) \/ LaunchFails(r)
  \/ PumpEnd
Close == CloseBegin \/ (\E r \in Requests : CloseCancel(r)) \/ CloseJoin \/ JoinEnds \/ CloseEnd

RunnerNext ==
  \/ \E r \in Requests, k \in TextKinds, d \in 1..NoDeadline : SubmitText(r, k, d)
  \/ \E r \in Requests : Cancel(r)
  \/ \E p \in Requests \cup {Nobody} : PumpBegin(p)
  \/ Service
  \/ Admission
  \/ Close
  \/ \E r \in Requests, outcome \in {"value", "error"} : ThreadReturns(r, outcome)
  \/ Clock
  \/ \E r \in Requests, k \in {k \in Kinds : ~k.control} : VisualSubmits(r, k)
  \/ \E r \in Requests : VisualAcquires(r) \/ VisualCompletes(r)

RunnerSpec == RunnerInit /\ [][RunnerNext]_allVars

(***************************************************************************)
(* Fairness.  The fleet's tick pumps the runner again and again, and the   *)
(* clock is a wall clock that no call stops (it is idle infinitely often,  *)
(* hence SF).  A pump is straight-line code of the owner.  The model calls *)
(* may hang: nothing is assumed of ThreadReturns.                          *)
(***************************************************************************)

PumpFairness ==
  /\ SF_allVars(PumpBegin(Nobody))
  /\ WF_allVars(Service)
  /\ WF_allVars(Admission)
  /\ SF_allVars(Clock)
VisualFairness ==
  /\ SF_allVars(\E r \in Requests : VisualAcquires(r))
  /\ SF_allVars(\E r \in Requests : VisualCompletes(r))

\* The runner as the recovery controller uses it while a mission lasts: every
\* request has a deadline.  Polling is left out, as it is only a pump for
\* those who wait for a slot.
InService == ~closed /\ polling = Nobody /\ \A r \in tasks : deadline[r] <= MaxTime
ServiceSpec == RunnerInit /\ [][RunnerNext /\ InService']_allVars /\ PumpFairness /\ VisualFairness

(***************************************************************************)
(* Properties                                                              *)
(***************************************************************************)

\* Every variable of the runner has its type.
RunnerTypeOK ==
  /\ tasks \subseteq Requests /\ active \subseteq tasks
  /\ revoked \subseteq active /\ emitted \subseteq Requests
  /\ deadline \in [Requests -> 1..NoDeadline]
  /\ thread \in [Requests -> {"none", "running", "value", "error"}]
  /\ results \in [Requests -> {"none"} \cup Answers]
  /\ closed \in BOOLEAN
  /\ pc \in {"idle", "service", "admit", "prepare", "settle", "closing", "joining", "drain"}
  /\ polling \in Requests \cup {Nobody}
  /\ delivered \in [Requests -> Seq(Answers)]

\* Runner and Broker agree on who computes and who waits: a thread runs only on a
\* lease of the Broker, revoked or not; no text lease is without an entry of the
\* runner that will give it back; and a task without a lease waits in the
\* Broker's queue or has already been declared stale there.
LeasesMatch ==
  /\ active = {r \in inflight : Text(r)}
  /\ \A r \in Requests : thread[r] # "none" => r \in active
  /\ revoked \subseteq preempted
  /\ \A r \in tasks \ active : r \in pending \/ Stale(r)

\* A request is answered at most once, however cancel, deadline, preemption,
\* close and the return of its thread fall together, and with a value only if
\* the Broker records its call as completed: a call that was cancelled, timed
\* out or preempted never yields one, even late.
OneAnswer ==
  \A r \in Requests :
    LET given == {results[r]} \cup {delivered[r][i] : i \in DOMAIN delivered[r]}
    IN  /\ Len(delivered[r]) + (IF results[r] = "none" THEN 0 ELSE 1) <= 1
        /\ "value" \in given => logs[r] = <<"COMPLETED">>
        /\ "error" \in given => logs[r] = <<"FAILED">>

\* Every verdict on a text request whose task is gone has been written to the
\* audit log, and nothing is written before there is a verdict.
AuditComplete ==
  /\ \A r \in emitted : logs[r] # <<>>
  /\ \A r \in Requests \ tasks : (Text(r) /\ logs[r] # <<>>) => r \in emitted

\* No model call is started, and no value is published, at or after the
\* request's deadline, though the clock advances during prepare().
DeadlineRespected ==
  [][\A r \in Requests :
       \/ thread'[r] = "running" /\ thread[r] # "running"
       \/ results'[r] = "value" /\ results[r] # "value"
     => now < deadline[r]]_allVars

\* There is an answer for each request with a deadline although its model call
\* may never return ("safe cancellation does not wait for the model"): again and
\* again nobody waits for one.  A request is made once, so each is answered.
AnsweredByDeadline ==
  []<>(\A r \in Requests : deadline[r] <= MaxTime => results[r] # "none" \/ delivered[r] # <<>>)

\* A hung model call cannot starve visual review: once the deadlines of the
\* queued text requests have passed the head of the queue is clear, and a
\* review gets one of the slots that MaxWorkers leaves free.
ReviewServed == []<>(\A r \in pending : kind[r].control)

(***************************************************************************)
(* What the runner promises its callers                                    *)
(***************************************************************************)

\* A queued task waits, and a leased one is computed until _finish() has given
\* its lease back; an answer is gone once poll() has returned it.
CallStage(r) ==
  IF r \in active THEN "computing"
  ELSE IF r \in tasks THEN "waiting"
  ELSE IF results[r] # "none" \/ delivered[r] # <<>> THEN "over" ELSE "new"
CallAnswer(r) ==
  IF results[r] # "none" THEN results[r]
  ELSE IF delivered[r] # <<>> THEN "gone" ELSE "none"

Calls == INSTANCE RequestLifecycle
  WITH Slots <- MaxWorkers,
       stage <- [r \in Requests |-> CallStage(r)],
       answer <- [r \in Requests |-> CallAnswer(r)]

\* Seen by those who submit, cancel and poll, the runner with its Broker, its
\* pump, its deadlines and its threads does what RequestLifecycle says, with
\* max_workers calls under way at most, revoked ones included.
ImplementsCalls == Calls!RequestSpec
=============================================================================
